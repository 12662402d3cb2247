-------------------------- MODULE AgentWaitProofs --------------------------
(***************************************************************************)
(* Proofs about what an agent waits for and keeps: of AgentWait, for every *)
(* timeout, interval, number of stages and set of keys; and of             *)
(* AgentInspection, for every policy of the Service, every entry that a    *)
(* custom cache may restore, any sessions, Urls, relays and lifetimes.     *)
(***************************************************************************)
EXTENDS AgentWait, AgentInspection, FiniteSetTheorems, TLAPS

----------------------------------------------------------------------------
\* How often the interval fits the timeout.
Fits == Timeout \div Interval

\* Fits is what division makes it.
LEMMA FitsBound ==
    /\ Fits \in Nat
    /\ Fits * Interval <= Timeout
    /\ Timeout < Fits * Interval + Interval
BY PositiveBounds DEF Fits

(***************************************************************************)
(* Type correctness.                                                       *)
(***************************************************************************)

\* A count stays one.
LEMMA AdvanceType ==
    ASSUME NEW n \in Nat, NEW bound
    PROVE  Advance(n, bound) \in Nat
BY DEF Advance

\* A poll begins well typed.
LEMMA BeginPollType ==
    ASSUME TypeOK, NEW from, BeginPoll(from)
    PROVE  /\ pc' = "keying" /\ polls' \in Nat /\ used' = {} /\ stage' = 0 /\ key' = None
           /\ context' \in Contexts
BY DEF BeginPoll, Goto, Advance, TypeOK

\* Whatever the Platform answers, it answers a request.
LEMMA AnswerType ==
    ASSUME TypeOK, key \in Keys, NEW to, PlatformAnswers(to)
    PROVE  got' \in Requests /\ answered' \in [Keys -> Requests \cup {None}]
<1>1. [poll |-> polls, stage |-> stage, context |-> context] \in Requests
  BY DEF TypeOK, Requests
<1>2. QED
  BY <1>1 DEF TypeOK, PlatformAnswers

\* A request has a key of its own once it is sent.
Keyed == pc \in {"signing", "pending"} => key \in Keys

Typed == TypeOK /\ Keyed

\* The initial state is well typed.
LEMMA InitTyped == Init => Typed
BY ClockBound DEF Init, Typed, TypeOK, Keyed, Steps, Outcomes

\* Every step keeps the types.
LEMMA NextTyped == Typed /\ [Next]_vars => Typed'
<1> SUFFICES ASSUME Typed, [Next]_vars PROVE Typed'
  OBVIOUS
<1> USE DEF Steps, Outcomes, pollVars, signVars, platformVars
<1>t. /\ TypeOK /\ Keyed /\ Timeout \in Nat /\ Interval \in Nat /\ MaxStages \in Nat
      /\ Attempts \in Nat
  BY FitsBound, PositiveBounds DEF Typed, Fits, Attempts
<1>1. CASE Start
  <2>1. /\ pc' = "keying" /\ polls' \in Nat /\ used' = {} /\ stage' = 0 /\ key' = None
        /\ context' \in Contexts
    BY <1>t, <1>1, BeginPollType DEF Start
  <2>2. /\ started' = now /\ remaining' = Attempts
        /\ UNCHANGED <<now, slept, resolves, answered, got, outcome>>
    BY <1>1 DEF Start
  <2>3. QED
    BY <1>t, <2>1, <2>2 DEF Typed, TypeOK, Keyed
<1>2. ASSUME NEW k \in Keys, TakeKey(k) PROVE Typed'
  <2>1. stage \in Nat /\ outcome \in Outcomes \cup {None}
    BY <1>t DEF TypeOK
  <2>2. Advance(stage, MaxStages) \in Nat
    BY <2>1, AdvanceType
  <2>3. stage' \in Nat /\ pc' \in {"signing", "done"} /\ outcome' \in {"failed", outcome}
    BY <1>2, <2>1, <2>2 DEF TakeKey, End
  <2>4. QED
    BY <1>t, <1>2, <2>1, <2>3 DEF TakeKey, Typed, TypeOK, Keyed
<1>3. CASE Complete \/ PutOff
  <2>1. PICK to \in {"asking", "pending"} : PlatformAnswers(to)
    BY <1>3 DEF Complete, PutOff
  <2>2. pc = "signing" /\ pc' = to /\ UNCHANGED <<now, pollVars, signVars, outcome>>
    BY <2>1 DEF PlatformAnswers, Goto
  <2>3. key \in Keys
    BY <1>t, <2>2 DEF Keyed
  <2>4. got' \in Requests /\ answered' \in [Keys -> Requests \cup {None}]
    BY <1>t, <2>1, <2>3, AnswerType
  <2>5. QED
    BY <1>t, <2>2, <2>3, <2>4 DEF Typed, TypeOK, Keyed
<1>4. CASE SignFails \/ NotResolved \/ SendFails \/ Decided \/ Undecided
  BY <1>t, <1>4 DEF SignFails, NotResolved, SendFails, Decided, Undecided, End, Goto, Typed, TypeOK, Keyed
<1>5. CASE Resolve
  BY <1>t, <1>5 DEF Resolve, Goto, Typed, TypeOK, Keyed
<1>6. CASE Judge
  <2>1. remaining \in Nat
    BY <1>t DEF TypeOK
  <2>2. remaining' = (IF remaining = 0 THEN 0 ELSE remaining - 1)
    BY <1>6 DEF Judge
  <2>3. remaining' \in Nat
    BY <2>1, <2>2
  <2>4. \/ pc' = "done" /\ outcome' = "timeout"
        \/ pc' = "sleeping" /\ UNCHANGED outcome
    BY <1>6 DEF Judge, End
  <2>5. UNCHANGED <<now, started, polls, slept, resolves, used, stage, key, context, answered, got>>
    BY <1>6 DEF Judge
  <2>6. QED
    BY <1>t, <2>3, <2>4, <2>5 DEF Typed, TypeOK, Keyed
<1>7. CASE Sleep
  <2>1. /\ pc' = "keying" /\ polls' \in Nat /\ used' = {} /\ stage' = 0 /\ key' = None
        /\ context' \in Contexts
    BY <1>t, <1>7, BeginPollType DEF Sleep
  <2>2. /\ slept' = (IF slept < Timeout THEN slept + Interval ELSE slept)
        /\ UNCHANGED <<now, started, remaining, resolves, answered, got, outcome>>
    BY <1>7 DEF Sleep
  <2>3. slept \in Nat
    BY <1>t DEF TypeOK
  <2>4. slept' \in Nat
    BY <1>t, <2>2, <2>3
  <2>5. QED
    BY <1>t, <2>1, <2>2, <2>4 DEF Typed, TypeOK, Keyed
<1>8. CASE SetClock \/ UNCHANGED vars
  BY <1>t, <1>8 DEF SetClock, vars, Typed, TypeOK, Keyed
<1>9. QED
  BY <1>1, <1>2, <1>3, <1>4, <1>5, <1>6, <1>7, <1>8 DEF Next, Progress

----------------------------------------------------------------------------
(***************************************************************************)
(* The two bounds.  Polls and remaining attempts add up, and so do what    *)
(* was slept and what remains to be; the keys of a signature are as many   *)
(* as its stages.                                                          *)
(***************************************************************************)

Polling == pc \in {"keying", "signing", "pending", "asking", "judging"}

PollsAddUp ==
    /\ polls <= Attempts
    /\ pc = "idle" => polls = 0 /\ slept = 0
    /\ Polling =>
        /\ 1 <= remaining /\ polls + remaining = Attempts + 1
        /\ slept + remaining * Interval = Fits * Interval + Interval
    /\ pc = "sleeping" =>
        /\ 1 <= remaining /\ polls + remaining = Attempts
        /\ slept + remaining * Interval = Fits * Interval

StagesAddUp ==
    /\ stage <= MaxStages
    /\ pc # "done" => stage = Cardinality(used)

Ended ==
    /\ outcome = None <=> pc # "done"
    /\ TimeoutJustified

\* What the Platform has kept was asked for in a poll so far, and under one of this
\* signature's keys if in this poll; it has not seen the key of the current request.
KeptAnswers ==
    /\ \A k \in Keys : answered[k] # None => answered[k].poll <= polls
    /\ pc # "done" =>
        \A k \in Keys : answered[k] # None /\ answered[k].poll = polls => k \in used
    /\ pc = "signing" => key \in used /\ (answered[key] # None => answered[key].poll # polls)

WaitInv == PollsAddUp /\ StagesAddUp /\ Ended /\ KeptAnswers /\ AnswersAreNew

\* At first nothing has been asked for.
LEMMA InitWait == Init => WaitInv
<1> SUFFICES ASSUME Init PROVE WaitInv
  OBVIOUS
<1>1. Attempts \in Nat /\ MaxStages \in Nat /\ Cardinality({}) = 0
  BY FitsBound, PositiveBounds, FS_EmptySet DEF Fits, Attempts
<1>2. PollsAddUp
  BY <1>1 DEF Init, PollsAddUp, Polling
<1>3. StagesAddUp
  BY <1>1, PositiveBounds DEF Init, StagesAddUp
<1>4. Ended
  BY NoneIsNoOutcome DEF Init, Ended, TimeoutJustified, Outcomes
<1>5. KeptAnswers /\ AnswersAreNew
  BY DEF Init, KeptAnswers, AnswersAreNew
<1>6. QED
  BY <1>2, <1>3, <1>4, <1>5 DEF WaitInv

\* A poll begins with no keys used, and with a number the Platform has not seen.
LEMMA BeginPollStep ==
    ASSUME Typed, WaitInv, NEW from \in {"idle", "sleeping"}, BeginPoll(from),
           UNCHANGED <<answered, got, outcome>>
    PROVE  /\ polls' = polls + 1
           /\ StagesAddUp' /\ Ended' /\ KeptAnswers' /\ AnswersAreNew'
<1>t. /\ polls \in Nat /\ Attempts \in Nat /\ MaxStages \in Nat /\ polls <= Attempts
      /\ answered \in [Keys -> Requests \cup {None}] /\ remaining \in Nat
  BY FitsBound, PositiveBounds DEF Typed, TypeOK, WaitInv, PollsAddUp, Fits, Attempts
<1>1. pc = from /\ pc' = "keying" /\ polls' = polls + 1 /\ used' = {} /\ stage' = 0
  BY <1>t DEF BeginPoll, Goto, Advance
<1>2. StagesAddUp'
  BY <1>t, <1>1, FS_EmptySet DEF StagesAddUp
<1>3. Ended'
  BY <1>1, NoneIsNoOutcome DEF WaitInv, Ended, TimeoutJustified, Outcomes
<1>4. KeptAnswers'
  <2>1. \A k \in Keys : answered[k] # None => answered[k].poll \in Nat /\ answered[k].poll <= polls
    BY <1>t DEF WaitInv, KeptAnswers, Requests
  <2>2. QED
    BY <1>t, <1>1, <2>1 DEF KeptAnswers
<1>5. QED
  BY <1>1, <1>2, <1>3, <1>4 DEF AnswersAreNew

\* A key for a stage.
LEMMA TakeKeyStep ==
    ASSUME Typed, WaitInv, NEW k \in Keys, TakeKey(k)
    PROVE  WaitInv'
<1>t. /\ stage \in Nat /\ MaxStages \in Nat /\ used \subseteq Keys
      /\ IsFiniteSet(used) /\ Cardinality(used) \in Nat
  BY PositiveBounds, FiniteKeys, FS_Subset, FS_CardinalityType DEF Typed, TypeOK
<1>1. pc = "keying" /\ key' = k /\ used' = used \cup {k}
      /\ UNCHANGED <<now, started, remaining, polls, slept, resolves, context, answered, got>>
  BY DEF TakeKey, pollVars, platformVars
<1>2. stage = Cardinality(used) /\ stage <= MaxStages
  BY <1>1 DEF WaitInv, StagesAddUp
<1>3. CASE k \notin used /\ Cardinality(used') <= MaxStages
  <2>1. pc' = "signing" /\ stage' = Advance(stage, MaxStages) /\ UNCHANGED outcome
    BY <1>3 DEF TakeKey
  <2>2. Cardinality(used') = Cardinality(used) + 1
    BY <1>t, <1>1, <1>3, FS_AddElement
  <2>3. StagesAddUp'
    BY <1>t, <1>2, <1>3, <2>1, <2>2 DEF StagesAddUp, Advance
  <2>4. KeptAnswers'
    BY <1>1, <1>3, <2>1 DEF WaitInv, KeptAnswers
  <2>5. PollsAddUp'
    BY <1>1, <2>1 DEF WaitInv, PollsAddUp, Polling
  <2>6. QED
    BY <1>1, <2>1, <2>3, <2>4, <2>5 DEF WaitInv, Ended, TimeoutJustified, AnswersAreNew
<1>4. CASE ~(k \notin used /\ Cardinality(used') <= MaxStages)
  <2>1. pc' = "done" /\ outcome' = "failed" /\ stage' = stage
    BY <1>4 DEF TakeKey, End
  <2>2. outcome' # None
    BY <2>1, NoneIsNoOutcome DEF Outcomes
  <2>3. QED
    BY <1>1, <1>2, <2>1, <2>2 DEF WaitInv, PollsAddUp, Polling, StagesAddUp, Ended,
                                  TimeoutJustified, KeptAnswers, AnswersAreNew
<1>5. QED
  BY <1>3, <1>4

\* An answer: under a fresh key it can only be to this request.
LEMMA AnswerStep ==
    ASSUME Typed, WaitInv, NEW to \in {"asking", "pending"}, PlatformAnswers(to)
    PROVE  WaitInv'
<1> DEFINE thisPoll == [poll |-> polls, stage |-> stage, context |-> context]
<1>t. /\ polls \in Nat /\ answered \in [Keys -> Requests \cup {None}]
      /\ stage \in Nat /\ context \in Contexts
  BY DEF Typed, TypeOK
<1>1. /\ pc = "signing" /\ pc' = to
      /\ UNCHANGED <<now, started, remaining, polls, slept, resolves, used, stage, key, context, outcome>>
  BY DEF PlatformAnswers, Goto, pollVars, signVars
<1>2. key \in Keys /\ key \in used
  BY <1>1 DEF Typed, Keyed, WaitInv, KeptAnswers
<1>3. answered[key] = None /\ answered' = [answered EXCEPT ![key] = thisPoll] /\ got' = thisPoll
  BY <1>1, <1>2 DEF PlatformAnswers, SameRequest, WaitInv, KeptAnswers
<1>4. KeptAnswers'
  BY <1>t, <1>1, <1>2, <1>3 DEF WaitInv, KeptAnswers
<1>5. AnswersAreNew'
  BY <1>1, <1>3 DEF AnswersAreNew
<1>6. PollsAddUp' /\ StagesAddUp' /\ Ended'
  BY <1>1 DEF WaitInv, PollsAddUp, Polling, StagesAddUp, Ended, TimeoutJustified
<1>7. QED
  BY <1>4, <1>5, <1>6 DEF WaitInv

\* The wait is over, for another reason than time.
LEMMA EndStep ==
    ASSUME Typed, WaitInv, NEW o \in Outcomes \ {"timeout"}, End(o),
           UNCHANGED <<now, pollVars, signVars, platformVars>>
    PROVE  WaitInv'
<1>1. o # None /\ pc' = "done" /\ outcome' = o
  BY NoneIsNoOutcome DEF End
<1>2. QED
  BY <1>1 DEF pollVars, signVars, platformVars, WaitInv, PollsAddUp, Polling, StagesAddUp, Ended,
              TimeoutJustified, KeptAnswers, AnswersAreNew

\* The judgement after an answer that decided nothing.
LEMMA JudgeStep ==
    ASSUME Typed, WaitInv, Judge
    PROVE  WaitInv'
<1>t. /\ remaining \in Nat /\ polls \in Nat /\ slept \in Nat /\ Interval \in Nat /\ Timeout \in Nat
      /\ now \in Nat /\ started \in Nat
  BY ClockBound, PositiveBounds DEF Typed, TypeOK
<1>1. /\ pc = "judging" /\ remaining' = IF remaining = 0 THEN 0 ELSE remaining - 1
      /\ UNCHANGED <<now, started, polls, slept, resolves, used, stage, key, context, answered, got>>
  BY DEF Judge, signVars, platformVars
<1>2. /\ 1 <= remaining /\ polls + remaining = Attempts + 1 /\ polls <= Attempts
      /\ slept + remaining * Interval = Fits * Interval + Interval
  BY <1>1 DEF WaitInv, PollsAddUp, Polling
<1>3. remaining' = remaining - 1
  BY <1>t, <1>1, <1>2
<1>4. Attempts = Fits + 1 /\ Fits \in Nat
  BY FitsBound DEF Attempts, Fits
<1>5. CASE now - started >= Timeout \/ remaining' = 0
  <2>1. pc' = "done" /\ outcome' = "timeout" /\ outcome' # None
    BY <1>5, NoneIsNoOutcome DEF Judge, End, Outcomes
  <2>2. now - started >= Timeout \/ slept + Interval > Timeout
    <3>1. CASE remaining' = 0
      <4>1. remaining = 1
        BY <1>t, <1>3, <3>1
      <4>2. slept = Fits * Interval
        BY <1>t, <1>2, <1>4, <4>1
      <4>3. QED
        BY <1>t, <4>2, FitsBound
    <3>2. QED
      BY <1>5, <3>1
  <2>3. QED
    BY <1>1, <1>2, <2>1, <2>2 DEF WaitInv, PollsAddUp, Polling, StagesAddUp, Ended,
                                  TimeoutJustified, KeptAnswers, AnswersAreNew
<1>6. CASE ~(now - started >= Timeout \/ remaining' = 0)
  <2>1. pc' = "sleeping" /\ outcome' = outcome
    BY <1>6 DEF Judge
  <2>2. 1 <= remaining' /\ polls + remaining' = Attempts
    BY <1>t, <1>2, <1>3, <1>4, <1>6
  <2>3. slept + remaining' * Interval = Fits * Interval
    BY <1>t, <1>2, <1>3, <1>4
  <2>4. QED
    BY <1>1, <1>2, <2>1, <2>2, <2>3 DEF WaitInv, PollsAddUp, Polling, StagesAddUp, Ended,
                                  TimeoutJustified, KeptAnswers, AnswersAreNew
<1>7. QED
  BY <1>5, <1>6

\* Every step keeps the bounds.
LEMMA NextWait == Typed /\ WaitInv /\ [Next]_vars => WaitInv'
<1> SUFFICES ASSUME Typed, WaitInv, [Next]_vars PROVE WaitInv'
  OBVIOUS
<1>t. /\ remaining \in Nat /\ polls \in Nat /\ slept \in Nat /\ Interval \in Nat \ {0}
      /\ Timeout \in Nat /\ Attempts = Fits + 1 /\ Fits \in Nat
  BY FitsBound, PositiveBounds DEF Typed, TypeOK, Attempts, Fits
<1>1. CASE Start
  <2>1. polls' = polls + 1 /\ StagesAddUp' /\ Ended' /\ KeptAnswers' /\ AnswersAreNew'
    BY <1>1, BeginPollStep DEF Start, platformVars
  <2>2. polls = 0 /\ slept' = 0 /\ remaining' = Attempts /\ pc' = "keying"
    BY <1>1 DEF Start, BeginPoll, Goto, WaitInv, PollsAddUp
  <2>3. PollsAddUp'
    BY <1>t, <2>1, <2>2 DEF PollsAddUp, Polling
  <2>4. QED
    BY <2>1, <2>3 DEF WaitInv
<1>2. CASE Sleep
  <2>1. polls' = polls + 1 /\ StagesAddUp' /\ Ended' /\ KeptAnswers' /\ AnswersAreNew'
    BY <1>2, BeginPollStep DEF Sleep, platformVars
  <2>2. /\ remaining' = remaining /\ pc' = "keying"
        /\ slept' = IF slept < Timeout THEN slept + Interval ELSE slept
        /\ 1 <= remaining /\ polls + remaining = Attempts
        /\ slept + remaining * Interval = Fits * Interval
    BY <1>2 DEF Sleep, BeginPoll, Goto, WaitInv, PollsAddUp
  <2>3. slept < Timeout
    <3>1. remaining * Interval > 0
      BY <1>t, <2>2
    <3>2. Fits * Interval \in Nat /\ remaining * Interval \in Nat
      BY <1>t
    <3>3. QED
      BY <1>t, <2>2, <3>1, <3>2, FitsBound
  <2>4. PollsAddUp'
    BY <1>t, <2>1, <2>2, <2>3 DEF PollsAddUp, Polling
  <2>5. QED
    BY <2>1, <2>4 DEF WaitInv
<1>3. CASE SignFails \/ NotResolved \/ SendFails \/ Decided
  <2>1. PICK o \in Outcomes \ {"timeout"} :
            End(o) /\ UNCHANGED <<now, pollVars, signVars, platformVars>>
    BY <1>3 DEF SignFails, NotResolved, SendFails, Decided, Outcomes
  <2>2. QED
    BY <2>1, EndStep
<1>4. CASE Undecided \/ UNCHANGED vars
  BY <1>4 DEF Undecided, Goto, vars, pollVars, signVars, platformVars, WaitInv, PollsAddUp, Polling,
              StagesAddUp, Ended, TimeoutJustified, KeptAnswers, AnswersAreNew
<1>5. CASE Resolve
  BY <1>5 DEF Resolve, Goto, pollVars, platformVars, WaitInv, PollsAddUp, Polling,
              StagesAddUp, Ended, TimeoutJustified, KeptAnswers, AnswersAreNew
<1>6. CASE SetClock
  <2>1. outcome = None
    BY <1>6 DEF SetClock, WaitInv, Ended
  <2>2. outcome # "timeout"
    BY <2>1, NoneIsNoOutcome DEF Outcomes
  <2>3. QED
    BY <1>6, <2>2 DEF SetClock, pollVars, signVars, platformVars, WaitInv, PollsAddUp, Polling,
              StagesAddUp, Ended, TimeoutJustified, KeptAnswers, AnswersAreNew
<1>7. QED
  BY <1>1, <1>2, <1>3, <1>4, <1>5, <1>6, TakeKeyStep, AnswerStep, JudgeStep
     DEF Next, Progress, Complete, PutOff

\* The bounds hold in every state of a wait.
THEOREM InductiveInvariant == Spec => [](Typed /\ WaitInv)
<1>1. Init => Typed /\ WaitInv
  BY InitTyped, InitWait
<1>2. Typed /\ WaitInv /\ [Next]_vars => (Typed /\ WaitInv)'
  BY NextTyped, NextWait
<1>3. QED
  BY <1>1, <1>2, PTL DEF Spec

\* A wait makes only so many requests, whatever its clock and its Platform do.
THEOREM Bounded == Spec => []RequestsBounded
<1>1. WaitInv => RequestsBounded
  BY DEF WaitInv, PollsAddUp, StagesAddUp, RequestsBounded
<1>2. QED
  BY <1>1, InductiveInvariant, PTL

\* What the Agent acts on was answered to its latest request.
THEOREM NeverReplayed == Spec => []AnswersAreNew
<1>1. WaitInv => AnswersAreNew
  BY DEF WaitInv
<1>2. QED
  BY <1>1, InductiveInvariant, PTL

\* A wait that times out has waited.
THEOREM TimeoutsEarned == Spec => []TimeoutJustified
<1>1. WaitInv => TimeoutJustified
  BY DEF WaitInv, Ended
<1>2. QED
  BY <1>1, InductiveInvariant, PTL

(***************************************************************************)
(* AgentInspection: what the headers say of the age of a document, through *)
(* the whole seconds they say it in.                                       *)
(***************************************************************************)
\* Whole seconds are short of an instant by less than one.
LEMMA WholeSecondsBound ==
    ASSUME NEW x \in Nat
    PROVE  /\ WholeSecondsOf(x) \in Nat
           /\ Ticks(WholeSecondsOf(x)) \in Int
           /\ Ticks(WholeSecondsOf(x)) <= x
           /\ x - (TicksPerSecond - 1) <= Ticks(WholeSecondsOf(x))
<1> DEFINE q == x \div TicksPerSecond
           m == x % TicksPerSecond
<1>1. TicksPerSecond \in Nat \ {0}
  BY WholeSeconds
<1>2. q \in Nat /\ m \in 0..(TicksPerSecond - 1) /\ x = TicksPerSecond * q + m
  BY <1>1
<1> HIDE DEF q, m
<1>3. q * TicksPerSecond = TicksPerSecond * q /\ TicksPerSecond * q \in Int
  BY <1>1, <1>2
<1> QED
  BY <1>1, <1>2, <1>3 DEF WholeSecondsOf, Ticks, q

\* Ticks is linear and grows with its argument.
LEMMA TicksLinear ==
    ASSUME NEW a \in Int, NEW b \in Int
    PROVE  /\ Ticks(a) \in Int
           /\ Ticks(a + b) = Ticks(a) + Ticks(b)
           /\ a <= b => Ticks(a) <= Ticks(b)
<1>1. TicksPerSecond \in Nat \ {0}
  BY WholeSeconds
<1>2. a * TicksPerSecond \in Int /\ b * TicksPerSecond \in Int
      /\ (a + b) * TicksPerSecond = a * TicksPerSecond + b * TicksPerSecond
  BY <1>1
<1>3. ASSUME a <= b PROVE a * TicksPerSecond <= b * TicksPerSecond
  <2>1. b - a \in Nat /\ (b - a) * TicksPerSecond >= 0
    BY <1>1, <1>3
  <2>2. (b - a) * TicksPerSecond = b * TicksPerSecond - a * TicksPerSecond
    BY <1>1
  <2> QED
    BY <1>2, <2>1, <2>2
<1> QED
  BY <1>2, <1>3 DEF Ticks

\* What a response says of itself, generated at an instant and kept in a relay for a time.
LEMMA HeadersOfResponse ==
    ASSUME NEW p \in Policies, NEW v \in Nat, NEW g \in Nat, NEW a \in Nat
    PROVE  LET h == HeadersOf(p, v, g, a) IN
           /\ h \in Headers
           /\ h.validator \in {v, Absent}
           /\ Age(h) # Malformed => Age(h) \in Nat /\ a - (TicksPerSecond - 1) <= Ticks(Age(h))
           /\ h.expires \in Int => h.expires <= g + Ticks(LongestLifetime)
<1> DEFINE h == HeadersOf(p, v, g, a)
<1>1. /\ WholeSecondsOf(a) \in Nat /\ a - (TicksPerSecond - 1) <= Ticks(WholeSecondsOf(a))
      /\ WholeSecondsOf(g) \in Nat /\ Ticks(WholeSecondsOf(g)) <= g
      /\ Ticks(WholeSecondsOf(g)) \in Int /\ Ticks(WholeSecondsOf(a)) \in Int
  BY WholeSecondsBound
<1>2. TicksPerSecond \in Nat \ {0} /\ LongestLifetime \in Nat
  BY WholeSeconds, InspectionBounds
<1>3. /\ h.control = p.control /\ h.vary = p.vary
      /\ h.validator = (IF p.validated THEN v ELSE Absent)
      /\ h.age = (IF a = 0 THEN p.age ELSE WholeSecondsOf(a))
      /\ h.date = (IF p.dated THEN Ticks(WholeSecondsOf(g)) ELSE Absent)
      /\ h.expires = (IF p.expires \in {Absent, Malformed} THEN p.expires
                      ELSE Ticks(WholeSecondsOf(g) + p.expires))
  BY DEF HeadersOf
<1>4. p.expires \notin {Absent, Malformed} =>
          /\ p.expires \in Int /\ p.expires <= LongestLifetime
          /\ Ticks(WholeSecondsOf(g) + p.expires) \in Int
          /\ Ticks(WholeSecondsOf(g) + p.expires) <= g + Ticks(LongestLifetime)
  <2>1. SUFFICES ASSUME p.expires \notin {Absent, Malformed}
                 PROVE  /\ p.expires \in Int /\ p.expires <= LongestLifetime
                        /\ Ticks(WholeSecondsOf(g) + p.expires) \in Int
                        /\ Ticks(WholeSecondsOf(g) + p.expires) <= g + Ticks(LongestLifetime)
    OBVIOUS
  <2>2. p.expires \in Int /\ p.expires <= LongestLifetime
    BY <2>1, PoliciesHaveType
  <2>3. Ticks(WholeSecondsOf(g) + p.expires) = Ticks(WholeSecondsOf(g)) + Ticks(p.expires)
    <3>1. WholeSecondsOf(g) \in Int
      BY <1>1
    <3> QED
      BY <2>2, <3>1, TicksLinear
  <2>4. /\ Ticks(p.expires) \in Int /\ Ticks(p.expires) <= Ticks(LongestLifetime)
        /\ Ticks(LongestLifetime) \in Int
    <3>1. LongestLifetime \in Int
      BY <1>2
    <3> QED
      BY <2>2, <3>1, TicksLinear
  <2> QED
    BY <1>1, <1>2, <2>2, <2>3, <2>4
<1>5. h.age \in Nat \cup {Absent, Malformed}
  BY <1>1, <1>3, PoliciesHaveType
<1>6. h \in Headers
  <2>1. p.control \in Controls /\ p.vary \in Varies
    BY DEF Controls, Varies
  <2>2. h.date \in Int \cup {Absent, Malformed} /\ h.expires \in Int \cup {Absent, Malformed}
        /\ h.validator \in Nat \cup {Absent}
    BY <1>1, <1>3, <1>4
  <2> QED
    BY <1>3, <1>5, <2>1, <2>2 DEF HeadersOf, Headers
<1>7. Age(h) # Malformed => Age(h) \in Nat /\ a - (TicksPerSecond - 1) <= Ticks(Age(h))
  <2>1. CASE a = 0
    <3>1. Age(h) # Malformed => Age(h) \in Nat
      BY <1>5 DEF Age
    <3>2. ASSUME NEW n \in Nat PROVE 0 <= Ticks(n) /\ Ticks(n) \in Int
      BY <1>2 DEF Ticks
    <3> QED
      BY <1>2, <2>1, <3>1, <3>2
  <2>2. CASE a # 0
    BY <1>1, <1>3, <2>2, AbsentIsNothing DEF Age
  <2> QED
    BY <2>1, <2>2
<1>8. h.expires \in Int => h.expires <= g + Ticks(LongestLifetime)
  BY <1>3, <1>4, AbsentIsNothing
<1> QED
  BY <1>3, <1>6, <1>7, <1>8

\* The delay of the request is added to the age, and to nothing else.
LEMMA DelayAdded ==
    ASSUME NEW w \in Headers, NEW d \in Nat, NEW h,
           h = (IF Age(w) = Malformed THEN w ELSE [w EXCEPT !.age = Age(w) + d])
    PROVE  /\ h \in Headers /\ h.validator = w.validator /\ h.expires = w.expires
           /\ Age(h) # Malformed =>
                Age(w) # Malformed /\ Age(w) \in Nat /\ Age(h) = Age(w) + d
<1>1. Age(w) \in Nat \cup {Malformed}
  BY DEF Age, Headers
<1>2. CASE Age(w) = Malformed
  BY <1>2
<1>3. CASE Age(w) # Malformed
  <2>1. Age(w) \in Nat /\ Age(w) + d \in Nat
    BY <1>1, <1>3
  <2>2. h \in Headers /\ h.age = Age(w) + d /\ h.validator = w.validator /\ h.expires = w.expires
    BY <1>3, <2>1 DEF Headers
  <2>3. Age(h) = Age(w) + d
    BY <2>1, <2>2, AbsentIsNothing DEF Age
  <2> QED
    BY <1>3, <2>1, <2>2, <2>3
<1> QED
  BY <1>2, <1>3

\* What is kept of a first response.
LEMMA CacheHeadersAlone ==
    ASSUME NEW response \in Headers, NEW at \in Nat, NEW received \in Nat, at <= received,
           NEW h, h = CacheHeaders(response, Absent, at, received)
    PROVE  /\ h \in Headers /\ h.validator = response.validator /\ h.expires = response.expires
           /\ Age(h) # Malformed =>
                /\ Age(response) # Malformed
                /\ Age(response) \in Nat
                /\ Age(h) = Age(response) + WholeSecondsOf(received - at)
<1> DEFINE w == CacheHeadersWithoutDelay(response, Absent, at, received)
           d == WholeSecondsOf(received - at)
<1>1. w = response
  BY DEF CacheHeadersWithoutDelay
<1>2. d \in Nat /\ h = (IF Age(w) = Malformed THEN w ELSE [w EXCEPT !.age = Age(w) + d])
  <2>1. d \in Nat /\ Larger(0, d) = d
    BY WholeSecondsBound DEF Larger
  <2> QED
    BY <2>1 DEF CacheHeaders
<1> HIDE DEF w, d
<1>3. /\ h \in Headers /\ h.validator = response.validator /\ h.expires = response.expires
      /\ Age(h) # Malformed =>
           Age(response) # Malformed /\ Age(response) \in Nat /\ Age(h) = Age(response) + d
  BY <1>1, <1>2, DelayAdded, Zenon
<1> QED
  BY <1>3 DEF d

\* What is kept of a response and of the one it confirms, but for the delay.
LEMMA HeadersMerged ==
    ASSUME NEW response \in Headers, NEW prior \in Headers, NEW at, NEW received
    PROVE  LET w == CacheHeadersWithoutDelay(response, prior, at, received) IN
           /\ w \in Headers /\ w.age = response.age
           /\ w.validator = response.validator \/ w.validator = prior.validator
           /\ w.expires = response.expires \/ w.expires = prior.expires
<1>1. CASE prior = Absent
  BY <1>1 DEF CacheHeadersWithoutDelay
<1>2. CASE prior # Absent
  BY <1>2 DEF CacheHeadersWithoutDelay, Headers, Merged
<1> QED
  BY <1>1, <1>2

\* A fresh entry has not outlived its lifetime, by its age or by its expiry.
LEMMA FreshIsYoung ==
    ASSUME NEW h \in Headers, NEW cachedAt \in Nat, NEW at \in Nat, cachedAt <= at,
           CacheFresh(h, cachedAt, at)
    PROVE  /\ Age(h) # Malformed
           /\ \/ at - cachedAt + Ticks(Age(h)) < Ticks(LongestLifetime)
              \/ h.expires \in Int /\ at < h.expires
<1>1. /\ h.control # Malformed /\ Lifetime(h, cachedAt) # Malformed /\ Age(h) # Malformed
      /\ InitialAge(h, cachedAt) + Larger(0, at - cachedAt) < Lifetime(h, cachedAt)
  BY DEF CacheFresh, CacheStorable
<1>2. Larger(0, at - cachedAt) = at - cachedAt
  BY DEF Larger
<1>3. Age(h) \in Nat /\ Ticks(Age(h)) \in Int
  <2>1. Age(h) \in Nat
    BY <1>1 DEF Age, Headers
  <2> QED
    BY <2>1, TicksLinear
<1>4. DateOr(h, cachedAt) \in Int
  BY DEF DateOr, Headers
<1>5. /\ InitialAge(h, cachedAt) \in Int /\ Ticks(Age(h)) <= InitialAge(h, cachedAt)
      /\ 0 <= InitialAge(h, cachedAt)
      /\ cachedAt - DateOr(h, cachedAt) <= InitialAge(h, cachedAt)
  BY <1>3, <1>4 DEF InitialAge, Larger
<1>6. LongestLifetime \in Nat /\ DefaultLifetime \in Nat /\ DefaultLifetime <= LongestLifetime
  BY InspectionBounds, WholeSeconds
<1>7. Ticks(LongestLifetime) \in Int
  BY <1>6, TicksLinear
<1>8. CASE MaxAges(h) # <<>>
  <2>1. /\ Len(MaxAges(h)) = 1 /\ MaxAges(h)[1] # Malformed
        /\ Lifetime(h, cachedAt) = Ticks(MaxAges(h)[1])
    BY <1>1, <1>8 DEF Lifetime
  <2>2. h.control \in Controls \ {Absent, Malformed} /\ MaxAges(h) = h.control.maxAges
    BY <1>1, <1>8 DEF MaxAges, Headers
  <2>3. MaxAges(h) \in Seq(0..LongestLifetime \cup {Malformed})
    BY <2>2, MaxAgesHaveType
  <2>4. MaxAges(h)[1] \in 0..LongestLifetime
    <3> HIDE DEF MaxAges
    <3>1. MaxAges(h)[1] \in 0..LongestLifetime \cup {Malformed}
      BY <2>1, <2>3
    <3> QED
      BY <2>1, <3>1
  <2>5. Ticks(MaxAges(h)[1]) \in Int /\ Ticks(MaxAges(h)[1]) <= Ticks(LongestLifetime)
    <3>1. MaxAges(h)[1] \in Int /\ LongestLifetime \in Int /\ MaxAges(h)[1] <= LongestLifetime
      BY <1>6, <2>4
    <3> QED
      BY <3>1, TicksLinear
  <2> QED
    BY <1>1, <1>2, <1>3, <1>5, <1>7, <2>1, <2>5
<1>9. CASE MaxAges(h) = <<>> /\ h.expires = Absent
  <2>1. Lifetime(h, cachedAt) = Ticks(DefaultLifetime)
    BY <1>9 DEF Lifetime
  <2>2. Ticks(DefaultLifetime) \in Int /\ Ticks(DefaultLifetime) <= Ticks(LongestLifetime)
    <3>1. DefaultLifetime \in Int /\ LongestLifetime \in Int
      BY <1>6
    <3> QED
      BY <1>6, <3>1, TicksLinear
  <2> QED
    BY <1>1, <1>2, <1>3, <1>5, <1>7, <2>1, <2>2
<1>10. CASE MaxAges(h) = <<>> /\ h.expires # Absent
  <2>1. h.expires # Malformed /\ Lifetime(h, cachedAt) = Larger(0, h.expires - DateOr(h, cachedAt))
    BY <1>1, <1>10 DEF Lifetime
  <2>2. h.expires \in Int
    BY <1>10, <2>1 DEF Headers
  <2> QED
    BY <1>1, <1>2, <1>4, <1>5, <2>1, <2>2 DEF Larger
<1> QED
  BY <1>8, <1>9, <1>10

\* An age that has the delay of the request added to it falls short of the time since the
\* response was generated by less than two seconds.
LEMMA AgeCoversDelay ==
    ASSUME NEW n \in Nat, NEW a \in Nat, NEW at \in Nat, NEW sent \in Nat, NEW received \in Nat,
           at <= sent, sent <= received, a <= sent, a - (TicksPerSecond - 1) <= Ticks(n)
    PROVE  received - (sent - a)
             <= Ticks(n + WholeSecondsOf(received - at)) + 2 * (TicksPerSecond - 1)
<1> DEFINE d == WholeSecondsOf(received - at)
<1>1. received - at \in Nat
  OBVIOUS
<1>2. d \in Nat /\ Ticks(d) \in Int /\ received - at - (TicksPerSecond - 1) <= Ticks(d)
  BY <1>1, WholeSecondsBound
<1> HIDE DEF d
<1>3. n \in Int /\ d \in Int
  BY <1>2
<1>4. Ticks(n + d) = Ticks(n) + Ticks(d) /\ Ticks(n) \in Int
  BY <1>3, TicksLinear
<1>5. TicksPerSecond \in Nat
  BY WholeSeconds
<1> QED
  BY <1>2, <1>4, <1>5 DEF d

\* What is sound stays so: time passes, and the Service publishes.
LEMMA SoundStays ==
    ASSUME NEW e \in Entries, InspectionTypeOK, Sound(e),
           clock' \in Nat, clock <= clock',
           \A i \in 0..clock : live[i] \subseteq live'[i]
    PROVE  Sound(e)'
<1>1. clock \in Nat /\ e.cachedAt \in Nat
  BY DEF InspectionTypeOK, Entries
<1>2. \A g \in 0..e.cachedAt : live[g] \subseteq live'[g]
  BY <1>1 DEF Sound
<1> QED
  BY <1>1, <1>2 DEF Sound

\* The entry that a document makes.
LEMMA NewEntryIsSound ==
    ASSUME InspectionTypeOK, NEW s \in Sessions, request[s] # Absent,
           NEW p \in Policies, NEW sent \in request[s].at..clock, NEW age \in 0..MaxAge,
           age <= sent, NEW v \in live[sent - age]
    PROVE  LET e == NewEntry(s, v, HeadersOf(p, v, sent - age, age)) IN
           e \in Entries /\ Sound(e)
<1> DEFINE g == sent - age
           r == HeadersOf(p, v, g, age)
           h == CacheHeaders(r, Absent, request[s].at, clock)
           e == NewEntry(s, v, r)
<1>1. /\ clock \in Nat /\ request[s].at \in Nat /\ request[s].at <= clock
      /\ sent \in Nat /\ age \in Nat /\ g \in Nat /\ g \in 0..clock /\ v \in Nat
      /\ request[s].url \in Urls
  BY InspectionBounds DEF InspectionTypeOK
<1>2. /\ r \in Headers /\ r.validator \in {v, Absent}
      /\ Age(r) # Malformed => Age(r) \in Nat /\ age - (TicksPerSecond - 1) <= Ticks(Age(r))
      /\ r.expires \in Int => r.expires <= g + Ticks(LongestLifetime)
  BY <1>1, HeadersOfResponse
<1> HIDE DEF r, g
<1>3. /\ h \in Headers /\ h.validator = r.validator /\ h.expires = r.expires
      /\ Age(h) # Malformed =>
           /\ Age(r) # Malformed /\ Age(r) \in Nat
           /\ Age(h) = Age(r) + WholeSecondsOf(clock - request[s].at)
  <2> DEFINE at == request[s].at
  <2>1. at \in Nat /\ clock \in Nat /\ at <= clock /\ h = CacheHeaders(r, Absent, at, clock)
    BY <1>1
  <2> HIDE DEF h, at
  <2>2. /\ h \in Headers /\ h.validator = r.validator /\ h.expires = r.expires
        /\ Age(h) # Malformed =>
             Age(r) # Malformed /\ Age(r) \in Nat /\ Age(h) = Age(r) + WholeSecondsOf(clock - at)
    BY <1>2, <2>1, CacheHeadersAlone
  <2> QED
    BY <2>2 DEF at
<1>4. /\ e.version = v /\ e.cachedAt = clock /\ e.headers = h /\ e \in Entries
  BY <1>1, <1>3 DEF NewEntry, Entries
<1> HIDE DEF h, e
<1>5. Age(h) # Malformed => clock - g <= Ticks(Age(h)) + 2 * (TicksPerSecond - 1)
  <2>1. SUFFICES ASSUME Age(h) # Malformed
                 PROVE  clock - g <= Ticks(Age(h)) + 2 * (TicksPerSecond - 1)
    OBVIOUS
  <2>2. /\ Age(r) \in Nat /\ age - (TicksPerSecond - 1) <= Ticks(Age(r))
        /\ Age(h) = Age(r) + WholeSecondsOf(clock - request[s].at)
        /\ request[s].at <= sent /\ sent <= clock
    BY <1>1, <1>2, <1>3, <2>1
  <2> QED
    BY <1>1, <2>2, AgeCoversDelay DEF g
<1>6. Sound(e)
  <2>1. g \in 0..e.cachedAt /\ e.version \in live[g]
    BY <1>1, <1>4 DEF g
  <2> QED
    BY <1>1, <1>2, <1>3, <1>4, <1>5, <2>1 DEF Sound
<1> QED
  BY <1>4, <1>6 DEF e, r, g

\* The entry that a 304 confirms.
LEMMA ConfirmedEntryIsSound ==
    ASSUME InspectionTypeOK, NEW s \in Sessions, request[s] # Absent,
           request[s].cached # Absent, Sound(request[s].cached),
           NEW p \in Policies, NEW sent \in request[s].at..clock, NEW age \in 0..MaxAge,
           age <= sent, NEW v \in live[sent - age], request[s].cached.headers.validator = v
    PROVE  LET e == ConfirmedEntry(s, HeadersOf(p, v, sent - age, age)) IN
           e \in Entries /\ Sound(e)
<1> DEFINE g == sent - age
           r == HeadersOf(p, v, g, age)
           c == request[s].cached
           h == CacheHeaders(r, c.headers, request[s].at, clock)
           e == ConfirmedEntry(s, r)
<1>1. /\ clock \in Nat /\ request[s].at \in Nat /\ request[s].at <= clock
      /\ sent \in Nat /\ age \in Nat /\ g \in Nat /\ g \in 0..clock /\ v \in Nat
      /\ request[s].url \in Urls /\ c \in Entries
  BY InspectionBounds DEF InspectionTypeOK
<1>2. /\ r \in Headers /\ r.validator \in {v, Absent}
      /\ Age(r) # Malformed => Age(r) \in Nat /\ age - (TicksPerSecond - 1) <= Ticks(Age(r))
      /\ r.expires \in Int => r.expires <= g + Ticks(LongestLifetime)
  BY <1>1, HeadersOfResponse
<1>3. /\ c.headers \in Headers /\ c.version = v /\ c.cachedAt \in Nat /\ c.cachedAt <= clock
      /\ c.headers.validator = v
      /\ c.headers.expires \in Int =>
           \E i \in 0..c.cachedAt :
             v \in live[i] /\ c.headers.expires <= i + Ticks(LongestLifetime)
  BY <1>1, AbsentIsNothing DEF Sound, Entries
<1> HIDE DEF r, g, c
<1>4. /\ h \in Headers /\ (h.validator = r.validator \/ h.validator = v)
      /\ (h.expires = r.expires \/ h.expires = c.headers.expires)
      /\ Age(h) # Malformed =>
           /\ Age(r) # Malformed /\ Age(r) \in Nat
           /\ Age(h) = Age(r) + WholeSecondsOf(clock - request[s].at)
  <2> DEFINE at    == request[s].at
             prior == c.headers
  <2>1. /\ at \in Nat /\ clock \in Nat /\ at <= clock /\ r \in Headers /\ prior \in Headers
        /\ prior.validator = v /\ h = CacheHeaders(r, prior, at, clock)
    BY <1>1, <1>2, <1>3
  <2> HIDE DEF h, at, prior
  <2>2. /\ h \in Headers /\ (h.validator = r.validator \/ h.validator = prior.validator)
        /\ (h.expires = r.expires \/ h.expires = prior.expires)
        /\ Age(h) # Malformed =>
             Age(r) # Malformed /\ Age(r) \in Nat /\ Age(h) = Age(r) + WholeSecondsOf(clock - at)
    <3> DEFINE w == CacheHeadersWithoutDelay(r, prior, at, clock)
               d == WholeSecondsOf(clock - at)
    <3>1. /\ w \in Headers /\ w.age = r.age
          /\ w.validator = r.validator \/ w.validator = prior.validator
          /\ w.expires = r.expires \/ w.expires = prior.expires
      <4>1. r \in Headers /\ prior \in Headers
        BY <2>1
      <4> QED
        BY <4>1, HeadersMerged
    <3>2. d \in Nat /\ Larger(0, d) = d
      BY <2>1, WholeSecondsBound DEF Larger
    <3>3. h = (IF Age(w) = Malformed THEN w ELSE [w EXCEPT !.age = Age(w) + d])
      BY <2>1, <3>2 DEF CacheHeaders
    <3>4. Age(w) = Age(r)
      BY <3>1 DEF Age
    <3> HIDE DEF w, d
    <3>5. /\ h \in Headers /\ h.validator = w.validator /\ h.expires = w.expires
          /\ Age(h) # Malformed =>
               Age(w) # Malformed /\ Age(w) \in Nat /\ Age(h) = Age(w) + d
      BY <3>1, <3>2, <3>3, DelayAdded, Zenon
    <3> QED
      BY <3>1, <3>4, <3>5 DEF d
  <2> QED
    BY <2>1, <2>2 DEF at, prior
<1>5. /\ e.version = v /\ e.cachedAt = clock /\ e.headers = h /\ e \in Entries
  BY <1>1, <1>3, <1>4 DEF ConfirmedEntry, Entries, c
<1> HIDE DEF h, e
<1>6. Age(h) # Malformed => clock - g <= Ticks(Age(h)) + 2 * (TicksPerSecond - 1)
  <2>1. SUFFICES ASSUME Age(h) # Malformed
                 PROVE  clock - g <= Ticks(Age(h)) + 2 * (TicksPerSecond - 1)
    OBVIOUS
  <2>2. /\ Age(r) \in Nat /\ age - (TicksPerSecond - 1) <= Ticks(Age(r))
        /\ Age(h) = Age(r) + WholeSecondsOf(clock - request[s].at)
        /\ request[s].at <= sent /\ sent <= clock
    BY <1>1, <1>2, <1>4, <2>1
  <2> QED
    BY <1>1, <2>2, AgeCoversDelay DEF g
<1>7. Sound(e)
  <2>1. g \in 0..e.cachedAt /\ e.version \in live[g]
    BY <1>1, <1>5 DEF g
  <2>2. e.headers.expires \in Int =>
          \E i \in 0..e.cachedAt :
            e.version \in live[i] /\ e.headers.expires <= i + Ticks(LongestLifetime)
    <3>1. CASE h.expires = r.expires
      BY <1>2, <1>5, <2>1, <3>1
    <3>2. CASE h.expires = c.headers.expires
      BY <1>1, <1>3, <1>5, <3>2
    <3> QED
      BY <1>4, <3>1, <3>2
  <2> QED
    BY <1>1, <1>2, <1>4, <1>5, <1>6, <2>1, <2>2 DEF Sound
<1> QED
  BY <1>5, <1>7 DEF e, r, g

\* At first the cache is empty, or holds an entry of a custom cache.
LEMMA InspectionInit == InspectInit => InspectionInvariant
<1> SUFFICES ASSUME InspectInit PROVE InspectionInvariant
  OBVIOUS
<1>1. clock = 0 /\ LastInstant \in Nat /\ InspectUrl \in Urls
  BY InspectionBounds, AdvertisedUrl DEF InspectInit
<1>2. PICK e \in Restored \cup {Absent} :
        cache = [u \in Urls |-> IF u = InspectUrl THEN e ELSE Absent]
  BY DEF InspectInit
<1>3. e \in Entries \cup {Absent}
  BY RestoredAreForeign
<1>4. InspectionTypeOK
  BY <1>1, <1>2, <1>3 DEF InspectInit, InspectionTypeOK
<1>5. DocumentsInOrder
  BY <1>1 DEF InspectInit, DocumentsInOrder
<1>6. EntriesAreSound
  <2>1. \A u \in Urls : cache[u] # Absent => ~cache[u].bound \/ Unusable(cache[u])
    BY <1>2, RestoredAreForeign DEF Unusable, SafeTarget
  <2> QED
    BY <2>1 DEF EntriesAreSound, InspectInit
<1>7. FreshAnswers
  BY DEF InspectInit, FreshAnswers
<1> QED
  BY <1>4, <1>5, <1>6, <1>7 DEF InspectionInvariant

\* The current document is one, and no other comes after it.
LEMMA CurrentDocument ==
    ASSUME InspectionTypeOK, DocumentsInOrder
    PROVE  Current \in Nat /\ Current \in live[clock] /\ \A w \in live[clock] : w <= Current
<1>1. \E v \in live[clock] : \A w \in live[clock] : w <= v
  BY DEF DocumentsInOrder
<1>2. Current \in live[clock] /\ \A w \in live[clock] : w <= Current
  BY <1>1 DEF Current
<1>3. live[clock] \subseteq Nat
  BY DEF InspectionTypeOK
<1> QED
  BY <1>2, <1>3

\* Time and the Service's documents.
LEMMA InspectionWorld ==
    ASSUME InspectionInvariant, Publish \/ Tick
    PROVE  InspectionInvariant'
<1>1. InspectionTypeOK /\ DocumentsInOrder /\ EntriesAreSound /\ FreshAnswers
  BY DEF InspectionInvariant
<1>2. Current \in Nat /\ Current \in live[clock] /\ \A w \in live[clock] : w <= Current
  BY <1>1, CurrentDocument
<1>3. UNCHANGED <<cache, request, answer>>
  BY DEF Publish, Tick
<1>4. clock \in 0..LastInstant /\ LastInstant \in Nat /\ live \in [0..LastInstant -> SUBSET Nat]
  BY <1>1, InspectionBounds DEF InspectionTypeOK
<1>5. /\ clock' \in 0..LastInstant /\ clock <= clock'
      /\ live' \in [0..LastInstant -> SUBSET Nat]
      /\ \A i \in 0..clock : live[i] \subseteq live'[i]
      /\ DocumentsInOrder'
  <2>1. CASE Publish
    <3>1. clock' = clock /\ live' = [live EXCEPT ![clock] = @ \cup {Current + 1}]
      BY <2>1 DEF Publish
    <3>2. live'[clock] = live[clock] \cup {Current + 1}
      BY <1>4, <3>1
    <3>3. \A i \in 0..LastInstant : i # clock => live'[i] = live[i]
      BY <1>4, <3>1
    <3>4. Current + 1 \in live'[clock] /\ \A w \in live'[clock] : w <= Current + 1
      <4>1. live[clock] \subseteq Nat
        BY <1>4
      <4> QED
        BY <1>2, <3>2, <4>1
    <3>5. DocumentsInOrder'
      BY <1>1, <1>4, <3>1, <3>3, <3>4 DEF DocumentsInOrder
    <3> QED
      BY <1>2, <1>4, <3>1, <3>2, <3>3, <3>5
  <2>2. CASE Tick
    <3>1. clock < LastInstant /\ clock' = clock + 1 /\ live' = [live EXCEPT ![clock + 1] = {Current}]
      BY <2>2 DEF Tick
    <3>2. live'[clock + 1] = {Current} /\ \A i \in 0..LastInstant : i # clock + 1 => live'[i] = live[i]
      BY <1>4, <3>1
    <3>3. DocumentsInOrder'
      BY <1>1, <1>2, <1>4, <3>1, <3>2 DEF DocumentsInOrder
    <3> QED
      BY <1>2, <1>4, <3>1, <3>2, <3>3
  <2> QED
    BY <2>1, <2>2
<1>6. clock \in Nat /\ clock' \in Nat
  BY <1>4, <1>5
<1>7. InspectionTypeOK'
  <2>1. 0..clock \subseteq 0..clock'
    BY <1>5, <1>6
  <2> QED
    BY <1>1, <1>3, <1>5, <2>1 DEF InspectionTypeOK
<1>8. EntriesAreSound'
  <2>1. \A e \in Entries : Sound(e) => Sound(e)'
    BY <1>1, <1>5, <1>6, SoundStays
  <2>2. \A u \in Urls : cache[u] \in Entries \cup {Absent}
    BY <1>1 DEF InspectionTypeOK
  <2>3. \A s \in Sessions : request[s] # Absent => request[s].cached \in Entries \cup {Absent}
    BY <1>1 DEF InspectionTypeOK
  <2> QED
    BY <1>1, <1>3, <2>1, <2>2, <2>3 DEF EntriesAreSound, Unusable, SafeTarget
<1>9. FreshAnswers'
  <2>1. \A s \in Sessions : answer[s] # Absent => answer[s].at \in 0..clock
    BY <1>1 DEF InspectionTypeOK
  <2>2. \A s \in Sessions : answer[s] # Absent => 0..answer[s].at \subseteq 0..clock
    BY <1>6, <2>1
  <2> QED
    BY <1>1, <1>3, <1>5, <2>2 DEF FreshAnswers
<1> QED
  BY <1>5, <1>7, <1>8, <1>9 DEF InspectionInvariant

\* An answer from the cache.
LEMMA InspectionAnswers ==
    ASSUME InspectionInvariant, NEW s \in Sessions, AnswerFromCache(s)
    PROVE  InspectionInvariant'
<1> DEFINE e == cache[InspectUrl]
           a == IF e.bound THEN [version |-> e.version, at |-> clock] ELSE Absent
<1>1. InspectionTypeOK /\ DocumentsInOrder /\ EntriesAreSound /\ FreshAnswers
  BY DEF InspectionInvariant
<1>2. /\ e # Absent /\ ~Unusable(e) /\ Fresh(e) /\ answer' = [answer EXCEPT ![s] = a]
      /\ UNCHANGED <<clock, live, cache, request>>
  BY DEF AnswerFromCache
<1>3. e \in Entries /\ clock \in Nat /\ TicksPerSecond \in Nat \ {0}
      /\ answer \in [Sessions -> [version : Nat, at : 0..clock] \cup {Absent}]
  BY <1>1, <1>2, AdvertisedUrl, InspectionBounds, WholeSeconds DEF InspectionTypeOK
<1>4. /\ e.headers \in Headers /\ e.cachedAt \in Nat /\ e.version \in Nat
      /\ CacheFresh(e.headers, e.cachedAt, clock)
  BY <1>2, <1>3 DEF Entries, Fresh
<1>5. e.bound => Sound(e)
  BY <1>1, <1>2, AdvertisedUrl DEF EntriesAreSound
<1>6. ASSUME e.bound
      PROVE  \E i \in 0..clock :
               /\ e.version \in live[i]
               /\ clock - i < Ticks(LongestLifetime) + 2 * (TicksPerSecond - 1)
  <2>1. e.cachedAt <= clock
    BY <1>5, <1>6 DEF Sound
  <2>2. /\ Age(e.headers) # Malformed
        /\ \/ clock - e.cachedAt + Ticks(Age(e.headers)) < Ticks(LongestLifetime)
           \/ e.headers.expires \in Int /\ clock < e.headers.expires
    BY <1>3, <1>4, <2>1, FreshIsYoung
  <2>3. Age(e.headers) \in Int /\ LongestLifetime \in Int
    BY <1>4, <2>2, InspectionBounds DEF Age, Headers
  <2>4. Ticks(Age(e.headers)) \in Int /\ Ticks(LongestLifetime) \in Int
    BY <2>3, TicksLinear
  <2>5. CASE clock - e.cachedAt + Ticks(Age(e.headers)) < Ticks(LongestLifetime)
    <3>1. PICK g \in 0..e.cachedAt :
            /\ e.version \in live[g]
            /\ e.cachedAt - g <= Ticks(Age(e.headers)) + 2 * (TicksPerSecond - 1)
      BY <1>5, <1>6, <2>2 DEF Sound
    <3>2. g \in 0..clock /\ clock - g < Ticks(LongestLifetime) + 2 * (TicksPerSecond - 1)
      BY <1>3, <1>4, <2>1, <2>4, <2>5, <3>1
    <3> QED
      BY <3>1, <3>2
  <2>6. CASE e.headers.expires \in Int /\ clock < e.headers.expires
    <3>1. PICK g \in 0..e.cachedAt :
            e.version \in live[g] /\ e.headers.expires <= g + Ticks(LongestLifetime)
      BY <1>5, <1>6, <2>6 DEF Sound
    <3>2. g \in 0..clock /\ clock - g < Ticks(LongestLifetime) + 2 * (TicksPerSecond - 1)
      BY <1>3, <1>4, <2>1, <2>4, <2>6, <3>1
    <3> QED
      BY <3>1, <3>2
  <2> QED
    BY <2>2, <2>5, <2>6
<1>7. a \in [version : Nat, at : 0..clock] \cup {Absent}
  BY <1>3, <1>4
<1>8. InspectionTypeOK'
  BY <1>1, <1>2, <1>3, <1>7 DEF InspectionTypeOK
<1>9. DocumentsInOrder' /\ EntriesAreSound'
  BY <1>1, <1>2 DEF DocumentsInOrder, EntriesAreSound, Sound, Unusable, SafeTarget
<1>10. FreshAnswers'
  <2>1. answer'[s] = a /\ \A t \in Sessions \ {s} : answer'[t] = answer[t]
    BY <1>2, <1>3
  <2>2. a # Absent => e.bound /\ a.version = e.version /\ a.at = clock
    OBVIOUS
  <2> HIDE DEF a, e
  <2> QED
    BY <1>1, <1>2, <1>6, <2>1, <2>2 DEF FreshAnswers, e
<1> QED
  BY <1>8, <1>9, <1>10 DEF InspectionInvariant

\* What a session forgets, or has answered before, does not touch FreshAnswers.
LEMMA InspectionForgets ==
    ASSUME InspectionInvariant, NEW s \in Sessions, UNCHANGED <<clock, live>>,
           Forget(s) \/ UNCHANGED answer
    PROVE  /\ FreshAnswers'
           /\ answer' \in [Sessions -> [version : Nat, at : 0..clock] \cup {Absent}]
<1>1. FreshAnswers /\ answer \in [Sessions -> [version : Nat, at : 0..clock] \cup {Absent}]
  BY DEF InspectionInvariant, InspectionTypeOK
<1>2. \A t \in Sessions : answer'[t] = answer[t] \/ answer'[t] = Absent
  BY <1>1 DEF Forget
<1>3. answer' \in [Sessions -> [version : Nat, at : 0..clock] \cup {Absent}]
  BY <1>1 DEF Forget
<1> QED
  BY <1>1, <1>2, <1>3 DEF FreshAnswers

\* A request is sent with the entry it revalidates, or none; redirected, it keeps it.
LEMMA InspectionSends ==
    ASSUME InspectionInvariant, NEW s \in Sessions, Revalidate(s) \/ Discard(s) \/ Follow(s)
    PROVE  InspectionInvariant'
<1>1. InspectionTypeOK /\ DocumentsInOrder /\ EntriesAreSound
  BY DEF InspectionInvariant
<1>2. UNCHANGED <<clock, live>> /\ (Forget(s) \/ UNCHANGED answer)
  BY DEF Revalidate, Discard, Follow
<1>3. PICK c \in Entries \cup {Absent}, url \in Urls, n \in Nat :
        /\ Send(s, c, url, n)
        /\ c # Absent => ~c.bound \/ Sound(c)
  <2>1. CASE Revalidate(s)
    <3> DEFINE e == cache[InspectUrl]
    <3>1. e \in Entries \cup {Absent}
      BY <1>1, AdvertisedUrl DEF InspectionTypeOK
    <3>2. e # Absent => ~Unusable(e)
      BY <2>1 DEF Revalidate
    <3>3. (IF e = Absent THEN InspectUrl ELSE e.finalUrl) \in Urls
      BY <3>2, AdvertisedUrl DEF Unusable, SafeTarget
    <3>4. e # Absent => ~e.bound \/ Sound(e)
      BY <1>1, <3>2, AdvertisedUrl DEF EntriesAreSound
    <3>5. Send(s, e, IF e = Absent THEN InspectUrl ELSE e.finalUrl, 0)
      BY <2>1 DEF Revalidate
    <3> QED
      BY <3>1, <3>3, <3>4, <3>5
  <2>2. CASE Discard(s)
    BY <2>2, AdvertisedUrl DEF Discard
  <2>3. CASE Follow(s)
    <3>1. request[s] # Absent /\ request[s].cached \in Entries \cup {Absent} /\ request[s].redirects \in Nat
      BY <1>1, <2>3 DEF Follow, InspectionTypeOK
    <3>2. PICK url \in Urls : Send(s, request[s].cached, url, request[s].redirects + 1)
      BY <2>3 DEF Follow, SafeTarget
    <3>3. request[s].cached # Absent => ~request[s].cached.bound \/ Sound(request[s].cached)
      BY <1>1, <3>1 DEF EntriesAreSound
    <3>4. request[s].redirects + 1 \in Nat
      BY <3>1
    <3> QED
      BY <3>1, <3>2, <3>3, <3>4
  <2> QED
    BY <2>1, <2>2, <2>3
<1>4. cache' \in [Urls -> Entries \cup {Absent}]
      /\ \A u \in Urls : cache'[u] = cache[u] \/ cache'[u] = Absent
  BY <1>1 DEF Revalidate, Discard, Follow, InspectionTypeOK
<1> DEFINE r == [cached |-> c, url |-> url, at |-> clock, redirects |-> n]
<1>5. /\ request' = [request EXCEPT ![s] = r] /\ clock \in Nat
      /\ r \in [cached : Entries \cup {Absent}, url : Urls, at : 0..clock, redirects : Nat]
      /\ r.cached = c
  BY <1>1, <1>3, InspectionBounds DEF Send, InspectionTypeOK
<1> HIDE DEF r
<1>6. InspectionTypeOK'
  BY <1>1, <1>2, <1>4, <1>5, InspectionForgets DEF InspectionTypeOK
<1>7. DocumentsInOrder'
  BY <1>1, <1>2 DEF DocumentsInOrder
<1>8. EntriesAreSound'
  <2>2. request'[s] = r /\ \A t \in Sessions \ {s} : request'[t] = request[t]
    BY <1>1, <1>5 DEF InspectionTypeOK
  <2>3. \A u \in Urls : cache'[u] # Absent => ~cache'[u].bound \/ Unusable(cache'[u]) \/ Sound(cache'[u])
    BY <1>1, <1>4 DEF EntriesAreSound
  <2>4. \A t \in Sessions : request'[t] # Absent /\ request'[t].cached # Absent =>
          ~request'[t].cached.bound \/ Sound(request'[t].cached)
    BY <1>1, <1>3, <1>5, <2>2 DEF EntriesAreSound
  <2> QED
    BY <1>2, <2>3, <2>4 DEF EntriesAreSound, Sound, Unusable, SafeTarget
<1> QED
  BY <1>2, <1>6, <1>7, <1>8, InspectionForgets DEF InspectionInvariant

\* An inspection that ends without a response that counts.
LEMMA InspectionGivesUp ==
    ASSUME InspectionInvariant, NEW s \in Sessions, GiveUp(s)
    PROVE  InspectionInvariant'
<1>1. InspectionTypeOK /\ DocumentsInOrder /\ EntriesAreSound
  BY DEF InspectionInvariant
<1>2. /\ request' = [request EXCEPT ![s] = Absent]
      /\ UNCHANGED <<clock, live, cache, answer>>
  BY DEF GiveUp
<1>3. \A t \in Sessions : request'[t] = request[t] \/ request'[t] = Absent
  BY <1>1, <1>2 DEF InspectionTypeOK
<1>4. InspectionTypeOK'
  BY <1>1, <1>2 DEF InspectionTypeOK
<1>5. DocumentsInOrder' /\ EntriesAreSound'
  BY <1>1, <1>2, <1>3 DEF DocumentsInOrder, EntriesAreSound, Sound, Unusable, SafeTarget
<1>6. FreshAnswers'
  BY <1>2, InspectionForgets
<1> QED
  BY <1>4, <1>5, <1>6 DEF InspectionInvariant

\* An entry that is of another Service, or sound, may be kept under both its keys.
LEMMA InspectionConcludes ==
    ASSUME InspectionInvariant, NEW s \in Sessions, NEW e \in Entries,
           Sound(e) \/ ~e.bound, Conclude(s, e)
    PROVE  InspectionInvariant'
<1>1. InspectionTypeOK /\ DocumentsInOrder /\ EntriesAreSound
  BY DEF InspectionInvariant
<1>2. /\ request' = [request EXCEPT ![s] = Absent]
      /\ cache' = IF e.bound THEN StoredAs(s, e) ELSE cache
      /\ UNCHANGED <<clock, live, answer>>
  BY DEF Conclude
<1>3. \A t \in Sessions : request'[t] = request[t] \/ request'[t] = Absent
  BY <1>1, <1>2 DEF InspectionTypeOK
<1>4. /\ cache' \in [Urls -> Entries \cup {Absent}]
      /\ \A u \in Urls :
           cache'[u] = cache[u] \/ cache'[u] = Absent \/ (cache'[u] = e /\ (Sound(e) \/ ~e.bound))
  <2>1. cache \in [Urls -> Entries \cup {Absent}]
    BY <1>1 DEF InspectionTypeOK
  <2>2. CASE e.bound
    BY <1>2, <2>1, <2>2 DEF StoredAs
  <2>3. CASE ~e.bound
    BY <1>2, <2>1, <2>3
  <2> QED
    BY <2>2, <2>3
<1>5. InspectionTypeOK'
  BY <1>1, <1>2, <1>4 DEF InspectionTypeOK
<1>6. DocumentsInOrder'
  BY <1>1, <1>2 DEF DocumentsInOrder
<1>7. EntriesAreSound'
  <2>1. \A t \in Sessions : request'[t] # Absent /\ request'[t].cached # Absent =>
          ~request'[t].cached.bound \/ Sound(request'[t].cached)
    BY <1>1, <1>3 DEF EntriesAreSound
  <2>2. \A u \in Urls : cache'[u] # Absent =>
          ~cache'[u].bound \/ Unusable(cache'[u]) \/ Sound(cache'[u])
    BY <1>1, <1>4 DEF EntriesAreSound
  <2> QED
    BY <1>2, <2>1, <2>2 DEF EntriesAreSound, Sound, Unusable, SafeTarget
<1>8. FreshAnswers'
  BY <1>2, InspectionForgets
<1> QED
  BY <1>5, <1>6, <1>7, <1>8 DEF InspectionInvariant

\* A document, or a 304 of one, makes an entry that is sound if the cached one was.
LEMMA InspectionReceives ==
    ASSUME InspectionInvariant, NEW s \in Sessions, ReceiveDocument(s) \/ ReceiveUnchanged(s)
    PROVE  InspectionInvariant'
<1>1. InspectionTypeOK /\ EntriesAreSound
  BY DEF InspectionInvariant
<1>2. CASE ReceiveDocument(s)
  <2>1. PICK p \in Policies, sent \in request[s].at..clock, age \in 0..MaxAge :
          /\ age <= sent
          /\ \E v \in live[sent - age] :
               Conclude(s, NewEntry(s, v, HeadersOf(p, v, sent - age, age)))
    BY <1>2 DEF ReceiveDocument
  <2>2. PICK v \in live[sent - age] :
          Conclude(s, NewEntry(s, v, HeadersOf(p, v, sent - age, age)))
    BY <2>1
  <2> DEFINE e == NewEntry(s, v, HeadersOf(p, v, sent - age, age))
  <2>3. request[s] # Absent
    BY <1>2 DEF ReceiveDocument
  <2>4. e \in Entries /\ Sound(e)
    BY <1>1, <2>1, <2>3, NewEntryIsSound
  <2> HIDE DEF e
  <2> QED
    BY <2>2, <2>4, InspectionConcludes DEF e
<1>3. CASE ReceiveUnchanged(s)
  <2>1. PICK p \in Policies, sent \in request[s].at..clock, age \in 0..MaxAge :
          /\ age <= sent
          /\ \E v \in live[sent - age] :
               /\ request[s].cached.headers.validator = v
               /\ Conclude(s, ConfirmedEntry(s, HeadersOf(p, v, sent - age, age)))
    BY <1>3 DEF ReceiveUnchanged
  <2>2. PICK v \in live[sent - age] :
          /\ request[s].cached.headers.validator = v
          /\ Conclude(s, ConfirmedEntry(s, HeadersOf(p, v, sent - age, age)))
    BY <2>1
  <2> DEFINE r == HeadersOf(p, v, sent - age, age)
             e == ConfirmedEntry(s, r)
             c == request[s].cached
  <2>3. request[s] # Absent /\ c # Absent
    BY <1>3 DEF ReceiveUnchanged
  <2>4. c \in Entries /\ clock \in Nat /\ request[s].at \in Nat /\ request[s].url \in Urls
        /\ request[s].at <= clock
    BY <1>1, <2>3, InspectionBounds DEF InspectionTypeOK
  <2>5. ~c.bound \/ Sound(c)
    BY <1>1, <2>3 DEF EntriesAreSound
  <2>6. CASE Sound(c)
    <3>1. e \in Entries /\ Sound(e)
      BY <1>1, <2>1, <2>2, <2>3, <2>6, ConfirmedEntryIsSound
    <3> HIDE DEF e
    <3> QED
      BY <2>2, <3>1, InspectionConcludes DEF e
  <2>7. CASE ~c.bound
    <3>1. sent - age \in Nat /\ age \in Nat /\ v \in Nat
      <4>1. sent \in Nat /\ age \in Nat /\ sent - age \in 0..clock
        BY <2>1, <2>4, InspectionBounds
      <4>2. clock \in 0..LastInstant /\ live \in [0..LastInstant -> SUBSET Nat]
        BY <1>1 DEF InspectionTypeOK
      <4> QED
        BY <4>1, <4>2, InspectionBounds
    <3>2. r \in Headers
      BY <3>1, HeadersOfResponse
    <3>3. c.headers \in Headers
      BY <2>4 DEF Entries
    <3> HIDE DEF r
    <3>4. CacheHeaders(r, c.headers, request[s].at, clock) \in Headers
      <4> DEFINE w == CacheHeadersWithoutDelay(r, c.headers, request[s].at, clock)
                 d == WholeSecondsOf(clock - request[s].at)
                 h == CacheHeaders(r, c.headers, request[s].at, clock)
      <4>1. w \in Headers
        BY <3>2, <3>3, HeadersMerged, Zenon
      <4>2. clock - request[s].at \in Nat
        BY <2>4
      <4>3. d \in Nat /\ Larger(0, d) = d
        BY <4>2, WholeSecondsBound DEF Larger
      <4>4. h = (IF Age(w) = Malformed THEN w ELSE [w EXCEPT !.age = Age(w) + d])
        BY <4>3 DEF CacheHeaders
      <4> HIDE DEF w, d, h
      <4>5. h \in Headers
        BY <4>1, <4>3, <4>4, DelayAdded, Zenon
      <4> QED
        BY <4>5 DEF h
    <3>5. e \in Entries /\ ~e.bound
      BY <2>4, <2>7, <3>4 DEF ConfirmedEntry, Entries
    <3>6. Conclude(s, e)
      BY <2>2 DEF r
    <3> HIDE DEF e
    <3> QED
      BY <3>5, <3>6, InspectionConcludes
  <2> QED
    BY <2>5, <2>6, <2>7
<1> QED
  BY <1>2, <1>3

\* The invariant holds of every behaviour of the inspections.
THEOREM InspectionCorrect == InspectSpec => []InspectionInvariant
<1>1. InspectionInvariant /\ [InspectNext]_inspectVars => InspectionInvariant'
  <2>1. SUFFICES ASSUME InspectionInvariant, [InspectNext]_inspectVars
                 PROVE  InspectionInvariant'
    OBVIOUS
  <2>2. ASSUME NEW s \in Sessions, AnswerFromCache(s) PROVE InspectionInvariant'
    BY <2>1, <2>2, InspectionAnswers
  <2>3. ASSUME NEW s \in Sessions, Revalidate(s) \/ Discard(s) \/ Follow(s) PROVE InspectionInvariant'
    BY <2>1, <2>3, InspectionSends
  <2>4. ASSUME NEW s \in Sessions, GiveUp(s) PROVE InspectionInvariant'
    BY <2>1, <2>4, InspectionGivesUp
  <2>5. ASSUME NEW s \in Sessions, ReceiveDocument(s) \/ ReceiveUnchanged(s) PROVE InspectionInvariant'
    BY <2>1, <2>5, InspectionReceives
  <2>6. CASE Publish \/ Tick
    BY <2>1, <2>6, InspectionWorld
  <2>7. CASE UNCHANGED inspectVars
    BY <2>1, <2>7
    DEF inspectVars, InspectionInvariant, InspectionTypeOK, DocumentsInOrder, EntriesAreSound,
        Sound, Unusable, SafeTarget, FreshAnswers
  <2> QED
    BY <2>1, <2>2, <2>3, <2>4, <2>5, <2>6, <2>7 DEF InspectNext
<1> QED
  BY <1>1, InspectionInit, PTL DEF InspectSpec

\* Whatever the headers, a relay and the sessions do, an answer from the cache is no
\* older than the longest lifetime, give or take what Age and the delay leave of a second.
THEOREM InspectionsAreFresh == InspectSpec => []FreshAnswers
<1>1. InspectionInvariant => FreshAnswers
  BY DEF InspectionInvariant
<1> QED
  BY <1>1, InspectionCorrect, PTL

\* What an inspection keeps has its type.
THEOREM InspectionTypeCorrect == InspectSpec => []InspectionTypeOK
<1>1. InspectionInvariant => InspectionTypeOK
  BY DEF InspectionInvariant
<1> QED
  BY <1>1, InspectionCorrect, PTL

=============================================================================
