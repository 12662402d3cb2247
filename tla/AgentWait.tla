----------------------------- MODULE AgentWait -----------------------------
(***************************************************************************)
(* wait_for_active (crates/aep-agent/src/commands.rs) over the signer of a *)
(* hosting Platform (platform_provider.rs): every Status command needs an  *)
(* assertion, and a Platform may put the signature off, stage after stage, *)
(* until the Owner or a policy has decided.  Two loops, each with a bound  *)
(* of its own because nothing else ends it.                                *)
(*                                                                         *)
(* The Platform keeps its answers under the idempotency keys, as           *)
(* PlatformSigning shows: a key it has seen is answered from memory, or    *)
(* refused when the request differs.  A request differs in its jti, that   *)
(* is its poll, or in the context the resolver gave.                       *)
(***************************************************************************)
EXTENDS Integers, FiniteSets

CONSTANTS
    Keys,               \* what the key provider can return, again and again
    Contexts,           \* what platform_context and the resolver can return
    MaxStages,          \* MAXIMUM_PENDING_SIGN_STAGES
    Interval, Timeout,  \* WaitOptions
    MaxTime,            \* bound of the clock
    None

ASSUME PositiveBounds == MaxStages \in Nat \ {0} /\ Interval \in Nat \ {0} /\ Timeout \in Nat \ {0}
ASSUME FiniteKeys == IsFiniteSet(Keys)
ASSUME NoneIsNoKey == None \notin Keys
ASSUME ClockBound == MaxTime \in Nat

VARIABLES
    now,        \* the clock of the client, which may stand still or be set
    started,    \* when the wait began
    remaining,  \* remaining_attempts
    polls,      \* ghost: Status commands begun, counted to one past the bound
    slept,      \* ghost: what the delay has slept in all, counted up to the timeout
    resolves,   \* whether the application supplies a resolver
    pc,         \* where the wait is
    used,       \* used_keys of this signature
    stage,      \* ghost: its requests, counted to one past the bound
    key,        \* the key of its current request, or None
    context,    \* the platform context of that request
    answered,   \* the Platform: key -> [poll, context, stage] it was first used for, or None
    got,        \* ghost: what the answer the Agent has was given to
    outcome     \* how the wait ended, or None

platformVars == <<answered, got>>
signVars == <<used, stage, key, context>>
pollVars == <<started, remaining, polls, slept, resolves>>
vars == <<now, pollVars, pc, signVars, platformVars, outcome>>

Steps == {"idle", "keying", "signing", "pending", "asking", "judging", "sleeping", "done"}

Outcomes == {"active", "refused", "timeout", "failed", "put off"}

ASSUME NoneIsNoOutcome == None \notin Outcomes

Advance(n, bound) == IF n <= bound THEN n + 1 ELSE n

Requests == [poll : Nat, stage : Nat, context : Contexts]

ASSUME NoneIsNoRequest == None \notin Requests

TypeOK ==
    /\ now \in 0..MaxTime /\ started \in 0..MaxTime
    /\ remaining \in Nat /\ polls \in Nat /\ slept \in Nat
    /\ resolves \in BOOLEAN
    /\ pc \in Steps
    /\ used \subseteq Keys /\ stage \in Nat
    /\ key \in Keys \cup {None}
    /\ context \in Contexts
    /\ answered \in [Keys -> Requests \cup {None}]
    /\ got \in Requests \cup {None}
    /\ outcome \in Outcomes \cup {None}

\* options.timeout / options.interval + 1
Attempts == Timeout \div Interval + 1

Init ==
    /\ now \in 0..MaxTime /\ started = 0
    /\ remaining = 0 /\ polls = 0 /\ slept = 0
    /\ resolves \in BOOLEAN
    /\ pc = "idle"
    /\ used = {} /\ stage = 0 /\ key = None
    /\ context \in Contexts
    /\ answered = [k \in Keys |-> None]
    /\ got = None
    /\ outcome = None

----------------------------------------------------------------------------
Goto(from, to) == pc = from /\ pc' = to

End(o) == pc' = "done" /\ outcome' = o

\* Status: inspected, the identity resolved, platform_context asked for
BeginPoll(from) ==
    /\ Goto(from, "keying")
    /\ polls' = Advance(polls, Attempts)
    /\ used' = {}
    /\ stage' = 0
    /\ key' = None
    /\ context' \in Contexts

Start ==
    /\ BeginPoll("idle")
    /\ started' = now
    /\ remaining' = Attempts
    /\ UNCHANGED <<now, slept, resolves, platformVars, outcome>>

\* Fault: a key of an earlier stage is taken again
AnyKey(k) ==
    /\ pc = "keying"
    /\ key' = k
    /\ used' = used \cup {k}
    /\ IF Cardinality(used') <= MaxStages
       THEN pc' = "signing" /\ stage' = Advance(stage, MaxStages) /\ UNCHANGED outcome
       ELSE End("failed") /\ UNCHANGED stage
    /\ UNCHANGED <<now, pollVars, context, platformVars>>

\* Fault: the bound is looked at before the key is counted
OneStageTooMany(k) ==
    /\ pc = "keying"
    /\ key' = k
    /\ used' = used \cup {k}
    /\ IF k \notin used /\ Cardinality(used) <= MaxStages
       THEN pc' = "signing" /\ stage' = Advance(stage, MaxStages) /\ UNCHANGED outcome
       ELSE End("failed") /\ UNCHANGED stage
    /\ UNCHANGED <<now, pollVars, context, platformVars>>

\* a key for the stage: a used one ends the signature, and so does one too many
TakeKey(k) ==
    /\ pc = "keying"
    /\ key' = k
    /\ used' = used \cup {k}
    /\ IF k \notin used /\ Cardinality(used') <= MaxStages
       THEN pc' = "signing" /\ stage' = Advance(stage, MaxStages) /\ UNCHANGED outcome
       ELSE End("failed") /\ UNCHANGED stage
    /\ UNCHANGED <<now, pollVars, context, platformVars>>

\* the request as the Platform tells requests apart
SameRequest(r) == r.poll = polls /\ r.context = context

\* the Platform answers: afresh, or from what it keeps under the key
PlatformAnswers(to) ==
    LET request == [poll |-> polls, stage |-> stage, context |-> context] IN
    /\ Goto("signing", to)
    /\ \/ /\ answered[key] = None
          /\ answered' = [answered EXCEPT ![key] = request]
          /\ got' = request
       \/ /\ answered[key] # None
          /\ SameRequest(answered[key])
          /\ got' = answered[key]
          /\ UNCHANGED answered
    /\ UNCHANGED <<now, pollVars, signVars, outcome>>

\* 200, with an assertion for this jti, this lifetime and both DIDs
Complete == PlatformAnswers("asking")

\* 202, nothing but a context and 1 to 300 seconds, and no Retry-After
PutOff == PlatformAnswers("pending")

\* any other answer, an invalid one of these, or none
SignFails ==
    /\ pc = "signing"
    /\ End("failed")
    /\ UNCHANGED <<now, pollVars, signVars, platformVars>>

\* pending_sign_resolver.resolve: another stage with the context it gives
Resolve ==
    /\ resolves
    /\ Goto("pending", "keying")
    /\ context' \in Contexts
    /\ UNCHANGED <<now, pollVars, used, stage, key, platformVars, outcome>>

\* without a resolver the caller is told, and a resolver may fail
NotResolved ==
    /\ pc = "pending"
    /\ End(IF resolves THEN "failed" ELSE "put off")
    /\ UNCHANGED <<now, pollVars, signVars, platformVars>>

\* the Status request fails, or its answer is refused
SendFails ==
    /\ pc = "asking"
    /\ End("failed")
    /\ UNCHANGED <<now, pollVars, signVars, platformVars>>

\* the enrollment has come to an end of the wait
Decided ==
    /\ pc = "asking"
    /\ \E o \in {"active", "refused"} : End(o)
    /\ UNCHANGED <<now, pollVars, signVars, platformVars>>

\* still pending, or unavailable
Undecided ==
    /\ Goto("asking", "judging")
    /\ UNCHANGED <<now, pollVars, signVars, platformVars, outcome>>

\* Fault: attempts are not counted
JudgeByClock ==
    /\ pc = "judging"
    /\ UNCHANGED remaining
    /\ IF now - started >= Timeout
       THEN End("timeout") ELSE pc' = "sleeping" /\ UNCHANGED outcome
    /\ UNCHANGED <<now, started, polls, slept, resolves, signVars, platformVars>>

\* Fault: an attempt is spent before the first poll
JudgeEarly ==
    /\ pc = "judging"
    /\ remaining' = IF remaining = 0 THEN 0 ELSE remaining - 1
    /\ IF now - started >= Timeout \/ remaining' <= 1
       THEN End("timeout") ELSE pc' = "sleeping" /\ UNCHANGED outcome
    /\ UNCHANGED <<now, started, polls, slept, resolves, signVars, platformVars>>

\* elapsed, and remaining_attempts.saturating_sub(1)
Judge ==
    /\ pc = "judging"
    /\ remaining' = IF remaining = 0 THEN 0 ELSE remaining - 1
    /\ IF now - started >= Timeout \/ remaining' = 0
       THEN End("timeout") ELSE pc' = "sleeping" /\ UNCHANGED outcome
    /\ UNCHANGED <<now, started, polls, slept, resolves, signVars, platformVars>>

\* delay.sleep(interval), and the next poll
Sleep ==
    /\ BeginPoll("sleeping")
    /\ slept' = IF slept < Timeout THEN slept + Interval ELSE slept
    /\ UNCHANGED <<now, started, remaining, resolves, platformVars, outcome>>

\* the clock is set, forward or back, or advances
SetClock ==
    /\ pc # "done"
    /\ now' \in 0..MaxTime
    /\ UNCHANGED <<pollVars, pc, signVars, platformVars, outcome>>

Progress ==
    \/ \E k \in Keys : TakeKey(k)
    \/ Complete \/ PutOff \/ SignFails
    \/ Resolve \/ NotResolved
    \/ SendFails \/ Decided \/ Undecided
    \/ Judge \/ Sleep

Next == Start \/ Progress \/ SetClock

Spec == Init /\ [][Next]_vars

\* The key provider, the Platform, the resolver, the Service and the delay answer.
FairSpec == Spec /\ WF_vars(Progress)

----------------------------------------------------------------------------
\* However the clock runs, whatever keys the provider returns and however often the
\* Platform puts the signature off, a wait asks for the status at most as often as
\* the interval fits the timeout and once more, and each time for at most
\* MaxStages signatures (platform_provider.rs:576, commands.rs:124).
RequestsBounded == polls <= Attempts /\ stage <= MaxStages

\* What the Agent acts on, an assertion, a context for the resolver or a status, was
\* answered to the request it has just made, never replayed from an earlier stage or
\* poll: a replayed 202 would have it wait on a decision that has been taken
\* (platform_provider.rs:571).
AnswersAreNew ==
    pc \in {"pending", "asking", "judging"} =>
        got = [poll |-> polls, stage |-> stage, context |-> context]

\* A wait times out only when the clock has moved by the timeout or the delay has
\* slept so long that another interval would exceed it (commands.rs:137-146).
TimeoutJustified ==
    outcome = "timeout" => now - started >= Timeout \/ slept + Interval > Timeout

\* A wait ends, though its clock may stand still, while everyone it asks answers.
WaitReturns == pc # "idle" ~> pc = "done"

=============================================================================
