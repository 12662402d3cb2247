----------------------- MODULE PlatformSigningProofs -----------------------
(***************************************************************************)
(* Proofs about PlatformSigning, for every set of calls, keys and jtis and *)
(* every lifecycle policy.                                                 *)
(***************************************************************************)
EXTENDS PlatformSigning, TLAPS

USE DEF Goto, Says, Answer, Arrive, callVars, outcome, ghosts

\* A step of one call.
Step(t) ==
    \/ AskKey(t) \/ AskUpdate(t) \/ TurnAway(t)
    \/ Enter(t) \/ Refuse(t) \/ Defer(t) \/ SignAssertion(t) \/ Fail(t)
    \/ Stamp(t) \/ Verify(t) \/ Store(t)
    \/ WriteStatus(t) \/ Forbid(t) \/ Cancel(t)

\* What a call asks for is one of three things.
LEMMA RequestOf ==
    ASSUME TypeOK, NEW t \in Tasks
    PROVE  /\ Asks(t, "sign") => request[t] \in Requests /\ request[t].jti \in Jtis
           /\ Asks(t, "verify") =>
                /\ request[t] \in Requests
                /\ request[t].assertion \in Assertions
                /\ request[t].assertion.jti \in Jtis
                /\ request[t].assertion.exp \in Int
           /\ Asks(t, "update") => request[t] \in Requests /\ request[t].to \in Statuses
           /\ request[t] # None => Asks(t, "sign") \/ Asks(t, "verify") \/ Asks(t, "update")
BY NoneIsNothing DEF TypeOK, Asks, Requests, Assertions

\* At first no call is under way.
LEMMA InitIInv == Init => IInv
<1> SUFFICES ASSUME Init PROVE IInv
  OBVIOUS
<1>1. TypeOK
  BY ActiveIsStatus, IssuedAreAssertions, MaxTimeIsNat DEF Init, TypeOK, Instants
<1>2. CallsInOrder
  BY NoneIsNothing, ActiveIsStatus DEF Init, CallsInOrder, Inside, MayUseKey, Asks
<1>3. TimesArePast /\ CopiesAreCurrent
  BY DEF Init, TimesArePast, CopiesAreCurrent, Updating, Asks
<1>4. MemoAgrees
  BY DEF Init, MemoAgrees, Inside
<1>5. VerifiedOnRecord /\ VerifiedOncePerLifetime
  BY DEF Init, VerifiedOnRecord, VerifiedOncePerLifetime, VerifiedAnew
<1> QED
  BY <1>1, <1>2, <1>3, <1>4, <1>5 DEF IInv

----------------------------------------------------------------------------

\* The actions of a call that only come to an answer.
Quiet(t) == TurnAway(t) \/ Refuse(t) \/ Defer(t) \/ Fail(t) \/ Forbid(t) \/ Cancel(t)

\* A call that only comes to an answer changes its own progress and nothing else.
LEMMA QuietStep ==
    ASSUME NEW t \in Tasks, Quiet(t)
    PROVE  /\ \E p \in {"answered", "done"} : pc' = [pc EXCEPT ![t] = p]
           /\ \E a \in Answers : answer' = [answer EXCEPT ![t] = a]
           /\ signed' = [signed EXCEPT ![t] = None]
           /\ UNCHANGED <<status, replays, memo, minted, clock, callVars, now, ghosts>>
BY DEF Quiet, TurnAway, Refuse, Defer, Fail, Forbid, Cancel, Answers, Stored

\* A step of a call keeps the type of every variable.
LEMMA TypeStep ==
    ASSUME IInv, NEW t \in Tasks, Step(t)
    PROVE  TypeOK'
<1>0. TypeOK /\ CallsInOrder
  BY DEF IInv
<1>1. ASSUME NEW req \in Requests, Arrive(t, req),
             ikey' \in [Tasks -> IdempotencyKeys \cup {None}], now' \in [Tasks -> Instants]
      PROVE  TypeOK'
  BY <1>0, <1>1 DEF TypeOK
<1>2. CASE AskKey(t)
  <2>1. \E req \in Requests : Arrive(t, req)
    <3>1. ASSUME NEW j \in Jtis PROVE [op |-> "sign", jti |-> j] \in Requests
      BY DEF Requests
    <3>2. ASSUME NEW a \in minted PROVE [op |-> "verify", assertion |-> a] \in Requests
      BY <1>0 DEF TypeOK, Requests
    <3> HIDE DEF Arrive
    <3> QED
      BY <1>2, <3>1, <3>2 DEF AskKey
  <2>2. ikey' \in [Tasks -> IdempotencyKeys \cup {None}]
    BY <1>0, <1>2 DEF AskKey, TypeOK
  <2>3. now' \in [Tasks -> Instants]
    BY <1>0, <1>2 DEF AskKey, TypeOK, Instants
  <2> HIDE DEF Arrive
  <2> QED
    BY <1>1, <2>1, <2>2, <2>3
<1>3. CASE AskUpdate(t)
  <2>1. ASSUME NEW s \in Statuses PROVE [op |-> "update", to |-> s] \in Requests
    BY DEF Requests
  <2> HIDE DEF Arrive
  <2> QED
    BY <1>0, <1>1, <1>3, <2>1 DEF AskUpdate, TypeOK
<1>4. CASE Quiet(t)
  BY <1>0, <1>4, QuietStep DEF TypeOK
<1>5. CASE Enter(t)
  <2>1. ikey[t] \in IdempotencyKeys
    BY <1>0, <1>5, NoneIsNothing DEF Enter, TypeOK, CallsInOrder, Asks
  <2> QED
    BY <1>0, <1>5, <2>1 DEF Enter, TypeOK, Memos, Answers
<1>6. CASE SignAssertion(t)
  <2>1. PICK a \in Assertions :
            minted' = minted \cup {a} /\ signed' = [signed EXCEPT ![t] = a]
    <3>1. clock \in Int /\ now[t] \in Int \cup {None}
      BY <1>0 DEF TypeOK, Instants
    <3>2. PICK at \in {clock} \cup ({now[t]} \ {None}) :
            LET a == [jti |-> request[t].jti, exp |-> at + Lifetime] IN
            minted' = minted \cup {a} /\ signed' = [signed EXCEPT ![t] = a]
      BY <1>6 DEF SignAssertion
    <3>3. request[t].jti \in Jtis
      BY <1>0, <1>6, RequestOf DEF SignAssertion
    <3>4. at + Lifetime \in Int
      BY <3>1, LifetimeIsPositive
    <3>5. [jti |-> request[t].jti, exp |-> at + Lifetime] \in Assertions
      BY <3>3, <3>4 DEF Assertions
    <3> QED
      BY <3>2, <3>5
  <2> QED
    BY <1>0, <1>6, <2>1 DEF SignAssertion, TypeOK, Instants, Answers, Stored
<1>7. CASE Stamp(t)
  BY <1>0, <1>7 DEF Stamp, TypeOK, Instants
<1>8. CASE Verify(t)
  <2>1. request[t].assertion.jti \in Jtis /\ request[t].assertion.exp \in Int
    BY <1>0, <1>8, RequestOf DEF Verify, CallsInOrder
  <2>2. replays' \in [Jtis -> Int \cup {None}]
    BY <1>0, <1>8, <2>1 DEF Verify, Purged, TypeOK
  <2>3. used' \in [Tasks -> Instants]
    BY <1>0, <1>8 DEF Verify, TypeOK, Instants
  <2>4. answer' \in [Tasks -> Answers \cup {None}] /\ signed' \in [Tasks -> Assertions \cup {None}]
    BY <1>0, <1>8 DEF Verify, TypeOK, Answers, Stored
  <2>5. pc' \in [Tasks -> {"idle", "authorizing", "inside", "stamped", "answered", "done"}]
    BY <1>0, <1>8 DEF Verify, TypeOK
  <2> QED
    BY <1>0, <1>8, <2>2, <2>3, <2>4, <2>5 DEF Verify, TypeOK
<1>9. CASE Store(t)
  <2>1. Response(t) \in Memos
    BY <1>0, <1>9, RequestOf DEF Store, Response, Memos, TypeOK, CallsInOrder
  <2> QED
    BY <1>0, <1>9, <2>1 DEF Store, TypeOK
<1>10. CASE WriteStatus(t)
  BY <1>0, <1>10, RequestOf DEF WriteStatus, TypeOK, Answers
<1> QED
  BY <1>2, <1>3, <1>4, <1>5, <1>6, <1>7, <1>8, <1>9, <1>10 DEF Step, Quiet

\* The conjuncts of CallsInOrder, for one call.
OrderAt(t) ==
    /\ pc[t] = "idle" =>
            request[t] = None /\ ikey[t] = None /\ now[t] = None /\ t \notin sawActive
    /\ pc[t] # "idle" => request[t] # None
    /\ pc[t] # "idle" => (ikey[t] = None <=> Asks(t, "update"))
    /\ Inside(t) => ikey[t] # None
    /\ pc[t] \in {"idle", "authorizing", "inside", "stamped"} =>
            answer[t] = None /\ used[t] = None
    /\ pc[t] = "answered" => answer[t] \in Stored
    /\ pc[t] = "stamped" => Asks(t, "verify") /\ MayUseKey(t) /\ now[t] # None
    /\ MayUseKey(t) => t \in sawActive
    /\ used[t] # None => MayUseKey(t)

\* A step of t leaves the other calls alone.
OthersKept(t) ==
    \A u \in Tasks \ {t} :
        /\ pc'[u] = pc[u] /\ request'[u] = request[u] /\ ikey'[u] = ikey[u]
        /\ seen'[u] = seen[u] /\ now'[u] = now[u] /\ answer'[u] = answer[u]
        /\ signed'[u] = signed[u] /\ used'[u] = used[u]

\* A step of a call is its own.
LEMMA StepKeepsOthers ==
    ASSUME TypeOK, NEW t \in Tasks, Step(t)
    PROVE  OthersKept(t)
<1>1. CASE AskKey(t)
  BY <1>1 DEF AskKey, TypeOK, OthersKept
<1>2. CASE AskUpdate(t)
  BY <1>2 DEF AskUpdate, TypeOK, OthersKept
<1>3. CASE Quiet(t)
  BY <1>3, QuietStep DEF TypeOK, OthersKept
<1>4. CASE Enter(t)
  BY <1>4 DEF Enter, TypeOK, OthersKept
<1>5. CASE SignAssertion(t)
  BY <1>5 DEF SignAssertion, TypeOK, OthersKept
<1>6. CASE Stamp(t)
  BY <1>6 DEF Stamp, TypeOK, OthersKept
<1>7. CASE Verify(t)
  BY <1>7 DEF Verify, TypeOK, OthersKept
<1>8. CASE Store(t)
  BY <1>8 DEF Store, TypeOK, OthersKept
<1>9. CASE WriteStatus(t)
  BY <1>9 DEF WriteStatus, TypeOK, OthersKept
<1> QED
  BY <1>1, <1>2, <1>3, <1>4, <1>5, <1>6, <1>7, <1>8, <1>9 DEF Step, Quiet

\* The identity becomes active, or has been, only for calls under way.
LEMMA StepKeepsIdle ==
    ASSUME TypeOK, NEW t \in Tasks, Step(t), NEW u \in Tasks \ {t}
    PROVE  /\ u \in sawActive => u \in sawActive'
           /\ u \in sawActive' => u \in sawActive \/ pc[u] # "idle"
<1>1. CASE AskKey(t)
  BY <1>1 DEF AskKey
<1>2. CASE AskUpdate(t)
  BY <1>2 DEF AskUpdate
<1>3. CASE Quiet(t)
  BY <1>3, QuietStep
<1>4. CASE WriteStatus(t)
  BY <1>4 DEF WriteStatus, InFlight
<1>5. CASE UNCHANGED sawActive
  BY <1>5
<1> QED
  BY <1>1, <1>2, <1>3, <1>4, <1>5
  DEF Step, Quiet, Enter, SignAssertion, Stamp, Verify, Store

\* A step keeps every call in order: its own by the action it takes, the others as they were.
LEMMA CallsStep ==
    ASSUME IInv, TypeOK', NEW t \in Tasks, Step(t)
    PROVE  CallsInOrder'
<1>0. TypeOK /\ \A u \in Tasks : OrderAt(u)
  BY DEF IInv, CallsInOrder, OrderAt
<1>1. ASSUME NEW u \in Tasks \ {t} PROVE OrderAt(u)'
  <2>1. OthersKept(t)
    BY <1>0, StepKeepsOthers
  <2> QED
    BY <1>0, <2>1, StepKeepsIdle DEF OrderAt, OthersKept, Inside, Asks, MayUseKey
<1>2. OrderAt(t)'
  <2>0. OrderAt(t)
    BY <1>0
  <2>1. CASE AskKey(t)
    <3>1. PICK req \in Requests : Arrive(t, req) /\ req.op \in {"sign", "verify"}
      BY <1>0, <2>1 DEF AskKey, TypeOK, Requests
    <3>2. PICK k \in IdempotencyKeys : ikey' = [ikey EXCEPT ![t] = k]
      BY <2>1 DEF AskKey
    <3>3. /\ pc'[t] = "authorizing" /\ request'[t] = req /\ seen'[t] = status
          /\ ikey'[t] = k /\ answer'[t] = None /\ used'[t] = None
      BY <1>0, <2>0, <3>1, <3>2 DEF TypeOK, OrderAt
    <3>4. req # None /\ k # None
      BY NoneIsNothing
    <3>5. status = Active => t \in sawActive'
      BY <3>1
    <3> QED
      BY <3>1, <3>3, <3>4, <3>5 DEF OrderAt, Inside, Asks, MayUseKey
  <2>2. CASE AskUpdate(t)
    <3>1. PICK s \in Statuses : Arrive(t, [op |-> "update", to |-> s])
      BY <2>2 DEF AskUpdate
    <3>2. /\ pc'[t] = "authorizing" /\ request'[t] = [op |-> "update", to |-> s]
          /\ seen'[t] = status /\ ikey'[t] = None /\ answer'[t] = None /\ used'[t] = None
      BY <1>0, <2>0, <2>2, <3>1 DEF AskUpdate, TypeOK, OrderAt
    <3>3. [op |-> "update", to |-> s] # None
      BY NoneIsNothing DEF Requests
    <3>4. status = Active => t \in sawActive'
      BY <3>1
    <3> QED
      BY <3>2, <3>3, <3>4 DEF OrderAt, Inside, Asks, MayUseKey
  <2>3. CASE Quiet(t)
    <3>1. \/ pc[t] \in {"authorizing", "inside"} /\ pc'[t] = "done"
          \/ pc[t] = "inside" /\ pc'[t] = "answered" /\ answer'[t] \in Stored
      BY <1>0, <2>3
      DEF Quiet, TurnAway, Refuse, Defer, Fail, Forbid, Cancel, TypeOK, Stored
    <3>2. UNCHANGED <<status, callVars, now, ghosts>>
      BY <2>3, QuietStep
    <3> QED
      BY <2>0, <3>1, <3>2 DEF OrderAt, Inside, Asks, MayUseKey
  <2>4. CASE Enter(t)
    BY <1>0, <2>0, <2>4 DEF Enter, TypeOK, OrderAt, Inside, Asks, MayUseKey
  <2>5. CASE SignAssertion(t)
    BY <1>0, <2>0, <2>5 DEF SignAssertion, TypeOK, OrderAt, Inside, Asks, MayUseKey, Stored
  <2>6. CASE Stamp(t)
    BY <1>0, <2>0, <2>6, NoneIsNothing
    DEF Stamp, TypeOK, OrderAt, Inside, Asks, MayUseKey
  <2>7. CASE Verify(t)
    BY <1>0, <2>0, <2>7 DEF Verify, TypeOK, OrderAt, Inside, Asks, MayUseKey, Stored
  <2>8. CASE Store(t)
    BY <1>0, <2>0, <2>8 DEF Store, TypeOK, OrderAt, Inside, Asks, MayUseKey
  <2>9. CASE WriteStatus(t)
    BY <1>0, <2>0, <2>9 DEF WriteStatus, TypeOK, OrderAt, Inside, Asks, MayUseKey, InFlight
  <2> QED
    BY <2>1, <2>2, <2>3, <2>4, <2>5, <2>6, <2>7, <2>8, <2>9 DEF Step, Quiet
<1> QED
  BY <1>1, <1>2 DEF CallsInOrder, OrderAt

----------------------------------------------------------------------------
\* An instant that a step reads is the present one.
LEMMA TimesStep ==
    ASSUME IInv, TypeOK', NEW t \in Tasks, Step(t)
    PROVE  TimesArePast'
<1>0. TypeOK /\ TimesArePast /\ clock \in Int
  BY MaxTimeIsNat DEF IInv, TypeOK
<1>1. clock' = clock
  BY DEF Step, AskKey, AskUpdate, TurnAway, Enter, Refuse, Defer, SignAssertion,
         Fail, Stamp, Verify, Store, WriteStatus, Forbid, Cancel
<1>2. now'[t] \in {now[t], clock, None}
  <2>1. CASE AskKey(t)
    BY <1>0, <2>1 DEF AskKey, TypeOK
  <2>2. CASE Stamp(t)
    BY <1>0, <2>2 DEF Stamp, TypeOK
  <2>3. CASE UNCHANGED now
    BY <2>3
  <2> QED
    BY <2>1, <2>2, <2>3
    DEF Step, AskUpdate, TurnAway, Enter, Refuse, Defer, SignAssertion, Fail, Verify, Store,
        WriteStatus, Forbid, Cancel
<1>3. used'[t] \in {used[t], clock}
  <2>1. CASE SignAssertion(t) \/ Verify(t)
    BY <1>0, <2>1 DEF SignAssertion, Verify, TypeOK
  <2>2. CASE UNCHANGED used
    BY <2>2
  <2> QED
    BY <2>1, <2>2
    DEF Step, AskKey, AskUpdate, TurnAway, Enter, Refuse, Defer, Fail, Stamp, Store,
        WriteStatus, Forbid, Cancel
<1> QED
  BY <1>0, <1>1, <1>2, <1>3, StepKeepsOthers DEF TimesArePast, OthersKept

\* A copy of the status is current until an update overtakes it, and the step that makes it
\* overtaken says so.
LEMMA CopiesStep ==
    ASSUME IInv, TypeOK', NEW t \in Tasks, Step(t)
    PROVE  CopiesAreCurrent'
<1>0. TypeOK /\ CopiesAreCurrent
  BY DEF IInv
<1>1. CASE AskKey(t) \/ AskUpdate(t)
  <2>1. status' = status /\ overtaken' = overtaken /\ seen'[t] = status
    BY <1>0, <1>1 DEF AskKey, AskUpdate, TypeOK
  <2> QED
    BY <1>0, <2>1, StepKeepsOthers
    DEF CopiesAreCurrent, OthersKept, Updating, Asks, InFlight
<1>2. CASE WriteStatus(t)
  <2>1. pc'[t] = "done" /\ overtaken' = overtaken \cup {u \in Tasks \ {t} : Updating(u)}
    BY <1>0, <1>2 DEF WriteStatus, TypeOK
  <2> QED
    BY <1>0, <2>1, StepKeepsOthers
    DEF CopiesAreCurrent, OthersKept, Updating, Asks, InFlight
<1>3. CASE /\ ~(AskKey(t) \/ AskUpdate(t) \/ WriteStatus(t))
           /\ UNCHANGED <<status, overtaken, request, seen>>
  <2>1. pc[t] # "idle"
    BY <1>3 DEF Step, TurnAway, Enter, Refuse, Defer, SignAssertion, Fail, Stamp, Verify, Store,
                Forbid, Cancel
  <2>2. InFlight(t)' => InFlight(t)
    BY <1>3, <2>1 DEF Step, TurnAway, Enter, Refuse, Defer, SignAssertion, Fail, Stamp, Verify,
                      Store, Forbid, Cancel, InFlight
  <2> QED
    BY <1>0, <1>3, <2>2, StepKeepsOthers
    DEF CopiesAreCurrent, OthersKept, Updating, Asks, InFlight
<1> QED
  BY <1>1, <1>2, <1>3
  DEF Step, TurnAway, Enter, Refuse, Defer, SignAssertion, Fail, Stamp, Verify, Store, Forbid,
      Cancel

----------------------------------------------------------------------------
\* Every stored response differs from None.
LEMMA ResponsesAreSome ==
    ASSUME TypeOK, NEW t \in Tasks, request[t] # None, answer[t] \in Stored
    PROVE  Response(t) \in Memos /\ Response(t) # None
BY NoneIsNothing DEF TypeOK, Response, Memos

\* The conjuncts of MemoAgrees, for one call.
MemoAt(t) ==
    /\ Inside(t) =>
        /\ memo[ikey[t]] = None
        /\ \A u \in Tasks : Inside(u) /\ ikey[u] = ikey[t] => u = t
    /\ pc[t] = "done" /\ ikey[t] # None =>
        /\ answer[t] \in Stored => memo[ikey[t]] = Response(t)
        /\ answer[t] = "conflict" =>
                memo[ikey[t]] # None /\ memo[ikey[t]].request # request[t]

MemoBacked(k) == memo[k] # None =>
    \E v \in Tasks : pc[v] = "done" /\ ikey[v] = k /\ memo[k] = Response(v)

\* What the memo says, call by call and key by key.
LEMMA MemoPerCall ==
    MemoAgrees <=> (\A t \in Tasks : MemoAt(t)) /\ (\A k \in IdempotencyKeys : MemoBacked(k))
BY DEF MemoAgrees, MemoAt, MemoBacked

\* A step that neither enters nor stores.
LEMMA MemoAside ==
    ASSUME MemoAgrees, NEW t \in Tasks, OthersKept(t), memo' = memo, pc[t] # "done",
           Inside(t)' => Inside(t) /\ ikey'[t] = ikey[t],
           pc'[t] = "done" /\ ikey'[t] # None => answer'[t] \notin Stored \cup {"conflict"}
    PROVE  MemoAgrees'
<1>1. ASSUME NEW u \in Tasks PROVE MemoAt(u)'
  <2>1. MemoAt(u)
    BY MemoPerCall
  <2>2. CASE u = t
    BY <2>1, <2>2 DEF MemoAt, OthersKept, Inside
  <2>3. CASE u # t
    BY <2>1, <2>3 DEF MemoAt, OthersKept, Inside, Response
  <2> QED
    BY <2>2, <2>3
<1>2. ASSUME NEW k \in IdempotencyKeys PROVE MemoBacked(k)'
  <2>1. MemoBacked(k)
    BY MemoPerCall
  <2> QED
    BY <2>1 DEF MemoBacked, OthersKept, Response
<1> QED
  BY <1>1, <1>2 DEF MemoAgrees, MemoAt, MemoBacked

\* A call that enters finds its own request, another one, or nothing under its key.
LEMMA MemoEntered ==
    ASSUME IInv, TypeOK', NEW t \in Tasks, OthersKept(t), Enter(t)
    PROVE  MemoAgrees'
<1>0. /\ TypeOK /\ memo' = memo /\ pc[t] = "authorizing"
      /\ ikey'[t] = ikey[t] /\ request'[t] = request[t]
  BY DEF IInv, Enter
<1>1. ASSUME NEW u \in Tasks, u # t PROVE MemoAt(u)'
  <2>1. MemoAt(u)
    BY MemoPerCall DEF IInv
  <2>2. Inside(u) => ikey[u] # ikey[t]
    BY DEF Enter
  <2> QED
    BY <1>0, <1>1, <2>1, <2>2 DEF MemoAt, OthersKept, Inside, Response
<1>2. MemoAt(t)'
  <2>1. CASE memo[ikey[t]] = None
    <3>1. pc'[t] = "inside" /\ \A u \in Tasks : Inside(u) => ikey[u] # ikey[t]
      BY <1>0, <2>1 DEF Enter, TypeOK
    <3> QED
      BY <1>0, <2>1, <3>1 DEF MemoAt, OthersKept, Inside
  <2>2. CASE memo[ikey[t]] # None
    <3>1. ikey[t] \in IdempotencyKeys
      BY <1>0 DEF IInv, Enter, TypeOK, CallsInOrder, Asks
    <3>2. memo[ikey[t]] \in Memos
      BY <1>0, <2>2, <3>1 DEF TypeOK
    <3>3. pc'[t] = "done"
      BY <1>0, <2>2 DEF Enter, TypeOK
    <3>4. CASE memo[ikey[t]].request = request[t]
      <4>1. answer'[t] = memo[ikey[t]].answer /\ signed'[t] = memo[ikey[t]].signed
        BY <1>0, <2>2, <3>4 DEF Enter, TypeOK
      <4>2. answer'[t] # "conflict" /\ memo[ikey[t]] = Response(t)'
        BY <1>0, <3>2, <3>4, <4>1 DEF Memos, Stored, Response
      <4> QED
        BY <1>0, <3>3, <4>2 DEF MemoAt, Inside
    <3>5. CASE memo[ikey[t]].request # request[t]
      <4>1. answer'[t] = "conflict"
        BY <1>0, <2>2, <3>5 DEF Enter, TypeOK
      <4> QED
        BY <1>0, <2>2, <3>3, <3>5, <4>1 DEF MemoAt, Inside, Stored
    <3> QED
      BY <3>4, <3>5
  <2> QED
    BY <2>1, <2>2
<1>3. ASSUME NEW k \in IdempotencyKeys PROVE MemoBacked(k)'
  <2>1. MemoBacked(k)
    BY MemoPerCall DEF IInv
  <2> QED
    BY <1>0, <2>1 DEF MemoBacked, OthersKept, Response
<1> QED
  BY <1>1, <1>2, <1>3 DEF MemoAgrees, MemoAt, MemoBacked

\* A call that stores its answer stores its own response under its own key.
LEMMA MemoStored ==
    ASSUME IInv, TypeOK', NEW t \in Tasks, OthersKept(t), Store(t)
    PROVE  MemoAgrees'
<1>1. /\ TypeOK /\ CallsInOrder /\ pc[t] = "answered" /\ pc'[t] = "done" /\ Inside(t)
      /\ ikey' = ikey /\ request' = request /\ answer' = answer /\ signed' = signed
  BY DEF IInv, Store, TypeOK, Inside
<1>2. ikey[t] \in IdempotencyKeys /\ memo' = [memo EXCEPT ![ikey[t]] = Response(t)]
  BY <1>1 DEF CallsInOrder, TypeOK, Store
<1>3. memo[ikey[t]] = None /\ \A u \in Tasks : Inside(u) /\ ikey[u] = ikey[t] => u = t
  BY <1>1, MemoPerCall DEF IInv, MemoAt
<1>4. memo'[ikey[t]] = Response(t)' /\ Response(t)' = Response(t)
  BY <1>1, <1>2 DEF TypeOK, Response
<1>5. answer[t] # "conflict"
  BY <1>1 DEF CallsInOrder, Stored
<1>6. ASSUME NEW u \in Tasks, u # t PROVE MemoAt(u)'
  <2>1. MemoAt(u) /\ Response(u)' = Response(u)
    BY <1>1, MemoPerCall DEF IInv, Response
  <2>2. pc'[u] = pc[u] /\ (Inside(u)' <=> Inside(u))
    BY <1>6 DEF OthersKept, Inside
  <2>3. CASE ikey[u] = ikey[t]
    <3>1. ~Inside(u)
      BY <1>3, <1>6, <2>3
    <3>2. pc[u] = "done" => answer[u] \notin Stored /\ answer[u] # "conflict"
      <4>1. pc[u] = "done" => request[u] # None
        BY <1>1 DEF CallsInOrder
      <4>2. ikey[u] # None
        BY <1>2, <2>3, NoneIsNothing
      <4> QED
        BY <1>1, <1>3, <2>1, <2>3, <4>1, <4>2, ResponsesAreSome DEF MemoAt
    <3> QED
      BY <1>1, <2>2, <3>1, <3>2 DEF MemoAt
  <2>4. CASE ikey[u] # ikey[t]
    <3>1. memo'[ikey[u]] = memo[ikey[u]] \/ ikey[u] = None
      BY <1>1, <1>2, <2>4 DEF TypeOK
    <3>2. Inside(u) => ikey[u] # None
      BY <1>1 DEF CallsInOrder
    <3>3. ASSUME Inside(u), NEW v \in Tasks, Inside(v)', ikey[v] = ikey[u] PROVE v = u
      <4>1. Inside(v)
        BY <1>1, <3>3 DEF OthersKept, Inside
      <4> QED
        BY <2>1, <3>3, <4>1 DEF MemoAt
    <3>4. Inside(u)' => memo'[ikey'[u]] = None
                        /\ \A v \in Tasks : Inside(v)' /\ ikey'[v] = ikey'[u] => v = u
      BY <1>1, <2>1, <2>2, <3>1, <3>2, <3>3 DEF MemoAt
    <3> QED
      BY <1>1, <2>1, <2>2, <3>1, <3>4 DEF MemoAt
  <2> QED
    BY <2>3, <2>4
<1>7. MemoAt(t)'
  BY <1>1, <1>4, <1>5 DEF MemoAt, Inside
<1>8. ASSUME NEW k \in IdempotencyKeys PROVE MemoBacked(k)'
  <2>1. MemoBacked(k)
    BY MemoPerCall DEF IInv
  <2>2. CASE k = ikey[t]
    BY <1>1, <1>4, <2>2 DEF MemoBacked
  <2>3. CASE k # ikey[t]
    <3>1. memo'[k] = memo[k]
      BY <1>1, <1>2, <2>3 DEF TypeOK
    <3> QED
      BY <1>1, <2>1, <3>1 DEF MemoBacked, OthersKept, Response
  <2> QED
    BY <2>2, <2>3
<1> QED
  BY <1>6, <1>7, <1>8 DEF MemoAgrees, MemoAt, MemoBacked

\* A step keeps the memo in agreement with the calls.
LEMMA MemoStep ==
    ASSUME IInv, TypeOK', NEW t \in Tasks, Step(t)
    PROVE  MemoAgrees'
<1>0. TypeOK /\ CallsInOrder /\ MemoAgrees /\ OthersKept(t)
  BY StepKeepsOthers DEF IInv
<1>1. CASE AskKey(t) \/ AskUpdate(t)
  <2>1. memo' = memo /\ pc[t] = "idle" /\ pc'[t] = "authorizing"
    BY <1>0, <1>1 DEF AskKey, AskUpdate, TypeOK
  <2> QED
    BY <1>0, <2>1, MemoAside DEF Inside
<1>2. CASE Quiet(t)
  <2>1. \/ pc[t] \in {"authorizing", "inside"} /\ pc'[t] = "done"
        \/ pc[t] = "inside" /\ pc'[t] = "answered"
    BY <1>0, <1>2 DEF Quiet, TurnAway, Refuse, Defer, Fail, Forbid, Cancel, TypeOK
  <2>2. memo' = memo /\ ikey'[t] = ikey[t]
    BY <1>2, QuietStep
  <2>3. pc'[t] = "done" => ikey[t] = None \/ answer'[t] \notin Stored \cup {"conflict"}
    <3>1. CASE TurnAway(t) \/ Fail(t) \/ Cancel(t)
      BY <1>0, <3>1 DEF TurnAway, Fail, Cancel, TypeOK, Stored
    <3>2. CASE Refuse(t) \/ Defer(t)
      BY <1>0, <3>2 DEF Refuse, Defer, TypeOK
    <3>3. CASE Forbid(t)
      BY <1>0, <3>3 DEF Forbid, CallsInOrder
    <3> QED
      BY <1>2, <3>1, <3>2, <3>3 DEF Quiet
  <2> QED
    BY <1>0, <2>1, <2>2, <2>3, MemoAside DEF Inside
<1>3. CASE SignAssertion(t) \/ Stamp(t) \/ Verify(t)
  <2>1. /\ memo' = memo /\ ikey'[t] = ikey[t]
        /\ pc[t] \in {"inside", "stamped"} /\ pc'[t] \in {"stamped", "answered"}
    BY <1>0, <1>3 DEF SignAssertion, Stamp, Verify, TypeOK
  <2> QED
    BY <1>0, <2>1, MemoAside DEF Inside
<1>4. CASE WriteStatus(t)
  <2>1. memo' = memo /\ ikey'[t] = None /\ pc[t] = "authorizing" /\ pc'[t] = "done"
    BY <1>0, <1>4 DEF WriteStatus, TypeOK, CallsInOrder
  <2> QED
    BY <1>0, <2>1, MemoAside DEF Inside
<1> QED
  BY <1>0, <1>1, <1>2, <1>3, <1>4, MemoEntered, MemoStored DEF Step, Quiet

----------------------------------------------------------------------------
\* Only a verification touches the replay records or makes one verified.
LEMMA OthersVerifyNothing ==
    ASSUME IInv, TypeOK', CallsInOrder', NEW t \in Tasks, Step(t), ~Verify(t)
    PROVE  /\ replays' = replays /\ clock' = clock
           /\ \A u \in Tasks : VerifiedAnew(u)' =>
                VerifiedAnew(u) /\ request'[u] = request[u] /\ used'[u] = used[u]
<1>0. TypeOK /\ CallsInOrder /\ OthersKept(t)
  BY StepKeepsOthers DEF IInv
<1>1. replays' = replays /\ clock' = clock
  BY DEF Step, AskKey, AskUpdate, TurnAway, Enter, Refuse, Defer, SignAssertion, Fail, Stamp,
         Store, WriteStatus, Forbid, Cancel
<1>2. ASSUME NEW u \in Tasks \ {t}, VerifiedAnew(u)'
      PROVE  VerifiedAnew(u) /\ request'[u] = request[u] /\ used'[u] = used[u]
  BY <1>0, <1>2 DEF OthersKept, VerifiedAnew, Asks
<1>3. ASSUME VerifiedAnew(t)'
      PROVE  VerifiedAnew(t) /\ request'[t] = request[t] /\ used'[t] = used[t]
  <2>1. CASE AskKey(t) \/ AskUpdate(t)
    <3>1. pc'[t] = "authorizing"
      BY <1>0, <2>1 DEF AskKey, AskUpdate, TypeOK
    <3> QED
      BY <1>3, <3>1 DEF CallsInOrder, VerifiedAnew
  <2>2. CASE SignAssertion(t)
    BY <1>3, <2>2 DEF SignAssertion, VerifiedAnew, Asks
  <2>3. CASE UNCHANGED <<request, used>>
    BY <1>3, <2>3 DEF VerifiedAnew, Asks
  <2> QED
    BY <2>1, <2>2, <2>3
    DEF Step, TurnAway, Enter, Refuse, Defer, Fail, Stamp, Store, WriteStatus, Forbid, Cancel
<1> QED
  BY <1>1, <1>2, <1>3

\* A verification puts the jti on record and accepts it once.
LEMMA VerifyStep ==
    ASSUME IInv, TypeOK', NEW t \in Tasks, Verify(t)
    PROVE  VerifiedOnRecord' /\ VerifiedOncePerLifetime'
<1> DEFINE a == request[t].assertion
<1>0. TypeOK /\ CallsInOrder /\ TimesArePast /\ VerifiedOnRecord /\ VerifiedOncePerLifetime
  BY DEF IInv
<1>1. /\ a \in Assertions /\ a.jti \in Jtis /\ a.exp \in Int
      /\ clock \in Int /\ now[t] \in Int /\ now[t] <= clock /\ used[t] = None
  BY <1>0, RequestOf, MaxTimeIsNat, NoneIsNothing
  DEF Verify, CallsInOrder, TimesArePast, TypeOK, Instants
<1>2. ASSUME NEW u \in Tasks, VerifiedAnew(u)
      PROVE  /\ u # t /\ request[u].assertion.jti \in Jtis /\ ExpiryOf(u) \in Int
             /\ used[u] \in Int
  BY <1>0, <1>1, <1>2, RequestOf, MaxTimeIsNat DEF VerifiedAnew, ExpiryOf, TypeOK, Instants
<1>3. request' = request /\ clock' = clock /\ \A u \in Tasks \ {t} : used'[u] = used[u]
  BY <1>0 DEF Verify, TypeOK
<1>4. ASSUME NEW j \in Jtis, Purged(now[t])[j] # replays[j]
      PROVE  replays[j] \in Int /\ replays[j] <= clock /\ Purged(now[t])[j] = None
  BY <1>0, <1>1, <1>4 DEF Purged, TypeOK
<1>5. CASE UNCHANGED <<replays, used>>
  BY <1>0, <1>3, <1>5
  DEF VerifiedOnRecord, VerifiedOncePerLifetime, VerifiedAnew, ExpiryOf, Asks
<1>6. CASE replays' = Purged(now[t]) /\ UNCHANGED used
  <2>1. ASSUME NEW u \in Tasks, VerifiedAnew(u)
        PROVE  replays'[request[u].assertion.jti] = ExpiryOf(u) \/ clock >= ExpiryOf(u)
    BY <1>0, <1>1, <1>2, <1>4, <1>6, <2>1 DEF VerifiedOnRecord
  <2> QED
    BY <1>0, <1>3, <1>6, <2>1
    DEF VerifiedOnRecord, VerifiedOncePerLifetime, VerifiedAnew, ExpiryOf, Asks
<1>7. CASE /\ Purged(now[t])[a.jti] = None
           /\ replays' = [Purged(now[t]) EXCEPT ![a.jti] = a.exp]
           /\ used' = [used EXCEPT ![t] = clock]
  <2>1. used'[t] = clock /\ replays'[a.jti] = a.exp
    BY <1>0, <1>1, <1>7 DEF TypeOK, Purged
  <2>2. ASSUME NEW u \in Tasks, VerifiedAnew(u), request[u].assertion.jti = a.jti
        PROVE  clock >= ExpiryOf(u)
    BY <1>0, <1>1, <1>2, <1>4, <1>7, <2>2, NoneIsNothing DEF VerifiedOnRecord
  <2>3. ASSUME NEW u \in Tasks, VerifiedAnew(u), request[u].assertion.jti # a.jti
        PROVE  replays'[request[u].assertion.jti] = ExpiryOf(u) \/ clock >= ExpiryOf(u)
    <3>1. replays'[request[u].assertion.jti] = Purged(now[t])[request[u].assertion.jti]
      BY <1>1, <1>2, <1>7, <2>3 DEF Purged
    <3> QED
      BY <1>0, <1>1, <1>2, <1>4, <2>3, <3>1 DEF VerifiedOnRecord
  <2>4. ASSUME NEW u \in Tasks, VerifiedAnew(u)' PROVE u = t \/ VerifiedAnew(u)
    BY <1>3, <2>4 DEF VerifiedAnew, Asks
  <2>5. VerifiedOnRecord'
    BY <1>3, <2>1, <2>2, <2>3, <2>4 DEF VerifiedOnRecord, ExpiryOf
  <2>6. VerifiedOncePerLifetime'
    BY <1>0, <1>3, <2>1, <2>2, <2>4 DEF VerifiedOncePerLifetime, ExpiryOf
  <2> QED
    BY <2>5, <2>6
<1> QED
  BY <1>5, <1>6, <1>7 DEF Verify

\* A step of a call keeps the invariant.
LEMMA StepIInv ==
    ASSUME IInv, NEW t \in Tasks, Step(t)
    PROVE  IInv'
<1>1. TypeOK'
  BY TypeStep
<1>2. CallsInOrder' /\ TimesArePast' /\ CopiesAreCurrent' /\ MemoAgrees'
  BY <1>1, CallsStep, TimesStep, CopiesStep, MemoStep
<1>3. CASE Verify(t)
  BY <1>1, <1>2, <1>3, VerifyStep DEF IInv
<1>4. CASE ~Verify(t)
  <2>1. VerifiedOnRecord' /\ VerifiedOncePerLifetime'
    BY <1>1, <1>2, <1>4, OthersVerifyNothing
    DEF IInv, VerifiedOnRecord, VerifiedOncePerLifetime, ExpiryOf
  <2> QED
    BY <1>1, <1>2, <2>1 DEF IInv
<1> QED
  BY <1>3, <1>4

\* Time only moves the clock.
LEMMA TickIInv == IInv /\ Tick => IInv'
<1> SUFFICES ASSUME IInv, Tick PROVE IInv'
  OBVIOUS
<1>1. /\ clock \in 0..MaxTime /\ clock < MaxTime /\ clock' = clock + 1
      /\ UNCHANGED <<status, replays, memo, minted, pc, callVars, now, outcome, ghosts>>
  BY DEF IInv, TypeOK, Tick
<1>2. TypeOK'
  BY <1>1, MaxTimeIsNat DEF IInv, TypeOK
<1>3. TimesArePast'
  <2>1. \A t \in Tasks : now[t] \in Int \cup {None} /\ used[t] \in Int \cup {None}
    BY MaxTimeIsNat DEF IInv, TypeOK, Instants
  <2> QED
    BY <1>1, <2>1, MaxTimeIsNat, NoneIsNothing DEF IInv, TimesArePast
<1>4. VerifiedOnRecord'
  <2>1. \A t \in Tasks : VerifiedAnew(t) => ExpiryOf(t) \in Int
    BY RequestOf DEF IInv, VerifiedAnew, ExpiryOf
  <2> QED
    BY <1>1, <2>1, MaxTimeIsNat DEF IInv, VerifiedOnRecord, VerifiedAnew, ExpiryOf, Asks
<1>5. CallsInOrder' /\ CopiesAreCurrent' /\ MemoAgrees' /\ VerifiedOncePerLifetime'
  BY <1>1
  DEF IInv, CallsInOrder, CopiesAreCurrent, MemoAgrees, VerifiedOncePerLifetime, VerifiedAnew,
      ExpiryOf, Inside, Asks, MayUseKey, Updating, InFlight, Response
<1> QED
  BY <1>2, <1>3, <1>4, <1>5 DEF IInv

\* No step leaves the invariant.
LEMMA NextIInv == IInv /\ [Next]_vars => IInv'
<1> SUFFICES ASSUME IInv, [Next]_vars PROVE IInv'
  OBVIOUS
<1>1. CASE Tick
  BY <1>1, TickIInv
<1>2. CASE \E t \in Tasks : Step(t)
  BY <1>2, StepIInv
<1>3. CASE UNCHANGED vars
  BY <1>3
  DEF vars, IInv, TypeOK, CallsInOrder, TimesArePast, CopiesAreCurrent, MemoAgrees,
      VerifiedOnRecord, VerifiedOncePerLifetime, VerifiedAnew, ExpiryOf, Inside, Asks,
      MayUseKey, Updating, InFlight, Response
<1> QED
  BY <1>1, <1>2, <1>3 DEF Next, Step

----------------------------------------------------------------------------
\* Type correctness, and the invariant that carries the rest (platform.rs:300-580).
THEOREM Invariance == Spec => []IInv
BY InitIInv, NextIInv, PTL DEF Spec

\* The state is always of its type.
THEOREM TypeCorrect == Spec => []TypeOK
<1>1. IInv => TypeOK
  BY DEF IInv
<1> QED
  BY <1>1, Invariance, PTL

\* However long a call waits for the key of its request, it uses the identity's key
\* only if the identity was active at some moment of the call (platform.rs:340, 520).
THEOREM UseNeedsActive == Spec => []KeysUsedWhileActive
<1>1. IInv => KeysUsedWhileActive
  BY DEF IInv, CallsInOrder, KeysUsedWhileActive
<1> QED
  BY <1>1, Invariance, PTL

\* An idempotency key stands for one request and one answer (platform.rs:670-717).
THEOREM OneAnswerPerKey == Spec => []KeyDecidesOnce
<1>1. IInv => KeyDecidesOnce
  <2> SUFFICES ASSUME IInv, NEW t \in Tasks, NEW u \in Tasks, ikey[t] # None,
                      ikey[t] = ikey[u], pc[t] = "done", pc[u] = "done"
               PROVE  /\ answer[t] \in Stored /\ answer[u] \in Stored =>
                            request[t] = request[u] /\ Response(t) = Response(u)
                      /\ answer[t] = "conflict" =>
                            \E v \in Tasks : /\ ikey[v] = ikey[t] /\ request[v] # request[t]
                                             /\ pc[v] = "done" /\ answer[v] \in Stored
    BY DEF KeyDecidesOnce
  <2>1. MemoAt(t) /\ MemoAt(u) /\ ikey[t] \in IdempotencyKeys
    BY MemoPerCall DEF IInv, TypeOK
  <2>2. ASSUME answer[t] \in Stored, answer[u] \in Stored
        PROVE  request[t] = request[u] /\ Response(t) = Response(u)
    <3>1. Response(t) = Response(u)
      BY <2>1, <2>2 DEF MemoAt
    <3> QED
      BY <3>1 DEF Response
  <2>3. ASSUME answer[t] = "conflict"
        PROVE  \E v \in Tasks : /\ ikey[v] = ikey[t] /\ request[v] # request[t]
                                /\ pc[v] = "done" /\ answer[v] \in Stored
    <3>1. memo[ikey[t]] # None /\ memo[ikey[t]].request # request[t]
      BY <2>1, <2>3 DEF MemoAt
    <3>2. memo[ikey[t]] \in Memos
      BY <2>1, <3>1 DEF IInv, TypeOK
    <3>3. PICK v \in Tasks : /\ pc[v] = "done" /\ ikey[v] = ikey[t]
                             /\ memo[ikey[t]] = Response(v)
      BY <2>1, <3>1, MemoPerCall DEF IInv, MemoBacked
    <3>4. request[v] # request[t] /\ answer[v] \in Stored
      BY <3>1, <3>2, <3>3 DEF Response, Memos
    <3> QED
      BY <3>3, <3>4
  <2> QED
    BY <2>2, <2>3
<1> QED
  BY <1>1, Invariance, PTL

\* One verification per jti until the assertion it vouched for expires, whatever the
\* instants that callers supply (platform.rs:529-566, store.rs:346-363).
THEOREM OneVerificationPerLifetime == Spec => []VerifiedOncePerLifetime
<1>1. IInv => VerifiedOncePerLifetime
  BY DEF IInv
<1> QED
  BY <1>1, Invariance, PTL

\* Only an overtaken update makes a transition the policy forbids
\* (platform.rs:415-425).
THEOREM TransitionsAreJudged == Spec => ForbiddenNeedsOverlap
<1> DEFINE Judged ==
        \/ status' = status
        \/ <<status, status'>> \in Allowed
        \/ \E t \in overtaken : answer[t] = None /\ answer'[t] = "updated"
<1>1. ASSUME IInv, [Next]_vars PROVE [Judged]_vars
  <2>1. ASSUME NEW t \in Tasks, WriteStatus(t) PROVE Judged
    <3>1. Updating(t) /\ answer[t] = None /\ answer'[t] = "updated"
      BY <1>1, <2>1 DEF WriteStatus, IInv, CallsInOrder, TypeOK, Updating, InFlight
    <3>2. seen[t] = status \/ t \in overtaken
      BY <1>1, <3>1 DEF IInv, CopiesAreCurrent
    <3>3. status' = request[t].to /\ <<seen[t], request[t].to>> \in Allowed
      BY <2>1 DEF WriteStatus
    <3> QED
      BY <3>1, <3>2, <3>3
  <2>2. CASE UNCHANGED status
    BY <2>2
  <2> QED
    BY <1>1, <2>1, <2>2
    DEF vars, Next, Tick, AskKey, AskUpdate, TurnAway, Enter, Refuse, Defer, SignAssertion, Fail,
        Stamp, Verify, Store, Forbid, Cancel
<1> QED
  BY <1>1, Invariance, PTL DEF Spec, ForbiddenNeedsOverlap

=============================================================================
