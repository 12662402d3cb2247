----------------------- MODULE AssertionReplayProofs -----------------------
(***************************************************************************)
(* Proofs about the client assertions of a Service: about AssertionReplay, *)
(* for every set of requests and tokens, and every clock skew; and about   *)
(* ClientAssertions, for every Service, Agent and drift of their clocks.   *)
(***************************************************************************)
EXTENDS ServiceAssertions, TLAPS

USE DEF Accepted, JtiOf, ExpiryOf

\* The claims of a token, and the expiry of its replay record, are typed.
LEMMA ClaimsTyped ==
    ASSUME NEW a \in Tokens
    PROVE  /\ Claims[a].jti \in Jtis
           /\ Claims[a].iat \in Int
           /\ Claims[a].exp \in Int
           /\ ExpiresAt(Claims[a]) \in Int
BY ClaimsHaveType, SkewIsNat, TicksArePositive DEF ExpiresAt

\* A token inside its window is not yet at the expiry of its replay record: the
\* window is rounded down twice, the record is not (authentication.rs:67-71).
LEMMA WindowEndsBeforeRecord ==
    ASSUME NEW a \in Tokens, NEW at \in 0..MaxTime, InsideWindow(Claims[a], at)
    PROVE  at < ExpiresAt(Claims[a])
<1> DEFINE T == TicksPerSecond
           e == Claims[a].exp
           s == at \div T
           k == Skew \div T
<1>1. T \in Nat \ {0} /\ e \in Int /\ at \in Nat /\ Skew \in Nat
  BY ClaimsTyped, TicksArePositive, SkewIsNat, MaxTimeIsNat
<1>2. e > s - k
  BY DEF InsideWindow, Timestamp
<1>3. /\ s \in Nat /\ k \in Nat
      /\ at = T * s + (at % T) /\ at % T \in 0..(T - 1)
      /\ Skew = T * k + (Skew % T) /\ Skew % T \in 0..(T - 1)
  BY <1>1
<1> HIDE DEF s, k, T, e
<1>4. s <= e + k - 1
  BY <1>1, <1>2, <1>3
<1>5. T * s <= T * (e + k - 1)
  BY <1>1, <1>3, <1>4
<1>6. T * (e + k - 1) = e * T + T * k - T
  BY <1>1, <1>3
<1>7. at < e * T + Skew
  <2>1. T * s \in Int /\ T * k \in Int /\ e * T \in Int
    BY <1>1, <1>3
  <2>2. at <= T * s + (T - 1)
    BY <1>1, <1>3, <2>1
  <2>3. at <= e * T + T * k - T + T - 1
    BY <1>1, <1>5, <1>6, <2>1, <2>2
  <2>4. T * k <= Skew
    BY <1>1, <1>3, <2>1
  <2> QED
    BY <1>1, <2>1, <2>3, <2>4
<1> QED
  BY <1>7 DEF ExpiresAt, T, e

\* What the purge leaves of the replay store (store.rs:120).
LEMMA PurgedKeeps ==
    ASSUME TypeOK, NEW at \in 0..MaxTime
    PROVE  /\ Purged(at) \in [Jtis -> Int \cup {None}]
           /\ \A j \in Jtis : Purged(at)[j] # None => Purged(at)[j] = records[j]
           /\ \A j \in Jtis : records[j] \in Int /\ records[j] > at => Purged(at)[j] = records[j]
           /\ \A j \in Jtis : records[j] \in Int /\ Purged(at)[j] = None => records[j] <= at
BY MaxTimeIsNat, NoneIsNothing DEF TypeOK, Purged

----------------------------------------------------------------------------
\* At first no request has arrived and nothing is on record.
LEMMA InitIInv == Init => IInv
BY MaxTimeIsNat, NoneIsNothing
   DEF Init, IInv, TypeOK, Verdicts, RequestsInOrder, AcceptedInWindow, AcceptedOnRecord,
       RecordIsAccepted, AcceptedOncePerLifetime, SecondUseNeedsPurge, ReplaysAreReplays

\* Arrive gives a request its token and its instant.
LEMMA ArriveStep ==
    ASSUME IInv, NEW r \in Requests, Arrive(r)
    PROVE  IInv'
<1>1. /\ UNCHANGED <<records, clock, verdict, decided>>
      /\ now[r] = None /\ verdict[r] = "none"
      /\ now' = [now EXCEPT ![r] = clock]
      /\ \A q \in Requests : now[q] # None => now'[q] = now[q]
      /\ \A q \in Requests : verdict[q] # "none" => token'[q] = token[q] /\ now'[q] = now[q]
  BY DEF IInv, TypeOK, RequestsInOrder, Arrive
<1>2. TypeOK'
  BY <1>1 DEF IInv, TypeOK, Arrive
<1>3. RequestsInOrder'
  BY <1>1, NoneIsNothing, MaxTimeIsNat DEF IInv, TypeOK, RequestsInOrder, Arrive
<1>4. AcceptedInWindow'
  BY <1>1 DEF IInv, TypeOK, AcceptedInWindow
<1>5. AcceptedOnRecord'
  BY <1>1 DEF IInv, TypeOK, AcceptedOnRecord
<1>6. RecordIsAccepted'
  BY <1>1 DEF IInv, TypeOK, RecordIsAccepted
<1>7. AcceptedOncePerLifetime'
  BY <1>1 DEF IInv, AcceptedOncePerLifetime
<1>8. SecondUseNeedsPurge'
  BY <1>1 DEF IInv, SecondUseNeedsPurge
<1>9. ReplaysAreReplays'
  BY <1>1 DEF IInv, ReplaysAreReplays
<1> QED
  BY <1>2, <1>3, <1>4, <1>5, <1>6, <1>7, <1>8, <1>9 DEF IInv

\* A refused request leaves the record as it is.
LEMMA RefuseStep ==
    ASSUME IInv, NEW r \in Requests, Refuse(r)
    PROVE  IInv'
<1>1. /\ UNCHANGED <<records, clock, now, token>>
      /\ now[r] # None /\ verdict[r] = "none" /\ verdict'[r] = "refused"
      /\ decided' = [decided EXCEPT ![r] = clock]
      /\ \A q \in Requests \ {r} : verdict'[q] = verdict[q] /\ decided'[q] = decided[q]
  BY DEF IInv, TypeOK, Refuse, Decide, Awaiting
<1>2. TypeOK'
  BY <1>1 DEF IInv, TypeOK, Refuse, Decide, Verdicts
<1>3. RequestsInOrder'
  BY <1>1, NoneIsNothing, MaxTimeIsNat DEF IInv, TypeOK, RequestsInOrder
<1>4. \A q \in Requests : verdict'[q] \in {"accepted", "replayed"} =>
        q # r /\ verdict'[q] = verdict[q] /\ decided'[q] = decided[q]
  BY <1>1
<1>5. \A q \in Requests : verdict[q] = "accepted" => verdict'[q] = "accepted"
  BY <1>1
<1>6. AcceptedInWindow' /\ AcceptedOnRecord' /\ RecordIsAccepted'
  BY <1>1, <1>4, <1>5 DEF IInv, AcceptedInWindow, AcceptedOnRecord, RecordIsAccepted
<1>7. AcceptedOncePerLifetime'
  BY <1>1, <1>4 DEF IInv, AcceptedOncePerLifetime
<1>8. SecondUseNeedsPurge'
  BY <1>1, <1>4 DEF IInv, SecondUseNeedsPurge
<1>9. ReplaysAreReplays'
  BY <1>1, <1>4, <1>5 DEF IInv, ReplaysAreReplays
<1> QED
  BY <1>2, <1>3, <1>6, <1>7, <1>8, <1>9 DEF IInv

----------------------------------------------------------------------------
\* The part of a consume step that its two outcomes share: a record that the
\* purge drops has been found expired by the request itself.
LEMMA ConsumeStep ==
    ASSUME IInv, NEW r \in Requests, Consume(r)
    PROVE  IInv'
<1> DEFINE c == Claims[token[r]]
           kept == Purged(now[r])
<1>1. /\ UNCHANGED <<clock, now, token>>
      /\ now[r] # None /\ verdict[r] = "none"
      /\ decided' = [decided EXCEPT ![r] = clock]
      /\ \A q \in Requests \ {r} : verdict'[q] = verdict[q] /\ decided'[q] = decided[q]
      /\ decided'[r] = clock
  BY DEF IInv, TypeOK, Consume, Decide, Awaiting
<1>2. /\ now[r] \in 0..MaxTime /\ now[r] <= clock /\ clock \in 0..MaxTime
      /\ token[r] \in Tokens /\ c.jti \in Jtis /\ ExpiresAt(c) \in Int
      /\ InsideWindow(c, now[r]) /\ now[r] < ExpiresAt(c)
  <2>1. now[r] \in 0..MaxTime /\ now[r] <= clock /\ clock \in 0..MaxTime /\ token[r] \in Tokens
    BY <1>1 DEF IInv, TypeOK, RequestsInOrder
  <2>2. InsideWindow(c, now[r])
    BY DEF Consume, Acceptable
  <2> QED
    BY <2>1, <2>2, ClaimsTyped, WindowEndsBeforeRecord
<1>3. /\ kept \in [Jtis -> Int \cup {None}]
      /\ \A j \in Jtis : kept[j] # None => kept[j] = records[j]
      /\ \A j \in Jtis : records[j] \in Int /\ records[j] > now[r] => kept[j] = records[j]
      /\ \A j \in Jtis : records[j] \in Int /\ kept[j] = None => records[j] <= now[r]
  BY <1>2, PurgedKeeps DEF IInv
<1>4. \A q \in Requests : Accepted(q) =>
        token[q] \in Tokens /\ JtiOf(q) \in Jtis /\ ExpiryOf(q) \in Int /\ q # r
        /\ now[q] \in 0..MaxTime /\ now[q] < ExpiryOf(q) /\ InsideWindow(Claims[token[q]], now[q])
  BY <1>1, ClaimsTyped, WindowEndsBeforeRecord
     DEF IInv, TypeOK, RequestsInOrder, AcceptedInWindow
<1>5. TypeOK'
  <2>1. records' \in [Jtis -> Int \cup {None}]
    BY <1>2, <1>3 DEF Consume
  <2>2. verdict' \in [Requests -> Verdicts]
    BY DEF Consume, Decide, IInv, TypeOK, Verdicts
  <2> QED
    BY <1>1, <2>1, <2>2 DEF IInv, TypeOK
<1>6. verdict'[r] # "none" /\ RequestsInOrder'
  BY <1>1, NoneIsNothing, MaxTimeIsNat DEF IInv, TypeOK, RequestsInOrder, Consume, Decide
<1>7. \* a request let in before is still on record, or someone arrived too late for it
      \A q \in Requests : Accepted(q) =>
        \/ kept[JtiOf(q)] = ExpiryOf(q)
        \/ \E p \in Requests : now[p] # None /\ now[p] >= ExpiryOf(q)
  <2> SUFFICES ASSUME NEW q \in Requests, Accepted(q), records[JtiOf(q)] = ExpiryOf(q),
                      kept[JtiOf(q)] # ExpiryOf(q)
               PROVE  now[r] >= ExpiryOf(q)
    BY <1>1 DEF IInv, AcceptedOnRecord
  <2>1. JtiOf(q) \in Jtis /\ ExpiryOf(q) \in Int
    BY <1>4
  <2> QED
    BY <1>2, <1>3, <2>1
<1>8. CASE verdict'[r] = "replayed"
  <2>1. records' = kept /\ kept[c.jti] # None
    BY <1>1, <1>8 DEF Consume, Decide, IInv, TypeOK
  <2>2. \A q \in Requests : Accepted(q)' =>
            q # r /\ Accepted(q) /\ decided'[q] = decided[q]
    BY <1>1, <1>8
  <2>3. \A q \in Requests : Accepted(q) => Accepted(q)'
    BY <1>1
  <2>4. AcceptedInWindow'
    BY <1>1, <2>2 DEF IInv, AcceptedInWindow
  <2>5. AcceptedOnRecord'
    BY <1>1, <1>7, <2>1, <2>2 DEF AcceptedOnRecord
  <2>6. RecordIsAccepted'
    BY <1>1, <1>3, <2>1, <2>3 DEF IInv, RecordIsAccepted
  <2>7. AcceptedOncePerLifetime'
    BY <1>1, <2>2 DEF IInv, AcceptedOncePerLifetime
  <2>8. SecondUseNeedsPurge'
    BY <1>1, <2>2 DEF IInv, SecondUseNeedsPurge
  <2>9. ReplaysAreReplays'
    <3>1. PICK s \in Requests : Accepted(s) /\ JtiOf(s) = c.jti /\ ExpiryOf(s) = records[c.jti]
      BY <1>2, <1>3, <2>1 DEF IInv, RecordIsAccepted
    <3>2. records[c.jti] > now[r]
      BY <1>2, <2>1 DEF Purged
    <3>3. s # r
      BY <1>1, <3>1
    <3>4. \E t \in Requests \ {r} : Accepted(t)' /\ JtiOf(t)' = JtiOf(r)' /\ ExpiryOf(t)' > now'[r]
      BY <1>1, <2>3, <3>1, <3>2, <3>3
    <3>5. \A q \in Requests \ {r} : verdict'[q] = "replayed" =>
            \E t \in Requests \ {q} : Accepted(t)' /\ JtiOf(t)' = JtiOf(q)' /\ ExpiryOf(t)' > now'[q]
      BY <1>1, <2>3 DEF IInv, ReplaysAreReplays
    <3> QED
      BY <3>4, <3>5 DEF ReplaysAreReplays
  <2> QED
    BY <1>5, <1>6, <2>4, <2>5, <2>6, <2>7, <2>8, <2>9 DEF IInv
<1>9. CASE verdict'[r] = "accepted"
  <2>1. records' = [kept EXCEPT ![c.jti] = ExpiresAt(c)] /\ kept[c.jti] = None
    BY <1>1, <1>9 DEF Consume, Decide, IInv, TypeOK
  <2>2. \A q \in Requests \ {r} : Accepted(q)' <=> Accepted(q)
    BY <1>1
  <2>3. \* whoever used this jti before did so with a record that has expired since
        \A q \in Requests : Accepted(q) /\ JtiOf(q) = c.jti =>
            \E p \in Requests : now[p] # None /\ now[p] >= ExpiryOf(q)
    BY <1>4, <1>7, <2>1, NoneIsNothing
  <2>4. \A q \in Requests : Accepted(q) /\ JtiOf(q) = c.jti => clock >= ExpiryOf(q)
    <3> SUFFICES ASSUME NEW q \in Requests, Accepted(q), JtiOf(q) = c.jti
                 PROVE  clock >= ExpiryOf(q)
      OBVIOUS
    <3>1. PICK p \in Requests : now[p] # None /\ now[p] >= ExpiryOf(q)
      BY <2>3
    <3>2. now[p] \in 0..MaxTime /\ now[p] <= clock
      BY <3>1 DEF IInv, TypeOK, RequestsInOrder
    <3> QED
      BY <1>2, <1>4, <3>1, <3>2
  <2>5. AcceptedInWindow'
    BY <1>1, <1>2, <2>2 DEF IInv, AcceptedInWindow
  <2>6. AcceptedOnRecord'
    <3>1. records'[JtiOf(r)'] = ExpiryOf(r)'
      BY <1>1, <1>2, <1>3, <2>1
    <3>2. ASSUME NEW q \in Requests \ {r}, Accepted(q)'
          PROVE  \/ records'[JtiOf(q)'] = ExpiryOf(q)'
                 \/ \E p \in Requests : now'[p] # None /\ now'[p] >= ExpiryOf(q)'
      <4>1. CASE JtiOf(q) = c.jti
        BY <1>1, <2>2, <2>3, <3>2, <4>1
      <4>2. CASE JtiOf(q) # c.jti
        BY <1>1, <1>3, <1>4, <1>7, <2>1, <2>2, <3>2, <4>2
      <4> QED
        BY <4>1, <4>2
    <3> QED
      BY <3>1, <3>2 DEF AcceptedOnRecord
  <2>7. RecordIsAccepted'
    <3> SUFFICES ASSUME NEW j \in Jtis, records'[j] # None
                 PROVE  \E q \in Requests : Accepted(q)' /\ JtiOf(q)' = j /\ ExpiryOf(q)' = records'[j]
      BY DEF RecordIsAccepted
    <3>1. CASE j = c.jti
      BY <1>1, <1>2, <1>3, <1>9, <2>1, <3>1
    <3>2. CASE j # c.jti
      <4>1. kept[j] # None /\ records'[j] = kept[j] /\ records[j] = kept[j]
        BY <1>3, <2>1, <3>2
      <4>2. PICK q \in Requests : Accepted(q) /\ JtiOf(q) = j /\ ExpiryOf(q) = records[j]
        BY <4>1 DEF IInv, RecordIsAccepted
      <4> QED
        BY <1>1, <4>1, <4>2
    <3> QED
      BY <3>1, <3>2
  <2>8. AcceptedOncePerLifetime'
    <3>1. ASSUME NEW q \in Requests \ {r}, Accepted(q)', JtiOf(q)' = JtiOf(r)'
          PROVE  decided'[r] >= ExpiryOf(q)'
      BY <1>1, <2>2, <2>4, <3>1
    <3>2. \A q, s \in Requests \ {r} :
            Accepted(q)' /\ Accepted(s)' /\ JtiOf(q)' = JtiOf(s)' /\ q # s =>
                decided'[q] >= ExpiryOf(s)' \/ decided'[s] >= ExpiryOf(q)'
      BY <1>1, <2>2 DEF IInv, AcceptedOncePerLifetime
    <3> QED
      BY <3>1, <3>2 DEF AcceptedOncePerLifetime
  <2>9. SecondUseNeedsPurge'
    <3>1. \* the purger is neither of the two: both arrived inside the window
          ASSUME NEW q \in Requests \ {r}, Accepted(q)', token'[q] = token'[r]
          PROVE  \E p \in Requests \ {q, r} : now'[p] # None /\ now'[p] >= ExpiryOf(q)'
      <4>1. Accepted(q) /\ JtiOf(q) = c.jti /\ ExpiryOf(q) = ExpiresAt(c)
        BY <1>1, <2>2, <3>1
      <4>2. PICK p \in Requests : now[p] # None /\ now[p] >= ExpiryOf(q)
        BY <2>3, <4>1
      <4>3. p # q /\ p # r
        <5>1. now[q] < ExpiryOf(q) /\ now[q] \in Int /\ ExpiryOf(q) \in Int
          BY <1>4, <4>1, MaxTimeIsNat
        <5>2. now[r] < ExpiryOf(q) /\ now[r] \in Int
          BY <1>2, <4>1, MaxTimeIsNat
        <5> QED
          BY <4>2, <5>1, <5>2
      <4> QED
        BY <1>1, <4>2, <4>3
    <3>2. \A q, s \in Requests \ {r} :
            Accepted(q)' /\ Accepted(s)' /\ token'[q] = token'[s] /\ q # s =>
                \E p \in Requests \ {q, s} : now'[p] # None /\ now'[p] >= ExpiryOf(q)'
      BY <1>1, <2>2 DEF IInv, SecondUseNeedsPurge
    <3>3. ASSUME NEW q \in Requests \ {r}, Accepted(q)', token'[q] = token'[r]
          PROVE  \E p \in Requests \ {r, q} : now'[p] # None /\ now'[p] >= ExpiryOf(r)'
      BY <1>1, <3>1, <3>3
    <3> QED
      BY <3>1, <3>2, <3>3 DEF SecondUseNeedsPurge
  <2>10. ReplaysAreReplays'
    BY <1>1, <1>9, <2>2 DEF IInv, ReplaysAreReplays
  <2> QED
    BY <1>5, <1>6, <2>5, <2>6, <2>7, <2>8, <2>9, <2>10 DEF IInv
<1> QED
  BY <1>8, <1>9 DEF Consume, Decide, IInv, TypeOK

\* Time changes no verdict.
LEMMA TickStep == IInv /\ Tick => IInv'
<1> SUFFICES ASSUME IInv, Tick PROVE IInv'
  OBVIOUS
<1>1. /\ UNCHANGED <<records, now, token, verdict, decided>>
      /\ clock' = clock + 1 /\ clock < MaxTime
  BY DEF Tick
<1>2. TypeOK' /\ RequestsInOrder'
  BY <1>1, MaxTimeIsNat DEF IInv, TypeOK, RequestsInOrder
<1>3. AcceptedInWindow' /\ AcceptedOnRecord' /\ RecordIsAccepted'
  BY <1>1 DEF IInv, AcceptedInWindow, AcceptedOnRecord, RecordIsAccepted
<1>4. AcceptedOncePerLifetime' /\ SecondUseNeedsPurge' /\ ReplaysAreReplays'
  BY <1>1 DEF IInv, AcceptedOncePerLifetime, SecondUseNeedsPurge, ReplaysAreReplays
<1> QED
  BY <1>2, <1>3, <1>4 DEF IInv

\* No step leaves the invariant.
LEMMA NextIInv == IInv /\ [Next]_vars => IInv'
<1> SUFFICES ASSUME IInv, [Next]_vars PROVE IInv'
  OBVIOUS
<1>1. CASE Tick
  BY <1>1, TickStep
<1>2. ASSUME NEW r \in Requests, Arrive(r) PROVE IInv'
  BY <1>2, ArriveStep
<1>3. ASSUME NEW r \in Requests, Refuse(r) PROVE IInv'
  BY <1>3, RefuseStep
<1>4. ASSUME NEW r \in Requests, Consume(r) PROVE IInv'
  BY <1>4, ConsumeStep
<1>5. CASE UNCHANGED vars
  BY <1>5 DEF vars, IInv, TypeOK, RequestsInOrder, AcceptedInWindow, AcceptedOnRecord,
              RecordIsAccepted, AcceptedOncePerLifetime, SecondUseNeedsPurge, ReplaysAreReplays
<1> QED
  BY <1>1, <1>2, <1>3, <1>4, <1>5 DEF Next

----------------------------------------------------------------------------
\* The invariant holds of every behaviour of the authentication.
THEOREM ReplayInvariant == Spec => []IInv
<1>1. Init => IInv
  BY InitIInv
<1>2. IInv /\ [Next]_vars => IInv'
  BY NextIInv
<1> QED
  BY <1>1, <1>2, PTL DEF Spec

\* A (sub, jti) authenticates a second request only after the first record's
\* expiry, for every skew, rounding and interleaving.
THEOREM OncePerLifetime == Spec => []AcceptedOncePerLifetime
<1>1. IInv => AcceptedOncePerLifetime
  BY DEF IInv
<1> QED
  BY <1>1, ReplayInvariant, PTL

\* What it takes to use one assertion twice: a third request on the other side
\* of its window.
THEOREM SecondUse == Spec => []SecondUseNeedsPurge
<1>1. IInv => SecondUseNeedsPurge
  BY DEF IInv
<1> QED
  BY <1>1, ReplayInvariant, PTL

\* A request refused as a replay was one.
THEOREM NoFalseReplays == Spec => []ReplaysAreReplays
<1>1. IInv => ReplaysAreReplays
  BY DEF IInv
<1> QED
  BY <1>1, ReplayInvariant, PTL

\* Every variable keeps its type.
THEOREM ReplayTypeCorrect == Spec => []TypeOK
<1>1. IInv => TypeOK
  BY DEF IInv
<1> QED
  BY <1>1, ReplayInvariant, PTL

----------------------------------------------------------------------------
(***************************************************************************)
(* ClientAssertions.                                                       *)
(***************************************************************************)

\* None is no verdict and no outcome.
LEMMA NoneIsNoVerdict == None # TRUE /\ None # FALSE
BY NoneIsNoPart, Zenon

\* Nor is it one of the outcomes.
LEMMA NoneIsNoOutcome ==
    None # "failed" /\ None # "refused" /\ None # "replayed" /\ None # "accepted"
BY NoneIsNoPart, SMT

USE DEF Assertions!partyVars, Assertions!requestVars, Assertions!serviceVars, Assertions!ghostVars

\* The agent signs for a purpose, with the key and the Service it has inspected.
LEMMA AssertionSign ==
    ASSUME NEW r \in Assertions!Purposes, Assertions!IInv, Assertions!Sign(r)
    PROVE  Assertions!IInv'
<1> DEFINE t == [aud |-> inspected.did, request |-> r, iat |-> agent.drift,
                 exp |-> agent.drift + agent.lifetime, key |-> key]
<1>1. /\ Assertions!TypeOK /\ Assertions!InOrder /\ Assertions!SignedAsMade
      /\ Assertions!AsInspected /\ Assertions!JudgedByThePlatform
  BY DEF Assertions!IInv
<1>2. /\ assertion = None /\ assertion' = t /\ dormant' = FALSE
      /\ IF agent.hosted THEN active ELSE key.algorithm \in Assertions!Compatible
      /\ Assertions!ValidClaims(t)
      /\ UNCHANGED <<age, service, agent, key, active, inspected, events, asked, vouched,
                     outcome, consumed, requests, verdicts, lost, restarted>>
  BY DEF Assertions!Sign
<1>3. asked = None /\ vouched = None /\ outcome = None /\ consumed = None
  BY <1>1, <1>2 DEF Assertions!InOrder
<1>14. verdicts = Assertions!NoVerdicts /\ DOMAIN verdicts = {}
  BY <1>1, <1>2 DEF Assertions!JudgedByThePlatform, Assertions!NoVerdicts
<1>4. /\ t.iat = agent.drift /\ t.exp = agent.drift + agent.lifetime
      /\ t.aud = inspected.did /\ t.key = key /\ t.request = r
  OBVIOUS
<1>5. t \in [aud : Assertions!Dids, request : Assertions!Purposes, iat : Int, exp : Int,
             key : Assertions!KeysOf(agent)]
  BY <1>1, AgentsHaveType DEF Assertions!TypeOK, Assertions!Dids
<1> HIDE DEF t
<1>6. Assertions!TypeOK'
  <2>1. (Assertions!KeysOf(agent) = Assertions!KeysOf(agent))'
    OBVIOUS
  <2> QED
   BY <1>1, <1>2, <1>5 DEF Assertions!TypeOK, Assertions!KeysOf, Assertions!Dids
<1>7. Assertions!InOrder'
  BY <1>1, <1>2, <1>3, NoneIsNoOutcome DEF Assertions!InOrder
<1>8. Assertions!SignedAsMade'
  <2>1. key.algorithm \in Algorithms
    BY <1>1, <1>2, PlatformsAreCompatible DEF Assertions!TypeOK, Assertions!KeysOf, Assertions!Compatible
  <2>2. active \/ ~agent.hosted
    BY <1>2
  <2> QED
    BY <1>1, <1>2, <1>4, <2>1, <2>2 DEF Assertions!SignedAsMade, Assertions!ValidClaims
<1>9. Assertions!AsInspected'
  BY <1>1, <1>2, <1>3 DEF Assertions!AsInspected
<1>10. Assertions!VouchedFor'
  BY <1>2, <1>3, NoneIsNoVerdict DEF Assertions!VouchedFor
<1>11. Assertions!JudgedByThePlatform'
  BY <1>2, <1>3, <1>14, NoneIsNoVerdict DEF Assertions!JudgedByThePlatform
<1>12. Assertions!UsedOrUnderWay'
  BY <1>2, <1>14 DEF Assertions!UsedOrUnderWay
<1>13. (Assertions!AcceptedAsMade /\ Assertions!RefusalsExplained /\ Assertions!InactiveWasVerified)'
  BY <1>2, <1>3, NoneIsNoOutcome
  DEF Assertions!AcceptedAsMade, Assertions!RefusalsExplained, Assertions!InactiveWasVerified
<1> QED
  BY <1>6, <1>7, <1>8, <1>9, <1>10, <1>11, <1>12, <1>13 DEF Assertions!IInv

\* The assertion is presented for a purpose, its own or another.
LEMMA AssertionAsk ==
    ASSUME NEW r \in Assertions!Purposes, Assertions!IInv, Assertions!Ask(r)
    PROVE  Assertions!IInv'
<1> DEFINE p == [request |-> r, service |-> service, at |-> age, since |-> ~active]
<1>1. /\ Assertions!TypeOK /\ Assertions!InOrder /\ Assertions!SignedAsMade
      /\ Assertions!AsInspected /\ Assertions!JudgedByThePlatform /\ Assertions!UsedOrUnderWay
  BY DEF Assertions!IInv
<1>2. /\ assertion # None /\ asked = None /\ asked' = p /\ requests' = requests + 1
      /\ UNCHANGED <<age, service, agent, key, active, inspected, events, assertion, vouched,
                     outcome, consumed, verdicts, lost, dormant, restarted>>
  BY DEF Assertions!Ask
<1>3. vouched = None /\ outcome = None
  BY <1>1, <1>2 DEF Assertions!InOrder
<1>4. /\ p.request = r /\ p.service = service /\ p.at = age
      /\ p.since => ~active
      /\ p \in Assertions!Presentations /\ p # None
  <2>1. (~active) \in BOOLEAN /\ service \in Services /\ age \in Nat
    BY <1>1 DEF Assertions!TypeOK
  <2>2. p \in Assertions!Presentations
    BY <2>1 DEF Assertions!Presentations
  <2>3. p.request = r /\ p.service = service /\ p.at = age /\ p.since = ~active
    BY Zenon
  <2> QED
    BY <2>2, <2>3, NoneIsNoPart
<1> HIDE DEF p
<1>5. Assertions!TypeOK'
  BY <1>1, <1>2, <1>4 DEF Assertions!TypeOK, Assertions!KeysOf, Assertions!Dids
<1>6. Assertions!InOrder'
  BY <1>1, <1>2, <1>3, <1>4, NoneIsNoOutcome DEF Assertions!InOrder, Assertions!TypeOK
<1>7. Assertions!SignedAsMade'
  BY <1>1, <1>2 DEF Assertions!SignedAsMade, Assertions!ValidClaims
<1>8. Assertions!AsInspected'
  BY <1>1, <1>2, <1>4 DEF Assertions!AsInspected
<1>9. Assertions!VouchedFor'
  BY <1>2, <1>3, NoneIsNoVerdict DEF Assertions!VouchedFor
<1>10. Assertions!JudgedByThePlatform'
  <2>1. requests \in Nat /\ requests' > 0 /\ (requests > 0 => requests' > 1)
    BY <1>1, <1>2 DEF Assertions!TypeOK
  <2>2. vouched' # TRUE
    BY <1>2, <1>3, NoneIsNoVerdict
  <2>3. verdicts # Assertions!NoVerdicts => requests > 0
    BY <1>1 DEF Assertions!JudgedByThePlatform
  <2>4. (verdicts # Assertions!NoVerdicts)' => verdicts # Assertions!NoVerdicts
    BY <1>2 DEF Assertions!NoVerdicts
  <2> QED
    BY <1>1, <1>2, <2>1, <2>2, <2>3, <2>4 DEF Assertions!JudgedByThePlatform
<1>11. Assertions!UsedOrUnderWay'
  BY <1>1, <1>2, <1>3, <1>4, NoneIsNoVerdict DEF Assertions!UsedOrUnderWay, Assertions!Arrival
<1>12. (Assertions!AcceptedAsMade /\ Assertions!RefusalsExplained /\ Assertions!InactiveWasVerified)'
  BY <1>2, <1>3, NoneIsNoOutcome
  DEF Assertions!AcceptedAsMade, Assertions!RefusalsExplained, Assertions!InactiveWasVerified
<1> QED
  BY <1>5, <1>6, <1>7, <1>8, <1>9, <1>10, <1>11, <1>12 DEF Assertions!IInv

\* What no verdict touches.
LEMMA AssertionVouch ==
    ASSUME Assertions!IInv, asked # None, vouched = None, outcome = None,
           NEW v \in BOOLEAN, vouched' = v, outcome' \in {None, "failed"},
           outcome' = "failed" => v = FALSE,
           UNCHANGED <<age, service, agent, key, active, inspected, events, assertion, asked,
                       consumed, requests, dormant, restarted>>
    PROVE  /\ Assertions!InOrder' /\ Assertions!SignedAsMade' /\ Assertions!AsInspected'
           /\ Assertions!AcceptedAsMade' /\ Assertions!RefusalsExplained'
           /\ Assertions!InactiveWasVerified'
           /\ lost' \in BOOLEAN /\ verdicts' \in [DOMAIN verdicts' -> BOOLEAN] => Assertions!TypeOK'
<1>1. /\ Assertions!TypeOK /\ Assertions!InOrder /\ Assertions!SignedAsMade
      /\ Assertions!AsInspected
  BY DEF Assertions!IInv
<1>2. v # None /\ outcome' # "accepted" /\ outcome' # "refused"
  BY NoneIsNoVerdict, NoneIsNoOutcome
<1>3. Assertions!InOrder'
  BY <1>1, <1>2 DEF Assertions!InOrder
<1>4. Assertions!SignedAsMade'
  BY <1>1 DEF Assertions!SignedAsMade, Assertions!ValidClaims
<1>5. Assertions!AsInspected'
  BY <1>1 DEF Assertions!AsInspected
<1>6. (Assertions!AcceptedAsMade /\ Assertions!RefusalsExplained /\ Assertions!InactiveWasVerified)'
  BY <1>2
  DEF Assertions!AcceptedAsMade, Assertions!RefusalsExplained, Assertions!InactiveWasVerified
<1>7. ASSUME lost' \in BOOLEAN, verdicts' \in [DOMAIN verdicts' -> BOOLEAN]
      PROVE  Assertions!TypeOK'
  BY <1>1, <1>7 DEF Assertions!TypeOK, Assertions!KeysOf, Assertions!Dids
<1> QED
  BY <1>3, <1>4, <1>5, <1>6, <1>7

\* Nor does one of a verifier other than the Platform touch what the Platform has said.
LEMMA AssertionVouchElsewhere ==
    ASSUME Assertions!IInv, asked # None, vouched = None, outcome = None,
           NEW v \in BOOLEAN, vouched' = v, v => asked.service.verifier # "hosted",
           UNCHANGED <<age, service, agent, key, active, inspected, events, assertion, asked,
                       consumed, requests, verdicts, lost, dormant, restarted>>
    PROVE  Assertions!JudgedByThePlatform' /\ Assertions!UsedOrUnderWay'
<1>1. Assertions!JudgedByThePlatform /\ Assertions!UsedOrUnderWay
  BY DEF Assertions!IInv
<1>2. v # None /\ vouched # TRUE
  BY NoneIsNoVerdict
<1>3. Assertions!JudgedByThePlatform'
  <2>1. (verdicts # Assertions!NoVerdicts)' => verdicts # Assertions!NoVerdicts
    BY DEF Assertions!NoVerdicts
  <2> QED
    BY <1>1, <1>2, <2>1 DEF Assertions!JudgedByThePlatform
<1>4. Assertions!UsedOrUnderWay'
  BY <1>1, <1>2 DEF Assertions!UsedOrUnderWay, Assertions!Arrival
<1> QED
  BY <1>3, <1>4

\* The instants, keys and parties are what the constants say of them.
LEMMA AssertionTyped ==
    ASSUME Assertions!TypeOK
    PROVE  /\ age \in Nat /\ agent \in Agents /\ agent.drift \in Int /\ agent.lifetime \in Int
           /\ inspected.skew \in Nat /\ Tolerance \in Nat
           /\ key.version \in Nat /\ key.algorithm \in agent.algorithms
           /\ asked # None =>
                /\ asked.service \in Services /\ asked.service.skew \in Nat /\ asked.at \in Nat
                /\ asked.request \in Assertions!Purposes /\ asked.since \in BOOLEAN
           /\ assertion # None =>
                /\ assertion.iat \in Int /\ assertion.exp \in Int
                /\ assertion.request \in Assertions!Purposes
                /\ assertion.key.version \in Nat
BY ServicesHaveType, ToleranceIsNat, AgentsHaveType
DEF Assertions!TypeOK, Assertions!Presentations, Assertions!KeysOf

\* An error of the resolver or of the Platform lets nothing pass.
LEMMA AssertionCannotVerify ==
    ASSUME Assertions!IInv, Assertions!CannotVerify
    PROVE  Assertions!IInv'
<1>1. /\ asked # None /\ vouched = None /\ outcome = None /\ vouched' = FALSE /\ outcome' = "failed"
      /\ UNCHANGED <<age, service, agent, key, active, inspected, events, assertion, asked,
                     consumed, requests, verdicts, lost, dormant, restarted>>
  BY DEF Assertions!CannotVerify, Assertions!Verifying
<1>2. lost' \in BOOLEAN /\ verdicts' \in [DOMAIN verdicts' -> BOOLEAN]
  BY <1>1 DEF Assertions!IInv, Assertions!TypeOK
<1>3. Assertions!VouchedFor'
  BY <1>1 DEF Assertions!VouchedFor
<1> QED
  BY <1>1, <1>2, <1>3, AssertionVouch, AssertionVouchElsewhere DEF Assertions!IInv

\* A Service that resolves did:web checks the signature with the published key.
LEMMA AssertionResolveKey ==
    ASSUME Assertions!IInv, Assertions!ResolveKey
    PROVE  Assertions!IInv'
<1> DEFINE v == active /\ Assertions!Verifies(assertion, key, Algorithms, asked.service.did,
                                              asked.request, asked.at)
<1>1. /\ asked # None /\ vouched = None /\ outcome = None /\ vouched' = v /\ v \in BOOLEAN
      /\ asked.service.verifier = "did:web"
      /\ UNCHANGED <<age, service, agent, key, active, inspected, events, assertion, asked,
                     outcome, consumed, requests, verdicts, lost, dormant, restarted>>
  BY Zenon DEF Assertions!ResolveKey, Assertions!Verifying, Assertions!Vouch, Assertions!IInv,
               Assertions!TypeOK
<1>2. lost' \in BOOLEAN /\ verdicts' \in [DOMAIN verdicts' -> BOOLEAN]
  BY <1>1 DEF Assertions!IInv, Assertions!TypeOK
<1>3. Assertions!TypeOK /\ Assertions!InOrder /\ Assertions!SignedAsMade
  BY DEF Assertions!IInv
<1>4. v => Assertions!InsideWindow(assertion, asked.at, Tolerance)
  BY DEF Assertions!Verifies, Assertions!Expected
<1>5. ASSUME ~v, asked.request = assertion.request
      PROVE  Assertions!Explained
  <2>1. assertion # None /\ Assertions!ValidClaims(assertion)
    BY <1>1, <1>3 DEF Assertions!InOrder, Assertions!SignedAsMade
  <2>2. CASE ~active
    BY <1>3, <2>1, <2>2 DEF Assertions!SignedAsMade, Assertions!Explained
  <2>3. CASE assertion.key # key
    BY <2>3 DEF Assertions!Explained
  <2>4. CASE assertion.key = key /\ ~Assertions!Expected(assertion, asked.service.did,
                                                         asked.request, asked.at)
    <3>1. assertion.aud = inspected.did
      BY <1>3, <2>1 DEF Assertions!SignedAsMade
    <3>2. CASE assertion.aud # asked.service.did
      BY <3>1, <3>2 DEF Assertions!Explained
    <3>3. CASE ~Assertions!InsideWindow(assertion, asked.at, Tolerance)
      BY <1>1, <1>3, <2>1, <3>3, AssertionTyped
      DEF Assertions!InsideWindow, Assertions!SignedAsMade, Assertions!Explained,
          Assertions!Slack, Assertions!Smaller
    <3> QED
      BY <1>5, <2>4, <3>2, <3>3 DEF Assertions!Expected
  <2> QED
    BY <1>3, <1>5, <2>1, <2>2, <2>3, <2>4 DEF Assertions!Verifies, Assertions!SignedAsMade
<1> HIDE DEF v
<1>6. Assertions!VouchedFor'
  <2>1. Assertions!Explained <=> Assertions!Explained'
    BY <1>1 DEF Assertions!Explained, Assertions!Slack, Assertions!Smaller
  <2>2. vouched' = TRUE <=> v
    BY <1>1
  <2>3. vouched' = FALSE <=> ~v
    BY <1>1
  <2>4. (vouched' = TRUE) => Assertions!InsideWindow(assertion, asked.at, Tolerance)'
    BY <1>1, <1>4, <2>2 DEF Assertions!InsideWindow
  <2>5. (vouched' = FALSE) /\ (asked.request = assertion.request)' => Assertions!Explained'
    BY <1>1, <1>5, <2>1, <2>3
  <2> QED
    BY <2>4, <2>5 DEF Assertions!VouchedFor
<1>7. Assertions!JudgedByThePlatform' /\ Assertions!UsedOrUnderWay'
  BY <1>1, AssertionVouchElsewhere
<1> QED
  BY <1>1, <1>2, <1>6, <1>7, AssertionVouch, NoneIsNoOutcome DEF Assertions!IInv

\* The Platform's own Service checks the signature with the registered key.
LEMMA AssertionCheckSignature ==
    ASSUME Assertions!IInv, Assertions!CheckSignature
    PROVE  Assertions!IInv'
<1> DEFINE v == key = assertion.key
<1>1. /\ asked # None /\ vouched = None /\ outcome = None /\ vouched' = v /\ v \in BOOLEAN
      /\ asked.service.verifier = "own"
      /\ UNCHANGED <<age, service, agent, key, active, inspected, events, assertion, asked,
                     outcome, consumed, requests, verdicts, lost, dormant, restarted>>
  BY DEF Assertions!CheckSignature, Assertions!Verifying, Assertions!Vouch
<1>2. lost' \in BOOLEAN /\ verdicts' \in [DOMAIN verdicts' -> BOOLEAN]
  BY <1>1 DEF Assertions!IInv, Assertions!TypeOK
<1>3. Assertions!VouchedFor'
  BY <1>1 DEF Assertions!VouchedFor, Assertions!Explained
<1> HIDE DEF v
<1>4. Assertions!JudgedByThePlatform' /\ Assertions!UsedOrUnderWay'
  BY <1>1, AssertionVouchElsewhere
<1> QED
  BY <1>1, <1>2, <1>3, <1>4, AssertionVouch, NoneIsNoOutcome DEF Assertions!IInv

\* A Service with a hosted verifier refuses an identity of another Platform.
LEMMA AssertionNotOfThePlatform ==
    ASSUME Assertions!IInv, Assertions!NotOfThePlatform
    PROVE  Assertions!IInv'
<1>1. /\ asked # None /\ vouched = None /\ outcome = None /\ vouched' = FALSE
      /\ ~Assertions!Recognized /\ asked.service.verifier = "hosted"
      /\ UNCHANGED <<age, service, agent, key, active, inspected, events, assertion, asked,
                     outcome, consumed, requests, verdicts, lost, dormant, restarted>>
  BY DEF Assertions!NotOfThePlatform, Assertions!Verifying, Assertions!Vouch
<1>2. lost' \in BOOLEAN /\ verdicts' \in [DOMAIN verdicts' -> BOOLEAN]
  BY <1>1 DEF Assertions!IInv, Assertions!TypeOK
<1>3. Assertions!VouchedFor'
  <2>1. Assertions!SignedAsMade /\ assertion # None
    BY <1>1 DEF Assertions!IInv, Assertions!InOrder
  <2>2. ~agent.hosted \/ Assertions!Explained
    BY <1>1, <2>1 DEF Assertions!SignedAsMade, Assertions!Recognized, Assertions!Explained
  <2> QED
    BY <1>1, <2>2
    DEF Assertions!VouchedFor, Assertions!Explained, Assertions!Slack, Assertions!Smaller
<1> QED
  BY <1>1, <1>2, <1>3, AssertionVouch, AssertionVouchElsewhere DEF Assertions!IInv

\* The Platform's verdict, whether it is given now or was before, and whether or not the
\* answer arrives.
LEMMA AssertionAskPlatform ==
    ASSUME Assertions!IInv, Assertions!AskPlatform
    PROVE  Assertions!IInv'
<1> DEFINE q == [request |-> asked.request, did |-> asked.service.did]
           o == [request |-> assertion.request, did |-> assertion.aud]
<1>1. /\ asked # None /\ vouched = None /\ outcome = None /\ vouched' \in BOOLEAN
      /\ asked.service.verifier = "hosted"
      /\ Assertions!Recognized
      /\ verdicts' = IF q \in DOMAIN verdicts THEN verdicts
                     ELSE [p \in DOMAIN verdicts \cup {q} |->
                             IF p = q THEN Assertions!PlatformAgrees ELSE verdicts[p]]
      /\ \/ vouched' = verdicts'[q] /\ outcome' = None /\ lost' = lost
         \/ vouched' = FALSE /\ outcome' = "failed" /\ lost' = TRUE
      /\ UNCHANGED <<age, service, agent, key, active, inspected, events, assertion, asked,
                     consumed, requests, dormant, restarted>>
  <2>1. verdicts'[q] \in BOOLEAN
    <3>1. Assertions!PlatformAgrees \in BOOLEAN
      BY DEF Assertions!PlatformAgrees
    <3>2. CASE q \in DOMAIN verdicts
      BY <3>2 DEF Assertions!AskPlatform, Assertions!IInv, Assertions!TypeOK
    <3>3. CASE q \notin DOMAIN verdicts
      BY <3>1, <3>3 DEF Assertions!AskPlatform
    <3> QED
      BY <3>2, <3>3
  <2> QED
    BY <2>1 DEF Assertions!AskPlatform, Assertions!Verifying, Assertions!Vouch
<1>2. /\ Assertions!TypeOK /\ Assertions!InOrder /\ Assertions!SignedAsMade
      /\ Assertions!JudgedByThePlatform /\ Assertions!UsedOrUnderWay
  BY DEF Assertions!IInv
<1>3. assertion # None /\ Assertions!ValidClaims(assertion) /\ (asked.since => ~active)
  BY <1>1, <1>2 DEF Assertions!InOrder, Assertions!SignedAsMade
<1>4. /\ q \in DOMAIN verdicts' /\ verdicts' # Assertions!NoVerdicts
      /\ DOMAIN verdicts' = DOMAIN verdicts \cup {q}
  BY <1>1 DEF Assertions!NoVerdicts
<1>5. \A p \in DOMAIN verdicts : verdicts'[p] = verdicts[p]
  BY <1>1
<1>6. q \notin DOMAIN verdicts => verdicts'[q] = Assertions!PlatformAgrees
  BY <1>1
<1>7. verdicts' \in [DOMAIN verdicts' -> BOOLEAN] /\ lost' \in BOOLEAN
  <2>1. Assertions!PlatformAgrees \in BOOLEAN
    BY DEF Assertions!PlatformAgrees
  <2>2. CASE q \in DOMAIN verdicts
    BY <1>1, <1>2, <2>2 DEF Assertions!TypeOK
  <2>3. CASE q \notin DOMAIN verdicts
    BY <1>1, <1>2, <2>1, <2>3 DEF Assertions!TypeOK
  <2> QED
    BY <2>2, <2>3
<1>8. q.request = asked.request /\ q.did = asked.service.did
      /\ o.request = assertion.request /\ o.did = assertion.aud
      /\ assertion.aud = asked.service.did
  BY <1>1 DEF Assertions!Recognized
<1>9. asked.request = assertion.request <=> q = o
  BY <1>8
<1> HIDE DEF q, o
\* a verdict against the request that the assertion was made for
<1>10. ASSUME NEW p \in DOMAIN verdicts', ~verdicts'[p], p.request = assertion.request
       PROVE  dormant \/ assertion.key # key \/ age >= agent.lifetime + Tolerance
  <2>1. CASE p \in DOMAIN verdicts
    BY <1>2, <1>5, <1>10, <2>1 DEF Assertions!JudgedByThePlatform
  <2>2. CASE p \notin DOMAIN verdicts
    <3>1. p = q /\ ~Assertions!PlatformAgrees /\ asked.request = assertion.request
      BY <1>4, <1>6, <1>8, <1>10, <2>2
    <3>2. CASE ~active
      BY <1>2, <1>3, <3>2 DEF Assertions!SignedAsMade
    <3>3. CASE assertion.key = key /\ ~Assertions!InsideWindow(assertion, age + agent.drift, Tolerance)
      BY <1>2, <1>3, <3>3, AssertionTyped DEF Assertions!InsideWindow, Assertions!SignedAsMade
    <3> QED
      BY <1>1, <1>2, <1>3, <1>8, <3>1, <3>2, <3>3, AssertionTyped
      DEF Assertions!PlatformAgrees, Assertions!Verifies, Assertions!Expected
  <2> QED
    BY <2>1, <2>2
<1>11. Assertions!TypeOK' /\ Assertions!InOrder' /\ Assertions!SignedAsMade' /\ Assertions!AsInspected'
       /\ Assertions!AcceptedAsMade' /\ Assertions!RefusalsExplained' /\ Assertions!InactiveWasVerified'
  BY <1>1, <1>7, AssertionVouch, NoneIsNoOutcome
<1>12. Assertions!VouchedFor'
  <2>1. CASE outcome' = "failed"
    BY <1>1, <2>1, NoneIsNoOutcome DEF Assertions!VouchedFor
  <2>2. CASE vouched' = verdicts'[q]
    BY <1>1, <1>4, <1>8, <1>10, <2>2 DEF Assertions!VouchedFor, Assertions!Explained
  <2> QED
    BY <1>1, <2>1, <2>2
<1>13. Assertions!JudgedByThePlatform'
  <2>1. requests > 0 /\ (verdicts # Assertions!NoVerdicts => requests > 1)
    BY <1>1, <1>2 DEF Assertions!InOrder, Assertions!JudgedByThePlatform
  <2>2. ASSUME vouched' = TRUE PROVE verdicts'[q] /\ (asked.since => requests > 1)
    <3>1. verdicts'[q]
      BY <1>1, <2>2
    <3>2. CASE q \in DOMAIN verdicts
      BY <2>1, <3>1, <3>2 DEF Assertions!NoVerdicts
    <3>3. CASE q \notin DOMAIN verdicts
      BY <1>3, <1>6, <3>1, <3>3 DEF Assertions!PlatformAgrees
    <3> QED
      BY <3>1, <3>2, <3>3
  <2>3. vouched' # None
    BY <1>1, NoneIsNoVerdict
  <2> QED
    BY <1>1, <1>3, <1>4, <1>10, <2>1, <2>2, <2>3 DEF Assertions!JudgedByThePlatform, q
<1>14. Assertions!UsedOrUnderWay'
  <2>1. SUFFICES ASSUME o \in DOMAIN verdicts', verdicts'[o]
                 PROVE  \/ lost' \/ agent.drift > inspected.skew \/ restarted
                        \/ consumed = assertion.exp + inspected.skew
                        \/ asked.at >= assertion.exp + inspected.skew
                        \/ /\ vouched' = TRUE /\ outcome' = None
                           /\ asked.request = assertion.request /\ ~asked.since
    BY <1>1 DEF Assertions!UsedOrUnderWay, Assertions!Arrival, o
  <2>2. CASE o \in DOMAIN verdicts
    <3>1. vouched # TRUE
      BY <1>1, NoneIsNoVerdict
    <3> QED
      BY <1>1, <1>2, <1>3, <1>5, <2>1, <2>2, <3>1 DEF Assertions!UsedOrUnderWay, Assertions!Arrival, o
  <2>3. CASE o \notin DOMAIN verdicts
    <3>1. o = q /\ Assertions!PlatformAgrees
      BY <1>4, <1>6, <2>1, <2>3
    <3> QED
      BY <1>1, <1>3, <1>9, <2>1, <3>1 DEF Assertions!PlatformAgrees
  <2> QED
    BY <2>2, <2>3
<1> QED
  BY <1>11, <1>12, <1>13, <1>14 DEF Assertions!IInv

\* The checks on the claims, and the replay record.
LEMMA AssertionDecide ==
    ASSUME Assertions!IInv, Assertions!Decide
    PROVE  Assertions!IInv'
<1>1. /\ vouched # None /\ outcome = None
      /\ outcome' = CASE ~Assertions!Acceptable -> "refused"
                      [] Assertions!Acceptable /\ ~Assertions!Unconsumed -> "replayed"
                      [] OTHER -> "accepted"
      /\ consumed' = IF outcome' = "accepted" THEN assertion.exp + asked.service.skew ELSE consumed
      /\ UNCHANGED <<age, service, agent, key, active, inspected, events, assertion, asked,
                     vouched, requests, verdicts, lost, dormant, restarted>>
  BY DEF Assertions!Decide
<1>2. /\ Assertions!TypeOK /\ Assertions!InOrder /\ Assertions!SignedAsMade
      /\ Assertions!AsInspected /\ Assertions!VouchedFor
      /\ Assertions!JudgedByThePlatform /\ Assertions!UsedOrUnderWay
  BY DEF Assertions!IInv
<1>3. asked # None /\ assertion # None /\ vouched \in BOOLEAN
  BY <1>1, <1>2 DEF Assertions!InOrder, Assertions!TypeOK
<1>4. /\ outcome' \in {"refused", "replayed", "accepted"}
      /\ outcome' = "refused" => ~Assertions!Acceptable
      /\ outcome' = "replayed" => Assertions!Acceptable /\ ~Assertions!Unconsumed
      /\ outcome' = "accepted" => Assertions!Acceptable /\ Assertions!Unconsumed
  BY <1>1
<1>5. /\ assertion.exp \in Int /\ assertion.iat \in Int /\ asked.at \in Nat
      /\ asked.service.skew \in Nat /\ inspected.skew \in Nat
      /\ agent.drift \in Int /\ agent.lifetime \in Int /\ age \in Nat /\ Tolerance \in Nat
  BY <1>2, <1>3, AssertionTyped
<1>6. Assertions!TypeOK'
  BY <1>1, <1>2, <1>4, <1>5 DEF Assertions!TypeOK, Assertions!KeysOf, Assertions!Dids
<1>7. Assertions!InOrder'
  <2>1. outcome' = "accepted" => vouched
    BY <1>4 DEF Assertions!Acceptable
  <2> QED
    BY <1>1, <1>2, <1>3, <2>1 DEF Assertions!InOrder
<1>8. Assertions!SignedAsMade'
  BY <1>1, <1>2 DEF Assertions!SignedAsMade, Assertions!ValidClaims
<1>9. Assertions!AsInspected'
  BY <1>1, <1>2, <1>3 DEF Assertions!AsInspected
<1>10. Assertions!Explained' <=> Assertions!Explained
  BY <1>1 DEF Assertions!Explained, Assertions!Slack, Assertions!Smaller
<1>11. Assertions!VouchedFor'
  BY <1>1, <1>2, <1>10, NoneIsNoOutcome DEF Assertions!VouchedFor, Assertions!InsideWindow
<1>12. Assertions!JudgedByThePlatform'
  BY <1>1, <1>2 DEF Assertions!JudgedByThePlatform, Assertions!NoVerdicts
\* what Acceptable says of the window
<1>13. /\ assertion.iat = agent.drift /\ assertion.exp = agent.drift + agent.lifetime
       /\ assertion.aud = inspected.did /\ Assertions!ValidClaims(assertion)
  BY <1>2, <1>3 DEF Assertions!SignedAsMade
<1>14. Assertions!UsedOrUnderWay'
  <2>1. SUFFICES ASSUME [request |-> assertion.request, did |-> assertion.aud] \in DOMAIN verdicts,
                        verdicts[[request |-> assertion.request, did |-> assertion.aud]],
                        ~lost, ~restarted, ~(agent.drift > inspected.skew),
                        asked.at < assertion.exp + inspected.skew
                 PROVE  consumed' = assertion.exp + inspected.skew
    BY <1>1, <1>3, <1>5 DEF Assertions!UsedOrUnderWay, Assertions!Arrival
  <2>2. asked.service = inspected /\ (consumed # None => consumed = assertion.exp + inspected.skew)
    BY <1>2, <1>3, <2>1 DEF Assertions!AsInspected
  <2>3. \/ consumed = assertion.exp + inspected.skew
        \/ vouched = TRUE /\ asked.request = assertion.request
    BY <1>2, <1>3, <1>5, <2>1 DEF Assertions!UsedOrUnderWay, Assertions!Arrival
  <2>4. CASE outcome' = "accepted"
    BY <1>1, <2>2, <2>4
  <2>5. CASE outcome' = "replayed"
    <3>1. consumed' = consumed /\ consumed # None
      BY <1>1, <1>4, <2>5 DEF Assertions!Unconsumed
    <3> QED
      BY <2>2, <3>1
  <2>6. CASE outcome' = "refused" /\ vouched = TRUE /\ asked.request = assertion.request
    <3>1. Assertions!InsideWindow(assertion, asked.at, asked.service.skew)
      BY <1>5, <1>13, <2>1, <2>2 DEF Assertions!InsideWindow
    <3>2. Assertions!Acceptable
      BY <1>13, <2>2, <2>6, <3>1 DEF Assertions!Acceptable
    <3> QED
      BY <1>4, <2>6, <3>2
  <2>7. CASE outcome' = "refused" /\ consumed = assertion.exp + inspected.skew
    BY <1>1, <2>7
  <2> QED
    BY <1>4, <2>3, <2>4, <2>5, <2>6, <2>7
<1>15. Assertions!AcceptedAsMade'
  <2>1. SUFFICES ASSUME outcome' = "accepted"
                 PROVE  /\ assertion.request = asked.request
                        /\ assertion.aud = asked.service.did
                        /\ asked.at < agent.lifetime + agent.drift + Assertions!Slack
                        /\ agent.drift <= asked.at + Assertions!Slack
    BY <1>1 DEF Assertions!AcceptedAsMade, Assertions!Slack, Assertions!Smaller
  <2>2. /\ vouched /\ assertion.aud = asked.service.did /\ assertion.request = asked.request
        /\ Assertions!InsideWindow(assertion, asked.at, asked.service.skew)
    BY <1>4, <2>1 DEF Assertions!Acceptable
  <2>3. asked.service.verifier = "did:web" => Assertions!InsideWindow(assertion, asked.at, Tolerance)
    <3>1. vouched = TRUE
      BY <1>3, <2>2
    <3> QED
      BY <1>2, <3>1 DEF Assertions!VouchedFor
  <2> QED
    BY <1>5, <1>13, <2>2, <2>3 DEF Assertions!InsideWindow, Assertions!Slack, Assertions!Smaller
<1>16. Assertions!RefusalsExplained'
  <2>1. SUFFICES ASSUME outcome' = "refused", asked.request = assertion.request
                 PROVE  Assertions!Explained \/ (asked.service.verifier = "hosted" /\ ~agent.hosted)
    BY <1>1, <1>10 DEF Assertions!RefusalsExplained
  <2>2. CASE vouched = FALSE
    BY <1>1, <1>2, <2>1, <2>2, NoneIsNoOutcome DEF Assertions!VouchedFor
  <2>3. CASE assertion.aud # asked.service.did
    BY <1>13, <2>3 DEF Assertions!Explained
  <2>4. CASE ~Assertions!InsideWindow(assertion, asked.at, asked.service.skew)
    BY <1>5, <1>13, <2>4
    DEF Assertions!InsideWindow, Assertions!Explained, Assertions!Slack, Assertions!Smaller
  <2>5. vouched = FALSE \/ vouched
    BY <1>3
  <2> QED
    BY <1>4, <1>13, <2>1, <2>2, <2>3, <2>4, <2>5 DEF Assertions!Acceptable
<1>17. Assertions!InactiveWasVerified'
  <2>1. SUFFICES ASSUME outcome' = "accepted", asked.service.verifier = "hosted", asked.since,
                        ~lost, ~restarted
                 PROVE  requests > 1 /\ agent.drift > asked.service.skew
    <3>1. outcome' = "accepted" /\ asked.service.verifier = "hosted" /\ asked.since => requests > 1
      <4>1. outcome' = "accepted" => vouched = TRUE
        BY <1>3, <1>4 DEF Assertions!Acceptable
      <4> QED
        BY <1>2, <4>1 DEF Assertions!JudgedByThePlatform
    <3> QED
      BY <1>1, <3>1 DEF Assertions!InactiveWasVerified
  <2>2. /\ vouched = TRUE /\ assertion.aud = asked.service.did
        /\ assertion.request = asked.request /\ Assertions!Unconsumed
        /\ Assertions!InsideWindow(assertion, asked.at, asked.service.skew)
    BY <1>3, <1>4, <2>1 DEF Assertions!Acceptable
  <2>3. requests > 1
    BY <1>2, <2>1, <2>2 DEF Assertions!JudgedByThePlatform
  <2>4. asked.service = inspected
    BY <1>2, <1>3, <2>1 DEF Assertions!AsInspected
  <2>5. \/ agent.drift > inspected.skew
        \/ consumed = assertion.exp + inspected.skew
        \/ asked.at >= assertion.exp + inspected.skew
    <3>1. LET q == [request |-> assertion.request, did |-> assertion.aud] IN
          q \in DOMAIN verdicts /\ verdicts[q]
      BY <1>2, <2>1, <2>2 DEF Assertions!JudgedByThePlatform
    <3> QED
      BY <1>2, <1>3, <2>1, <3>1 DEF Assertions!UsedOrUnderWay, Assertions!Arrival
  <2>6. ~(asked.at >= assertion.exp + inspected.skew)
    BY <1>5, <2>2, <2>4 DEF Assertions!InsideWindow
  <2>7. consumed # assertion.exp + inspected.skew
    BY <1>5, <2>2, <2>6, NoneIsNothing DEF Assertions!Unconsumed
  <2> QED
    BY <2>3, <2>4, <2>5, <2>6, <2>7
<1> QED
  BY <1>6, <1>7, <1>8, <1>9, <1>11, <1>12, <1>14, <1>15, <1>16, <1>17 DEF Assertions!IInv

\* An outcome that is returned leaves nothing under way.
LEMMA AssertionReturn ==
    ASSUME Assertions!IInv, Assertions!Return
    PROVE  Assertions!IInv'
<1>1. /\ outcome # None /\ asked' = None /\ vouched' = None /\ outcome' = None
      /\ UNCHANGED <<age, service, agent, key, active, inspected, events, assertion,
                     consumed, requests, verdicts, lost, dormant, restarted>>
  BY DEF Assertions!Return
<1>2. /\ Assertions!TypeOK /\ Assertions!InOrder /\ Assertions!SignedAsMade
      /\ Assertions!AsInspected /\ Assertions!JudgedByThePlatform /\ Assertions!UsedOrUnderWay
  BY DEF Assertions!IInv
<1>3. Assertions!TypeOK'
  BY <1>1, <1>2 DEF Assertions!TypeOK, Assertions!KeysOf, Assertions!Dids
<1>4. Assertions!InOrder' /\ Assertions!AsInspected'
  BY <1>1, <1>2, NoneIsNoOutcome DEF Assertions!InOrder, Assertions!AsInspected
<1>5. Assertions!SignedAsMade'
  BY <1>1, <1>2 DEF Assertions!SignedAsMade, Assertions!ValidClaims
<1>6. Assertions!VouchedFor'
  BY <1>1, NoneIsNoVerdict DEF Assertions!VouchedFor
<1>7. Assertions!JudgedByThePlatform'
  BY <1>1, <1>2, NoneIsNoVerdict DEF Assertions!JudgedByThePlatform, Assertions!NoVerdicts
<1>8. Assertions!UsedOrUnderWay'
  <2>1. /\ asked # None /\ asked.at <= age /\ asked.at \in Nat /\ age \in Nat
        /\ inspected.skew \in Nat /\ (assertion # None => assertion.exp \in Int)
    BY <1>1, <1>2, AssertionTyped DEF Assertions!InOrder
  <2> QED
    BY <1>1, <1>2, <2>1 DEF Assertions!UsedOrUnderWay, Assertions!Arrival
<1>9. (Assertions!AcceptedAsMade /\ Assertions!RefusalsExplained /\ Assertions!InactiveWasVerified)'
  BY <1>1, NoneIsNoOutcome
  DEF Assertions!AcceptedAsMade, Assertions!RefusalsExplained, Assertions!InactiveWasVerified
<1> QED
  BY <1>3, <1>4, <1>5, <1>6, <1>7, <1>8, <1>9 DEF Assertions!IInv

\* What happens to the parties, and time, change neither the assertion nor what has been
\* said of it: an explanation stands.
LEMMA AssertionEvent ==
    ASSUME Assertions!IInv,
           age' \in Nat, age <= age', service' \in Services,
           key' \in Assertions!KeysOf(agent), key' = key \/ key.version < key'.version,
           active' \in BOOLEAN, agent.hosted \/ active',
           dormant' \in BOOLEAN, dormant => dormant', active' \/ dormant' \/ assertion = None,
           restarted' \in BOOLEAN, restarted => restarted', service' = service \/ restarted',
           asked' \in Assertions!Presentations \cup {None},
           asked = None => asked' = None,
           asked # None =>
             /\ asked' # None
             /\ asked'.request = asked.request /\ asked'.service = asked.service
             /\ asked'.at = asked.at
             /\ asked'.since => asked.since /\ ~active',
           UNCHANGED <<agent, inspected, assertion, vouched, outcome, consumed, requests,
                       verdicts, lost>>
    PROVE  Assertions!IInv'
<1>1. /\ Assertions!TypeOK /\ Assertions!InOrder /\ Assertions!SignedAsMade
      /\ Assertions!AsInspected /\ Assertions!VouchedFor
      /\ Assertions!JudgedByThePlatform /\ Assertions!UsedOrUnderWay
      /\ Assertions!AcceptedAsMade /\ Assertions!RefusalsExplained
      /\ Assertions!InactiveWasVerified
  BY DEF Assertions!IInv
<1>2. /\ vouched # None => asked # None
      /\ outcome # None => asked # None /\ assertion # None
      /\ asked # None => assertion # None
  BY <1>1 DEF Assertions!InOrder
<1>3. age \in Nat /\ agent.lifetime \in Int /\ Tolerance \in Nat /\ key.version \in Nat
      /\ (asked # None => asked.at \in Nat) /\ key'.version \in Nat
      /\ (assertion # None => assertion.key.version \in Nat)
  BY <1>1, AssertionTyped DEF Assertions!KeysOf
<1>4. Assertions!TypeOK'
  BY <1>1 DEF Assertions!TypeOK, Assertions!KeysOf, Assertions!Dids
<1>5. Assertions!InOrder'
  BY <1>1, <1>3 DEF Assertions!InOrder
<1>6. Assertions!SignedAsMade'
  BY <1>1, <1>3 DEF Assertions!SignedAsMade, Assertions!ValidClaims
<1>7. Assertions!AsInspected'
  BY <1>1 DEF Assertions!AsInspected
<1>8. assertion # None /\ assertion.key # key => assertion.key # key'
  BY <1>1, <1>3 DEF Assertions!SignedAsMade
<1>9. asked # None => Assertions!Slack' = Assertions!Slack
  BY DEF Assertions!Slack, Assertions!Smaller
<1>10. asked # None /\ Assertions!Explained => Assertions!Explained'
  BY <1>2, <1>3, <1>8, <1>9 DEF Assertions!Explained
<1>11. Assertions!VouchedFor'
  BY <1>1, <1>2, <1>10, NoneIsNoVerdict DEF Assertions!VouchedFor, Assertions!InsideWindow
<1>12. Assertions!JudgedByThePlatform'
  <2>1. Assertions!NoVerdicts' = Assertions!NoVerdicts
    BY DEF Assertions!NoVerdicts
  <2>2. ASSUME NEW q \in DOMAIN verdicts, ~verdicts[q], q.request = assertion.request
        PROVE  dormant' \/ assertion.key # key' \/ age' >= agent.lifetime + Tolerance
    <3>1. assertion # None
      BY <1>1 DEF Assertions!JudgedByThePlatform, Assertions!NoVerdicts
    <3> QED
      BY <1>1, <1>3, <1>8, <2>2, <3>1 DEF Assertions!JudgedByThePlatform
  <2>3. vouched = TRUE => asked # None
    BY <1>2, NoneIsNoVerdict
  <2> QED
    BY <1>1, <2>1, <2>2, <2>3 DEF Assertions!JudgedByThePlatform
<1>13. Assertions!UsedOrUnderWay'
  <2>1. /\ Assertions!Arrival \in Nat /\ Assertions!Arrival' \in Nat
        /\ Assertions!Arrival <= Assertions!Arrival'
    BY <1>3 DEF Assertions!Arrival
  <2>2. inspected.skew \in Nat /\ (assertion # None => assertion.exp \in Int)
    BY <1>1, AssertionTyped
  <2>3. vouched = TRUE => asked # None
    BY <1>2, NoneIsNoVerdict
  <2> QED
    BY <1>1, <2>1, <2>2, <2>3 DEF Assertions!UsedOrUnderWay
<1>14. outcome = "accepted" \/ outcome = "refused" => asked # None
  BY <1>2, NoneIsNoOutcome
<1>15. Assertions!AcceptedAsMade'
  BY <1>1, <1>9, <1>14 DEF Assertions!AcceptedAsMade
<1>16. Assertions!RefusalsExplained'
  BY <1>1, <1>10, <1>14 DEF Assertions!RefusalsExplained
<1>17. Assertions!InactiveWasVerified'
  BY <1>1, <1>14 DEF Assertions!InactiveWasVerified
<1> QED
  BY <1>4, <1>5, <1>6, <1>7, <1>11, <1>12, <1>13, <1>15, <1>16, <1>17 DEF Assertions!IInv

\* What AssertionEvent asks of a variable that does not change.
LEMMA AssertionAsItWas ==
    ASSUME Assertions!IInv
    PROVE  /\ age \in Nat /\ age <= age /\ service \in Services
           /\ key \in Assertions!KeysOf(agent)
           /\ active \in BOOLEAN /\ (agent.hosted \/ active)
           /\ dormant \in BOOLEAN /\ (active \/ dormant \/ assertion = None)
           /\ restarted \in BOOLEAN
           /\ asked \in Assertions!Presentations \cup {None}
           /\ asked # None => (asked.since => ~active)
BY DEF Assertions!IInv, Assertions!TypeOK, Assertions!InOrder, Assertions!SignedAsMade

\* Time, a restart of the Service, and what the Platform does to the identity.
LEMMA AssertionMeanwhile ==
    ASSUME Assertions!IInv,
           \/ Assertions!Tick \/ Assertions!Reconfigure \/ Assertions!Rotate
           \/ Assertions!Deactivate \/ Assertions!Reactivate
           \/ UNCHANGED Assertions!vars
    PROVE  Assertions!IInv'
<1>1. CASE Assertions!Tick
  BY <1>1, AssertionAsItWas, AssertionEvent DEF Assertions!Tick
<1>2. CASE Assertions!Reconfigure
  BY <1>2, AssertionAsItWas, AssertionEvent DEF Assertions!Reconfigure, Assertions!Event
<1>3. CASE Assertions!Rotate
  <2>1. key' \in Assertions!KeysOf(agent) /\ key.version < key'.version
    BY <1>3, AssertionAsItWas DEF Assertions!Rotate, Assertions!KeysOf
  <2> QED
    BY <1>3, <2>1, AssertionAsItWas, AssertionEvent DEF Assertions!Rotate, Assertions!Event
<1>4. CASE Assertions!Deactivate
  BY <1>4, AssertionAsItWas, AssertionEvent DEF Assertions!Deactivate, Assertions!Event
<1>5. CASE Assertions!Reactivate
  <2>1. asked # None => asked' = [asked EXCEPT !.since = FALSE] /\ asked' \in Assertions!Presentations
    BY <1>5, AssertionAsItWas DEF Assertions!Reactivate, Assertions!Presentations
  <2>2. asked # None =>
          /\ asked' # None
          /\ asked'.request = asked.request /\ asked'.service = asked.service
          /\ asked'.at = asked.at /\ ~asked'.since
    BY <2>1, NoneIsNoPart, AssertionAsItWas DEF Assertions!Presentations
  <2> QED
    BY <1>5, <2>1, <2>2, AssertionAsItWas, AssertionEvent DEF Assertions!Reactivate, Assertions!Event
<1>6. CASE UNCHANGED Assertions!vars
  BY <1>6, AssertionAsItWas, AssertionEvent DEF Assertions!vars
<1> QED
  BY <1>1, <1>2, <1>3, <1>4, <1>5, <1>6

\* At first nothing has been signed, asked or consumed.
LEMMA AssertionInit == Assertions!Init => Assertions!IInv
<1> SUFFICES ASSUME Assertions!Init PROVE Assertions!IInv
  OBVIOUS
<1>1. /\ age = 0 /\ service \in Services /\ inspected = service
      /\ agent \in Agents /\ key \in [version : {0}, algorithm : agent.algorithms]
      /\ active = TRUE /\ assertion = None /\ asked = None /\ vouched = None /\ outcome = None
      /\ verdicts = Assertions!NoVerdicts /\ consumed = None /\ requests = 0
      /\ lost = FALSE /\ dormant = FALSE /\ restarted = FALSE
  BY DEF Assertions!Init
<1>2. DOMAIN verdicts = {}
  BY <1>1 DEF Assertions!NoVerdicts
<1>3. Assertions!TypeOK
  <2>1. key \in Assertions!KeysOf(agent)
    BY <1>1 DEF Assertions!KeysOf
  <2>2. verdicts \in [DOMAIN verdicts -> BOOLEAN]
    BY <1>1, <1>2 DEF Assertions!NoVerdicts
  <2> QED
    BY <1>1, <2>1, <2>2 DEF Assertions!TypeOK
<1>4. Assertions!InOrder /\ Assertions!SignedAsMade /\ Assertions!AsInspected
  BY <1>1, NoneIsNoOutcome DEF Assertions!InOrder, Assertions!SignedAsMade, Assertions!AsInspected
<1>5. Assertions!VouchedFor /\ Assertions!JudgedByThePlatform /\ Assertions!UsedOrUnderWay
  BY <1>1, <1>2, NoneIsNoVerdict
  DEF Assertions!VouchedFor, Assertions!JudgedByThePlatform, Assertions!UsedOrUnderWay
<1>6. /\ Assertions!AcceptedAsMade /\ Assertions!RefusalsExplained
      /\ Assertions!InactiveWasVerified
  BY <1>1, NoneIsNoOutcome
  DEF Assertions!AcceptedAsMade, Assertions!RefusalsExplained, Assertions!InactiveWasVerified
<1> QED
  BY <1>3, <1>4, <1>5, <1>6 DEF Assertions!IInv

\* What a client assertion goes through keeps the invariant behind its properties.
THEOREM AssertionInvariant == Assertions!Spec => []Assertions!IInv
<1>1. Assertions!IInv /\ [Assertions!Next]_(Assertions!vars) => Assertions!IInv'
  BY AssertionSign, AssertionAsk, AssertionResolveKey, AssertionCheckSignature,
     AssertionCannotVerify, AssertionAskPlatform, AssertionNotOfThePlatform, AssertionDecide,
     AssertionReturn, AssertionMeanwhile
  DEF Assertions!Next
<1> QED
  BY <1>1, AssertionInit, PTL DEF Assertions!Spec

\* Whatever checks it, for every tolerance, lifetime and drift of the clocks, an assertion
\* authenticates only what it was made for, while it lives.
THEOREM AssertionsAcceptedAsMade == Assertions!Spec => []AcceptedAsMade
<1>1. Assertions!IInv => AcceptedAsMade
  BY DEF Assertions!IInv, AcceptedAsMade
<1> QED
  BY <1>1, AssertionInvariant, PTL

\* A refusal of what the Agent made its assertion for has a reason outside the code.
THEOREM AssertionRefusals == Assertions!Spec => []RefusalsExplained
<1>1. Assertions!IInv => RefusalsExplained
  BY DEF Assertions!IInv, RefusalsExplained
<1> QED
  BY <1>1, AssertionInvariant, PTL

\* What lets an inactive identity in.
THEOREM InactiveIdentities == Assertions!Spec => []InactiveWasVerified
<1>1. Assertions!IInv => InactiveWasVerified
  BY DEF Assertions!IInv, InactiveWasVerified
<1> QED
  BY <1>1, AssertionInvariant, PTL

=============================================================================
