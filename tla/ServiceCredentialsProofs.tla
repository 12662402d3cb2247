---------------------- MODULE ServiceCredentialsProofs ----------------------
(***************************************************************************)
(* Proofs about ServiceCredentials, for every set of calls, agents, grant  *)
(* types, ids and secrets.                                                 *)
(***************************************************************************)
EXTENDS ServiceCredentials, TLAPS

USE DEF Goto, Finish, Arrive, IsKind, CanIssue

\* The conjuncts of the invariant, for one call.
OrderAt(t) ==
    /\ pc[t] = "idle" => call[t] = None
    /\ pc[t] # "idle" => call[t] # None /\ now[t] # None
    /\ result[t] # None <=> pc[t] = "done"
    /\ pc[t] = "saved" => IsKind(t, "grant")
    /\ pc[t] \in {"presented", "matched"} => IsKind(t, "session")
    /\ result[t] = "revoked" => IsKind(t, "revoke")
    /\ pc[t] = "queued" => ~IsKind(t, "session")

RevokeAt(t) == IsKind(t, "revoke") =>
    /\ \A i \in covered[t] :
        /\ creds[i] # None
        /\ creds[i].agent = call[t].agent /\ call[t].id \in {i, None}
        /\ creds[i].revoked \/ creds[i].type \in todo[t]
    /\ result[t] = "revoked" => todo[t] = {}

SessionAt(t) == IsKind(t, "session") =>
    /\ \A i \in covered[t] : creds[i] # None /\ creds[i].revoked
    /\ pc[t] = "matched" \/ result[t] = "authenticated" =>
        /\ match[t] # None
        /\ creds[match[t]] # None
        /\ match[t] \notin covered[t]

\* t answers, or may answer, for credential i
Backs(t, i) ==
    /\ IsKind(t, "grant") /\ match[t] = i
    /\ pc[t] = "saved" \/ result[t] \in {"granted", "cancelled"}

\* A step of t leaves the other calls alone.
OthersKept(t) ==
    \A u \in Tasks \ {t} :
        /\ pc'[u] = pc[u] /\ call'[u] = call[u] /\ now'[u] = now[u]
        /\ todo'[u] = todo[u] /\ match'[u] = match[u]
        /\ result'[u] = result[u] /\ covered'[u] = covered[u]

\* Credentials only come into being or become revoked.
CredsAdvance ==
    \A i \in Ids : creds[i] # None =>
        /\ creds'[i] # None
        /\ creds'[i].agent = creds[i].agent
        /\ creds'[i].type = creds[i].type
        /\ creds[i].revoked => creds'[i].revoked

\* The invariant, call by call and credential by credential.
LEMMA PerCall ==
    IInv <=> /\ TypeOK /\ OneCredentialPerSecret
             /\ \A t \in Tasks : OrderAt(t) /\ RevokeAt(t) /\ SessionAt(t)
             /\ \A i \in Ids : creds[i] # None => \E t \in Tasks : Backs(t, i)
BY DEF IInv, CallsInOrder, RevokesAdvance, SessionsMatchOthers, Backed,
       OrderAt, RevokeAt, SessionAt, Backs

----------------------------------------------------------------------------
\* At first no call is under way and no credential exists.
LEMMA InitIInv == Init => IInv
<1> SUFFICES ASSUME Init PROVE IInv
  OBVIOUS
<1>1. TypeOK
  BY MaxTimeIsNat DEF Init, TypeOK
<1>2. OneCredentialPerSecret
  BY DEF Init, OneCredentialPerSecret
<1>3. \A t \in Tasks : OrderAt(t) /\ RevokeAt(t) /\ SessionAt(t)
  BY NoneIsNoRecord DEF Init, OrderAt, RevokeAt, SessionAt, Results
<1>4. \A i \in Ids : creds[i] # None => \E t \in Tasks : Backs(t, i)
  BY DEF Init
<1> QED
  BY <1>1, <1>2, <1>3, <1>4, PerCall

\* What a step of one call must still show about that call alone.
LEMMA StepOfOne ==
    ASSUME IInv, NEW t \in Tasks, OthersKept(t), CredsAdvance, TypeOK',
           OneCredentialPerSecret', OrderAt(t)', RevokeAt(t)', SessionAt(t)',
           \A i \in Ids : creds[i] # None /\ Backs(t, i) => Backs(t, i)',
           \A i \in Ids : creds[i] = None /\ creds'[i] # None => Backs(t, i)'
    PROVE  IInv'
<1>1. ASSUME NEW u \in Tasks, u # t
      PROVE  OrderAt(u)' /\ RevokeAt(u)' /\ SessionAt(u)'
  <2>1. OrderAt(u) /\ RevokeAt(u) /\ SessionAt(u)
    BY PerCall
  <2>2. /\ pc'[u] = pc[u] /\ call'[u] = call[u] /\ now'[u] = now[u]
        /\ todo'[u] = todo[u] /\ match'[u] = match[u]
        /\ result'[u] = result[u] /\ covered'[u] = covered[u]
    BY <1>1 DEF OthersKept
  <2>3. covered[u] \subseteq Ids /\ match[u] \in Ids \cup {None}
    BY DEF IInv, TypeOK
  <2>4. OrderAt(u)'
    BY <2>1, <2>2 DEF OrderAt
  <2>5. RevokeAt(u)'
    BY <2>1, <2>2, <2>3 DEF RevokeAt, CredsAdvance
  <2>6. SessionAt(u)'
    BY <2>1, <2>2, <2>3 DEF SessionAt, CredsAdvance
  <2> QED
    BY <2>4, <2>5, <2>6
<1>2. ASSUME NEW i \in Ids, creds'[i] # None
      PROVE  \E u \in Tasks : Backs(u, i)'
  <2>1. CASE creds[i] = None
    BY <1>2, <2>1
  <2>2. CASE creds[i] # None
    <3>1. PICK u \in Tasks : Backs(u, i)
      BY <2>2, PerCall
    <3>2. CASE u = t
      BY <2>2, <3>1, <3>2
    <3>3. CASE u # t
      BY <3>1, <3>3 DEF Backs, OthersKept
    <3> QED
      BY <3>2, <3>3
  <2> QED
    BY <2>1, <2>2
<1>3. \A u \in Tasks : OrderAt(u)' /\ RevokeAt(u)' /\ SessionAt(u)'
  BY <1>1
<1> QED
  BY <1>2, <1>3 DEF IInv, CallsInOrder, RevokesAdvance, SessionsMatchOthers,
                    Backed, OrderAt, RevokeAt, SessionAt, Backs

\* The same, when the credentials stay as they are.
LEMMA QuietStep ==
    ASSUME IInv, NEW t \in Tasks, OthersKept(t), UNCHANGED creds, TypeOK',
           OrderAt(t)', RevokeAt(t)', SessionAt(t)',
           \A i \in Ids : Backs(t, i) => Backs(t, i)'
    PROVE  IInv'
<1>1. CredsAdvance
  BY DEF CredsAdvance
<1>2. OneCredentialPerSecret'
  BY DEF IInv, OneCredentialPerSecret
<1> QED
  BY <1>1, <1>2, StepOfOne

----------------------------------------------------------------------------
\* A grant arrives from an agent that is enrolled.
LEMMA GrantArriveStep == ASSUME IInv, NEW t \in Tasks, GrantArrive(t) PROVE IInv'
<1>1. PICK a \in Agents, g \in GrantTypes :
        /\ enrolled[a] # None
        /\ Arrive(t, [kind |-> "grant", agent |-> a, type |-> g],
                  IF enrolled[a].active THEN "queued" ELSE "done")
        /\ result' = IF enrolled[a].active THEN result ELSE [result EXCEPT ![t] = "blocked"]
        /\ ready' = [ready EXCEPT ![t] = ~enrolled[a].unmet]
        /\ UNCHANGED <<enrolled, overtaken, creds, clock, todo, match, covered>>
  BY DEF GrantArrive
<1>2. call'[t] = [kind |-> "grant", agent |-> a, type |-> g] /\ call'[t] \in Calls
  BY <1>1 DEF IInv, TypeOK, Calls
<1>3. call'[t] # None /\ call'[t].kind = "grant" /\ call[t] = None /\ result[t] = None
  BY <1>1, <1>2, NoneIsNoRecord DEF IInv, CallsInOrder
<1>4. OthersKept(t)
  BY <1>1 DEF IInv, TypeOK, OthersKept
<1>5. TypeOK'
  BY <1>1, <1>2 DEF IInv, TypeOK, Enrollments, Results
<1>6. now'[t] # None
  BY <1>1, NoneIsNothing, MaxTimeIsNat DEF IInv, TypeOK
<1>7. OrderAt(t)'
  BY <1>1, <1>3, <1>6, NoneIsNoRecord DEF OrderAt, IInv, TypeOK, Results
<1>8. RevokeAt(t)' /\ SessionAt(t)'
  BY <1>3 DEF RevokeAt, SessionAt
<1>9. \A i \in Ids : Backs(t, i) => Backs(t, i)'
  BY <1>3 DEF Backs
<1> QED
  BY <1>1, <1>4, <1>5, <1>7, <1>8, <1>9, QuietStep

\* A grant or revoke that ends without having changed the store.
LEMMA EndStep ==
    ASSUME IInv, NEW t \in Tasks, NEW from \in {"queued", "saved"}, NEW r \in Results,
           call[t] # None, Finish(t, from, r), ~IsKind(t, "session"), r # "revoked",
           from = "saved" => r \in {"granted", "cancelled"},
           overtaken' \subseteq overtaken,
           UNCHANGED <<enrolled, creds, clock, ready, todo, match, covered>>
    PROVE  IInv'
<1>1. OthersKept(t)
  BY DEF IInv, TypeOK, OthersKept
<1>2. TypeOK'
  BY DEF IInv, TypeOK
<1>3. /\ pc[t] = from /\ pc'[t] = "done" /\ result'[t] = r /\ call'[t] = call[t]
      /\ now'[t] = now[t] /\ now[t] # None /\ r # None /\ result[t] = None
  BY NoneIsNoRecord DEF IInv, TypeOK, CallsInOrder
<1>4. OrderAt(t)'
  BY <1>3 DEF OrderAt
<1>5. RevokeAt(t)' /\ SessionAt(t)'
  BY <1>3, PerCall DEF RevokeAt, SessionAt
<1>6. \A i \in Ids : Backs(t, i) => Backs(t, i)'
  <2>1. result[t] \notin {"granted", "cancelled"}
    BY <1>3, NoneIsNoRecord DEF Results
  <2> QED
    BY <1>3, <2>1 DEF Backs
<1> QED
  BY <1>1, <1>2, <1>4, <1>5, <1>6, QuietStep

\* A grant or a revocation that ends without a change.
LEMMA EndsStep ==
    ASSUME IInv, NEW t \in Tasks,
           GrantUnmet(t) \/ GrantFail(t) \/ GrantReply(t) \/ GrantCancel(t) \/ RevokeFail(t)
    PROVE  IInv'
<1>1. {"requirements_unmet", "failed", "granted", "cancelled"} \subseteq Results
  BY DEF Results
<1>2. pc[t] = "saved" => IsKind(t, "grant")
  BY DEF IInv, CallsInOrder
<1>3. CASE GrantUnmet(t)
  BY <1>1, <1>3, EndStep DEF GrantUnmet
<1>4. CASE GrantFail(t)
  BY <1>1, <1>4, EndStep DEF GrantFail
<1>5. CASE GrantReply(t)
  BY <1>1, <1>2, <1>5, EndStep DEF GrantReply
<1>6. CASE GrantCancel(t)
  BY <1>1, <1>2, <1>6, EndStep DEF GrantCancel
<1>7. CASE RevokeFail(t)
  BY <1>1, <1>7, EndStep DEF RevokeFail
<1> QED
  BY <1>3, <1>4, <1>5, <1>6, <1>7

\* A grant saves a credential under an id and a secret that are new.
LEMMA GrantSaveStep == ASSUME IInv, NEW t \in Tasks, GrantSave(t) PROVE IInv'
<1>1. PICK i \in Ids, s \in Secrets, e \in 0..(MaxTime + 1) :
        /\ CanSave(i, call[t].type, s)
        /\ creds' = [creds EXCEPT ![i] =
                [agent |-> call[t].agent, type |-> call[t].type, secret |-> s,
                 expires_at |-> e, revoked |-> FALSE]]
        /\ match' = [match EXCEPT ![t] = i]
  BY DEF GrantSave
<1> DEFINE c == [agent |-> call[t].agent, type |-> call[t].type, secret |-> s,
                 expires_at |-> e, revoked |-> FALSE]
<1>2. /\ IsKind(t, "grant") /\ pc[t] = "queued" /\ pc' = [pc EXCEPT ![t] = "saved"]
      /\ overtaken' = overtaken \ {t}
      /\ UNCHANGED <<enrolled, clock, call, now, ready, todo, result, covered>>
  BY DEF GrantSave
<1>3. call[t].agent \in Agents /\ call[t].type \in GrantTypes
  BY <1>2 DEF IInv, TypeOK, Calls
<1>4. c \in Credentials /\ c # None
  <2>1. e \in Int
    BY MaxTimeIsNat
  <2>2. c \in Credentials
    BY <1>3, <2>1 DEF Credentials
  <2> QED
    BY <2>2, NoneIsNoRecord
<1>5. OthersKept(t)
  BY <1>1, <1>2 DEF IInv, TypeOK, OthersKept
<1>6. creds[i] = None /\ creds'[i] = c /\ \A j \in Ids \ {i} : creds'[j] = creds[j]
  BY <1>1 DEF CanSave, IInv, TypeOK
<1>7. CredsAdvance
  BY <1>6 DEF CredsAdvance
<1>8. TypeOK'
  BY <1>1, <1>2, <1>4 DEF IInv, TypeOK
<1>9. OneCredentialPerSecret'
  <2>1. \A j \in Ids : creds[j] # None => creds[j].type # c.type \/ creds[j].secret # c.secret
    BY <1>1 DEF CanSave
  <2> QED
    BY <1>6, <2>1 DEF IInv, OneCredentialPerSecret
<1>10. OrderAt(t)'
  BY <1>1, <1>2, PerCall DEF OrderAt, IInv, TypeOK
<1>11. RevokeAt(t)' /\ SessionAt(t)'
  BY <1>2 DEF RevokeAt, SessionAt
<1>12. result[t] = None
  BY <1>2 DEF IInv, CallsInOrder
<1>13. \A j \in Ids : creds[j] # None /\ Backs(t, j) => Backs(t, j)'
  BY <1>2, <1>12, NoneIsNoRecord DEF Backs, Results
<1>14. \A j \in Ids : creds[j] = None /\ creds'[j] # None => Backs(t, j)'
  BY <1>1, <1>2, <1>6 DEF Backs, IInv, TypeOK
<1> QED
  BY <1>5, <1>7, <1>8, <1>9, <1>10, <1>11, <1>13, <1>14, StepOfOne

----------------------------------------------------------------------------
\* A revocation arrives, and is to cover what it names.
LEMMA RevokeArriveStep == ASSUME IInv, NEW t \in Tasks, RevokeArrive(t) PROVE IInv'
<1>1. PICK a \in Agents, id \in Ids \cup {None}, G \in {GrantTypes} \cup {{g} : g \in GrantTypes} :
        /\ enrolled[a] # None
        /\ Arrive(t, [kind |-> "revoke", agent |-> a, id |-> id], "queued")
        /\ todo' = [todo EXCEPT ![t] = G]
        /\ covered' = [covered EXCEPT ![t] = {i \in Targets(a, id) : creds[i].type \in G}]
        /\ UNCHANGED <<enrolled, overtaken, creds, clock, ready, match, result>>
  BY DEF RevokeArrive
<1>2. call'[t] = [kind |-> "revoke", agent |-> a, id |-> id] /\ call'[t] \in Calls
  BY <1>1 DEF IInv, TypeOK, Calls
<1>3. call'[t] # None /\ call'[t].kind = "revoke" /\ call[t] = None /\ result[t] = None
  BY <1>1, <1>2, NoneIsNoRecord DEF IInv, CallsInOrder
<1>4. OthersKept(t)
  BY <1>1 DEF IInv, TypeOK, OthersKept
<1>5. G \subseteq GrantTypes
  BY <1>1
<1>6. TypeOK'
  <2>1. {i \in Targets(a, id) : creds[i].type \in G} \subseteq Ids
    BY DEF Targets
  <2>2. todo' \in [Tasks -> SUBSET GrantTypes] /\ covered' \in [Tasks -> SUBSET Ids]
    BY <1>1, <1>5, <2>1 DEF IInv, TypeOK
  <2> QED
    BY <1>1, <1>2, <2>2 DEF IInv, TypeOK
<1>7. now'[t] # None
  BY <1>1, NoneIsNothing, MaxTimeIsNat DEF IInv, TypeOK
<1>8. OrderAt(t)'
  BY <1>1, <1>3, <1>7, NoneIsNoRecord DEF OrderAt, IInv, TypeOK, Results
<1>9. RevokeAt(t)'
  <2>1. covered'[t] = {i \in Targets(a, id) : creds[i].type \in G} /\ todo'[t] = G
    BY <1>1 DEF IInv, TypeOK
  <2> QED
    BY <1>1, <1>2, <1>3, <2>1, NoneIsNoRecord DEF RevokeAt, Targets, Results
<1>10. SessionAt(t)'
  BY <1>3 DEF SessionAt
<1>11. \A i \in Ids : Backs(t, i) => Backs(t, i)'
  BY <1>3 DEF Backs
<1> QED
  BY <1>1, <1>4, <1>6, <1>8, <1>9, <1>10, <1>11, QuietStep

\* A revocation revokes what it covers of one grant type.
LEMMA RevokeTypeStep == ASSUME IInv, NEW t \in Tasks, RevokeType(t) PROVE IInv'
<1>1. PICK g \in todo[t] :
        /\ creds' = Revoked(call[t].agent, call[t].id, g)
        /\ todo' = [todo EXCEPT ![t] = @ \ {g}]
        /\ IF todo[t] = {g}
           THEN Finish(t, "queued", "revoked")
           ELSE pc[t] = "queued" /\ UNCHANGED <<pc, result, call, now>>
  BY DEF RevokeType
<1>2. /\ IsKind(t, "revoke") /\ pc[t] = "queued"
      /\ UNCHANGED <<enrolled, overtaken, clock, ready, match, covered, call, now>>
  BY <1>1 DEF RevokeType
<1>3. /\ call[t].agent \in Agents /\ todo[t] \subseteq GrantTypes /\ todo'[t] = todo[t] \ {g}
      /\ now[t] # None /\ result[t] = None /\ covered[t] \subseteq Ids
  BY <1>1, <1>2 DEF IInv, TypeOK, CallsInOrder, Calls
<1>4. \A i \in Ids :
        /\ (creds[i] # None /\ creds[i].agent = call[t].agent /\ call[t].id \in {i, None}
            /\ creds[i].type = g) => creds'[i] = [creds[i] EXCEPT !.revoked = TRUE]
        /\ creds'[i] \in {creds[i], [creds[i] EXCEPT !.revoked = TRUE]}
        /\ creds[i] = None => creds'[i] = None
  BY <1>1 DEF Revoked, Targets
<1>5. \A i \in Ids : creds[i] # None =>
        /\ creds[i] \in Credentials /\ creds'[i] \in Credentials /\ creds'[i] # None
        /\ creds'[i].agent = creds[i].agent /\ creds'[i].type = creds[i].type
        /\ creds'[i].secret = creds[i].secret
        /\ creds[i].revoked => creds'[i].revoked
  <2> SUFFICES ASSUME NEW i \in Ids, creds[i] # None
               PROVE  /\ creds[i] \in Credentials /\ creds'[i] \in Credentials /\ creds'[i] # None
                      /\ creds'[i].agent = creds[i].agent /\ creds'[i].type = creds[i].type
                      /\ creds'[i].secret = creds[i].secret
                      /\ creds[i].revoked => creds'[i].revoked
    OBVIOUS
  <2>1. creds[i] \in Credentials
    BY DEF IInv, TypeOK
  <2>2. [creds[i] EXCEPT !.revoked = TRUE] \in Credentials
    BY <2>1 DEF Credentials
  <2>3. None \notin Credentials
    BY NoneIsNoRecord
  <2>4. creds'[i] \in Credentials /\ creds'[i] # None
    BY <1>4, <2>1, <2>2, <2>3
  <2>5. CASE creds'[i] = creds[i]
    BY <2>1, <2>4, <2>5
  <2>6. CASE creds'[i] = [creds[i] EXCEPT !.revoked = TRUE]
    BY <2>1, <2>4, <2>6 DEF Credentials
  <2> QED
    BY <1>4, <2>5, <2>6
<1>6. OthersKept(t)
  BY <1>1, <1>2 DEF IInv, TypeOK, OthersKept
<1>7. CredsAdvance
  BY <1>5 DEF CredsAdvance
<1>8. TypeOK'
  <2>1. creds' \in [Ids -> Credentials \cup {None}]
    <3>1. \A i \in Ids : creds'[i] \in Credentials \cup {None}
      BY <1>4, <1>5
    <3> QED
      BY <1>1, <3>1 DEF Revoked
  <2>2. todo' \in [Tasks -> SUBSET GrantTypes]
    BY <1>1, <1>3 DEF IInv, TypeOK
  <2>3. pc' \in [Tasks -> {"idle", "queued", "saved", "presented", "matched", "done"}]
        /\ result' \in [Tasks -> Results \cup {None}]
    BY <1>1, <1>2 DEF IInv, TypeOK, Results
  <2> QED
    BY <1>2, <2>1, <2>2, <2>3 DEF IInv, TypeOK
<1>9. OneCredentialPerSecret'
  <2> SUFFICES ASSUME NEW i \in Ids, NEW j \in Ids, creds'[i] # None, creds'[j] # None,
                      creds'[i].type = creds'[j].type, creds'[i].secret = creds'[j].secret
               PROVE  i = j
    BY DEF OneCredentialPerSecret
  <2>1. creds[i] # None /\ creds[j] # None
    BY <1>4
  <2> QED
    BY <1>5, <2>1 DEF IInv, OneCredentialPerSecret
<1>10. OrderAt(t)'
  BY <1>1, <1>2, <1>3, NoneIsNoRecord DEF OrderAt, IInv, TypeOK, Results
<1>11. RevokeAt(t)'
  <2>1. ASSUME NEW i \in covered[t]
        PROVE  /\ creds'[i] # None
               /\ creds'[i].agent = call[t].agent /\ call[t].id \in {i, None}
               /\ creds'[i].revoked \/ creds'[i].type \in todo'[t]
    <3>1. /\ creds[i] # None /\ i \in Ids
          /\ creds[i].agent = call[t].agent /\ call[t].id \in {i, None}
          /\ creds[i].revoked \/ creds[i].type \in todo[t]
      BY <1>2, <1>3, <2>1, PerCall DEF RevokeAt
    <3>2. CASE creds[i].type = g
      <4>1. creds'[i].revoked
        BY <1>4, <1>5, <3>1, <3>2 DEF Credentials
      <4> QED
        BY <1>5, <3>1, <4>1
    <3>3. CASE creds[i].type # g
      BY <1>3, <1>5, <3>1, <3>3
    <3> QED
      BY <3>2, <3>3
  <2>2. result'[t] = "revoked" => todo'[t] = {}
    BY <1>1, <1>2, <1>3, NoneIsNoRecord DEF Results
  <2> QED
    BY <1>2, <2>1, <2>2 DEF RevokeAt
<1>12. SessionAt(t)'
  BY <1>2 DEF SessionAt
<1>13. \A i \in Ids : creds[i] # None /\ Backs(t, i) => Backs(t, i)'
  BY <1>2 DEF Backs
<1>14. \A i \in Ids : creds[i] = None /\ creds'[i] # None => Backs(t, i)'
  BY <1>4
<1> QED
  BY <1>6, <1>7, <1>8, <1>9, <1>10, <1>11, <1>12, <1>13, <1>14, StepOfOne

----------------------------------------------------------------------------
\* A session presents a secret, after every revocation that has been answered.
LEMMA SessionArriveStep == ASSUME IInv, NEW t \in Tasks, SessionArrive(t) PROVE IInv'
<1> DEFINE C == UNION {covered[r] : r \in {q \in Tasks : result[q] = "revoked"}}
<1>1. PICK g \in GrantTypes, s \in Secrets :
        Arrive(t, [kind |-> "session", type |-> g, secret |-> s], "presented")
  BY DEF SessionArrive
<1>2. /\ covered' = [covered EXCEPT ![t] = C]
      /\ UNCHANGED <<enrolled, overtaken, creds, clock, ready, todo, match, result>>
  BY DEF SessionArrive
<1>3. call'[t] = [kind |-> "session", type |-> g, secret |-> s] /\ call'[t] \in Calls
  BY <1>1 DEF IInv, TypeOK, Calls
<1>4. call'[t] # None /\ call'[t].kind = "session" /\ call[t] = None /\ result[t] = None
  BY <1>1, <1>3, NoneIsNoRecord DEF IInv, CallsInOrder
<1>5. OthersKept(t)
  BY <1>1, <1>2 DEF IInv, TypeOK, OthersKept
<1>6. C \subseteq Ids /\ \A i \in C : creds[i] # None /\ creds[i].revoked
  <2> SUFFICES ASSUME NEW i \in C PROVE i \in Ids /\ creds[i] # None /\ creds[i].revoked
    OBVIOUS
  <2>1. PICK r \in Tasks : result[r] = "revoked" /\ i \in covered[r]
    OBVIOUS
  <2>2. IsKind(r, "revoke") /\ todo[r] = {}
    BY <2>1 DEF IInv, CallsInOrder, RevokesAdvance
  <2> QED
    BY <2>1, <2>2 DEF IInv, TypeOK, RevokesAdvance
<1>7. TypeOK'
  <2>1. covered' \in [Tasks -> SUBSET Ids]
    BY <1>2, <1>6 DEF IInv, TypeOK
  <2> QED
    BY <1>1, <1>2, <1>3, <2>1 DEF IInv, TypeOK
<1>8. now'[t] # None
  BY <1>1, NoneIsNothing, MaxTimeIsNat DEF IInv, TypeOK
<1>9. pc'[t] = "presented" /\ result'[t] = None /\ covered'[t] = C
  BY <1>1, <1>2, <1>4 DEF IInv, TypeOK
<1>10. OrderAt(t)'
  BY <1>4, <1>8, <1>9, NoneIsNoRecord DEF OrderAt, Results
<1>11. RevokeAt(t)'
  BY <1>4 DEF RevokeAt
<1>12. SessionAt(t)'
  BY <1>2, <1>6, <1>9, NoneIsNoRecord DEF SessionAt, Results
<1>13. \A i \in Ids : Backs(t, i) => Backs(t, i)'
  BY <1>4 DEF Backs
<1> QED
  BY <1>2, <1>5, <1>7, <1>10, <1>11, <1>12, <1>13, QuietStep

\* The store finds a credential by its secret.
LEMMA SessionMatchStep == ASSUME IInv, NEW t \in Tasks, SessionMatch(t) PROVE IInv'
<1>1. /\ IsKind(t, "session") /\ pc[t] = "presented"
      /\ UNCHANGED <<enrolled, overtaken, creds, clock, ready, todo, covered, call, now>>
      /\ SessionAt(t) /\ now[t] # None /\ result[t] = None
  BY PerCall DEF SessionMatch, IInv, CallsInOrder
<1>2. TypeOK' /\ OthersKept(t)
  BY DEF SessionMatch, IInv, TypeOK, OthersKept, Results
<1>3. RevokeAt(t)'
  BY <1>1 DEF RevokeAt
<1>4. OrderAt(t)'
  BY <1>1, NoneIsNoRecord DEF OrderAt, SessionMatch, IInv, TypeOK, Results
<1>5. SessionAt(t)'
  <2>1. CASE \E i \in Ids : Matches(i, t) /\ match' = [match EXCEPT ![t] = i] /\ UNCHANGED result
    <3>1. PICK i \in Ids : Matches(i, t) /\ match' = [match EXCEPT ![t] = i]
      BY <2>1
    <3>2. match'[t] = i /\ creds[i] # None /\ i \notin covered[t] /\ i # None
      BY <1>1, <3>1, NoneIsNothing DEF Matches, SessionAt, IInv, TypeOK
    <3> QED
      BY <1>1, <3>2 DEF SessionAt
  <2>2. CASE pc'[t] = "done" /\ result'[t] = "not_recognized"
    BY <1>1, <2>2 DEF SessionAt
  <2> QED
    BY <2>1, <2>2 DEF SessionMatch, IInv, TypeOK
<1>6. \A i \in Ids : Backs(t, i) => Backs(t, i)'
  BY <1>1 DEF Backs
<1> QED
  BY <1>1, <1>2, <1>3, <1>4, <1>5, <1>6, QuietStep

\* The session is authenticated, or not recognized, as its match says.
LEMMA SessionFindStep == ASSUME IInv, NEW t \in Tasks, SessionFind(t) PROVE IInv'
<1>1. /\ IsKind(t, "session") /\ pc[t] = "matched"
      /\ UNCHANGED <<enrolled, overtaken, creds, clock, ready, todo, covered, call, now, match>>
      /\ SessionAt(t) /\ now[t] # None
  BY PerCall DEF SessionFind, IInv, CallsInOrder
<1>2. /\ pc' = [pc EXCEPT ![t] = "done"]
      /\ \E r \in {"authenticated", "not_recognized"} : result' = [result EXCEPT ![t] = r]
  BY DEF SessionFind
<1>3. TypeOK' /\ OthersKept(t)
  BY <1>1, <1>2 DEF IInv, TypeOK, OthersKept, Results
<1>4. RevokeAt(t)'
  BY <1>1 DEF RevokeAt
<1>5. OrderAt(t)'
  BY <1>1, <1>2, NoneIsNoRecord DEF OrderAt, IInv, TypeOK, Results
<1>6. SessionAt(t)'
  BY <1>1 DEF SessionAt
<1>7. \A i \in Ids : Backs(t, i) => Backs(t, i)'
  BY <1>1 DEF Backs
<1> QED
  BY <1>1, <1>3, <1>4, <1>5, <1>6, <1>7, QuietStep

----------------------------------------------------------------------------
\* No step leaves the invariant.
LEMMA NextIInv == IInv /\ [Next]_vars => IInv'
<1> SUFFICES ASSUME IInv, [Next]_vars PROVE IInv'
  OBVIOUS
<1>1. CASE EnrollmentChanges \/ Tick \/ UNCHANGED vars
  <2>1. UNCHANGED <<creds, pc, call, now, ready, todo, match, result, covered>>
    BY <1>1 DEF EnrollmentChanges, Tick, vars
  <2>2. TypeOK'
    BY <1>1, <2>1, MaxTimeIsNat DEF EnrollmentChanges, Tick, vars, IInv, TypeOK
  <2> QED
    BY <2>1, <2>2 DEF IInv, CallsInOrder, RevokesAdvance, SessionsMatchOthers,
                      OneCredentialPerSecret, Backed
<1>2. ASSUME NEW t \in Tasks,
             GrantUnmet(t) \/ GrantFail(t) \/ GrantReply(t) \/ GrantCancel(t) \/ RevokeFail(t)
      PROVE  IInv'
  BY <1>2, EndsStep
<1>3. ASSUME NEW t \in Tasks, GrantArrive(t) \/ GrantSave(t) PROVE IInv'
  BY <1>3, GrantArriveStep, GrantSaveStep
<1>4. ASSUME NEW t \in Tasks, RevokeArrive(t) \/ RevokeType(t) PROVE IInv'
  BY <1>4, RevokeArriveStep, RevokeTypeStep
<1>5. ASSUME NEW t \in Tasks, SessionArrive(t) \/ SessionMatch(t) \/ SessionFind(t) PROVE IInv'
  BY <1>5, SessionArriveStep, SessionMatchStep, SessionFindStep
<1> QED
  BY <1>1, <1>2, <1>3, <1>4, <1>5 DEF Next

\* The invariant holds of every behaviour of grants, revokes and session requests.
THEOREM CredentialInvariant == Spec => []IInv
<1>1. Init => IInv
  BY InitIInv
<1>2. IInv /\ [Next]_vars => IInv'
  BY NextIInv
<1> QED
  BY <1>1, <1>2, PTL DEF Spec

\* A secret never identifies two credentials.
THEOREM SecretsAreUnique == Spec => []OneCredentialPerSecret
<1>1. IInv => OneCredentialPerSecret
  BY DEF IInv
<1> QED
  BY <1>1, CredentialInvariant, PTL

\* A revoke that succeeds has revoked all it was about.
THEOREM Revocation == Spec => []RevokesComplete
<1>1. IInv => RevokesComplete
  BY DEF IInv, CallsInOrder, RevokesAdvance, RevokesComplete
<1> QED
  BY <1>1, CredentialInvariant, PTL

\* A revoked credential does not authenticate a request that arrives later.
THEOREM RevocationIsFinal == Spec => []RevokedNeverAuthenticates
<1>1. IInv => RevokedNeverAuthenticates
  BY DEF IInv, SessionsMatchOthers, RevokedNeverAuthenticates
<1> QED
  BY <1>1, CredentialInvariant, PTL

\* A call that is queued was, or arrives now, and has what it had.
LEMMA QueuedStays ==
    ASSUME IInv, [Next]_vars, NEW t \in Tasks, pc'[t] = "queued"
    PROVE  \/ pc[t] = "queued" /\ UNCHANGED <<call[t], ready[t]>>
           \/ GrantArrive(t)
           \/ RevokeArrive(t)
<1>t. /\ pc \in [Tasks -> {"idle", "queued", "saved", "presented", "matched", "done"}]
      /\ call \in [Tasks -> Calls \cup {None}] /\ ready \in [Tasks -> BOOLEAN]
  BY DEF IInv, TypeOK
<1>1. CASE EnrollmentChanges \/ Tick \/ UNCHANGED vars
  BY <1>1 DEF EnrollmentChanges, Tick, vars
<1>2. ASSUME NEW u \in Tasks,
             \/ GrantUnmet(u) \/ GrantSave(u) \/ GrantFail(u) \/ GrantReply(u) \/ GrantCancel(u)
             \/ RevokeType(u) \/ RevokeFail(u) \/ SessionMatch(u) \/ SessionFind(u)
      PROVE  pc[t] = "queued" /\ UNCHANGED <<call[t], ready[t]>>
  BY <1>t, <1>2 DEF GrantUnmet, GrantSave, GrantFail, GrantReply, GrantCancel, RevokeType, RevokeFail,
                    SessionMatch, SessionFind
<1>3. ASSUME NEW u \in Tasks, GrantArrive(u) \/ RevokeArrive(u) \/ SessionArrive(u), u # t
      PROVE  pc[t] = "queued" /\ UNCHANGED <<call[t], ready[t]>>
  BY <1>t, <1>3 DEF GrantArrive, RevokeArrive, SessionArrive
<1>4. ASSUME SessionArrive(t) PROVE FALSE
  BY <1>t, <1>4 DEF SessionArrive
<1> QED
  BY <1>1, <1>2, <1>3, <1>4 DEF Next

\* A grant that is queued has an enrollment in order, or one that has changed.
LEMMA StandingStep == IInv /\ IssuedInStanding /\ [Next]_vars => IssuedInStanding'
<1> SUFFICES ASSUME IInv, IssuedInStanding, [Next]_vars, NEW t \in Tasks,
                    pc'[t] = "queued", IsKind(t, "grant")', ready'[t]
             PROVE  \/ t \in overtaken'
                    \/ /\ enrolled'[call'[t].agent] # None
                       /\ enrolled'[call'[t].agent].active /\ ~enrolled'[call'[t].agent].unmet
  BY DEF IssuedInStanding
<1>t. /\ pc \in [Tasks -> {"idle", "queued", "saved", "presented", "matched", "done"}]
      /\ call \in [Tasks -> Calls \cup {None}] /\ ready \in [Tasks -> BOOLEAN]
      /\ enrolled \in [Agents -> Enrollments \cup {None}]
  BY DEF IInv, TypeOK
<1>1. CASE GrantArrive(t)
  <2>1. PICK a \in Agents, g \in GrantTypes :
            /\ enrolled[a] # None
            /\ Arrive(t, [kind |-> "grant", agent |-> a, type |-> g],
                      IF enrolled[a].active THEN "queued" ELSE "done")
            /\ ready' = [ready EXCEPT ![t] = ~enrolled[a].unmet]
            /\ UNCHANGED <<enrolled, overtaken>>
    BY <1>1 DEF GrantArrive
  <2>2. /\ call'[t] = [kind |-> "grant", agent |-> a, type |-> g]
        /\ enrolled[a].active /\ ready'[t] => ~enrolled[a].unmet
    BY <1>t, <2>1
  <2>3. call'[t].agent = a
    BY <2>2
  <2>4. enrolled'[a] = enrolled[a]
    BY <2>1
  <2> QED
    BY <2>1, <2>2, <2>3, <2>4
<1>2. CASE RevokeArrive(t)
  <2>1. PICK a \in Agents, id \in Ids \cup {None} :
            call'[t] = [kind |-> "revoke", agent |-> a, id |-> id]
    BY <1>t, <1>2 DEF RevokeArrive
  <2> QED
    BY <2>1
<1>3. CASE pc[t] = "queued" /\ UNCHANGED <<call[t], ready[t]>>
  <2>1. IsKind(t, "grant") /\ ready[t] /\ call'[t].agent = call[t].agent /\ call[t].agent \in Agents
    BY <1>t, <1>3 DEF Calls
  <2>2. t \in overtaken \/ (/\ enrolled[call[t].agent] # None
                            /\ enrolled[call[t].agent].active /\ ~enrolled[call[t].agent].unmet)
    BY <1>3, <2>1 DEF IssuedInStanding
  <2>3. CASE EnrollmentChanges
    <3>1. PICK a \in Agents, e \in Enrollments :
            /\ enrolled' = [enrolled EXCEPT ![a] = e]
            /\ overtaken' = overtaken \cup {u \in Tasks : CanIssue(u) /\ call[u].agent = a}
      BY <2>3 DEF EnrollmentChanges
    <3> QED
      BY <1>t, <1>3, <2>1, <2>2, <3>1
  <2>4. CASE ~EnrollmentChanges
    <3>1. UNCHANGED enrolled /\ (t \in overtaken => t \in overtaken')
      BY <1>t, <2>4 DEF Next, vars, Tick, GrantArrive, GrantUnmet, GrantSave, GrantFail, GrantReply,
                  GrantCancel, RevokeArrive, RevokeType, RevokeFail, SessionArrive, SessionMatch,
                  SessionFind
    <3> QED
      BY <2>1, <2>2, <3>1
  <2> QED
    BY <2>3, <2>4
<1> QED
  BY <1>1, <1>2, <1>3, QueuedStays

\* A credential in the store is one that its grant answers for, and none is issued but on an
\* enrollment that is in order or has changed since the grant read it.
THEOREM NoStrays == Spec => []NoStrayCredential
<1>1. Init => IssuedInStanding
  BY DEF Init, IssuedInStanding
<1>2. IInv /\ IssuedInStanding /\ [Next]_vars => IssuedInStanding'
  BY StandingStep
<1>3. IInv /\ IssuedInStanding => NoStrayCredential
  BY DEF IInv, NoStrayCredential
<1> QED
  BY <1>1, <1>2, <1>3, CredentialInvariant, PTL DEF Spec

\* No step changes a credential but to revoke it.
LEMMA StepOnlyEnds ==
    ASSUME TypeOK, [Next]_vars
    PROVE  \A i \in Ids : creds[i] # None =>
                creds'[i] \in {creds[i], [creds[i] EXCEPT !.revoked = TRUE]}
<1>1. CASE \E t \in Tasks : GrantSave(t)
  <2>1. PICK t \in Tasks : GrantSave(t)
    BY <1>1
  <2>2. PICK i \in Ids : creds[i] = None /\ \E c : creds' = [creds EXCEPT ![i] = c]
    BY <2>1 DEF GrantSave, CanSave
  <2>3. \A j \in Ids \ {i} : creds'[j] = creds[j]
    BY <2>2 DEF TypeOK
  <2> QED
    BY <2>2, <2>3
<1>2. CASE \E t \in Tasks : RevokeType(t)
  BY <1>2 DEF RevokeType, Revoked
<1>3. CASE UNCHANGED creds
  BY <1>3
<1> QED
  BY <1>1, <1>2, <1>3 DEF Next, vars, EnrollmentChanges, Tick, GrantArrive, GrantUnmet,
        GrantFail, GrantReply, GrantCancel, RevokeArrive, RevokeFail,
        SessionArrive, SessionMatch, SessionFind

\* A credential is immutable but for its revocation, which is permanent.
THEOREM CredentialsEnd == Spec => CredentialsOnlyEnd
<1>1. TypeOK /\ [Next]_vars =>
        [\A i \in Ids : creds[i] # None =>
            creds'[i] \in {creds[i], [creds[i] EXCEPT !.revoked = TRUE]}]_vars
  BY StepOnlyEnds
<1>2. IInv => TypeOK
  BY DEF IInv
<1> QED
  BY <1>1, <1>2, CredentialInvariant, PTL DEF Spec, CredentialsOnlyEnd

=============================================================================
