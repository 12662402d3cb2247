---------------------------- MODULE AgentProofs ----------------------------
(***************************************************************************)
(* Proofs about the Agent.  Of AgentSession, for every number of calls and *)
(* clients and every set of identities and credentials; and of             *)
(* Introductions and OpenApi, for every set of Services, references,       *)
(* requests and OpenAPI documents that Encounters takes.                   *)
(***************************************************************************)
EXTENDS AgentSession, Encounters, WellFoundedInduction, SequenceTheorems,
        FiniteSetTheorems, TLAPS

----------------------------------------------------------------------------
(***************************************************************************)
(* Type correctness.                                                       *)
(***************************************************************************)

\* What a call has when it has got so far.
FrameOf(t) ==
    /\ pc[t] \in {"provisioned", "resolved"} => did[t] \in Dids
    /\ pc[t] = "granted" => subject[t] \in Ids
    /\ pc[t] = "idle" => subject[t] = None

Typed == TypeOK /\ \A t \in Tasks : FrameOf(t)

\* The initial state is well typed.
LEMMA InitTyped == Init => Typed
BY DEF Init, Typed, TypeOK, FrameOf, Steps, Selectors, Everything

\* What a call that gives up leaves behind.
GivenUp(t) ==
    CASE pc[t] = "revoked"  -> {i \in local : Covers(selector[t], i)}
      [] pc[t] = "deleting" -> listed[t]
      [] OTHER              -> {}

\* A call that is not about to delete leaves nothing.
LEMMA GivenUpIs ==
    ASSUME TypeOK, NEW t \in Tasks
    PROVE  /\ GivenUp(t) \subseteq Ids
           /\ pc[t] = "revoked" => GivenUp(t) = {i \in local : Covers(selector[t], i)}
           /\ pc[t] = "deleting" => GivenUp(t) = listed[t]
<1>1. CASE pc[t] = "revoked"
  BY <1>1 DEF GivenUp, TypeOK
<1>2. CASE pc[t] = "deleting"
  BY <1>2 DEF GivenUp, TypeOK
<1>3. CASE pc[t] \notin {"revoked", "deleting"}
  BY <1>3 DEF GivenUp, TypeOK
<1>4. QED
  BY <1>1, <1>2, <1>3

\* The steps of a call that resolve its identity keep the types.
LEMMA IdentityTyped ==
    ASSUME Typed, NEW t \in Tasks,
           \/ FindIdentity(t) \/ NoIdentity(t) \/ AskProvider(t) \/ Provision(t)
           \/ SaveIdentity(t) \/ Act(t)
    PROVE  Typed'
<1> USE DEF Goto, Typed, FrameOf, TypeOK, Steps, identityVars, credentialVars, callVars
<1>1. CASE FindIdentity(t)
  BY <1>1 DEF FindIdentity
<1>2. CASE NoIdentity(t)
  BY <1>2 DEF NoIdentity
<1>3. CASE AskProvider(t)
  BY <1>3 DEF AskProvider, Hold
<1>4. CASE Provision(t)
  BY <1>4 DEF Provision
<1>5. CASE SaveIdentity(t)
  BY <1>5 DEF SaveIdentity, Release
<1>6. CASE Act(t)
  BY <1>6 DEF Act
<1>7. QED
  BY <1>1, <1>2, <1>3, <1>4, <1>5, <1>6

\* So do those of a grant, a revoke and an authentication.
LEMMA CredentialTyped ==
    ASSUME Typed, NEW t \in Tasks,
           \/ Begin(t) \/ GiveUp(t)
           \/ Issue(t) \/ SaveCredential(t)
           \/ Revoke(t) \/ List(t) \/ Delete(t) \/ FinishRevoke(t)
           \/ FindCredential(t) \/ FindNone(t) \/ Present(t)
    PROVE  Typed'
<1> USE DEF Goto, Typed, FrameOf, TypeOK, Steps, identityVars, credentialVars, callVars
<1>s. Swept \subseteq Ids /\ Ended \subseteq Ids
  BY DEF Swept, Ended
<1>1. CASE Begin(t)
  BY <1>s, <1>1 DEF Begin, Kinds
<1>2. CASE GiveUp(t)
  <2>1. stray' = stray \cup GivenUp(t)
    BY <1>2 DEF GiveUp, GivenUp
  <2>2. stray' \subseteq Ids
    BY <2>1, GivenUpIs
  <2>3. /\ pc' = [pc EXCEPT ![t] = "done"]
        /\ lock' = [c \in Clients |-> IF lock[c] = t THEN None ELSE lock[c]]
        /\ UNCHANGED <<now, client, keeps, made, identity, issued, revoked, local, late, crossed,
                       kind, did, subject, selector, listed, ended, acted, shown>>
    BY <1>2 DEF GiveUp, Release
  <2>4. QED
    BY <2>2, <2>3
<1>3. CASE Issue(t)
  <2>1. PICK i \in Ids, g \in GrantTypes, l \in Lifetimes :
            /\ issued' = [issued EXCEPT ![i] = [type |-> g, expires |-> now + l]]
            /\ subject' = [subject EXCEPT ![t] = i]
    BY <1>3 DEF Issue
  <2>2. [type |-> g, expires |-> now + l] \in Credentials
    BY SessionSets DEF Credentials
  <2>3. QED
    BY <1>3, <2>1, <2>2 DEF Issue
<1>4. CASE SaveCredential(t)
  <2>1. subject[t] \in Ids
    BY <1>4 DEF SaveCredential
  <2>2. local' \subseteq Ids /\ late' \subseteq Ids /\ crossed' \subseteq Ids
    BY <1>4, <2>1 DEF SaveCredential
  <2>3. QED
    BY <1>4, <2>2 DEF SaveCredential
<1>5. CASE Revoke(t)
  BY <1>5 DEF Revoke
<1>6. CASE List(t)
  BY <1>s, <1>6 DEF List
<1>7. CASE Delete(t)
  BY <1>7 DEF Delete
<1>8. CASE FinishRevoke(t)
  BY <1>8 DEF FinishRevoke
<1>9. CASE FindCredential(t)
  BY <1>s, <1>9 DEF FindCredential
<1>10. CASE FindNone(t)
  BY <1>s, <1>10 DEF FindNone
<1>11. CASE Present(t)
  BY <1>11 DEF Present
<1>12. QED
  BY <1>1, <1>2, <1>3, <1>4, <1>5, <1>6, <1>7, <1>8, <1>9, <1>10, <1>11

\* Every step keeps the types.
LEMMA NextTyped == Typed /\ [Next]_vars => Typed'
<1> SUFFICES ASSUME Typed, [Next]_vars PROVE Typed'
  OBVIOUS
<1>1. CASE Tick \/ (\E i \in Ids : Forget(i)) \/ UNCHANGED vars
  BY <1>1 DEF Tick, Forget, vars, Typed, FrameOf, TypeOK, identityVars, credentialVars, callVars
<1>2. QED
  BY <1>1, IdentityTyped, CredentialTyped DEF Next, Call

----------------------------------------------------------------------------
(***************************************************************************)
(* One identity.  The lock of a client is held from the lookup to the      *)
(* save, so a provider that makes another identity each time is asked only *)
(* while none is stored.                                                   *)
(***************************************************************************)

Provisioning(t) == pc[t] \in {"provisioning", "provisioned"}

CallOK(t) ==
    /\ Provisioning(t) => lock[client[t]] = t /\ (~keeps => identity = None)
    /\ pc[t] = "provisioned" => did[t] \in made
    /\ pc[t] = "resolved" => did[t] = identity /\ identity # None

StoreOK ==
    /\ keeps \/ \A t, u \in Tasks : client[t] = client[u]
    /\ keeps => \A d, e \in made : d = e
    /\ identity # None => identity \in made
    /\ \A d \in acted : d = identity /\ identity # None

IdentityInv == StoreOK /\ \A t \in Tasks : CallOK(t)

\* At first there is no identity.
LEMMA InitIdentity == Init => IdentityInv
BY DEF Init, IdentityInv, StoreOK, CallOK, Provisioning

\* Steps that are not about the identity, which a call may leave.
LEMMA QuietIdentity ==
    ASSUME IdentityInv, UNCHANGED <<client, keeps, made, identity, acted, did>>,
           \A u \in Tasks :
             pc'[u] \in {"provisioning", "provisioned", "resolved"} =>
                pc'[u] = pc[u] /\ (lock[client[u]] = u => lock'[client[u]] = u)
    PROVE  IdentityInv'
BY DEF IdentityInv, StoreOK, CallOK, Provisioning

\* The steps of a call that resolve its identity and act on it.
LEMMA IdentityStep ==
    ASSUME Typed, IdentityInv, NEW t \in Tasks,
           \/ FindIdentity(t) \/ AskProvider(t) \/ Provision(t) \/ SaveIdentity(t) \/ Act(t)
    PROVE  IdentityInv'
<1>t. /\ client \in [Tasks -> Clients] /\ did \in [Tasks -> Dids \cup {None}]
      /\ pc \in [Tasks -> Steps] /\ lock \in [Clients -> Tasks \cup {None}]
      /\ None \notin Tasks /\ None \notin Dids /\ did[t] \in Dids \cup {None}
  BY NoneIsNothing DEF Typed, TypeOK
<1>1. CASE FindIdentity(t)
  <2>1. UNCHANGED <<client, keeps, made, identity, lock, acted>> /\ identity # None
    BY <1>1 DEF FindIdentity, identityVars
  <2>2. CallOK(t)'
    BY <1>t, <1>1 DEF FindIdentity, Goto, CallOK, Provisioning, identityVars
  <2>3. ASSUME NEW u \in Tasks \ {t} PROVE CallOK(u)'
    BY <1>t, <1>1 DEF FindIdentity, Goto, IdentityInv, CallOK, Provisioning, identityVars
  <2>4. QED
    BY <2>1, <2>2, <2>3 DEF IdentityInv, StoreOK
<1>2. CASE AskProvider(t)
  <2>1. UNCHANGED <<client, keeps, made, identity, did, acted>> /\ identity = None
    BY <1>2 DEF AskProvider, callVars
  <2>2. CallOK(t)'
    BY <1>t, <1>2 DEF AskProvider, Goto, Hold, CallOK, Provisioning
  <2>3. ASSUME NEW u \in Tasks \ {t} PROVE CallOK(u)'
    BY <1>t, <1>2, <2>1 DEF AskProvider, Goto, Hold, IdentityInv, CallOK, Provisioning
  <2>4. QED
    BY <2>1, <2>2, <2>3 DEF IdentityInv, StoreOK
<1>3. CASE Provision(t)
  <2>1. PICK d \in Dids :
            /\ keeps /\ made # {} => d \in made
            /\ made' = made \cup {d}
            /\ did' = [did EXCEPT ![t] = d]
    BY <1>3 DEF Provision
  <2>2. UNCHANGED <<client, keeps, identity, lock, acted>> /\ pc[t] = "provisioning"
        /\ pc' = [pc EXCEPT ![t] = "provisioned"]
    BY <1>3 DEF Provision, Goto
  <2>3. StoreOK'
    BY <2>1, <2>2 DEF IdentityInv, StoreOK
  <2>4. CallOK(t)'
    BY <1>t, <2>1, <2>2 DEF IdentityInv, CallOK, Provisioning
  <2>5. ASSUME NEW u \in Tasks \ {t} PROVE CallOK(u)'
    BY <1>t, <2>1, <2>2 DEF IdentityInv, CallOK, Provisioning
  <2>6. QED
    BY <2>3, <2>4, <2>5 DEF IdentityInv
<1>4. CASE SaveIdentity(t)
  <2>1. /\ UNCHANGED <<client, keeps, made, did, acted>> /\ pc[t] = "provisioned"
        /\ pc' = [pc EXCEPT ![t] = "resolved"] /\ identity' = did[t]
        /\ lock' = [c \in Clients |-> IF lock[c] = t THEN None ELSE lock[c]]
    BY <1>4, <1>t DEF SaveIdentity, Goto, Release, callVars
  <2>2. did[t] \in made /\ did[t] # None
    BY <1>t, <2>1 DEF IdentityInv, CallOK, Typed, FrameOf
  <2>3. identity # None => keeps /\ did[t] = identity
    BY <2>1, <2>2 DEF IdentityInv, StoreOK, CallOK, Provisioning
  <2>4. StoreOK'
    BY <2>1, <2>2, <2>3 DEF IdentityInv, StoreOK
  <2>5. CallOK(t)'
    BY <1>t, <2>1, <2>2 DEF CallOK, Provisioning
  <2>6. ASSUME NEW u \in Tasks \ {t} PROVE CallOK(u)'
    <3>1. pc'[u] = pc[u] /\ lock[client[t]] = t
      BY <1>t, <2>1 DEF IdentityInv, CallOK, Provisioning
    <3>2. CASE Provisioning(u)
      <4>1. lock[client[u]] = u /\ client[u] # client[t]
        BY <2>6, <3>1, <3>2 DEF IdentityInv, CallOK
      <4>2. keeps
        BY <4>1 DEF IdentityInv, StoreOK
      <4>3. QED
        BY <1>t, <2>1, <2>6, <3>1, <3>2, <4>1, <4>2 DEF IdentityInv, CallOK, Provisioning
    <3>3. CASE ~Provisioning(u)
      BY <2>1, <2>3, <3>1, <3>3 DEF IdentityInv, CallOK, Provisioning
    <3>4. QED
      BY <3>2, <3>3
  <2>7. QED
    BY <2>4, <2>5, <2>6 DEF IdentityInv
<1>5. CASE Act(t)
  <2>1. /\ UNCHANGED <<client, keeps, made, identity, lock, did>> /\ pc[t] = "resolved"
        /\ acted' = acted \cup {did[t]}
        /\ pc'[t] \in {"done", "granting", "revoking"}
        /\ \A u \in Tasks \ {t} : pc'[u] = pc[u]
    BY <1>5, <1>t DEF Act, Goto, identityVars, callVars
  <2>2. did[t] = identity /\ identity # None
    BY <2>1 DEF IdentityInv, CallOK
  <2>3. QED
    BY <2>1, <2>2 DEF IdentityInv, StoreOK, CallOK, Provisioning
<1>6. QED
  BY <1>1, <1>2, <1>3, <1>4, <1>5

\* Every step keeps the identity.
LEMMA NextIdentity == Typed /\ IdentityInv /\ [Next]_vars => IdentityInv'
<1> SUFFICES ASSUME Typed, IdentityInv, [Next]_vars PROVE IdentityInv'
  OBVIOUS
<1>t. /\ pc \in [Tasks -> Steps] /\ client \in [Tasks -> Clients]
      /\ lock \in [Clients -> Tasks \cup {None}]
  BY DEF Typed, TypeOK
<1>1. CASE Tick \/ (\E i \in Ids : Forget(i)) \/ UNCHANGED vars
  BY <1>1, QuietIdentity DEF Tick, Forget, vars, identityVars, callVars
<1>2. ASSUME NEW t \in Tasks,
             Begin(t) \/ NoIdentity(t) \/ Issue(t) \/ SaveCredential(t) \/ Revoke(t) \/ List(t)
      PROVE  IdentityInv'
  BY <1>t, <1>2, QuietIdentity
     DEF Begin, NoIdentity, Issue, SaveCredential, Revoke, List, Goto, identityVars, callVars
<1>3. ASSUME NEW t \in Tasks,
             Delete(t) \/ FinishRevoke(t) \/ FindCredential(t) \/ FindNone(t) \/ Present(t)
      PROVE  IdentityInv'
  BY <1>t, <1>3, QuietIdentity
     DEF Delete, FinishRevoke, FindCredential, FindNone, Present, Goto, identityVars, callVars
<1>4. ASSUME NEW t \in Tasks, GiveUp(t) PROVE IdentityInv'
  BY <1>t, <1>4, QuietIdentity DEF GiveUp, Goto, Release, callVars
<1>5. QED
  BY <1>1, <1>2, <1>3, <1>4, IdentityStep DEF Next, Call

----------------------------------------------------------------------------
(***************************************************************************)
(* Credentials.  What the Service has revoked and the store still holds is *)
(* covered by a revoke that has yet to delete it, by name; what a revoke   *)
(* is to delete has been revoked, or was not there to be.                  *)
(***************************************************************************)

Known ==
    /\ \A i \in local \cup revoked : issued[i] # None
    /\ \A t \in Tasks : subject[t] # None => issued[subject[t]] # None

\* a revoke has yet to delete the credential
Deleting(t, i) ==
    /\ Covers(selector[t], i)
    /\ pc[t] = "revoked" \/ (pc[t] = "deleting" /\ i \in listed[t])

Leftovers ==
    \A i \in local \cap revoked : i \in late \cup stray \/ \E t \in Tasks : Deleting(t, i)

Losable(i) == i \in revoked \cup crossed

RevokeOK(t) ==
    /\ pc[t] = "revoked" => \A i \in local : Covers(selector[t], i) => Losable(i)
    /\ pc[t] = "deleting" => \A i \in listed[t] : Losable(i) \/ selector[t].id = i

EndedOK(t) == ended[t] \subseteq revoked /\ ended[t] \cap local \subseteq late \cup stray

PresentOK(t) ==
    /\ pc[t] \in {"presenting", "presented"} /\ subject[t] # None =>
        subject[t] \notin ended[t] \ (late \cup stray)
    /\ pc[t] = "presented" => subject[t] # None /\ issued[subject[t]].expires > shown[t]

CredentialInv ==
    /\ Known /\ Leftovers
    /\ \A t \in Tasks : RevokeOK(t) /\ EndedOK(t) /\ PresentOK(t)

\* What no step undoes.
Lasting ==
    /\ \A i : issued[i] # None => issued'[i] = issued[i]
    /\ revoked \subseteq revoked' /\ crossed \subseteq crossed'
    /\ late \subseteq late' /\ stray \subseteq stray'

\* At first nothing has been issued.
LEMMA InitCredentials == Init => CredentialInv
BY DEF Init, CredentialInv, Known, Leftovers, RevokeOK, EndedOK, PresentOK

\* A credential that exists is covered as long as it is.
LEMMA CoversStays ==
    ASSUME Lasting, NEW i, issued[i] # None, NEW s
    PROVE  Covers(s, i)' <=> Covers(s, i)
BY DEF Lasting, Covers

\* Nothing that was issued, revoked or explained is undone.
LEMMA NextLasting == Typed /\ [Next]_vars => Lasting
<1> SUFFICES ASSUME Typed, [Next]_vars PROVE Lasting
  OBVIOUS
<1>t. issued \in [Ids -> Credentials \cup {None}] /\ \A t \in Tasks : GivenUp(t) \subseteq Ids
  BY GivenUpIs DEF Typed, TypeOK
<1>1. CASE Tick \/ (\E i \in Ids : Forget(i)) \/ UNCHANGED vars
  BY <1>1 DEF Tick, Forget, vars, credentialVars, Lasting
<1>2. ASSUME NEW t \in Tasks,
             \/ Begin(t) \/ FindIdentity(t) \/ NoIdentity(t) \/ AskProvider(t) \/ Provision(t)
             \/ SaveIdentity(t) \/ Act(t) \/ FinishRevoke(t) \/ Present(t)
      PROVE  Lasting
  BY <1>2 DEF Begin, FindIdentity, NoIdentity, AskProvider, Provision, SaveIdentity, Act,
              FinishRevoke, Present, credentialVars, Lasting
<1>3. ASSUME NEW t \in Tasks, Revoke(t) \/ List(t) \/ Delete(t) \/ FindCredential(t) \/ FindNone(t)
      PROVE  Lasting
  BY <1>3 DEF Revoke, List, Delete, FindCredential, FindNone, Lasting
<1>4. ASSUME NEW t \in Tasks, Issue(t) PROVE Lasting
  BY <1>t, <1>4 DEF Issue, Lasting
<1>5. ASSUME NEW t \in Tasks, SaveCredential(t) PROVE Lasting
  BY <1>5 DEF SaveCredential, Lasting
<1>6. ASSUME NEW t \in Tasks, GiveUp(t) PROVE Lasting
  BY <1>6 DEF GiveUp, GivenUp, Lasting
<1>7. QED
  BY <1>1, <1>2, <1>3, <1>4, <1>5, <1>6 DEF Next, Call

\* A revoke that is where it was still has to delete what it had to, and may.
LEMMA RevokesStay ==
    ASSUME Lasting, Known, NEW t \in Tasks, RevokeOK(t),
           pc'[t] \in {"revoked", "deleting"} =>
                pc'[t] = pc[t] /\ UNCHANGED selector[t] /\ listed'[t] \subseteq listed[t],
           pc[t] = "revoked" =>
                \A i \in local' \ local : Covers(selector[t], i)' => i \in crossed'
    PROVE  RevokeOK(t)'
<1>1. \A i : Losable(i) => Losable(i)'
  BY DEF Lasting, Losable
<1>2. CASE pc'[t] = "revoked"
  <2>1. ASSUME NEW i \in local', Covers(selector[t], i)' PROVE Losable(i)'
    <3>1. CASE i \in local
      <4>1. Covers(selector[t], i)
        BY <1>2, <2>1, <3>1, CoversStays DEF Known, Covers
      <4>2. QED
        BY <1>1, <1>2, <3>1, <4>1 DEF RevokeOK
    <3>2. CASE i \notin local
      BY <1>2, <2>1, <3>2 DEF Losable
    <3>3. QED
      BY <3>1, <3>2
  <2>2. QED
    BY <1>2, <2>1 DEF RevokeOK
<1>3. CASE pc'[t] = "deleting"
  BY <1>1, <1>3 DEF RevokeOK
<1>4. QED
  BY <1>2, <1>3 DEF RevokeOK

\* What ended before a call stays so, unless it is stored again.
LEMMA EndedStays ==
    ASSUME Lasting, NEW t \in Tasks, EndedOK(t), UNCHANGED ended[t],
           local' \cap revoked \subseteq local \cup late'
    PROVE  EndedOK(t)'
BY DEF Lasting, EndedOK

\* What a request is given stays usable for it.
LEMMA PresentStays ==
    ASSUME Lasting, Known, NEW t \in Tasks, PresentOK(t),
           pc'[t] \in {"presenting", "presented"} =>
                pc'[t] = pc[t] /\ UNCHANGED <<subject[t], ended[t], shown[t]>>
    PROVE  PresentOK(t)'
BY DEF Lasting, Known, PresentOK

\* A leftover stays explained while the revokes that are to delete it are where they
\* were, or done with it.
LEMMA LeftoversStay ==
    ASSUME Lasting, Known, Leftovers,
           \A i \in local' \cap revoked' :
             /\ i \in local \cap revoked \/ i \in late' \/ \E t \in Tasks : Deleting(t, i)'
             /\ \A t \in Tasks : Deleting(t, i) => Deleting(t, i)' \/ i \in stray'
    PROVE  Leftovers'
BY DEF Lasting, Leftovers

\* A revoke that does not move has to delete what it had to.
LEMMA DeletingStays ==
    ASSUME Lasting, NEW i, issued[i] # None, NEW t \in Tasks, Deleting(t, i),
           pc'[t] = pc[t], UNCHANGED selector[t], i \in listed[t] => i \in listed'[t]
    PROVE  Deleting(t, i)'
<1>1. Covers(selector[t], i)'
  BY CoversStays DEF Deleting, Covers
<1>2. QED
  BY <1>1 DEF Deleting

\* Steps that leave the credentials and the calls that are about them alone.
LEMMA QuietCredentials ==
    ASSUME Typed, CredentialInv, Lasting, UNCHANGED <<credentialVars, selector, listed, subject, ended, shown>>,
           \A u \in Tasks : pc'[u] = pc[u] \/
                {pc[u], pc'[u]} \cap {"revoked", "deleting", "presenting", "presented"} = {}
    PROVE  CredentialInv'
<1>1. Known'
  BY DEF CredentialInv, Known, credentialVars
<1>2. \A u \in Tasks :
        pc'[u] \in {"revoked", "deleting", "presenting", "presented"} => pc'[u] = pc[u]
  OBVIOUS
<1>3. \A t \in Tasks : RevokeOK(t)' /\ EndedOK(t)' /\ PresentOK(t)'
  BY <1>2, RevokesStay, EndedStays, PresentStays DEF CredentialInv, credentialVars
<1>4. Leftovers'
  <2>1. ASSUME NEW i \in local \cap revoked, NEW t \in Tasks, Deleting(t, i) PROVE Deleting(t, i)'
    <3>1. issued[i] # None /\ pc'[t] = pc[t]
      BY <2>1 DEF CredentialInv, Known, Deleting
    <3>2. QED
      BY <2>1, <3>1, DeletingStays
  <2>2. QED
    BY <2>1, LeftoversStay DEF CredentialInv, credentialVars
<1>5. QED
  BY <1>1, <1>3, <1>4 DEF CredentialInv

\* A call begins: what completed revokes covered is not in the store.
LEMMA BeginStep ==
    ASSUME Typed, CredentialInv, Lasting, NEW t \in Tasks, Begin(t)
    PROVE  CredentialInv'
<1>t. /\ pc \in [Tasks -> Steps] /\ selector \in [Tasks -> Selectors]
      /\ ended \in [Tasks -> SUBSET Ids] /\ listed \in [Tasks -> SUBSET Ids]
  BY DEF Typed, TypeOK
<1>1. /\ pc[t] = "idle" /\ pc'[t] \in {"presenting", "locking"} /\ subject[t] = None
      /\ UNCHANGED <<issued, revoked, local, late, crossed, stray, subject, listed, shown>>
      /\ ended' = [ended EXCEPT ![t] = Ended]
      /\ \A u \in Tasks \ {t} : pc'[u] = pc[u] /\ selector'[u] = selector[u] /\ ended'[u] = ended[u]
  BY <1>t DEF Begin, Goto, Typed, FrameOf, credentialVars
<1>2. Known'
  BY <1>1 DEF CredentialInv, Known
<1>3. ASSUME NEW u \in Tasks \ {t} PROVE RevokeOK(u)' /\ EndedOK(u)' /\ PresentOK(u)'
  BY <1>1, <1>3, RevokesStay, EndedStays, PresentStays DEF CredentialInv
<1>4. RevokeOK(t)' /\ PresentOK(t)'
  BY <1>1 DEF RevokeOK, PresentOK
<1>5. EndedOK(t)'
  <2>1. Ended \subseteq revoked
    BY DEF Ended
  <2>2. ASSUME NEW i \in Ended \cap local PROVE FALSE
    <3>1. i \notin late \cup stray
      BY <2>2 DEF Ended
    <3>2. PICK u \in Tasks : Deleting(u, i)
      BY <2>1, <2>2, <3>1 DEF CredentialInv, Leftovers
    <3>3. QED
      BY <2>2, <3>2 DEF Ended, Deleting
  <2>3. ended'[t] = Ended
    BY <1>t, <1>1
  <2>4. QED
    BY <1>1, <2>1, <2>2, <2>3 DEF EndedOK
<1>6. Leftovers'
  <2>1. ASSUME NEW i \in local \cap revoked, NEW u \in Tasks, Deleting(u, i) PROVE Deleting(u, i)'
    <3>1. issued[i] # None /\ u # t
      BY <1>1, <2>1 DEF CredentialInv, Known, Deleting
    <3>2. QED
      BY <1>1, <2>1, <3>1, DeletingStays
  <2>2. QED
    BY <1>1, <2>1, LeftoversStay DEF CredentialInv
<1>7. QED
  BY <1>2, <1>3, <1>4, <1>5, <1>6 DEF CredentialInv

\* The Service issues a credential it has not issued before.
LEMMA IssueStep ==
    ASSUME Typed, CredentialInv, Lasting, NEW t \in Tasks, Issue(t)
    PROVE  CredentialInv'
<1>1. PICK i \in Ids, c \in Credentials :
        /\ issued[i] = None /\ issued' = [issued EXCEPT ![i] = c]
        /\ subject' = [subject EXCEPT ![t] = i]
  <2>1. PICK i \in Ids, g \in GrantTypes, l \in Lifetimes :
            /\ issued[i] = None
            /\ issued' = [issued EXCEPT ![i] = [type |-> g, expires |-> now + l]]
            /\ subject' = [subject EXCEPT ![t] = i]
    BY DEF Issue
  <2>2. [type |-> g, expires |-> now + l] \in Credentials
    BY SessionSets DEF Credentials, Typed, TypeOK
  <2>3. QED
    BY <2>1, <2>2
<1>t. /\ pc \in [Tasks -> Steps] /\ subject \in [Tasks -> Ids \cup {None}]
      /\ issued \in [Ids -> Credentials \cup {None}] /\ local \subseteq Ids /\ revoked \subseteq Ids
  BY DEF Typed, TypeOK
<1>2. /\ UNCHANGED <<revoked, local, late, crossed, stray, selector, listed, ended, shown>>
      /\ pc[t] = "granting" /\ pc'[t] = "granted"
      /\ \A u \in Tasks \ {t} : pc'[u] = pc[u] /\ subject'[u] = subject[u]
  BY <1>t, <1>1 DEF Issue, Goto
<1>3. Known'
  BY <1>t, <1>1, <1>2, NoneIsNoCredential DEF CredentialInv, Known, Lasting
<1>4. ASSUME NEW u \in Tasks PROVE RevokeOK(u)' /\ EndedOK(u)' /\ PresentOK(u)'
  BY <1>2, <1>4, RevokesStay, EndedStays, PresentStays DEF CredentialInv
<1>5. Leftovers'
  <2>1. ASSUME NEW j \in local \cap revoked, NEW u \in Tasks, Deleting(u, j) PROVE Deleting(u, j)'
    <3>1. issued[j] # None /\ u # t
      BY <1>2, <2>1 DEF CredentialInv, Known, Deleting
    <3>2. QED
      BY <1>2, <2>1, <3>1, DeletingStays
  <2>2. QED
    BY <1>2, <2>1, LeftoversStay DEF CredentialInv
<1>6. QED
  BY <1>3, <1>4, <1>5 DEF CredentialInv

\* A grant saves what it was given, late or across a revoke perhaps.
LEMMA SaveCredentialStep ==
    ASSUME Typed, CredentialInv, Lasting, NEW t \in Tasks, SaveCredential(t)
    PROVE  CredentialInv'
<1>t. pc \in [Tasks -> Steps] /\ subject[t] \in Ids
  BY DEF Typed, TypeOK, FrameOf, SaveCredential, Goto
<1>1. /\ UNCHANGED <<issued, revoked, stray, subject, selector, listed, ended, shown>>
      /\ pc[t] = "granted" /\ pc'[t] = "done"
      /\ \A u \in Tasks \ {t} : pc'[u] = pc[u]
      /\ local \subseteq local' /\ local' \subseteq local \cup {subject[t]}
  BY <1>t DEF SaveCredential, Goto, callVars
<1>2. local' \cap revoked \subseteq local \cup late'
  BY <1>t DEF SaveCredential
<1>3. \A u \in Tasks : pc[u] = "revoked" =>
        \A i \in local' \ local : Covers(selector[u], i)' => i \in crossed'
  BY <1>t, <1>1 DEF SaveCredential, Covers
<1>4. Known'
  <2>1. subject[t] # None
    BY <1>t, NoneIsNothing
  <2>2. QED
    BY <1>1, <2>1 DEF CredentialInv, Known
<1>5. ASSUME NEW u \in Tasks PROVE RevokeOK(u)' /\ EndedOK(u)' /\ PresentOK(u)'
  BY <1>1, <1>2, <1>3, <1>5, RevokesStay, EndedStays, PresentStays DEF CredentialInv
<1>6. Leftovers'
  <2>1. ASSUME NEW i \in local' \cap revoked, NEW u \in Tasks, Deleting(u, i) PROVE Deleting(u, i)'
    <3>1. issued[i] # None /\ u # t
      BY <1>1, <2>1 DEF CredentialInv, Known, Deleting
    <3>2. QED
      BY <1>1, <2>1, <3>1, DeletingStays
  <2>2. QED
    BY <1>1, <1>2, <2>1, LeftoversStay DEF CredentialInv
<1>7. QED
  BY <1>4, <1>5, <1>6 DEF CredentialInv

\* The Service revokes: every credential that it covers is then to be deleted.
LEMMA RevokeStep ==
    ASSUME Typed, CredentialInv, Lasting, NEW t \in Tasks, Revoke(t)
    PROVE  CredentialInv'
<1>t. pc \in [Tasks -> Steps] /\ local \subseteq Ids
  BY DEF Typed, TypeOK
<1>1. /\ UNCHANGED <<issued, local, late, crossed, stray, subject, selector, listed, ended, shown>>
      /\ pc[t] = "revoking" /\ pc'[t] = "revoked"
      /\ \A u \in Tasks \ {t} : pc'[u] = pc[u]
      /\ revoked' = revoked \cup {i \in Ids : issued[i] # None /\ Covers(selector[t], i)}
  BY <1>t DEF Revoke, Goto, callVars
<1>c. \A i : Covers(selector[t], i)' <=> Covers(selector[t], i)
  BY <1>1 DEF Covers
<1>2. Known'
  BY <1>1 DEF CredentialInv, Known
<1>3. ASSUME NEW u \in Tasks \ {t} PROVE RevokeOK(u)'
  BY <1>1, <1>3, RevokesStay DEF CredentialInv
<1>4. RevokeOK(t)'
  BY <1>t, <1>1, <1>c DEF CredentialInv, Known, RevokeOK, Losable
<1>5. ASSUME NEW u \in Tasks PROVE EndedOK(u)' /\ PresentOK(u)'
  BY <1>1, <1>5, EndedStays, PresentStays DEF CredentialInv
<1>6. Leftovers'
  <2>1. ASSUME NEW i \in local, NEW u \in Tasks, Deleting(u, i) PROVE Deleting(u, i)'
    <3>1. issued[i] # None /\ u # t
      BY <1>1, <2>1 DEF CredentialInv, Known, Deleting
    <3>2. QED
      BY <1>1, <2>1, <3>1, DeletingStays
  <2>2. \A i \in revoked' \ revoked : Deleting(t, i)'
    BY <1>1, <1>c DEF Deleting
  <2>3. QED
    BY <1>1, <2>1, <2>2, LeftoversStay DEF CredentialInv
<1>7. QED
  BY <1>2, <1>3, <1>4, <1>5, <1>6 DEF CredentialInv

\* What the Service covers is deleted.
LEMMA CoveredIsDeleted ==
    ASSUME NEW s, NEW i, Covers(s, i)
    PROVE  Deletes(s, i)
BY DEF Covers, Deletes

\* A revoke lists what it is to delete.
LEMMA ListStep ==
    ASSUME Typed, CredentialInv, Lasting, NEW t \in Tasks, List(t)
    PROVE  CredentialInv'
<1>t. pc \in [Tasks -> Steps] /\ listed \in [Tasks -> SUBSET Ids] /\ Swept \subseteq local
  BY DEF Typed, TypeOK, Swept
<1>1. /\ UNCHANGED <<issued, revoked, late, crossed, stray, subject, selector, ended, shown>>
      /\ pc[t] = "revoked" /\ pc'[t] = "deleting" /\ local' = Swept
      /\ \A u \in Tasks \ {t} : pc'[u] = pc[u] /\ listed'[u] = listed[u]
      /\ listed'[t] = {i \in Swept : Deletes(selector[t], i)}
  BY <1>t DEF List, Goto
<1>c. \A i : Covers(selector[t], i)' <=> Covers(selector[t], i)
  BY <1>1 DEF Covers
<1>2. Known'
  BY <1>t, <1>1 DEF CredentialInv, Known
<1>3. ASSUME NEW u \in Tasks \ {t} PROVE RevokeOK(u)'
  BY <1>t, <1>1, <1>3, RevokesStay DEF CredentialInv
<1>4. RevokeOK(t)'
  <2>1. \A i \in Swept : Covers(selector[t], i) => Losable(i)
    BY <1>t, <1>1 DEF CredentialInv, RevokeOK
  <2>2. ASSUME NEW i \in listed'[t] PROVE Losable(i) \/ selector[t].id = i
    BY <1>1, <2>1, <2>2 DEF Deletes, Covers
  <2>3. QED
    BY <1>1, <2>2 DEF RevokeOK, Losable
<1>5. ASSUME NEW u \in Tasks PROVE EndedOK(u)' /\ PresentOK(u)'
  BY <1>t, <1>1, <1>5, EndedStays, PresentStays DEF CredentialInv
<1>6. Leftovers'
  <2>1. ASSUME NEW i \in Swept \cap revoked, NEW u \in Tasks, Deleting(u, i) PROVE Deleting(u, i)'
    <3>1. CASE u = t
      BY <1>1, <1>c, <2>1, <3>1, CoveredIsDeleted DEF Deleting
    <3>2. CASE u # t
      <4>1. issued[i] # None
        BY <2>1 DEF CredentialInv, Known
      <4>2. QED
        BY <1>1, <2>1, <3>2, <4>1, DeletingStays
    <3>3. QED
      BY <3>1, <3>2
  <2>2. QED
    BY <1>t, <1>1, <2>1, LeftoversStay DEF CredentialInv
<1>7. QED
  BY <1>2, <1>3, <1>4, <1>5, <1>6 DEF CredentialInv

\* The store loses a credential, or those that have expired, and a revoke may have
\* one less to delete.
LEMMA LessStored ==
    ASSUME Typed, CredentialInv, Lasting,
           UNCHANGED <<issued, revoked, late, crossed, stray, pc, subject, selector, ended, shown>>,
           local' \subseteq local,
           \A u \in Tasks : listed'[u] \subseteq listed[u] /\ listed[u] \cap local' \subseteq listed'[u]
    PROVE  CredentialInv'
<1>1. Known'
  BY DEF CredentialInv, Known
<1>2. ASSUME NEW u \in Tasks PROVE RevokeOK(u)' /\ EndedOK(u)' /\ PresentOK(u)'
  BY <1>2, RevokesStay, EndedStays, PresentStays DEF CredentialInv
<1>3. Leftovers'
  <2>1. ASSUME NEW i \in local' \cap revoked, NEW u \in Tasks, Deleting(u, i) PROVE Deleting(u, i)'
    <3>1. issued[i] # None
      BY <2>1 DEF CredentialInv, Known
    <3>2. QED
      BY <2>1, <3>1, DeletingStays
  <2>2. QED
    BY <2>1, LeftoversStay DEF CredentialInv
<1>4. QED
  BY <1>1, <1>2, <1>3 DEF CredentialInv

\* A revoke ends when it has nothing left to delete.
LEMMA FinishRevokeStep ==
    ASSUME Typed, CredentialInv, Lasting, NEW t \in Tasks, FinishRevoke(t)
    PROVE  CredentialInv'
<1>t. pc \in [Tasks -> Steps]
  BY DEF Typed, TypeOK
<1>1. /\ UNCHANGED <<issued, revoked, local, late, crossed, stray, subject, selector, listed, ended, shown>>
      /\ pc[t] = "deleting" /\ listed[t] = {} /\ pc'[t] = "done"
      /\ \A u \in Tasks \ {t} : pc'[u] = pc[u]
  BY <1>t DEF FinishRevoke, Goto, credentialVars, callVars
<1>2. Known'
  BY <1>1 DEF CredentialInv, Known
<1>3. ASSUME NEW u \in Tasks PROVE RevokeOK(u)' /\ EndedOK(u)' /\ PresentOK(u)'
  BY <1>1, <1>3, RevokesStay, EndedStays, PresentStays DEF CredentialInv
<1>4. Leftovers'
  <2>1. ASSUME NEW i \in local \cap revoked, NEW u \in Tasks, Deleting(u, i) PROVE Deleting(u, i)'
    <3>1. issued[i] # None /\ u # t
      BY <1>1, <2>1 DEF CredentialInv, Known, Deleting
    <3>2. QED
      BY <1>1, <2>1, <3>1, DeletingStays
  <2>2. QED
    BY <1>1, <2>1, LeftoversStay DEF CredentialInv
<1>5. QED
  BY <1>2, <1>3, <1>4 DEF CredentialInv

\* A request is given a credential of the store, or presents what it was given.
LEMMA AuthenticationStep ==
    ASSUME Typed, CredentialInv, Lasting, NEW t \in Tasks,
           FindCredential(t) \/ FindNone(t) \/ Present(t)
    PROVE  CredentialInv'
<1>t. /\ pc \in [Tasks -> Steps] /\ subject \in [Tasks -> Ids \cup {None}] /\ shown \in [Tasks -> Nat]
      /\ Swept \subseteq local /\ local \subseteq Ids
  BY DEF Typed, TypeOK, Swept
<1>1. /\ UNCHANGED <<issued, revoked, late, crossed, stray, selector, listed, ended>>
      /\ pc[t] = "presenting" /\ pc'[t] \in {"presenting", "presented", "locking", "done"}
      /\ \A u \in Tasks \ {t} : pc'[u] = pc[u] /\ subject'[u] = subject[u] /\ shown'[u] = shown[u]
      /\ local' \subseteq local
  BY <1>t DEF FindCredential, FindNone, Present, Goto, credentialVars, callVars
<1>2. subject'[t] \in local \/ subject'[t] = subject[t]
  BY <1>t DEF FindCredential, FindNone, Present, callVars
<1>3. Known'
  BY <1>t, <1>1, <1>2 DEF CredentialInv, Known
<1>4. ASSUME NEW u \in Tasks PROVE RevokeOK(u)' /\ EndedOK(u)'
  BY <1>1, <1>4, RevokesStay, EndedStays DEF CredentialInv
<1>5. ASSUME NEW u \in Tasks \ {t} PROVE PresentOK(u)'
  BY <1>1, <1>5, PresentStays DEF CredentialInv
<1>6. PresentOK(t)'
  <2>1. subject[t] # None => subject[t] \notin ended[t] \ (late \cup stray)
    BY <1>1 DEF CredentialInv, PresentOK
  <2>2. \A i \in local : i \notin ended[t] \ (late \cup stray)
    BY DEF CredentialInv, EndedOK
  <2>3. pc'[t] = "presented" =>
            subject'[t] = subject[t] /\ subject[t] # None
            /\ issued[subject[t]].expires > now /\ shown'[t] = now
    BY <1>t, <1>1 DEF FindCredential, FindNone, Present, Goto, Unexpired, callVars
  <2>4. QED
    BY <1>1, <1>2, <2>1, <2>2, <2>3 DEF PresentOK
<1>7. Leftovers'
  <2>1. ASSUME NEW i \in local' \cap revoked, NEW u \in Tasks, Deleting(u, i) PROVE Deleting(u, i)'
    <3>1. issued[i] # None /\ u # t
      BY <1>1, <2>1 DEF CredentialInv, Known, Deleting
    <3>2. QED
      BY <1>1, <2>1, <3>1, DeletingStays
  <2>2. QED
    BY <1>1, <2>1, LeftoversStay DEF CredentialInv
<1>8. QED
  BY <1>3, <1>4, <1>5, <1>6, <1>7 DEF CredentialInv

\* A call is given up: what a revoke had to delete goes astray.
LEMMA GiveUpStep ==
    ASSUME Typed, CredentialInv, Lasting, NEW t \in Tasks, GiveUp(t)
    PROVE  CredentialInv'
<1>t. pc \in [Tasks -> Steps] /\ stray' = stray \cup GivenUp(t)
  BY DEF Typed, TypeOK, GiveUp, GivenUp
<1>1. /\ UNCHANGED <<issued, revoked, local, late, crossed, subject, selector, listed, ended, shown>>
      /\ pc'[t] = "done" /\ \A u \in Tasks \ {t} : pc'[u] = pc[u]
  BY <1>t DEF GiveUp, Goto, callVars
<1>2. Known'
  BY <1>1 DEF CredentialInv, Known
<1>3. ASSUME NEW u \in Tasks PROVE RevokeOK(u)' /\ EndedOK(u)' /\ PresentOK(u)'
  BY <1>1, <1>3, RevokesStay, EndedStays, PresentStays DEF CredentialInv
<1>4. Leftovers'
  <2>1. ASSUME NEW i \in local \cap revoked, NEW u \in Tasks, Deleting(u, i)
        PROVE  Deleting(u, i)' \/ i \in stray'
    <3>1. CASE u = t
      BY <1>t, <2>1, <3>1, GivenUpIs DEF Deleting, Typed
    <3>2. CASE u # t
      <4>1. issued[i] # None
        BY <2>1 DEF CredentialInv, Known
      <4>2. QED
        BY <1>1, <2>1, <3>2, <4>1, DeletingStays
    <3>3. QED
      BY <3>1, <3>2
  <2>2. QED
    BY <1>1, <2>1, LeftoversStay DEF CredentialInv
<1>5. QED
  BY <1>2, <1>3, <1>4 DEF CredentialInv

\* Every step keeps what is known of credentials.
LEMMA NextCredentials == Typed /\ CredentialInv /\ [Next]_vars => CredentialInv'
<1> SUFFICES ASSUME Typed, CredentialInv, [Next]_vars PROVE CredentialInv'
  OBVIOUS
<1>0. Lasting
  BY NextLasting
<1>t. pc \in [Tasks -> Steps] /\ listed \in [Tasks -> SUBSET Ids]
  BY DEF Typed, TypeOK
<1>1. CASE Tick \/ UNCHANGED vars
  BY <1>0, <1>1, QuietCredentials DEF Tick, vars, credentialVars, callVars
<1>2. ASSUME NEW t \in Tasks,
             \/ FindIdentity(t) \/ NoIdentity(t) \/ AskProvider(t) \/ Provision(t)
             \/ SaveIdentity(t) \/ Act(t)
      PROVE  CredentialInv'
  <2>1. /\ UNCHANGED <<credentialVars, selector, listed, subject, ended, shown>>
        /\ pc[t] \in {"locking", "provisioning", "provisioned", "resolved"}
        /\ pc'[t] \in {"provisioning", "provisioned", "resolved", "granting", "revoking", "done"}
        /\ \A u \in Tasks \ {t} : pc'[u] = pc[u]
    BY <1>t, <1>2 DEF FindIdentity, NoIdentity, AskProvider, Provision, SaveIdentity, Act, Goto, callVars
  <2>2. QED
    BY <1>0, <2>1, QuietCredentials
<1>3. ASSUME NEW i \in Ids, Forget(i) PROVE CredentialInv'
  BY <1>0, <1>3, LessStored DEF Forget, callVars
<1>4. ASSUME NEW t \in Tasks, Delete(t) PROVE CredentialInv'
  <2>1. PICK i \in listed[t] : local' = local \ {i} /\ listed' = [listed EXCEPT ![t] = @ \ {i}]
    BY <1>4 DEF Delete
  <2>2. UNCHANGED <<issued, revoked, late, crossed, stray, pc, subject, selector, ended, shown>>
    BY <1>4 DEF Delete
  <2>3. \A u \in Tasks : listed'[u] = IF u = t THEN listed[u] \ {i} ELSE listed[u]
    BY <1>t, <2>1
  <2>4. QED
    BY <1>0, <2>1, <2>2, <2>3, LessStored
<1>5. QED
  BY <1>0, <1>1, <1>2, <1>3, <1>4, BeginStep, IssueStep, SaveCredentialStep, RevokeStep, ListStep,
     FinishRevokeStep, AuthenticationStep, GiveUpStep DEF Next, Call

----------------------------------------------------------------------------
\* What is known of identities and credentials holds in every state.
THEOREM InductiveInvariant == Spec => [](Typed /\ IdentityInv /\ CredentialInv)
<1>1. Init => Typed /\ IdentityInv /\ CredentialInv
  BY InitTyped, InitIdentity, InitCredentials
<1>2. Typed /\ IdentityInv /\ CredentialInv /\ [Next]_vars =>
        (Typed /\ IdentityInv /\ CredentialInv)'
  BY NextTyped, NextIdentity, NextCredentials
<1>3. QED
  BY <1>1, <1>2, PTL DEF Spec

\* No two assertions are made for different identities.
THEOREM OneDid == Spec => []OneIdentity
<1>1. IdentityInv => OneIdentity
  BY DEF IdentityInv, StoreOK, OneIdentity
<1>2. QED
  BY <1>1, InductiveInvariant, PTL

\* A revoked credential is in the store only while or because a revoke has not deleted
\* it, or when its grant was answered late.
THEOREM Leftover == Spec => []LeftoversExplained
<1>1. CredentialInv => LeftoversExplained
  BY DEF CredentialInv, Leftovers, Deleting, LeftoversExplained
<1>2. QED
  BY <1>1, InductiveInvariant, PTL

\* A credential is presented before it expires and not after a revoke of it.
THEOREM Presented == Spec => []PresentedUsable
<1>1. CredentialInv => PresentedUsable
  BY DEF CredentialInv, PresentOK, PresentedUsable
<1>2. QED
  BY <1>1, InductiveInvariant, PTL

\* Every credential that leaves the store has a reason to.
THEOREM Losses == Spec => LossesExplained
<1>1. Typed /\ CredentialInv /\ [Next]_vars =>
        [\A i \in local \ local' :
            \/ ~Unexpired(i)
            \/ i \in revoked \cup crossed
            \/ Forget(i)
            \/ \E t \in Tasks : pc[t] = "deleting" /\ selector[t].id = i]_vars
  <2> SUFFICES ASSUME Typed, CredentialInv, [Next]_vars, NEW i \in local \ local'
               PROVE  \/ ~Unexpired(i)
                      \/ i \in revoked \cup crossed
                      \/ Forget(i)
                      \/ \E t \in Tasks : pc[t] = "deleting" /\ selector[t].id = i
    OBVIOUS
  <2>1. CASE Tick \/ UNCHANGED vars
    BY <2>1 DEF Tick, vars, credentialVars
  <2>f. ASSUME NEW j \in Ids, Forget(j) PROVE Forget(i)
    <3>1. j = i
      BY <2>f DEF Forget
    <3>2. QED
      BY <2>f, <3>1
  <2>2. ASSUME NEW t \in Tasks,
               \/ Begin(t) \/ FindIdentity(t) \/ NoIdentity(t) \/ AskProvider(t) \/ Provision(t)
               \/ SaveIdentity(t) \/ Act(t) \/ FinishRevoke(t) \/ Present(t)
        PROVE  FALSE
    BY <2>2 DEF Begin, FindIdentity, NoIdentity, AskProvider, Provision, SaveIdentity, Act,
                FinishRevoke, Present, credentialVars
  <2>3. ASSUME NEW t \in Tasks, Issue(t) \/ SaveCredential(t) \/ Revoke(t) \/ GiveUp(t) PROVE FALSE
    BY <2>3 DEF Issue, SaveCredential, Revoke, GiveUp
  <2>4. ASSUME NEW t \in Tasks, List(t) \/ FindCredential(t) \/ FindNone(t) PROVE ~Unexpired(i)
    BY <2>4 DEF List, FindCredential, FindNone, Swept
  <2>5. ASSUME NEW t \in Tasks, Delete(t)
        PROVE  i \in revoked \cup crossed \/ (pc[t] = "deleting" /\ selector[t].id = i)
    BY <2>5 DEF Delete, CredentialInv, RevokeOK, Losable
  <2>6. QED
    BY <2>1, <2>f, <2>2, <2>3, <2>4, <2>5 DEF Next, Call
<1>2. QED
  BY <1>1, InductiveInvariant, PTL DEF Spec, LossesExplained

----------------------------------------------------------------------------
(***************************************************************************)
(* What an Agent reads in an OpenAPI document, for every list of templates: *)
(* the loop has the best of the templates so far, by induction on its turns *)
(* (a turn that fails has an earliest one that does).                      *)
(***************************************************************************)

\* The first of some places is one of them, and there is none before it.
LEMMA EarliestOf ==
    ASSUME NEW S, S \subseteq Nat, S # {}
    PROVE  \E i \in S : \A j \in S : i <= j
<1>1. PICK i \in S : \A j \in S : ~(<<j, i>> \in OpToRel(<, Nat))
  BY NatLessThanWellFounded, WFMin
<1>2. ASSUME NEW j \in S, j < i PROVE FALSE
  <2>1. <<j, i>> \in Nat \X Nat /\ <<j, i>>[1] = j /\ <<j, i>>[2] = i
    OBVIOUS
  <2> QED
    BY <1>1, <1>2, <2>1 DEF OpToRel
<1> QED
  BY <1>2

\* What follows from the places before holds at every place.
LEMMA EveryPlace ==
    ASSUME NEW n \in Nat, NEW S, 0 \in S, \A i \in 1..n : i - 1 \in S => i \in S
    PROVE  \A i \in 0..n : i \in S
<1> SUFFICES ASSUME \E i \in 0..n : i \notin S PROVE FALSE
  OBVIOUS
<1> DEFINE rest == {i \in 0..n : i \notin S}
<1>1. rest \subseteq Nat /\ rest # {}
  OBVIOUS
<1> HIDE DEF rest
<1>2. PICK i \in rest : \A j \in rest : i <= j
  BY <1>1, EarliestOf
<1>3. i \in 0..n /\ i \notin S /\ \A j \in 0..n : j < i => j \in S
  BY <1>2 DEF rest
<1> QED
  BY <1>3

\* Segments of a list are a list.
LEMMA SegmentsAreLists ==
    ASSUME NEW p, IsList(p), NEW equivalent
    PROVE  IsList(Introduction!Api!Segments(p, equivalent))
<1> DEFINE W == {p[i] : i \in 1..Len(p)}
<1>1. p \in Seq(W)
  BY DEF IsList
<1>2. CASE ~(equivalent /\ Len(p) > 1 /\ p[Len(p)] = "")
  BY <1>2 DEF Introduction!Api!Segments
<1>3. CASE equivalent /\ Len(p) > 1 /\ p[Len(p)] = ""
  <2>1. Introduction!Api!Segments(p, equivalent) = SubSeq(p, 1, Len(p) - 1)
    BY <1>3 DEF Introduction!Api!Segments
  <2>0. Len(p) \in Nat
    BY DEF IsList
  <2>2. Len(p) - 1 \in Int /\ 1 \in Int /\ \A i \in 1..(Len(p) - 1) : p[i] \in W
    BY <2>0
  <2>3. SubSeq(p, 1, Len(p) - 1) \in Seq(W)
    BY <2>2, SubSeqProperties
  <2> QED
    BY <2>1, <2>3 DEF IsList
<1> QED
  BY <1>2, <1>3

\* The order of the scores of templates is a strict one.
LEMMA AboveIsStrict ==
    ASSUME NEW n \in Nat, NEW a \in [1..n -> 0..1], NEW b \in [1..n -> 0..1]
    PROVE  /\ ~Introduction!Api!Above(a, a)
           /\ ~(Introduction!Api!Above(a, b) /\ Introduction!Api!Above(b, a))
BY DEF Introduction!Api!Above

\* It is transitive,
LEMMA AboveIsTransitive ==
    ASSUME NEW n \in Nat, NEW a \in [1..n -> 0..1], NEW b \in [1..n -> 0..1],
           NEW c \in [1..n -> 0..1],
           Introduction!Api!Above(a, b), Introduction!Api!Above(b, c)
    PROVE  Introduction!Api!Above(a, c)
<1>1. PICK i \in 1..n : a[i] > b[i] /\ \A k \in 1..(i - 1) : a[k] = b[k]
  BY DEF Introduction!Api!Above
<1>2. PICK j \in 1..n : b[j] > c[j] /\ \A k \in 1..(j - 1) : b[k] = c[k]
  BY DEF Introduction!Api!Above
<1>3. CASE i <= j
  BY <1>1, <1>2, <1>3 DEF Introduction!Api!Above
<1>4. CASE j < i
  BY <1>1, <1>2, <1>4 DEF Introduction!Api!Above
<1> QED
  BY <1>3, <1>4

\* and of two scores that differ one is above the other.
LEMMA AboveIsTotal ==
    ASSUME NEW n \in Nat, NEW a \in [1..n -> 0..1], NEW b \in [1..n -> 0..1], a # b
    PROVE  Introduction!Api!Above(a, b) \/ Introduction!Api!Above(b, a)
<1> DEFINE differ == {i \in 1..n : a[i] # b[i]}
<1>1. differ \subseteq Nat /\ differ # {}
  OBVIOUS
<1> HIDE DEF differ
<1>2. PICK i \in differ : \A j \in differ : i <= j
  BY <1>1, EarliestOf
<1>3. i \in 1..n /\ \A j \in 1..(i - 1) : a[j] = b[j]
  BY <1>2 DEF differ
<1>4. a[i] > b[i] \/ b[i] > a[i]
  BY <1>2 DEF differ
<1> QED
  BY <1>3, <1>4 DEF Introduction!Api!Above

\* The template at a place, as it is compared, and its score.
Template(q, equivalent, i) == Introduction!Api!Segments(q.templates[i], equivalent)
Score(q, equivalent, i) == Introduction!Api!Specificity(Template(q, equivalent, i))

Fitting(q, equivalent, i) ==
    Introduction!Api!Fits(Template(q, equivalent, i), Introduction!Api!Segments(q.path, equivalent))

\* One turn of the loop.
Turned(q, equivalent, best, i) ==
    IF Fitting(q, equivalent, i)
    THEN Introduction!Api!Better(best, Template(q, equivalent, i), i)
    ELSE best

Unmatched == [at |-> 0, score |-> <<>>, ambiguous |-> FALSE]

\* f is the loop as far as the template at m.
IsLoop(f, q, equivalent, m) ==
    f = [i \in 0..m |-> IF i = 0 THEN Unmatched ELSE Turned(q, equivalent, f[i - 1], i)]

\* The loop comes to its end, whatever the templates.
LEMMA LoopExists ==
    ASSUME NEW q, Len(q.templates) \in Nat, NEW equivalent
    PROVE  IsLoop(Introduction!Api!Matches(q.templates, q.path, equivalent), q, equivalent, Len(q.templates))
<1> DEFINE n == Len(q.templates)
           S == {m \in 0..n : \E f : IsLoop(f, q, equivalent, m)}
<1>1. 0 \in S
  <2> DEFINE f == [i \in 0..0 |-> Unmatched]
  <2>1. IsLoop(f, q, equivalent, 0)
    BY DEF IsLoop
  <2> QED
    BY <2>1
<1>2. ASSUME NEW m \in 1..n, m - 1 \in S PROVE m \in S
  <2>1. PICK f : IsLoop(f, q, equivalent, m - 1)
    BY <1>2
  <2> DEFINE g == [i \in 0..m |-> IF i = m THEN Turned(q, equivalent, f[m - 1], m) ELSE f[i]]
  <2>2. \A i \in 0..(m - 1) : f[i] = IF i = 0 THEN Unmatched ELSE Turned(q, equivalent, f[i - 1], i)
    BY <2>1 DEF IsLoop
  <2>3. ASSUME NEW i \in 0..m
        PROVE  g[i] = IF i = 0 THEN Unmatched ELSE Turned(q, equivalent, g[i - 1], i)
    <3>1. CASE i = 0
      BY <2>2, <3>1
    <3>2. CASE i # 0
      <4>1. i - 1 \in 0..m /\ i - 1 # m /\ i - 1 \in 0..(m - 1)
        BY <3>2
      <4>2. g[i - 1] = f[i - 1]
        BY <4>1
      <4>3. g[i] = Turned(q, equivalent, f[i - 1], i)
        BY <2>2, <3>2
      <4> QED
        BY <3>2, <4>2, <4>3
    <3> QED
      BY <3>1, <3>2
  <2> HIDE DEF g
  <2>4. g = [i \in 0..m |-> g[i]]
    BY DEF g
  <2>5. IsLoop(g, q, equivalent, m)
    BY <2>3, <2>4 DEF IsLoop
  <2>6. m \in 0..n
    OBVIOUS
  <2> QED
    BY <2>5, <2>6
<1> HIDE DEF S
<1>3. n \in Nat /\ n \in 0..n
  OBVIOUS
<1>4. \A i \in 1..n : i - 1 \in S => i \in S
  BY <1>2
<1>5. \A i \in 0..n : i \in S
  BY <1>1, <1>3, <1>4, EveryPlace
<1>6. \E f : IsLoop(f, q, equivalent, n)
  BY <1>3, <1>5 DEF S
<1>7. Introduction!Api!Matches(q.templates, q.path, equivalent) = CHOOSE f : IsLoop(f, q, equivalent, n)
  BY DEF Introduction!Api!Matches, IsLoop, Turned, Unmatched, Fitting, Template
<1> QED
  BY <1>6, <1>7

\* What is compared are lists.
Comparable(q) ==
    /\ Len(q.templates) \in Nat /\ IsList(q.path)
    /\ \A i \in 1..Len(q.templates) : IsList(q.templates[i])

\* b is the best of the templates up to the one at n.
BestOf(q, equivalent, n, b) ==
    LET others(j) == Fitting(q, equivalent, j) /\ j # b.at IN
    /\ DOMAIN b = {"at", "score", "ambiguous"}
    /\ b.ambiguous \in BOOLEAN
    /\ b.at = 0 => ~b.ambiguous /\ \A j \in 1..n : ~Fitting(q, equivalent, j)
    /\ b.at # 0 =>
        /\ b.at \in 1..n /\ Fitting(q, equivalent, b.at) /\ b.score = Score(q, equivalent, b.at)
        /\ \A j \in 1..n : others(j) =>
            Score(q, equivalent, j) = b.score \/ Introduction!Api!Above(b.score, Score(q, equivalent, j))
        /\ b.ambiguous <=> \E j \in 1..n : others(j) /\ Score(q, equivalent, j) = b.score

\* Templates that fit have scores of one length.
LEMMA ScoresCompare ==
    ASSUME NEW q, Comparable(q), NEW equivalent
    PROVE  \E n \in Nat : \A i \in 1..Len(q.templates) :
            Fitting(q, equivalent, i) => Score(q, equivalent, i) \in [1..n -> 0..1]
<1> DEFINE n == Len(Introduction!Api!Segments(q.path, equivalent))
<1>1. n \in Nat
  BY SegmentsAreLists DEF Comparable, IsList
<1>2. ASSUME NEW i \in 1..Len(q.templates), Fitting(q, equivalent, i)
      PROVE  Score(q, equivalent, i) \in [1..n -> 0..1]
  <2>1. IsList(Template(q, equivalent, i))
    BY SegmentsAreLists DEF Comparable, Template
  <2>2. Len(Template(q, equivalent, i)) = n
    BY <1>2 DEF Fitting, Introduction!Api!Fits
  <2>3. DOMAIN Template(q, equivalent, i) = 1..n
    BY <2>1, <2>2 DEF IsList
  <2> QED
    BY <2>3 DEF Score, Introduction!Api!Specificity
<1> QED
  BY <1>1, <1>2

\* A turn makes the best of the templates before the best of those and the next.
LEMMA TurnFindsBest ==
    ASSUME NEW q, Comparable(q), NEW equivalent, NEW i \in 1..Len(q.templates), NEW b,
           BestOf(q, equivalent, i - 1, b)
    PROVE  BestOf(q, equivalent, i, Turned(q, equivalent, b, i))
<1> DEFINE c == Turned(q, equivalent, b, i)
           S(j) == Score(q, equivalent, j)
           F(j) == Fitting(q, equivalent, j)
<1>1. PICK n \in Nat : \A j \in 1..Len(q.templates) : F(j) => S(j) \in [1..n -> 0..1]
  BY ScoresCompare
<1>2. \A j \in 1..i : j \in 1..(i - 1) \/ j = i
  OBVIOUS
<1>3. CASE ~F(i)
  <2>1. c = b
    BY <1>3 DEF Turned
  <2> QED
    BY <1>2, <1>3, <2>1 DEF BestOf
<1>4. CASE F(i) /\ b.at = 0
  <2>1. c = [at |-> i, score |-> S(i), ambiguous |-> FALSE]
    BY <1>4 DEF Turned, Introduction!Api!Better, Score
  <2>2. \A j \in 1..i : F(j) => j = i
    BY <1>2, <1>4 DEF BestOf
  <2> QED
    BY <1>4, <2>1, <2>2 DEF BestOf
<1>5. CASE F(i) /\ b.at # 0
  <2>0. /\ b.at \in 1..(i - 1) /\ b.at \in 1..Len(q.templates) /\ F(b.at) /\ b.score = S(b.at)
        /\ \A j \in 1..(i - 1) : F(j) /\ j # b.at => S(j) = b.score \/ Introduction!Api!Above(b.score, S(j))
        /\ b.ambiguous <=> \E j \in 1..(i - 1) : F(j) /\ j # b.at /\ S(j) = b.score
        /\ DOMAIN b = {"at", "score", "ambiguous"} /\ b.ambiguous \in BOOLEAN
    BY <1>5 DEF BestOf
  <2>a. S(i) \in [1..n -> 0..1] /\ b.score \in [1..n -> 0..1]
    BY <1>1, <1>5, <2>0
  <2>1. CASE Introduction!Api!Above(S(i), b.score)
    <3>0. S(i) # b.score
      BY <2>1, <2>a, AboveIsStrict
    <3>1. c = [at |-> i, score |-> S(i), ambiguous |-> FALSE]
      BY <1>5, <2>1, <3>0 DEF Turned, Introduction!Api!Better, Score
    <3>2. ASSUME NEW j \in 1..(i - 1), F(j) PROVE Introduction!Api!Above(S(i), S(j))
      <4>1. CASE S(j) = b.score
        BY <2>1, <4>1
      <4>2. CASE Introduction!Api!Above(b.score, S(j))
        <5>1. S(j) \in [1..n -> 0..1]
          BY <1>1, <3>2
        <5> QED
          BY <2>1, <2>a, <4>2, <5>1, AboveIsTransitive
      <4>3. j = b.at => S(j) = b.score
        BY <2>0
      <4> QED
        BY <2>0, <3>2, <4>1, <4>2, <4>3
    <3>3. ASSUME NEW j \in 1..i, F(j), j # i PROVE S(j) # S(i) /\ Introduction!Api!Above(S(i), S(j))
      <4>1. j \in 1..(i - 1)
        BY <3>3
      <4>2. ~Introduction!Api!Above(S(i), S(i))
        BY <2>a, AboveIsStrict
      <4> QED
        BY <3>2, <3>3, <4>1, <4>2
    <3> QED
      BY <1>5, <3>1, <3>3 DEF BestOf
  <2>2. CASE ~Introduction!Api!Above(S(i), b.score) /\ S(i) = b.score
    <3>1. c = [b EXCEPT !.ambiguous = TRUE]
      BY <1>5, <2>2 DEF Turned, Introduction!Api!Better, Score
    <3>2. c.at = b.at /\ c.score = b.score /\ c.ambiguous = TRUE /\ DOMAIN c = {"at", "score", "ambiguous"}
      BY <2>0, <3>1
    <3>3. \A j \in 1..i : F(j) /\ j # b.at => S(j) = b.score \/ Introduction!Api!Above(b.score, S(j))
      BY <1>2, <2>0, <2>2
    <3>4. \E j \in 1..i : F(j) /\ j # b.at /\ S(j) = b.score
      BY <1>5, <2>0, <2>2
    <3>5. c.at \in 1..i /\ c.at # 0
      BY <2>0, <3>2
    <3> QED
      BY <2>0, <3>2, <3>3, <3>4, <3>5 DEF BestOf
  <2>3. CASE ~Introduction!Api!Above(S(i), b.score) /\ S(i) # b.score
    <3>1. c = b
      BY <1>5, <2>3 DEF Turned, Introduction!Api!Better, Score
    <3>2. Introduction!Api!Above(b.score, S(i))
      BY <2>a, <2>3, AboveIsTotal
    <3>3. \A j \in 1..i : F(j) /\ j # b.at => S(j) = b.score \/ Introduction!Api!Above(b.score, S(j))
      BY <1>2, <2>0, <3>2
    <3>4. (\E j \in 1..i : F(j) /\ j # b.at /\ S(j) = b.score)
            <=> \E j \in 1..(i - 1) : F(j) /\ j # b.at /\ S(j) = b.score
      BY <1>2, <2>3
    <3>5. b.at \in 1..i /\ b.at # 0
      BY <2>0
    <3> QED
      BY <2>0, <3>1, <3>3, <3>4, <3>5 DEF BestOf
  <2> QED
    BY <2>1, <2>2, <2>3
<1> QED
  BY <1>3, <1>4, <1>5

\* At its end the loop has the best of all templates.
LEMMA LoopFindsBest ==
    ASSUME NEW q, Comparable(q), NEW equivalent
    PROVE  BestOf(q, equivalent, Len(q.templates),
                  Introduction!Api!Matches(q.templates, q.path, equivalent)[Len(q.templates)])
<1> DEFINE n == Len(q.templates)
           f == Introduction!Api!Matches(q.templates, q.path, equivalent)
           S == {i \in 0..n : BestOf(q, equivalent, i, f[i])}
<1>1. n \in Nat
  BY DEF Comparable
<1>2. IsLoop(f, q, equivalent, n)
  BY <1>1, LoopExists
<1> HIDE DEF f
<1>3. f[0] = Unmatched /\ \A i \in 1..n : f[i] = Turned(q, equivalent, f[i - 1], i)
  <2>1. \A i \in 0..n : f[i] = IF i = 0 THEN Unmatched ELSE Turned(q, equivalent, f[i - 1], i)
    BY <1>2 DEF IsLoop
  <2> QED
    BY <1>1, <2>1
<1>4. 0 \in S
  <2>1. BestOf(q, equivalent, 0, Unmatched)
    BY DEF BestOf, Unmatched
  <2> QED
    BY <1>1, <1>3, <2>1
<1>5. ASSUME NEW i \in 1..n, i - 1 \in S PROVE i \in S
  <2>1. BestOf(q, equivalent, i - 1, f[i - 1])
    BY <1>5
  <2>2. BestOf(q, equivalent, i, Turned(q, equivalent, f[i - 1], i))
    BY <2>1, TurnFindsBest
  <2> QED
    BY <1>1, <1>3, <2>2
<1> HIDE DEF S
<1>6. \A i \in 0..n : i \in S
  BY <1>1, <1>4, <1>5, EveryPlace
<1>7. n \in S
  BY <1>1, <1>6
<1> QED
  BY <1>7 DEF S, f

\* Of two templates that fit, the one that is literal where they first differ has the higher score.
LEMMA PrecedesIsAbove ==
    ASSUME NEW q, Comparable(q), NEW equivalent,
           NEW i \in 1..Len(q.templates), Fitting(q, equivalent, i),
           NEW j \in 1..Len(q.templates), Fitting(q, equivalent, j)
    PROVE  Introduction!Api!Precedes(Template(q, equivalent, i), Template(q, equivalent, j))
            <=> Introduction!Api!Above(Score(q, equivalent, i), Score(q, equivalent, j))
<1> DEFINE a == Template(q, equivalent, i)
           b == Template(q, equivalent, j)
<1>1. IsList(a) /\ IsList(b)
  BY SegmentsAreLists DEF Comparable, Template
<1>2. Len(a) = Len(b)
  BY DEF Fitting, Introduction!Api!Fits
<1> HIDE DEF a, b
<1>3. PICK n \in Nat : DOMAIN a = 1..n /\ DOMAIN b = 1..n
  BY <1>1, <1>2 DEF IsList
<1>4. \A k \in 1..n : \A m \in 1..(k - 1) : m \in 1..n
  OBVIOUS
<1> DEFINE s == Introduction!Api!Specificity(a)
           t == Introduction!Api!Specificity(b)
<1>5. /\ DOMAIN s = 1..n
      /\ \A k \in 1..n : s[k] = IF a[k] = Variable THEN 0 ELSE 1
      /\ \A k \in 1..n : t[k] = IF b[k] = Variable THEN 0 ELSE 1
  BY <1>3 DEF Introduction!Api!Specificity
<1> HIDE DEF s, t
<1>6. /\ \A k \in 1..n : (s[k] > t[k]) <=> (a[k] # Variable /\ b[k] = Variable)
      /\ \A k \in 1..n : (s[k] = t[k]) <=> (a[k] = Variable <=> b[k] = Variable)
  BY <1>5
<1>7. Introduction!Api!Precedes(a, b)
        <=> \E k \in 1..n : /\ a[k] # Variable /\ b[k] = Variable
                            /\ \A m \in 1..(k - 1) : a[m] = Variable <=> b[m] = Variable
  BY <1>3 DEF Introduction!Api!Precedes
<1>8. Introduction!Api!Precedes(a, b) <=> Introduction!Api!Above(s, t)
  <2>1. Introduction!Api!Above(s, t)
          <=> \E k \in 1..n : s[k] > t[k] /\ \A m \in 1..(k - 1) : s[m] = t[m]
    BY <1>5 DEF Introduction!Api!Above
  <2>2. ASSUME NEW k \in 1..n
        PROVE  (\A m \in 1..(k - 1) : s[m] = t[m])
                <=> \A m \in 1..(k - 1) : a[m] = Variable <=> b[m] = Variable
    <3>1. \A m \in 1..(k - 1) : (s[m] = t[m]) <=> (a[m] = Variable <=> b[m] = Variable)
      BY <1>4, <1>6
    <3> QED
      BY <3>1
  <2> QED
    BY <1>6, <1>7, <2>1, <2>2
<1> QED
  BY <1>8 DEF a, b, s, t, Score

\* The template that is matched is the one that the document means.
LEMMA MatchIsMeant ==
    ASSUME NEW q, Comparable(q), DOMAIN q.templates = 1..Len(q.templates), NEW equivalent
    PROVE  /\ Introduction!Api!MatchPath(q.templates, q.path, equivalent)
                = Introduction!Api!Operation(q.templates, q.path, equivalent)
           /\ Introduction!Api!MatchPath(q.templates, q.path, equivalent) \in 0..Len(q.templates)
<1> DEFINE n == Len(q.templates)
           best == Introduction!Api!Matches(q.templates, q.path, equivalent)[n]
           fit == Introduction!Api!Standing(q.templates, q.path, equivalent)
           before(i, j) == Introduction!Api!Precedes(Template(q, equivalent, i), Template(q, equivalent, j))
           first == {i \in fit : \A j \in fit \ {i} : before(i, j)}
           S(i) == Score(q, equivalent, i)
<1>1. n \in Nat /\ BestOf(q, equivalent, n, best)
  BY LoopFindsBest DEF Comparable
<1>2. fit = {i \in 1..n : Fitting(q, equivalent, i)}
  BY DEF Introduction!Api!Standing, Fitting, Template
<1>3. Introduction!Api!Operation(q.templates, q.path, equivalent)
        = IF first = {} THEN 0 ELSE CHOOSE i \in first : TRUE
  BY DEF Introduction!Api!Operation, Template
<1>4. Introduction!Api!MatchPath(q.templates, q.path, equivalent) = IF best.ambiguous THEN 0 ELSE best.at
  BY DEF Introduction!Api!MatchPath
<1> HIDE DEF best, fit
<1>5. PICK m \in Nat : \A i \in fit : S(i) \in [1..m -> 0..1]
  BY <1>2, ScoresCompare
<1>6. \A i, j \in fit : before(i, j) <=> Introduction!Api!Above(S(i), S(j))
  BY <1>2, PrecedesIsAbove
<1>7. CASE best.at = 0
  <2>1. fit = {} /\ ~best.ambiguous
    BY <1>1, <1>2, <1>7 DEF BestOf
  <2> QED
    BY <1>1, <1>3, <1>4, <1>7, <2>1
<1>8. CASE best.at # 0
  <2>1. /\ best.at \in fit
        /\ \A j \in fit \ {best.at} :
            S(j) = S(best.at) \/ Introduction!Api!Above(S(best.at), S(j))
        /\ best.ambiguous <=> \E j \in fit \ {best.at} : S(j) = S(best.at)
        /\ best.ambiguous \in BOOLEAN
    BY <1>1, <1>2, <1>8 DEF BestOf
  <2>2. ASSUME NEW i \in first PROVE i = best.at
    <3>1. CASE i # best.at
      <4>1. Introduction!Api!Above(S(i), S(best.at))
        BY <1>6, <2>1, <2>2, <3>1
      <4>2. S(i) = S(best.at) \/ Introduction!Api!Above(S(best.at), S(i))
        BY <2>1, <2>2, <3>1
      <4>3. S(i) \in [1..m -> 0..1] /\ S(best.at) \in [1..m -> 0..1]
        BY <1>5, <2>1, <2>2
      <4> HIDE DEF S
      <4>4. FALSE
        BY <4>1, <4>2, <4>3, AboveIsStrict
      <4> QED
        BY <4>4
    <3> QED
      BY <3>1
  <2>3. CASE best.ambiguous
    <3>1. PICK j \in fit \ {best.at} : S(j) = S(best.at)
      BY <2>1, <2>3
    <3>2. best.at \notin first
      <4>1. S(best.at) \in [1..m -> 0..1]
        BY <1>5, <2>1
      <4> HIDE DEF S
      <4>2. ~Introduction!Api!Above(S(best.at), S(best.at))
        BY <4>1, AboveIsStrict
      <4> USE DEF S
      <4>3. ~before(best.at, j)
        BY <1>6, <2>1, <3>1, <4>2
      <4> QED
        BY <3>1, <4>3
    <3>3. first = {}
      BY <2>2, <3>2
    <3> QED
      BY <1>1, <1>3, <1>4, <2>3, <3>3
  <2>4. CASE ~best.ambiguous
    <3>1. best.at \in first
      BY <1>6, <2>1, <2>4
    <3>2. first = {best.at}
      BY <2>2, <3>1
    <3>3. best.at \in 1..n
      BY <1>2, <2>1
    <3> HIDE DEF first
    <3>4. (CHOOSE k \in first : TRUE) \in first
      BY <3>1
    <3>5. Introduction!Api!Operation(q.templates, q.path, equivalent) = best.at
      BY <1>3, <3>1, <3>2, <3>4
    <3>6. Introduction!Api!MatchPath(q.templates, q.path, equivalent) = best.at
      BY <1>4, <2>4
    <3> QED
      BY <1>1, <3>3, <3>5, <3>6
  <2> QED
    BY <2>1, <2>3, <2>4
<1> QED
  BY <1>7, <1>8

\* The credentials that an operation is resolved to let a request for it pass, and are there
\* whenever the Agent has all that one requirement asks for.
LEMMA ResolutionAdmits ==
    ASSUME NEW root, NEW operation, NEW supported
    PROVE  LET r == Introduction!Api!ResolveSecurity(root, operation, supported)
               passing(schemes) == Introduction!Api!Admits(root, operation, schemes)
           IN
           /\ r.disposition \in {"public", "optional-anonymous"} => passing({})
           /\ \A schemes \in r.satisfiable : schemes \subseteq supported /\ passing(schemes)
           /\ r.disposition \in {"required", "all-required", "alternatives"} => r.satisfiable # {}
           /\ (r.disposition = "fallback-live-challenge") = ~passing(supported)
<1> DEFINE effective == IF operation # Nothing THEN operation ELSE IF root # Nothing THEN root ELSE <<>>
           required == Introduction!Api!Range(effective)
           satisfiable == {s \in required : s \subseteq supported}
           r == Introduction!Api!ResolveSecurity(root, operation, supported)
           passing(schemes) == Introduction!Api!Admits(root, operation, schemes)
           named == {"alternatives", "all-required", "required"}
<1>1. \A schemes : passing(schemes) <=> effective = <<>> \/ \E s \in required : s \subseteq schemes
  BY DEF Introduction!Api!Admits
<1>2. \A words : Introduction!Api!Range(words) = {} \/ words # <<>>
  BY DEF Introduction!Api!Range
<1>3. r = LET many == Len(effective) > 1
              type == IF many THEN "alternatives"
                      ELSE IF Introduction!Api!Cardinality(effective[1]) > 1 THEN "all-required" ELSE "required"
          IN CASE effective = <<>> -> [disposition |-> "public", satisfiable |-> {}]
               [] {} \in required -> [disposition |-> "optional-anonymous", satisfiable |-> {}]
               [] satisfiable = {} /\ effective # <<>> ->
                    [disposition |-> "fallback-live-challenge", satisfiable |-> {}]
               [] OTHER -> [disposition |-> type, satisfiable |-> satisfiable]
  BY DEF Introduction!Api!ResolveSecurity, Introduction!Api!Satisfies, Introduction!Api!Resolution
<1>4. {} \in required => {} \in satisfiable
  OBVIOUS
<1>5. required = {} \/ effective # <<>>
  BY <1>2
<1> SUFFICES
      /\ r.disposition \in {"public", "optional-anonymous"} => passing({})
      /\ \A schemes \in r.satisfiable : schemes \subseteq supported /\ passing(schemes)
      /\ r.disposition \in {"required", "all-required", "alternatives"} => r.satisfiable # {}
      /\ (r.disposition = "fallback-live-challenge") <=> ~passing(supported)
  OBVIOUS
<1> HIDE DEF effective, required, r, passing
<1>6. CASE effective = <<>>
  <2>1. r.disposition = "public" /\ r.satisfiable = {}
    BY <1>3, <1>5, <1>6
  <2> QED
    BY <1>1, <1>6, <2>1
<1>7. CASE effective # <<>> /\ {} \in required
  <2>1. r.disposition = "optional-anonymous" /\ r.satisfiable = {}
    BY <1>3, <1>4, <1>7
  <2> QED
    BY <1>1, <1>7, <2>1
<1>8. CASE effective # <<>> /\ {} \notin required /\ satisfiable = {}
  <2>1. r.disposition = "fallback-live-challenge" /\ r.satisfiable = {}
    BY <1>3, <1>8
  <2> QED
    BY <1>1, <1>8, <2>1
<1>9. CASE effective # <<>> /\ {} \notin required /\ satisfiable # {}
  <2>1. r.disposition \in {"required", "all-required", "alternatives"} /\ r.satisfiable = satisfiable
    BY <1>3, <1>9
  <2> QED
    BY <1>1, <1>9, <2>1
<1> QED
  BY <1>6, <1>7, <1>8, <1>9

----------------------------------------------------------------------------
(***************************************************************************)
(* What an Agent makes of a Service's document.                            *)
(***************************************************************************)

\* What is left out on its way is given back.
LEMMA WordsArrive ==
    ASSUME NEW words, Nothing # words
    PROVE  Introduction!GivenBack(Introduction!Skipped(words)) = words
BY DEF Introduction!GivenBack, Introduction!Skipped

\* A document arrives as it was sent.
LEMMA DocumentsArrive ==
    ASSUME NEW F, NEW d, d = [k \in F |-> d[k]], "types" \in F, "claims" \in F,
           NEW G, d.claims = [g \in G |-> d.claims[g]],
           Nothing # d.types, \A g \in G : Nothing # d.claims[g]
    PROVE  Introduction!Deserialized(Introduction!Serialized(d)) = d
<1> DEFINE e == Introduction!Serialized(d)
           r == Introduction!Deserialized(e)
<1>1. /\ e = [k \in F |-> e[k]]
      /\ e.types = Introduction!Skipped(d.types)
      /\ e.claims = [g \in G |-> Introduction!Skipped(d.claims[g])]
      /\ \A k \in F : k \notin {"types", "claims"} => e[k] = d[k]
  BY DEF Introduction!Serialized
<1>2. /\ r = [k \in F |-> r[k]]
      /\ r.types = Introduction!GivenBack(e.types)
      /\ r.claims = [g \in G |-> Introduction!GivenBack(e.claims[g])]
      /\ \A k \in F : k \notin {"types", "claims"} => r[k] = e[k]
  <2> HIDE DEF e
  <2> QED
    BY <1>1 DEF Introduction!Deserialized
<1> HIDE DEF e, r
<1>3. r.types = d.types
  BY <1>1, <1>2, WordsArrive
<1>4. r.claims = d.claims
  <2>1. \A g \in G : r.claims[g] = d.claims[g]
    BY <1>1, <1>2, WordsArrive
  <2> QED
    BY <1>2, <2>1
<1>5. \A k \in F : r[k] = d[k]
  BY <1>1, <1>2, <1>3, <1>4
<1>6. r = d
  BY <1>2, <1>5
<1> QED
  BY <1>6 DEF e, r

\* The document that an Agent gets is the one that the Service publishes.
LEMMA ReceivedAsPublished ==
    ASSUME NEW s \in Configurations
    PROVE  Introduction!Received(s) = Introduction!Document(s)
<1> DEFINE d == Introduction!Document(s)
<1>1. PICK F : d = [k \in F |-> d[k]] /\ "types" \in F /\ "claims" \in F
  <2>1. d = [k \in DOMAIN d |-> d[k]] /\ "types" \in DOMAIN d /\ "claims" \in DOMAIN d
    BY DEF Introduction!Document
  <2> QED
    BY <2>1
<1>2. d.types = Introduction!Types(s) /\ d.claims = s.claims
  BY DEF Introduction!Document
<1>3. PICK G : s.claims = [g \in G |-> s.claims[g]] /\ \A g \in G : Nothing # s.claims[g]
  BY ConfigurationsHaveType, NothingIsNotThere
<1>4. Nothing # d.types /\ d.claims = [g \in G |-> d.claims[g]] /\ \A g \in G : Nothing # d.claims[g]
  BY <1>2, <1>3, NothingIsNotThere
<1> HIDE DEF d
<1>5. Introduction!Deserialized(Introduction!Serialized(d)) = d
  BY <1>1, <1>4, DocumentsArrive
<1> QED
  BY <1>5 DEF Introduction!Received, d

\* A Service that can be built publishes a document that an Agent takes.
LEMMA BuiltIsValid ==
    ASSUME NEW s \in Configurations, Introduction!Builds(s)
    PROVE  Introduction!ValidDocument(Introduction!Received(s))
BY ReceivedAsPublished DEF Introduction!Builds

\* What a Service publishes of its configuration.
LEMMA Publishes ==
    ASSUME NEW s \in Configurations
    PROVE  LET d == Introduction!Received(s) IN
           /\ d.did = s.did /\ d.identities = s.identities /\ d.algorithms = s.algorithms
           /\ d.types = Introduction!Types(s)
           /\ d.perCredential
                = {s.grants[i].type : i \in {j \in DOMAIN s.grants : s.grants[j].config = "true"}}
           /\ {"enroll", "inspect", "status"} \subseteq d.commands
           /\ s.grants # <<>> => {"grant", "revoke"} \subseteq d.commands
           /\ d.claims = s.claims /\ d.documents = s.documents /\ d.openapi = s.openapi
BY ReceivedAsPublished DEF Introduction!Document

\* A Service that is where its DID says is where an Agent looks for it.
LEMMA ProperOrigin ==
    ASSUME NEW s \in Configurations, Introduction!Proper(s)
    PROVE  /\ Introduction!DocumentOrigin(s.did, agent.loopback) = s.at
           /\ Introduction!Secure(s.at, agent.loopback)
BY ConfigurationsHaveType
   DEF Introduction!Proper, Introduction!DocumentOrigin, Introduction!Origin, Introduction!Secure,
       Introduction!IsLoopback

\* By its name it is found.
LEMMA ProperIsFound ==
    ASSUME NEW s \in Configurations, Introduction!Proper(s), NEW r, Introduction!NamesIt(r, s)
    PROVE  Introduction!Resolve(r, agent.loopback) = s.at
<1>1. Introduction!DocumentOrigin(s.did, agent.loopback) = s.at
      /\ Introduction!Secure(s.at, agent.loopback)
  BY ProperOrigin
<1>2. Nothing # s.at
  BY NothingIsNotThere
<1>3. Introduction!Parsed(r, agent.loopback) = s.at
  BY <1>1 DEF Introduction!Parsed, Introduction!NamesIt
<1> QED
  BY <1>1, <1>2, <1>3 DEF Introduction!Resolve, Introduction!NamesIt

\* The grant type that an Agent selects is one the Service has and one it wants; and there is
\* none only if it wants others.
LEMMA SelectedType ==
    ASSUME NEW d, IsList(d.types), \A i \in DOMAIN d.types : Nothing # d.types[i],
           NEW selected, NEW preferred, IsList(preferred)
    PROVE  LET type == Introduction!SelectGrantType(d, selected, preferred)
               types == Introduction!Range(d.types)
               wanted == IF selected # Nothing THEN {selected} ELSE Introduction!Range(preferred)
           IN
           /\ type = Nothing => (wanted = {} /\ types = {}) \/ (wanted # {} /\ wanted \cap types = {})
           /\ type # Nothing => type \in types /\ (wanted = {} \/ type \in wanted)
<1> DEFINE candidates == IF selected # Nothing THEN <<selected>>
                         ELSE IF preferred = <<>> THEN d.types ELSE preferred
           types == Introduction!Range(d.types)
           wanted == IF selected # Nothing THEN {selected} ELSE Introduction!Range(preferred)
           advertised == {i \in DOMAIN candidates : candidates[i] \in types}
           first == CHOOSE i \in advertised : \A j \in advertised : i <= j
           type == Introduction!SelectGrantType(d, selected, preferred)
<1>1. type = IF advertised = {} THEN Nothing ELSE candidates[first]
  BY DEF Introduction!SelectGrantType
<1>2. /\ DOMAIN candidates \subseteq Nat
      /\ wanted = {} => selected = Nothing /\ candidates = d.types
      /\ wanted # {} => wanted = {candidates[i] : i \in DOMAIN candidates}
  <2>1. CASE selected # Nothing
    BY <2>1
  <2>2. CASE selected = Nothing /\ preferred = <<>>
    <3>1. DOMAIN d.types \subseteq Nat /\ Introduction!Range(preferred) = {}
      BY <2>2 DEF IsList, Introduction!Range
    <3> QED
      BY <2>2, <3>1
  <2>3. CASE selected = Nothing /\ preferred # <<>>
    <3>1. DOMAIN preferred = 1..Len(preferred) /\ Len(preferred) \in Nat /\ Len(preferred) # 0
      BY <2>3 DEF IsList
    <3>2. 1 \in DOMAIN preferred
      BY <3>1
    <3>3. wanted = {preferred[i] : i \in DOMAIN preferred}
      BY <2>3 DEF Introduction!Range
    <3> QED
      BY <2>3, <3>1, <3>2, <3>3
  <2> QED
    BY <2>1, <2>2, <2>3
<1>3. types = {d.types[i] : i \in DOMAIN d.types}
  BY DEF Introduction!Range
<1> HIDE DEF candidates, wanted, types, type
<1>4. advertised \subseteq Nat
  BY <1>2
<1>5. advertised # {} => first \in advertised
  <2> HIDE DEF advertised
  <2>1. CASE advertised # {}
    <3>1. \E i \in advertised : \A j \in advertised : i <= j
      BY <1>4, <2>1, EarliestOf
    <3> QED
      BY <3>1
  <2> QED
    BY <2>1
<1> HIDE DEF first
<1>6. /\ type = Nothing => (wanted = {} /\ types = {}) \/ (wanted # {} /\ wanted \cap types = {})
      /\ type # Nothing => type \in types /\ (wanted = {} \/ type \in wanted)
  <2>1. CASE advertised = {}
    BY <1>1, <1>2, <1>3, <2>1
  <2>2. CASE advertised # {}
    <3>1. first \in DOMAIN candidates /\ candidates[first] \in types /\ type = candidates[first]
      BY <1>1, <1>5, <2>2
    <3>2. Nothing \notin types
      BY <1>3
    <3> QED
      BY <1>2, <1>3, <3>1, <3>2
  <2> QED
    BY <2>1, <2>2
<1> QED
  BY <1>6 DEF type, types, wanted

\* A refusal has the reason of the first check that is not passed.
LEMMA RefusalIs ==
    ASSUME NEW n \in Nat, NEW checks, DOMAIN checks = 1..n
    PROVE  /\ (\A i \in 1..n : checks[i].why # Nothing) /\ Introduction!Refusal(checks) = Nothing =>
                \A i \in 1..n : ~checks[i].refused
           /\ Introduction!Refusal(checks) # Nothing =>
                \E i \in 1..n : /\ checks[i].refused /\ checks[i].why = Introduction!Refusal(checks)
                                /\ \A j \in 1..(i - 1) : ~checks[j].refused
<1> DEFINE refused == {i \in 1..n : checks[i].refused}
           first == CHOOSE i \in refused : \A j \in refused : i <= j
<1>1. Introduction!Refusal(checks) = IF refused = {} THEN Nothing ELSE checks[first].why
  BY DEF Introduction!Refusal
<1>2. refused \subseteq Nat
  OBVIOUS
<1>3. refused # {} => first \in refused /\ \A j \in refused : first <= j
  <2> HIDE DEF refused
  <2>1. CASE refused # {}
    <3>1. \E i \in refused : \A j \in refused : i <= j
      BY <1>2, <2>1, EarliestOf
    <3> QED
      BY <3>1
  <2> QED
    BY <2>1
<1> HIDE DEF first
<1>4. CASE refused = {}
  BY <1>1, <1>4
<1>5. CASE refused # {}
  <2>1. first \in refused /\ \A j \in refused : first <= j
    BY <1>3, <1>5
  <2>2. first \in 1..n /\ checks[first].refused /\ \A j \in 1..(first - 1) : ~checks[j].refused
    BY <2>1
  <2>3. Introduction!Refusal(checks) = checks[first].why
    BY <1>1, <1>5
  <2> QED
    BY <2>2, <2>3
<1> QED
  BY <1>4, <1>5

\* The checks of a command are first those of all commands.
LEMMA ContextIs ==
    ASSUME NEW d
    PROVE  LET c == Introduction!Context(d) IN
           /\ Len(c) = 3 /\ DOMAIN c = 1..3
           /\ c[1] = Introduction!Check("unadvertised", Introduction!Op \notin d.commands)
           /\ c[2] = Introduction!Check("unidentified", Introduction!Op = "grant" /\ ~Introduction!Identified(d))
           /\ c[3] = Introduction!Check("identity", ~Introduction!ValidIdentity(agent.identity, d))
BY DEF Introduction!Context

\* A check has its reason and its verdict.
LEMMA CheckIs ==
    ASSUME NEW why, NEW refused \in BOOLEAN
    PROVE  Introduction!Check(why, refused).why = why /\ Introduction!Check(why, refused).refused = refused
BY DEF Introduction!Check

\* What is checked of a command comes after what is checked of all.
LEMMA ContextFirst ==
    ASSUME NEW d, NEW b, DOMAIN b = 1..Len(b), Len(b) \in Nat, NEW c, c = Introduction!Context(d) \o b
    PROVE  /\ DOMAIN c = 1..(3 + Len(b))
           /\ c[1].why = "unadvertised" /\ (c[1].refused <=> Introduction!Op \notin d.commands)
           /\ c[2].why = "unidentified" /\ (c[2].refused <=> Introduction!Op = "grant" /\ ~Introduction!Identified(d))
           /\ c[3].why = "identity" /\ (c[3].refused <=> ~Introduction!ValidIdentity(agent.identity, d))
           /\ \A i \in 1..Len(b) : c[3 + i] = b[i]
<1> DEFINE a == Introduction!Context(d)
           p == Introduction!Op \notin d.commands
           r == Introduction!Op = "grant" /\ ~Introduction!Identified(d)
           v == ~Introduction!ValidIdentity(agent.identity, d)
<1>1. /\ Len(a) = 3 /\ DOMAIN a = 1..3
      /\ a[1] = Introduction!Check("unadvertised", p)
      /\ a[2] = Introduction!Check("unidentified", r)
      /\ a[3] = Introduction!Check("identity", v)
  BY ContextIs
<1>2. p \in BOOLEAN /\ r \in BOOLEAN /\ v \in BOOLEAN
  OBVIOUS
<1>0. c = a \o b
  OBVIOUS
<1> HIDE DEF a, p, r, v
<1>3. /\ a[1].why = "unadvertised" /\ (a[1].refused = p)
      /\ a[2].why = "unidentified" /\ (a[2].refused = r)
      /\ a[3].why = "identity" /\ (a[3].refused = v)
  BY <1>1, <1>2, CheckIs
<1>4. /\ DOMAIN c = 1..(Len(a) + Len(b))
      /\ \A i \in 1..Len(a) : c[i] = a[i]
      /\ \A i \in 1..Len(b) : c[Len(a) + i] = b[i]
  <2>1. DOMAIN a = 1..Len(a) /\ Len(a) \in Nat
    BY <1>1
  <2>2. DOMAIN b = 1..Len(b) /\ Len(b) \in Nat
    OBVIOUS
  <2> QED
    BY <1>0, <2>1, <2>2
<1>5. /\ DOMAIN c = 1..(3 + Len(b))
      /\ c[1] = a[1] /\ c[2] = a[2] /\ c[3] = a[3]
      /\ \A i \in 1..Len(b) : c[3 + i] = b[i]
  BY <1>1, <1>4
<1>6. /\ DOMAIN c = 1..(3 + Len(b))
      /\ c[1].why = "unadvertised" /\ (c[1].refused <=> p)
      /\ c[2].why = "unidentified" /\ (c[2].refused <=> r)
      /\ c[3].why = "identity" /\ (c[3].refused <=> v)
      /\ \A i \in 1..Len(b) : c[3 + i] = b[i]
  BY <1>3, <1>5
<1> QED
  BY <1>6 DEF a, p, r, v

\* Why an Agent refuses a grant by itself, and what it has made sure of when it does not.
LEMMA GrantRefused ==
    ASSUME Introduction!Op = "grant", NEW d
    PROVE  LET why == Introduction!Refusal(Introduction!Checks(d)) IN
           /\ why = Nothing => Introduction!GrantType(d) # Nothing
           /\ why # Nothing =>
                \/ why = "unadvertised" /\ ("grant" \notin d.commands \/ "status" \notin d.commands)
                \/ why = "unidentified" /\ ~Introduction!Identified(d)
                \/ why = "identity" /\ ~Introduction!ValidIdentity(agent.identity, d)
                \/ why = "type" /\ Introduction!GrantType(d) = Nothing /\ "grant" \in d.commands
<1> DEFINE b == <<Introduction!Check("type", Introduction!GrantType(d) = Nothing),
                  Introduction!Check("unadvertised", "status" \notin d.commands)>>
           c == Introduction!Checks(d)
           why == Introduction!Refusal(c)
<1>1. Len(b) = 2 /\ DOMAIN b = 1..2 /\ DOMAIN b = 1..Len(b) /\ Len(b) \in Nat
  OBVIOUS
<1>2. /\ b[1].why = "type" /\ (b[1].refused <=> Introduction!GrantType(d) = Nothing)
      /\ b[2].why = "unadvertised" /\ (b[2].refused <=> "status" \notin d.commands)
  BY CheckIs
<1>3. c = Introduction!Context(d) \o b
  BY DEF Introduction!Checks
<1> HIDE DEF b, c
<1>4. /\ DOMAIN c = 1..5
      /\ c[1].why = "unadvertised" /\ (c[1].refused <=> "grant" \notin d.commands)
      /\ c[2].why = "unidentified" /\ (c[2].refused <=> ~Introduction!Identified(d))
      /\ c[3].why = "identity" /\ (c[3].refused <=> ~Introduction!ValidIdentity(agent.identity, d))
      /\ c[4] = b[1] /\ c[5] = b[2]
  <2>1. /\ DOMAIN c = 1..(3 + Len(b))
        /\ c[1].why = "unadvertised" /\ (c[1].refused <=> Introduction!Op \notin d.commands)
        /\ c[2].why = "unidentified" /\ (c[2].refused <=> Introduction!Op = "grant" /\ ~Introduction!Identified(d))
        /\ c[3].why = "identity" /\ (c[3].refused <=> ~Introduction!ValidIdentity(agent.identity, d))
        /\ \A i \in 1..Len(b) : c[3 + i] = b[i]
    <3>1. DOMAIN b = 1..Len(b) /\ Len(b) \in Nat
      BY <1>1
    <3> QED
      BY ONLY <1>3, <3>1, ContextFirst
  <2>2. DOMAIN c = 1..5 /\ c[4] = b[1] /\ c[5] = b[2]
    BY <1>1, <2>1
  <2> QED
    BY <2>1, <2>2
<1>5. /\ \A i \in 1..5 : c[i].why # Nothing
      /\ c[4].why = "type" /\ (c[4].refused <=> Introduction!GrantType(d) = Nothing)
      /\ c[5].why = "unadvertised" /\ (c[5].refused <=> "status" \notin d.commands)
  BY <1>2, <1>4, NothingIsNotThere
<1>6. /\ why = Nothing => \A i \in 1..5 : ~c[i].refused
      /\ why # Nothing => \E i \in 1..5 : c[i].refused /\ c[i].why = why /\ \A j \in 1..(i - 1) : ~c[j].refused
  BY <1>4, <1>5, RefusalIs
<1> HIDE DEF why
<1>7. CASE why = Nothing
  BY <1>4, <1>5, <1>6, <1>7 DEF why, c
<1>8. CASE why # Nothing
  <2>1. PICK i \in 1..5 : c[i].refused /\ c[i].why = why /\ \A j \in 1..(i - 1) : ~c[j].refused
    BY <1>6, <1>8
  <2>2. i = 4 => ~c[1].refused
    BY <2>1
  <2>3. i = 1 \/ i = 2 \/ i = 3 \/ i = 4 \/ i = 5
    OBVIOUS
  <2> QED
    BY <1>4, <1>5, <1>8, <2>1, <2>2, <2>3 DEF why, c
<1> QED
  BY <1>7, <1>8

\* A revoke.
LEMMA RevokeRefused ==
    ASSUME Introduction!Op = "revoke", NEW d
    PROVE  LET why == Introduction!Refusal(Introduction!Checks(d))
               q == call.request
           IN
           /\ why = Nothing => q.type = Nothing \/ q.type \in Introduction!Range(d.types)
           /\ why # Nothing =>
                \/ why = "unadvertised" /\ "revoke" \notin d.commands
                \/ why = "identity" /\ ~Introduction!ValidIdentity(agent.identity, d)
                \/ why = "type" /\ q.type \notin Introduction!Range(d.types)
                \/ why = "credential" /\ q.type \notin d.perCredential
                \/ why = "key" /\ Introduction!Keyless
<1> DEFINE q == call.request
           b == <<Introduction!Check("type", q.type # Nothing /\ q.type \notin Introduction!Range(d.types)),
                  Introduction!Check("credential", q.credential /\ q.type \notin d.perCredential),
                  Introduction!Check("key", Introduction!Keyless)>>
           c == Introduction!Checks(d)
           why == Introduction!Refusal(c)
<1>1. Len(b) = 3 /\ DOMAIN b = 1..3 /\ DOMAIN b = 1..Len(b) /\ Len(b) \in Nat
  OBVIOUS
<1>2. /\ b[1].why = "type" /\ (b[1].refused <=> q.type # Nothing /\ q.type \notin Introduction!Range(d.types))
      /\ b[2].why = "credential" /\ (b[2].refused <=> q.credential /\ q.type \notin d.perCredential)
      /\ b[3].why = "key" /\ (b[3].refused <=> Introduction!Keyless)
  BY CheckIs DEF Introduction!Keyless
<1>3. c = Introduction!Context(d) \o b
  BY DEF Introduction!Checks
<1> HIDE DEF b, c
<1>4. /\ DOMAIN c = 1..6
      /\ c[1].why = "unadvertised" /\ (c[1].refused <=> "revoke" \notin d.commands)
      /\ c[2].why = "unidentified" /\ ~c[2].refused
      /\ c[3].why = "identity" /\ (c[3].refused <=> ~Introduction!ValidIdentity(agent.identity, d))
      /\ c[4] = b[1] /\ c[5] = b[2] /\ c[6] = b[3]
  <2>1. /\ DOMAIN c = 1..(3 + Len(b))
        /\ c[1].why = "unadvertised" /\ (c[1].refused <=> Introduction!Op \notin d.commands)
        /\ c[2].why = "unidentified" /\ (c[2].refused <=> Introduction!Op = "grant" /\ ~Introduction!Identified(d))
        /\ c[3].why = "identity" /\ (c[3].refused <=> ~Introduction!ValidIdentity(agent.identity, d))
        /\ \A i \in 1..Len(b) : c[3 + i] = b[i]
    <3>1. DOMAIN b = 1..Len(b) /\ Len(b) \in Nat
      BY <1>1
    <3> QED
      BY ONLY <1>3, <3>1, ContextFirst
  <2>2. DOMAIN c = 1..6 /\ c[4] = b[1] /\ c[5] = b[2] /\ c[6] = b[3]
    BY <1>1, <2>1
  <2> QED
    BY <2>1, <2>2
<1>5. /\ \A i \in 1..6 : c[i].why # Nothing
      /\ c[4].why = "type" /\ (c[4].refused <=> q.type # Nothing /\ q.type \notin Introduction!Range(d.types))
      /\ c[5].why = "credential" /\ (c[5].refused <=> q.credential /\ q.type \notin d.perCredential)
      /\ c[6].why = "key" /\ (c[6].refused <=> Introduction!Keyless)
  BY <1>2, <1>4, NothingIsNotThere
<1>6. /\ why = Nothing => \A i \in 1..6 : ~c[i].refused
      /\ why # Nothing => \E i \in 1..6 : c[i].refused /\ c[i].why = why
  BY <1>4, <1>5, RefusalIs
<1> HIDE DEF why
<1>7. CASE why = Nothing
  BY <1>4, <1>5, <1>6, <1>7 DEF why, c
<1>8. CASE why # Nothing
  <2>1. PICK i \in 1..6 : c[i].refused /\ c[i].why = why
    BY <1>6, <1>8
  <2>2. i = 1 \/ i = 2 \/ i = 3 \/ i = 4 \/ i = 5 \/ i = 6
    OBVIOUS
  <2> QED
    BY <1>4, <1>5, <1>8, <2>1, <2>2 DEF why, c
<1> QED
  BY <1>7, <1>8

\* An enroll.
LEMMA EnrollRefused ==
    ASSUME Introduction!Op = "enroll", NEW d
    PROVE  LET why == Introduction!Refusal(Introduction!Checks(d)) IN
           why # Nothing =>
            \/ why = "unadvertised" /\ "enroll" \notin d.commands
            \/ why = "identity" /\ ~Introduction!ValidIdentity(agent.identity, d)
            \/ why = "key" /\ Introduction!Keyless
            \/ why = "values" /\ ~Introduction!ValidClaimValues(Introduction!Sent(d))
<1> DEFINE b == <<Introduction!Check("key", Introduction!Keyless),
                  Introduction!Check("values", ~Introduction!ValidClaimValues(Introduction!Sent(d)))>>
           c == Introduction!Checks(d)
           why == Introduction!Refusal(c)
<1>1. Len(b) = 2 /\ DOMAIN b = 1..2 /\ DOMAIN b = 1..Len(b) /\ Len(b) \in Nat
  OBVIOUS
<1>2. /\ b[1].why = "key" /\ (b[1].refused <=> Introduction!Keyless)
      /\ b[2].why = "values" /\ (b[2].refused <=> ~Introduction!ValidClaimValues(Introduction!Sent(d)))
  BY CheckIs DEF Introduction!Keyless
<1>3. c = Introduction!Context(d) \o b
  BY DEF Introduction!Checks
<1> HIDE DEF b, c
<1>4. /\ DOMAIN c = 1..5
      /\ c[1].why = "unadvertised" /\ (c[1].refused <=> "enroll" \notin d.commands)
      /\ ~c[2].refused
      /\ c[3].why = "identity" /\ (c[3].refused <=> ~Introduction!ValidIdentity(agent.identity, d))
      /\ c[4] = b[1] /\ c[5] = b[2]
  <2>1. /\ DOMAIN c = 1..(3 + Len(b))
        /\ c[1].why = "unadvertised" /\ (c[1].refused <=> Introduction!Op \notin d.commands)
        /\ c[2].why = "unidentified" /\ (c[2].refused <=> Introduction!Op = "grant" /\ ~Introduction!Identified(d))
        /\ c[3].why = "identity" /\ (c[3].refused <=> ~Introduction!ValidIdentity(agent.identity, d))
        /\ \A i \in 1..Len(b) : c[3 + i] = b[i]
    <3>1. DOMAIN b = 1..Len(b) /\ Len(b) \in Nat
      BY <1>1
    <3> QED
      BY ONLY <1>3, <3>1, ContextFirst
  <2>2. DOMAIN c = 1..5 /\ c[4] = b[1] /\ c[5] = b[2]
    BY <1>1, <2>1
  <2> QED
    BY <2>1, <2>2
<1>5. why # Nothing => \E i \in 1..5 : c[i].refused /\ c[i].why = why
  BY <1>4, RefusalIs
<1> HIDE DEF why
<1>6. ASSUME why # Nothing, NEW i \in 1..5, c[i].refused, c[i].why = why
      PROVE  \/ why = "unadvertised" /\ "enroll" \notin d.commands
             \/ why = "identity" /\ ~Introduction!ValidIdentity(agent.identity, d)
             \/ why = "key" /\ Introduction!Keyless
             \/ why = "values" /\ ~Introduction!ValidClaimValues(Introduction!Sent(d))
  <2>1. i = 1 \/ i = 2 \/ i = 3 \/ i = 4 \/ i = 5
    OBVIOUS
  <2> QED
    BY <1>2, <1>4, <1>6, <2>1
<1> QED
  BY <1>5, <1>6 DEF why, c

\* A status.
LEMMA StatusRefused ==
    ASSUME Introduction!Op = "status", NEW d
    PROVE  LET why == Introduction!Refusal(Introduction!Checks(d)) IN
           why # Nothing =>
            \/ why = "unadvertised" /\ "status" \notin d.commands
            \/ why = "identity" /\ ~Introduction!ValidIdentity(agent.identity, d)
<1> DEFINE c == Introduction!Checks(d)
           why == Introduction!Refusal(c)
<1>1. c = Introduction!Context(d)
  BY DEF Introduction!Checks
<1> HIDE DEF c
<1>2. /\ DOMAIN c = 1..3
      /\ c[1].why = "unadvertised" /\ (c[1].refused <=> "status" \notin d.commands)
      /\ ~c[2].refused
      /\ c[3].why = "identity" /\ (c[3].refused <=> ~Introduction!ValidIdentity(agent.identity, d))
  <2> DEFINE p == Introduction!Op \notin d.commands
             r == Introduction!Op = "grant" /\ ~Introduction!Identified(d)
             v == ~Introduction!ValidIdentity(agent.identity, d)
  <2>1. /\ DOMAIN c = 1..3
        /\ c[1] = Introduction!Check("unadvertised", p)
        /\ c[2] = Introduction!Check("unidentified", r)
        /\ c[3] = Introduction!Check("identity", v)
    BY <1>1, ContextIs
  <2>2. p \in BOOLEAN /\ r \in BOOLEAN /\ v \in BOOLEAN /\ ~r
    OBVIOUS
  <2> HIDE DEF p, r, v
  <2>3. /\ c[1].why = "unadvertised" /\ (c[1].refused = p)
        /\ ~c[2].refused
        /\ c[3].why = "identity" /\ (c[3].refused = v)
    BY <2>1, <2>2, CheckIs
  <2> QED
    BY <2>1, <2>3 DEF p, v
<1>3. why # Nothing => \E i \in 1..3 : c[i].refused /\ c[i].why = why
  BY <1>2, RefusalIs
<1> HIDE DEF why
<1>4. ASSUME why # Nothing, NEW i \in 1..3, c[i].refused, c[i].why = why
      PROVE  \/ why = "unadvertised" /\ "status" \notin d.commands
             \/ why = "identity" /\ ~Introduction!ValidIdentity(agent.identity, d)
  <2>1. i = 1 \/ i = 2 \/ i = 3
    OBVIOUS
  <2> QED
    BY <1>2, <1>4, <2>1
<1> QED
  BY <1>3, <1>4 DEF why, c

\* The OpenAPI document, or a document of the Service.
LEMMA ReadRefused ==
    ASSUME Introduction!Op \in {"openapi", "document"}, NEW d
    PROVE  LET why == Introduction!Refusal(Introduction!Checks(d)) IN
           why # Nothing =>
            \/ why = "absent" /\ IF Introduction!Op = "document" THEN d.documents = Nothing ELSE d.openapi = Nothing
            \/ why = "openapi" /\ Introduction!Op = "openapi" /\ d.openapi # Nothing
                /\ ~Introduction!ResolveOpenApi(session, d.openapi.url, agent.loopback)
<1> DEFINE c == Introduction!Checks(d)
           why == Introduction!Refusal(c)
<1>1. CASE Introduction!Op = "openapi"
  <2> DEFINE b == <<Introduction!Check("absent", d.openapi = Nothing),
                    Introduction!Check("openapi", d.openapi # Nothing
                        /\ ~Introduction!ResolveOpenApi(session, d.openapi.url, agent.loopback))>>
  <2>1. c = b
    BY <1>1 DEF Introduction!Checks
  <2>2. Len(b) = 2 /\ DOMAIN b = 1..2
    OBVIOUS
  <2>3. /\ b[1].why = "absent" /\ (b[1].refused <=> d.openapi = Nothing)
        /\ b[2].why = "openapi"
        /\ b[2].refused <=> d.openapi # Nothing
                            /\ ~Introduction!ResolveOpenApi(session, d.openapi.url, agent.loopback)
    BY CheckIs
  <2> HIDE DEF b, c
  <2>4. why # Nothing => \E i \in 1..2 : c[i].refused /\ c[i].why = why
    BY <2>1, <2>2, RefusalIs
  <2> HIDE DEF why
  <2>5. ASSUME why # Nothing, NEW i \in 1..2, c[i].refused, c[i].why = why
        PROVE  \/ why = "absent" /\ d.openapi = Nothing
               \/ why = "openapi" /\ d.openapi # Nothing
                    /\ ~Introduction!ResolveOpenApi(session, d.openapi.url, agent.loopback)
    <3>1. i = 1 \/ i = 2
      OBVIOUS
    <3> QED
      BY <2>1, <2>3, <2>5, <3>1
  <2>6. why # Nothing =>
            \/ why = "absent" /\ d.openapi = Nothing
            \/ why = "openapi" /\ d.openapi # Nothing
                /\ ~Introduction!ResolveOpenApi(session, d.openapi.url, agent.loopback)
    BY <2>4, <2>5
  <2> QED
    BY <1>1, <2>6 DEF why, c
<1>2. CASE Introduction!Op = "document"
  <2>1. c = <<Introduction!Check("absent", d.documents = Nothing)>>
    BY <1>2 DEF Introduction!Checks
  <2>2. DOMAIN c = 1..1 /\ c[1] = Introduction!Check("absent", d.documents = Nothing)
    BY <2>1
  <2>3. c[1].why = "absent" /\ (c[1].refused <=> d.documents = Nothing)
    BY <2>2, CheckIs
  <2> HIDE DEF c
  <2>4. why # Nothing => \E i \in 1..1 : c[i].refused /\ c[i].why = why
    BY <2>2, RefusalIs
  <2> HIDE DEF why
  <2>5. why # Nothing => why = "absent" /\ d.documents = Nothing
    BY <2>3, <2>4
  <2> QED
    BY <1>2, <2>5 DEF why, c
<1> QED
  BY <1>1, <1>2

\* Of a Service that can be built and is where its DID says, an Agent goes by the document, and
\* what it refuses by itself has one of the reasons that are named.
LEMMA RefusalExplained ==
    ASSUME NEW s \in Configurations, Introduction!Builds(s), Introduction!Proper(s), session = s.at,
           call.request \in Wishes, Introduction!Recorded(s.did) # Nothing => s.did \in identified,
           Introduction!Refusal(Introduction!Checks(Introduction!Received(s))) # Nothing,
           NEW c, c.request = call.request,
           c.outcome = Introduction!Refusal(Introduction!Checks(Introduction!Received(s)))
    PROVE  Introduction!Explained(c, s)
<1> DEFINE d == Introduction!Received(s)
           why == Introduction!Refusal(Introduction!Checks(d))
           q == call.request
           types == Introduction!Range(Introduction!Types(s))
           wanted == IF q.selected # Nothing THEN {q.selected} ELSE Introduction!Range(q.preferred)
<1>1. /\ d.did = s.did /\ d.identities = s.identities /\ d.algorithms = s.algorithms
      /\ d.types = Introduction!Types(s)
      /\ d.perCredential
           = {s.grants[i].type : i \in {j \in DOMAIN s.grants : s.grants[j].config = "true"}}
      /\ {"enroll", "inspect", "status"} \subseteq d.commands
      /\ s.grants # <<>> => {"grant", "revoke"} \subseteq d.commands
      /\ d.documents = s.documents /\ d.openapi = s.openapi
  BY Publishes
<1>2. Introduction!ValidCommands(d) /\ Introduction!ValidIdentities(d)
  BY BuiltIsValid DEF Introduction!ValidDocument
<1>3. q.op \in {"enroll", "grant", "revoke", "status", "openapi", "document"} /\ Introduction!Op = q.op
  BY WishesHaveType DEF Introduction!Commands, Introduction!Op
<1> HIDE DEF d
<1>4. ASSUME ~Introduction!ValidIdentity(agent.identity, d), why = "identity"
      PROVE  Introduction!Explained(c, s)
  <2>1. {"EdDSA", "ES256"} \subseteq Introduction!Range(d.algorithms)
    BY <1>2 DEF Introduction!ValidIdentities
  <2>2. \/ "did:web" \notin Introduction!Range(s.identities) \cap {agent.identity.method}
        \/ agent.identity.algorithms \cap {"EdDSA", "ES256"} = {}
    BY <1>1, <1>4, <2>1 DEF Introduction!ValidIdentity
  <2>3. c.outcome = "identity"
    BY <1>4 DEF d
  <2> QED
    BY <2>2, <2>3 DEF Introduction!Explained
<1>5. ASSUME why = "unadvertised", q.op \in {"grant", "revoke"}, q.op \notin d.commands
      PROVE  Introduction!Explained(c, s)
  <2>1. s.grants = <<>> /\ c.outcome = "unadvertised"
    BY <1>1, <1>5 DEF d
  <2> QED
    BY <1>5, <2>1 DEF Introduction!Explained
<1>6. ASSUME why = "key", Introduction!Keyless
      PROVE  Introduction!Explained(c, s)
  <2>1. c.outcome = "key"
    BY <1>6 DEF d
  <2> QED
    BY <1>6, <2>1 DEF Introduction!Explained, Introduction!Keyless
<1>7. CASE q.op = "grant"
  <2>1. \/ why = "unadvertised" /\ "grant" \notin d.commands
        \/ why = "unidentified" /\ ~Introduction!Identified(d)
        \/ why = "identity" /\ ~Introduction!ValidIdentity(agent.identity, d)
        \/ why = "type" /\ Introduction!GrantType(d) = Nothing /\ "grant" \in d.commands
    BY <1>1, <1>3, <1>7, GrantRefused DEF d
  <2>2. ASSUME why = "unidentified", ~Introduction!Identified(d)
        PROVE  Introduction!Explained(c, s)
    <3>1. c.outcome = "unidentified"
      BY <2>2 DEF d
    <3> QED
      BY <1>1, <1>7, <2>2, <3>1 DEF Introduction!Explained, Introduction!Identified, Introduction!Commands
  <2>3. ASSUME why = "type", Introduction!GrantType(d) = Nothing, "grant" \in d.commands
        PROVE  Introduction!Explained(c, s)
    <3>1. IsList(q.preferred)
      BY <1>7, WishesHaveType
    <3>2. IsList(d.types) /\ \A i \in DOMAIN d.types : Nothing # d.types[i]
      BY <1>1, ConfigurationsHaveType, NothingIsNotThere DEF IsList, Introduction!Types
    <3>3. Introduction!SelectGrantType(d, q.selected, q.preferred) = Nothing
      BY <1>3, <1>7, <2>3 DEF Introduction!GrantType
    <3>4. (wanted = {} /\ types = {}) \/ (wanted # {} /\ wanted \cap types = {})
      <4>1. \/ wanted = {} /\ Introduction!Range(d.types) = {}
            \/ wanted # {} /\ wanted \cap Introduction!Range(d.types) = {}
        BY ONLY <3>1, <3>2, <3>3, SelectedType
      <4> QED
        BY <1>1, <4>1
    <3>5. types # {}
      <4>1. d.types # <<>>
        BY <1>2, <2>3 DEF Introduction!ValidCommands
      <4>2. DOMAIN d.types # {}
        <5>1. Len(d.types) \in Nat /\ DOMAIN d.types = 1..Len(d.types)
              /\ d.types = [i \in 1..Len(d.types) |-> d.types[i]]
          BY <3>2 DEF IsList
        <5>2. Len(d.types) # 0
          BY <4>1, <5>1
        <5>3. 1 \in DOMAIN d.types
          BY <5>1, <5>2
        <5> QED
          BY <5>3
      <4> QED
        BY <1>1, <4>2 DEF Introduction!Range
    <3>6. c.outcome = "type"
      BY <2>3 DEF d
    <3> QED
      BY <1>7, <3>4, <3>5, <3>6 DEF Introduction!Explained
  <2> QED
    BY <1>4, <1>5, <1>7, <2>1, <2>2, <2>3
<1>8. CASE q.op = "revoke"
  <2>1. \/ why = "unadvertised" /\ "revoke" \notin d.commands
        \/ why = "identity" /\ ~Introduction!ValidIdentity(agent.identity, d)
        \/ why = "type" /\ q.type \notin Introduction!Range(d.types)
        \/ why = "credential" /\ q.type \notin d.perCredential
        \/ why = "key" /\ Introduction!Keyless
    BY <1>3, <1>8, RevokeRefused DEF d
  <2>2. ASSUME why = "type", q.type \notin Introduction!Range(d.types)
        PROVE  Introduction!Explained(c, s)
    <3>1. c.outcome = "type" /\ q.type \notin types
      BY <1>1, <2>2 DEF d
    <3> QED
      BY <1>8, <3>1 DEF Introduction!Explained
  <2>3. ASSUME why = "credential", q.type \notin d.perCredential
        PROVE  Introduction!Explained(c, s)
    <3>1. c.outcome = "credential"
      BY <2>3 DEF d
    <3>2. [type |-> q.type, handled |-> TRUE, config |-> "true"] \notin Introduction!Range(s.grants)
      BY <1>1, <2>3 DEF Introduction!Range
    <3> QED
      BY <3>1, <3>2 DEF Introduction!Explained
  <2> QED
    BY <1>4, <1>5, <1>6, <1>8, <2>1, <2>2, <2>3
<1>9. CASE q.op = "enroll"
  <2>1. \/ why = "identity" /\ ~Introduction!ValidIdentity(agent.identity, d)
        \/ why = "key" /\ Introduction!Keyless
        \/ why = "values" /\ ~Introduction!ValidClaimValues(Introduction!Sent(d))
    BY <1>1, <1>3, <1>9, EnrollRefused DEF d
  <2>2. ASSUME why = "values", ~Introduction!ValidClaimValues(Introduction!Sent(d))
        PROVE  Introduction!Explained(c, s)
    <3>1. PICK n \in DOMAIN Introduction!Sent(d) : ~Introduction!WellFormed(n, Introduction!Sent(d)[n])
      BY <2>2 DEF Introduction!ValidClaimValues
    <3>2. n \in DOMAIN q.values /\ Introduction!Sent(d)[n] = q.values[n]
      BY <3>1 DEF Introduction!Sent, Introduction!Restrict, Introduction!Supportable
    <3>3. n \in Introduction!Patterned \cup Introduction!Texts /\ q.values[n] # "proper"
      BY <3>1, <3>2 DEF Introduction!WellFormed, Introduction!Patterned, Introduction!Texts
    <3>4. c.outcome = "values"
      BY <2>2 DEF d
    <3> QED
      BY <3>2, <3>3, <3>4 DEF Introduction!Explained
  <2> QED
    BY <1>4, <1>6, <2>1, <2>2
<1>10. CASE q.op = "status"
  <2>1. why = "identity" /\ ~Introduction!ValidIdentity(agent.identity, d)
    BY <1>1, <1>3, <1>10, StatusRefused DEF d
  <2> QED
    BY <1>4, <2>1
<1>11. CASE q.op \in {"openapi", "document"}
  <2>1. \/ why = "absent" /\ IF q.op = "document" THEN d.documents = Nothing ELSE d.openapi = Nothing
        \/ why = "openapi" /\ q.op = "openapi" /\ d.openapi # Nothing
            /\ ~Introduction!ResolveOpenApi(session, d.openapi.url, agent.loopback)
    BY <1>3, <1>11, ReadRefused DEF d
  <2>2. ASSUME why = "absent", IF q.op = "document" THEN d.documents = Nothing ELSE d.openapi = Nothing
        PROVE  Introduction!Explained(c, s)
    <3>1. c.outcome = "absent"
      BY <2>2 DEF d
    <3> QED
      BY <1>1, <2>2, <3>1 DEF Introduction!Explained
  <2>3. ASSUME why = "openapi", ~Introduction!ResolveOpenApi(session, d.openapi.url, agent.loopback)
        PROVE  Introduction!Explained(c, s)
    <3>1. c.outcome = "openapi"
      BY <2>3 DEF d
    <3>2. Introduction!Secure(session, agent.loopback)
      BY ProperOrigin
    <3>3. s.openapi.url \notin {"relative", "https"} \cup (IF agent.loopback THEN {"loopback"} ELSE {})
      BY <1>1, <2>3, <3>2 DEF Introduction!ResolveOpenApi
    <3> QED
      BY <3>1, <3>3 DEF Introduction!Explained
  <2> QED
    BY <2>1, <2>2, <2>3
<1> QED
  BY <1>3, <1>7, <1>8, <1>9, <1>10, <1>11

----------------------------------------------------------------------------
(***************************************************************************)
(* Introductions: what holds of an Agent and its call.                     *)
(***************************************************************************)

\* of NewCall
CallFields == {"request", "step", "document", "type", "outcome", "found", "of"}

\* The Service could be built.
ServiceKept == service \in Configurations /\ Introduction!Builds(service)
\* The session is at what the reference resolves to, and before there is one nothing is asked.
SessionKept ==
    IF reference = Nothing THEN session = Nothing /\ known = Nothing /\ call = Nothing
    ELSE session = Introduction!Resolve(reference, agent.loopback)
\* The Service has claims of the Agent only once the Agent has an identity for it.
AccountKept ==
    /\ DOMAIN enrolled \subseteq identified
    /\ \A id \in DOMAIN enrolled : enrolled[id] \subseteq ClaimsAsked

\* What an Agent has made sure of before it sends a command.
Wished ==
    LET q == call.request IN
    /\ q \in Wishes /\ q.op \in Introduction!Commands
    /\ call.document.did \in identified
    /\ q.op = "grant" =>
        /\ call.type = Introduction!SelectGrantType(call.document, q.selected, q.preferred)
        /\ call.type # Nothing
    /\ q.op = "revoke" => q.type = Nothing \/ q.type \in Introduction!Range(call.document.types)

\* A call that went by the Service's document ended for one of the reasons that are named.
WellGrounded ==
    Introduction!Proper(call.of) /\ session = call.of.at
        /\ call.document = Introduction!Received(call.of) => Introduction!Explained(call, call.of)

\* What an application is told of an operation that it looks up.
LookedUp ==
    LET q == call.request
        at == Introduction!Api!MatchPath(q.templates, q.path, call.document.openapi.equivalent)
    IN
    /\ q \in Operations /\ call.of = Nothing
    /\ call.found = [at |-> at, security |-> IF at = 0 THEN Nothing
                        ELSE Introduction!Api!ResolveSecurity(q.root, q.security[at], q.supported)]

\* The call under way, at each of its steps.
CallKept ==
    call # Nothing =>
        /\ DOMAIN call = CallFields
        /\ call.step = "inspect" => call.request \in Wishes
        /\ call.step = "command" => Wished
        /\ call.step = "ended" => (call.request \in Wishes /\ (call.of # Nothing => WellGrounded)) \/ LookedUp

EncounterInv == ServiceKept /\ SessionKept /\ AccountKept /\ CallKept

\* What ends a call ends it at the Service as it is.
LEMMA EndedIs ==
    ASSUME DOMAIN call = CallFields, NEW outcome
    PROVE  LET c == Introduction!Ended(outcome) IN
           /\ DOMAIN c = CallFields
           /\ c.step = "ended" /\ c.outcome = outcome /\ c.of = service
           /\ c.request = call.request /\ c.document = call.document
           /\ c.type = call.type /\ c.found = call.found
BY DEF Introduction!Ended, CallFields

\* What a Service has recorded of an Agent.
LEMMA OnRecord ==
    ASSUME AccountKept, NEW id
    PROVE  /\ Introduction!Recorded(id) = Nothing \/ Introduction!Recorded(id) \subseteq ClaimsAsked
           /\ Introduction!Recorded(id) # Nothing => id \in identified
BY DEF AccountKept, Introduction!Recorded

\* A call that goes by a document.
LEMMA GoByKeeps ==
    ASSUME EncounterInv, Introduction!At("inspect"), NEW d, Introduction!GoBy(d),
           UNCHANGED <<service, agent, session, enrolled>>
    PROVE  CallKept' /\ AccountKept'
<1> DEFINE q == call.request
           refusal == IF ~Introduction!ValidDocument(d) THEN "unread"
                      ELSE IF ~Introduction!Bound(d, session, agent.loopback) THEN "unbound"
                      ELSE Introduction!Refusal(Introduction!Checks(d))
           asks == refusal = Nothing /\ Introduction!Op \in Introduction!Commands
           result == IF refusal = Nothing THEN "ok" ELSE refusal
           found == IF refusal = Nothing /\ Introduction!Op = "document"
                    THEN Introduction!ReadDocument(d.documents[1], q.reply) ELSE Nothing
           type == IF asks THEN Introduction!GrantType(d) ELSE Nothing
           left == IF asks THEN [call EXCEPT !.step = "command"] ELSE Introduction!Ended(result)
<1>1. DOMAIN call = CallFields /\ q \in Wishes /\ Introduction!Op = q.op /\ call # Nothing
  BY DEF EncounterInv, CallKept, Introduction!At, Introduction!Op
<1>2. /\ call' = [left EXCEPT !.document = d, !.found = found, !.type = type]
      /\ identified' = IF asks \/ refusal \in {"type", "credential", "key", "values"}
                       THEN identified \cup {d.did} ELSE identified
  BY DEF Introduction!GoBy
<1>3. refusal = Nothing =>
        /\ Introduction!ValidDocument(d) /\ Introduction!Bound(d, session, agent.loopback)
        /\ Introduction!Refusal(Introduction!Checks(d)) = Nothing
  BY NothingIsNotThere
<1> HIDE DEF refusal, found, type
<1>4. /\ asks => left = [call EXCEPT !.step = "command"]
      /\ ~asks => left = Introduction!Ended(result)
  OBVIOUS
<1> HIDE DEF left, asks, result
<1>5. DOMAIN left = CallFields /\ left.request = q
  <2>1. CASE asks
    BY <1>1, <1>4, <2>1 DEF CallFields
  <2>2. CASE ~asks
    BY <1>1, <1>4, <2>2, EndedIs
  <2> QED
    BY <2>1, <2>2
<1>6. /\ DOMAIN call' = CallFields /\ call'.request = q /\ call'.document = d
      /\ call'.found = found /\ call'.type = type
      /\ call'.step = left.step /\ call'.outcome = left.outcome /\ call'.of = left.of
  BY <1>2, <1>5 DEF CallFields
<1>7. AccountKept'
  BY <1>2 DEF EncounterInv, AccountKept
<1>8. CASE asks
  <2>1. refusal = Nothing /\ q.op \in Introduction!Commands /\ call'.step = "command"
        /\ type = Introduction!GrantType(d) /\ d.did \in identified'
    BY <1>1, <1>2, <1>4, <1>6, <1>8 DEF asks, type, CallFields
  <2>2. Introduction!Refusal(Introduction!Checks(d)) = Nothing
    BY <1>3, <2>1
  <2>3. ASSUME q.op = "grant"
        PROVE  /\ call'.type = Introduction!SelectGrantType(d, q.selected, q.preferred)
               /\ call'.type # Nothing
    <3>1. Introduction!GrantType(d) # Nothing
      BY <1>1, <2>2, <2>3, GrantRefused
    <3>2. Introduction!GrantType(d) = Introduction!SelectGrantType(d, q.selected, q.preferred)
      BY <1>1, <2>3 DEF Introduction!GrantType
    <3> QED
      BY <1>6, <2>1, <3>1, <3>2
  <2>4. ASSUME q.op = "revoke"
        PROVE  q.type = Nothing \/ q.type \in Introduction!Range(d.types)
    BY <1>1, <2>2, <2>4, RevokeRefused
  <2>5. Wished'
    <3>1. /\ call'.request \in Wishes /\ call'.request.op \in Introduction!Commands
          /\ call'.document.did \in identified'
          /\ call'.request.op = "grant" =>
                /\ call'.type = Introduction!SelectGrantType(call'.document, call'.request.selected,
                                                            call'.request.preferred)
                /\ call'.type # Nothing
          /\ call'.request.op = "revoke" =>
                call'.request.type = Nothing \/ call'.request.type \in Introduction!Range(call'.document.types)
      BY <1>1, <1>6, <2>1, <2>3, <2>4
    <3> QED
      BY <3>1 DEF Wished, Introduction!Commands
  <2> QED
    BY <1>6, <1>7, <2>1, <2>5 DEF CallKept
<1>9. CASE ~asks
  <2>1. left = Introduction!Ended(result)
    BY <1>4, <1>9
  <2>2. call'.step = "ended" /\ call'.outcome = result /\ call'.of = service
    BY <1>1, <1>6, <2>1, EndedIs
  <2>3. ASSUME Introduction!Proper(service), session = service.at, d = Introduction!Received(service)
        PROVE  Introduction!Explained(call', service)
    <3>1. /\ service \in Configurations /\ Introduction!Builds(service)
          /\ Introduction!Recorded(service.did) # Nothing => service.did \in identified
      BY OnRecord DEF EncounterInv, ServiceKept
    <3>2. Introduction!ValidDocument(d)
      BY <2>3, <3>1, BuiltIsValid
    <3>3. Introduction!Bound(d, session, agent.loopback)
      <4>1. d.did = service.did
        BY <2>3, <3>1, Publishes
      <4> QED
        BY <2>3, <3>1, <4>1, ProperOrigin DEF Introduction!Bound
    <3>4. refusal = Introduction!Refusal(Introduction!Checks(d))
      BY <3>2, <3>3 DEF refusal
    <3>5. CASE refusal # Nothing
      <4>1. result = refusal
        BY <3>5 DEF result
      <4>2. /\ Introduction!Refusal(Introduction!Checks(Introduction!Received(service))) # Nothing
            /\ call'.request = call.request
            /\ call'.outcome = Introduction!Refusal(Introduction!Checks(Introduction!Received(service)))
        BY <1>6, <2>2, <2>3, <3>4, <3>5, <4>1
      <4>3. call.request \in Wishes
        BY <1>1
      <4> QED
        BY <2>3, <3>1, <4>2, <4>3, RefusalExplained
    <3>6. CASE refusal = Nothing
      <4>1. q.op \in {"openapi", "document"} /\ result = "ok"
        BY <1>1, <1>9, <3>6, WishesHaveType DEF asks, result
      <4>2. q.op = "document" /\ call'.found = "document" => q.reply.document.id = service.documents[1].id
        <5>1. SUFFICES ASSUME q.op = "document", call'.found = "document"
                       PROVE  q.reply.document.id = service.documents[1].id
          OBVIOUS
        <5>2. Introduction!ReadDocument(d.documents[1], q.reply) = "document"
          BY <1>1, <1>6, <3>6, <5>1 DEF found
        <5>3. q.reply.document.id = d.documents[1].id
          BY <5>2 DEF Introduction!ReadDocument, Introduction!ReadsPortable
        <5> QED
          BY <2>3, <3>1, <5>3, Publishes
      <4> QED
        BY <1>6, <2>2, <4>1, <4>2 DEF Introduction!Explained
    <3> QED
      BY <3>5, <3>6
  <2>4. WellGrounded'
    BY <1>6, <2>2, <2>3 DEF WellGrounded, Introduction!Proper, Introduction!Explained, Introduction!Received, Introduction!Recorded
  <2> QED
    BY <1>1, <1>6, <1>7, <2>2, <2>4 DEF CallKept
<1> QED
  BY <1>8, <1>9

\* Of some of the things of a finite set there are no more.
LEMMA NoMoreThan ==
    ASSUME NEW S, IsFiniteSet(S), NEW T, T \subseteq S
    PROVE  /\ Introduction!Cardinality(T) = Cardinality(T)
           /\ Cardinality(T) \in Nat /\ Cardinality(S) \in Nat /\ Cardinality(T) <= Cardinality(S)
<1>1. Introduction!Cardinality(T) = Cardinality(T)
  BY DEF Introduction!Cardinality, Cardinality
<1>2. IsFiniteSet(T) /\ Cardinality(T) <= Cardinality(S)
  BY FS_Subset
<1> QED
  BY <1>1, <1>2, FS_CardinalityType

\* The Service answers: what every ended call has, and when it is explained.
LEMMA Answered ==
    ASSUME EncounterInv, Introduction!At("command"), NEW outcome,
           call' = Introduction!Ended(outcome), UNCHANGED <<service, agent, session>>,
           session = service.at /\ call.document = Introduction!Received(service) =>
                Introduction!Explained(call, service)'
    PROVE  CallKept'
<1>1. DOMAIN call = CallFields /\ call.request \in Wishes
  BY DEF EncounterInv, CallKept, Wished, Introduction!At
<1>2. /\ DOMAIN call' = CallFields
      /\ call'.step = "ended" /\ call'.of = service
      /\ call'.request = call.request /\ call'.document = call.document
  BY <1>1, EndedIs
<1>3. WellGrounded'
  <2>1. SUFFICES ASSUME session' = call'.of.at, call'.document = Introduction!Received(call'.of)
                 PROVE  Introduction!Explained(call, call.of)'
    BY DEF WellGrounded
  <2>2. call'.of = service /\ service' = service
    BY <1>2
  <2>3. Introduction!Explained(call, service)'
    BY <1>2, <2>1, <2>2
  <2> QED
    BY <2>2, <2>3 DEF Introduction!Explained
<1> QED
  BY <1>1, <1>2, <1>3 DEF CallKept

\* What a Service finds in a command that goes by its document.
LEMMA Commanded ==
    ASSUME EncounterInv, Introduction!At("command")
    PROVE  LET q == call.request IN
           /\ DOMAIN call = CallFields /\ q \in Wishes /\ call.document.did \in identified
           /\ call.document = Introduction!Received(service) =>
                /\ call.document.types = Introduction!Types(service)
                /\ call.document.claims = service.claims
           /\ q.op = "grant" =>
                LET types == Introduction!Range(call.document.types)
                    wanted == IF q.selected # Nothing THEN {q.selected} ELSE Introduction!Range(q.preferred)
                IN call.document = Introduction!Received(service) =>
                    call.type \in types /\ (wanted = {} \/ call.type \in wanted)
<1> DEFINE q == call.request
           d == call.document
<1>1. DOMAIN call = CallFields /\ Wished /\ service \in Configurations
  BY DEF EncounterInv, CallKept, ServiceKept, Introduction!At
<1>2. d = Introduction!Received(service) => d.types = Introduction!Types(service) /\ d.claims = service.claims
  BY <1>1, Publishes
<1>3. ASSUME q.op = "grant", d = Introduction!Received(service)
      PROVE  /\ call.type \in Introduction!Range(d.types)
             /\ LET wanted == IF q.selected # Nothing THEN {q.selected} ELSE Introduction!Range(q.preferred)
                IN wanted = {} \/ call.type \in wanted
  <2>1. IsList(q.preferred)
    BY <1>1, <1>3, WishesHaveType DEF Wished
  <2>2. IsList(d.types) /\ \A i \in DOMAIN d.types : Nothing # d.types[i]
    BY <1>1, <1>2, <1>3, ConfigurationsHaveType, NothingIsNotThere DEF IsList, Introduction!Types
  <2>3. call.type = Introduction!SelectGrantType(d, q.selected, q.preferred) /\ call.type # Nothing
    BY <1>1, <1>3 DEF Wished
  <2> HIDE DEF d, q
  <2>4. LET wanted == IF q.selected # Nothing THEN {q.selected} ELSE Introduction!Range(q.preferred)
            type == Introduction!SelectGrantType(d, q.selected, q.preferred)
        IN type # Nothing => type \in Introduction!Range(d.types) /\ (wanted = {} \/ type \in wanted)
    BY ONLY <2>1, <2>2, SelectedType
  <2> QED
    BY <2>3, <2>4
<1> QED
  BY <1>1, <1>2, <1>3 DEF Wished

\* enroll, with the claims that the Agent can give
LEMMA EnrollKeeps ==
    ASSUME EncounterInv, Introduction!Enroll
    PROVE  CallKept' /\ AccountKept'
<1> DEFINE q == call.request
           sent == DOMAIN Introduction!Sent(call.document)
           own == service.did
           had == Introduction!Recorded(own)
           claims == IF had = Nothing THEN sent ELSE had \cup sent
           saved == Introduction!Saved(claims)
           size == [q.size EXCEPT !.members = Introduction!Cardinality(sent)]
<1>1. PICK update \in BOOLEAN :
        LET judged == had = Nothing \/ update IN
        IF ~Introduction!WithinLimits(size, service.limits)
        THEN call' = Introduction!Ended("invalid") /\ enrolled' = enrolled
        ELSE IF judged /\ ~(Introduction!Required(service) \subseteq claims)
        THEN call' = Introduction!Ended("requirements") /\ enrolled' = enrolled
        ELSE call' = Introduction!Ended("ok") /\ enrolled' = IF judged THEN saved ELSE enrolled
  BY DEF Introduction!Enroll, Introduction!Claimed
<1>2. /\ UNCHANGED <<service, agent, session, identified>>
      /\ Introduction!At("command") /\ q.op = "enroll" /\ call.document.did = own
  BY DEF Introduction!Enroll, Introduction!Asked, Introduction!configuration, Introduction!Op
<1>3. /\ DOMAIN call = CallFields /\ q \in Wishes /\ own \in identified
      /\ service \in Configurations
      /\ had = Nothing \/ had \subseteq ClaimsAsked
      /\ call.document = Introduction!Received(service) => call.document.claims = service.claims
  BY <1>2, Commanded, OnRecord DEF EncounterInv, ServiceKept
<1>4. sent \subseteq DOMAIN q.values /\ DOMAIN q.values \subseteq ClaimsAsked
  BY <1>2, <1>3 DEF Introduction!Sent, Introduction!Restrict, Introduction!Supportable, ClaimsAsked
<1>5. sent = DOMAIN q.values
                \cap UNION {Introduction!Range(call.document.claims[group]) : group \in DOMAIN call.document.claims}
  BY DEF Introduction!Sent, Introduction!Restrict, Introduction!Supportable
<1> HIDE DEF sent
<1>6. /\ DOMAIN Introduction!Ended("invalid") = CallFields
      /\ \A outcome \in {"invalid", "requirements", "ok"} :
            LET c == Introduction!Ended(outcome) IN c.outcome = outcome /\ c.request = q
  BY <1>3, EndedIs
<1>7. CASE call' = Introduction!Ended("invalid") /\ enrolled' = enrolled
            /\ ~Introduction!WithinLimits(size, service.limits)
  <2>1. PICK m \in DOMAIN service.limits : ~(size[m] <= service.limits[m])
    BY <1>7 DEF Introduction!WithinLimits
  <2>2. /\ IsFiniteSet(DOMAIN q.values) /\ "members" \in DOMAIN q.size
        /\ q.size.members = Cardinality(DOMAIN q.values)
        /\ m \in DOMAIN q.size /\ q.size[m] \in Nat /\ service.limits[m] \in Nat
    BY <1>2, <1>3, <2>1, WishesHaveType, ConfigurationsHaveType
  <2>3. q.size[m] > service.limits[m]
    <3>1. Introduction!Cardinality(sent) \in Nat /\ Introduction!Cardinality(sent) <= q.size.members
      BY <1>4, <2>2, NoMoreThan
    <3>2. IF m = "members" THEN size[m] = Introduction!Cardinality(sent) ELSE size[m] = q.size[m]
      BY <2>2
    <3> QED
      BY <2>1, <2>2, <3>1, <3>2
  <2>4. Introduction!Explained(call, service)'
    BY <1>2, <1>6, <1>7, <2>1, <2>2, <2>3 DEF Introduction!Explained
  <2>5. CallKept'
    BY <1>2, <1>7, <2>4, Answered
  <2> QED
    BY <1>2, <1>7, <2>5 DEF EncounterInv, AccountKept
<1>8. CASE call' = Introduction!Ended("requirements") /\ enrolled' = enrolled
            /\ ~(Introduction!Required(service) \subseteq claims)
  <2>1. ASSUME call.document = Introduction!Received(service)
        PROVE  Introduction!Explained(call, service)'
    <3>1. PICK x \in Introduction!Required(service) : x \notin claims
      BY <1>8
    <3>2. x \notin DOMAIN q.values
      <4>1. call.document.claims = service.claims /\ "required" \in DOMAIN service.claims
        BY <1>3, <2>1, ConfigurationsHaveType
      <4>2. x \in Introduction!Range(call.document.claims["required"])
        BY <3>1, <4>1 DEF Introduction!Required
      <4> QED
        BY <1>5, <3>1, <4>1, <4>2
    <3>3. had # Nothing => x \notin had
      BY <3>1
    <3>4. ~(Introduction!Required(service)
                \subseteq (IF had = Nothing THEN {} ELSE had) \cup DOMAIN q.values)
      BY <3>1, <3>2, <3>3
    <3>5. (Introduction!Required(service))' = Introduction!Required(service)
      BY <1>2 DEF Introduction!Required, Introduction!Range
    <3> QED
      BY <1>2, <1>6, <1>8, <3>4, <3>5 DEF Introduction!Explained, Introduction!Recorded
  <2>2. CallKept'
    BY <1>2, <1>8, <2>1, Answered
  <2> QED
    BY <1>2, <1>8, <2>2 DEF EncounterInv, AccountKept
<1>9. CASE call' = Introduction!Ended("ok") /\ enrolled' \in {saved, enrolled}
            /\ (had = Nothing => enrolled' = saved)
  <2>1. claims \subseteq ClaimsAsked
    BY <1>3, <1>4
  <2>2. claims # Nothing
    BY <2>1, NothingIsNotThere
  <2>3. /\ DOMAIN enrolled' = DOMAIN enrolled \cup {own}
        /\ enrolled'[own] \subseteq ClaimsAsked
        /\ \A other \in DOMAIN enrolled \ {own} : enrolled'[other] = enrolled[other]
    <3>1. /\ DOMAIN saved = DOMAIN enrolled \cup {own} /\ saved[own] = claims
          /\ \A other \in DOMAIN enrolled \ {own} : saved[other] = enrolled[other]
      BY DEF Introduction!Saved
    <3>2. CASE enrolled' = saved
      <4> HIDE DEF saved, claims
      <4> QED
        BY <2>1, <3>1, <3>2
    <3>3. CASE enrolled' = enrolled /\ had # Nothing
      <4>1. own \in DOMAIN enrolled
        BY <3>3 DEF Introduction!Recorded
      <4>2. enrolled[own] \subseteq ClaimsAsked
        BY <4>1 DEF EncounterInv, AccountKept
      <4> QED
        BY <3>3, <4>1, <4>2
    <3> HIDE DEF saved, claims, had
    <3> QED
      BY <1>9, <3>2, <3>3
  <2>r. (Introduction!Recorded(service.did))' # Nothing
    <3>1. own \in DOMAIN enrolled' /\ service' = service
      BY <1>2, <2>3
    <3>2. (Introduction!Recorded(service.did))' = enrolled'[own]
      BY <3>1 DEF Introduction!Recorded
    <3>3. enrolled'[own] # Nothing
      BY <2>3, NothingIsNotThere
    <3> QED
      BY <3>2, <3>3
  <2>4. Introduction!Explained(call, service)'
    BY <1>2, <1>6, <1>9, <2>r DEF Introduction!Explained
  <2>5. CallKept'
    BY <1>2, <1>9, <2>4, Answered
  <2> QED
    BY <1>2, <1>3, <2>3, <2>5 DEF EncounterInv, AccountKept
<1> HIDE DEF saved, claims, had, size
<1> QED
  BY <1>1, <1>7, <1>8, <1>9

\* grant, of a type that the Agent has selected from those published
LEMMA GrantKeeps ==
    ASSUME EncounterInv, Introduction!Grant
    PROVE  CallKept'
<1> DEFINE q == call.request
           outcome == IF Introduction!Recorded(service.did) = Nothing THEN "unenrolled"
                      ELSE IF Introduction!Keyless THEN "key"
                      ELSE IF call.type \notin Introduction!Range(Introduction!Types(service)) THEN "unsupported"
                      ELSE IF ~(Introduction!Required(service) \subseteq Introduction!Recorded(service.did)) THEN "requirements" ELSE "ok"
<1>1. /\ UNCHANGED <<service, agent, session, identified, enrolled>>
      /\ Introduction!At("command") /\ q.op = "grant"
      /\ call' = Introduction!Ended(outcome)
  BY DEF Introduction!Grant, Introduction!Asked, Introduction!Claimed, Introduction!configuration, Introduction!Op
<1>2. DOMAIN call = CallFields
  BY <1>1, Commanded
<1>3. call'.outcome = outcome /\ call'.request = q /\ call'.type = call.type
  BY <1>1, <1>2, EndedIs
<1>4. ASSUME call.document = Introduction!Received(service)
      PROVE  Introduction!Explained(call, service)'
  <2> DEFINE types == Introduction!Range(Introduction!Types(service))
             wanted == IF q.selected # Nothing THEN {q.selected} ELSE Introduction!Range(q.preferred)
  <2>1. call.type \in types /\ (wanted = {} \/ call.type \in wanted)
    BY <1>1, <1>4, Commanded
  <2>2. /\ outcome = "unenrolled" => Introduction!Recorded(service.did) = Nothing
        /\ outcome = "key" => (IF q.key = Nothing THEN agent.keys ELSE q.key) = "blank"
        /\ outcome = "requirements" => Introduction!Recorded(service.did) # Nothing
                /\ ~(Introduction!Required(service) \subseteq Introduction!Recorded(service.did))
        /\ outcome \in {"unenrolled", "key", "requirements", "ok"}
    BY <2>1 DEF Introduction!Keyless
  <2>3. /\ (Introduction!Required(service))' = Introduction!Required(service)
        /\ (Introduction!Range(Introduction!Types(service)))' = types
    BY <1>1 DEF Introduction!Required, Introduction!Range, Introduction!Types
  <2> HIDE DEF outcome, types
  <2>4. CASE outcome = "unenrolled"
    BY <1>1, <1>3, <2>2, <2>4 DEF Introduction!Explained, Introduction!Commands, Introduction!Recorded
  <2>5. CASE outcome = "key"
    BY <1>1, <1>3, <2>2, <2>5 DEF Introduction!Explained
  <2>6. CASE outcome = "requirements"
    BY <1>1, <1>3, <2>2, <2>3, <2>6 DEF Introduction!Explained, Introduction!Recorded
  <2>7. CASE outcome = "ok"
    BY <1>1, <1>3, <2>1, <2>3, <2>7 DEF Introduction!Explained, types
  <2> QED
    BY <2>2, <2>4, <2>5, <2>6, <2>7
<1> QED
  BY <1>1, <1>4, Answered

\* revoke, of a type that was published or of all
LEMMA RevokeKeeps ==
    ASSUME EncounterInv, Introduction!Revoke
    PROVE  CallKept'
<1> DEFINE q == call.request
           outcome == IF Introduction!Recorded(service.did) = Nothing THEN "unenrolled"
                      ELSE IF q.type # Nothing /\ q.type \notin Introduction!Range(Introduction!Types(service))
                      THEN "unsupported" ELSE "ok"
<1>1. /\ UNCHANGED <<service, agent, session, identified, enrolled>>
      /\ Introduction!At("command") /\ q.op = "revoke"
      /\ call' = Introduction!Ended(outcome)
  BY DEF Introduction!Revoke, Introduction!Asked, Introduction!Claimed, Introduction!configuration, Introduction!Op
<1>2. DOMAIN call = CallFields /\ Wished
  BY <1>1, Commanded DEF EncounterInv, CallKept, Introduction!At
<1>3. call'.outcome = outcome /\ call'.request = q
  BY <1>1, <1>2, EndedIs
<1>4. ASSUME call.document = Introduction!Received(service)
      PROVE  Introduction!Explained(call, service)'
  <2>1. call.document.types = Introduction!Types(service)
    BY <1>1, <1>4, Commanded
  <2>2. q.type = Nothing \/ q.type \in Introduction!Range(Introduction!Types(service))
    BY <1>1, <1>2, <2>1 DEF Wished
  <2>3. outcome \in {"unenrolled", "ok"} /\ (outcome = "unenrolled" => Introduction!Recorded(service.did) = Nothing)
    BY <2>2
  <2> HIDE DEF outcome
  <2> QED
    BY <1>1, <1>3, <2>3 DEF Introduction!Explained, Introduction!Commands, Introduction!Recorded
<1> QED
  BY <1>1, <1>4, Answered

\* status, which only an Agent that has not enrolled is refused
LEMMA StatusKeeps ==
    ASSUME EncounterInv, Introduction!Status
    PROVE  CallKept'
<1> DEFINE outcome == IF Introduction!Recorded(service.did) = Nothing THEN "unenrolled" ELSE "ok"
<1>1. /\ UNCHANGED <<service, agent, session, identified, enrolled>>
      /\ Introduction!At("command") /\ call.request.op = "status"
      /\ call' = Introduction!Ended(outcome)
  BY DEF Introduction!Status, Introduction!Asked, Introduction!Claimed, Introduction!configuration, Introduction!Op
<1>2. DOMAIN call = CallFields
  BY <1>1, Commanded
<1>3. call'.outcome = outcome /\ call'.request = call.request
  BY <1>1, <1>2, EndedIs
<1>4. Introduction!Explained(call, service)'
  BY <1>1, <1>3 DEF Introduction!Explained, Introduction!Commands, Introduction!Recorded
<1> QED
  BY <1>1, <1>4, Answered

\* A call that finds another Service, or none, at the session's URL; and a command that goes
\* by the document of a Service of another DID.
LEMMA MissKeeps ==
    ASSUME EncounterInv, Introduction!Miss \/ Introduction!Misdirected
    PROVE  CallKept'
<1> DEFINE outcome == IF Introduction!Miss THEN "unreached" ELSE "unauthenticated"
<1>1. /\ UNCHANGED <<service, agent, session, identified, enrolled>>
      /\ session # service.at \/ call.document.did # service.did
      /\ Introduction!At("inspect") \/ Introduction!At("command")
      /\ call' = Introduction!Ended(outcome)
  BY DEF Introduction!Miss, Introduction!Misdirected, Introduction!configuration
<1> HIDE DEF outcome
<1>d. call.document = Introduction!Received(service) => call.document.did = service.did
  BY Publishes DEF EncounterInv, ServiceKept
<1>2. DOMAIN call = CallFields /\ call.request \in Wishes
  BY <1>1 DEF EncounterInv, CallKept, Wished, Introduction!At
<1>3. /\ DOMAIN call' = CallFields /\ call'.step = "ended" /\ call'.of = service
      /\ call'.request = call.request /\ call'.document = call.document
  BY <1>1, <1>2, EndedIs
<1>4. WellGrounded'
  <2>1. ~(session' = call'.of.at /\ call'.document = Introduction!Received(service))
    BY <1>1, <1>3, <1>d
  <2>2. (Introduction!Received(call.of))' = Introduction!Received(service)
    BY <1>1, <1>3
  <2> QED
    BY <1>3, <2>1, <2>2 DEF WellGrounded
<1> QED
  BY <1>2, <1>3, <1>4 DEF CallKept

\* An operation that is looked up.
LEMMA LookUpKeeps ==
    ASSUME EncounterInv, Introduction!LookUp
    PROVE  CallKept'
<1>1. PICK q \in Operations :
        LET at == Introduction!Api!MatchPath(q.templates, q.path, known.openapi.equivalent) IN
        call' = [Introduction!NewCall(q) EXCEPT
                    !.step = "ended", !.document = known,
                    !.found = [at |-> at, security |-> IF at = 0 THEN Nothing
                                ELSE Introduction!Api!ResolveSecurity(q.root, q.security[at], q.supported)]]
  BY DEF Introduction!LookUp
<1> DEFINE at == Introduction!Api!MatchPath(q.templates, q.path, known.openapi.equivalent)
           found == [at |-> at, security |-> IF at = 0 THEN Nothing
                                ELSE Introduction!Api!ResolveSecurity(q.root, q.security[at], q.supported)]
<1>2. call' = [Introduction!NewCall(q) EXCEPT !.step = "ended", !.document = known, !.found = found]
  BY <1>1
<1> HIDE DEF found
<1>3. /\ DOMAIN call' = CallFields /\ call'.step = "ended" /\ call'.of = Nothing
      /\ call'.request = q /\ call'.document = known /\ call'.found = found
  BY <1>2 DEF Introduction!NewCall, CallFields
<1>4. LookedUp'
  BY <1>3 DEF LookedUp, found
<1> QED
  BY <1>3, <1>4 DEF CallKept

\* The invariant holds at first.
LEMMA EncounterInit == Introduction!Init => EncounterInv
BY DEF Introduction!Init, EncounterInv, ServiceKept, SessionKept, AccountKept, CallKept, Configurations

\* Every step keeps it.
LEMMA EncounterStep == EncounterInv /\ [Introduction!Next]_Introduction!vars => EncounterInv'
<1> SUFFICES ASSUME EncounterInv, [Introduction!Next]_Introduction!vars PROVE EncounterInv'
  OBVIOUS
<1> USE DEF Introduction!configuration
<1>1. CASE Introduction!Open
  <2>1. /\ reference' \in References /\ session' = Introduction!Resolve(reference', agent.loopback)
        /\ UNCHANGED <<service, agent, known, identified, enrolled, call>>
        /\ reference = Nothing
    BY <1>1 DEF Introduction!Open
  <2>2. call = Nothing /\ reference' # Nothing
    BY <2>1, NothingIsNotThere DEF EncounterInv, SessionKept
  <2>3. SessionKept'
    BY <2>1, <2>2 DEF SessionKept
  <2> QED
    BY <2>1, <2>2, <2>3 DEF EncounterInv, ServiceKept, AccountKept, CallKept
<1>2. CASE Introduction!Begin
  <2>1. PICK q \in Wishes : call' = Introduction!NewCall(q)
    BY <1>2 DEF Introduction!Begin
  <2>2. /\ UNCHANGED <<service, agent, reference, session, known, identified, enrolled>>
        /\ session # Nothing
    BY <1>2 DEF Introduction!Begin
  <2>3. CallKept'
    BY <2>1 DEF Introduction!NewCall, CallKept, CallFields
  <2> QED
    BY <2>2, <2>3 DEF EncounterInv, ServiceKept, SessionKept, AccountKept
<1>3. CASE Introduction!Reuse \/ Introduction!Fetch
  <2>1. PICK d : Introduction!GoBy(d)
    BY <1>3 DEF Introduction!Reuse, Introduction!Fetch
  <2>2. /\ UNCHANGED <<service, agent, reference, session, enrolled>>
        /\ Introduction!At("inspect") /\ call # Nothing
    BY <1>3 DEF Introduction!Reuse, Introduction!Fetch, Introduction!At
  <2>3. CallKept' /\ AccountKept'
    BY <2>1, <2>2, GoByKeeps
  <2> QED
    BY <2>2, <2>3 DEF EncounterInv, ServiceKept, SessionKept
<1>4. CASE Introduction!Miss \/ Introduction!Misdirected \/ Introduction!Grant \/ Introduction!Revoke \/ Introduction!Status
  <2>1. UNCHANGED <<service, agent, reference, session, known, identified, enrolled>> /\ call # Nothing
    BY <1>4 DEF Introduction!Miss, Introduction!Misdirected, Introduction!Grant, Introduction!Revoke, Introduction!Status,
                Introduction!At, Introduction!Asked
  <2>2. CallKept'
    BY <1>4, MissKeeps, GrantKeeps, RevokeKeeps, StatusKeeps
  <2> QED
    BY <2>1, <2>2 DEF EncounterInv, ServiceKept, SessionKept, AccountKept
<1>5. CASE Introduction!Enroll
  <2>1. UNCHANGED <<service, agent, reference, session, known, identified>> /\ call # Nothing
    BY <1>5 DEF Introduction!Enroll, Introduction!At, Introduction!Asked
  <2>2. CallKept' /\ AccountKept'
    BY <1>5, EnrollKeeps
  <2> QED
    BY <2>1, <2>2 DEF EncounterInv, ServiceKept, SessionKept
<1>6. CASE Introduction!LookUp
  <2>1. UNCHANGED <<service, agent, reference, session, known, identified, enrolled>> /\ known # Nothing
    BY <1>6 DEF Introduction!LookUp
  <2>2. CallKept'
    BY <1>6, LookUpKeeps
  <2> QED
    BY <2>1, <2>2 DEF EncounterInv, ServiceKept, SessionKept, AccountKept
<1>7. CASE Introduction!Return
  BY <1>7 DEF Introduction!Return, EncounterInv, ServiceKept, SessionKept, AccountKept, CallKept
<1>8. CASE Introduction!Reconfigure
  <2>1. /\ service' \in Later /\ Introduction!Builds(service)'
        /\ UNCHANGED <<agent, reference, session, known, identified, enrolled, call>>
    BY <1>8 DEF Introduction!Reconfigure
  <2>2. CallKept'
    BY <2>1 DEF EncounterInv, CallKept, Wished, WellGrounded, LookedUp, Introduction!Proper, Introduction!Explained, Introduction!Recorded
  <2> QED
    BY <2>1, <2>2 DEF EncounterInv, ServiceKept, SessionKept, AccountKept, Configurations
<1>9. CASE UNCHANGED Introduction!vars
  <2>1. UNCHANGED <<service, agent, reference, session, known, identified, enrolled, call>>
    BY <1>9 DEF Introduction!vars
  <2>2. CallKept'
    BY <2>1 DEF EncounterInv, CallKept, Wished, WellGrounded, LookedUp, Introduction!Proper, Introduction!Explained, Introduction!Recorded
  <2> QED
    BY <2>1, <2>2 DEF EncounterInv, ServiceKept, SessionKept, AccountKept
<1> QED
  BY <1>1, <1>2, <1>3, <1>4, <1>5, <1>6, <1>7, <1>8, <1>9 DEF Introduction!Next

\* The inductive invariant of introductions: where the session, the account and the call come from.
THEOREM EncountersKeep == Introduction!Spec => []EncounterInv
BY EncounterInit, EncounterStep, PTL DEF Introduction!Spec

\* What follows of a Service that is named, and of a call that has ended.
LEMMA FoundAndExplained == EncounterInv => ServicesUsable
<1> SUFFICES ASSUME EncounterInv PROVE ServicesUsable
  OBVIOUS
<1>1. ASSUME reference # Nothing, Introduction!NamesIt(reference, service), Introduction!Proper(service)
      PROVE  session = service.at
  <2>1. service \in Configurations /\ session = Introduction!Resolve(reference, agent.loopback)
    BY <1>1 DEF EncounterInv, ServiceKept, SessionKept
  <2> QED
    BY <1>1, <2>1, ProperIsFound
<1>2. ASSUME Introduction!At("ended"), call.of # Nothing, Introduction!Proper(call.of),
             session = call.of.at, call.document = Introduction!Received(call.of)
      PROVE  Introduction!Explained(call, call.of)
  <2>1. WellGrounded
    BY <1>2 DEF EncounterInv, CallKept, LookedUp, Introduction!At
  <2> QED
    BY <1>2, <2>1 DEF WellGrounded
<1> QED
  BY <1>1, <1>2 DEF ServicesUsable, Introduction!ServicesUsable

\* What follows of an operation that was looked up.
LEMMA LookedUpIsMeant == EncounterInv => OperationsResolved
<1> SUFFICES ASSUME EncounterInv, Introduction!At("ended"), Introduction!Op = "operation"
             PROVE  LET q == call.request
                        found == call.found
                        passing(schemes) == Introduction!Api!Admits(q.root, q.security[found.at], schemes)
                    IN
                    /\ found.at = Introduction!Api!Operation(q.templates, q.path, call.document.openapi.equivalent)
                    /\ found.at # 0 =>
                        LET r == found.security IN
                        /\ r.disposition \in {"public", "optional-anonymous"} => passing({})
                        /\ \A schemes \in r.satisfiable : schemes \subseteq q.supported /\ passing(schemes)
                        /\ r.disposition \in {"required", "all-required", "alternatives"} => r.satisfiable # {}
                        /\ (r.disposition = "fallback-live-challenge") = ~passing(q.supported)
  BY DEF OperationsResolved, Introduction!OperationsResolved
<1> DEFINE q == call.request
           at == Introduction!Api!MatchPath(q.templates, q.path, call.document.openapi.equivalent)
           r == Introduction!Api!ResolveSecurity(q.root, q.security[at], q.supported)
<1>1. LookedUp
  <2>1. q \notin Wishes
    BY WishesHaveType DEF Introduction!Op, Introduction!Commands
  <2> QED
    BY <2>1 DEF EncounterInv, CallKept, Introduction!At
<1>2. q \in Operations /\ call.found = [at |-> at, security |-> IF at = 0 THEN Nothing ELSE r]
  BY <1>1 DEF LookedUp
<1>3. Comparable(q) /\ DOMAIN q.templates = 1..Len(q.templates)
  BY <1>2, OperationsHaveType DEF Comparable, IsList
<1>4. at = Introduction!Api!Operation(q.templates, q.path, call.document.openapi.equivalent)
  BY <1>3, MatchIsMeant
<1> HIDE DEF at, r, q
<1>5. call.found.at = at /\ (at # 0 => call.found.security = r)
  BY <1>2
<1>6. /\ r.disposition \in {"public", "optional-anonymous"} => Introduction!Api!Admits(q.root, q.security[at], {})
      /\ \A schemes \in r.satisfiable :
            schemes \subseteq q.supported /\ Introduction!Api!Admits(q.root, q.security[at], schemes)
      /\ r.disposition \in {"required", "all-required", "alternatives"} => r.satisfiable # {}
      /\ (r.disposition = "fallback-live-challenge") = ~Introduction!Api!Admits(q.root, q.security[at], q.supported)
  BY ResolutionAdmits DEF r
<1> QED
  BY <1>4, <1>5, <1>6 DEF q

\* A Service that can be built is found by its name, and what an Agent asks of it succeeds but for
\* the reasons that are named: resolve_service_reference, inspect and the commands of the
\* client, with the Service's answers to them.
THEOREM ServicesAreUsable == Introduction!Spec => []ServicesUsable
BY EncountersKeep, FoundAndExplained, PTL

\* Whatever the templates of an OpenAPI document and in whatever order, a request is taken
\* for the operation it means, and the credentials presented let it pass:
\* match_openapi_path and resolve_openapi_security.
THEOREM OperationsAreResolved == Introduction!Spec => []OperationsResolved
BY EncountersKeep, LookedUpIsMeant, PTL

=============================================================================
