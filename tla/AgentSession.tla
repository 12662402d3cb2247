---------------------------- MODULE AgentSession ----------------------------
(***************************************************************************)
(* The calls of a Session of aep-agent that share state: resolve_identity  *)
(* (client.rs) under the lock of its Client, then a command, a grant or a  *)
(* revoke (commands.rs) or the authentication of a request                 *)
(* (authentication.rs), over the identity store and the                    *)
(* MemoryCredentialStore (store.rs) that Clients may share.                *)
(*                                                                         *)
(* One Service.  An action is the code between two awaits that take time,  *)
(* or what the provider or the Service does meanwhile.  Inspection, signing*)
(* and polling are modules of their own.                                   *)
(***************************************************************************)
EXTENDS Integers, FiniteSets

CONSTANTS
    Tasks,
    Clients,
    Dids,           \* what the identity provider can come up with
    Ids,            \* credential ids
    GrantTypes,
    BuiltIn,        \* the grant types whose credentials are kept
    Lifetimes,      \* how long the Service lets a credential live
    MaxTime,        \* bound of the clock
    None

ASSUME SessionSets ==
    /\ BuiltIn \subseteq GrantTypes
    /\ Lifetimes \subseteq Nat
    /\ MaxTime \in Nat
ASSUME NoneIsNothing == None \notin Tasks \cup Dids \cup Ids \cup GrantTypes

VARIABLES
    now,
    client,     \* the client each call is made on
    keeps,      \* whether the provider finds the identity it made before
    made,       \* the DIDs it has made for the Service
    identity,   \* identity_store: the DID of the Service's entry, or None
    lock,       \* identity_lock: the call that holds each client's, or None
    issued,     \* at the Service: id -> [type, expires] or None
    revoked,    \* the ids it has revoked
    local,      \* credential_store: the ids it holds
    pc,         \* where each call is
    kind,       \* what it is for, or None
    did,        \* the identity it has resolved, or None
    subject,    \* the credential a grant was given or a request is to present, or None
    selector,   \* what a revoke names: [all, type, id]
    listed,     \* what a revoke has yet to delete
    acted,      \* ghost: the DIDs assertions were made for
    shown,      \* ghost: when each request was given its credential
    late,       \* ghost: ids saved after the Service had revoked them
    crossed,    \* ghost: ids saved between a revoke of them at the Service and its list
    stray,      \* ghost: ids a revoke covered and then failed or was dropped over
    ended       \* ghost: per call, what completed revokes had covered when it began

identityVars == <<client, keeps, made, identity, lock>>
credentialVars == <<issued, revoked, local, late, crossed, stray>>
callVars == <<kind, did, subject, selector, listed, ended>>
vars == <<now, identityVars, credentialVars, pc, callVars, acted, shown>>

Kinds == {"command", "grant", "revoke", "authenticate"}

Selectors == [all : BOOLEAN, type : GrantTypes \cup {None}, id : Ids \cup {None}]

\* validate_revoke_request: everything, or a type and perhaps one of its ids
Valid(s) == IF s.all THEN s.type = None /\ s.id = None ELSE s.type # None

Everything == [all |-> TRUE, type |-> None, id |-> None]

Steps == {"idle", "locking", "provisioning", "provisioned", "resolved", "granting", "granted",
          "revoking", "revoked", "deleting", "presenting", "presented", "done"}

Credentials == [type : GrantTypes, expires : Nat]

ASSUME NoneIsNoCredential == None \notin Credentials

TypeOK ==
    /\ now \in Nat
    /\ client \in [Tasks -> Clients]
    /\ keeps \in BOOLEAN
    /\ made \subseteq Dids
    /\ identity \in Dids \cup {None}
    /\ lock \in [Clients -> Tasks \cup {None}]
    /\ issued \in [Ids -> Credentials \cup {None}]
    /\ revoked \subseteq Ids
    /\ local \subseteq Ids
    /\ pc \in [Tasks -> Steps]
    /\ kind \in [Tasks -> Kinds \cup {None}]
    /\ did \in [Tasks -> Dids \cup {None}]
    /\ subject \in [Tasks -> Ids \cup {None}]
    /\ selector \in [Tasks -> Selectors]
    /\ listed \in [Tasks -> SUBSET Ids]
    /\ acted \subseteq Dids
    /\ shown \in [Tasks -> Nat]
    /\ late \subseteq Ids
    /\ crossed \subseteq Ids
    /\ stray \subseteq Ids
    /\ ended \in [Tasks -> SUBSET Ids]

\* Several clients share an identity store only over a provider that finds what it
\* made before, as the Platform does, which has one identity per scope.
Init ==
    /\ now = 0
    /\ client \in [Tasks -> Clients]
    /\ keeps \in BOOLEAN
    /\ keeps \/ \A t, u \in Tasks : client[t] = client[u]
    /\ made = {}
    /\ identity = None
    /\ lock = [c \in Clients |-> None]
    /\ issued = [i \in Ids |-> None]
    /\ revoked = {}
    /\ local = {}
    /\ pc = [t \in Tasks |-> "idle"]
    /\ kind = [t \in Tasks |-> None]
    /\ did = [t \in Tasks |-> None]
    /\ subject = [t \in Tasks |-> None]
    /\ selector = [t \in Tasks |-> Everything]
    /\ listed = [t \in Tasks |-> {}]
    /\ acted = {}
    /\ shown = [t \in Tasks |-> 0]
    /\ late = {}
    /\ crossed = {}
    /\ stray = {}
    /\ ended = [t \in Tasks |-> {}]

----------------------------------------------------------------------------
Goto(t, from, to) == pc[t] \in from /\ pc' = [pc EXCEPT ![t] = to]

\* record.expires_at > now: list keeps, find keeps, validate_record accepts
Unexpired(i) == issued[i].expires > now

\* MemoryCredentialStore::list and find: what has expired is removed
Swept == {i \in local : Unexpired(i)}

\* what a revoke ends at the Service: an id counts under its own type
Covers(s, i) == s.all \/ (issued[i].type = s.type /\ s.id \in {None, i})

\* Fault: the type decides, whether an id is named or not
DeletesOfType(s, i) == s.all \/ issued[i].type = s.type

\* Fault: all credentials are taken for those of no type
DeletesNamed(s, i) == s.id = i \/ (s.id = None /\ issued[i].type = s.type)

\* what it deletes from the local store: an id counts under whatever type it is named
Deletes(s, i) ==
    \/ s.all
    \/ s.id = i
    \/ s.id = None /\ issued[i].type = s.type

\* what revokes that have run to their end covered
Ended == {i \in revoked : i \notin late \cup stray /\
            \A t \in Tasks : pc[t] \in {"revoked", "deleting"} => ~Covers(selector[t], i)}

\* a call is made; an authentication does not resolve an identity unless it has to
Begin(t) ==
    /\ \E k \in Kinds :
        /\ kind' = [kind EXCEPT ![t] = k]
        /\ Goto(t, {"idle"}, IF k = "authenticate" THEN "presenting" ELSE "locking")
        /\ \E s \in Selectors :
            /\ Valid(s) /\ (k # "revoke" => s = Everything)
            /\ selector' = [selector EXCEPT ![t] = s]
    /\ ended' = [ended EXCEPT ![t] = Ended]
    /\ UNCHANGED <<now, identityVars, credentialVars, did, subject, listed, acted, shown>>

----------------------------------------------------------------------------
\* resolve_identity

Hold(t) == lock' = [lock EXCEPT ![client[t]] = t]

Release(t) == lock' = [c \in Clients |-> IF lock[c] = t THEN None ELSE lock[c]]

\* the lock, and the stored identity under it
FindIdentity(t) ==
    /\ lock[client[t]] = None
    /\ identity # None
    /\ Goto(t, {"locking"}, "resolved")
    /\ did' = [did EXCEPT ![t] = identity]
    /\ UNCHANGED <<now, identityVars, credentialVars, kind, subject, selector, listed, ended, acted, shown>>

\* a grant does not create an identity
NoIdentity(t) ==
    /\ lock[client[t]] = None
    /\ identity = None
    /\ kind[t] = "grant"
    /\ Goto(t, {"locking"}, "done")
    /\ UNCHANGED <<now, identityVars, credentialVars, callVars, acted, shown>>

\* Fault: the identity store is looked up without the lock
AskProviderUnlocked(t) ==
    /\ identity = None
    /\ kind[t] # "grant"
    /\ Goto(t, {"locking"}, "provisioning")
    /\ Hold(t)
    /\ UNCHANGED <<now, client, keeps, made, identity, credentialVars, callVars, acted, shown>>

\* get_or_create_identity, with the lock held
AskProvider(t) ==
    /\ lock[client[t]] = None
    /\ identity = None
    /\ kind[t] # "grant"
    /\ Goto(t, {"locking"}, "provisioning")
    /\ Hold(t)
    /\ UNCHANGED <<now, client, keeps, made, identity, credentialVars, callVars, acted, shown>>

\* the provider finds or makes an identity
Provision(t) ==
    /\ Goto(t, {"provisioning"}, "provisioned")
    /\ \E d \in Dids :
        /\ keeps /\ made # {} => d \in made
        /\ ~keeps => d \notin made
        /\ made' = made \cup {d}
        /\ did' = [did EXCEPT ![t] = d]
    /\ UNCHANGED <<now, client, keeps, identity, lock, credentialVars,
                   kind, subject, selector, listed, ended, acted, shown>>

\* validate_identity, identity_store.save, and the guard is dropped
SaveIdentity(t) ==
    /\ Goto(t, {"provisioned"}, "resolved")
    /\ identity' = did[t]
    /\ Release(t)
    /\ UNCHANGED <<now, client, keeps, made, credentialVars, callVars, acted, shown>>

\* sign_assertion and the request: enroll and status end with its answer, a grant's
\* first assertion asks for the status, an authentication hands the assertion out
Act(t) ==
    /\ \/ /\ kind[t] \in {"command", "authenticate"}
          /\ Goto(t, {"resolved"}, "done")
       \/ /\ kind[t] = "grant"
          /\ Goto(t, {"resolved"}, "granting")
       \/ /\ kind[t] = "revoke"
          /\ Goto(t, {"resolved"}, "revoking")
    /\ acted' = acted \cup {did[t]}
    /\ UNCHANGED <<now, identityVars, credentialVars, callVars, shown>>

----------------------------------------------------------------------------
\* grant

\* the Service issues a credential
Issue(t) ==
    /\ Goto(t, {"granting"}, "granted")
    /\ \E i \in Ids, g \in GrantTypes, l \in Lifetimes :
        /\ issued[i] = None
        /\ issued' = [issued EXCEPT ![i] = [type |-> g, expires |-> now + l]]
        /\ subject' = [subject EXCEPT ![t] = i]
    /\ UNCHANGED <<now, identityVars, revoked, local, late, crossed, stray,
                   kind, did, selector, listed, ended, acted, shown>>

\* its answer is parsed and, for a built-in type, saved unless it has expired
SaveCredential(t) ==
    LET i == subject[t]
        kept == issued[i].type \in BuiltIn /\ Unexpired(i) IN
    /\ Goto(t, {"granted"}, "done")
    /\ local' = IF kept THEN local \cup {i} ELSE local
    /\ late' = IF kept /\ i \in revoked THEN late \cup {i} ELSE late
    /\ crossed' = IF kept /\ \E u \in Tasks : pc[u] = "revoked" /\ Covers(selector[u], i)
                  THEN crossed \cup {i} ELSE crossed
    /\ UNCHANGED <<now, identityVars, issued, revoked, stray, callVars, acted, shown>>

----------------------------------------------------------------------------
\* revoke

\* the Service revokes
Revoke(t) ==
    /\ Goto(t, {"revoking"}, "revoked")
    /\ revoked' = revoked \cup {i \in Ids : issued[i] # None /\ Covers(selector[t], i)}
    /\ UNCHANGED <<now, identityVars, issued, local, late, crossed, stray, callVars, acted, shown>>

\* delete_revoked_credentials: the list
List(t) ==
    /\ Goto(t, {"revoked"}, "deleting")
    /\ local' = Swept
    /\ listed' = [listed EXCEPT ![t] = {i \in Swept : Deletes(selector[t], i)}]
    /\ UNCHANGED <<now, identityVars, issued, revoked, late, crossed, stray,
                   kind, did, subject, selector, ended, acted, shown>>

\* one of its records
Delete(t) ==
    /\ pc[t] = "deleting"
    /\ \E i \in listed[t] :
        /\ local' = local \ {i}
        /\ listed' = [listed EXCEPT ![t] = @ \ {i}]
    /\ UNCHANGED <<now, identityVars, issued, revoked, late, crossed, stray, pc,
                   kind, did, subject, selector, ended, acted, shown>>

FinishRevoke(t) ==
    /\ listed[t] = {}
    /\ Goto(t, {"deleting"}, "done")
    /\ UNCHANGED <<now, identityVars, credentialVars, callVars, acted, shown>>

----------------------------------------------------------------------------
\* authentication

\* find_credential: by id, or the newest of the first method that has one
FindCredential(t) ==
    /\ pc[t] = "presenting"
    /\ subject[t] = None
    /\ \E i \in Swept : subject' = [subject EXCEPT ![t] = i]
    /\ local' = Swept
    /\ UNCHANGED <<now, identityVars, issued, revoked, late, crossed, stray, pc,
                   kind, did, selector, listed, ended, acted, shown>>

\* none is stored, or the assertion is preferred: one is made
FindNone(t) ==
    /\ subject[t] = None
    /\ Goto(t, {"presenting"}, "locking")
    /\ local' \in {local, Swept}
    /\ UNCHANGED <<now, identityVars, issued, revoked, late, crossed, stray, callVars, acted, shown>>

\* Fault: a record that was found is presented without another look at the clock
PresentFound(t) ==
    /\ subject[t] # None
    /\ Goto(t, {"presenting"}, "presented")
    /\ shown' = [shown EXCEPT ![t] = now]
    /\ UNCHANGED <<now, identityVars, credentialVars, callVars, acted>>

\* credential_authentication, which validates the record at its own instant
Present(t) ==
    /\ subject[t] # None
    /\ Goto(t, {"presenting"}, IF Unexpired(subject[t]) THEN "presented" ELSE "done")
    /\ shown' = [shown EXCEPT ![t] = now]
    /\ UNCHANGED <<now, identityVars, credentialVars, callVars, acted>>

----------------------------------------------------------------------------
\* An await fails, the answer is refused, or the caller drops the call: its guard
\* goes, and a revoke leaves what it has not deleted.
GiveUp(t) ==
    /\ Goto(t, Steps \ {"idle", "presenting", "presented", "done"}, "done")
    /\ Release(t)
    /\ stray' = stray \cup
            (CASE pc[t] = "revoked"  -> {i \in local : Covers(selector[t], i)}
               [] pc[t] = "deleting" -> listed[t]
               [] OTHER              -> {})
    /\ UNCHANGED <<now, client, keeps, made, identity, issued, revoked, local, late, crossed, callVars, acted, shown>>

\* forget_credential
Forget(i) ==
    /\ i \in local
    /\ local' = local \ {i}
    /\ UNCHANGED <<now, identityVars, issued, revoked, late, crossed, stray, pc, callVars, acted, shown>>

Tick ==
    /\ now < MaxTime
    /\ now' = now + 1
    /\ UNCHANGED <<identityVars, credentialVars, pc, callVars, acted, shown>>

Call(t) ==
    \/ Begin(t) \/ GiveUp(t)
    \/ FindIdentity(t) \/ NoIdentity(t) \/ AskProvider(t) \/ Provision(t) \/ SaveIdentity(t)
    \/ Act(t)
    \/ Issue(t) \/ SaveCredential(t)
    \/ Revoke(t) \/ List(t) \/ Delete(t) \/ FinishRevoke(t)
    \/ FindCredential(t) \/ FindNone(t) \/ Present(t)

Next ==
    \/ \E t \in Tasks : Call(t)
    \/ \E i \in Ids : Forget(i)
    \/ Tick

Spec == Init /\ [][Next]_vars

----------------------------------------------------------------------------
\* An Agent is one DID to a Service: whatever calls run at once, on whatever clients,
\* and whichever of them are dropped between provisioning and saving, no two
\* assertions are made for different identities.
OneIdentity == \A d, e \in acted : d = e

\* A credential that the Service has revoked is left in the local store only while a
\* revoke that covers it is still deleting, after one that failed half way or was
\* dropped, or when its grant was answered so late that the Service had revoked it
\* before it was saved.
LeftoversExplained ==
    \A i \in local \cap revoked :
        \/ i \in late \cup stray
        \/ \E t \in Tasks : pc[t] = "revoked" /\ Covers(selector[t], i)
        \/ \E t \in Tasks : pc[t] = "deleting" /\ i \in listed[t]

\* A request is given a credential only before its expiration, and never one whose
\* revoke had run to its end when the request began, save one stored afterwards.
PresentedUsable ==
    \A t \in Tasks : pc[t] = "presented" =>
        /\ issued[subject[t]].expires > shown[t]
        /\ subject[t] \notin ended[t] \ (late \cup stray)

\* A credential leaves the local store only when it has expired or been revoked, when
\* the application forgets it, when a revoke names its id under another type, which the
\* Service answers without revoking anything, or when it was granted and saved between
\* the Service's run of a revoke that covers it and the list that this one deletes from.
LossesExplained ==
    [][\A i \in local \ local' :
        \/ ~Unexpired(i)
        \/ i \in revoked \cup crossed
        \/ Forget(i)
        \/ \E t \in Tasks : pc[t] = "deleting" /\ selector[t].id = i]_vars

=============================================================================
