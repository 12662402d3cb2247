------------------------- MODULE ServiceCredentials -------------------------
(***************************************************************************)
(* Session credentials in aep-service: the grant and revoke commands and   *)
(* the session branch of authenticate_protected_resource                   *)
(* (crates/aep-service/src/service.rs), the handler of the built-in grant  *)
(* types and MemoryServiceCredentialStore (credentials.rs).                *)
(*                                                                         *)
(* A call reads the enrollment and the clock when it arrives.  A grant or  *)
(* revoke then waits for its idempotency key and for the application's     *)
(* issuer or handlers, so what it read may be stale when it acts.  Calls   *)
(* of one key are serialised by IdempotencyStore; the calls here are those *)
(* of different keys.  Enrollments change underneath.                      *)
(*                                                                         *)
(* A secret stands for the pair (header, verifier) a record is looked up   *)
(* by.  Only whether an enrollment is active matters to these commands.    *)
(***************************************************************************)
EXTENDS Integers

CONSTANTS
    Tasks,          \* calls
    Agents,
    GrantTypes,     \* the built-in grant types the service offers
    Ids,            \* credential ids an issuer can come up with
    Secrets,        \* secrets an issuer can come up with
    MaxTime,        \* bound on the clock
    None

ASSUME MaxTimeIsNat == MaxTime \in Nat
ASSUME NoneIsNothing == None \notin Ids \cup Agents \cup GrantTypes \cup Secrets \cup Int

VARIABLES
    enrolled,   \* agent -> [active, unmet] of its enrollment, or None
    creds,      \* the credential store: id -> record or None
    clock,
    pc,         \* where each call is
    call,       \* what each call was made with, or None
    now,        \* the instant each call read, or None
    ready,      \* grants: the enrollment found had nothing unmet
    todo,       \* revokes: the grant types whose handler is still to run
    match,      \* session requests: the credential matched; grants: the one saved
    result,     \* how each call ended, or None
    covered,    \* ghost: the credentials a revoke is to revoke, or that had been
                \* revoked when a session request arrived
    overtaken   \* ghost: the queued grants whose agent's enrollment has changed since they read it

vars == <<enrolled, overtaken, creds, clock, pc, call, now, ready, todo, match, result, covered>>
callVars == <<now, ready, todo, match, covered>>

Enrollments == [active : BOOLEAN, unmet : BOOLEAN]
Credentials ==
    [agent : Agents, type : GrantTypes, secret : Secrets, expires_at : Int, revoked : BOOLEAN]
Calls ==
    [kind : {"grant"}, agent : Agents, type : GrantTypes]
        \cup [kind : {"revoke"}, agent : Agents, id : Ids \cup {None}]
        \cup [kind : {"session"}, type : GrantTypes, secret : Secrets]
Results ==
    {"blocked", "requirements_unmet", "failed", "granted", "cancelled",
     "revoked", "authenticated", "not_recognized"}

ASSUME NoneIsNoRecord == None \notin Enrollments \cup Credentials \cup Calls \cup Results

TypeOK ==
    /\ enrolled \in [Agents -> Enrollments \cup {None}]
    /\ creds \in [Ids -> Credentials \cup {None}]
    /\ clock \in 0..MaxTime
    /\ pc \in [Tasks -> {"idle", "queued", "saved", "presented", "matched", "done"}]
    /\ call \in [Tasks -> Calls \cup {None}]
    /\ now \in [Tasks -> (0..MaxTime) \cup {None}]
    /\ ready \in [Tasks -> BOOLEAN]
    /\ todo \in [Tasks -> SUBSET GrantTypes]
    /\ match \in [Tasks -> Ids \cup {None}]
    /\ result \in [Tasks -> Results \cup {None}]
    /\ covered \in [Tasks -> SUBSET Ids]
    /\ overtaken \subseteq Tasks

Init ==
    /\ enrolled = [a \in Agents |-> None]
    /\ creds = [i \in Ids |-> None]
    /\ clock = 0
    /\ pc = [t \in Tasks |-> "idle"]
    /\ call = [t \in Tasks |-> None]
    /\ now = [t \in Tasks |-> None]
    /\ ready = [t \in Tasks |-> FALSE]
    /\ todo = [t \in Tasks |-> {}]
    /\ match = [t \in Tasks |-> None]
    /\ result = [t \in Tasks |-> None]
    /\ covered = [t \in Tasks |-> {}]
    /\ overtaken = {}

----------------------------------------------------------------------------
Goto(t, from, to) == pc[t] = from /\ pc' = [pc EXCEPT ![t] = to]

Finish(t, from, r) ==
    /\ Goto(t, from, "done")
    /\ result' = [result EXCEPT ![t] = r]
    /\ UNCHANGED <<call, now>>

\* The call is made: what it was made with and when it read the clock.
Arrive(t, c, to) ==
    /\ Goto(t, "idle", to)
    /\ call' = [call EXCEPT ![t] = c]
    /\ now' = [now EXCEPT ![t] = clock]

IsKind(t, kind) == call[t] # None /\ call[t].kind = kind

\* The records a revoke of agent is about: all of them, or the one it names.
Targets(agent, id) ==
    {i \in Ids : creds[i] # None /\ creds[i].agent = agent /\ id \in {i, None}}

----------------------------------------------------------------------------
\* Fault: an enrollment that is not active is left to the requirements.
GrantArriveAny(t) ==
    \E a \in Agents, g \in GrantTypes :
        /\ enrolled[a] # None
        /\ Arrive(t, [kind |-> "grant", agent |-> a, type |-> g], "queued")
        /\ ready' = [ready EXCEPT ![t] = ~enrolled[a].unmet]
        /\ UNCHANGED <<enrolled, overtaken, creds, clock, todo, match, result, covered>>

\* grant: blocked unless active; requirements are judged later, by this record
GrantArrive(t) ==
    \E a \in Agents, g \in GrantTypes :
        /\ enrolled[a] # None
        /\ Arrive(t, [kind |-> "grant", agent |-> a, type |-> g],
                  IF enrolled[a].active THEN "queued" ELSE "done")
        /\ result' = IF enrolled[a].active THEN result ELSE [result EXCEPT ![t] = "blocked"]
        /\ ready' = [ready EXCEPT ![t] = ~enrolled[a].unmet]
        /\ UNCHANGED <<enrolled, overtaken, creds, clock, todo, match, covered>>

\* missing claims or documents
GrantUnmet(t) ==
    /\ IsKind(t, "grant")
    /\ ~ready[t]
    /\ Finish(t, "queued", "requirements_unmet")
    /\ UNCHANGED <<enrolled, overtaken, creds, clock, ready, todo, match, covered>>

\* nothing is missing, so that it is for the issuer to answer
CanIssue(t) == pc[t] = "queued" /\ IsKind(t, "grant") /\ ready[t]

\* save_record: neither the id nor, for its type, the secret has been issued
CanSave(i, g, s) ==
    /\ creds[i] = None
    /\ ~\E j \in Ids : creds[j] # None /\ creds[j].type = g /\ creds[j].secret = s

\* Fault: what has been issued is checked once it has been saved.
GrantCheckedLate(t) ==
    /\ CanIssue(t)
    /\ overtaken' = overtaken \ {t}
    /\ \E i \in Ids, s \in Secrets, e \in 0..(MaxTime + 1) :
        /\ creds[i] = None
        /\ creds' = [creds EXCEPT ![i] =
                [agent |-> call[t].agent, type |-> call[t].type, secret |-> s,
                 expires_at |-> e, revoked |-> FALSE]]
        /\ match' = [match EXCEPT ![t] = i]
        /\ IF e > now[t]
           THEN Goto(t, "queued", "saved") /\ UNCHANGED <<result, call, now>>
           ELSE Finish(t, "queued", "failed")
    /\ UNCHANGED <<enrolled, clock, ready, todo, covered>>

\* the issuer answers, what it issued is validated as of the arrival, and saved
GrantSave(t) ==
    /\ CanIssue(t)
    /\ Goto(t, "queued", "saved")
    /\ overtaken' = overtaken \ {t}
    /\ \E i \in Ids, s \in Secrets, e \in 0..(MaxTime + 1) :
        /\ e > now[t]
        /\ CanSave(i, call[t].type, s)
        /\ creds' = [creds EXCEPT ![i] =
                [agent |-> call[t].agent, type |-> call[t].type, secret |-> s,
                 expires_at |-> e, revoked |-> FALSE]]
        /\ match' = [match EXCEPT ![t] = i]
    /\ UNCHANGED <<enrolled, clock, call, now, ready, todo, result, covered>>

\* the issuer fails, what it issued is invalid, or the store refuses it
GrantFail(t) ==
    /\ CanIssue(t)
    /\ Finish(t, "queued", "failed")
    /\ overtaken' = overtaken \ {t}
    /\ UNCHANGED <<enrolled, creds, clock, ready, todo, match, covered>>

\* the response is stored under the idempotency key and returned
GrantReply(t) ==
    /\ Finish(t, "saved", "granted")
    /\ UNCHANGED <<enrolled, overtaken, creds, clock, ready, todo, match, covered>>

\* the caller goes away first: nothing is stored under the key
GrantCancel(t) ==
    /\ Finish(t, "saved", "cancelled")
    /\ UNCHANGED <<enrolled, overtaken, creds, clock, ready, todo, match, covered>>

----------------------------------------------------------------------------
\* revoke: any enrollment will do, whatever its status
RevokeArrive(t) ==
    \E a \in Agents, id \in Ids \cup {None}, G \in {GrantTypes} \cup {{g} : g \in GrantTypes} :
        /\ enrolled[a] # None
        /\ Arrive(t, [kind |-> "revoke", agent |-> a, id |-> id], "queued")
        /\ todo' = [todo EXCEPT ![t] = G]
        /\ covered' = [covered EXCEPT ![t] = {i \in Targets(a, id) : creds[i].type \in G}]
        /\ UNCHANGED <<enrolled, overtaken, creds, clock, ready, match, result>>

\* Fault: the handler looks at a single record.
RevokedOne(agent, id, g) ==
    IF \E i \in Targets(agent, id) : creds[i].type = g
    THEN [creds EXCEPT ![CHOOSE i \in Targets(agent, id) : creds[i].type = g].revoked = TRUE]
    ELSE creds

\* revoke_credential, revoke_grant_type: what is not there is not an error
Revoked(agent, id, g) ==
    [i \in Ids |->
        IF i \in Targets(agent, id) /\ creds[i].type = g
        THEN [creds[i] EXCEPT !.revoked = TRUE] ELSE creds[i]]

\* One handler revokes; the handlers of different types touch different records,
\* so their order does not matter.
RevokeType(t) ==
    /\ IsKind(t, "revoke")
    /\ \E g \in todo[t] :
        /\ creds' = Revoked(call[t].agent, call[t].id, g)
        /\ todo' = [todo EXCEPT ![t] = @ \ {g}]
        /\ IF todo[t] = {g}
           THEN Finish(t, "queued", "revoked")
           ELSE pc[t] = "queued" /\ UNCHANGED <<pc, result, call, now>>
    /\ UNCHANGED <<enrolled, overtaken, clock, ready, match, covered>>

\* a handler fails: the remaining types are not revoked
RevokeFail(t) ==
    /\ IsKind(t, "revoke")
    /\ Finish(t, "queued", "failed")
    /\ UNCHANGED <<enrolled, overtaken, creds, clock, ready, todo, match, covered>>

----------------------------------------------------------------------------
\* A protected resource is requested with a session credential.
SessionArrive(t) ==
    \E g \in GrantTypes, s \in Secrets :
        /\ Arrive(t, [kind |-> "session", type |-> g, secret |-> s], "presented")
        /\ covered' = [covered EXCEPT ![t] =
                UNION {covered[r] : r \in {q \in Tasks : result[q] = "revoked"}}]
        /\ UNCHANGED <<enrolled, overtaken, creds, clock, ready, todo, match, result>>

\* Fault: a revoked record still counts.
MatchesRevoked(i, t) ==
    /\ creds[i] # None
    /\ creds[i].type = call[t].type /\ creds[i].secret = call[t].secret
    /\ creds[i].expires_at > now[t]

\* store.authenticate: same type, header and verifier, not revoked, not expired
Matches(i, t) ==
    /\ creds[i] # None
    /\ creds[i].type = call[t].type /\ creds[i].secret = call[t].secret
    /\ ~creds[i].revoked
    /\ creds[i].expires_at > now[t]

\* The store is asked.
SessionMatch(t) ==
    /\ IsKind(t, "session")
    /\ \/ \E i \in Ids :
            /\ Matches(i, t)
            /\ match' = [match EXCEPT ![t] = i]
            /\ Goto(t, "presented", "matched")
            /\ UNCHANGED <<result, call, now>>
       \/ /\ ~\E i \in Ids : Matches(i, t)
          /\ Finish(t, "presented", "not_recognized")
          /\ UNCHANGED match
    /\ UNCHANGED <<enrolled, overtaken, creds, clock, ready, todo, covered>>

\* The enrollment of the credential's agent is found, and must be active.
SessionFind(t) ==
    LET e == enrolled[creds[match[t]].agent] IN
    /\ Finish(t, "matched",
              IF e # None /\ e.active THEN "authenticated" ELSE "not_recognized")
    /\ UNCHANGED <<enrolled, overtaken, creds, clock, ready, todo, match, covered>>

----------------------------------------------------------------------------
\* An agent enrolls, or its enrollment changes.
EnrollmentChanges ==
    /\ \E a \in Agents, e \in Enrollments :
        /\ enrolled' = [enrolled EXCEPT ![a] = e]
        /\ overtaken' = overtaken \cup {t \in Tasks : CanIssue(t) /\ call[t].agent = a}
    /\ UNCHANGED <<creds, clock, pc, call, now, ready, todo, match, result, covered>>

Tick ==
    /\ clock < MaxTime
    /\ clock' = clock + 1
    /\ UNCHANGED <<enrolled, overtaken, creds, pc, call, now, ready, todo, match, result, covered>>

Next ==
    \/ EnrollmentChanges \/ Tick
    \/ \E t \in Tasks :
        \/ GrantArrive(t) \/ GrantUnmet(t) \/ GrantSave(t)
        \/ GrantFail(t) \/ GrantReply(t) \/ GrantCancel(t)
        \/ RevokeArrive(t) \/ RevokeType(t) \/ RevokeFail(t)
        \/ SessionArrive(t) \/ SessionMatch(t) \/ SessionFind(t)

Spec == Init /\ [][Next]_vars

----------------------------------------------------------------------------
\* A credential is never changed but to be revoked, and never comes back: its id
\* is not reused and a grant cannot replace it (credentials.rs:329-387).
CredentialsOnlyEnd ==
    [][\A i \in Ids : creds[i] # None =>
        creds'[i] \in {creds[i], [creds[i] EXCEPT !.revoked = TRUE]}]_vars

\* A presented secret never identifies two credentials (credentials.rs:376-384).
OneCredentialPerSecret ==
    \A i, j \in Ids :
        /\ creds[i] # None /\ creds[j] # None
        /\ creds[i].type = creds[j].type /\ creds[i].secret = creds[j].secret
        => i = j

\* When a revoke succeeds, all it was to revoke when it arrived is revoked, though
\* other revokes and grants ran between its handlers (service.rs:287-295).
RevokesComplete ==
    \A t \in Tasks : result[t] = "revoked" =>
        \A i \in covered[t] : creds[i] # None /\ creds[i].revoked

\* A request that arrives once a revoke has succeeded is never authenticated by a
\* credential which that revoke was about (service.rs:350-393).
RevokedNeverAuthenticates ==
    \A t \in Tasks : IsKind(t, "session") /\ result[t] = "authenticated" =>
        match[t] \notin covered[t]

\* A credential belongs to a grant that answered with it, is about to, or was
\* cancelled too late: a grant that failed leaves none behind.
Backed ==
    \A i \in Ids : creds[i] # None =>
        \E t \in Tasks :
            /\ IsKind(t, "grant") /\ match[t] = i
            /\ pc[t] = "saved" \/ result[t] \in {"granted", "cancelled"}

\* A grant that may issue one is of an Agent whose enrollment is active and lacks
\* nothing, or has changed since the grant read it.
IssuedInStanding ==
    \A t \in Tasks : CanIssue(t) =>
        LET e == enrolled[call[t].agent] IN
        t \in overtaken \/ (e # None /\ e.active /\ ~e.unmet)

\* No credential is stray or undue: it comes with an answer, and only an enrollment
\* that changed while the grant was queued can be out of order when it is issued
\* (service.rs:166-228, credentials.rs:88-107).
NoStrayCredential == Backed /\ IssuedInStanding

----------------------------------------------------------------------------
(***************************************************************************)
(* The inductive invariant behind them.                                    *)
(***************************************************************************)

\* What a call has so far fits where it is.
CallsInOrder ==
    \A t \in Tasks :
        /\ pc[t] = "idle" => call[t] = None
        /\ pc[t] # "idle" => call[t] # None /\ now[t] # None
        /\ result[t] # None <=> pc[t] = "done"
        /\ pc[t] = "saved" => IsKind(t, "grant")
        /\ pc[t] \in {"presented", "matched"} => IsKind(t, "session")
        /\ result[t] = "revoked" => IsKind(t, "revoke")
        /\ pc[t] = "queued" => ~IsKind(t, "session")

\* What a revoke is about is revoked, or its handler is still to run.
RevokesAdvance ==
    \A t \in Tasks : IsKind(t, "revoke") =>
        /\ \A i \in covered[t] :
            /\ creds[i] # None
            /\ creds[i].agent = call[t].agent /\ call[t].id \in {i, None}
            /\ creds[i].revoked \/ creds[i].type \in todo[t]
        /\ result[t] = "revoked" => todo[t] = {}

\* A session request matches none of the credentials that had been revoked.
SessionsMatchOthers ==
    \A t \in Tasks : IsKind(t, "session") =>
        /\ \A i \in covered[t] : creds[i] # None /\ creds[i].revoked
        /\ pc[t] = "matched" \/ result[t] = "authenticated" =>
            /\ match[t] # None
            /\ creds[match[t]] # None
            /\ match[t] \notin covered[t]

\* What every step of a grant, a revoke and a session request preserves
\* (service.rs:145-394, credentials.rs:88-154).
IInv ==
    /\ TypeOK /\ CallsInOrder /\ RevokesAdvance /\ SessionsMatchOthers
    /\ OneCredentialPerSecret /\ Backed

=============================================================================
