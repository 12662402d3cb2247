----------------------------- MODULE Enrollment -----------------------------
(***************************************************************************)
(* The enrollment record of one Agent in aep-service: execute_enroll and   *)
(* update_enrollment (crates/aep-service/src/service.rs), the memory store *)
(* they read and write (store.rs), and the application that changes the    *)
(* record behind them.                                                     *)
(*                                                                         *)
(* A task is one run of execute_enroll.  IdempotencyStore lets one run at  *)
(* a time per idempotency key, so the tasks here are those of different    *)
(* keys.  A run finds the record, awaits the policy, and saves what it has *)
(* made of the record it found: the store has no compare-and-set, and the  *)
(* policy may take as long as it likes.  What the policy has to say beyond *)
(* its verdict (owner action, pending lists) is copied and left out.       *)
(***************************************************************************)
EXTENDS Integers, FiniteSets

CONSTANTS
    Tasks,              \* runs of execute_enroll
    ClaimNames,
    ClaimValues,
    RequiredClaims,     \* configuration.claims.required
    Documents,          \* the ids of the advertised service_documents
    RequiredDocuments,  \* those with DocumentEnrollment::Required
    DocumentsExtension, \* SERVICE_DOCUMENTS_EXTENSION is supported
    Requests,           \* [claims : name -> value, acks : ids or None]
    OperatorStatuses,   \* the statuses the application moves an Agent to
    MaxTime,            \* bound on the clock
    None

Statuses == {"active", "pending", "rejected", "suspended", "terminated", "unavailable"}
Decisions == {"active", "pending", "rejected"}

Claims == UNION {[S -> ClaimValues] : S \in SUBSET ClaimNames}

ASSUME RequiredClaimsExist == RequiredClaims \subseteq ClaimNames
ASSUME RequiredDocumentsExist == RequiredDocuments \subseteq Documents
ASSUME ExtensionIsBoolean == DocumentsExtension \in BOOLEAN
ASSUME OperatorStatusesExist == OperatorStatuses \subseteq Statuses
ASSUME MaxTimeIsNat == MaxTime \in Nat
ASSUME RequestsHaveType ==
    \A q \in Requests :
        DOMAIN q = {"claims", "acks"} /\ q.claims \in Claims /\ (q.acks # None => IsFiniteSet(q.acks))

VARIABLES
    record,     \* the store's EnrollmentRecord of the Agent, or None
    clock,
    pc,         \* where each run is
    request,    \* what each run was asked for
    existing,   \* the record each run found, or None
    now,        \* the instant each run read before it awaited the policy
    response,   \* how each run answered, or None
    seen        \* ghost: the runs that had saved when each run found the record

vars == <<record, clock, pc, request, existing, now, response, seen>>

Records ==
    [claims : Claims, acks : SUBSET Documents, required : SUBSET Documents,
     status : Statuses,
     created_at : 0..MaxTime, since : 0..MaxTime, updated_at : 0..MaxTime]

Responses ==
    [kind : {"saved", "unchanged"}, status : Statuses]
        \cup [kind : {"requirements_unmet", "rejected", "failed"}]

ASSUME NoneIsNothing == None \notin Records \cup Responses \cup Requests

TypeOK ==
    /\ record \in Records \cup {None}
    /\ clock \in 0..MaxTime
    /\ pc \in [Tasks -> {"idle", "started", "deciding", "done"}]
    /\ request \in [Tasks -> Requests \cup {None}]
    /\ existing \in [Tasks -> Records \cup {None}]
    /\ now \in [Tasks -> (0..MaxTime) \cup {None}]
    /\ response \in [Tasks -> Responses \cup {None}]
    /\ seen \in [Tasks -> SUBSET Tasks]

Init ==
    /\ record = None
    /\ clock = 0
    /\ pc = [t \in Tasks |-> "idle"]
    /\ request = [t \in Tasks |-> None]
    /\ existing = [t \in Tasks |-> None]
    /\ now = [t \in Tasks |-> None]
    /\ response = [t \in Tasks |-> None]
    /\ seen = [t \in Tasks |-> {}]

----------------------------------------------------------------------------
\* Fault: claims are not required of an Agent that has just arrived.
MissingClaimsNever(claims) == {}

\* missing_required_claim_names
MissingClaims(claims) == RequiredClaims \ DOMAIN claims

\* missing_documents: never acknowledged, or to be acknowledged anew
MissingDocuments(r) ==
    IF r = None THEN RequiredDocuments
    ELSE {d \in RequiredDocuments : d \notin r.acks \/ d \in r.required}

\* Fault: what is declared need not be advertised.
AcceptedUnknown(acks, declared) ==
    acks \cup (IF declared = None THEN {} ELSE declared)

\* Fault: declaring anything acknowledges everything.
AcceptedAll(acks, declared) ==
    acks \cup (IF declared = None THEN {} ELSE Documents)

\* accepted_documents
Accepted(acks, declared) ==
    acks \cup (IF declared = None THEN {} ELSE declared \cap Documents)

\* acknowledgements are ignored by a service without the extension
Declared(q) == IF DocumentsExtension THEN q.acks ELSE None

\* Fault: the supplied claims replace the stored ones.
MergedAnew(old, new) == new

\* claims supplied now override, the others stay
Merged(old, new) ==
    [c \in DOMAIN old \cup DOMAIN new |-> IF c \in DOMAIN new THEN new[c] ELSE old[c]]

Saved(t) == response[t] # None /\ response[t].kind = "saved"

Finish(t, r) ==
    /\ pc' = [pc EXCEPT ![t] = "done"]
    /\ response' = [response EXCEPT ![t] = r]
    /\ UNCHANGED <<clock, request, existing, now, seen>>

----------------------------------------------------------------------------
\* IdempotencyStore runs the operation
Start(t) ==
    /\ pc[t] = "idle"
    /\ pc' = [pc EXCEPT ![t] = "started"]
    /\ \E q \in Requests : request' = [request EXCEPT ![t] = q]
    /\ UNCHANGED <<record, clock, existing, now, response, seen>>

\* Claims and documents a first enrollment lacks; an explicit declaration, even
\* an empty one, is not checked for documents.
UnmetAtFirst(q) ==
    \/ MissingClaims(q.claims) # {}
    \/ Declared(q) = None /\ MissingDocuments(None) # {}

\* enrollment_store.find().await; a first enrollment is checked before the policy
Find(t) ==
    /\ pc[t] = "started"
    /\ \/ /\ record = None
          /\ UnmetAtFirst(request[t])
          /\ Finish(t, [kind |-> "requirements_unmet"])
       \/ /\ record = None => ~UnmetAtFirst(request[t])
          /\ pc' = [pc EXCEPT ![t] = "deciding"]
          /\ existing' = [existing EXCEPT ![t] = record]
          /\ now' = [now EXCEPT ![t] = clock]
          /\ seen' = [seen EXCEPT ![t] = {u \in Tasks : Saved(u)}]
          /\ UNCHANGED <<clock, request, response>>
    /\ UNCHANGED record

\* The policy accepts a first enrollment, or records that it does not.
Create(t) ==
    LET q == request[t] IN
    /\ pc[t] = "deciding"
    /\ existing[t] = None
    /\ \E status \in Decisions :
        /\ record' =
            [claims |-> q.claims,
             acks |-> IF status = "rejected" THEN {} ELSE Accepted({}, Declared(q)),
             required |-> {},
             status |-> status,
             created_at |-> now[t], since |-> now[t], updated_at |-> now[t]]
        /\ Finish(t, [kind |-> "saved", status |-> status])

\* what an accepted update makes of the record the run found
Updated(t) ==
    LET q == request[t]
        old == existing[t]
    IN
    [old EXCEPT
        !.claims = Merged(old.claims, q.claims),
        !.acks = Accepted(old.acks, Declared(q)),
        !.required = IF Declared(q) = None THEN old.required ELSE old.required \ Declared(q),
        !.updated_at = now[t]]

UnmetAtUpdate(t) ==
    \/ MissingClaims(Merged(existing[t].claims, request[t].claims)) # {}
    \/ Declared(request[t]) = None /\ MissingDocuments(existing[t]) # {}

\* Fault: the policy's verdict becomes the status.
UpdateRestating(t) ==
    /\ pc[t] = "deciding"
    /\ existing[t] # None
    /\ ~UnmetAtUpdate(t)
    /\ \E status \in Decisions \ {"rejected"} :
        record' = [Updated(t) EXCEPT !.status = status]
    /\ Finish(t, [kind |-> "saved", status |-> record'.status])

\* The policy accepts an update of a known Agent.
Update(t) ==
    /\ pc[t] = "deciding"
    /\ existing[t] # None
    /\ \/ /\ UnmetAtUpdate(t)
          /\ Finish(t, [kind |-> "requirements_unmet"])
          /\ UNCHANGED record
       \/ /\ ~UnmetAtUpdate(t)
          /\ record' = Updated(t)
          /\ Finish(t, [kind |-> "saved", status |-> existing[t].status])

\* The policy rejects an update, or leaves the record as it is.
Decline(t) ==
    /\ pc[t] = "deciding"
    /\ existing[t] # None
    /\ \/ Finish(t, [kind |-> "rejected"])
       \/ Finish(t, [kind |-> "unchanged", status |-> existing[t].status])
    /\ UNCHANGED record

\* The policy fails, or the caller goes away while it decides.
Abandon(t) ==
    /\ pc[t] = "deciding"
    /\ Finish(t, [kind |-> "failed"])
    /\ UNCHANGED record

\* The application moves the Agent to another status.
OperatorSetsStatus ==
    /\ record # None
    /\ \E status \in OperatorStatuses \ {record.status} :
        record' = [record EXCEPT !.status = status, !.since = clock, !.updated_at = clock]
    /\ UNCHANGED <<clock, pc, request, existing, now, response, seen>>

\* The application requires a document to be acknowledged anew.
OperatorRequires ==
    /\ record # None
    /\ \E d \in RequiredDocuments \ record.required :
        record' = [record EXCEPT !.required = @ \cup {d}, !.updated_at = clock]
    /\ UNCHANGED <<clock, pc, request, existing, now, response, seen>>

Tick ==
    /\ clock < MaxTime
    /\ clock' = clock + 1
    /\ UNCHANGED <<record, pc, request, existing, now, response, seen>>

Next ==
    \/ Tick \/ OperatorSetsStatus \/ OperatorRequires
    \/ \E t \in Tasks : Start(t) \/ Find(t) \/ Create(t) \/ Update(t) \/ Decline(t) \/ Abandon(t)

Spec == Init /\ [][Next]_vars

----------------------------------------------------------------------------
Declares(t, d) == Declared(request[t]) # None /\ d \in Declared(request[t])

\* Neither run saw what the other saved.
Overlapped(t, u) == t \notin seen[u] /\ u \notin seen[t]

\* A run that saves over the record it found, which nobody has changed since,
\* preserves its status and timestamps, the claims the request does not name
\* and the acknowledgements, and clears only requirements that the request
\* declares (service.rs:458-519).
UpdatesPreserve ==
    [][\A t \in Tasks :
        (~Saved(t) /\ Saved(t)' /\ record # None /\ existing[t] = record) =>
            /\ record'.status = record.status
            /\ record'.created_at = record.created_at
            /\ record'.since = record.since
            /\ \A c \in DOMAIN record.claims \ DOMAIN request[t].claims :
                c \in DOMAIN record'.claims /\ record'.claims[c] = record.claims[c]
            /\ record.acks \subseteq record'.acks
            /\ record'.required \subseteq record.required
            /\ \A d \in record.required \ record'.required : Declares(t, d)]_vars

\* A claim that a run saved is on record until a later run names it, unless a
\* run that overlapped with it saved over it (service.rs:414, 514).
LostClaimsNeedOverlap ==
    \A t \in Tasks : Saved(t) =>
        \A c \in DOMAIN request[t].claims :
            \/ c \in DOMAIN record.claims /\ record.claims[c] = request[t].claims[c]
            \/ \E u \in Tasks \ {t} :
                /\ Saved(u)
                /\ Overlapped(t, u) \/ (t \in seen[u] /\ c \in DOMAIN request[u].claims)

\* Whatever runs overlap, a document on record as acknowledged was declared in
\* a saved request: silence is never consent (service.rs:538-554).
AcknowledgedWasDeclared ==
    record # None =>
        \A d \in record.acks : \E t \in Tasks : Saved(t) /\ Declares(t, d)

\* Whatever runs overlap, the record holds every claim the service requires, and
\* its instants are in order (service.rs:417-453, 482-493).
RequiredClaimsHeld ==
    record # None =>
        /\ RequiredClaims \subseteq DOMAIN record.claims
        /\ record.created_at <= record.since /\ record.created_at <= record.updated_at

=============================================================================
