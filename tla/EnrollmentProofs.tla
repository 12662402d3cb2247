-------------------------- MODULE EnrollmentProofs --------------------------
(***************************************************************************)
(* Proofs about Enrollment, for every number of overlapping runs, every    *)
(* set of requests and whatever the application does in between; and about *)
(* EndToEnd: what an Agent makes of the answers to its commands, of any    *)
(* configurations, policies and offers, how a command arrives, from any    *)
(* mounts, visitors and intermediaries, and who a request for a resource   *)
(* is taken to be from, of any credentials and additions to it.            *)
(***************************************************************************)
EXTENDS Enrollment, EndToEnd, FiniteSetTheorems, WellFoundedInduction, TLAPS

----------------------------------------------------------------------------
(***************************************************************************)
(* Type correctness.                                                       *)
(***************************************************************************)

\* A claims document is a function from some of the names to values.
LEMMA ClaimsType ==
    /\ \A f \in Claims : DOMAIN f \subseteq ClaimNames /\ f \in [DOMAIN f -> ClaimValues]
    /\ \A S \in SUBSET ClaimNames : [S -> ClaimValues] \subseteq Claims
BY DEF Claims

\* Claims merged into claims are claims.
LEMMA MergedType ==
    ASSUME NEW old \in Claims, NEW new \in Claims
    PROVE  Merged(old, new) \in Claims
<1>1. Merged(old, new) \in [DOMAIN old \cup DOMAIN new -> ClaimValues]
  BY ClaimsType DEF Merged
<1>2. DOMAIN old \cup DOMAIN new \in SUBSET ClaimNames
  BY ClaimsType
<1>3. QED
  BY <1>1, <1>2, ClaimsType

\* What a run has when it has got so far.
FrameOf(t) ==
    /\ pc[t] # "idle" => request[t] \in Requests
    /\ pc[t] = "deciding" => now[t] \in 0..MaxTime /\ now[t] <= clock
    /\ pc[t] # "done" => response[t] = None

Frames == TypeOK /\ \A t \in Tasks : FrameOf(t)

\* The initial state is well typed.
LEMMA InitFrames == Init => Frames
BY MaxTimeIsNat DEF Init, TypeOK, Frames, FrameOf

\* What a run creates or updates is a record.
LEMMA SavedType ==
    ASSUME Frames, NEW t \in Tasks, Create(t) \/ Update(t)
    PROVE  /\ record' \in Records \cup {None}
           /\ response'[t] \in Responses
<1>1. /\ request[t].claims \in Claims /\ now[t] \in 0..MaxTime
      /\ existing[t] \in Records \cup {None} /\ response \in [Tasks -> Responses \cup {None}]
      /\ record \in Records \cup {None}
  BY RequestsHaveType DEF Frames, FrameOf, TypeOK, Create, Update
<1>2. \A declared : \A acks \in SUBSET Documents : Accepted(acks, declared) \in SUBSET Documents
  BY DEF Accepted
<1>3. CASE Create(t)
  <2>1. PICK status \in Decisions :
            /\ record' = [claims |-> request[t].claims,
                          acks |-> IF status = "rejected" THEN {}
                                   ELSE Accepted({}, Declared(request[t])),
                          required |-> {}, status |-> status,
                          created_at |-> now[t], since |-> now[t], updated_at |-> now[t]]
            /\ response' = [response EXCEPT ![t] = [kind |-> "saved", status |-> status]]
    BY <1>3 DEF Create, Finish
  <2>2. record' \in Records
    BY <1>1, <1>2, <2>1 DEF Records, Decisions, Statuses
  <2>3. QED
    BY <1>1, <2>1, <2>2 DEF Responses, Decisions, Statuses
<1>4. CASE Update(t)
  <2>1. existing[t] \in Records
    BY <1>1, <1>4 DEF Update
  <2>2. Merged(existing[t].claims, request[t].claims) \in Claims
    BY <1>1, <2>1, MergedType DEF Records
  <2>3. Updated(t) \in Records
    BY <1>1, <1>2, <2>1, <2>2 DEF Updated, Records
  <2>4. existing[t].status \in Statuses
    BY <2>1 DEF Records
  <2>5. QED
    BY <1>1, <1>4, <2>3, <2>4 DEF Update, Finish, Responses
<1>5. QED
  BY <1>3, <1>4

\* Every step keeps the types.
LEMMA NextFrames == Frames /\ [Next]_vars => Frames'
<1> SUFFICES ASSUME Frames, [Next]_vars PROVE Frames'
  OBVIOUS
<1> USE MaxTimeIsNat DEF Frames, FrameOf, TypeOK
<1>1. CASE Tick
  BY <1>1 DEF Tick
<1>2. CASE OperatorSetsStatus
  <2>1. PICK status \in OperatorStatuses :
            record' = [record EXCEPT !.status = status, !.since = clock, !.updated_at = clock]
    BY <1>2 DEF OperatorSetsStatus
  <2>2. record' \in Records
    BY <1>2, <2>1, OperatorStatusesExist DEF OperatorSetsStatus, Records
  <2>3. QED
    BY <1>2, <2>2 DEF OperatorSetsStatus
<1>3. CASE OperatorRequires
  <2>1. PICK d \in RequiredDocuments :
            record' = [record EXCEPT !.required = @ \cup {d}, !.updated_at = clock]
    BY <1>3 DEF OperatorRequires
  <2>2. record' \in Records
    BY <1>3, <2>1, RequiredDocumentsExist DEF OperatorRequires, Records
  <2>3. QED
    BY <1>3, <2>2 DEF OperatorRequires
<1>4. ASSUME NEW t \in Tasks, Start(t) PROVE Frames'
  BY <1>4 DEF Start
<1>5. ASSUME NEW t \in Tasks, Find(t) PROVE Frames'
  <2>1. [kind |-> "requirements_unmet"] \in Responses
    BY DEF Responses
  <2>2. QED
    BY <1>5, <2>1 DEF Find, Finish
<1>6. ASSUME NEW t \in Tasks, Create(t) \/ Update(t) PROVE Frames'
  <2>1. /\ pc[t] = "deciding" /\ pc' = [pc EXCEPT ![t] = "done"]
        /\ \A u \in Tasks : u # t => response'[u] = response[u]
        /\ response' \in [Tasks -> Responses \cup {None}]
        /\ UNCHANGED <<clock, request, existing, now, seen>>
    <3>1. PICK r : Finish(t, r)
      BY <1>6 DEF Create, Update
    <3>2. QED
      BY <1>6, <3>1, SavedType DEF Finish, Create, Update
  <2>2. record' \in Records \cup {None}
    BY <1>6, SavedType
  <2>3. QED
    BY <2>1, <2>2
<1>7. ASSUME NEW t \in Tasks, Decline(t) \/ Abandon(t) PROVE Frames'
  <2>1. existing[t] # None => existing[t].status \in Statuses
    BY DEF Records
  <2>2. PICK r \in Responses : Finish(t, r) /\ UNCHANGED record /\ pc[t] = "deciding"
    BY <1>7, <2>1 DEF Decline, Abandon, Responses
  <2>3. QED
    BY <2>2 DEF Finish
<1>8. CASE UNCHANGED vars
  BY <1>8 DEF vars
<1>9. QED
  BY <1>1, <1>2, <1>3, <1>4, <1>5, <1>6, <1>7, <1>8 DEF Next

\* Every state of an enrollment is well typed.
THEOREM TypeCorrect == Spec => []TypeOK
<1>1. Frames => TypeOK
  BY DEF Frames
<1>2. QED
  BY <1>1, InitFrames, NextFrames, PTL DEF Spec

----------------------------------------------------------------------------
(***************************************************************************)
(* The record, and the records that runs have found and may still write    *)
(* back.  Both hold what is required, acknowledge only what was declared,  *)
(* and have every claim that was saved before, or an excuse.               *)
(***************************************************************************)

Good(r) ==
    /\ RequiredClaims \subseteq DOMAIN r.claims
    /\ r.created_at <= r.since /\ r.created_at <= r.updated_at

\* a saved request declares the document
Consented(d) == \E t \in Tasks : Saved(t) /\ Declares(t, d)

Kept(r, t, c) == c \in DOMAIN r.claims /\ r.claims[c] = request[t].claims[c]

\* another run may have written over the claim
Excused(t, c) ==
    \E u \in Tasks \ {t} :
        Saved(u) /\ (Overlapped(t, u) \/ (t \in seen[u] /\ c \in DOMAIN request[u].claims))

RecordOK ==
    /\ record = None => \A t \in Tasks : ~Saved(t)
    /\ record # None =>
        /\ Good(record) /\ record.created_at <= clock
        /\ \A d \in record.acks : Consented(d)
        /\ \A t \in Tasks : Saved(t) =>
            \A c \in DOMAIN request[t].claims : Kept(record, t, c) \/ Excused(t, c)

FoundOK(t) ==
    /\ existing[t] = None => RequiredClaims \subseteq DOMAIN request[t].claims /\ seen[t] = {}
    /\ existing[t] # None =>
        /\ Good(existing[t]) /\ existing[t].created_at <= now[t]
        /\ \A d \in existing[t].acks : Consented(d)
        /\ \A u \in seen[t] :
            \A c \in DOMAIN request[u].claims : Kept(existing[t], u, c) \/ Excused(u, c)

SeenSaved == \A t \in Tasks : \A u \in seen[t] : Saved(u)

RunsOK == \A t \in Tasks : pc[t] = "deciding" => FoundOK(t)

RecordInv == SeenSaved /\ RecordOK /\ RunsOK

\* A run that has saved is done: nothing of it changes.
SavedStay ==
    \A t \in Tasks : Saved(t) =>
        Saved(t)' /\ request'[t] = request[t] /\ seen'[t] = seen[t]

\* No step touches a run that has saved.
LEMMA NextSavedStay == Frames /\ [Next]_vars => SavedStay
<1> SUFFICES ASSUME Frames, [Next]_vars, NEW u \in Tasks, Saved(u)
             PROVE  Saved(u)' /\ request'[u] = request[u] /\ seen'[u] = seen[u]
  BY DEF SavedStay
<1>1. pc[u] = "done"
  BY DEF Saved, Frames, FrameOf
<1>t. /\ pc \in [Tasks -> {"idle", "started", "deciding", "done"}]
      /\ request \in [Tasks -> Requests \cup {None}] /\ seen \in [Tasks -> SUBSET Tasks]
      /\ response \in [Tasks -> Responses \cup {None}]
  BY DEF Frames, TypeOK
<1>2. CASE Tick \/ OperatorSetsStatus \/ OperatorRequires \/ UNCHANGED vars
  BY <1>2 DEF Tick, OperatorSetsStatus, OperatorRequires, vars, Saved
<1>3. ASSUME NEW t \in Tasks, Start(t) \/ Find(t)
      PROVE  Saved(u)' /\ request'[u] = request[u] /\ seen'[u] = seen[u]
  BY <1>1, <1>t, <1>3 DEF Start, Find, Finish, Saved
<1>4. ASSUME NEW t \in Tasks, Create(t) \/ Update(t) \/ Decline(t) \/ Abandon(t)
      PROVE  Saved(u)' /\ request'[u] = request[u] /\ seen'[u] = seen[u]
  BY <1>1, <1>t, <1>4 DEF Create, Update, Decline, Abandon, Finish, Saved
<1>5. QED
  BY <1>2, <1>3, <1>4 DEF Next

\* Runs that others have seen save stay saved.
LEMMA SeenStays ==
    ASSUME TypeOK, SeenSaved, SavedStay, UNCHANGED seen
    PROVE  SeenSaved'
<1>1. \A t \in Tasks : seen[t] \subseteq Tasks
  BY DEF TypeOK
<1>2. \A t \in Tasks : \A u \in seen[t] : Saved(u)'
  BY <1>1 DEF SeenSaved, SavedStay
<1>3. QED
  BY <1>2 DEF SeenSaved

\* What was declared stays declared, and an excuse stays one.
LEMMA Stable ==
    ASSUME SavedStay
    PROVE  /\ \A d : Consented(d) => Consented(d)'
           /\ \A t \in Tasks : \A c : Saved(t) /\ Excused(t, c) => Excused(t, c)'
BY DEF SavedStay, Consented, Declares, Declared, Excused, Overlapped

\* What a run has found stays true of it while it waits for the policy.
LEMMA FoundStays ==
    ASSUME SavedStay, SeenSaved, TypeOK, NEW t \in Tasks, FoundOK(t),
           existing'[t] = existing[t], now'[t] = now[t],
           request'[t] = request[t], seen'[t] = seen[t]
    PROVE  FoundOK(t)'
<1>1. \A u \in seen[t] : u \in Tasks /\ Saved(u) /\ request'[u] = request[u]
  BY DEF SavedStay, SeenSaved, TypeOK
<1>2. CASE existing[t] = None
  BY <1>2 DEF FoundOK
<1>3. CASE existing[t] # None
  <2>1. ASSUME NEW u \in seen[t], NEW c \in DOMAIN request[u].claims
        PROVE  Kept(existing[t], u, c)' \/ Excused(u, c)'
    <3>1. Kept(existing[t], u, c) \/ Excused(u, c)
      BY <1>3, <2>1 DEF FoundOK
    <3>2. CASE Kept(existing[t], u, c)
      BY <1>1, <3>2 DEF Kept
    <3>3. CASE Excused(u, c)
      BY <1>1, <3>3, Stable
    <3>4. QED
      BY <3>1, <3>2, <3>3
  <2>2. \A d \in existing'[t].acks : Consented(d)'
    BY <1>3, Stable DEF FoundOK
  <2>3. Good(existing[t])' /\ existing'[t].created_at <= now'[t]
    BY <1>3 DEF FoundOK, Good
  <2>4. QED
    BY <1>1, <1>3, <2>1, <2>2, <2>3 DEF FoundOK
<1>4. QED
  BY <1>2, <1>3

\* So does what is known of the record, of its claims and acknowledgements.
LEMMA RecordStays ==
    ASSUME SavedStay, RecordOK, \A t \in Tasks : Saved(t)' => Saved(t),
           record = None => record' = None,
           record # None =>
            /\ record' # None /\ record'.claims = record.claims /\ record'.acks = record.acks
            /\ Good(record)' /\ record'.created_at <= clock'
    PROVE  RecordOK'
<1>1. CASE record = None
  BY <1>1 DEF RecordOK
<1>2. CASE record # None
  <2>1. ASSUME NEW t \in Tasks, Saved(t), NEW c \in DOMAIN request[t].claims
        PROVE  Kept(record, t, c)' \/ Excused(t, c)'
    <3>1. Kept(record, t, c) \/ Excused(t, c)
      BY <1>2, <2>1 DEF RecordOK
    <3>2. CASE Kept(record, t, c)
      BY <1>2, <2>1, <3>2 DEF Kept, SavedStay
    <3>3. CASE Excused(t, c)
      BY <2>1, <3>3, Stable
    <3>4. QED
      BY <3>1, <3>2, <3>3
  <2>2. \A d \in record'.acks : Consented(d)'
    BY <1>2, Stable DEF RecordOK
  <2>3. \A t \in Tasks : Saved(t)' =>
            \A c \in DOMAIN request'[t].claims : Kept(record, t, c)' \/ Excused(t, c)'
    BY <2>1 DEF SavedStay
  <2>4. QED
    BY <1>2, <2>2, <2>3 DEF RecordOK
<1>3. QED
  BY <1>1, <1>2

\* At first there is no record.
LEMMA InitRecord == Init => RecordInv
BY DEF Init, RecordInv, SeenSaved, RecordOK, RunsOK, Saved

\* A run that finds the record, or fails its requirements at once.
LEMMA FindStep ==
    ASSUME Frames, RecordInv, SavedStay, NEW t \in Tasks, Find(t)
    PROVE  RecordInv'
<1>t. /\ pc \in [Tasks -> {"idle", "started", "deciding", "done"}] /\ seen \in [Tasks -> SUBSET Tasks]
      /\ existing \in [Tasks -> Records \cup {None}] /\ now \in [Tasks -> (0..MaxTime) \cup {None}]
      /\ response \in [Tasks -> Responses \cup {None}] /\ TypeOK
  BY DEF Frames, TypeOK
<1>1. UNCHANGED <<record, clock, request>> /\ pc[t] = "started" /\ response[t] = None
  BY DEF Find, Finish, Frames, FrameOf
<1>2. \A u \in Tasks : Saved(u)' <=> Saved(u)
  BY <1>t, <1>1 DEF Find, Finish, Saved, SavedStay
<1>3. \A u \in Tasks \ {t} :
        /\ pc'[u] = pc[u] /\ existing'[u] = existing[u] /\ now'[u] = now[u]
        /\ seen'[u] = seen[u] /\ request'[u] = request[u]
  BY <1>t, <1>1 DEF Find, Finish
<1>4. /\ pc'[t] = "deciding" => existing'[t] = record /\ now'[t] = clock
                                /\ (record = None => ~UnmetAtFirst(request[t]))
      /\ \/ seen'[t] = {u \in Tasks : Saved(u)}
         \/ seen'[t] = seen[t] /\ pc'[t] = "done"
  BY <1>t DEF Find, Finish
<1>5. SeenSaved'
  BY <1>2, <1>3, <1>4, <1>t DEF RecordInv, SeenSaved
<1>6. RecordOK'
  BY <1>1, <1>2, RecordStays DEF RecordInv, RecordOK, Good
<1>7. RunsOK'
  <2>1. ASSUME NEW u \in Tasks \ {t}, pc'[u] = "deciding" PROVE FoundOK(u)'
    BY <1>t, <1>3, <2>1, FoundStays DEF RecordInv, RunsOK
  <2>2. ASSUME pc'[t] = "deciding" PROVE FoundOK(t)'
    <3>1. seen'[t] = {u \in Tasks : Saved(u)} /\ existing'[t] = record
      BY <1>4, <2>2
    <3>2. CASE record = None
      BY <1>1, <1>4, <2>2, <3>1, <3>2 DEF FoundOK, RecordInv, RecordOK, UnmetAtFirst, MissingClaims
    <3>3. CASE record # None
      <4>1. Good(existing[t])' /\ existing'[t].created_at <= now'[t]
        BY <1>4, <2>2, <3>3 DEF RecordInv, RecordOK, Good
      <4>2. \A d \in existing'[t].acks : Consented(d)'
        BY <3>1, <3>3, <1>6, <1>1 DEF RecordOK
      <4>3. ASSUME NEW u \in Tasks, Saved(u), NEW c \in DOMAIN request[u].claims
            PROVE  Kept(existing[t], u, c)' \/ Excused(u, c)'
        <5>1. Kept(record, u, c)' \/ Excused(u, c)'
          BY <1>1, <1>2, <1>6, <3>3, <4>3 DEF RecordOK
        <5>2. QED
          BY <1>1, <3>1, <5>1 DEF Kept
      <4>4. QED
        BY <1>1, <3>1, <3>3, <4>1, <4>2, <4>3 DEF FoundOK
    <3>4. QED
      BY <3>2, <3>3
  <2>3. QED
    BY <2>1, <2>2 DEF RunsOK
<1>8. QED
  BY <1>5, <1>6, <1>7 DEF RecordInv

\* A run that ends without saving changes nothing.
LEMMA QuietFinish ==
    ASSUME Frames, RecordInv, SavedStay, NEW t \in Tasks, NEW r,
           pc[t] = "deciding", Finish(t, r), r.kind # "saved", UNCHANGED record
    PROVE  RecordInv'
<1>t. /\ pc \in [Tasks -> {"idle", "started", "deciding", "done"}]
      /\ response \in [Tasks -> Responses \cup {None}] /\ TypeOK
  BY DEF Frames, TypeOK
<1>1. \A u \in Tasks : Saved(u)' <=> Saved(u)
  BY <1>t DEF Finish, Saved, SavedStay
<1>2. SeenSaved'
  BY <1>t, SeenStays DEF Finish, RecordInv
<1>3. RecordOK'
  BY <1>1, RecordStays DEF Finish, RecordInv, RecordOK, Good
<1>4. RunsOK'
  BY <1>t, FoundStays DEF Finish, RecordInv, RunsOK
<1>5. QED
  BY <1>2, <1>3, <1>4 DEF RecordInv

\* A run that saves: its own claims are on record, and those of a run it has seen are
\* kept or named by its request.  One that it has not seen overlapped with it.
LEMMA SaveStep ==
    ASSUME Frames, RecordInv, SavedStay, NEW t \in Tasks, NEW r,
           pc[t] = "deciding", Finish(t, r), r # None, r.kind = "saved",
           record' # None, Good(record)', record'.created_at <= clock,
           \A d \in record'.acks : Consented(d) \/ Declares(t, d),
           \A c \in DOMAIN request[t].claims : Kept(record, t, c)',
           \A u \in seen[t] : \A c : c \notin DOMAIN request[t].claims /\ Kept(existing[t], u, c) =>
                Kept(record, u, c)'
    PROVE  RecordInv'
<1>t. /\ pc \in [Tasks -> {"idle", "started", "deciding", "done"}]
      /\ response \in [Tasks -> Responses \cup {None}] /\ TypeOK
  BY DEF Frames, TypeOK
<1>1. ~Saved(t) /\ Saved(t)' /\ \A u \in Tasks \ {t} : Saved(u)' <=> Saved(u)
  BY <1>t DEF Finish, Saved, Frames, FrameOf
<1>2. UNCHANGED <<clock, request, existing, now, seen>>
  BY DEF Finish
<1>3. SeenSaved'
  BY <1>t, <1>2, SeenStays DEF RecordInv
<1>4. RunsOK'
  BY <1>t, <1>2, FoundStays DEF Finish, RecordInv, RunsOK
<1>5. ASSUME NEW u \in Tasks, Saved(u)', NEW c \in DOMAIN request[u].claims
      PROVE  Kept(record, u, c)' \/ Excused(u, c)'
  <2>1. CASE u = t
    BY <1>5, <2>1
  <2>2. CASE u # t /\ u \notin seen[t]
    <3>1. t \notin seen[u]
      BY <1>1 DEF RecordInv, SeenSaved
    <3>2. QED
      BY <1>1, <1>2, <2>2, <3>1 DEF Excused, Overlapped
  <2>3. CASE u # t /\ u \in seen[t]
    <3>1. Kept(existing[t], u, c) \/ Excused(u, c)
      BY <1>5, <2>3 DEF RecordInv, RunsOK, FoundOK
    <3>2. CASE c \in DOMAIN request[t].claims
      BY <1>1, <1>2, <2>3, <3>2 DEF Excused
    <3>3. CASE c \notin DOMAIN request[t].claims /\ Kept(existing[t], u, c)
      BY <2>3, <3>3
    <3>4. CASE Excused(u, c)
      BY <1>1, <1>5, <2>3, <3>4, Stable
    <3>5. QED
      BY <3>1, <3>2, <3>3, <3>4
  <2>4. QED
    BY <2>1, <2>2, <2>3
<1>6. \A d \in record'.acks : Consented(d)'
  <2>1. \A d : Declares(t, d) => Consented(d)'
    BY <1>1, <1>2 DEF Consented, Declares, Declared
  <2>2. QED
    BY <2>1, Stable
<1>7. RecordOK'
  BY <1>2, <1>5, <1>6 DEF RecordOK
<1>8. QED
  BY <1>3, <1>4, <1>7 DEF RecordInv

\* A first enrollment.
LEMMA CreateStep ==
    ASSUME Frames, RecordInv, SavedStay, NEW t \in Tasks, Create(t)
    PROVE  RecordInv'
<1>1. PICK status \in Decisions :
        /\ record' = [claims |-> request[t].claims,
                      acks |-> IF status = "rejected" THEN {} ELSE Accepted({}, Declared(request[t])),
                      required |-> {}, status |-> status,
                      created_at |-> now[t], since |-> now[t], updated_at |-> now[t]]
        /\ Finish(t, [kind |-> "saved", status |-> status])
  BY DEF Create
<1>2. pc[t] = "deciding" /\ existing[t] = None /\ FoundOK(t)
  BY DEF Create, RecordInv, RunsOK
<1>3. now[t] \in 0..MaxTime /\ now[t] <= clock
  BY <1>2 DEF Frames, FrameOf
<1>4. record' # None /\ [kind |-> "saved", status |-> status] # None
  <2>1. record' \in Records
    <3>1. request[t].claims \in Claims
      BY <1>2, RequestsHaveType DEF Frames, FrameOf
    <3>2. QED
      BY <1>1, <1>3, <3>1 DEF Records, Accepted, Decisions, Statuses
  <2>2. [kind |-> "saved", status |-> status] \in Responses
    BY DEF Responses, Decisions, Statuses
  <2>3. QED
    BY <2>1, <2>2, NoneIsNothing
<1>5. Good(record)' /\ record'.created_at <= clock
  BY <1>1, <1>2, <1>3 DEF Good, FoundOK
<1>6. \A d \in record'.acks : Declares(t, d)
  BY <1>1 DEF Accepted, Declares
<1>7. \A c \in DOMAIN request[t].claims : Kept(record, t, c)'
  BY <1>1 DEF Kept, Finish
<1>8. seen[t] = {}
  BY <1>2 DEF FoundOK
<1>9. QED
  BY <1>1, <1>2, <1>4, <1>5, <1>6, <1>7, <1>8, SaveStep

\* A later one, over the record the run has found.
LEMMA UpdateStep ==
    ASSUME Frames, RecordInv, SavedStay, NEW t \in Tasks, Update(t)
    PROVE  RecordInv'
<1>1. pc[t] = "deciding" /\ existing[t] # None /\ FoundOK(t)
  BY DEF Update, RecordInv, RunsOK
<1>2. CASE UnmetAtUpdate(t)
  BY <1>1, <1>2, QuietFinish DEF Update
<1>3. CASE ~UnmetAtUpdate(t)
  <2> DEFINE q == request[t]
             old == existing[t]
             r == [kind |-> "saved", status |-> old.status]
  <2>1. record' = Updated(t) /\ Finish(t, r)
    BY <1>3 DEF Update
  <2>2. now[t] \in 0..MaxTime /\ now[t] <= clock /\ old \in Records
    BY <1>1 DEF Frames, FrameOf, TypeOK
  <2>3. /\ record'.claims = Merged(old.claims, q.claims)
        /\ record'.acks = Accepted(old.acks, Declared(q))
        /\ record'.created_at = old.created_at /\ record'.since = old.since
        /\ record'.updated_at = now[t]
    BY <2>1, <2>2 DEF Updated, Records
  <2>4. record' # None /\ r # None
    <3>1. response'[t] = r
      BY <2>1 DEF Finish, Frames, TypeOK
    <3>2. record' \in Records
      <4>1. request[t].claims \in Claims
        BY <1>1, RequestsHaveType DEF Frames, FrameOf
      <4>2. Merged(old.claims, q.claims) \in Claims
        BY <2>2, <4>1, MergedType DEF Records
      <4>3. QED
        BY <2>1, <2>2, <4>2 DEF Updated, Records, Accepted
    <3>3. QED
      BY <3>1, <3>2, SavedType, NoneIsNothing
  <2>5. Good(record)' /\ record'.created_at <= clock
    <3>1. old.created_at \in 0..MaxTime /\ old.created_at <= now[t] /\ old.created_at <= old.since
      BY <1>1, <2>2 DEF FoundOK, Good, Records
    <3>2. RequiredClaims \subseteq DOMAIN record'.claims
      BY <1>3, <2>3 DEF UnmetAtUpdate, MissingClaims
    <3>3. clock \in 0..MaxTime
      BY DEF Frames, TypeOK
    <3>4. QED
      BY <2>2, <2>3, <3>1, <3>2, <3>3 DEF Good
  <2>6. \A d \in record'.acks : Consented(d) \/ Declares(t, d)
    BY <1>1, <2>3 DEF FoundOK, Accepted, Declares
  <2>7. \A c \in DOMAIN q.claims : Kept(record, t, c)'
    BY <2>1, <2>3 DEF Kept, Merged, Finish
  <2>8. \A u \in seen[t] : \A c : c \notin DOMAIN q.claims /\ Kept(old, u, c) => Kept(record, u, c)'
    BY <2>1, <2>3 DEF Kept, Merged, Finish
  <2>9. QED
    BY <1>1, <2>1, <2>4, <2>5, <2>6, <2>7, <2>8, SaveStep
<1>4. QED
  BY <1>2, <1>3

\* Every step keeps what is known of records.
LEMMA NextRecord == Frames /\ RecordInv /\ [Next]_vars => RecordInv'
<1> SUFFICES ASSUME Frames, RecordInv, [Next]_vars PROVE RecordInv'
  OBVIOUS
<1>0. SavedStay
  BY NextSavedStay
<1>t. TypeOK /\ pc \in [Tasks -> {"idle", "started", "deciding", "done"}]
  BY DEF Frames, TypeOK
<1>1. CASE Tick \/ OperatorSetsStatus \/ OperatorRequires \/ UNCHANGED vars
  <2>1. UNCHANGED <<pc, request, existing, now, response, seen>>
    BY <1>1 DEF Tick, OperatorSetsStatus, OperatorRequires, vars
  <2>2. \A u \in Tasks : Saved(u)' <=> Saved(u)
    BY <2>1 DEF Saved
  <2>3. SeenSaved'
    BY <1>0, <1>t, <2>1, SeenStays DEF RecordInv
  <2>4. RunsOK'
    BY <1>0, <1>t, <2>1, FoundStays DEF RecordInv, RunsOK
  <2>5. clock \in Nat /\ clock' \in Nat /\ clock <= clock' /\ record \in Records \cup {None}
    <3>1. clock \in 0..MaxTime /\ record \in Records \cup {None}
      BY DEF Frames, TypeOK
    <3>2. clock' = clock \/ clock' = clock + 1
      BY <1>1 DEF Tick, OperatorSetsStatus, OperatorRequires, vars
    <3>3. QED
      BY <3>1, <3>2, MaxTimeIsNat
  <2>6. record = None => record' = None
    BY <1>1 DEF Tick, OperatorSetsStatus, OperatorRequires, vars
  <2>7. record # None =>
            /\ record' # None /\ record'.claims = record.claims /\ record'.acks = record.acks
            /\ Good(record)' /\ record'.created_at <= clock'
    <3> SUFFICES ASSUME record # None
                 PROVE  /\ record' # None /\ record'.claims = record.claims
                        /\ record'.acks = record.acks
                        /\ Good(record)' /\ record'.created_at <= clock'
      OBVIOUS
    <3>1. record \in Records /\ Good(record) /\ record.created_at <= clock
      BY <2>5 DEF RecordInv, RecordOK
    <3>2. record.created_at \in Nat /\ record.since \in Nat
      BY <3>1, MaxTimeIsNat DEF Records
    <3>3. CASE UNCHANGED record
      BY <2>5, <3>1, <3>2, <3>3 DEF Good
    <3>4. CASE OperatorSetsStatus
      <4>1. PICK status \in OperatorStatuses :
                record' = [record EXCEPT !.status = status, !.since = clock, !.updated_at = clock]
        BY <3>4 DEF OperatorSetsStatus
      <4>2. /\ record'.claims = record.claims /\ record'.acks = record.acks
            /\ record'.created_at = record.created_at
            /\ record'.since = clock /\ record'.updated_at = clock
        BY <3>1, <4>1 DEF Records
      <4>3. record' \in Records
        BY <3>1, <4>1, OperatorStatusesExist DEF Records, Frames, TypeOK
      <4>4. QED
        BY <2>5, <3>1, <3>2, <4>2, <4>3, NoneIsNothing DEF Good
    <3>5. CASE OperatorRequires
      <4>1. PICK d \in RequiredDocuments :
                record' = [record EXCEPT !.required = @ \cup {d}, !.updated_at = clock]
        BY <3>5 DEF OperatorRequires
      <4>2. /\ record'.claims = record.claims /\ record'.acks = record.acks
            /\ record'.created_at = record.created_at
            /\ record'.since = record.since /\ record'.updated_at = clock
        BY <3>1, <4>1 DEF Records
      <4>3. record' \in Records
        BY <3>1, <4>1, RequiredDocumentsExist DEF Records, Frames, TypeOK
      <4>4. QED
        BY <2>5, <3>1, <3>2, <4>2, <4>3, NoneIsNothing DEF Good
    <3>6. QED
      BY <1>1, <3>3, <3>4, <3>5 DEF Tick, vars
  <2>8. RecordOK'
    BY <1>0, <2>2, <2>6, <2>7, RecordStays DEF RecordInv
  <2>9. QED
    BY <2>3, <2>4, <2>8 DEF RecordInv
<1>2. ASSUME NEW t \in Tasks, Start(t) PROVE RecordInv'
  <2>1. /\ UNCHANGED <<record, clock, existing, now, response, seen>>
        /\ \A u \in Tasks : pc'[u] = "deciding" => pc[u] = "deciding" /\ request'[u] = request[u]
    BY <1>t, <1>2 DEF Start, Frames, TypeOK
  <2>2. \A u \in Tasks : Saved(u)' <=> Saved(u)
    BY <2>1 DEF Saved
  <2>3. SeenSaved' /\ RunsOK'
    BY <1>0, <1>t, <2>1, FoundStays, SeenStays DEF RecordInv, RunsOK
  <2>4. RecordOK'
    BY <1>0, <2>1, <2>2, RecordStays DEF RecordInv, RecordOK, Good
  <2>5. QED
    BY <2>3, <2>4 DEF RecordInv
<1>3. ASSUME NEW t \in Tasks, Decline(t) \/ Abandon(t) PROVE RecordInv'
  BY <1>0, <1>3, QuietFinish DEF Decline, Abandon
<1>4. QED
  BY <1>0, <1>1, <1>2, <1>3, FindStep, CreateStep, UpdateStep DEF Next

\* What is known of records holds in every state.
THEOREM InductiveInvariant == Spec => [](Frames /\ RecordInv)
<1>1. Init => Frames /\ RecordInv
  BY InitFrames, InitRecord
<1>2. Frames /\ RecordInv /\ [Next]_vars => (Frames /\ RecordInv)'
  BY NextFrames, NextRecord
<1>3. QED
  BY <1>1, <1>2, PTL DEF Spec

\* A claim that was saved is on record until a later run names it, unless an
\* overlapping run saved over it.
THEOREM ClaimsAreKept == Spec => []LostClaimsNeedOverlap
<1>1. RecordInv => LostClaimsNeedOverlap
  BY DEF RecordInv, RecordOK, LostClaimsNeedOverlap, Kept, Excused
<1>2. QED
  BY <1>1, InductiveInvariant, PTL

\* An acknowledged document was declared in a saved request.
THEOREM ConsentIsDeclared == Spec => []AcknowledgedWasDeclared
<1>1. RecordInv => AcknowledgedWasDeclared
  BY DEF RecordInv, RecordOK, AcknowledgedWasDeclared, Consented
<1>2. QED
  BY <1>1, InductiveInvariant, PTL

\* The record holds every required claim, and its instants are in order.
THEOREM RequiredHeld == Spec => []RequiredClaimsHeld
<1>1. RecordInv => RequiredClaimsHeld
  BY DEF RecordInv, RecordOK, Good, RequiredClaimsHeld
<1>2. QED
  BY <1>1, InductiveInvariant, PTL

\* A run that saves over the record it found preserves what its request does not name.
THEOREM Preservation == Spec => UpdatesPreserve
<1>1. Frames /\ [Next]_vars =>
        [\A t \in Tasks :
            (~Saved(t) /\ Saved(t)' /\ record # None /\ existing[t] = record) =>
                /\ record'.status = record.status
                /\ record'.created_at = record.created_at
                /\ record'.since = record.since
                /\ \A c \in DOMAIN record.claims \ DOMAIN request[t].claims :
                    c \in DOMAIN record'.claims /\ record'.claims[c] = record.claims[c]
                /\ record.acks \subseteq record'.acks
                /\ record'.required \subseteq record.required
                /\ \A d \in record.required \ record'.required : Declares(t, d)]_vars
  <2> SUFFICES ASSUME Frames, [Next]_vars, NEW t \in Tasks,
                      ~Saved(t), Saved(t)', record # None, existing[t] = record
               PROVE  /\ record'.status = record.status
                      /\ record'.created_at = record.created_at
                      /\ record'.since = record.since
                      /\ \A c \in DOMAIN record.claims \ DOMAIN request[t].claims :
                          c \in DOMAIN record'.claims /\ record'.claims[c] = record.claims[c]
                      /\ record.acks \subseteq record'.acks
                      /\ record'.required \subseteq record.required
                      /\ \A d \in record.required \ record'.required : Declares(t, d)
    OBVIOUS
  <2>t. record \in Records /\ response \in [Tasks -> Responses \cup {None}]
    BY DEF Frames, TypeOK
  <2>1. ~UnmetAtUpdate(t) /\ Update(t)
    <3>1. ASSUME NEW u \in Tasks, Start(u) PROVE FALSE
      BY <3>1 DEF Start, Saved
    <3>2. ASSUME NEW u \in Tasks, Find(u) \/ Decline(u) \/ Abandon(u) PROVE FALSE
      BY <2>t, <3>2 DEF Find, Decline, Abandon, Finish, Saved
    <3>3. ASSUME NEW u \in Tasks, Create(u) PROVE FALSE
      BY <2>t, <3>3 DEF Create, Finish, Saved
    <3>4. ASSUME NEW u \in Tasks, Update(u) PROVE u = t /\ ~UnmetAtUpdate(t)
      BY <2>t, <3>4 DEF Update, Finish, Saved
    <3>5. QED
      BY <3>1, <3>2, <3>3, <3>4 DEF Next, Tick, OperatorSetsStatus, OperatorRequires, vars, Saved
  <2>2. record' = Updated(t)
    BY <2>1 DEF Update
  <2>3. /\ record'.status = record.status /\ record'.created_at = record.created_at
        /\ record'.since = record.since
        /\ record'.claims = Merged(record.claims, request[t].claims)
        /\ record'.acks = Accepted(record.acks, Declared(request[t]))
        /\ record'.required = IF Declared(request[t]) = None THEN record.required
                              ELSE record.required \ Declared(request[t])
    BY <2>t, <2>2 DEF Updated, Records
  <2>4. QED
    BY <2>3 DEF Merged, Accepted, Declares
<1>2. QED
  BY <1>1, InductiveInvariant, PTL DEF Spec, UpdatesPreserve

----------------------------------------------------------------------------
(***************************************************************************)
(* What an Agent and a Service say to each other: CommandExchange.         *)
(***************************************************************************)
USE DEF Commands!serviceVars, Commands!boundVars, Commands!exchangeVars, Commands!goalVars

\* What is left of a list is of the list, and nothing that was to be left out.
LEMMA WhatIsLeft ==
    ASSUME NEW words, NEW out
    PROVE  /\ Commands!Without(words, out) \in Commands!Parts(words)
           /\ Commands!Range(Commands!Without(words, out)) \cap out = {}
BY DEF Commands!Without, Commands!Parts, Commands!Restrict, Commands!Range

\* A part of a list has words of the list, and none twice that the list has once.
LEMMA PartOfList ==
    ASSUME NEW words, NEW part \in Commands!Parts(words)
    PROVE  /\ Commands!Range(part) \subseteq Commands!Range(words)
           /\ DOMAIN part \subseteq DOMAIN words
           /\ Commands!IsInjective(words) => Commands!IsInjective(part)
BY DEF Commands!Parts, Commands!Restrict, Commands!Range, Commands!IsInjective

\* Cardinality is the same operator there.
LEMMA SameCardinality == \A S : Commands!Cardinality(S) = Cardinality(S)
BY DEF Commands!Cardinality, Cardinality

\* A list of documents that may be required is one that a client can read.
LEMMA RequirableIds ==
    ASSUME NEW ids \in Commands!Requirable
    PROVE  Commands!ValidIds(ids) /\ ids # Nothing
<1>1. ids # Nothing
  BY NothingIsNoList
<1>2. CASE ids = <<>>
  <2>1. DOMAIN ids = {} /\ Commands!Range(ids) = {} /\ Commands!IsInjective(ids)
    BY <1>2 DEF Commands!Range, Commands!IsInjective
  <2>2. Commands!Cardinality(DOMAIN ids) = 0
    BY <2>1, SameCardinality, FS_EmptySet
  <2> QED
    BY <1>1, <2>1, <2>2 DEF Commands!ValidIds, Commands!MaxDocumentIds
<1>3. CASE ids # <<>>
  <2>1. PICK c \in Commands!Accepted : c.documents # Nothing /\ ids \in Commands!Parts(c.documents)
    BY <1>3 DEF Commands!Requirable
  <2>2. Commands!ValidIds(c.documents) /\ IsFiniteSet(DOMAIN c.documents)
    BY <2>1, ConfigurationsHaveType DEF Commands!Accepted, Commands!ValidInspectDocument
  <2>3. /\ Commands!Range(ids) \subseteq Commands!Range(c.documents)
        /\ DOMAIN ids \subseteq DOMAIN c.documents
        /\ Commands!IsInjective(ids)
    BY <2>1, <2>2, PartOfList DEF Commands!ValidIds
  <2>4. /\ Cardinality(DOMAIN ids) <= Cardinality(DOMAIN c.documents)
        /\ Cardinality(DOMAIN ids) \in Nat /\ Cardinality(DOMAIN c.documents) \in Nat
    BY <2>2, <2>3, FS_Subset, FS_CardinalityType
  <2> QED
    BY <1>1, <2>2, <2>3, <2>4, SameCardinality DEF Commands!ValidIds, Commands!MaxDocumentIds
<1> QED
  BY <1>2, <1>3

\* A refusal that names what is required reads as a problem, if the names of the claims
\* differ and none is the reserved one.
LEMMA RefusalReads ==
    ASSUME NEW c \in Commands!Accepted, NEW claims \in Commands!Parts(c.claims),
           NEW ids \in Commands!Requirable,
           claims # <<>> \/ ids # <<>>,
           Commands!IsInjective(c.claims), ServiceDocuments \notin Commands!Range(c.claims)
    PROVE  Commands!ValidProblem(Commands!DocumentRequirements(claims, ids))
<1> DEFINE p == Commands!DocumentRequirements(claims, ids)
<1>1. /\ Commands!IsInjective(claims) /\ Commands!Range(claims) \subseteq Commands!Range(c.claims)
      /\ DOMAIN claims \subseteq DOMAIN c.claims
  BY PartOfList
<1>2. /\ EmptyWord \notin Commands!Range(claims) /\ ServiceDocuments \notin Commands!Range(claims)
      /\ 0 \notin DOMAIN claims
  BY <1>1, ConfigurationsHaveType DEF Commands!Accepted, Commands!ValidInspectDocument
<1>3. claims # Nothing /\ Commands!Announced(claims) # Nothing
  BY NothingIsNoList DEF Commands!Accepted
<1>4. Commands!ValidIds(ids) /\ ids # Nothing
  BY RequirableIds
<1>5. /\ p.http = 422 /\ p.code = "requirements_unmet" /\ p.verification = Nothing
      /\ p.documents = Commands!Optional(ids)
      /\ p.requirements = (IF ids = <<>> THEN claims ELSE Commands!Announced(claims))
  BY DEF Commands!DocumentRequirements, Commands!Problem
<1>6. CASE ids = <<>>
  <2>1. p.documents = Nothing /\ p.requirements = claims /\ claims # <<>>
    BY <1>5, <1>6 DEF Commands!Optional
  <2>2. Commands!NonEmptyUnique(claims)
    BY <1>1, <1>2, <2>1 DEF Commands!NonEmptyUnique
  <2> HIDE DEF p
  <2>3. ~(p.requirements # Nothing /\ ServiceDocuments \in Commands!Range(p.requirements))
    BY <1>2, <2>1
  <2>4. Commands!OptionalIds(p.documents) /\ Commands!PendingListsValid(p)
    BY <1>5, <2>1, <2>2
    DEF Commands!OptionalIds, Commands!PendingListsValid, Commands!OptionalWords
  <2>5. p.documents = Nothing /\ p.code # "not_recognized"
    BY <1>5, <2>1
  <2> QED
    BY <2>3, <2>4, <2>5 DEF Commands!ValidProblem, p
<1>7. CASE ids # <<>>
  <2> DEFINE w == Commands!Announced(claims)
  <2>1. p.documents = ids /\ p.requirements = w
    BY <1>5, <1>7 DEF Commands!Optional
  <2>2. /\ DOMAIN w = {0} \cup DOMAIN claims /\ w[0] = ServiceDocuments
        /\ \A i \in DOMAIN claims : w[i] = claims[i]
    BY <1>2 DEF Commands!Announced
  <2>3. ServiceDocuments \in Commands!Range(w)
    BY <2>2 DEF Commands!Range
  <2>4. EmptyWord \notin Commands!Range(w)
    BY <1>2, <2>2, WordsDiffer DEF Commands!Range
  <2>5. Commands!IsInjective(w)
    BY <1>1, <1>2, <2>2 DEF Commands!IsInjective, Commands!Range
  <2>6. w # <<>>
    BY <2>2
  <2>7. Commands!NonEmptyUnique(w) /\ w # Nothing
    BY <1>3, <2>4, <2>5, <2>6 DEF Commands!NonEmptyUnique
  <2> HIDE DEF p, w
  <2>8. p.requirements # Nothing /\ ServiceDocuments \in Commands!Range(p.requirements)
    BY <2>1, <2>3, <2>7
  <2>9. Commands!OptionalIds(p.documents) /\ Commands!PendingListsValid(p)
    BY <1>4, <1>5, <2>1, <2>7
    DEF Commands!OptionalIds, Commands!PendingListsValid, Commands!OptionalWords
  <2>10. /\ p.documents # Nothing /\ p.documents # <<>> /\ p.http = 422
         /\ p.code = "requirements_unmet" /\ p.code # "not_recognized"
    BY <1>4, <1>5, <1>7, <2>1
  <2> QED
    BY <2>8, <2>9, <2>10 DEF Commands!ValidProblem, p
<1> QED
  BY <1>6, <1>7

\* The lists of a record that are proper are read, and so is a problem that turns a command
\* away, unless it announces documents.
LEMMA ProperRead ==
    ASSUME NEW words, words = <<>> \/ Commands!NonEmptyUnique(words)
    PROVE  Commands!OptionalWords(Commands!Optional(words))
BY DEF Commands!OptionalWords, Commands!Optional

\* A problem that turns a command away is read, if the lists of the record are proper and
\* announce no documents.
LEMMA TurnedReads ==
    ASSUME NEW a, NEW s, Commands!Turned(a, s),
           a.http = 403 =>
             Commands!ProperLists(s.pending) /\ ServiceDocuments \notin Commands!Range(s.pending.requirements)
    PROVE  Commands!ValidProblem(a)
<1>1. CASE a \in {Commands!Problem(401, "not_recognized"), Commands!Problem(403, "enrollment_failed"),
                  Commands!Problem(403, "identity_suspended"), Commands!Problem(409, "idempotency_conflict")}
  BY <1>1
  DEF Commands!Problem, Commands!ValidProblem, Commands!OptionalIds, Commands!PendingListsValid,
      Commands!OptionalWords
<1>2. CASE a = Commands!Blocked([status |-> "pending", pending |-> s.pending])
  <2> DEFINE p == s.pending
  <2> DEFINE q == [status |-> "pending", pending |-> s.pending]
  <2>6. q.status = "pending" /\ q.pending = p
    OBVIOUS
  <2> HIDE DEF q
  <2>1. /\ a.http = 403 /\ a.code = "verification_pending" /\ a.documents = Nothing
        /\ a.requirements = Commands!Optional(p.requirements)
        /\ a.verification = Commands!Optional(p.verification)
    <3>1. a = [Commands!Problem(403, "verification_pending") EXCEPT
                !.owner = q.pending.owner,
                !.requirements = Commands!Optional(q.pending.requirements),
                !.verification = Commands!Optional(q.pending.verification)]
      BY <1>2, <2>6 DEF Commands!Blocked, q
    <3> QED
      BY <2>6, <3>1 DEF Commands!Problem
  <2>2. Commands!OptionalWords(a.requirements) /\ Commands!OptionalWords(a.verification)
    BY <2>1, ProperRead DEF Commands!ProperLists
  <2>3. a.requirements # Nothing => ServiceDocuments \notin Commands!Range(a.requirements)
    BY <2>1 DEF Commands!Optional
  <2> QED
    BY <2>1, <2>2, <2>3 DEF Commands!ValidProblem, Commands!OptionalIds,
                            Commands!PendingListsValid
<1> QED
  BY <1>1, <1>2 DEF Commands!Turned

\* What an answer is, by its status.
LEMMA AnswersApart ==
    ASSUME NEW a, NEW s, NEW c
    PROVE  /\ Commands!RefusedFor(a, s) => a.http = 422
           /\ Commands!Turned(a, s) => a.http \in {401, 403, 409}
           /\ Commands!Succeeded(a, s, c) => a.http = 200
<1>1. Commands!RefusedFor(a, s) => a.http = 422
  BY DEF Commands!RefusedFor, Commands!DocumentRequirements, Commands!Problem
<1>2. Commands!Turned(a, s) => a.http \in {401, 403, 409}
  <2>1. ASSUME NEW http, NEW code PROVE Commands!Problem(http, code).http = http
    BY DEF Commands!Problem
  <2>2. Commands!Blocked([status |-> "pending", pending |-> s.pending]).http = 403
    BY DEF Commands!Problem, Commands!Blocked
  <2> QED
    BY <2>1, <2>2 DEF Commands!Turned
<1>3. Commands!Succeeded(a, s, c) => a.http = 200
  BY DEF Commands!Succeeded, Commands!EnrollResponse, Commands!StatusResponse
<1> QED
  BY <1>1, <1>2, <1>3

\* What the Agent cannot read is explained.
LEMMA BareExplained ==
    ASSUME Commands!CallsValid, Commands!AnsweredAsServed, Commands!HeardAsAnswered
    PROVE  AnswersUnderstood
<1>1. ASSUME heard = "bare"
      PROVE  \/ /\ answer.http = 422
                /\ ~Commands!IsInjective(served.claims) \/ ServiceDocuments \in Commands!Range(served.claims)
             \/ /\ answer.http = 403
                /\ \/ ~Commands!ProperLists(served.pending)
                   \/ ServiceDocuments \in Commands!Range(served.pending.requirements)
  <2>1. answer # Nothing /\ answer.http # 200 /\ ~Commands!ValidProblem(answer)
    BY <1>1 DEF Commands!HeardAsAnswered
  <2>2. Commands!Answered(answer, served, command)
    BY <2>1 DEF Commands!AnsweredAsServed
  <2>3. CASE Commands!RefusedFor(answer, served)
    <3>1. PICK claims \in Commands!Parts(served.claims), ids \in Commands!Requirable :
            /\ claims # <<>> \/ ids # <<>>
            /\ answer = Commands!DocumentRequirements(claims, ids)
      BY <2>3 DEF Commands!RefusedFor
    <3>2. PICK c \in Commands!Accepted : served.claims = c.claims
      BY <2>2 DEF Commands!Answered
    <3>3. answer.http = 422
      BY <2>3, AnswersApart
    <3> QED
      BY <2>1, <3>1, <3>2, <3>3, RefusalReads
  <2>4. CASE Commands!Turned(answer, served)
    BY <2>1, <2>4, TurnedReads
  <2> QED
    BY <2>1, <2>2, <2>3, <2>4, AnswersApart DEF Commands!Answered
<1>2. ASSUME heard = "refused"
      PROVE  CASE command.command = "grant" -> ~answer.wellFormed
               [] OTHER -> \/ ~Commands!ProperLists(served.pending)
                           \/ /\ command.command = "enroll"
                              /\ command.acks # Nothing /\ ~served.extension
  <2>1. answer # Nothing /\ answer.http = 200 /\ ~Commands!Understood
    BY <1>2 DEF Commands!HeardAsAnswered
  <2>2. Commands!Answered(answer, served, command) /\ Commands!Succeeded(answer, served, command)
    BY <2>1, AnswersApart DEF Commands!AnsweredAsServed, Commands!Answered
  <2>3. CASE command.command = "enroll"
    <3>1. PICK status \in Commands!Statuses :
            answer = Commands!EnrollResponse([status |-> status, pending |-> served.pending],
                                      IF served.extension THEN command.acks ELSE Nothing)
      BY <2>2, <2>3 DEF Commands!Succeeded
    <3>2. /\ answer.status = status
          /\ answer.acks = (IF status = "rejected" THEN Nothing
                            ELSE IF served.extension THEN command.acks ELSE Nothing)
          /\ answer.requirements = Commands!Optional(served.pending.requirements)
          /\ answer.verification = Commands!Optional(served.pending.verification)
      BY <3>1 DEF Commands!EnrollResponse
    <3>3. SUFFICES ASSUME Commands!ProperLists(served.pending), served.extension \/ command.acks = Nothing
                   PROVE  FALSE
      BY <2>3
    <3>4. Commands!PendingListsValid(answer)
      BY <3>2, <3>3, ProperRead DEF Commands!ProperLists, Commands!PendingListsValid
    <3>5. Commands!OptionalIds(answer.acks) /\ (answer.status # "rejected" => answer.acks = command.acks)
      BY <2>2, <2>3, <3>2, <3>3 DEF Commands!Answered, Commands!OptionalIds
    <3> QED
      BY <2>1, <2>3, <3>4, <3>5 DEF Commands!Understood, Commands!ValidEnrollResponse
  <2>4. CASE command.command = "status"
    <3>1. /\ answer.requirements = Commands!Optional(served.pending.requirements)
          /\ answer.verification = Commands!Optional(served.pending.verification)
      BY <2>2, <2>4 DEF Commands!Succeeded, Commands!StatusResponse
    <3>2. SUFFICES ASSUME Commands!ProperLists(served.pending) PROVE FALSE
      BY <2>4
    <3>3. Commands!PendingListsValid(answer)
      BY <3>1, <3>2, ProperRead DEF Commands!ProperLists, Commands!PendingListsValid
    <3> QED
      BY <2>1, <2>4, <3>3 DEF Commands!Understood, Commands!ValidStatusResponse
  <2>5. CASE command.command = "grant"
    <3>1. PICK w \in BOOLEAN : answer = [http |-> 200, id |-> "credential", wellFormed |-> w]
      BY <2>2, <2>5 DEF Commands!Succeeded
    <3>2. answer.id # EmptyWord
      BY <3>1, WordsDiffer
    <3> QED
      BY <2>1, <2>5, <3>2 DEF Commands!Understood, Commands!ValidCredential
  <2> QED
    BY <2>2, <2>3, <2>4, <2>5 DEF Commands!Succeeded
<1> QED
  BY <1>1, <1>2, Zenon DEF AnswersUnderstood, Commands!AnswersUnderstood
\* What the reply to a command leaves, whatever it is.
LEMMA ExchangeReply ==
    ASSUME Commands!ExchangeInvariant, NEW a, NEW r, NEW kept \in BOOLEAN, Commands!Reply(a, r, kept),
           answer = Nothing, command # Nothing, UNCHANGED <<config, command, heard, told>>,
           \/ Commands!RefusedFor(a, served')
           \/ Commands!Turned(a, served')
           \/ Commands!Succeeded(a, served', command),
           r # Nothing => r \in Commands!Records,
           met' => /\ told # Nothing /\ r # Nothing
                   /\ told.claims \subseteq r.claims
                   /\ told.documents \subseteq r.acks \ r.required,
           a.http = 422 => Commands!Requirements(a).documents \subseteq Commands!Configured,
           a.http = 422 /\ met =>
             /\ Commands!Requirements(a).claims \cap told.claims = {}
             /\ Commands!Requirements(a).documents \cap told.documents = {}
    PROVE  Commands!ExchangeInvariant'
<1>1. /\ Commands!CallsValid /\ Commands!AnsweredAsServed /\ Commands!HeardAsAnswered
      /\ Commands!GoalsStand /\ Commands!MetStaysMet
  BY DEF Commands!ExchangeInvariant
<1>2. /\ answer' = a /\ enrollment' = r
      /\ served' = [claims |-> config.claims, extension |-> config.extension,
                    pending |-> IF r = Nothing THEN Nothing ELSE r.pending,
                    met |-> met, anew |-> TRUE]
      /\ memo' = IF kept /\ command.key # Nothing
                 THEN [memo EXCEPT ![command.key] =
                        [call |-> command, answer |-> a, served |-> served']]
                 ELSE memo
  BY DEF Commands!Reply
<1>3. /\ served'.claims = config.claims /\ served'.extension = config.extension
      /\ served'.met = met /\ served'.anew = TRUE
      /\ DOMAIN served' = {"claims", "extension", "pending", "met", "anew"}
  BY <1>2
<1>4. Commands!Answered(a, served', command)
  BY <1>1, <1>3 DEF Commands!Answered, Commands!CallsValid
<1> HIDE DEF Commands!Reply
<1>5. memo' = [k \in ReusedKeys |-> memo'[k]]
      /\ \A k \in ReusedKeys :
           \/ memo'[k] = memo[k]
           \/ memo'[k] = [call |-> command, answer |-> a, served |-> served']
  BY <1>1, <1>2 DEF Commands!CallsValid
<1>6. Commands!CallsValid'
  BY <1>1, <1>2, <1>5 DEF Commands!CallsValid, Commands!Accepted, Commands!ValidInspectDocument,
                          Commands!Records, Commands!Statuses
<1>7. Commands!AnsweredAsServed'
  <2>1. Commands!Answered(a, served', command) = Commands!Answered(answer, served, command)'
    BY <1>2
    DEF Commands!Answered, Commands!RefusedFor, Commands!Turned, Commands!Succeeded,
        Commands!Requirable, Commands!Accepted
  <2>2. ASSUME NEW k \in ReusedKeys, memo'[k] # Nothing
        PROVE  Commands!Answered(memo[k].answer, memo[k].served, memo[k].call)'
    <3>1. Commands!Answered(memo'[k].answer, memo'[k].served, memo'[k].call)
      <4>1. CASE memo'[k] = memo[k]
        BY <1>1, <2>2, <4>1 DEF Commands!AnsweredAsServed
      <4>2. CASE memo'[k] = [call |-> command, answer |-> a, served |-> served']
        BY <1>4, <4>2
      <4> QED
        BY <1>5, <4>1, <4>2
    <3> QED
      BY <3>1
      DEF Commands!Answered, Commands!RefusedFor, Commands!Turned, Commands!Succeeded,
          Commands!Requirable, Commands!Accepted
  <2> QED
    BY <1>4, <2>1, <2>2 DEF Commands!AnsweredAsServed
<1>8. Commands!HeardAsAnswered'
  BY <1>1 DEF Commands!HeardAsAnswered
<1>9. Commands!GoalsStand'
  BY <1>1, <1>2, <1>3 DEF Commands!GoalsStand, Commands!Configured, Commands!Requirements
<1>10. Commands!MetStaysMet'
  BY <1>2, <1>3 DEF Commands!MetStaysMet, Commands!Requirements
<1> QED
  BY <1>6, <1>7, <1>8, <1>9, <1>10 DEF Commands!ExchangeInvariant

\* The lists of a refusal: of the claims and the documents that are configured, and nothing
\* that the Agent has brought.
LEMMA MissingAre ==
    ASSUME Commands!CallsValid, NEW claims
    PROVE  /\ Commands!Missing(claims) \in Commands!Parts(config.claims)
           /\ Commands!Range(Commands!Missing(claims)) \cap claims = {}
BY WhatIsLeft DEF Commands!Missing

\* The documents of a refusal: configured ones, and none the Agent has brought.
LEMMA MissingDocumentsAre ==
    ASSUME Commands!CallsValid, NEW r
    PROVE  /\ Commands!MissingDocuments(r) \in Commands!Requirable
           /\ Commands!Range(Commands!MissingDocuments(r)) \subseteq Commands!Configured
           /\ r # Nothing => Commands!Range(Commands!MissingDocuments(r)) \cap (r.acks \ r.required) = {}
<1>1. CASE config.documents = Nothing
  <2>1. Commands!MissingDocuments(r) = <<>> /\ Commands!Range(Commands!MissingDocuments(r)) = {}
    BY <1>1 DEF Commands!MissingDocuments, Commands!Range
  <2> QED
    BY <2>1 DEF Commands!Requirable
<1>2. CASE config.documents # Nothing
  <2> DEFINE out == IF r = Nothing THEN {} ELSE r.acks \ r.required
             ids == Commands!Without(config.documents, out)
  <2>1. Commands!MissingDocuments(r) = ids
    BY <1>2 DEF Commands!MissingDocuments
  <2>2. ids \in Commands!Parts(config.documents) /\ Commands!Range(ids) \cap out = {}
    BY WhatIsLeft
  <2> HIDE DEF ids
  <2>3. Commands!Range(ids) \subseteq Commands!Range(config.documents)
    BY <2>2, PartOfList
  <2>4. config \in Commands!Accepted
    BY DEF Commands!CallsValid
  <2> QED
    BY <1>2, <2>1, <2>2, <2>3, <2>4 DEF Commands!Requirable, Commands!Configured
<1> QED
  BY <1>1, <1>2

\* What the Agent is told by a refusal.
LEMMA RefusalRequires ==
    ASSUME NEW c \in Configurations, NEW claims \in Commands!Parts(c.claims), NEW ids \in Commands!Requirable
    PROVE  LET told_ == Commands!Requirements(Commands!DocumentRequirements(claims, ids)) IN
           /\ told_.claims \subseteq Commands!Range(claims)
           /\ told_.documents = Commands!Range(ids)
<1> DEFINE p == Commands!DocumentRequirements(claims, ids)
<1>1. ids # Nothing
  BY RequirableIds
<1>2. 0 \notin DOMAIN claims
  BY PartOfList, ConfigurationsHaveType
<1>3. /\ p.requirements = (IF ids = <<>> THEN claims ELSE Commands!Announced(claims))
      /\ p.documents = (IF ids = <<>> THEN Nothing ELSE ids)
  BY DEF Commands!DocumentRequirements, Commands!Problem, Commands!Optional
<1>4. Commands!Range(Commands!Announced(claims)) \ {ServiceDocuments} \subseteq Commands!Range(claims)
  BY <1>2 DEF Commands!Announced, Commands!Range
<1>5. Commands!Range(p.requirements) \ {ServiceDocuments} \subseteq Commands!Range(claims)
  BY <1>3, <1>4
<1>6. (IF p.documents = Nothing THEN {} ELSE Commands!Range(p.documents)) = Commands!Range(ids)
  BY <1>1, <1>3 DEF Commands!Range
<1> QED
  BY <1>5, <1>6 DEF Commands!Requirements

\* A refusal names what the Agent has not brought.
LEMMA ExchangeRefuses ==
    ASSUME Commands!ExchangeInvariant, NEW claims, NEW r, NEW ids \in {<<>>, Commands!MissingDocuments(r)},
           Commands!Refuse(Commands!Missing(claims), ids), answer = Nothing, command # Nothing,
           UNCHANGED <<config, command, heard, told>>,
           met => /\ told.claims \subseteq claims
                  /\ r # Nothing /\ told.documents \subseteq r.acks \ r.required
    PROVE  Commands!ExchangeInvariant'
<1> DEFINE m == Commands!Missing(claims)
           a == Commands!DocumentRequirements(m, ids)
<1>1. Commands!CallsValid /\ Commands!GoalsStand
  BY DEF Commands!ExchangeInvariant
<1>2. m \in Commands!Parts(config.claims) /\ Commands!Range(m) \cap claims = {}
  BY <1>1, MissingAre
<1>3. /\ ids \in Commands!Requirable /\ Commands!Range(ids) \subseteq Commands!Configured
      /\ r # Nothing => Commands!Range(ids) \cap (r.acks \ r.required) = {}
  <2>1. CASE ids = <<>>
    BY <2>1 DEF Commands!Requirable, Commands!Range
  <2> QED
    BY <1>1, <2>1, MissingDocumentsAre
<1>4. /\ m # <<>> \/ ids # <<>>
      /\ Commands!Reply(a, enrollment, TRUE) /\ met' = met
  BY DEF Commands!Refuse
<1> HIDE DEF m
<1>5. config \in Configurations
  BY <1>1 DEF Commands!CallsValid, Commands!Accepted
<1>6. /\ Commands!Requirements(a).claims \subseteq Commands!Range(m)
      /\ Commands!Requirements(a).documents = Commands!Range(ids)
  BY <1>2, <1>3, <1>5, RefusalRequires
<1>7. served'.claims = config.claims
  BY <1>4 DEF Commands!Reply
<1>8. Commands!RefusedFor(a, served')
  BY <1>2, <1>3, <1>4, <1>7 DEF Commands!RefusedFor
<1>9. met => Commands!Requirements(a).claims \cap told.claims = {}
             /\ Commands!Requirements(a).documents \cap told.documents = {}
  BY <1>2, <1>3, <1>6
<1>10. enrollment # Nothing => enrollment \in Commands!Records
  BY <1>1 DEF Commands!CallsValid
<1>11. met' => /\ told # Nothing /\ enrollment # Nothing
               /\ told.claims \subseteq enrollment.claims
               /\ told.documents \subseteq enrollment.acks \ enrollment.required
  BY <1>1, <1>4 DEF Commands!GoalsStand
<1>12. \/ Commands!RefusedFor(a, served')
       \/ Commands!Turned(a, served')
       \/ Commands!Succeeded(a, served', command)
  BY <1>8
<1>13. a.http = 422 => Commands!Requirements(a).documents \subseteq Commands!Configured
  BY <1>3, <1>6
<1>14. a.http = 422 /\ met => /\ Commands!Requirements(a).claims \cap told.claims = {}
                             /\ Commands!Requirements(a).documents \cap told.documents = {}
  BY <1>9
<1> HIDE DEF a
<1> QED
  BY <1>4, <1>10, <1>11, <1>12, <1>13, <1>14, ExchangeReply, Zenon

\* The steps that answer.
LEMMA ExchangeCreates ==
    ASSUME Commands!ExchangeInvariant, Commands!Create
    PROVE  Commands!ExchangeInvariant'
<1>1. Commands!CallsValid /\ Commands!AnsweredAsServed /\ Commands!GoalsStand
  BY DEF Commands!ExchangeInvariant
<1>2. /\ command # Nothing /\ answer = Nothing /\ command.command = "enroll" /\ enrollment = Nothing
      /\ UNCHANGED <<config, command, heard, told>>
  BY DEF Commands!Create, Commands!Fresh
<1>3. met = FALSE
  BY <1>1, <1>2 DEF Commands!GoalsStand
<1> DEFINE missing == Commands!Missing(command.claims)
           ids == IF Commands!Declared = Nothing THEN Commands!MissingDocuments(Nothing) ELSE <<>>
<1>4. CASE Commands!Refuse(missing, ids)
  <2>1. ids \in {<<>>, Commands!MissingDocuments(Nothing)}
    OBVIOUS
  <2> QED
    BY <1>2, <1>3, <1>4, <2>1, ExchangeRefuses
<1>5. ASSUME missing = <<>>, ids = <<>>,
             NEW status \in {"active", "pending", "rejected"}, NEW p \in Pendings,
             NEW r, r = [status |-> status, claims |-> command.claims,
                         acks |-> IF status = "rejected" THEN {} ELSE Commands!Known(Commands!Declared),
                         required |-> {}, pending |-> p],
             Commands!Reply(Commands!EnrollResponse(r, Commands!Declared), r, TRUE),
             met' = (met \/ (Commands!Meets /\ status # "rejected"))
      PROVE  Commands!ExchangeInvariant'
  <2> DEFINE a == Commands!EnrollResponse(r, Commands!Declared)
  <2>1. /\ command.claims \in Offers
        /\ command.acks # Nothing => Commands!Range(command.acks) \subseteq DocumentIds
    BY <1>1, <1>2 DEF Commands!CallsValid
  <2>2. Commands!Known(Commands!Declared) \subseteq DocumentIds
    BY <2>1 DEF Commands!Known, Commands!Declared
  <2>3. r \in Commands!Records
    BY <1>5, <2>1, <2>2 DEF Commands!Records, Commands!Statuses
  <2>4. r # Nothing
    BY <2>3, NothingIsNoRecord
  <2>5. met' => /\ told # Nothing /\ told.claims \subseteq r.claims
                /\ told.documents \subseteq r.acks \ r.required
    <3>1. SUFFICES ASSUME Commands!Meets, status # "rejected"
                   PROVE  /\ told # Nothing /\ told.claims \subseteq r.claims
                          /\ told.documents \subseteq r.acks \ r.required
      BY <1>3, <1>5
    <3>2. /\ told # Nothing /\ told.claims \subseteq command.claims
          /\ told.documents # {} =>
               Commands!Declared # Nothing /\ told.documents \subseteq Commands!Range(Commands!Declared)
          /\ told.documents \subseteq Commands!Configured
      BY <1>1, <3>1 DEF Commands!Meets, Commands!GoalsStand
    <3>3. told.documents \subseteq Commands!Known(Commands!Declared)
      BY <3>2 DEF Commands!Known, Commands!Configured
    <3> QED
      BY <1>5, <3>1, <3>2, <3>3
  <2>6. Commands!Succeeded(a, served', command)
    <3>1. served'.extension = config.extension /\ served'.pending = r.pending
      BY <1>5, <2>4 DEF Commands!Reply
    <3>2. Commands!Declared = (IF served'.extension THEN command.acks ELSE Nothing)
      BY <3>1 DEF Commands!Declared
    <3>3. a = Commands!EnrollResponse([status |-> r.status, pending |-> served'.pending],
                               IF served'.extension THEN command.acks ELSE Nothing)
      BY <3>1, <3>2 DEF Commands!EnrollResponse
    <3>4. r.status \in Commands!Statuses
      BY <2>3 DEF Commands!Records
    <3> QED
      BY <1>2, <3>3, <3>4 DEF Commands!Succeeded
  <2>7. a.http # 422
    BY DEF Commands!EnrollResponse
  <2>8. Commands!Reply(a, r, TRUE)
    BY <1>5
  <2> HIDE DEF a
  <2> QED
    BY <1>2, <2>3, <2>4, <2>5, <2>6, <2>7, <2>8, ExchangeReply, Zenon
<1> QED
  BY <1>4, <1>5 DEF Commands!Create

\* An update whose policy lets it through leaves a record.
LEMMA UpdatedRecord ==
    ASSUME Commands!ExchangeInvariant, command # Nothing, command.command = "enroll", enrollment # Nothing,
           NEW p \in Pendings \cup {enrollment.pending},
           NEW r, r = [enrollment EXCEPT !.claims = Commands!Merged(enrollment),
                                     !.acks = @ \cup Commands!Known(Commands!Declared),
                                     !.required = Commands!StillRequiredAfter(enrollment),
                                     !.pending = p]
    PROVE  /\ r \in Commands!Records /\ r # Nothing
           /\ met \/ Commands!Meets =>
                /\ told # Nothing /\ told.claims \subseteq r.claims
                /\ told.documents \subseteq r.acks \ r.required
<1>1. Commands!CallsValid /\ Commands!GoalsStand
  BY DEF Commands!ExchangeInvariant
<1>2. /\ command.claims \in Offers
      /\ command.acks # Nothing => Commands!Range(command.acks) \subseteq DocumentIds
      /\ enrollment \in Commands!Records
  BY <1>1 DEF Commands!CallsValid
<1>3. Commands!Known(Commands!Declared) \subseteq DocumentIds
  BY <1>2 DEF Commands!Known, Commands!Declared
<1>4. /\ r.claims = enrollment.claims \cup command.claims
      /\ r.acks = enrollment.acks \cup Commands!Known(Commands!Declared)
      /\ r.required = (IF Commands!Declared = Nothing THEN enrollment.required
                       ELSE enrollment.required \ Commands!Range(Commands!Declared))
      /\ r.pending = p /\ r.status = enrollment.status
      /\ r = [status |-> r.status, claims |-> r.claims, acks |-> r.acks,
              required |-> r.required, pending |-> r.pending]
  BY <1>2 DEF Commands!Merged, Commands!StillRequiredAfter, Commands!Records
<1>5. /\ enrollment.status \in Commands!Statuses /\ enrollment.claims \subseteq UNION Offers
      /\ enrollment.acks \subseteq DocumentIds /\ enrollment.required \subseteq DocumentIds
      /\ enrollment.pending \in Pendings
  BY <1>2 DEF Commands!Records
<1>6. r.claims \subseteq UNION Offers /\ r.required \subseteq enrollment.required
  BY <1>2, <1>4, <1>5
<1>7. r \in Commands!Records
  BY <1>3, <1>4, <1>5, <1>6 DEF Commands!Records
<1>8. ASSUME met
      PROVE  /\ told # Nothing /\ told.claims \subseteq r.claims
             /\ told.documents \subseteq r.acks \ r.required
  BY <1>1, <1>4, <1>6, <1>8 DEF Commands!GoalsStand
<1>9. ASSUME Commands!Meets
      PROVE  /\ told # Nothing /\ told.claims \subseteq r.claims
             /\ told.documents \subseteq r.acks \ r.required
  <2>1. /\ told # Nothing /\ told.claims \subseteq command.claims
        /\ told.documents # {} =>
               Commands!Declared # Nothing /\ told.documents \subseteq Commands!Range(Commands!Declared)
        /\ told.documents \subseteq Commands!Configured
    BY <1>1, <1>9 DEF Commands!Meets, Commands!GoalsStand
  <2>2. told.documents \subseteq Commands!Known(Commands!Declared)
    BY <2>1 DEF Commands!Known, Commands!Configured
  <2>3. told.documents \cap r.required = {}
    BY <1>4, <2>1
  <2> QED
    BY <1>4, <2>1, <2>2, <2>3
<1> QED
  BY <1>7, <1>8, <1>9, NothingIsNoRecord

\* An Enroll of an Agent that is on record.
LEMMA ExchangeUpdates ==
    ASSUME Commands!ExchangeInvariant, Commands!Update
    PROVE  Commands!ExchangeInvariant'
<1>1. Commands!CallsValid /\ Commands!AnsweredAsServed /\ Commands!GoalsStand
  BY DEF Commands!ExchangeInvariant
<1>2. /\ command # Nothing /\ answer = Nothing /\ command.command = "enroll" /\ enrollment # Nothing
      /\ UNCHANGED <<config, command, heard, told>>
  BY DEF Commands!Update, Commands!Fresh
<1> DEFINE missing == Commands!Missing(Commands!Merged(enrollment))
           ids == IF Commands!Declared = Nothing THEN Commands!MissingDocuments(enrollment) ELSE <<>>
<1>4. CASE Commands!Refuse(missing, ids)
  <2>1. ids \in {<<>>, Commands!MissingDocuments(enrollment)}
    OBVIOUS
  <2>2. met => /\ told.claims \subseteq Commands!Merged(enrollment)
               /\ enrollment # Nothing /\ told.documents \subseteq enrollment.acks \ enrollment.required
    BY <1>1 DEF Commands!GoalsStand, Commands!Merged
  <2> QED
    BY <1>2, <1>4, <2>1, <2>2, ExchangeRefuses
<1>5. ASSUME NEW p \in Pendings \cup {enrollment.pending},
             NEW r, r = [enrollment EXCEPT !.claims = Commands!Merged(enrollment),
                                     !.acks = @ \cup Commands!Known(Commands!Declared),
                                     !.required = Commands!StillRequiredAfter(enrollment),
                                     !.pending = p],
             Commands!Reply(Commands!EnrollResponse(r, Commands!Declared), r, TRUE),
             met' = (met \/ Commands!Meets)
      PROVE  Commands!ExchangeInvariant'
  <2> DEFINE a == Commands!EnrollResponse(r, Commands!Declared)
  <2>3. /\ r \in Commands!Records /\ r # Nothing
        /\ met' => /\ told # Nothing /\ told.claims \subseteq r.claims
                   /\ told.documents \subseteq r.acks \ r.required
    BY <1>2, <1>5, UpdatedRecord
  <2>6. Commands!Succeeded(a, served', command)
    <3>1. served'.extension = config.extension /\ served'.pending = r.pending
      BY <1>5, <2>3 DEF Commands!Reply
    <3>2. Commands!Declared = (IF served'.extension THEN command.acks ELSE Nothing)
      BY <3>1 DEF Commands!Declared
    <3>3. a = Commands!EnrollResponse([status |-> r.status, pending |-> served'.pending],
                               IF served'.extension THEN command.acks ELSE Nothing)
      BY <3>1, <3>2 DEF Commands!EnrollResponse
    <3>4. r.status \in Commands!Statuses
      BY <2>3 DEF Commands!Records
    <3> QED
      BY <1>2, <3>3, <3>4 DEF Commands!Succeeded
  <2>7. a.http # 422
    BY DEF Commands!EnrollResponse
  <2>8. Commands!Reply(a, r, TRUE)
    BY <1>5
  <2> HIDE DEF a
  <2> QED
    BY <1>2, <2>3, <2>6, <2>7, <2>8, ExchangeReply, Zenon
<1> QED
  BY <1>4, <1>5 DEF Commands!Update

\* An answer that leaves the record, and is neither a refusal for what is required nor met.
LEMMA ExchangeLeaves ==
    ASSUME Commands!ExchangeInvariant, NEW a, NEW kept \in BOOLEAN, Commands!Reply(a, enrollment, kept),
           command # Nothing, answer = Nothing, UNCHANGED <<config, command, heard, told, met>>,
           Commands!Turned(a, served') \/ Commands!Succeeded(a, served', command)
    PROVE  Commands!ExchangeInvariant'
<1>1. Commands!CallsValid /\ Commands!GoalsStand
  BY DEF Commands!ExchangeInvariant
<1>2. a.http # 422
  BY AnswersApart
<1>3. enrollment # Nothing => enrollment \in Commands!Records
  BY <1>1 DEF Commands!CallsValid
<1>4. met' => /\ told # Nothing /\ enrollment # Nothing
              /\ told.claims \subseteq enrollment.claims
              /\ told.documents \subseteq enrollment.acks \ enrollment.required
  BY <1>1 DEF Commands!GoalsStand
<1> QED
  BY <1>2, <1>3, <1>4, ExchangeReply, Zenon

\* A policy that rejects an update, or leaves the record.
LEMMA ExchangeDeclines ==
    ASSUME Commands!ExchangeInvariant, Commands!Decline
    PROVE  Commands!ExchangeInvariant'
<1>1. Commands!CallsValid
  BY DEF Commands!ExchangeInvariant
<1>2. /\ command # Nothing /\ answer = Nothing /\ command.command = "enroll" /\ enrollment # Nothing
      /\ UNCHANGED <<config, command, heard, told, met>>
  BY DEF Commands!Decline, Commands!Fresh
<1>3. CASE Commands!Reply(Commands!Problem(403, "enrollment_failed"), enrollment, TRUE)
  <2>1. Commands!Turned(Commands!Problem(403, "enrollment_failed"), served')
    BY DEF Commands!Turned
  <2> QED
    BY <1>2, <1>3, <2>1, ExchangeLeaves
<1>4. CASE Commands!Reply(Commands!EnrollResponse(enrollment, Commands!Declared), enrollment, TRUE)
  <2> DEFINE a == Commands!EnrollResponse(enrollment, Commands!Declared)
  <2>1. served'.extension = config.extension /\ served'.pending = enrollment.pending
    BY <1>2, <1>4 DEF Commands!Reply
  <2>2. Commands!Declared = (IF served'.extension THEN command.acks ELSE Nothing)
    BY <2>1 DEF Commands!Declared
  <2>3. a = Commands!EnrollResponse([status |-> enrollment.status, pending |-> served'.pending],
                             IF served'.extension THEN command.acks ELSE Nothing)
    BY <2>1, <2>2 DEF Commands!EnrollResponse
  <2>4. enrollment.status \in Commands!Statuses
    BY <1>1, <1>2 DEF Commands!CallsValid, Commands!Records
  <2>5. Commands!Succeeded(a, served', command)
    BY <1>2, <2>3, <2>4 DEF Commands!Succeeded
  <2> QED
    BY <1>2, <1>4, <2>5, ExchangeLeaves
<1> QED
  BY <1>3, <1>4 DEF Commands!Decline

\* A Status.
LEMMA ExchangeAnswersStatus ==
    ASSUME Commands!ExchangeInvariant, Commands!AnswerStatus
    PROVE  Commands!ExchangeInvariant'
<1>1. Commands!CallsValid
  BY DEF Commands!ExchangeInvariant
<1>2. /\ command # Nothing /\ answer = Nothing /\ command.command = "status"
      /\ UNCHANGED <<config, command, heard, told, met>>
  BY DEF Commands!AnswerStatus
<1>3. CASE enrollment = Nothing
  <2>1. Commands!Turned(Commands!Problem(401, "not_recognized"), served')
    BY DEF Commands!Turned
  <2>2. Commands!Reply(Commands!Problem(401, "not_recognized"), enrollment, FALSE)
    BY <1>3 DEF Commands!AnswerStatus
  <2> QED
    BY <1>2, <2>1, <2>2, ExchangeLeaves
<1>4. CASE enrollment # Nothing
  <2> DEFINE a == Commands!StatusResponse(enrollment)
  <2>1. Commands!Reply(a, enrollment, FALSE)
    BY <1>4 DEF Commands!AnswerStatus
  <2>2. served'.pending = enrollment.pending
    BY <1>4, <2>1 DEF Commands!Reply
  <2>3. a = Commands!StatusResponse([status |-> enrollment.status, pending |-> served'.pending])
    BY <2>2 DEF Commands!StatusResponse
  <2>4. enrollment.status \in Commands!Statuses
    BY <1>1, <1>4 DEF Commands!CallsValid, Commands!Records
  <2>5. Commands!Succeeded(a, served', command)
    BY <1>2, <2>3, <2>4 DEF Commands!Succeeded
  <2> QED
    BY <1>2, <2>1, <2>5, ExchangeLeaves
<1> QED
  BY <1>3, <1>4

\* A grant to an Agent that is not active.
LEMMA ExchangeRefusesGrant ==
    ASSUME Commands!ExchangeInvariant, Commands!RefuseGrant
    PROVE  Commands!ExchangeInvariant'
<1>1. Commands!CallsValid
  BY DEF Commands!ExchangeInvariant
<1>2. /\ command # Nothing /\ answer = Nothing /\ command.command = "grant"
      /\ enrollment = Nothing \/ enrollment.status # "active"
      /\ UNCHANGED <<config, command, heard, told, met>>
  BY DEF Commands!RefuseGrant
<1>3. CASE enrollment = Nothing
  <2>1. Commands!Turned(Commands!Problem(401, "not_recognized"), served')
    BY DEF Commands!Turned
  <2>2. Commands!Reply(Commands!Problem(401, "not_recognized"), enrollment, FALSE)
    BY <1>3 DEF Commands!RefuseGrant
  <2> QED
    BY <1>2, <2>1, <2>2, ExchangeLeaves
<1>4. CASE enrollment # Nothing
  <2> DEFINE a == Commands!Blocked(enrollment)
  <2>1. Commands!Reply(a, enrollment, FALSE)
    BY <1>4 DEF Commands!RefuseGrant
  <2>2. served'.pending = enrollment.pending
    BY <1>4, <2>1 DEF Commands!Reply
  <2>3. enrollment.status \in {"pending", "rejected", "suspended"}
    BY <1>1, <1>2, <1>4 DEF Commands!CallsValid, Commands!Records, Commands!Statuses
  <2>4. Commands!Turned(a, served')
    <3>1. CASE enrollment.status = "pending"
      BY <2>2, <3>1 DEF Commands!Turned, Commands!Blocked
    <3>2. CASE enrollment.status = "rejected"
      BY <3>2 DEF Commands!Turned, Commands!Blocked
    <3>3. CASE enrollment.status = "suspended"
      BY <3>3 DEF Commands!Turned, Commands!Blocked
    <3> QED
      BY <2>3, <3>1, <3>2, <3>3
  <2> QED
    BY <1>2, <2>1, <2>4, ExchangeLeaves
<1> QED
  BY <1>3, <1>4

\* A grant to one that is.
LEMMA ExchangeIssues ==
    ASSUME Commands!ExchangeInvariant, Commands!Issue
    PROVE  Commands!ExchangeInvariant'
<1>1. Commands!CallsValid /\ Commands!GoalsStand
  BY DEF Commands!ExchangeInvariant
<1>2. /\ command # Nothing /\ answer = Nothing /\ command.command = "grant" /\ enrollment # Nothing
      /\ UNCHANGED <<config, command, heard, told>>
  BY DEF Commands!Issue, Commands!Fresh
<1>3. CASE Commands!Refuse(Commands!Missing(enrollment.claims), Commands!MissingDocuments(enrollment))
  <2>1. met => /\ told.claims \subseteq enrollment.claims
               /\ enrollment # Nothing /\ told.documents \subseteq enrollment.acks \ enrollment.required
    BY <1>1 DEF Commands!GoalsStand
  <2> QED
    BY <1>2, <1>3, <2>1, ExchangeRefuses
<1>4. ASSUME NEW w \in BOOLEAN, UNCHANGED met,
             Commands!Reply([http |-> 200, id |-> "credential", wellFormed |-> w], enrollment, TRUE)
      PROVE  Commands!ExchangeInvariant'
  <2>1. Commands!Succeeded([http |-> 200, id |-> "credential", wellFormed |-> w], served', command)
    BY <1>2 DEF Commands!Succeeded
  <2> QED
    BY <1>2, <1>4, <2>1, ExchangeLeaves
<1> QED
  BY <1>3, <1>4 DEF Commands!Issue

\* What answers there are does not change with the state.
LEMMA AnsweredNext ==
    /\ Commands!Answered(answer', served', command') = Commands!Answered(answer, served, command)'
    /\ \A k : Commands!Answered(memo'[k].answer, memo'[k].served, memo'[k].call)
               = Commands!Answered(memo[k].answer, memo[k].served, memo[k].call)'
    /\ Commands!ValidProblem(answer') = Commands!ValidProblem(answer)'
OBVIOUS

\* Nor with whether it is the store that answers.
LEMMA AnsweredStill ==
    ASSUME NEW a, NEW s, NEW c, Commands!Answered(a, s, c)
    PROVE  /\ a.http \in {200, 401, 403, 409, 422}
           /\ Commands!Answered(a, [s EXCEPT !.anew = FALSE], c)
<1> DEFINE s_ == [s EXCEPT !.anew = FALSE]
<1>1. /\ DOMAIN s = {"claims", "extension", "pending", "met", "anew"}
      /\ Commands!RefusedFor(a, s) \/ Commands!Turned(a, s) \/ Commands!Succeeded(a, s, c)
  BY DEF Commands!Answered
<1>2. /\ s_.claims = s.claims /\ s_.extension = s.extension /\ s_.pending = s.pending
      /\ DOMAIN s_ = DOMAIN s
  BY <1>1
<1> HIDE DEF s_
<1>3. Commands!RefusedFor(a, s_) \/ Commands!Turned(a, s_) \/ Commands!Succeeded(a, s_, c)
  BY <1>1, <1>2 DEF Commands!RefusedFor, Commands!Turned, Commands!Succeeded
<1>4. Commands!Answered(a, s_, c)
  BY <1>1, <1>2, <1>3 DEF Commands!Answered
<1> QED
  BY <1>1, <1>4, AnswersApart DEF s_

\* The idempotency store answers what it has, or that the key is another command's.
LEMMA ExchangeReplays ==
    ASSUME Commands!ExchangeInvariant, Commands!Replay
    PROVE  Commands!ExchangeInvariant'
<1>1. /\ Commands!CallsValid /\ Commands!AnsweredAsServed /\ Commands!HeardAsAnswered
      /\ Commands!GoalsStand /\ Commands!MetStaysMet
  BY DEF Commands!ExchangeInvariant
<1>3. /\ command # Nothing /\ answer = Nothing /\ memo[command.key] # Nothing /\ command.key \in ReusedKeys
      /\ answer' = (IF memo[command.key].call = command THEN memo[command.key].answer
                    ELSE Commands!Problem(409, "idempotency_conflict"))
      /\ served' = [memo[command.key].served EXCEPT !.anew = FALSE]
      /\ UNCHANGED <<config, enrollment, memo, command, heard, told, met>>
  BY <1>1 DEF Commands!Replay, Commands!CallsValid
<1> DEFINE kept == memo[command.key]
<1>4. Commands!Answered(kept.answer, kept.served, kept.call)
  BY <1>1, <1>3 DEF Commands!AnsweredAsServed
<1>5. Commands!Answered(kept.answer, served', kept.call)
  BY <1>3, <1>4, AnsweredStill
<1>6. Commands!Answered(answer', served', command)
  <2>1. CASE kept.call = command
    BY <1>3, <1>5, <2>1
  <2>2. CASE kept.call # command
    <3>1. answer' = Commands!Problem(409, "idempotency_conflict")
      BY <1>3, <2>2
    <3>2. Commands!Turned(answer', served')
      BY <3>1 DEF Commands!Turned
    <3>3. command.command = "enroll" => Commands!OptionalIds(command.acks)
      BY <1>1, <1>3 DEF Commands!CallsValid
    <3> QED
      BY <1>5, <3>2, <3>3 DEF Commands!Answered
  <2> QED
    BY <2>1, <2>2
<1>7. served'.anew = FALSE
  BY <1>3, <1>4 DEF Commands!Answered
<1>8. Commands!CallsValid'
  BY <1>1, <1>3 DEF Commands!CallsValid, Commands!Accepted, Commands!ValidInspectDocument,
                    Commands!Records, Commands!Statuses
<1>9. Commands!AnsweredAsServed'
  <2>1. Commands!Answered(answer', served', command')
    BY <1>3, <1>6
  <2>2. ASSUME NEW k \in ReusedKeys, memo'[k] # Nothing
        PROVE  Commands!Answered(memo'[k].answer, memo'[k].served, memo'[k].call)
    BY <1>1, <1>3, <2>2 DEF Commands!AnsweredAsServed
  <2> QED
    BY <1>3, <2>1, <2>2, AnsweredNext DEF Commands!AnsweredAsServed
<1>10. Commands!HeardAsAnswered'
  BY <1>1, <1>3 DEF Commands!HeardAsAnswered
<1>11. Commands!GoalsStand' /\ Commands!MetStaysMet'
  BY <1>1, <1>3, <1>7 DEF Commands!GoalsStand, Commands!MetStaysMet, Commands!Configured
<1> QED
  BY <1>8, <1>9, <1>10, <1>11 DEF Commands!ExchangeInvariant

\* A step that answers nothing and hears nothing, with the same answers kept, or none.
LEMMA AnswersStay ==
    ASSUME Commands!ExchangeInvariant,
           \/ UNCHANGED <<command, answer, served>>
           \/ answer' = Nothing,
           \/ UNCHANGED <<heard, command, answer>>
           \/ heard' \notin {"bare", "refused"},
           memo' = memo \/ memo' = [k \in ReusedKeys |-> Nothing]
    PROVE  Commands!AnsweredAsServed' /\ Commands!HeardAsAnswered'
<1>1. Commands!CallsValid /\ Commands!AnsweredAsServed /\ Commands!HeardAsAnswered
  BY DEF Commands!ExchangeInvariant
<1>2. answer' # Nothing => command' # Nothing /\ Commands!Answered(answer', served', command')
  BY <1>1 DEF Commands!AnsweredAsServed
<1>3. ASSUME NEW k \in ReusedKeys, memo'[k] # Nothing
      PROVE  Commands!Answered(memo'[k].answer, memo'[k].served, memo'[k].call)
  BY <1>1, <1>3 DEF Commands!AnsweredAsServed
<1>4. Commands!HeardAsAnswered'
  <2>1. CASE UNCHANGED <<heard, command, answer>>
    <3>1. Commands!Understood' = Commands!Understood
      BY <2>1 DEF Commands!Understood, Commands!ValidEnrollResponse, Commands!ValidStatusResponse,
                  Commands!ValidCredential, Commands!OptionalIds, Commands!PendingListsValid
    <3>2. Commands!ValidProblem(answer)' = Commands!ValidProblem(answer)
      BY <2>1, AnsweredNext
    <3> QED
      BY <1>1, <2>1, <3>1, <3>2 DEF Commands!HeardAsAnswered
  <2>2. CASE heard' \notin {"bare", "refused"}
    BY <2>2 DEF Commands!HeardAsAnswered
  <2> QED
    BY <2>1, <2>2
<1> QED
  BY <1>2, <1>3, <1>4, AnsweredNext DEF Commands!AnsweredAsServed

\* The steps of the Agent, which send, hear and return.
LEMMA ExchangeSends ==
    ASSUME Commands!ExchangeInvariant, Commands!Enroll \/ Commands!Status \/ Commands!Grant
    PROVE  Commands!ExchangeInvariant'
<1>1. /\ Commands!CallsValid /\ Commands!AnsweredAsServed /\ Commands!GoalsStand /\ Commands!MetStaysMet
  BY DEF Commands!ExchangeInvariant
<1>2. /\ command = Nothing
      /\ UNCHANGED <<config, enrollment, memo, answer, heard, served, told, met>>
  BY DEF Commands!Enroll, Commands!Status, Commands!Grant, Commands!Send
<1>3. answer = Nothing
  BY <1>1, <1>2 DEF Commands!AnsweredAsServed
<1>4. /\ {"command", "key"} \subseteq DOMAIN command'
      /\ command'.key \in ReusedKeys \cup {Nothing}
      /\ command'.command = "enroll" =>
           /\ command'.claims \in Offers
           /\ Commands!OptionalIds(command'.acks)
           /\ command'.acks # Nothing => Commands!Range(command'.acks) \subseteq DocumentIds
  <2>1. CASE Commands!Enroll
    <3>1. PICK c \in Offers, a \in {Nothing} \cup {<<>>} \cup {<<d>> : d \in DocumentIds},
               k \in ReusedKeys \cup {Nothing} :
            Commands!Send([command |-> "enroll", claims |-> c, acks |-> a, key |-> k, grant |-> FALSE])
      BY <2>1 DEF Commands!Enroll
    <3> DEFINE r == [command |-> "enroll", claims |-> c, acks |-> a, key |-> k, grant |-> FALSE]
    <3>2. /\ command' = r /\ r.command = "enroll" /\ r.claims = c /\ r.acks = a /\ r.key = k
          /\ {"command", "key"} \subseteq DOMAIN r
      BY <3>1 DEF Commands!Send
    <3>3. Commands!OptionalIds(a)
      BY <3>1 DEF Commands!Send, Commands!ValidEnrollRequest
    <3>4. a # Nothing => Commands!Range(a) \subseteq DocumentIds
      BY DEF Commands!Range
    <3> HIDE DEF r
    <3> QED
      BY <3>2, <3>3, <3>4
  <2>2. CASE Commands!Status \/ Commands!Grant
    BY <2>2 DEF Commands!Status, Commands!Grant, Commands!Send
  <2> QED
    BY <2>1, <2>2
<1>5. Commands!CallsValid'
  BY <1>1, <1>2, <1>4
  DEF Commands!CallsValid, Commands!Accepted, Commands!ValidInspectDocument, Commands!Records,
      Commands!Statuses, Commands!OptionalIds, Commands!ValidIds
<1>6. Commands!HeardAsAnswered /\ heard \notin {"bare", "refused"}
  BY <1>3 DEF Commands!ExchangeInvariant, Commands!HeardAsAnswered
<1>7. Commands!AnsweredAsServed' /\ Commands!HeardAsAnswered'
  BY <1>2, <1>3, <1>6, AnswersStay
<1>8. Commands!GoalsStand' /\ Commands!MetStaysMet'
  BY <1>1, <1>2, <1>3 DEF Commands!GoalsStand, Commands!MetStaysMet, Commands!Configured
<1> QED
  BY <1>5, <1>7, <1>8 DEF Commands!ExchangeInvariant

\* The grant after its status, and the return to the caller.
LEMMA ExchangeProceeds ==
    ASSUME Commands!ExchangeInvariant, Commands!Proceed \/ Commands!Return
    PROVE  Commands!ExchangeInvariant'
<1>1. /\ Commands!CallsValid /\ Commands!GoalsStand /\ Commands!MetStaysMet
  BY DEF Commands!ExchangeInvariant
<1>2. /\ answer' = Nothing /\ heard' = Nothing
      /\ UNCHANGED <<config, enrollment, memo, told, met>>
  BY DEF Commands!Proceed, Commands!Return
<1>3. command' # Nothing =>
        /\ {"command", "key"} \subseteq DOMAIN command'
        /\ command'.key \in ReusedKeys \cup {Nothing}
        /\ command'.command # "enroll"
  <2>1. CASE Commands!Proceed
    BY <1>1, <2>1 DEF Commands!Proceed, Commands!Proceeds, Commands!CallsValid
  <2>2. CASE Commands!Return
    BY <2>2 DEF Commands!Return
  <2> QED
    BY <2>1, <2>2
<1>4. Commands!CallsValid'
  BY <1>1, <1>2, <1>3 DEF Commands!CallsValid, Commands!Accepted, Commands!ValidInspectDocument,
                          Commands!Records, Commands!Statuses
<1>5. Commands!AnsweredAsServed' /\ Commands!HeardAsAnswered'
  BY <1>2, AnswersStay, NothingIsNoWord
<1>6. Commands!GoalsStand' /\ Commands!MetStaysMet'
  BY <1>1, <1>2 DEF Commands!GoalsStand, Commands!MetStaysMet, Commands!Configured
<1> QED
  BY <1>4, <1>5, <1>6 DEF Commands!ExchangeInvariant

\* The answer that arrives, or does not.
LEMMA ExchangeDelivers ==
    ASSUME Commands!ExchangeInvariant, Commands!Deliver \/ Commands!LoseAnswer
    PROVE  Commands!ExchangeInvariant'
<1>1. /\ Commands!CallsValid /\ Commands!AnsweredAsServed /\ Commands!HeardAsAnswered
      /\ Commands!GoalsStand /\ Commands!MetStaysMet
  BY DEF Commands!ExchangeInvariant
<1>2. UNCHANGED <<config, enrollment, memo, command, answer, served>>
  BY DEF Commands!Deliver, Commands!LoseAnswer
<1>3. Commands!CallsValid'
  BY <1>1, <1>2 DEF Commands!CallsValid, Commands!Accepted, Commands!ValidInspectDocument,
                    Commands!Records, Commands!Statuses
<1>4. heard' # Nothing
  BY NothingIsNoWord DEF Commands!Deliver, Commands!LoseAnswer
<1>5. Commands!MetStaysMet'
  BY <1>4 DEF Commands!MetStaysMet
<1>6. Commands!AnsweredAsServed'
  <2>1. answer' # Nothing => command' # Nothing /\ Commands!Answered(answer', served', command')
    BY <1>1, <1>2 DEF Commands!AnsweredAsServed
  <2>2. ASSUME NEW k \in ReusedKeys, memo'[k] # Nothing
        PROVE  Commands!Answered(memo'[k].answer, memo'[k].served, memo'[k].call)
    BY <1>1, <1>2, <2>2 DEF Commands!AnsweredAsServed
  <2> QED
    BY <2>1, <2>2, AnsweredNext DEF Commands!AnsweredAsServed
<1>7. Commands!HeardAsAnswered'
  <2>1. CASE Commands!Deliver
    <3>1. /\ heard' = "bare" => answer # Nothing /\ answer.http # 200 /\ ~Commands!ValidProblem(answer)
          /\ heard' = "refused" => answer # Nothing /\ answer.http = 200 /\ ~Commands!Understood
      BY <2>1 DEF Commands!Deliver
    <3>2. Commands!Understood' = Commands!Understood
      BY <1>2
      DEF Commands!Understood, Commands!ValidEnrollResponse, Commands!ValidStatusResponse,
          Commands!ValidCredential
    <3> QED
      BY <1>2, <3>1, <3>2, AnsweredNext DEF Commands!HeardAsAnswered
  <2>2. CASE Commands!LoseAnswer
    BY <2>2 DEF Commands!LoseAnswer, Commands!HeardAsAnswered
  <2> QED
    BY <2>1, <2>2
<1>8. Commands!GoalsStand'
  <2>1. CASE Commands!Deliver
    <3>1. CASE UNCHANGED <<told, met>>
      BY <1>1, <1>2, <1>4, <3>1 DEF Commands!GoalsStand, Commands!Configured
    <3>2. CASE /\ answer.http = 422 /\ met' = FALSE
               /\ told' = (IF served.anew THEN Commands!Requirements(answer) ELSE Nothing)
      <4>1. answer # Nothing /\ heard = Nothing
        BY <2>1 DEF Commands!Deliver
      <4>2. served.anew => Commands!Requirements(answer).documents \subseteq Commands!Configured
        BY <1>1, <3>2, <4>1 DEF Commands!GoalsStand
      <4>3. told' # Nothing => told'.documents \subseteq Commands!Configured
        BY <3>2, <4>2
      <4> QED
        BY <1>2, <1>4, <3>2, <4>3 DEF Commands!GoalsStand, Commands!Configured
    <3> QED
      BY <2>1, <3>1, <3>2 DEF Commands!Deliver
  <2>2. CASE Commands!LoseAnswer
    BY <1>1, <1>2, <1>4, <2>2 DEF Commands!LoseAnswer, Commands!GoalsStand, Commands!Configured
  <2> QED
    BY <2>1, <2>2
<1> QED
  BY <1>3, <1>5, <1>6, <1>7, <1>8 DEF Commands!ExchangeInvariant

\* What happens between two commands: there is no answer that is not heard.
LEMMA ExchangeAtRest ==
    ASSUME Commands!ExchangeInvariant, Commands!AtRest
    PROVE  answer = Nothing \/ heard # Nothing
BY NothingIsNoWord DEF Commands!ExchangeInvariant, Commands!AnsweredAsServed, Commands!AtRest,
                       Commands!Proceeds

\* The steps of the application and of the operator, and those that change nothing here.
LEMMA ExchangeChanges ==
    ASSUME Commands!ExchangeInvariant,
           \/ Commands!Inspect \/ Commands!SetStatus \/ Commands!Require
           \/ Commands!Reconfigure \/ Commands!Expire
           \/ UNCHANGED Commands!vars
    PROVE  Commands!ExchangeInvariant'
<1>1. /\ Commands!CallsValid /\ Commands!GoalsStand /\ Commands!MetStaysMet
  BY DEF Commands!ExchangeInvariant
<1>2. UNCHANGED <<command, answer, heard, served>>
  BY DEF Commands!Inspect, Commands!SetStatus, Commands!Require, Commands!Reconfigure,
         Commands!Expire, Commands!Edit, Commands!vars
<1>3. memo' = memo \/ memo' = [k \in ReusedKeys |-> Nothing]
  BY DEF Commands!Inspect, Commands!SetStatus, Commands!Require, Commands!Reconfigure,
         Commands!Expire, Commands!vars
<1>4. Commands!AnsweredAsServed' /\ Commands!HeardAsAnswered'
  BY <1>2, <1>3, AnswersStay
<1>5. config' \in Commands!Accepted
  BY <1>1 DEF Commands!CallsValid, Commands!Inspect, Commands!SetStatus, Commands!Require,
              Commands!Reconfigure, Commands!Expire, Commands!vars
<1>6. /\ enrollment' = enrollment
      \/ /\ enrollment # Nothing /\ enrollment' \in Commands!Records
         /\ enrollment'.claims = enrollment.claims
         /\ enrollment'.acks = enrollment.acks
         /\ enrollment'.required = enrollment.required \/ met' = FALSE
  <2>1. enrollment # Nothing => enrollment \in Commands!Records
    BY <1>1 DEF Commands!CallsValid
  <2>2. CASE Commands!SetStatus
    BY <2>1, <2>2 DEF Commands!SetStatus, Commands!Records
  <2>3. CASE Commands!Require
    BY <2>1, <2>3 DEF Commands!Require, Commands!Records, Commands!RequirementsChange
  <2>4. CASE Commands!Inspect \/ Commands!Reconfigure \/ Commands!Expire \/ UNCHANGED Commands!vars
    BY <2>4 DEF Commands!Inspect, Commands!Reconfigure, Commands!Expire, Commands!vars
  <2> QED
    BY <2>2, <2>3, <2>4
<1>7. enrollment' # Nothing => enrollment' \in Commands!Records
  BY <1>1, <1>6 DEF Commands!CallsValid
<1>8. Commands!CallsValid'
  BY <1>1, <1>2, <1>3, <1>5, <1>7
  DEF Commands!CallsValid, Commands!Accepted, Commands!ValidInspectDocument, Commands!Records,
      Commands!Statuses, Commands!OptionalIds, Commands!ValidIds
<1>9. \/ UNCHANGED <<config, told, met>>
      \/ told' = Nothing /\ met' = FALSE
  BY DEF Commands!Inspect, Commands!SetStatus, Commands!Require, Commands!Reconfigure,
         Commands!Expire, Commands!RequirementsChange, Commands!vars
<1>10. \/ UNCHANGED <<config, enrollment, told, met>>
       \/ answer = Nothing \/ heard # Nothing
  BY ExchangeAtRest DEF Commands!Inspect, Commands!SetStatus, Commands!Require,
                        Commands!Reconfigure, Commands!Expire, Commands!Edit, Commands!vars
<1>11. enrollment # Nothing => enrollment' # Nothing
  BY <1>6, NothingIsNoRecord
<1>12. Commands!GoalsStand'
  <2>1. (told # Nothing => told.documents \subseteq Commands!Configured)'
    BY <1>1, <1>9 DEF Commands!GoalsStand, Commands!Configured
  <2>2. (met => /\ told # Nothing /\ enrollment # Nothing
                /\ told.claims \subseteq enrollment.claims
                /\ told.documents \subseteq enrollment.acks \ enrollment.required)'
    BY <1>1, <1>6, <1>9, <1>11 DEF Commands!GoalsStand
  <2>3. (answer # Nothing /\ heard = Nothing /\ served.anew /\ answer.http = 422 =>
           Commands!Requirements(answer).documents \subseteq Commands!Configured)'
    BY <1>1, <1>2, <1>10 DEF Commands!GoalsStand, Commands!Configured, Commands!Requirements
  <2> QED
    BY <2>1, <2>2, <2>3 DEF Commands!GoalsStand
<1>13. Commands!MetStaysMet'
  BY <1>1, <1>2, <1>10 DEF Commands!MetStaysMet, Commands!Requirements
<1> QED
  BY <1>4, <1>8, <1>12, <1>13 DEF Commands!ExchangeInvariant

\* The first state keeps it.
LEMMA ExchangeBegins ==
    ASSUME Commands!Init
    PROVE  Commands!ExchangeInvariant
<1>1. /\ config \in Commands!Accepted /\ enrollment = Nothing /\ memo = [k \in ReusedKeys |-> Nothing]
      /\ command = Nothing /\ answer = Nothing /\ heard = Nothing
      /\ told = Nothing /\ met = FALSE
  BY DEF Commands!Init
<1>2. Commands!CallsValid /\ Commands!AnsweredAsServed /\ Commands!GoalsStand /\ Commands!MetStaysMet
  BY <1>1 DEF Commands!CallsValid, Commands!AnsweredAsServed, Commands!GoalsStand,
              Commands!MetStaysMet
<1>3. Commands!HeardAsAnswered
  BY <1>1, NothingIsNoWord DEF Commands!HeardAsAnswered
<1> QED
  BY <1>2, <1>3 DEF Commands!ExchangeInvariant

\* Every step keeps the invariant.
LEMMA ExchangeSteps ==
    ASSUME Commands!ExchangeInvariant, [Commands!Next]_Commands!vars
    PROVE  Commands!ExchangeInvariant'
BY ExchangeCreates, ExchangeUpdates, ExchangeDeclines, ExchangeAnswersStatus, ExchangeRefusesGrant,
   ExchangeIssues, ExchangeReplays, ExchangeSends, ExchangeProceeds, ExchangeDelivers, ExchangeChanges
DEF Commands!Next

\* The invariant of the exchanges of a Service that goes through any configurations it
\* accepts, with an Agent that offers anything.
THEOREM ExchangesCorrect == Commands!Spec => []Commands!ExchangeInvariant
<1>1. Commands!Init => Commands!ExchangeInvariant
  BY ExchangeBegins
<1>2. Commands!ExchangeInvariant /\ [Commands!Next]_Commands!vars => Commands!ExchangeInvariant'
  BY ExchangeSteps
<1> QED
  BY <1>1, <1>2, PTL DEF Commands!Spec

\* Whatever lists the Service is configured with and the policies record, the Agent reads
\* every problem, and takes every success for one, with the exceptions AnswersUnderstood names.
THEOREM AnswersAreUnderstood == Commands!Spec => []AnswersUnderstood
<1>1. Commands!ExchangeInvariant => AnswersUnderstood
  BY BareExplained DEF Commands!ExchangeInvariant
<1> QED
  BY <1>1, ExchangesCorrect, PTL

\* What the Agent was told is required, and has met, is not required again while it stands.
THEOREM MetRequirementsStayMet == Commands!Spec => []MetStaysMet
<1>1. Commands!ExchangeInvariant => MetStaysMet
  BY DEF Commands!ExchangeInvariant, MetStaysMet
<1> QED
  BY <1>1, ExchangesCorrect, PTL

----------------------------------------------------------------------------
(***************************************************************************)
(* How a command arrives: HttpCommands.                                    *)
(***************************************************************************)
\* A line that is the only one.
LEMMA OnlyOne ==
    ASSUME NEW lines \in Seq({"mine", "foreign", "unrelated", "aep"})
    PROVE  /\ Http!OnlyLine(lines) \in {"mine", "foreign", "unrelated", "aep", Nothing}
           /\ Http!OnlyLine(lines) # Nothing =>
                {lines[i] : i \in DOMAIN lines} = {Http!OnlyLine(lines)}
           /\ \A v : lines = <<v>> => Http!OnlyLine(lines) = v
<1>1. CASE Len(lines) = 1
  <2>1. Http!OnlyLine(lines) = lines[1] /\ DOMAIN lines = {1}
    BY <1>1 DEF Http!OnlyLine
  <2>2. lines[1] \in {"mine", "foreign", "unrelated", "aep"}
    BY <1>1
  <2> QED
    BY <2>1, <2>2
<1>2. CASE Len(lines) # 1
  BY <1>2 DEF Http!OnlyLine
<1> QED
  BY <1>1, <1>2

\* The assertion that is found, of the lines that arrive.
LEMMA AssertionFound ==
    ASSUME Http!RequestsMade, asked # Nothing
    PROVE  LET assertion == Http!ClientAssertion(asked.authorization) IN
           /\ assertion \in {"mine", "foreign", Nothing}
           /\ asked.op # "visit" /\ assertion # Nothing => assertion = "mine"
           /\ asked.op = "visit" /\ assertion # Nothing => assertion = "foreign"
           /\ asked.op # "visit" /\ ~asked.relayed => assertion # Nothing
<1> DEFINE line == Http!OnlyLine(asked.authorization)
<1>1. /\ asked.authorization \in Seq({"mine", "foreign", "unrelated", "aep"})
      /\ asked.op # "visit" => "mine" \in {asked.authorization[i] : i \in DOMAIN asked.authorization}
      /\ asked.op = "visit" => "mine" \notin {asked.authorization[i] : i \in DOMAIN asked.authorization}
      /\ asked.op # "visit" /\ ~asked.relayed => asked.authorization = <<"mine">>
  BY DEF Http!RequestsMade, Http!Lines
<1>2. /\ line # Nothing => {asked.authorization[i] : i \in DOMAIN asked.authorization} = {line}
      /\ asked.authorization = <<"mine">> => line = "mine"
  BY <1>1, OnlyOne
<1> HIDE DEF line
<1>3. Http!ClientAssertion(asked.authorization) = (IF line \in {"mine", "foreign"} THEN line ELSE Nothing)
  BY DEF Http!ClientAssertion, line
<1>4. asked.op # "visit" /\ line # Nothing => line = "mine"
  BY <1>1, <1>2
<1>5. asked.op = "visit" /\ line # Nothing => line # "mine"
  BY <1>1, <1>2
<1>6. asked.op # "visit" /\ ~asked.relayed => line = "mine"
  BY <1>1, <1>2
<1> QED
  BY <1>3, <1>4, <1>5, <1>6, NothingIsNoWord

\* The idempotency key that is found.
LEMMA KeyFound ==
    ASSUME Http!RequestsMade, asked # Nothing
    PROVE  LET key == Http!OnlyLine(asked.key) IN
           /\ key \in {"mine", "foreign", "unrelated", "aep", Nothing}
           /\ asked.op \in Http!Bodied /\ key # Nothing => key = "mine"
           /\ asked.op \in Http!Bodied /\ ~asked.relayed => key # Nothing
<1> DEFINE line == Http!OnlyLine(asked.key)
<1>1. /\ asked.key \in Seq({"mine", "foreign", "unrelated", "aep"})
      /\ asked.op \in Http!Bodied => "mine" \in {asked.key[i] : i \in DOMAIN asked.key}
      /\ asked.op \in Http!Bodied /\ ~asked.relayed => asked.key = <<"mine">>
  BY DEF Http!RequestsMade, Http!Lines, Http!Bodied
<1>2. /\ line \in {"mine", "foreign", "unrelated", "aep", Nothing}
      /\ line # Nothing => {asked.key[i] : i \in DOMAIN asked.key} = {line}
      /\ asked.key = <<"mine">> => line = "mine"
  BY <1>1, OnlyOne
<1> HIDE DEF line
<1>3. asked.op \in Http!Bodied /\ line # Nothing => line = "mine"
  BY <1>1, <1>2
<1>4. asked.op \in Http!Bodied /\ ~asked.relayed => line # Nothing
  BY <1>1, <1>2, NothingIsNoWord
<1> QED
  BY <1>2, <1>3, <1>4 DEF line

\* The endpoint that an Agent's command finds.
LEMMA EndpointFound ==
    ASSUME Http!RequestsMade, asked # Nothing, asked.op # "visit"
    PROVE  /\ \A e \in Http!Found : e.op = asked.op /\ e.verb = asked.verb
           /\ ~Http!Moved => Http!Found # {}
<1>1. /\ asked.op \in Http!Operations /\ asked.path = <<base.name, asked.op>>
      /\ asked.verb = IF asked.op \in Http!Bodied THEN "POST" ELSE "GET"
  BY DEF Http!RequestsMade, Http!CommandPath, Http!Normalized
<1>2. ASSUME NEW e \in Http!Found
      PROVE  e.op = asked.op /\ e.verb = asked.verb
  <2>1. e \in Http!Endpoints /\ e.path = <<base.name, asked.op>>
    BY <1>1, <1>2 DEF Http!Found
  <2>2. CASE e = [op |-> "inspect", verb |-> "GET", path |-> Http!WellKnown]
    BY <1>1, <2>1, <2>2 DEF Http!WellKnown, Http!Operations, Http!Bodied
  <2>3. CASE e = [op |-> "status", verb |-> "GET", path |-> Http!CommandPath(mount.base, "status")]
    BY <1>1, <2>1, <2>3 DEF Http!CommandPath, Http!Normalized, Http!Bodied
  <2>4. CASE \E op \in Http!Bodied :
               e = [op |-> op, verb |-> "POST", path |-> Http!CommandPath(mount.base, op)]
    BY <1>1, <2>1, <2>4 DEF Http!CommandPath, Http!Normalized
  <2> QED
    BY <2>1, <2>2, <2>3, <2>4 DEF Http!Endpoints
<1>3. ASSUME ~Http!Moved
      PROVE  Http!Found # {}
  <2>1. asked.path = Http!CommandPath(mount.base, asked.op)
    BY <1>1, <1>3 DEF Http!Moved, Http!CommandPath, Http!Normalized
  <2>2. CASE asked.op = "status"
    <3>1. [op |-> "status", verb |-> "GET", path |-> Http!CommandPath(mount.base, "status")] \in Http!Found
      BY <2>1, <2>2 DEF Http!Found, Http!Endpoints
    <3> QED
      BY <3>1
  <2>3. CASE asked.op \in Http!Bodied
    <3>1. [op |-> asked.op, verb |-> "POST", path |-> Http!CommandPath(mount.base, asked.op)] \in Http!Found
      BY <2>1, <2>3 DEF Http!Found, Http!Endpoints
    <3> QED
      BY <3>1
  <2> QED
    BY <1>1, <2>2, <2>3 DEF Http!Operations
<1> QED
  BY <1>2, <1>3

\* What is to be shown of an answer.
Delivered(said, done) ==
    /\ done # Nothing /\ asked.op # "visit" =>
        /\ done.op = asked.op /\ done.by = "mine"
        /\ done.key = IF asked.op \in Http!Bodied THEN "mine" ELSE Nothing
    /\ done # Nothing /\ asked.op = "visit" =>
        done.by = "foreign" /\ (asked.verb # "POST" => done.op = "status")
    /\ done = Nothing /\ asked.op # "visit" =>
        \/ asked.relayed \/ Http!Moved
        \/ asked.size > mount.limit
        \/ said.status = 500

\* What an Agent can read.
Readable(said) ==
    \/ said.status = 200 /\ said.type = "aep"
    \/ /\ said.status \in {400, 401, 403, 405, 409, 413, 422} /\ said.type = "problem"
       /\ said.says = said.status
    \/ said.status \in {404, 500}

\* Each of the responses of the adapter can be read.
LEMMA ReadableResponses ==
    /\ Readable(Http!Success) /\ Http!Success.status = 200
    /\ \A s \in {400, 401, 403, 405, 409, 413, 422} : Readable(Http!Problem(s)) /\ Http!Problem(s).status = s
    /\ \A s \in {404, 500} : Readable(Http!Empty(s)) /\ Http!Empty(s).status = s
    /\ \A e : Readable(Http!NotAllowed(e))
<1>1. ASSUME NEW e PROVE Readable(Http!NotAllowed(e))
  <2>1. /\ Http!NotAllowed(e).status = 405 /\ Http!NotAllowed(e).type = "problem"
        /\ Http!NotAllowed(e).says = 405
    BY DEF Http!NotAllowed, Http!Problem, Http!Response
  <2> QED
    BY <2>1 DEF Readable
<1> QED
  BY <1>1 DEF Readable, Http!Success, Http!Problem, Http!Empty, Http!Response

\* A response that can be read, to what it may be given to, keeps the invariant.
LEMMA Responds ==
    ASSUME Http!HttpInvariant, NEW said, NEW done, Http!Waiting, Http!Respond(said, done),
           Readable(said), Delivered(said, done)
    PROVE  Http!HttpInvariant'
<1>1. /\ mount \in Mounts /\ Http!RequestsMade /\ Http!AnswersRead /\ asked # Nothing /\ reply = Nothing
      /\ reply' = Http!ToVerb(said) /\ executed' = done
      /\ UNCHANGED <<mount, base, asked, reading>>
  BY DEF Http!HttpInvariant, Http!Waiting, Http!Respond
<1>2. reading' = Nothing
  BY <1>1 DEF Http!AnswersRead
<1>3. /\ reply'.status = said.status
      /\ reply'.type = said.type
      /\ reply'.says = said.says \/ asked.verb = "HEAD"
  BY <1>1 DEF Http!ToVerb, Http!WithoutContent
<1>4. Http!RequestsMade'
  BY <1>1 DEF Http!RequestsMade, Http!CommandPath, Http!Normalized, Http!Lines
<1>5. Http!AnswersRead'
  BY <1>1, <1>2, <1>3 DEF Http!AnswersRead, Readable
<1>6. Http!CommandsDelivered'
  BY <1>1, <1>2, <1>3, NothingIsNoWord
  DEF Http!CommandsDelivered, Http!AsSent, Http!Moved, Http!Normalized, Delivered
<1> QED
  BY <1>1, <1>4, <1>5, <1>6 DEF Http!HttpInvariant

\* A visitor's or an Agent's command that gets as far as its execution.
LEMMA Performs ==
    ASSUME Http!HttpInvariant, Http!Waiting, NEW op, NEW e \in Http!Found, e.op = op, Http!Allows(e),
           NEW key,
           \/ op = "status" /\ key = Nothing
           \/ op \in Http!Bodied /\ key = Http!OnlyLine(asked.key),
           Http!Perform(op, Http!ClientAssertion(asked.authorization), key)
    PROVE  Http!HttpInvariant'
<1> DEFINE assertion == Http!ClientAssertion(asked.authorization)
           done == [op |-> op, by |-> assertion, key |-> key]
<1>1. /\ Http!RequestsMade /\ asked # Nothing
      /\ op \in Http!Operations /\ (op = "status" => op \notin Http!Bodied)
  BY DEF Http!HttpInvariant, Http!Waiting, Http!Operations, Http!Bodied
<1>2. /\ assertion \in {"mine", "foreign", Nothing}
      /\ asked.op # "visit" /\ assertion # Nothing => assertion = "mine"
      /\ asked.op = "visit" /\ assertion # Nothing => assertion = "foreign"
      /\ asked.op # "visit" /\ ~asked.relayed => assertion # Nothing
  BY <1>1, AssertionFound
<1>3. asked.op # "visit" => asked.op = op
  BY <1>1, EndpointFound
<1>4. /\ key \in {"mine", "foreign", "unrelated", "aep", Nothing}
      /\ asked.op # "visit" /\ op \in Http!Bodied /\ key # Nothing => key = "mine"
      /\ asked.op # "visit" /\ op \in Http!Bodied /\ ~asked.relayed => key # Nothing
  BY <1>1, <1>3, KeyFound
<1>5. asked.op = "visit" /\ asked.verb # "POST" => op = "status"
  <2>1. SUFFICES ASSUME asked.verb # "POST", op \in Http!Bodied
                 PROVE  FALSE
    BY <1>1 DEF Http!Operations
  <2>2. e.verb = "POST"
    BY <2>1 DEF Http!Found, Http!Endpoints, Http!Bodied
  <2> QED
    BY <2>1, <2>2 DEF Http!Allows
<1> HIDE DEF assertion
<1>6. CASE assertion = Nothing
  <2>1. Http!Respond(Http!Problem(401), Nothing)
    BY <1>6, Zenon DEF Http!Perform, assertion
  <2>2. Delivered(Http!Problem(401), Nothing)
    BY <1>2, <1>6 DEF Delivered
  <2> QED
    BY <2>1, <2>2, Responds, ReadableResponses
<1>7. CASE assertion # Nothing /\ op \in Http!Bodied /\ key = Nothing
  <2>1. Http!Respond(Http!Problem(400), Nothing)
    BY <1>7, Zenon DEF Http!Perform, assertion
  <2>2. Delivered(Http!Problem(400), Nothing)
    BY <1>4, <1>7 DEF Delivered
  <2> QED
    BY <2>1, <2>2, Responds, ReadableResponses
<1>8. CASE assertion # Nothing /\ ~(op \in Http!Bodied /\ key = Nothing)
  <2>1. \/ Http!Respond(Http!Success, done)
        \/ \E status \in {401, 403, 409, 422} : Http!Respond(Http!Problem(status), done)
        \/ \E d \in {Nothing, done} : Http!Respond(Http!Empty(500), d)
    BY <1>8, Zenon DEF Http!Perform, assertion
  <2>2. done # Nothing
    <3>1. done \in [op : Http!Operations, by : {"mine", "foreign"},
                    key : {"mine", "foreign", "unrelated", "aep", Nothing}]
      BY <1>1, <1>2, <1>4, <1>8
    <3> QED
      BY <3>1, NothingIsNotDone
  <2>3. \A said : Delivered(said, done)
    <3>1. done.op = op /\ done.by = assertion /\ done.key = key
      OBVIOUS
    <3> HIDE DEF done
    <3> QED
      BY <1>1, <1>2, <1>3, <1>4, <1>5, <1>8, <2>2, <3>1 DEF Delivered
  <2>4. Delivered(Http!Empty(500), Nothing)
    BY ReadableResponses DEF Delivered
  <2> HIDE DEF done
  <2>5. CASE Http!Respond(Http!Success, done)
    BY <2>3, <2>5, Responds, ReadableResponses
  <2>6. ASSUME NEW status \in {401, 403, 409, 422}, Http!Respond(Http!Problem(status), done)
        PROVE  Http!HttpInvariant'
    BY <2>3, <2>6, Responds, ReadableResponses
  <2>7. ASSUME NEW d \in {Nothing, done}, Http!Respond(Http!Empty(500), d)
        PROVE  Http!HttpInvariant'
    BY <2>3, <2>4, <2>7, Responds, ReadableResponses
  <2> QED
    BY <2>1, <2>5, <2>6, <2>7
<1> QED
  BY <1>6, <1>7, <1>8

\* The answers of the adapter.
LEMMA UnroutedAnswered ==
    ASSUME Http!HttpInvariant, Http!Unrouted
    PROVE  Http!HttpInvariant'
<1>1. Http!Waiting /\ Http!RequestsMade /\ asked # Nothing
  BY DEF Http!Unrouted, Http!HttpInvariant, Http!Waiting
<1>2. CASE Http!Found = {} /\ Http!Respond(Http!Empty(404), Nothing)
  <2>1. Delivered(Http!Empty(404), Nothing)
    BY <1>1, <1>2, EndpointFound DEF Delivered
  <2> QED
    BY <1>1, <1>2, <2>1, Responds, ReadableResponses
<1>3. ASSUME NEW e \in Http!Found, ~Http!Allows(e), Http!Respond(Http!NotAllowed(e), Nothing)
      PROVE  Http!HttpInvariant'
  <2>1. asked.op = "visit"
    BY <1>1, <1>3, EndpointFound DEF Http!Allows
  <2>2. Delivered(Http!NotAllowed(e), Nothing)
    BY <2>1 DEF Delivered
  <2> QED
    BY <1>1, <1>3, <2>2, Responds, ReadableResponses
<1> QED
  BY <1>2, <1>3 DEF Http!Unrouted

\* An inspection, which only a visitor asks for there.
LEMMA InspectAnswered ==
    ASSUME Http!HttpInvariant, Http!Inspect
    PROVE  Http!HttpInvariant'
<1>1. Http!Waiting /\ Http!RequestsMade /\ asked # Nothing
  BY DEF Http!Inspect, Http!Routed, Http!HttpInvariant, Http!Waiting
<1>2. asked.op = "visit"
  BY <1>1, EndpointFound DEF Http!Inspect, Http!Routed, Http!RequestsMade, Http!Operations,
                             Http!Bodied
<1>3. Delivered(Http!Success, Nothing)
  BY <1>2 DEF Delivered
<1> QED
  BY <1>1, <1>3, Responds, ReadableResponses DEF Http!Inspect

\* A status.
LEMMA StatusAnswered ==
    ASSUME Http!HttpInvariant, Http!Status
    PROVE  Http!HttpInvariant'
<1>1. PICK e \in Http!Found : e.op = "status" /\ Http!Allows(e)
  BY DEF Http!Status, Http!Routed
<1>2. Http!Waiting /\ Http!Perform("status", Http!ClientAssertion(asked.authorization), Nothing)
  BY DEF Http!Status, Http!Routed
<1> QED
  BY <1>1, <1>2, Performs

\* The commands that have a body.
LEMMA CommandAnswered ==
    ASSUME Http!HttpInvariant, NEW op \in Http!Bodied, Http!Command(op)
    PROVE  Http!HttpInvariant'
<1>1. Http!Waiting /\ Http!RequestsMade /\ asked # Nothing /\ mount \in Mounts
  BY DEF Http!Command, Http!Routed, Http!HttpInvariant, Http!Waiting
<1>2. PICK e \in Http!Found : e.op = op /\ Http!Allows(e)
  BY DEF Http!Command, Http!Routed
<1>3. asked.op # "visit" => asked.op = op
  BY <1>1, <1>2, EndpointFound
<1>4. CASE ~Http!IsAepContentType(asked.type) /\ Http!Respond(Http!Problem(400), Nothing)
  <2>1. asked.op # "visit" => asked.relayed
    <3>1. SUFFICES ASSUME asked.op # "visit", ~asked.relayed PROVE FALSE
      OBVIOUS
    <3>2. asked.type = <<"aep">> /\ asked.type \in Seq({"mine", "foreign", "unrelated", "aep"})
      BY <1>1, <1>3, <3>1 DEF Http!RequestsMade
    <3> QED
      BY <1>4, <3>2, OnlyOne DEF Http!IsAepContentType
  <2>2. Delivered(Http!Problem(400), Nothing)
    BY <2>1 DEF Delivered
  <2> QED
    BY <1>1, <1>4, <2>2, Responds, ReadableResponses
<1>5. CASE Http!Respond(Http!Empty(500), Nothing)
  <2>1. Delivered(Http!Empty(500), Nothing)
    BY ReadableResponses DEF Delivered
  <2> QED
    BY <1>1, <1>5, <2>1, Responds, ReadableResponses
<1>6. CASE asked.size > mount.limit /\ Http!Respond(Http!Problem(413), Nothing)
  <2>1. Delivered(Http!Problem(413), Nothing)
    BY <1>6 DEF Delivered
  <2> QED
    BY <1>1, <1>6, <2>1, Responds, ReadableResponses
<1>7. CASE Http!Perform(op, Http!ClientAssertion(asked.authorization), Http!OnlyLine(asked.key))
  BY <1>1, <1>2, <1>7, Performs
<1> QED
  BY <1>4, <1>5, <1>6, <1>7 DEF Http!Command

\* The lines of a request that is made.
LEMMA LinesMade ==
    LET W == {"mine", "foreign", "unrelated", "aep"} IN
    <<>> \in Seq(W) /\ \A v \in W : <<v>> \in Seq(W)
OBVIOUS

\* A request that is made and one that is added to.
LEMMA RequestMade ==
    ASSUME Http!HttpInvariant, NEW r, Http!Ask(r),
           DOMAIN r = {"verb", "path", "op", "size", "relayed", "authorization", "key", "type"},
           {r.authorization, r.key, r.type} \subseteq Seq({"mine", "foreign", "unrelated", "aep"}),
           \/ /\ r.op \in Http!Operations
              /\ r.path = Http!CommandPath(base, r.op)
              /\ r.verb = IF r.op \in Http!Bodied THEN "POST" ELSE "GET"
              /\ r.size \in Sizes \cup {0}
              /\ r.authorization = <<"mine">>
              /\ r.op \in Http!Bodied => r.key = <<"mine">> /\ r.type = <<"aep">>
           \/ r.op = "visit" /\ r.authorization \in {<<>>, <<"foreign">>}
    PROVE  Http!HttpInvariant'
<1>1. /\ mount \in Mounts /\ Http!AnswersRead
      /\ asked = Nothing /\ asked' = r
      /\ UNCHANGED <<mount, base, reply, executed, reading>>
  BY DEF Http!HttpInvariant, Http!Ask
<1>2. reply = Nothing /\ reading = Nothing
  BY <1>1 DEF Http!AnswersRead
<1>3. "visit" \notin Http!Operations
  BY DEF Http!Operations, Http!Bodied
<1>4. Http!Lines("authorization")' = {r.authorization[i] : i \in DOMAIN r.authorization}
      /\ Http!Lines("key")' = {r.key[i] : i \in DOMAIN r.key}
  BY <1>1 DEF Http!Lines
<1>5. Http!RequestsMade'
  <2>1. CASE r.op = "visit"
    <3>1. "mine" \notin Http!Lines("authorization")'
      BY <1>3, <1>4, <2>1
    <3> QED
      BY <1>1, <2>1, <3>1 DEF Http!RequestsMade
  <2>2. CASE r.op # "visit"
    <3>1. /\ "mine" \in Http!Lines("authorization")'
          /\ r.op \in Http!Bodied => "mine" \in Http!Lines("key")'
      BY <1>4, <2>2
    <3>2. Http!CommandPath(base, r.op) = Http!CommandPath(base, asked.op)'
      BY <1>1 DEF Http!CommandPath, Http!Normalized
    <3> QED
      BY <1>1, <2>2, <3>1, <3>2 DEF Http!RequestsMade
  <2> QED
    BY <2>1, <2>2
<1>6. Http!AnswersRead' /\ Http!CommandsDelivered'
  BY <1>1, <1>2 DEF Http!AnswersRead, Http!CommandsDelivered
<1> QED
  BY <1>1, <1>5, <1>6 DEF Http!HttpInvariant

\* A command of the Agent.
LEMMA ExecuteAsks ==
    ASSUME Http!HttpInvariant, NEW op \in Http!Operations, Http!Execute(op)
    PROVE  Http!HttpInvariant'
<1>1. PICK size \in IF op \in Http!Bodied THEN Sizes ELSE {0} :
        Http!Ask([Http!Request(IF op \in Http!Bodied THEN "POST" ELSE "GET",
                                Http!CommandPath(base, op), op, size)
                EXCEPT !.authorization = <<"mine">>,
                       !.key = IF op \in Http!Bodied THEN <<"mine">> ELSE <<>>,
                       !.type = IF op \in Http!Bodied THEN <<"aep">> ELSE <<>>])
  BY DEF Http!Execute
<1> DEFINE r == [Http!Request(IF op \in Http!Bodied THEN "POST" ELSE "GET",
                                Http!CommandPath(base, op), op, size)
                EXCEPT !.authorization = <<"mine">>,
                       !.key = IF op \in Http!Bodied THEN <<"mine">> ELSE <<>>,
                       !.type = IF op \in Http!Bodied THEN <<"aep">> ELSE <<>>]
<1>2. DOMAIN r = {"verb", "path", "op", "size", "relayed", "authorization", "key", "type"}
  BY DEF Http!Request
<1>3. /\ r.op = op /\ r.path = Http!CommandPath(base, op)
      /\ r.verb = (IF op \in Http!Bodied THEN "POST" ELSE "GET")
      /\ r.size = size /\ r.authorization = <<"mine">>
      /\ r.key = (IF op \in Http!Bodied THEN <<"mine">> ELSE <<>>)
      /\ r.type = (IF op \in Http!Bodied THEN <<"aep">> ELSE <<>>)
  BY DEF Http!Request
<1>4. size \in Sizes \cup {0}
  OBVIOUS
<1> HIDE DEF r
<1>5. {r.authorization, r.key, r.type} \subseteq Seq({"mine", "foreign", "unrelated", "aep"})
  BY <1>3, LinesMade
<1> QED
  BY <1>1, <1>2, <1>3, <1>4, <1>5, RequestMade DEF r

\* A request of a visitor.
LEMMA VisitAsks ==
    ASSUME Http!HttpInvariant, Http!Visit
    PROVE  Http!HttpInvariant'
<1>1. PICK verb \in {"GET", "HEAD", "POST", "PUT"}, path \in Paths, a \in {<<>>, <<"foreign">>} :
        Http!Ask([Http!Request(verb, path, "visit", 1)
                EXCEPT !.authorization = a, !.key = <<"foreign">>, !.type = <<"aep">>])
  BY DEF Http!Visit
<1> DEFINE r == [Http!Request(verb, path, "visit", 1)
                EXCEPT !.authorization = a, !.key = <<"foreign">>, !.type = <<"aep">>]
<1>2. DOMAIN r = {"verb", "path", "op", "size", "relayed", "authorization", "key", "type"}
  BY DEF Http!Request
<1>3. r.op = "visit" /\ r.authorization = a /\ r.key = <<"foreign">> /\ r.type = <<"aep">>
  BY DEF Http!Request
<1> HIDE DEF r
<1>5. {r.authorization, r.key, r.type} \subseteq Seq({"mine", "foreign", "unrelated", "aep"})
  BY <1>3, LinesMade
<1> QED
  BY <1>1, <1>2, <1>3, <1>5, RequestMade DEF r

\* A line that is added leaves those that are there, and is none of the Agent's.
LEMMA RequestRelayed ==
    ASSUME Http!HttpInvariant, NEW field \in {"authorization", "key", "type"}, Http!Relay(field)
    PROVE  Http!HttpInvariant'
<1>1. /\ mount \in Mounts /\ Http!RequestsMade /\ Http!AnswersRead
      /\ asked # Nothing /\ reply = Nothing
      /\ UNCHANGED <<mount, base, reply, executed, reading>>
  BY DEF Http!HttpInvariant, Http!Relay
<1>2. PICK value \in {"foreign", "unrelated"} :
        asked' \in {[asked EXCEPT ![field] = <<value>> \o @, !.relayed = TRUE],
                    [asked EXCEPT ![field] = Append(@, value), !.relayed = TRUE]}
  BY DEF Http!Relay
<1> DEFINE W == {"mine", "foreign", "unrelated", "aep"}
           L(lines) == {lines[i] : i \in DOMAIN lines}
<1>3. /\ DOMAIN asked = {"verb", "path", "op", "size", "relayed", "authorization", "key", "type"}
      /\ \A f \in {"authorization", "key", "type"} : asked[f] \in Seq(W)
  BY <1>1 DEF Http!RequestsMade
<1>4. /\ DOMAIN asked' = DOMAIN asked /\ asked'.relayed
      /\ asked'[field] \in {<<value>> \o asked[field], Append(asked[field], value)}
      /\ \A f \in {"authorization", "key", "type"} : f # field => asked'[f] = asked[f]
      /\ asked'.op = asked.op /\ asked'.path = asked.path /\ asked'.verb = asked.verb
      /\ asked'.size = asked.size
  BY <1>2, <1>3
<1>5. /\ asked'[field] \in Seq(W)
      /\ L(asked'[field]) = L(asked[field]) \cup {value}
  <2> DEFINE lines == asked[field]
             more == asked'[field]
  <2>1. lines \in Seq(W) /\ value \in W /\ more \in {<<value>> \o lines, Append(lines, value)}
    BY <1>3, <1>4
  <2> HIDE DEF lines, more, W
  <2>2. CASE more = Append(lines, value)
    <3>1. /\ more \in Seq(W) /\ Len(more) = Len(lines) + 1 /\ Len(lines) \in Nat
          /\ DOMAIN more = 1..Len(more) /\ DOMAIN lines = 1..Len(lines)
          /\ \A i \in DOMAIN lines : more[i] = lines[i]
          /\ more[Len(lines) + 1] = value
      BY <2>1, <2>2
    <3>2. DOMAIN more = DOMAIN lines \cup {Len(lines) + 1}
      BY <3>1
    <3>3. L(more) = L(lines) \cup {value}
      BY <3>1, <3>2
    <3> QED
      BY <3>1, <3>3 DEF lines, more
  <2>3. CASE more = <<value>> \o lines
    <3>1. /\ more \in Seq(W) /\ Len(more) = Len(lines) + 1 /\ Len(lines) \in Nat
          /\ DOMAIN more = 1..Len(more) /\ DOMAIN lines = 1..Len(lines)
          /\ more[1] = value
      BY <2>1, <2>3
    <3>2. \A i \in DOMAIN lines : i + 1 \in DOMAIN more /\ more[i + 1] = lines[i]
      BY <2>1, <2>3, <3>1
    <3>3. \A i \in DOMAIN more : i = 1 \/ (i - 1 \in DOMAIN lines /\ more[i] = lines[i - 1])
      BY <2>1, <2>3, <3>1
    <3>4. L(more) \subseteq L(lines) \cup {value}
      BY <3>1, <3>3
    <3>5. L(lines) \subseteq L(more) /\ value \in L(more)
      BY <3>1, <3>2
    <3> QED
      BY <3>1, <3>4, <3>5 DEF lines, more
  <2> QED
    BY <2>1, <2>2, <2>3
<1> HIDE DEF L
<1>6. ASSUME NEW f \in {"authorization", "key", "type"}
      PROVE  /\ asked'[f] \in Seq(W)
             /\ L(asked'[f]) \in {L(asked[f]), L(asked[f]) \cup {value}}
  <2>1. CASE f = field
    BY <1>5, <2>1
  <2>2. CASE f # field
    <3>1. asked'[f] = asked[f]
      BY <1>4, <2>2
    <3> QED
      BY <1>3, <3>1
  <2> QED
    BY <2>1, <2>2
<1>7. /\ L(asked'.authorization) \in {L(asked.authorization), L(asked.authorization) \cup {value}}
      /\ L(asked'.key) \in {L(asked.key), L(asked.key) \cup {value}}
  BY <1>6
<1>8. /\ Http!Lines("authorization") = L(asked.authorization)
      /\ Http!Lines("authorization")' = L(asked'.authorization)
      /\ Http!Lines("key") = L(asked.key) /\ Http!Lines("key")' = L(asked'.key)
  BY DEF Http!Lines, L
<1>9. /\ "mine" \in Http!Lines("authorization") <=> "mine" \in Http!Lines("authorization")'
      /\ "mine" \in Http!Lines("key") <=> "mine" \in Http!Lines("key")'
  BY <1>7, <1>8
<1>10. Http!CommandPath(base, asked.op)' = Http!CommandPath(base, asked.op)
  BY <1>1, <1>4 DEF Http!CommandPath, Http!Normalized
<1>11. Http!RequestsMade'
  BY <1>1, <1>3, <1>4, <1>6, <1>9, <1>10 DEF Http!RequestsMade
<1>12. Http!AnswersRead' /\ Http!CommandsDelivered'
  BY <1>1 DEF Http!AnswersRead, Http!CommandsDelivered
<1> QED
  BY <1>1, <1>11, <1>12 DEF Http!HttpInvariant

\* What the Agent makes of an answer.
LEMMA AnswerRead ==
    ASSUME Http!HttpInvariant, Http!Read
    PROVE  Http!HttpInvariant'
<1>1. /\ mount \in Mounts /\ reply # Nothing
      /\ Http!RequestsMade /\ Http!AnswersRead /\ Http!CommandsDelivered
      /\ UNCHANGED <<mount, base, asked, reply, executed>>
      /\ reading' = IF reply.status \notin 200..299
                    THEN IF reply.type = "problem" /\ reply.says = reply.status THEN "problem" ELSE "status"
                    ELSE IF reply.type = "aep" THEN "success" ELSE "unread"
  BY DEF Http!HttpInvariant, Http!Read
<1>2. Http!RequestsMade'
  BY <1>1 DEF Http!RequestsMade, Http!CommandPath, Http!Normalized, Http!Lines
<1>3. Http!AnswersRead'
  BY <1>1 DEF Http!AnswersRead
<1>4. /\ reading' = "status" => asked.verb = "HEAD" \/ reply.status \in {404, 500}
      /\ reading' # "unread"
  <2>1. CASE reply.status = 200 /\ reply.type = "aep"
    BY <1>1, <2>1
  <2>2. CASE /\ reply.status \in {400, 401, 403, 405, 409, 413, 422} /\ reply.type = "problem"
             /\ reply.says = reply.status \/ asked.verb = "HEAD"
    BY <1>1, <2>2
  <2>3. CASE reply.status \in {404, 500}
    BY <1>1, <2>3
  <2> QED
    BY <1>1, <2>1, <2>2, <2>3 DEF Http!AnswersRead
<1>5. Http!CommandsDelivered'
  BY <1>1, <1>4 DEF Http!CommandsDelivered, Http!AsSent, Http!Moved, Http!Normalized
<1> QED
  BY <1>1, <1>2, <1>3, <1>5 DEF Http!HttpInvariant

\* The steps between two requests, of those who mount, and those that change nothing here.
LEMMA HttpRests ==
    ASSUME Http!HttpInvariant, Http!Done \/ Http!Remount \/ Http!Reinspect \/ UNCHANGED Http!vars
    PROVE  Http!HttpInvariant'
<1>1. mount \in Mounts /\ Http!RequestsMade /\ Http!AnswersRead /\ Http!CommandsDelivered
  BY DEF Http!HttpInvariant
<1>2. CASE Http!Done
  BY <1>1, <1>2 DEF Http!Done, Http!HttpInvariant, Http!RequestsMade, Http!AnswersRead,
                    Http!CommandsDelivered
<1>3. CASE Http!Remount
  <2>1. /\ mount' \in Mounts /\ reply = Nothing
        /\ UNCHANGED <<base, asked, reply, executed, reading>>
    BY <1>3 DEF Http!Remount
  <2>2. Http!RequestsMade'
    BY <1>1, <2>1 DEF Http!RequestsMade, Http!CommandPath, Http!Normalized, Http!Lines
  <2>3. Http!AnswersRead' /\ Http!CommandsDelivered'
    BY <1>1, <2>1 DEF Http!AnswersRead, Http!CommandsDelivered
  <2> QED
    BY <2>1, <2>2, <2>3 DEF Http!HttpInvariant
<1>4. CASE Http!Reinspect
  <2>1. asked' = Nothing /\ UNCHANGED <<mount, asked, reply, executed, reading>>
    BY <1>4 DEF Http!Reinspect
  <2>2. reply = Nothing
    BY <1>1, <2>1 DEF Http!AnswersRead
  <2> QED
    BY <1>1, <2>1, <2>2 DEF Http!HttpInvariant, Http!RequestsMade, Http!AnswersRead,
                            Http!CommandsDelivered
<1>5. CASE UNCHANGED Http!vars
  <2>1. UNCHANGED <<mount, base, asked, reply, executed, reading>>
    BY <1>5 DEF Http!vars
  <2>2. Http!RequestsMade' /\ Http!AnswersRead' /\ Http!CommandsDelivered'
    BY <1>1, <2>1
    DEF Http!RequestsMade, Http!CommandPath, Http!Normalized, Http!Lines, Http!AnswersRead,
        Http!CommandsDelivered, Http!AsSent, Http!Moved
  <2> QED
    BY <1>1, <2>1, <2>2 DEF Http!HttpInvariant
<1> QED
  BY <1>2, <1>3, <1>4, <1>5

\* Every step keeps the invariant.
LEMMA HttpSteps ==
    ASSUME Http!HttpInvariant, [Http!Next]_Http!vars
    PROVE  Http!HttpInvariant'
BY ExecuteAsks, VisitAsks, RequestRelayed, UnroutedAnswered, InspectAnswered, StatusAnswered,
   CommandAnswered, AnswerRead, HttpRests
DEF Http!Next

\* Whatever a Service is mounted with, visitors ask and intermediaries add, it executes an
\* Agent's command as it was sent, and every answer can be read as CommandsDelivered says.
THEOREM CommandsAreDelivered == Http!Spec => []CommandsDelivered
<1>1. Http!Init => Http!HttpInvariant
  BY DEF Http!Init, Http!HttpInvariant, Http!RequestsMade, Http!AnswersRead,
         Http!CommandsDelivered
<1>2. Http!HttpInvariant /\ [Http!Next]_Http!vars => Http!HttpInvariant'
  BY HttpSteps
<1>3. Http!HttpInvariant => CommandsDelivered
  BY DEF Http!HttpInvariant, CommandsDelivered
<1> QED
  BY <1>1, <1>2, <1>3, PTL DEF Http!Spec

----------------------------------------------------------------------------
(***************************************************************************)
(* What a Service makes of a request for a resource: ProtectedResources.   *)
(* A request has the Agent's line and at most one that was added.  In the  *)
(* Agent's field that makes it an authorization that is refused (Beset),   *)
(* beside it (Beside) the layer takes the one of the Agent's or none, so   *)
(* only an API key can come in its place.  If nothing competes with it     *)
(* (Unaffected), there is one credential that it matches.                  *)
(***************************************************************************)

\* The cardinality of the library is that of the modules it is used in.
LEMMA ResourceCardinality == \A S : Resources!Cardinality(S) = Cardinality(S)
BY DEF Resources!Cardinality, Cardinality

\* So is finiteness.
LEMMA ResourceFinite == \A S : Resources!IsFiniteSet(S) <=> IsFiniteSet(S)
BY DEF Resources!IsFiniteSet, IsFiniteSet

\* The fields of the carriers.
LEMMA CarrierFields ==
    /\ {Resources!FieldOf(c) : c \in Resources!Carriers} = {"authorization", "aep-authorization"}
    /\ "authorization" \in Fields /\ "aep-authorization" \in Fields
BY FieldsOfCarriers DEF Resources!FieldOf, Resources!Carriers

\* A field with one line
Single(lines, text) == Len(lines) = 1 /\ DOMAIN lines = {1} /\ lines[1] = text

\* A tuple of one is such a field.
LEMMA SingleLine == \A x : Single(<<x>>, x)
BY DEF Single

\* The only line of a request.
LEMMA OwnLine ==
    ASSUME NEW f \in Fields, NEW text
    PROVE  /\ DOMAIN Resources!OneHeader(f, text) = Fields
           /\ Resources!OneHeader(f, text)[f] = <<text>>
           /\ Single(Resources!OneHeader(f, text)[f], text)
           /\ \A g \in Fields \ {f} : Resources!OneHeader(f, text)[g] = <<>>
BY SingleLine DEF Resources!OneHeader, Resources!NoHeaders

\* The lines of a request that something has been added to, both of them, and as a relay
\* may combine them
BothLines(f, text, e) == Resources!Appended(Resources!OneHeader(f, text), e.field, e.text)
OneLine(f, text, e) == Resources!Combined(BothLines(f, text, e))

\* Beside each other they stay as they are, and in one field they are not an authorization.
LEMMA LineAdded ==
    ASSUME NEW f \in Fields, NEW text, NEW e, e.field \in Fields
    PROVE  /\ \A g \in Fields \ {f, e.field} :
                BothLines(f, text, e)[g] = <<>> /\ OneLine(f, text, e)[g] = <<>>
           /\ e.field # f =>
                /\ Single(BothLines(f, text, e)[f], text)
                /\ Single(BothLines(f, text, e)[e.field], e.text)
                /\ OneLine(f, text, e)[f] = BothLines(f, text, e)[f]
                /\ OneLine(f, text, e)[e.field] = BothLines(f, text, e)[e.field]
           /\ e.field = f =>
                /\ Len(BothLines(f, text, e)[f]) = 2
                /\ Single(OneLine(f, text, e)[f], Resources!Text(text.scheme, "spaced", Nothing))
<1> DEFINE own == Resources!OneHeader(f, text)
           both == BothLines(f, text, e)
           one == OneLine(f, text, e)
<1>1. /\ DOMAIN own = Fields /\ own[f] = <<text>>
      /\ \A g \in Fields \ {f} : own[g] = <<>>
  BY OwnLine
<1> HIDE DEF own
<1>2. /\ DOMAIN both = Fields
      /\ both[e.field] = Append(own[e.field], e.text)
      /\ \A g \in Fields \ {e.field} : both[g] = own[g]
  BY <1>1 DEF Resources!Appended, BothLines, own
<1>3. \A g \in Fields :
        /\ Len(both[g]) \in {0, 1} => one[g] = both[g]
        /\ Len(both[g]) = 2 => one[g] = <<Resources!Text(both[g][1].scheme, "spaced", Nothing)>>
  BY <1>1, <1>2 DEF Resources!Combined, OneLine
<1> HIDE DEF both, one
<1>4. /\ Append(<<>>, e.text) = <<e.text>>
      /\ Len(<<>>) = 0 /\ Len(<<text>>) = 1 /\ Len(<<e.text>>) = 1
  OBVIOUS
<1>5. Len(Append(<<text>>, e.text)) = 2 /\ Append(<<text>>, e.text)[1] = text
  <2>1. <<text>> \in Seq({text, e.text}) /\ <<text>>[1] = text
    OBVIOUS
  <2> QED
    BY <2>1
<1>6. ASSUME NEW g \in Fields \ {f, e.field} PROVE both[g] = <<>> /\ one[g] = <<>>
  <2>1. both[g] = own[g]
    BY <1>2
  <2>2. own[g] = <<>>
    BY <1>1
  <2>3. Len(both[g]) = 0
    BY <2>1, <2>2, <1>4
  <2>4. one[g] = both[g]
    BY <2>3, <1>3
  <2> QED
    BY <2>1, <2>2, <2>4
<1>7. ASSUME e.field # f
      PROVE  /\ Single(both[f], text) /\ Single(both[e.field], e.text)
             /\ one[f] = both[f] /\ one[e.field] = both[e.field]
  <2>1. both[f] = <<text>> /\ both[e.field] = <<e.text>>
    BY <1>1, <1>2, <1>4, <1>7
  <2>2. Single(both[f], text) /\ Single(both[e.field], e.text)
    BY <2>1, SingleLine
  <2> QED
    BY <1>3, <2>2 DEF Single
<1>8. ASSUME e.field = f
      PROVE  /\ Len(both[f]) = 2
             /\ Single(one[f], Resources!Text(text.scheme, "spaced", Nothing))
  <2>1. Len(both[f]) = 2 /\ both[f][1] = text
    BY <1>1, <1>2, <1>5, <1>8
  <2>2. one[f] = <<Resources!Text(text.scheme, "spaced", Nothing)>>
    BY <1>3, <2>1
  <2> QED
    BY <2>1, <2>2, SingleLine
<1> QED
  BY <1>6, <1>7, <1>8 DEF both, one

\* The Agent's line in its field, with what is beside it in another
Beside(h, f, text, e) ==
    /\ Single(h[f], text)
    /\ \A g \in Fields \ {f} : h[g] = <<>> \/ (e # Nothing /\ g = e.field /\ Single(h[g], e.text))

\* or with another line in the same, which a relay may have combined with it
Beset(h, f, text, e) ==
    /\ e # Nothing /\ e.field = f
    /\ Len(h[f]) = 2 \/ Single(h[f], Resources!Text(text.scheme, "spaced", Nothing))
    /\ \A g \in Fields \ {f} : h[g] = <<>>

\* What is added to a request is beside the Agent's line or in its field.
LEMMA LinesOf ==
    ASSUME NEW e \in Extras \cup {Nothing}, NEW f \in Fields, NEW text,
           NEW h, \/ e = Nothing /\ h = Resources!OneHeader(f, text)
                  \/ e # Nothing /\ h \in {BothLines(f, text, e), OneLine(f, text, e)}
    PROVE  /\ Beside(h, f, text, e) \/ Beset(h, f, text, e)
           /\ e # Nothing => e.field \in Fields
<1>1. e = Nothing \/ e.field \in Fields
  BY ExtrasHaveType
<1>2. CASE e = Nothing
  <2>1. h = Resources!OneHeader(f, text)
    BY <1>2
  <2> QED
    BY <1>2, <2>1, OwnLine DEF Beside
<1>3. CASE e # Nothing /\ e.field # f
  <2>1. \A g \in Fields \ {f, e.field} :
            BothLines(f, text, e)[g] = <<>> /\ OneLine(f, text, e)[g] = <<>>
    BY <1>1, <1>3, LineAdded
  <2>2. /\ Single(BothLines(f, text, e)[f], text)
        /\ Single(BothLines(f, text, e)[e.field], e.text)
        /\ OneLine(f, text, e)[f] = BothLines(f, text, e)[f]
        /\ OneLine(f, text, e)[e.field] = BothLines(f, text, e)[e.field]
    BY <1>1, <1>3, LineAdded
  <2>4. \A g \in Fields \ {f} : g = e.field \/ g \in Fields \ {f, e.field}
    OBVIOUS
  <2>5. h[f] = BothLines(f, text, e)[f] /\ h[e.field] = BothLines(f, text, e)[e.field]
    BY <1>3, <2>2
  <2>6. \A g \in Fields \ {f, e.field} : h[g] = <<>>
    BY <1>3, <2>1
  <2>7. Single(h[f], text) /\ Single(h[e.field], e.text)
    BY <2>2, <2>5
  <2> QED
    BY <1>1, <1>3, <2>4, <2>6, <2>7 DEF Beside
<1>4. CASE e # Nothing /\ e.field = f
  <2>1. \A g \in Fields \ {f} : BothLines(f, text, e)[g] = <<>> /\ OneLine(f, text, e)[g] = <<>>
    BY <1>1, <1>4, LineAdded
  <2>2. Len(BothLines(f, text, e)[f]) = 2
    BY <1>1, <1>4, LineAdded
  <2>3. Single(OneLine(f, text, e)[f], Resources!Text(text.scheme, "spaced", Nothing))
    BY <1>1, <1>4, LineAdded
  <2> QED
    BY <1>4, <2>1, <2>2, <2>3 DEF Beset
<1> QED
  BY <1>1, <1>2, <1>3, <1>4

\* The lines of a request under way are those of what the Agent has chosen and what was added.
LEMMA RequestLines ==
    ASSUME Resources!RequestAuthenticated, presentation # Nothing
    PROVE  /\ presentation.extra # Nothing => presentation.extra.field \in Fields
           /\ \E f \in Fields : \E text :
                /\ Resources!Chosen(f, text)
                /\ \/ Beside(presentation.headers, f, text, presentation.extra)
                   \/ Beset(presentation.headers, f, text, presentation.extra)
<1>1. presentation.extra \in Extras \cup {Nothing}
  BY DEF Resources!RequestAuthenticated
<1>2. PICK f \in Fields, text \in {Resources!Assertion} \cup {r.text : r \in records} :
        Resources!Chosen(f, text) /\ presentation.headers = Resources!Arriving(f, text)
  BY DEF Resources!RequestAuthenticated
<1>3. \/ presentation.extra = Nothing /\ presentation.headers = Resources!OneHeader(f, text)
      \/ /\ presentation.extra # Nothing
         /\ presentation.headers \in {BothLines(f, text, presentation.extra),
                                      OneLine(f, text, presentation.extra)}
  BY <1>2 DEF Resources!Arriving, BothLines, OneLine
<1>4. /\ \/ Beside(presentation.headers, f, text, presentation.extra)
         \/ Beset(presentation.headers, f, text, presentation.extra)
      /\ presentation.extra # Nothing => presentation.extra.field \in Fields
  BY <1>1, <1>3, LinesOf, Zenon
<1> QED
  BY <1>2, <1>4

\* What the Agent presents.
LEMMA ChosenIs ==
    ASSUME Resources!CredentialsProper, NEW f \in Fields, NEW text, Resources!Chosen(f, text)
    PROVE  /\ presentation.method \in Resources!Types \cup {"aep-jwt"}
           /\ presentation.method = "aep-jwt" => text = Resources!Assertion /\ presentation.used = Nothing
           /\ presentation.method # "aep-jwt" =>
                \E r \in records :
                    /\ r.id = presentation.used /\ r.agent = "me" /\ r.id \in stored
                    /\ r.type = presentation.method /\ r.text = text
                    /\ presentation.method = "api-key" => r.field = f /\ text.form = "bare"
                    /\ presentation.method # "api-key" => r.field = "authorization"
           /\ presentation.method # "api-key" =>
                /\ f \in {"authorization", "aep-authorization"}
                /\ text.form \in {"token", "comma"} /\ text.scheme \in Resources!Schemes
                /\ Resources!Selected(text).method = presentation.method
                /\ Resources!Selected(text).kind =
                        IF presentation.method = "aep-jwt" THEN "aep" ELSE "session"
                /\ Resources!Selected(text).secret = text.secret
<1>1. CASE presentation.method = "aep-jwt" /\ presentation.used = Nothing
            /\ text = Resources!Assertion /\ f \in {Resources!FieldOf(c) : c \in Resources!Carriers}
  BY <1>1, CarrierFields
  DEF Resources!Assertion, Resources!Text, Resources!Schemes, Resources!Selected, Resources!Selection
<1>2. ASSUME NEW r \in records, r.id \in stored, presentation.used = r.id,
             presentation.method = r.type, text = r.text,
             IF r.type = "api-key" THEN f = r.field
             ELSE Resources!Renders(text.form) /\ f \in {Resources!FieldOf(c) : c \in Resources!Carriers}
      PROVE  /\ presentation.method \in Resources!Types
             /\ r.agent = "me"
             /\ presentation.method = "api-key" => r.field = f /\ text.form = "bare"
             /\ presentation.method # "api-key" =>
                /\ r.field = "authorization"
                /\ f \in {"authorization", "aep-authorization"}
                /\ text.form \in {"token", "comma"} /\ text.scheme \in Resources!Schemes
                /\ Resources!Selected(text).method = presentation.method
                /\ Resources!Selected(text).kind = "session"
                /\ Resources!Selected(text).secret = text.secret
  <2>1. /\ r.type \in Resources!Types /\ r.agent = "me"
        /\ Resources!ValidGrant(r) /\ Resources!Placed(r)
    BY <1>2 DEF Resources!CredentialsProper
  <2>2. CASE r.type = "api-key"
    BY <1>2, <2>1, <2>2 DEF Resources!ValidGrant
  <2>3. CASE r.type # "api-key"
    BY <1>2, <2>1, <2>3, CarrierFields
    DEF Resources!Types, Resources!Placed, Resources!SchemeOf, Resources!Renders,
        Resources!IsCredentialToken, Resources!Schemes, Resources!Selected, Resources!Selection
  <2> QED
    BY <2>1, <2>2, <2>3, <1>2
<1>3. "aep-jwt" \notin Resources!Types
  BY DEF Resources!Types
<1> QED
  <2>1. CASE presentation.method = "aep-jwt"
    <3>1. ~\E r \in records : presentation.method = r.type
      BY <2>1, <1>3 DEF Resources!CredentialsProper
    <3> QED
      BY <2>1, <3>1, <1>1 DEF Resources!Chosen,
         Resources!Assertion, Resources!Text, Resources!Schemes, Resources!Selected, Resources!Selection
  <2>2. CASE presentation.method # "aep-jwt"
    <3>1. PICK r \in records :
            /\ r.id \in stored /\ presentation.used = r.id
            /\ presentation.method = r.type /\ text = r.text
            /\ IF r.type = "api-key" THEN f = r.field
               ELSE Resources!Renders(text.form) /\ f \in {Resources!FieldOf(c) : c \in Resources!Carriers}
      BY <2>2 DEF Resources!Chosen
    <3> QED
      BY <2>2, <3>1, <1>2
  <2> QED
    BY <2>1, <2>2

\* select_authorization takes the only line of one carrier, when the other has none to take.
LEMMA SelectionTakes ==
    ASSUME NEW h
    PROVE  LET standard == h["authorization"]
               dedicated == h["aep-authorization"]
               S(s) == Len(s) = 1 /\ Resources!Parses(s[1], "standard")
               D(s) == Len(s) = 1 /\ Resources!Parses(s[1], "dedicated")
           IN /\ Resources!Select(h).kind # "refused" =>
                    /\ ~Len(dedicated) > 1 /\ ~Len(standard) > 1
                    /\ Len(dedicated) = 1 => D(dedicated) /\ ~S(standard)
              /\ Resources!Select(h).kind = "aep" =>
                    \/ D(dedicated) /\ dedicated[1].scheme = "aep"
                    \/ S(standard) /\ standard[1].scheme = "aep"
BY DEF Resources!Select, Resources!Selection, Resources!Selected

\* A record that matches does so by a line that says of a credential what the record says.
LEMMA MatchMeans ==
    ASSUME NEW m, NEW h, NEW r \in Resources!Matching(m, h, records)
    PROVE  /\ r \in records /\ r.type = m
           /\ m = "api-key" =>
                /\ r.field \in Resources!KeyFields(records)
                /\ \E i \in DOMAIN h[r.field] : h[r.field][i] = r.text
           /\ m # "api-key" =>
                \E c \in Resources!Carriers : \E i \in DOMAIN h[Resources!FieldOf(c)] :
                    LET line == h[Resources!FieldOf(c)][i] IN
                    /\ Resources!Parses(line, c)
                    /\ Resources!Selected(line).method = m
                    /\ r.field = "authorization" /\ r.text.secret = line.secret
<1> DEFINE found == Resources!Presentations(m, h, records)
<1>1. /\ r \in records /\ r.type = m
      /\ \E p \in found : r.field = p.field /\ Resources!SecretOf(m, r.text) = p.secret
  BY DEF Resources!Matching
<1>2. PICK p \in found : r.field = p.field /\ Resources!SecretOf(m, r.text) = p.secret
  BY <1>1
<1>3. CASE m = "api-key"
  <2>1. PICK l \in UNION {Resources!Lines(h, g) : g \in Resources!KeyFields(records)} :
            p = [field |-> l.field, line |-> l, secret |-> h[l.field][l.at]]
    BY <1>2, <1>3 DEF Resources!Presentations
  <2>2. PICK g \in Resources!KeyFields(records) : \E i \in DOMAIN h[g] : l = [field |-> g, at |-> i]
    BY <2>1 DEF Resources!Lines
  <2>3. PICK i \in DOMAIN h[g] : l = [field |-> g, at |-> i]
    BY <2>2
  <2>4. p.field = g /\ p.secret = h[g][i]
    BY <2>1, <2>3
  <2> QED
    BY <1>1, <1>2, <1>3, <2>4 DEF Resources!SecretOf
<1>4. CASE m # "api-key"
  <2>1. PICK l \in UNION {{l \in Resources!Lines(h, Resources!FieldOf(c)) :
                            /\ Resources!Parses(h[l.field][l.at], c)
                            /\ Resources!Selected(h[l.field][l.at]).method = m} : c \in Resources!Carriers} :
            p = [field |-> "authorization", line |-> l, secret |-> h[l.field][l.at].secret]
    BY <1>2, <1>4 DEF Resources!Presentations
  <2>2. PICK c \in Resources!Carriers :
            /\ l \in Resources!Lines(h, Resources!FieldOf(c))
            /\ Resources!Parses(h[l.field][l.at], c)
            /\ Resources!Selected(h[l.field][l.at]).method = m
    BY <2>1
  <2>3. PICK i \in DOMAIN h[Resources!FieldOf(c)] : l = [field |-> Resources!FieldOf(c), at |-> i]
    BY <2>2 DEF Resources!Lines
  <2>4. /\ l.field = Resources!FieldOf(c) /\ l.at = i
        /\ p.field = "authorization" /\ p.secret = h[Resources!FieldOf(c)][i].secret
    BY <2>1, <2>3
  <2> QED
    BY <1>1, <1>2, <1>4, <2>2, <2>4 DEF Resources!SecretOf
<1> QED
  BY <1>1, <1>3, <1>4

\* What is read of a line: whether there is one, and whether it parses.
LEMMA LinesRead ==
    /\ \A s, x : Single(s, x) => Len(s) = 1 /\ DOMAIN s = {1} /\ s[1] = x
    /\ Len(<<>>) = 0 /\ DOMAIN <<>> = {}
    /\ \A x : x.form \in {"token", "comma"} /\ x.scheme \in Resources!Schemes =>
            /\ Resources!Parses(x, "standard")
            /\ Resources!Parses(x, "dedicated") <=> x.form # "comma"
    /\ \A x, c : x.form \notin {"token", "comma"} => ~Resources!Parses(x, c)
    /\ \A x, c : x.scheme \notin Resources!Schemes => ~Resources!Parses(x, c)
    /\ \A scheme : Resources!Text(scheme, "spaced", Nothing).form = "spaced"
    /\ \A scheme : Resources!Text(scheme, "spaced", Nothing).scheme = scheme
    /\ Resources!FieldOf("standard") = "authorization"
    /\ Resources!FieldOf("dedicated") = "aep-authorization"
    /\ Resources!Carriers = {"standard", "dedicated"}
BY DEF Single, Resources!Parses, Resources!IsCredentialToken, Resources!Text, Resources!FieldOf,
       Resources!Carriers

\* A request whose line has another in its field has no authorization that the layer takes.
LEMMA BesetIsRefused ==
    ASSUME NEW h, NEW f \in {"authorization", "aep-authorization"}, NEW text, NEW e,
           text.scheme \in Resources!Schemes, Beset(h, f, text, e)
    PROVE  Resources!Select(h).kind = "refused"
<1>1. \A g \in {"authorization", "aep-authorization"} \ {f} : h[g] = <<>>
  BY CarrierFields DEF Beset
<1>2. CASE Len(h[f]) = 2
  BY <1>2 DEF Resources!Select, Resources!Selection
<1>3. CASE Single(h[f], Resources!Text(text.scheme, "spaced", Nothing))
  <2>1. /\ Len(h[f]) = 1 /\ \A c : ~Resources!Parses(h[f][1], c)
        /\ h[f][1].scheme \in Resources!Schemes
    BY <1>3, LinesRead
  <2>2. CASE f = "authorization"
    <3>1. Len(h["aep-authorization"]) = 0 /\ h[f] # <<>>
      BY <1>1, <2>1, <2>2
    <3> QED
      BY <2>1, <2>2, <3>1 DEF Resources!Select, Resources!Selection
  <2>3. CASE f = "aep-authorization"
    <3>1. Len(h["authorization"]) = 0
      BY <1>1, <2>3
    <3> QED
      BY <2>1, <2>3, <3>1 DEF Resources!Select, Resources!Selection
  <2> QED
    BY <2>2, <2>3
<1> QED
  BY <1>2, <1>3 DEF Beset

\* An authorization of the Agent's is the one that the layer takes, or none is taken: what
\* is beside it in the other carrier does not take its place.
LEMMA OwnIsTaken ==
    ASSUME NEW h, NEW f \in {"authorization", "aep-authorization"}, NEW text, NEW e,
           text.form \in {"token", "comma"}, text.scheme \in Resources!Schemes,
           Beside(h, f, text, e), Resources!Select(h).kind # "refused",
           NEW c \in Resources!Carriers, NEW i \in DOMAIN h[Resources!FieldOf(c)],
           Resources!Parses(h[Resources!FieldOf(c)][i], c)
    PROVE  h[Resources!FieldOf(c)][i] = text
<1> DEFINE g == Resources!FieldOf(c)
<1>1. Len(h[f]) = 1 /\ DOMAIN h[f] = {1} /\ h[f][1] = text
  BY LinesRead DEF Beside
<1>2. g \in {"authorization", "aep-authorization"}
  BY LinesRead
<1>3. CASE g = f
  BY <1>1, <1>3
<1>4. CASE g # f
  <2>1. h[g] # <<>> /\ g \in Fields \ {f}
    BY <1>2, <1>4, LinesRead, CarrierFields
  <2>2. Len(h[g]) = 1 /\ DOMAIN h[g] = {1}
    BY <2>1, LinesRead DEF Beside
  <2>3. i = 1
    BY <2>2
  <2>4. /\ Len(h["aep-authorization"]) = 1
        /\ Resources!Parses(h["aep-authorization"][1], "dedicated")
        /\ ~(Len(h["authorization"]) = 1 /\ Resources!Parses(h["authorization"][1], "standard"))
    BY <1>1, <1>2, <1>4, <2>2, SelectionTakes
  <2>5. CASE f = "authorization"
    BY <1>1, <2>4, <2>5, LinesRead
  <2>6. CASE f = "aep-authorization"
    <3>1. g = "authorization" /\ c = "standard"
      BY <1>2, <1>4, <2>6, LinesRead
    <3> QED
      BY <2>2, <2>3, <2>4, <3>1
  <2> QED
    BY <2>5, <2>6
<1> QED
  BY <1>3, <1>4

\* Of two credentials that a line can be said to present, only one has been issued.
LEMMA SameCredential ==
    ASSUME Resources!CredentialsDiffer,
           NEW r \in records, NEW s \in records, r.type = s.type, r.field = s.field,
           Resources!SecretOf(r.type, r.text) = Resources!SecretOf(s.type, s.text)
    PROVE  r = s
BY DEF Resources!CredentialsDiffer

\* AsMeant of an outcome that is still to be given
MeantBy(outcome) ==
    /\ outcome.agent = "me" /\ outcome.method = presentation.method
    /\ outcome.id = presentation.used

\* What the layer makes of an assertion is what the Agent means, if it has no API key.
LEMMA AssertionIsMeant ==
    ASSUME Resources!CredentialsProper, Resources!CredentialsDiffer,
           Resources!RequestAuthenticated, presentation # Nothing,
           Resources!Select(presentation.headers).kind = "aep"
    PROVE  \/ presentation.method = "aep-jwt" /\ presentation.used = Nothing
           \/ presentation.extra # Nothing /\ presentation.method = "api-key"
<1> DEFINE h == presentation.headers
           e == presentation.extra
<1>1. PICK f \in Fields : \E text :
        Resources!Chosen(f, text) /\ (Beside(h, f, text, e) \/ Beset(h, f, text, e))
  BY RequestLines
<1>2. PICK text : Resources!Chosen(f, text) /\ (Beside(h, f, text, e) \/ Beset(h, f, text, e))
  BY <1>1
<1>3. \E c \in Resources!Carriers :
        /\ 1 \in DOMAIN h[Resources!FieldOf(c)] \/ h[Resources!FieldOf(c)] = <<>>
        /\ Len(h[Resources!FieldOf(c)]) = 1
        /\ Resources!Parses(h[Resources!FieldOf(c)][1], c)
        /\ h[Resources!FieldOf(c)][1].scheme = "aep"
  <2>1. \A g \in {"authorization", "aep-authorization"} :
            1 \in DOMAIN h[g] \/ h[g] = <<>> \/ Len(h[g]) = 2
    BY <1>2, CarrierFields, LinesRead DEF Beside, Beset
  <2> QED
    BY <2>1, SelectionTakes, LinesRead
<1>4. PICK c \in Resources!Carriers :
        /\ 1 \in DOMAIN h[Resources!FieldOf(c)]
        /\ Resources!Parses(h[Resources!FieldOf(c)][1], c)
        /\ h[Resources!FieldOf(c)][1].scheme = "aep"
  BY <1>3, LinesRead
<1>5. CASE presentation.method # "api-key"
  <2>1. /\ f \in {"authorization", "aep-authorization"}
        /\ text.form \in {"token", "comma"} /\ text.scheme \in Resources!Schemes
        /\ Resources!Selected(text).method = presentation.method
    BY <1>2, <1>5, ChosenIs
  <2>2. Beside(h, f, text, e)
    BY <1>2, <2>1, BesetIsRefused
  <2>3. h[Resources!FieldOf(c)][1] = text
    BY <1>4, <2>1, <2>2, OwnIsTaken
  <2>4. presentation.method = "aep-jwt"
    BY <1>4, <2>1, <2>3 DEF Resources!Selected, Resources!Selection
  <2> QED
    BY <1>2, <2>4, ChosenIs
<1>6. CASE presentation.method = "api-key"
  <2>1. text.form = "bare"
    BY <1>2, <1>6, ChosenIs
  <2>2. ASSUME e = Nothing PROVE FALSE
    <3>1. Beside(h, f, text, e)
      BY <1>2, <2>2 DEF Beset
    <3>2. \A g \in Fields \ {f} : h[g] = <<>>
      BY <2>2, <3>1 DEF Beside
    <3>3. Resources!FieldOf(c) = f
      BY <1>4, <3>2, CarrierFields, LinesRead
    <3>4. h[f][1] = text
      BY <3>1, LinesRead DEF Beside
    <3> QED
      BY <1>4, <2>1, <3>3, <3>4, LinesRead
  <2> QED
    BY <1>6, <2>2
<1> QED
  BY <1>5, <1>6

\* A credential that a request is found to present is the one the Agent means, or there
\* is something added, and an API key, in it.
LEMMA SessionIsMeant ==
    ASSUME Resources!CredentialsProper, Resources!CredentialsDiffer,
           Resources!RequestAuthenticated, presentation # Nothing,
           Resources!Select(presentation.headers).kind # "refused",
           NEW m, NEW r \in Resources!Matching(m, presentation.headers, records)
    PROVE  \/ r.agent = "me" /\ m = presentation.method /\ r.id = presentation.used
           \/ presentation.extra # Nothing /\ "api-key" \in {presentation.method, m}
<1> DEFINE h == presentation.headers
           e == presentation.extra
<1>1. PICK f \in Fields : \E text :
        Resources!Chosen(f, text) /\ (Beside(h, f, text, e) \/ Beset(h, f, text, e))
  BY RequestLines
<1>2. PICK text : Resources!Chosen(f, text) /\ (Beside(h, f, text, e) \/ Beset(h, f, text, e))
  BY <1>1
<1>3. /\ r \in records /\ r.type = m
      /\ m = "api-key" =>
            /\ r.field \in Resources!KeyFields(records)
            /\ \E i \in DOMAIN h[r.field] : h[r.field][i] = r.text
      /\ m # "api-key" =>
            \E c \in Resources!Carriers : \E i \in DOMAIN h[Resources!FieldOf(c)] :
                /\ Resources!Parses(h[Resources!FieldOf(c)][i], c)
                /\ Resources!Selected(h[Resources!FieldOf(c)][i]).method = m
                /\ r.field = "authorization" /\ r.text.secret = h[Resources!FieldOf(c)][i].secret
  BY MatchMeans
<1>4. /\ r.type \in Resources!Types /\ r.field \in Fields
      /\ Resources!ValidGrant(r) /\ Resources!Placed(r)
  BY <1>3 DEF Resources!CredentialsProper
<1>5. ASSUME e = Nothing
      PROVE  Single(h[f], text) /\ \A g \in Fields \ {f} : h[g] = <<>>
  BY <1>2, <1>5 DEF Beside, Beset
<1>6. CASE m = "api-key" /\ e = Nothing
  <2>1. r.text.form = "bare"
    BY <1>3, <1>4, <1>6 DEF Resources!ValidGrant
  <2>2. r.field = f /\ text = r.text
    BY <1>3, <1>4, <1>5, <1>6, LinesRead
  <2>3. presentation.method = "api-key"
    BY <1>2, <2>1, <2>2, ChosenIs
  <2>4. PICK s \in records :
            /\ s.id = presentation.used /\ s.agent = "me"
            /\ s.type = presentation.method /\ s.text = text /\ s.field = f
    BY <1>2, <2>3, ChosenIs
  <2>5. r = s
    BY <1>3, <1>6, <2>2, <2>3, <2>4, SameCredential
  <2> QED
    BY <1>6, <2>3, <2>4, <2>5
<1>7. CASE m # "api-key" /\ presentation.method = "api-key" /\ e = Nothing
  <2>1. PICK c \in Resources!Carriers : \E i \in DOMAIN h[Resources!FieldOf(c)] :
            Resources!Parses(h[Resources!FieldOf(c)][i], c)
    BY <1>3, <1>7
  <2>2. PICK i \in DOMAIN h[Resources!FieldOf(c)] : Resources!Parses(h[Resources!FieldOf(c)][i], c)
    BY <2>1
  <2>3. Resources!FieldOf(c) = f
    BY <1>5, <1>7, <2>2, LinesRead, CarrierFields
  <2>4. h[f][i] = text
    BY <1>5, <1>7, <2>2, <2>3, LinesRead
  <2>5. text.form = "bare"
    BY <1>2, <1>7, ChosenIs
  <2> QED
    BY <2>2, <2>3, <2>4, <2>5, LinesRead
<1>8. CASE m # "api-key" /\ presentation.method # "api-key"
  <2>1. /\ f \in {"authorization", "aep-authorization"}
        /\ text.form \in {"token", "comma"} /\ text.scheme \in Resources!Schemes
        /\ Resources!Selected(text).method = presentation.method
    BY <1>2, <1>8, ChosenIs
  <2>2. Beside(h, f, text, e)
    BY <1>2, <2>1, BesetIsRefused
  <2>3. PICK c \in Resources!Carriers : \E i \in DOMAIN h[Resources!FieldOf(c)] :
            /\ Resources!Parses(h[Resources!FieldOf(c)][i], c)
            /\ Resources!Selected(h[Resources!FieldOf(c)][i]).method = m
            /\ r.field = "authorization" /\ r.text.secret = h[Resources!FieldOf(c)][i].secret
    BY <1>3, <1>8
  <2>4. PICK i \in DOMAIN h[Resources!FieldOf(c)] :
            /\ Resources!Parses(h[Resources!FieldOf(c)][i], c)
            /\ Resources!Selected(h[Resources!FieldOf(c)][i]).method = m
            /\ r.field = "authorization" /\ r.text.secret = h[Resources!FieldOf(c)][i].secret
    BY <2>3
  <2>5. h[Resources!FieldOf(c)][i] = text
    BY <2>1, <2>2, <2>4, OwnIsTaken
  <2>6. presentation.method = m /\ m # "aep-jwt"
    BY <1>3, <1>4, <2>1, <2>4, <2>5 DEF Resources!Types
  <2>7. PICK s \in records :
            /\ s.id = presentation.used /\ s.agent = "me"
            /\ s.type = presentation.method /\ s.text = text /\ s.field = "authorization"
    BY <1>2, <1>8, <2>6, ChosenIs
  <2>8. Resources!SecretOf(r.type, r.text) = Resources!SecretOf(s.type, s.text)
    BY <1>3, <1>8, <2>4, <2>5, <2>6, <2>7 DEF Resources!SecretOf
  <2>9. r = s
    BY <1>3, <2>4, <2>6, <2>7, <2>8, SameCredential
  <2> QED
    BY <2>6, <2>7, <2>9
<1> QED
  BY <1>6, <1>7, <1>8

\* A principal is the one that the Agent means, or there is something added to the request
\* and an API key in question.
LEMMA NeverAnother ==
    ASSUME Resources!CredentialsProper, Resources!CredentialsDiffer,
           Resources!RequestAuthenticated, presentation # Nothing,
           NEW outcome \in Resources!Authenticate, outcome.code = Nothing
    PROVE  \/ MeantBy(outcome)
           \/ presentation.extra # Nothing /\ "api-key" \in {presentation.method, outcome.method}
<1> DEFINE selected == Resources!Select(presentation.headers)
<1>1. /\ \A code \in {"not_recognized", "authentication_required", "unsupported_authentication_method"} :
            Resources!Failure(code).code # Nothing
      /\ \A agent, method, id :
            /\ Resources!Principal(agent, method, id).agent = agent
            /\ Resources!Principal(agent, method, id).method = method
            /\ Resources!Principal(agent, method, id).id = id
  BY NothingIsNoCode DEF Resources!Failure, Resources!Principal
<1>2. selected.kind # "refused"
  BY <1>1 DEF Resources!Authenticate
<1>3. CASE selected.kind = "aep"
  <2>1. outcome = Resources!ByAssertion
    BY <1>1, <1>2, <1>3 DEF Resources!Authenticate
  <2>2. outcome = Resources!Principal("me", "aep-jwt", Nothing)
    BY <1>1, <2>1 DEF Resources!ByAssertion
  <2> QED
    BY <1>1, <1>3, <2>2, AssertionIsMeant DEF MeantBy
<1>4. CASE selected.kind # "aep"
  <2>1. outcome \in Resources!BySession(selected)
    BY <1>2, <1>4 DEF Resources!Authenticate
  <2>2. PICK m : \E r \in Resources!Matching(m, presentation.headers, records) :
            outcome = Resources!Principal(r.agent, m, r.id)
    BY <1>1, <2>1 DEF Resources!BySession
  <2>3. PICK r \in Resources!Matching(m, presentation.headers, records) :
            outcome = Resources!Principal(r.agent, m, r.id)
    BY <2>2
  <2> QED
    BY <1>1, <1>2, <2>3, SessionIsMeant DEF MeantBy
<1> QED
  BY <1>3, <1>4

\* The Agent's line alone, but for others that no authorization or API key is looked for in
Unaffected(h, f, text) ==
    /\ Single(h[f], text)
    /\ \A g \in Fields \ {f} :
        \/ h[g] = <<>>
        \/ \E x : /\ Single(h[g], x)
                  /\ g \notin Resources!KeyFields(records) /\ g # "aep-authorization"
                  /\ g = "authorization" => x.scheme \notin Resources!Schemes

\* An API key is looked for in the field of each.
LEMMA KeyHasField ==
    ASSUME NEW r \in records, r.type = "api-key"
    PROVE  r.field \in Resources!KeyFields(records)
BY DEF Resources!KeyFields

\* What does not compete with the Agent's line leaves it as it is.
LEMMA NothingCompetes ==
    ASSUME Resources!CredentialsProper, Resources!RequestAuthenticated, presentation # Nothing,
           presentation.extra = Nothing \/ ~Resources!Competes(presentation.extra)
    PROVE  \E f \in Fields : \E text :
                Resources!Chosen(f, text) /\ Unaffected(presentation.headers, f, text)
<1> DEFINE h == presentation.headers
           e == presentation.extra
<1>1. PICK f \in Fields : \E text :
        Resources!Chosen(f, text) /\ (Beside(h, f, text, e) \/ Beset(h, f, text, e))
  BY RequestLines
<1>2. PICK text : Resources!Chosen(f, text) /\ (Beside(h, f, text, e) \/ Beset(h, f, text, e))
  BY <1>1
<1>3. ASSUME e # Nothing
      PROVE  /\ h[e.field] = <<e.text>>
             /\ e.field \notin Resources!KeyFields(records) /\ e.field # "aep-authorization"
             /\ e.field = "authorization" => e.text.scheme \notin Resources!Schemes
  BY <1>3 DEF Resources!Competes
<1>4. ~Beset(h, f, text, e)
  <2> SUFFICES ASSUME Beset(h, f, text, e) PROVE FALSE
    OBVIOUS
  <2>1. e # Nothing /\ e.field = f
    BY DEF Beset
  <2>2. Single(h[f], e.text)
    BY <1>3, <2>1, SingleLine
  <2>3. Len(h[f]) = 1 /\ h[f][1] = e.text
    BY <2>2, LinesRead
  <2>4. e.text.scheme = text.scheme
    <3>1. Single(h[f], Resources!Text(text.scheme, "spaced", Nothing))
      BY <2>3 DEF Beset
    <3>2. h[f][1] = Resources!Text(text.scheme, "spaced", Nothing)
      BY <3>1, LinesRead
    <3> QED
      BY <2>3, <3>2, LinesRead
  <2>5. CASE presentation.method = "api-key"
    <3>1. PICK r \in records : r.type = "api-key" /\ r.field = f
      BY <1>2, <2>5, ChosenIs
    <3> QED
      BY <1>3, <2>1, <3>1, KeyHasField
  <2>6. CASE presentation.method # "api-key"
    <3>1. f \in {"authorization", "aep-authorization"} /\ text.scheme \in Resources!Schemes
      BY <1>2, <2>6, ChosenIs
    <3> QED
      BY <1>3, <2>1, <2>4, <3>1
  <2> QED
    BY <2>5, <2>6
<1>5. Beside(h, f, text, e)
  BY <1>2, <1>4
<1>6. Unaffected(h, f, text)
  <2>1. Single(h[f], text)
    BY <1>5 DEF Beside
  <2>2. ASSUME NEW g \in Fields \ {f}, h[g] # <<>>
        PROVE  /\ Single(h[g], e.text)
               /\ g \notin Resources!KeyFields(records) /\ g # "aep-authorization"
               /\ g = "authorization" => e.text.scheme \notin Resources!Schemes
    BY <1>3, <1>5, <2>2 DEF Beside
  <2> QED
    BY <2>1, <2>2 DEF Unaffected
<1> QED
  BY <1>2, <1>6

\* An authorization with nothing to compete with it is the one that is taken.
LEMMA TokenTaken ==
    ASSUME NEW h, NEW f \in {"authorization", "aep-authorization"}, NEW text,
           text.form \in {"token", "comma"}, text.scheme \in Resources!Schemes,
           f = "aep-authorization" => text.form # "comma",
           Unaffected(h, f, text)
    PROVE  Resources!Select(h) = Resources!Selected(text)
<1>1. Len(h[f]) = 1 /\ h[f][1] = text /\ h[f] # <<>>
  BY LinesRead DEF Unaffected
<1>2. CASE f = "authorization"
  <2>1. h["aep-authorization"] = <<>>
    BY <1>2, CarrierFields DEF Unaffected
  <2>2. Len(h["aep-authorization"]) = 0 /\ Resources!Parses(h["authorization"][1], "standard")
    BY <1>1, <1>2, <2>1, LinesRead
  <2>3. /\ Len(h["authorization"]) = 1 /\ h["authorization"] # <<>>
        /\ Resources!Selected(h["authorization"][1]) = Resources!Selected(text)
    BY <1>1, <1>2
  <2> QED
    BY <2>2, <2>3 DEF Resources!Select
<1>3. CASE f = "aep-authorization"
  <2>1. /\ ~Len(h["authorization"]) > 1
        /\ ~(Len(h["authorization"]) = 1 /\ Resources!Parses(h["authorization"][1], "standard"))
    <3>1. CASE h["authorization"] = <<>>
      BY <3>1, LinesRead
    <3>2. CASE h["authorization"] # <<>>
      <4>1. PICK x : Single(h["authorization"], x) /\ x.scheme \notin Resources!Schemes
        BY <1>3, <3>2, CarrierFields DEF Unaffected
      <4>2. Len(h["authorization"]) = 1 /\ h["authorization"][1] = x
        BY <4>1, LinesRead
      <4>3. ~Resources!Parses(x, "standard")
        BY <4>1, LinesRead
      <4> QED
        BY <4>2, <4>3
    <3> QED
      BY <3>1, <3>2
  <2>2. Resources!Parses(h["aep-authorization"][1], "dedicated")
    BY <1>1, <1>3, LinesRead
  <2>3. /\ Len(h["aep-authorization"]) = 1
        /\ Resources!Selected(h["aep-authorization"][1]) = Resources!Selected(text)
    BY <1>1, <1>3
  <2> QED
    BY <2>1, <2>2, <2>3 DEF Resources!Select
<1> QED
  BY <1>2, <1>3

\* Beside an API key no authorization is taken, nor looked for in vain.
LEMMA KeyPassesBy ==
    ASSUME NEW h, NEW f \in Fields \ {"aep-authorization"}, NEW text, text.form = "bare",
           f = "authorization" => text.scheme \notin Resources!Schemes,
           Unaffected(h, f, text)
    PROVE  Resources!Select(h).kind \in {"none", "unrelated"}
<1>1. h["aep-authorization"] = <<>>
  BY CarrierFields DEF Unaffected
<1>2. CASE h["authorization"] = <<>>
  BY <1>1, <1>2, LinesRead DEF Resources!Select, Resources!Selection
<1>3. CASE h["authorization"] # <<>>
  <2>1. PICK x : Single(h["authorization"], x) /\ x.scheme \notin Resources!Schemes
    BY <1>3, CarrierFields DEF Unaffected
  <2>2. /\ Len(h["authorization"]) = 1 /\ h["authorization"][1] = x
        /\ ~Resources!Parses(x, "standard")
    BY <2>1, LinesRead
  <2> QED
    BY <1>1, <1>3, <2>1, <2>2, LinesRead DEF Resources!Select, Resources!Selection
<1> QED
  BY <1>2, <1>3

\* A record that is live matches, alone, the only line that presents it.
LEMMA OnlyMatch ==
    ASSUME Resources!CredentialsDiffer, NEW r \in records, ~r.revoked, ~r.expired, NEW h, NEW p,
           Resources!Presentations(r.type, h, records) = {p},
           p.field = r.field, p.secret = Resources!SecretOf(r.type, r.text)
    PROVE  Resources!Matching(r.type, h, records) = {r}
<1> DEFINE found == Resources!Presentations(r.type, h, records)
<1>1. Resources!Cardinality(found) = 1
  BY ResourceCardinality, FS_Singleton
<1> HIDE DEF found
<1>2. found = {p}
  BY DEF found
<1>3. r \in Resources!Matching(r.type, h, records)
  BY <1>1, <1>2 DEF Resources!Matching, found
<1>4. ASSUME NEW s \in Resources!Matching(r.type, h, records) PROVE s = r
  <2>1. /\ s \in records /\ s.type = r.type
        /\ \E q \in found : s.field = q.field /\ Resources!SecretOf(r.type, s.text) = q.secret
    BY DEF Resources!Matching, found
  <2> QED
    BY <1>2, <2>1, SameCredential
<1> QED
  BY <1>3, <1>4

\* What there is of authorizations in a request that has no line but one of the Agent's.
LEMMA AuthorizationsOf ==
    ASSUME NEW h, NEW f \in Fields, NEW text, Unaffected(h, f, text),
           NEW c \in Resources!Carriers, NEW i \in DOMAIN h[Resources!FieldOf(c)],
           Resources!Parses(h[Resources!FieldOf(c)][i], c)
    PROVE  Resources!FieldOf(c) = f /\ i = 1 /\ h[Resources!FieldOf(c)][i] = text
<1> DEFINE g == Resources!FieldOf(c)
<1>1. g \in {"authorization", "aep-authorization"} /\ g \in Fields
  BY LinesRead, CarrierFields
<1>2. CASE g = f
  <2>1. DOMAIN h[f] = {1} /\ h[f][1] = text
    BY LinesRead DEF Unaffected
  <2> QED
    BY <1>2, <2>1
<1>3. CASE g # f
  <2>1. h[g] # <<>>
    BY LinesRead
  <2>2. PICK x : /\ Single(h[g], x) /\ g # "aep-authorization"
                 /\ g = "authorization" => x.scheme \notin Resources!Schemes
    BY <1>1, <1>3, <2>1 DEF Unaffected
  <2>3. DOMAIN h[g] = {1} /\ h[g][1] = x
    BY <2>2, LinesRead
  <2>4. x.scheme \notin Resources!Schemes /\ i = 1
    BY <1>1, <2>2, <2>3
  <2> QED
    BY <2>3, <2>4, LinesRead
<1> QED
  BY <1>2, <1>3

\* And of API keys.
LEMMA KeysOf ==
    ASSUME NEW h, NEW f \in Fields, NEW text, Unaffected(h, f, text),
           NEW g \in Resources!KeyFields(records) \cap Fields, NEW i \in DOMAIN h[g]
    PROVE  g = f /\ i = 1 /\ h[g][i] = text
<1>1. DOMAIN h[f] = {1} /\ h[f][1] = text
  BY LinesRead DEF Unaffected
<1>2. ASSUME g # f PROVE FALSE
  BY <1>2, LinesRead DEF Unaffected
<1> QED
  BY <1>1, <1>2

\* An API key that is not a token matches no record but its own.
LEMMA OtherTypes ==
    ASSUME Resources!CredentialsProper, NEW h, NEW f \in Fields, NEW text, Unaffected(h, f, text),
           NEW type \in Resources!Types,
           type = "api-key" => text.form = "bare",
           type # "api-key" => /\ text.form \in {"token", "comma"}
                               /\ Resources!Selected(text).method = type,
           NEW m \in Resources!Types \ {type}
    PROVE  Resources!Matching(m, h, records) = {}
<1> SUFFICES ASSUME NEW r \in Resources!Matching(m, h, records) PROVE FALSE
  OBVIOUS
<1>1. /\ r \in records /\ r.type = m
      /\ m = "api-key" =>
            /\ r.field \in Resources!KeyFields(records)
            /\ \E i \in DOMAIN h[r.field] : h[r.field][i] = r.text
      /\ m # "api-key" =>
            \E c \in Resources!Carriers : \E i \in DOMAIN h[Resources!FieldOf(c)] :
                /\ Resources!Parses(h[Resources!FieldOf(c)][i], c)
                /\ Resources!Selected(h[Resources!FieldOf(c)][i]).method = m
  BY MatchMeans
<1>2. r.field \in Fields /\ Resources!ValidGrant(r)
  BY <1>1 DEF Resources!CredentialsProper
<1>3. CASE m = "api-key"
  <2>1. PICK i \in DOMAIN h[r.field] : h[r.field][i] = r.text
    BY <1>1, <1>3
  <2>2. r.text = text
    BY <1>1, <1>2, <1>3, <2>1, KeysOf
  <2> QED
    BY <1>1, <1>2, <1>3, <2>2 DEF Resources!ValidGrant
<1>4. CASE m # "api-key"
  <2>1. PICK c \in Resources!Carriers : \E i \in DOMAIN h[Resources!FieldOf(c)] :
            /\ Resources!Parses(h[Resources!FieldOf(c)][i], c)
            /\ Resources!Selected(h[Resources!FieldOf(c)][i]).method = m
    BY <1>1, <1>4
  <2>2. PICK i \in DOMAIN h[Resources!FieldOf(c)] :
            /\ Resources!Parses(h[Resources!FieldOf(c)][i], c)
            /\ Resources!Selected(h[Resources!FieldOf(c)][i]).method = m
    BY <2>1
  <2>3. h[Resources!FieldOf(c)][i] = text
    BY <2>2, AuthorizationsOf
  <2>4. Resources!Parses(text, c) /\ Resources!Selected(text).method = m
    BY <2>2, <2>3
  <2>5. type = "api-key"
    BY <2>4
  <2> QED
    BY <2>4, <2>5, LinesRead
<1> QED
  BY <1>3, <1>4

\* What a token presents, and who it is.
LEMMA TokenMatches ==
    ASSUME Resources!CredentialsDiffer, NEW r \in records, ~r.revoked, ~r.expired,
           r.type # "api-key", r.field = "authorization",
           NEW h, NEW c \in Resources!Carriers,
           Unaffected(h, Resources!FieldOf(c), r.text),
           Resources!Parses(r.text, c), Resources!Selected(r.text).method = r.type
    PROVE  Resources!Matching(r.type, h, records) = {r}
<1> DEFINE f == Resources!FieldOf(c)
           line == [field |-> f, at |-> 1]
           p == [field |-> "authorization", line |-> line, secret |-> r.text.secret]
           counted(d) == {l \in Resources!Lines(h, Resources!FieldOf(d)) :
                            /\ Resources!Parses(h[l.field][l.at], d)
                            /\ Resources!Selected(h[l.field][l.at]).method = r.type}
           found == Resources!Presentations(r.type, h, records)
<1>1. f \in Fields /\ DOMAIN h[f] = {1} /\ h[f][1] = r.text
  BY LinesRead, CarrierFields DEF Unaffected
<1>2. found = {[field |-> "authorization", line |-> l, secret |-> h[l.field][l.at].secret] :
                    l \in UNION {counted(d) : d \in Resources!Carriers}}
  BY DEF Resources!Presentations
<1>3. line.field = f /\ line.at = 1
  OBVIOUS
<1>4. line \in counted(c)
  <2>1. line \in Resources!Lines(h, f)
    BY <1>1 DEF Resources!Lines
  <2> QED
    BY <1>1, <1>3, <2>1
<1>5. ASSUME NEW d \in Resources!Carriers, NEW l \in counted(d) PROVE l = line
  <2>1. PICK i \in DOMAIN h[Resources!FieldOf(d)] : l = [field |-> Resources!FieldOf(d), at |-> i]
    BY <1>5 DEF Resources!Lines
  <2>2. l.field = Resources!FieldOf(d) /\ l.at = i
    BY <2>1
  <2>3. Resources!Parses(h[Resources!FieldOf(d)][i], d)
    BY <1>5, <2>2
  <2>4. Resources!FieldOf(d) = f /\ i = 1
    BY <1>1, <2>1, <2>3, AuthorizationsOf
  <2> QED
    BY <2>1, <2>4
<1> HIDE DEF line, counted
<1>6. UNION {counted(d) : d \in Resources!Carriers} = {line}
  BY <1>4, <1>5
<1>7. found = {p}
  BY <1>1, <1>2, <1>3, <1>6
<1>8. p.field = r.field /\ p.secret = Resources!SecretOf(r.type, r.text)
  BY DEF Resources!SecretOf
<1> HIDE DEF found, p
<1> QED
  BY <1>7, <1>8, OnlyMatch DEF found

\* What an API key presents, and who it is.
LEMMA KeyMatches ==
    ASSUME Resources!CredentialsProper, Resources!CredentialsDiffer,
           NEW r \in records, ~r.revoked, ~r.expired, r.type = "api-key",
           NEW h, Unaffected(h, r.field, r.text)
    PROVE  Resources!Matching(r.type, h, records) = {r}
<1> DEFINE line == [field |-> r.field, at |-> 1]
           p == [field |-> r.field, line |-> line, secret |-> r.text]
           all == UNION {Resources!Lines(h, g) : g \in Resources!KeyFields(records)}
           found == Resources!Presentations(r.type, h, records)
<1>1. /\ r.field \in Resources!KeyFields(records) /\ Resources!KeyFields(records) \subseteq Fields
      /\ DOMAIN h[r.field] = {1} /\ h[r.field][1] = r.text
  BY LinesRead, KeyHasField DEF Unaffected, Resources!KeyFields, Resources!CredentialsProper
<1>2. found = {[field |-> l.field, line |-> l, secret |-> h[l.field][l.at]] : l \in all}
  BY DEF Resources!Presentations
<1>3. line.field = r.field /\ line.at = 1
  OBVIOUS
<1>4. line \in all
  BY <1>1 DEF Resources!Lines
<1>5. ASSUME NEW l \in all PROVE l = line
  <2>1. PICK g \in Resources!KeyFields(records) : l \in Resources!Lines(h, g)
    BY <1>5
  <2>2. PICK i \in DOMAIN h[g] : l = [field |-> g, at |-> i]
    BY <2>1 DEF Resources!Lines
  <2>3. g = r.field /\ i = 1
    BY <1>1, KeysOf
  <2> QED
    BY <2>2, <2>3
<1> HIDE DEF line, all
<1>6. all = {line}
  BY <1>4, <1>5
<1>7. found = {p}
  BY <1>1, <1>2, <1>3, <1>6
<1>8. p.field = r.field /\ p.secret = Resources!SecretOf(r.type, r.text)
  BY DEF Resources!SecretOf
<1> HIDE DEF found, p
<1> QED
  BY <1>7, <1>8, OnlyMatch DEF found

\* When a request matches one credential, by one method, it is authenticated as that.
LEMMA SessionFinds ==
    ASSUME service \in Services, Resources!Configurable(service), NEW r \in records,
           r.type \in Resources!Methods(service), r.type \in Resources!Types,
           Resources!Matching(r.type, presentation.headers, records) = {r},
           \A m \in Resources!Types \ {r.type} :
                Resources!Matching(m, presentation.headers, records) = {},
           Resources!Active(r.agent),
           NEW selected, selected.kind = "session" => selected.method \in Resources!Methods(service)
    PROVE  Resources!BySession(selected) = {Resources!Principal(r.agent, r.type, r.id)}
<1>1. PICK k \in DOMAIN service.methods : service.methods[k] = r.type
  BY DEF Resources!Methods
<1>2. k \in Nat
  BY <1>1, ServicesHaveType
<1>3. Resources!Matched = {k}
  BY <1>1 DEF Resources!Matched, Resources!Configurable
<1> DEFINE first == CHOOSE i \in Resources!Matched : \A j \in Resources!Matched : i <= j
           method == service.methods[first]
<1>4. first = k
  BY <1>2, <1>3
<1> HIDE DEF first
<1>5. method = r.type
  BY <1>1, <1>4
<1>6. Resources!Matched # {}
  BY <1>3
<1>7. Resources!BySession(selected) =
        {IF Resources!Active(s.agent) THEN Resources!Principal(s.agent, method, s.id)
         ELSE Resources!Failure("not_recognized") :
            s \in Resources!Matching(method, presentation.headers, records)}
  BY <1>6 DEF Resources!BySession, first
<1> HIDE DEF method
<1>8. Resources!Matching(method, presentation.headers, records) = {r}
  BY <1>5
<1> QED
  BY <1>5, <1>7, <1>8

\* The credential a request is by.
LEMMA UsedIs ==
    ASSUME Resources!CredentialsDiffer, NEW r \in records, r.id = presentation.used
    PROVE  Resources!Used = r
BY DEF Resources!Used, Resources!CredentialsDiffer

\* Where nothing has changed, nothing competes and the credential can be presented, a
\* request is authenticated as it is meant.
LEMMA ServedAsMeant ==
    ASSUME Resources!ResourceInvariant, presentation # Nothing,
           ~Resources!Outdated, ~Resources!Unpresentable,
           presentation.extra = Nothing \/ ~Resources!Competes(presentation.extra),
           ~(presentation.method = "aep-jwt" /\ service.origin # "service"),
           NEW outcome \in Resources!Authenticate
    PROVE  MeantBy(outcome)
<1> DEFINE h == presentation.headers
           selected == Resources!Select(h)
<1>1. /\ known = service /\ enrolled
      /\ service \in Services /\ Resources!Configurable(service)
      /\ Resources!CredentialsDiffer /\ Resources!CredentialsProper
      /\ Resources!RequestAuthenticated
  BY DEF Resources!Outdated, Resources!ResourceInvariant
<1>2. presentation.method \in Resources!Methods(service)
  BY <1>1 DEF Resources!RequestAuthenticated
<1>3. PICK f \in Fields : \E text : Resources!Chosen(f, text) /\ Unaffected(h, f, text)
  BY <1>1, NothingCompetes
<1>4. PICK text : Resources!Chosen(f, text) /\ Unaffected(h, f, text)
  BY <1>3
<1>5. \A agent, method, id :
        /\ Resources!Principal(agent, method, id).agent = agent
        /\ Resources!Principal(agent, method, id).method = method
        /\ Resources!Principal(agent, method, id).id = id
  BY DEF Resources!Principal
<1>6. CASE presentation.method = "aep-jwt"
  <2>1. /\ text = Resources!Assertion /\ presentation.used = Nothing
        /\ f \in {"authorization", "aep-authorization"}
        /\ text.form \in {"token", "comma"} /\ text.scheme \in Resources!Schemes
        /\ Resources!Selected(text).kind = "aep"
        /\ Resources!Selected(text).secret = text.secret
    BY <1>1, <1>4, <1>6, ChosenIs
  <2>2. text.form # "comma"
    BY <2>1 DEF Resources!Assertion, Resources!Text
  <2>3. selected = Resources!Selected(text)
    BY <1>4, <2>1, <2>2, TokenTaken
  <2>4. outcome = Resources!ByAssertion
    BY <2>1, <2>3 DEF Resources!Authenticate
  <2>5. outcome = Resources!Principal("me", "aep-jwt", Nothing)
    BY <1>1, <1>2, <1>6, <2>4 DEF Resources!ByAssertion
  <2> QED
    BY <1>5, <1>6, <2>1, <2>5 DEF MeantBy
<1>7. ASSUME presentation.method # "aep-jwt"
      PROVE  \E r \in records :
                /\ r.id = presentation.used /\ r.agent = "me"
                /\ r.type = presentation.method /\ r.text = text
                /\ ~r.revoked /\ ~r.expired
                /\ presentation.method = "api-key" => r.field = f /\ text.form = "bare"
                /\ presentation.method # "api-key" => r.field = "authorization"
                /\ presentation.used # Nothing /\ Resources!Used = r
                /\ Resources!Active(r.agent)
  <2>1. PICK r \in records :
            /\ r.id = presentation.used /\ r.agent = "me" /\ r.id \in stored
            /\ r.type = presentation.method /\ r.text = text
            /\ presentation.method = "api-key" => r.field = f /\ text.form = "bare"
            /\ presentation.method # "api-key" => r.field = "authorization"
    BY <1>1, <1>4, <1>7, ChosenIs
  <2>2. Resources!Used = r
    BY <1>1, <2>1, UsedIs
  <2>3. presentation.used # Nothing
    <3>1. Resources!Cardinality(records) \in Nat
      BY <1>1, ResourceCardinality, ResourceFinite, FS_CardinalityType DEF Resources!CredentialsDiffer
    <3>2. r.id \in 0..(Resources!Cardinality(records) - 1)
      BY <1>1, <2>1 DEF Resources!CredentialsDiffer
    <3> QED
      BY <2>1, <3>1, <3>2, NothingIsNoId
  <2>4. ~r.revoked /\ ~r.expired
    BY <2>2, <2>3 DEF Resources!Outdated
  <2> QED
    BY <1>1, <2>1, <2>2, <2>3, <2>4 DEF Resources!Active
<1>8. ASSUME NEW r \in records,
             r.id = presentation.used, r.agent = "me", r.type = presentation.method,
             r.type \in Resources!Types, Resources!Active(r.agent),
             Resources!Matching(r.type, h, records) = {r},
             \A m \in Resources!Types \ {r.type} : Resources!Matching(m, h, records) = {},
             selected.kind \notin {"refused", "aep"},
             selected.kind = "session" => selected.method = presentation.method
      PROVE  MeantBy(outcome)
  <2>1. outcome \in Resources!BySession(selected)
    BY <1>8 DEF Resources!Authenticate
  <2>2. Resources!BySession(selected) = {Resources!Principal(r.agent, r.type, r.id)}
    BY <1>1, <1>2, <1>8, SessionFinds
  <2> QED
    BY <1>5, <1>8, <2>1, <2>2 DEF MeantBy
<1>9. CASE presentation.method \notin {"aep-jwt", "api-key"}
  <2>1. PICK r \in records :
            /\ r.id = presentation.used /\ r.agent = "me"
            /\ r.type = presentation.method /\ r.text = text
            /\ ~r.revoked /\ ~r.expired /\ r.field = "authorization"
            /\ presentation.used # Nothing /\ Resources!Used = r
            /\ Resources!Active(r.agent)
    BY <1>7, <1>9
  <2>2. /\ presentation.method \in Resources!Types
        /\ f \in {"authorization", "aep-authorization"}
        /\ text.form \in {"token", "comma"} /\ text.scheme \in Resources!Schemes
        /\ Resources!Selected(text).method = presentation.method
        /\ Resources!Selected(text).kind = "session"
    BY <1>1, <1>4, <1>9, ChosenIs
  <2>3. f = "aep-authorization" => text.form # "comma"
    <3>1. h[f] # <<>>
      BY <1>4, LinesRead DEF Unaffected
    <3> QED
      BY <2>1, <3>1 DEF Resources!Unpresentable
  <2>4. selected = Resources!Selected(text)
    BY <1>4, <2>2, <2>3, TokenTaken
  <2>5. PICK c \in Resources!Carriers : f = Resources!FieldOf(c)
    BY <2>2, LinesRead
  <2>6. Resources!Parses(text, c)
    BY <2>2, <2>3, <2>5, LinesRead
  <2>7. Resources!Matching(r.type, h, records) = {r}
    BY <1>1, <1>4, <1>9, <2>1, <2>2, <2>5, <2>6, TokenMatches
  <2>8. \A m \in Resources!Types \ {r.type} : Resources!Matching(m, h, records) = {}
    BY <1>1, <1>4, <1>9, <2>1, <2>2, OtherTypes
  <2> QED
    BY <1>8, <2>1, <2>2, <2>4, <2>7, <2>8
<1>10. CASE presentation.method = "api-key"
  <2>1. PICK r \in records :
            /\ r.id = presentation.used /\ r.agent = "me"
            /\ r.type = "api-key" /\ r.text = text
            /\ ~r.revoked /\ ~r.expired /\ r.field = f /\ text.form = "bare"
            /\ presentation.used # Nothing /\ Resources!Used = r
            /\ Resources!Active(r.agent)
    BY <1>7, <1>10
  <2>2. /\ f # "aep-authorization"
        /\ f = "authorization" => text.scheme \notin Resources!Schemes
    BY <1>10, <2>1 DEF Resources!Unpresentable
  <2>3. selected.kind \in {"none", "unrelated"}
    BY <1>4, <2>1, <2>2, KeyPassesBy
  <2>4. Resources!Matching(r.type, h, records) = {r}
    BY <1>1, <1>4, <2>1, KeyMatches
  <2>5. r.type \in Resources!Types
    BY <2>1 DEF Resources!Types
  <2>6. \A m \in Resources!Types \ {r.type} : Resources!Matching(m, h, records) = {}
    BY <1>1, <1>4, <2>1, <2>5, OtherTypes
  <2> QED
    BY <1>8, <1>10, <2>1, <2>3, <2>4, <2>5, <2>6
<1> QED
  BY <1>6, <1>9, <1>10

\* The number of credentials is the next id.
LEMMA NextId ==
    ASSUME Resources!CredentialsDiffer
    PROVE  /\ IsFiniteSet(records) /\ Resources!Cardinality(records) = Cardinality(records)
           /\ Cardinality(records) \in Nat
           /\ \A r \in records : r.id \in 0..(Cardinality(records) - 1)
           /\ stored \subseteq 0..(Cardinality(records) - 1)
<1>1. IsFiniteSet(records)
  BY ResourceFinite DEF Resources!CredentialsDiffer
<1>2. Resources!Cardinality(records) = Cardinality(records) /\ Cardinality(records) \in Nat
  BY <1>1, ResourceCardinality, FS_CardinalityType
<1> QED
  BY <1>1, <1>2 DEF Resources!CredentialsDiffer

\* A request under way stays one of the Agent's when credentials are issued or change
\* without losing what they are.
LEMMA StaysAuthenticated ==
    ASSUME Resources!RequestAuthenticated, UNCHANGED known, stored \subseteq stored',
           presentation' = Nothing \/
           /\ presentation # Nothing
           /\ DOMAIN presentation' = DOMAIN presentation
           /\ presentation'.step = "made" => presentation.step = "made"
           /\ presentation'.step \in {"made", "sent", "served"}
           /\ presentation'.extra = presentation.extra
           /\ presentation'.combined = presentation.combined
           /\ presentation'.method = presentation.method
           /\ presentation'.used = presentation.used
           /\ presentation'.headers = presentation.headers,
           \A r \in records : \E s \in records' :
                s.id = r.id /\ s.type = r.type /\ s.field = r.field /\ s.text = r.text
    PROVE  Resources!RequestAuthenticated'
<1>1. CASE presentation' = Nothing
  BY <1>1 DEF Resources!RequestAuthenticated
<1>2. CASE presentation' # Nothing
  <2>1. /\ presentation # Nothing
        /\ DOMAIN presentation' =
                {"step", "method", "used", "headers", "extra", "combined", "changed", "outcome"}
        /\ presentation'.step \in {"made", "sent", "served"}
        /\ presentation'.extra \in Extras \cup {Nothing}
        /\ presentation'.step = "made" => presentation'.extra = Nothing
        /\ presentation'.method \in Resources!Methods(known)'
    BY <1>2 DEF Resources!RequestAuthenticated, Resources!Methods
  <2>2. PICK f \in Fields, text \in {Resources!Assertion} \cup {r.text : r \in records} :
            Resources!Chosen(f, text) /\ presentation.headers = Resources!Arriving(f, text)
    BY <2>1 DEF Resources!RequestAuthenticated
  <2>3. presentation'.headers = Resources!Arriving(f, text)'
    <3>1. Resources!Arriving(f, text)' = Resources!Arriving(f, text)
      BY <1>2 DEF Resources!Arriving
    <3> QED
      BY <1>2, <2>2, <3>1
  <2>4. Resources!Chosen(f, text)' /\ text \in {Resources!Assertion} \cup {r.text : r \in records'}
    <3>1. CASE /\ presentation.method = "aep-jwt" /\ presentation.used = Nothing
               /\ text = Resources!Assertion
               /\ f \in {Resources!FieldOf(c) : c \in Resources!Carriers}
      BY <1>2, <3>1 DEF Resources!Chosen
    <3>2. ASSUME NEW r \in records, r.id \in stored, presentation.used = r.id,
                 presentation.method = r.type, text = r.text,
                 IF r.type = "api-key" THEN f = r.field
                 ELSE /\ Resources!Renders(text.form)
                      /\ f \in {Resources!FieldOf(c) : c \in Resources!Carriers}
          PROVE  Resources!Chosen(f, text)' /\ text \in {s.text : s \in records'}
      <4>1. PICK s \in records' :
                s.id = r.id /\ s.type = r.type /\ s.field = r.field /\ s.text = r.text
        OBVIOUS
      <4> QED
        BY <1>2, <3>2, <4>1 DEF Resources!Chosen
    <3> QED
      BY <2>2, <3>1, <3>2 DEF Resources!Chosen
  <2> QED
    BY <2>1, <2>2, <2>3, <2>4 DEF Resources!RequestAuthenticated
<1> QED
  BY <1>1, <1>2

\* The credential that a request is by.
LEMMA UsedStays ==
    ASSUME Resources!CredentialsDiffer, Resources!CredentialsDiffer', Resources!CredentialsProper,
           Resources!RequestAuthenticated, presentation # Nothing,
           UNCHANGED presentation, records \subseteq records'
    PROVE  presentation.used # Nothing => Resources!Used' = Resources!Used
<1>1. PICK f \in Fields, text \in {Resources!Assertion} \cup {r.text : r \in records} :
        Resources!Chosen(f, text)
  BY DEF Resources!RequestAuthenticated
<1>2. ASSUME presentation.used # Nothing
      PROVE  \E r \in records : r.id = presentation.used
  BY <1>1, <1>2 DEF Resources!Chosen
<1>3. ASSUME NEW r \in records, r.id = presentation.used
      PROVE  Resources!Used' = Resources!Used
  <2>1. Resources!Used = r
    BY <1>3, UsedIs
  <2>2. \A s \in records' : s.id = presentation'.used => s = r
    BY <1>3 DEF Resources!CredentialsDiffer
  <2>3. Resources!Used' = r
    BY <1>3, <2>2 DEF Resources!Used
  <2> QED
    BY <2>1, <2>3
<1> QED
  BY <1>2, <1>3

\* Granting a credential, which is like none before.
LEMMA GrantIssues ==
    ASSUME Resources!ResourceInvariant, NEW c \in Issuable, Resources!Grant(c)
    PROVE  Resources!ResourceInvariant'
<1> DEFINE id == Resources!Cardinality(records)
           new == [id |-> id, agent |-> c.agent, type |-> c.type, field |-> c.field,
                   text |-> c.text, revoked |-> FALSE, expired |-> FALSE]
<1>1. /\ Resources!ValidGrant(c) /\ Resources!CanSave(c)
      /\ records' = records \cup {new}
      /\ stored' = IF c.agent = "me" THEN stored \cup {id} ELSE stored
      /\ UNCHANGED <<service, known, enrolled, presentation>>
  BY DEF Resources!Grant
<1>2. /\ Resources!CredentialsDiffer /\ Resources!CredentialsProper
      /\ Resources!RequestAuthenticated /\ Resources!PresentationsUnderstood
      /\ {service, known} \subseteq {s \in Services : Resources!Configurable(s)}
  BY DEF Resources!ResourceInvariant
<1>3. /\ new.id = id /\ new.agent = c.agent /\ new.type = c.type /\ new.field = c.field
      /\ new.text = c.text
      /\ DOMAIN new = {"id", "agent", "type", "field", "text", "revoked", "expired"}
  OBVIOUS
<1>4. /\ IsFiniteSet(records) /\ id = Cardinality(records) /\ id \in Nat
      /\ \A r \in records : r.id \in 0..(id - 1)
      /\ stored \subseteq 0..(id - 1)
  BY <1>2, NextId
<1> HIDE DEF id, new
<1>5. \A r \in records : r.id # new.id
  BY <1>3, <1>4
<1>6. Resources!CredentialsDiffer'
  <2>1. /\ IsFiniteSet(records') /\ Cardinality(records') = id + 1
    BY <1>1, <1>4, <1>5, FS_AddElement
  <2>2. Resources!IsFiniteSet(records') /\ Resources!Cardinality(records') = id + 1
    BY <2>1, ResourceFinite, ResourceCardinality
  <2>3. {r.id : r \in records'} \cup stored' \subseteq 0..((id + 1) - 1)
    <3>1. 0..(id - 1) \subseteq 0..((id + 1) - 1) /\ id \in 0..((id + 1) - 1)
      BY <1>4
    <3>2. \A r \in records' : r.id \in 0..((id + 1) - 1)
      BY <1>1, <1>3, <1>4, <3>1
    <3>3. stored' \subseteq 0..((id + 1) - 1)
      BY <1>1, <1>4, <3>1
    <3> QED
      BY <3>2, <3>3
  <2>4. \A r, s \in records' : r.id = s.id => r = s
    BY <1>1, <1>2, <1>5 DEF Resources!CredentialsDiffer
  <2>5. \A r \in records : ~(/\ r.type = new.type /\ r.field = new.field
                             /\ Resources!SecretOf(r.type, r.text) = Resources!SecretOf(new.type, new.text))
    BY <1>1, <1>3 DEF Resources!CanSave
  <2>6. \A r, s \in records' :
            /\ r.type = s.type /\ r.field = s.field
            /\ Resources!SecretOf(r.type, r.text) = Resources!SecretOf(s.type, s.text)
            => r = s
    BY <1>1, <1>2, <2>5 DEF Resources!CredentialsDiffer
  <2> QED
    BY <2>2, <2>3, <2>4, <2>6 DEF Resources!CredentialsDiffer
<1>7. Resources!CredentialsProper'
  <2>1. ASSUME NEW r \in records
        PROVE  /\ DOMAIN r = {"id", "agent", "type", "field", "text", "revoked", "expired"}
               /\ r.type \in Resources!Types /\ r.field \in Fields
               /\ Resources!ValidGrant(r) /\ Resources!Placed(r)
               /\ r.id \in stored' => r.agent = "me"
    <3>1. r.id # id
      BY <1>3, <1>5
    <3> QED
      BY <1>1, <1>2, <3>1 DEF Resources!CredentialsProper
  <2>2. /\ DOMAIN new = {"id", "agent", "type", "field", "text", "revoked", "expired"}
        /\ new.type \in Resources!Types /\ new.field \in Fields
        /\ Resources!ValidGrant(new) /\ Resources!Placed(new)
    BY <1>1, <1>3, IssuableHaveType DEF Resources!ValidGrant, Resources!Placed
  <2>3. new.id \in stored' => new.agent = "me"
    BY <1>1, <1>3, <1>4
  <2>4. ASSUME NEW r \in records'
        PROVE  /\ DOMAIN r = {"id", "agent", "type", "field", "text", "revoked", "expired"}
               /\ r.type \in Resources!Types /\ r.field \in Fields
               /\ Resources!ValidGrant(r) /\ Resources!Placed(r)
               /\ r.id \in stored' => r.agent = "me"
    <3>1. CASE r \in records
      BY <2>1, <3>1
    <3>2. CASE r = new
      BY <2>2, <2>3, <3>2
    <3> QED
      BY <1>1, <3>1, <3>2
  <2> QED
    BY <2>4 DEF Resources!CredentialsProper, Resources!ValidGrant, Resources!Placed
<1>8. Resources!RequestAuthenticated'
  <2>1. stored \subseteq stored' /\ records \subseteq records'
    BY <1>1
  <2>2. presentation # Nothing => presentation.step \in {"made", "sent", "served"}
    BY <1>2 DEF Resources!RequestAuthenticated
  <2> QED
    BY <1>1, <1>2, <2>1, <2>2, StaysAuthenticated
<1>9. Resources!PresentationsUnderstood'
  <2> SUFFICES ASSUME presentation # Nothing, presentation.step = "served"
               PROVE  Resources!PresentationsUnderstood'
    BY <1>1 DEF Resources!PresentationsUnderstood
  <2>1. presentation.used # Nothing => Resources!Used' = Resources!Used
    BY <1>1, <1>2, <1>6, UsedStays
  <2>2. Resources!Outdated => Resources!Outdated'
    BY <1>1, <2>1 DEF Resources!Outdated
  <2>3. Resources!Unpresentable => Resources!Unpresentable'
    BY <1>1, <2>1 DEF Resources!Unpresentable
  <2>4. Resources!KeyFields(records) \subseteq Resources!KeyFields(records')
    BY <1>1 DEF Resources!KeyFields
  <2>5. Resources!Competes(presentation.extra) => Resources!Competes(presentation.extra)'
    BY <1>1, <2>4 DEF Resources!Competes
  <2>6. Resources!AsMeant' = Resources!AsMeant
    BY <1>1 DEF Resources!AsMeant
  <2> QED
    BY <1>1, <1>2, <2>2, <2>3, <2>5, <2>6 DEF Resources!PresentationsUnderstood
<1> QED
  BY <1>1, <1>2, <1>6, <1>7, <1>8, <1>9 DEF Resources!ResourceInvariant, Resources!Configurable

\* The first of some places.
LEMMA FirstPlace ==
    ASSUME NEW S, S \subseteq Nat, S # {}
    PROVE  (CHOOSE i \in S : \A j \in S : i <= j) \in S
<1>1. PICK i \in S : \A j \in S : ~(<<j, i>> \in OpToRel(<, Nat))
  BY NatLessThanWellFounded, WFMin
<1>2. ASSUME NEW j \in S, j < i PROVE FALSE
  <2>1. <<j, i>> \in Nat \X Nat /\ <<j, i>>[1] = j /\ <<j, i>>[2] = i
    OBVIOUS
  <2> QED
    BY <1>1, <1>2, <2>1 DEF OpToRel
<1>3. \A j \in S : i <= j
  BY <1>2
<1> QED
  BY <1>3

\* A credential that is found is one the Agent has stored, of a method of the Service it knows.
LEMMA ChoiceIs ==
    ASSUME known \in Services, NEW o, NEW r \in Resources!Choices(o)
    PROVE  r \in records /\ r.id \in stored /\ r.type \in Resources!Methods(known)
<1> DEFINE of(i) == {s \in Resources!Wallet :
                        /\ s.type = known.methods[i]
                        /\ o.type \in {Nothing, s.type}
                        /\ o.id \in {Nothing, s.id}}
           having == {i \in Resources!Candidates(o) : of(i) # {}}
           first == CHOOSE i \in having : \A j \in having : i <= j
<1>1. Resources!Choices(o) = IF o.only \/ having = {} THEN {} ELSE of(first)
  BY DEF Resources!Choices
<1>2. having \subseteq DOMAIN known.methods
  BY DEF Resources!Candidates
<1>3. DOMAIN known.methods \subseteq Nat
  BY ServicesHaveType
<1> HIDE DEF having
<1>4. having # {} => first \in having
  BY <1>2, <1>3, FirstPlace
<1> HIDE DEF first
<1>5. r \in of(first) /\ first \in DOMAIN known.methods
  BY <1>1, <1>2, <1>4
<1> QED
  BY <1>5 DEF Resources!Methods, Resources!Wallet

\* A request is made of what the Agent has chosen.
LEMMA PresentationMade ==
    ASSUME Resources!ResourceInvariant, NEW o,
           Resources!AuthenticateWithCredential(o) \/ Resources!AuthenticateWithAssertion(o)
    PROVE  Resources!ResourceInvariant'
<1>1. /\ Resources!CredentialsDiffer /\ Resources!CredentialsProper
      /\ {service, known} \subseteq {s \in Services : Resources!Configurable(s)}
  BY DEF Resources!ResourceInvariant
<1>2. /\ UNCHANGED <<service, known, records, stored, enrolled>>
      /\ \E method, used, headers :
            presentation' = Resources!NewCall(method, used, headers)
  BY DEF Resources!AuthenticateWithCredential, Resources!AuthenticateWithAssertion, Resources!Begin
<1>3. \A method, used, headers :
        /\ DOMAIN Resources!NewCall(method, used, headers) =
                {"step", "method", "used", "headers", "extra", "combined", "changed", "outcome"}
        /\ Resources!NewCall(method, used, headers).step = "made"
        /\ Resources!NewCall(method, used, headers).extra = Nothing
        /\ Resources!NewCall(method, used, headers).method = method
        /\ Resources!NewCall(method, used, headers).used = used
        /\ Resources!NewCall(method, used, headers).headers = headers
  BY DEF Resources!NewCall
<1>4. /\ presentation'.step = "made" /\ presentation'.extra = Nothing
      /\ DOMAIN presentation' =
            {"step", "method", "used", "headers", "extra", "combined", "changed", "outcome"}
  BY <1>2, <1>3
<1>5. ASSUME Resources!AuthenticateWithCredential(o) PROVE Resources!RequestAuthenticated'
  <2>1. PICK r \in Resources!Choices(o) :
            LET headers == Resources!Presented(r.type, r.field, r.text, o.carrier) IN
            /\ headers # Resources!NoHeaders
            /\ presentation' = Resources!NewCall(r.type, r.id, headers)
    BY <1>5 DEF Resources!AuthenticateWithCredential, Resources!Begin
  <2>2. r \in records /\ r.id \in stored /\ r.type \in Resources!Methods(known)
    BY <1>1, ChoiceIs
  <2>3. r.field \in Fields
    BY <1>1, <2>2 DEF Resources!CredentialsProper
  <2>4. /\ presentation'.method = r.type /\ presentation'.used = r.id
        /\ presentation'.headers = Resources!Presented(r.type, r.field, r.text, o.carrier)
        /\ presentation'.headers # Resources!NoHeaders
    BY <1>3, <2>1
  <2>5. Resources!FieldOf(o.carrier) \in {Resources!FieldOf(c) : c \in Resources!Carriers} \cap Fields
    BY CarrierFields, LinesRead DEF Resources!FieldOf
  <2>6. \E f \in Fields :
            /\ presentation'.headers = Resources!OneHeader(f, r.text)
            /\ IF r.type = "api-key" THEN f = r.field
               ELSE /\ Resources!Renders(r.text.form)
                    /\ f \in {Resources!FieldOf(c) : c \in Resources!Carriers}
    BY <2>3, <2>4, <2>5 DEF Resources!Presented
  <2>7. PICK f \in Fields :
            /\ presentation'.headers = Resources!OneHeader(f, r.text)
            /\ IF r.type = "api-key" THEN f = r.field
               ELSE /\ Resources!Renders(r.text.form)
                    /\ f \in {Resources!FieldOf(c) : c \in Resources!Carriers}
    BY <2>6
  <2>8. Resources!Chosen(f, r.text)'
    BY <1>2, <2>2, <2>4, <2>7 DEF Resources!Chosen
  <2>9. presentation'.headers = Resources!Arriving(f, r.text)'
    BY <1>4, <2>7 DEF Resources!Arriving
  <2>10. presentation'.extra \in Extras \cup {Nothing}
    BY <1>4
  <2>11. presentation'.method \in Resources!Methods(known)'
    BY <1>2, <2>2, <2>4
  <2>12. r.text \in {s.text : s \in records'}
    BY <1>2, <2>2
  <2> QED
    BY <1>4, <2>7, <2>8, <2>9, <2>10, <2>11, <2>12 DEF Resources!RequestAuthenticated
<1>6. ASSUME Resources!AuthenticateWithAssertion(o) PROVE Resources!RequestAuthenticated'
  <2> DEFINE f == Resources!FieldOf(o.carrier)
             headers == Resources!Presented("aep-jwt", Nothing, Resources!Assertion, o.carrier)
  <2>1. /\ "aep-jwt" \in Resources!Methods(known)
        /\ presentation' = Resources!NewCall("aep-jwt", Nothing, headers)
    BY <1>6 DEF Resources!AuthenticateWithAssertion, Resources!Begin
  <2>2. headers = Resources!OneHeader(f, Resources!Assertion)
    BY DEF Resources!Presented, Resources!Renders, Resources!IsCredentialToken, Resources!Assertion,
           Resources!Text
  <2>3. f \in {Resources!FieldOf(c) : c \in Resources!Carriers} \cap Fields
    BY CarrierFields, LinesRead DEF Resources!FieldOf
  <2> HIDE DEF f, headers
  <2>4. /\ presentation'.method = "aep-jwt" /\ presentation'.used = Nothing
        /\ presentation'.headers = Resources!OneHeader(f, Resources!Assertion)
    BY <1>3, <2>1, <2>2
  <2>5. Resources!Chosen(f, Resources!Assertion)'
    BY <2>3, <2>4 DEF Resources!Chosen
  <2>6. presentation'.headers = Resources!Arriving(f, Resources!Assertion)'
    BY <1>4, <2>4 DEF Resources!Arriving
  <2>7. presentation'.method \in Resources!Methods(known)'
    BY <1>2, <2>1, <2>4
  <2> QED
    BY <1>4, <2>3, <2>5, <2>6, <2>7 DEF Resources!RequestAuthenticated
<1>7. Resources!RequestAuthenticated'
  BY <1>5, <1>6
<1>8. Resources!PresentationsUnderstood'
  BY <1>4 DEF Resources!PresentationsUnderstood
<1>9. Resources!CredentialsDiffer' /\ Resources!CredentialsProper'
  BY <1>1, <1>2 DEF Resources!CredentialsDiffer, Resources!CredentialsProper
<1> QED
  BY <1>1, <1>2, <1>7, <1>8, <1>9 DEF Resources!ResourceInvariant, Resources!Configurable

\* It is sent, with what is added to it.
LEMMA PresentationSent ==
    ASSUME Resources!ResourceInvariant, NEW extra \in Extras, NEW combined \in BOOLEAN,
           Resources!Send(extra, combined)
    PROVE  Resources!ResourceInvariant'
<1> DEFINE headers == IF extra = Nothing THEN presentation.headers
                      ELSE Resources!Appended(presentation.headers, extra.field, extra.text)
<1>1. /\ presentation # Nothing /\ presentation.step = "made"
      /\ combined => extra # Nothing
      /\ presentation' = [presentation EXCEPT
            !.step = "sent", !.extra = extra, !.combined = combined,
            !.headers = IF combined THEN Resources!Combined(headers) ELSE headers]
      /\ UNCHANGED <<service, known, records, stored, enrolled>>
  BY DEF Resources!Send
<1> HIDE DEF headers
<1>2. /\ Resources!CredentialsDiffer /\ Resources!CredentialsProper
      /\ Resources!RequestAuthenticated
      /\ {service, known} \subseteq {s \in Services : Resources!Configurable(s)}
  BY DEF Resources!ResourceInvariant
<1>3. PICK f \in Fields, text \in {Resources!Assertion} \cup {r.text : r \in records} :
        Resources!Chosen(f, text) /\ presentation.headers = Resources!Arriving(f, text)
  BY <1>1, <1>2 DEF Resources!RequestAuthenticated
<1>4. presentation.headers = Resources!OneHeader(f, text)
  BY <1>1, <1>2, <1>3 DEF Resources!RequestAuthenticated, Resources!Arriving
<1>5. /\ presentation'.step = "sent" /\ presentation'.extra = extra
      /\ presentation'.combined = combined /\ presentation'.method = presentation.method
      /\ presentation'.used = presentation.used
      /\ presentation'.headers = IF combined THEN Resources!Combined(headers) ELSE headers
      /\ DOMAIN presentation' = DOMAIN presentation
      /\ DOMAIN presentation =
            {"step", "method", "used", "headers", "extra", "combined", "changed", "outcome"}
  BY <1>1, <1>2 DEF Resources!RequestAuthenticated
<1>6. presentation'.headers = Resources!Arriving(f, text)'
  BY <1>1, <1>4, <1>5 DEF Resources!Arriving, headers
<1>7. Resources!Chosen(f, text)'
  <2>1. Resources!Chosen(f, text)' = Resources!Chosen(f, text)
    BY <1>1, <1>5 DEF Resources!Chosen
  <2> QED
    BY <1>3, <2>1
<1>8. presentation'.method \in Resources!Methods(known)'
  BY <1>1, <1>2, <1>5 DEF Resources!RequestAuthenticated
<1>9. Resources!RequestAuthenticated'
  <2>1. text \in {Resources!Assertion} \cup {r.text : r \in records'}
    BY <1>1, <1>3
  <2> QED
    BY <1>5, <1>6, <1>7, <1>8, <2>1 DEF Resources!RequestAuthenticated
<1>10. Resources!PresentationsUnderstood'
  BY <1>5 DEF Resources!PresentationsUnderstood
<1>11. Resources!CredentialsDiffer' /\ Resources!CredentialsProper'
  BY <1>1, <1>2 DEF Resources!CredentialsDiffer, Resources!CredentialsProper
<1> QED
  BY <1>1, <1>2, <1>9, <1>10, <1>11 DEF Resources!ResourceInvariant, Resources!Configurable

\* The layer takes it.
LEMMA PresentationServed ==
    ASSUME Resources!ResourceInvariant, Resources!Serve
    PROVE  Resources!ResourceInvariant'
<1>1. PICK outcome \in Resources!Authenticate :
        presentation' = [presentation EXCEPT !.step = "served", !.outcome = outcome]
  BY DEF Resources!Serve
<1>2. /\ presentation # Nothing
      /\ UNCHANGED <<service, known, records, stored, enrolled>>
  BY DEF Resources!Serve
<1>3. /\ Resources!CredentialsDiffer /\ Resources!CredentialsProper
      /\ Resources!RequestAuthenticated
      /\ {service, known} \subseteq {s \in Services : Resources!Configurable(s)}
  BY DEF Resources!ResourceInvariant
<1>4. /\ presentation'.step = "served" /\ presentation'.outcome = outcome
      /\ presentation'.extra = presentation.extra /\ presentation'.changed = presentation.changed
      /\ presentation'.combined = presentation.combined
      /\ presentation'.method = presentation.method
      /\ presentation'.used = presentation.used
      /\ presentation'.headers = presentation.headers
      /\ DOMAIN presentation' = DOMAIN presentation
  BY <1>1, <1>2, <1>3 DEF Resources!RequestAuthenticated
<1>5. Resources!RequestAuthenticated'
  <2>1. presentation.step \in {"made", "sent", "served"}
    BY <1>2, <1>3 DEF Resources!RequestAuthenticated
  <2>2. \A r \in records : \E s \in records' :
            s.id = r.id /\ s.type = r.type /\ s.field = r.field /\ s.text = r.text
    BY <1>2
  <2> QED
    BY <1>2, <1>3, <1>4, <2>1, <2>2, StaysAuthenticated
<1>6. Resources!PresentationsUnderstood'
  <2>1. Resources!Used' = Resources!Used
    BY <1>2, <1>4 DEF Resources!Used
  <2>2. Resources!Outdated' = Resources!Outdated
    BY <1>2, <1>4, <2>1 DEF Resources!Outdated
  <2>3. Resources!Unpresentable' = Resources!Unpresentable
    BY <1>2, <1>4, <2>1 DEF Resources!Unpresentable
  <2>4. Resources!Competes(presentation.extra)' = Resources!Competes(presentation.extra)
    BY <1>2, <1>4 DEF Resources!Competes
  <2>5. Resources!AsMeant' <=> MeantBy(outcome)
    BY <1>4 DEF Resources!AsMeant, MeantBy
  <2>6. \/ MeantBy(outcome) \/ Resources!Outdated \/ Resources!Unpresentable
        \/ presentation.extra # Nothing /\ Resources!Competes(presentation.extra)
        \/ presentation.method = "aep-jwt" /\ service.origin # "service"
    BY <1>2, ServedAsMeant
  <2>7. outcome.code = Nothing /\ ~MeantBy(outcome) =>
            presentation.extra # Nothing /\ "api-key" \in {presentation.method, outcome.method}
    BY <1>2, <1>3, NeverAnother
  <2> QED
    BY <1>2, <1>4, <2>2, <2>3, <2>4, <2>5, <2>6, <2>7 DEF Resources!PresentationsUnderstood
<1>7. Resources!CredentialsDiffer' /\ Resources!CredentialsProper'
  BY <1>2, <1>3 DEF Resources!CredentialsDiffer, Resources!CredentialsProper
<1> QED
  BY <1>2, <1>3, <1>5, <1>6, <1>7 DEF Resources!ResourceInvariant, Resources!Configurable

\* What happens meanwhile happens before the layer takes the request.
LEMMA EventSpares ==
    ASSUME Resources!RequestAuthenticated, Resources!Event, UNCHANGED known,
           \A r \in records : \E s \in records' :
                s.id = r.id /\ s.type = r.type /\ s.field = r.field /\ s.text = r.text
    PROVE  Resources!RequestAuthenticated' /\ Resources!PresentationsUnderstood'
<1>1. /\ presentation' = IF presentation = Nothing THEN Nothing
                         ELSE [presentation EXCEPT !.changed = TRUE]
      /\ presentation # Nothing => presentation.step # "served"
      /\ UNCHANGED stored
  BY DEF Resources!Event
<1>2. CASE presentation = Nothing
  BY <1>1, <1>2 DEF Resources!RequestAuthenticated, Resources!PresentationsUnderstood
<1>3. CASE presentation # Nothing
  <2>1. /\ DOMAIN presentation =
            {"step", "method", "used", "headers", "extra", "combined", "changed", "outcome"}
        /\ presentation.step \in {"made", "sent"}
    BY <1>1, <1>3 DEF Resources!RequestAuthenticated
  <2>2. /\ DOMAIN presentation' = DOMAIN presentation
        /\ presentation'.step = presentation.step
        /\ presentation'.extra = presentation.extra
        /\ presentation'.combined = presentation.combined
        /\ presentation'.method = presentation.method
        /\ presentation'.used = presentation.used
        /\ presentation'.headers = presentation.headers
    BY <1>1, <1>3, <2>1
  <2>3. Resources!RequestAuthenticated'
    BY <1>1, <1>3, <2>1, <2>2, StaysAuthenticated
  <2>4. Resources!PresentationsUnderstood'
    BY <2>1, <2>2 DEF Resources!PresentationsUnderstood
  <2> QED
    BY <2>3, <2>4
<1> QED
  BY <1>2, <1>3

\* A credential is revoked or expires.
LEMMA CredentialLost ==
    ASSUME Resources!ResourceInvariant, NEW r \in records, Resources!Lose(r)
    PROVE  Resources!ResourceInvariant'
<1>1. /\ Resources!CredentialsDiffer /\ Resources!CredentialsProper
      /\ Resources!RequestAuthenticated
      /\ {service, known} \subseteq {s \in Services : Resources!Configurable(s)}
      /\ Resources!Event /\ UNCHANGED <<service, known, enrolled, stored>>
  BY DEF Resources!ResourceInvariant, Resources!Lose, Resources!Event
<1>2. DOMAIN r = {"id", "agent", "type", "field", "text", "revoked", "expired"}
  BY <1>1 DEF Resources!CredentialsProper
<1>3. PICK new \in {[r EXCEPT !.revoked = TRUE], [r EXCEPT !.expired = TRUE]} :
            records' = (records \ {r}) \cup {new}
  BY DEF Resources!Lose
<1>4. /\ new.id = r.id /\ new.agent = r.agent /\ new.type = r.type /\ new.field = r.field
      /\ new.text = r.text /\ DOMAIN new = DOMAIN r
  BY <1>2, <1>3
<1>5. Resources!CredentialsDiffer'
  <2>1. \A s \in records \ {r} : s.id # new.id
    BY <1>1, <1>4 DEF Resources!CredentialsDiffer
  <2>2. IsFiniteSet(records') /\ Cardinality(records') = Cardinality(records)
    <3>1. /\ IsFiniteSet(records) /\ Cardinality(records) \in Nat
      BY <1>1, NextId
    <3>2. IsFiniteSet(records \ {r}) /\ Cardinality(records \ {r}) = Cardinality(records) - 1
      BY <3>1, FS_RemoveElement
    <3>3. new \notin records \ {r}
      BY <2>1
    <3>4. /\ IsFiniteSet((records \ {r}) \cup {new})
          /\ Cardinality((records \ {r}) \cup {new}) = Cardinality(records \ {r}) + 1
      BY <3>2, <3>3, FS_AddElement
    <3> QED
      BY <1>3, <3>1, <3>2, <3>4
  <2>3. /\ Resources!IsFiniteSet(records')
        /\ Resources!Cardinality(records') = Resources!Cardinality(records)
    BY <2>2, ResourceFinite, ResourceCardinality
  <2>4. {s.id : s \in records'} \cup stored' \subseteq 0..(Resources!Cardinality(records) - 1)
    BY <1>1, <1>3, <1>4 DEF Resources!CredentialsDiffer
  <2>5. \A s, t \in records' : s.id = t.id => s = t
    BY <1>1, <1>3, <2>1 DEF Resources!CredentialsDiffer
  <2>6. \A s, t \in records' :
            /\ s.type = t.type /\ s.field = t.field
            /\ Resources!SecretOf(s.type, s.text) = Resources!SecretOf(t.type, t.text)
            => s = t
    <3>1. \A s \in records \ {r} :
            ~(/\ s.type = new.type /\ s.field = new.field
              /\ Resources!SecretOf(s.type, s.text) = Resources!SecretOf(new.type, new.text))
      BY <1>1, <1>4 DEF Resources!CredentialsDiffer
    <3> QED
      BY <1>1, <1>3, <3>1 DEF Resources!CredentialsDiffer
  <2> QED
    BY <2>3, <2>4, <2>5, <2>6 DEF Resources!CredentialsDiffer
<1>6. Resources!CredentialsProper'
  BY <1>1, <1>3, <1>4 DEF Resources!CredentialsProper, Resources!ValidGrant, Resources!Placed
<1>7. \A s \in records : \E t \in records' :
            t.id = s.id /\ t.type = s.type /\ t.field = s.field /\ t.text = s.text
  <2>1. new \in records'
    BY <1>3
  <2>2. ASSUME NEW s \in records, s # r PROVE s \in records'
    BY <1>3, <2>2
  <2> QED
    BY <1>4, <2>1, <2>2
<1>8. Resources!RequestAuthenticated' /\ Resources!PresentationsUnderstood'
  BY <1>1, <1>7, EventSpares
<1> QED
  BY <1>1, <1>5, <1>6, <1>8 DEF Resources!ResourceInvariant, Resources!Configurable

\* The Service is configured anew or the enrollment changes; the Agent inspects the Service
\* again or is done with its request; or nothing happens.
LEMMA ResourceRests ==
    ASSUME Resources!ResourceInvariant,
           \/ Resources!Reconfigure \/ Resources!SetStatus
           \/ Resources!Reinspect \/ Resources!Return \/ UNCHANGED Resources!vars
    PROVE  Resources!ResourceInvariant'
<1>1. /\ Resources!CredentialsDiffer /\ Resources!CredentialsProper
      /\ Resources!RequestAuthenticated /\ Resources!PresentationsUnderstood
      /\ {service, known} \subseteq {s \in Services : Resources!Configurable(s)}
  BY DEF Resources!ResourceInvariant
<1>2. UNCHANGED <<records, stored>>
  BY DEF Resources!Reconfigure, Resources!SetStatus, Resources!Reinspect, Resources!Return,
         Resources!Event, Resources!vars
<1>3. Resources!CredentialsDiffer' /\ Resources!CredentialsProper'
  BY <1>1, <1>2 DEF Resources!CredentialsDiffer, Resources!CredentialsProper
<1>4. {service, known}' \subseteq {s \in Services : Resources!Configurable(s)}
  BY <1>1 DEF Resources!Reconfigure, Resources!SetStatus, Resources!Reinspect, Resources!Return,
              Resources!vars
<1>5. CASE Resources!Reconfigure \/ Resources!SetStatus
  <2>1. Resources!Event /\ UNCHANGED known
    BY <1>5 DEF Resources!Reconfigure, Resources!SetStatus
  <2>2. \A r \in records : \E s \in records' :
            s.id = r.id /\ s.type = r.type /\ s.field = r.field /\ s.text = r.text
    BY <1>2
  <2>3. Resources!RequestAuthenticated' /\ Resources!PresentationsUnderstood'
    BY <1>1, <2>1, <2>2, EventSpares
  <2> QED
    BY <1>3, <1>4, <2>3 DEF Resources!ResourceInvariant, Resources!Configurable
<1>6. CASE Resources!Reinspect \/ Resources!Return
  <2>1. presentation' = Nothing
    BY <1>6 DEF Resources!Reinspect, Resources!Return
  <2>2. Resources!RequestAuthenticated' /\ Resources!PresentationsUnderstood'
    BY <2>1 DEF Resources!RequestAuthenticated, Resources!PresentationsUnderstood
  <2> QED
    BY <1>3, <1>4, <2>2 DEF Resources!ResourceInvariant, Resources!Configurable
<1>7. CASE UNCHANGED Resources!vars
  <2>1. UNCHANGED <<service, known, records, stored, enrolled, presentation>>
    BY <1>7 DEF Resources!vars
  <2>2. Resources!RequestAuthenticated'
    <3>1. presentation # Nothing => presentation.step \in {"made", "sent", "served"}
      BY <1>1 DEF Resources!RequestAuthenticated
    <3> QED
      BY <1>1, <2>1, <3>1, StaysAuthenticated
  <2>3. Resources!PresentationsUnderstood'
    BY <1>1, <2>1
    DEF Resources!PresentationsUnderstood, Resources!AsMeant, Resources!Outdated,
        Resources!Unpresentable, Resources!Competes, Resources!Used
  <2> QED
    BY <1>3, <1>4, <2>2, <2>3 DEF Resources!ResourceInvariant, Resources!Configurable
<1> QED
  BY <1>5, <1>6, <1>7

\* Every step keeps the invariant.
LEMMA ResourceSteps ==
    ASSUME Resources!ResourceInvariant, [Resources!Next]_Resources!vars
    PROVE  Resources!ResourceInvariant'
BY GrantIssues, PresentationMade, PresentationSent, PresentationServed, CredentialLost, ResourceRests
DEF Resources!Next

\* Whatever a Service is configured with, issuers come up with and is added to a request,
\* the Service takes an Agent's request for what it is, but for the exceptions that
\* PresentationsUnderstood names.
THEOREM RequestsAreUnderstood == Resources!Spec => []PresentationsUnderstood
<1>1. Resources!Init => Resources!ResourceInvariant
  <2> SUFFICES ASSUME Resources!Init PROVE Resources!ResourceInvariant
    OBVIOUS
  <2>1. /\ service \in Services /\ Resources!Configurable(service) /\ known = service
        /\ records = {} /\ stored = {} /\ presentation = Nothing
    BY DEF Resources!Init
  <2>2. Resources!CredentialsDiffer
    BY <2>1, ResourceFinite, FS_EmptySet DEF Resources!CredentialsDiffer
  <2>3. /\ Resources!CredentialsProper /\ Resources!RequestAuthenticated
        /\ Resources!PresentationsUnderstood
    BY <2>1 DEF Resources!CredentialsProper, Resources!RequestAuthenticated,
                Resources!PresentationsUnderstood
  <2> QED
    BY <2>1, <2>2, <2>3 DEF Resources!ResourceInvariant
<1>2. Resources!ResourceInvariant /\ [Resources!Next]_Resources!vars => Resources!ResourceInvariant'
  BY ResourceSteps
<1>3. Resources!ResourceInvariant => PresentationsUnderstood
  BY DEF Resources!ResourceInvariant, PresentationsUnderstood
<1> QED
  BY <1>1, <1>2, <1>3, PTL DEF Resources!Spec

=============================================================================
