-------------------------- MODULE CommandExchange --------------------------
(***************************************************************************)
(* Enroll, Status and Grant from end to end: what an Agent sends           *)
(* (crates/aep-agent/src/commands.rs), what the Service decides and        *)
(* answers (crates/aep-service/src/service.rs), and what the Agent makes   *)
(* of the answer.                                                          *)
(*                                                                         *)
(* Between two commands the application edits the enrollment, and the      *)
(* Service is restarted with another configuration, while the Agent still  *)
(* has the inspect document it cached and the idempotency store what it    *)
(* answered.  Commands of one Agent, one at a time: Enrollment and         *)
(* IdempotencyStore have those that overlap.                               *)
(***************************************************************************)
EXTENDS Protocol

CONSTANTS
    Documents,      \* document ids
    Configurations, \* what the Service is given: [claims, documents, extension], all required
    Offers,         \* the sets of claims an Agent may send
    Pendings,       \* [owner, requirements, verification] a policy may put in a record
    Keys,           \* idempotency keys the caller may use again; None is one of its own
    MaxCalls,       \* bound of the calls
    MaxEdits        \* bound of what happens between them

VARIABLES
    config,     \* the Service's configuration
    record,     \* its enrollment record of the Agent, or None
    memo,       \* its idempotency store: key -> [call, answer, served] or None
    document,   \* [extension] of the inspect document the Agent has, or None
    call,       \* the command under way, or None
    answer,     \* what the Service has answered, or None
    heard,      \* what the Agent has made of it, or None
    calls,      \* how many have been made
    edits,      \* how often anything has happened between them
    served,     \* ghost: [claims, extension, pending, met, anew] of when the answer was given
    told,       \* ghost: [claims, documents] of the last requirements the Agent was told, or None
    met         \* ghost: whether an Enroll has met them since

serviceVars == <<config, record, memo>>
boundVars == <<calls, edits>>
exchangeVars == <<call, answer, heard, served>>
goalVars == <<told, met>>
vars == <<serviceVars, document, boundVars, exchangeVars, goalVars>>

\* suspended stands for terminated and unavailable too
Statuses == {"pending", "active", "rejected", "suspended"}

\* build_configuration
Accepted == {c \in Configurations : ValidInspectDocument(c)}

Init ==
    /\ config \in Accepted
    /\ record = None
    /\ memo = [k \in Keys |-> None]
    /\ document = None
    /\ call = None /\ answer = None /\ heard = None
    /\ calls = 0 /\ edits = 0
    /\ served = None /\ told = None /\ met = FALSE

----------------------------------------------------------------------------
\* The Agent

\* a grant goes on once the status is active
Proceeds == call # None /\ call.grant /\ heard = "answer" /\ call.command = "status" /\ answer.status = "active"

\* between two commands, those of a grant included
AtRest == call = None \/ Proceeds

Edit ==
    /\ AtRest
    /\ edits < MaxEdits
    /\ edits' = edits + 1
    /\ UNCHANGED <<calls, exchangeVars>>

\* a command needs an inspection; the cached one may be of another configuration
Inspect ==
    /\ AtRest
    /\ document # [extension |-> config.extension]
    /\ document' = [extension |-> config.extension]
    /\ UNCHANGED <<serviceVars, boundVars, exchangeVars, goalVars>>

Send(c) ==
    /\ document # None
    /\ call = None
    /\ calls < MaxCalls
    /\ c.command = "enroll" => ValidEnrollRequest(c)
    /\ call' = c
    /\ calls' = calls + 1
    /\ UNCHANGED <<serviceVars, document, edits, answer, heard, served, goalVars>>

\* documents are declared only to a Service that advertises the extension
Enroll ==
    \E c \in Offers, a \in {None} \cup {<<>>} \cup {<<d>> : d \in Documents}, k \in Keys \cup {None} :
        /\ a # None => document # None /\ document.extension
        /\ Send([command |-> "enroll", claims |-> c, acks |-> a, key |-> k, grant |-> FALSE])

Status == Send([command |-> "status", key |-> None, grant |-> FALSE])

\* a grant asks for the status first
Grant == \E k \in Keys \cup {None} : Send([command |-> "status", key |-> k, grant |-> TRUE])

----------------------------------------------------------------------------
\* The Service: what it answers

\* non_empty
Optional(words) == IF words = <<>> THEN None ELSE words

Problem(http, code) ==
    [http |-> http, code |-> code, owner |-> FALSE, requirements |-> None,
     verification |-> None, documents |-> None]

\* enroll_response: the declared ids are echoed, whatever was recorded
EnrollResponse(r, declared) ==
    [http |-> 200, status |-> r.status, acks |-> IF r.status = "rejected" THEN None ELSE declared,
     requirements |-> Optional(r.pending.requirements),
     verification |-> Optional(r.pending.verification)]

StatusResponse(r) ==
    [http |-> 200, status |-> r.status,
     requirements |-> Optional(r.pending.requirements),
     verification |-> Optional(r.pending.verification)]

\* those of a list that are not in a set; they keep their places
Without(words, out) == Restrict(words, {i \in DOMAIN words : words[i] \notin out})

Missing(claims) == Without(config.claims, claims)

MissingDocuments(r) ==
    IF config.documents = None THEN <<>>
    ELSE Without(config.documents, IF r = None THEN {} ELSE r.acks \ r.required)

\* Fault: the ids are named, the word that announces them is not
RequirementsUnannounced(claims, documents) ==
    [Problem(422, "requirements_unmet") EXCEPT
        !.owner = documents # <<>>,
        !.documents = Optional(documents),
        !.requirements = Optional(claims)]

\* the word that announces the documents has a place of its own: nothing goes by the order
Announced(claims) ==
    [i \in {0} \cup DOMAIN claims |-> IF i = 0 THEN ServiceDocuments ELSE claims[i]]

\* document_requirements
DocumentRequirements(claims, documents) ==
    [Problem(422, "requirements_unmet") EXCEPT
        !.owner = documents # <<>>,
        !.documents = Optional(documents),
        !.requirements = IF documents = <<>> THEN claims ELSE Announced(claims)]

\* blocked_enrollment of an Agent that is not active
Blocked(r) ==
    CASE r.status = "pending" ->
            [Problem(403, "verification_pending") EXCEPT
                !.owner = r.pending.owner,
                !.requirements = Optional(r.pending.requirements),
                !.verification = Optional(r.pending.verification)]
      [] r.status = "rejected" -> Problem(401, "not_recognized")
      [] r.status = "suspended" -> Problem(403, "identity_suspended")

\* an answer, what it leaves on record, and what the idempotency store keeps
Reply(a, r, kept) ==
    /\ answer' = a
    /\ record' = r
    /\ served' = [claims |-> config.claims, extension |-> config.extension,
                  pending |-> IF r = None THEN None ELSE r.pending, met |-> met, anew |-> TRUE]
    /\ memo' = IF kept /\ call.key # None
               THEN [memo EXCEPT ![call.key] = [call |-> call, answer |-> a, served |-> served']]
               ELSE memo

Declared == IF config.extension THEN call.acks ELSE None

Known(ids) == IF ids = None \/ config.documents = None THEN {} ELSE Range(ids) \cap Range(config.documents)

\* the requirements of the Agent's last refusal are met by this Enroll
Meets == told # None /\ told.claims \subseteq call.claims
            /\ (told.documents # {} => Declared # None /\ told.documents \subseteq Range(Declared))

Fresh == call # None /\ answer = None /\ (call.key # None => memo[call.key] = None)

Refuse(claims, documents) ==
    /\ claims # <<>> \/ documents # <<>>
    /\ Reply(DocumentRequirements(claims, documents), record, TRUE)
    /\ UNCHANGED met

\* execute_enroll of a new Agent: requirements first, then the policy
Create ==
    LET missing == Missing(call.claims)
        documents == IF Declared = None THEN MissingDocuments(None) ELSE <<>> IN
    /\ Fresh /\ call.command = "enroll" /\ record = None
    /\ \/ Refuse(missing, documents)
       \/ /\ missing = <<>> /\ documents = <<>>
          /\ \E status \in {"active", "pending", "rejected"}, p \in Pendings :
                LET r == [status |-> status, claims |-> call.claims,
                          acks |-> IF status = "rejected" THEN {} ELSE Known(Declared),
                          required |-> {}, pending |-> p] IN
                /\ Reply(EnrollResponse(r, Declared), r, TRUE)
                /\ met' = (met \/ (Meets /\ status # "rejected"))
    /\ UNCHANGED <<config, document, boundVars, call, heard, told>>

\* Fault: the claims of an update take the place of those on record
Replaced(r) == call.claims

\* the claims of an update, over those on record
Merged(r) == r.claims \cup call.claims

\* required_document_ids.retain(..)
StillRequiredAfter(r) == IF Declared = None THEN r.required ELSE r.required \ Range(Declared)

\* update_enrollment that the policy lets through
Update ==
    LET missing == Missing(Merged(record))
        documents == IF Declared = None THEN MissingDocuments(record) ELSE <<>> IN
    /\ Fresh /\ call.command = "enroll" /\ record # None
    /\ \/ Refuse(missing, documents)
       \/ /\ missing = <<>> /\ documents = <<>>
          /\ \E p \in Pendings \cup {record.pending} :
                LET r == [record EXCEPT !.claims = Merged(record), !.acks = @ \cup Known(Declared),
                                        !.required = StillRequiredAfter(record),
                                        !.pending = p] IN
                /\ Reply(EnrollResponse(r, Declared), r, TRUE)
                /\ met' = (met \/ Meets)
    /\ UNCHANGED <<config, document, boundVars, call, heard, told>>

\* the policy rejects the update, or leaves the record as it is
Decline ==
    /\ Fresh /\ call.command = "enroll" /\ record # None
    /\ \/ Reply(Problem(403, "enrollment_failed"), record, TRUE)
       \/ Reply(EnrollResponse(record, Declared), record, TRUE)
    /\ UNCHANGED <<config, document, boundVars, call, heard, goalVars>>

\* status
AnswerStatus ==
    /\ call # None /\ answer = None /\ call.command = "status"
    /\ Reply(IF record = None THEN Problem(401, "not_recognized") ELSE StatusResponse(record), record, FALSE)
    /\ UNCHANGED <<config, document, boundVars, call, heard, goalVars>>

\* grant: the enrollment is judged outside the idempotency store
RefuseGrant ==
    /\ call # None /\ answer = None /\ call.command = "grant"
    /\ record = None \/ record.status # "active"
    /\ Reply(IF record = None THEN Problem(401, "not_recognized") ELSE Blocked(record), record, FALSE)
    /\ UNCHANGED <<config, document, boundVars, call, heard, goalVars>>

\* the requirements and the handler inside it; a handler's answer has an id
Issue ==
    LET missing == Missing(record.claims)
        documents == MissingDocuments(record) IN
    /\ Fresh /\ call.command = "grant"
    /\ record # None /\ record.status = "active"
    /\ \/ Refuse(missing, documents)
       \/ /\ missing = <<>> /\ documents = <<>>
          /\ \E w \in BOOLEAN :
                Reply([http |-> 200, id |-> "credential", wellFormed |-> w], record, TRUE)
          /\ UNCHANGED met
    /\ UNCHANGED <<config, document, boundVars, call, heard, told>>

\* the idempotency store has an answer for the key
Replay ==
    /\ call # None /\ answer = None /\ call.key # None
    /\ memo[call.key] # None
    /\ call.command = "grant" => record # None /\ record.status = "active"
    /\ call.command # "status"
    /\ answer' = IF memo[call.key].call = call THEN memo[call.key].answer
                 ELSE Problem(409, "idempotency_conflict")
    /\ served' = [memo[call.key].served EXCEPT !.anew = FALSE]
    /\ UNCHANGED <<serviceVars, document, boundVars, call, heard, goalVars>>

----------------------------------------------------------------------------
\* What the Agent makes of it

\* the parser of a success, and for Enroll the comparison of the declared ids
Understood ==
    CASE call.command = "enroll" ->
            ValidEnrollResponse(answer) /\ (answer.status # "rejected" => answer.acks = call.acks)
      [] call.command = "status" -> ValidStatusResponse(answer)
      [] call.command = "grant"  -> ValidCredential(answer)

Requirements(p) ==
    [claims |-> Range(p.requirements) \ {ServiceDocuments},
     documents |-> IF p.documents = None THEN {} ELSE Range(p.documents)]

\* execute_command: a problem it cannot read is a bare status
Deliver ==
    /\ answer # None /\ heard = None
    /\ heard' = CASE answer.http = 200 /\ Understood -> "answer"
                  [] answer.http = 200 /\ ~Understood -> "refused"
                  [] answer.http # 200 /\ ValidProblem(answer) -> "problem"
                  [] OTHER -> "bare"
    /\ IF heard' = "problem" /\ answer.http = 422
       THEN told' = (IF served.anew THEN Requirements(answer) ELSE None) /\ met' = FALSE
       ELSE UNCHANGED goalVars
    /\ UNCHANGED <<serviceVars, document, boundVars, call, answer, served>>

\* no answer arrives
LoseAnswer ==
    /\ call # None /\ heard = None
    /\ heard' = "lost"
    /\ UNCHANGED <<serviceVars, document, boundVars, call, answer, served, goalVars>>

Proceed ==
    /\ Proceeds
    /\ call' = [call EXCEPT !.command = "grant"]
    /\ answer' = None /\ heard' = None /\ served' = None
    /\ UNCHANGED <<serviceVars, document, boundVars, goalVars>>

\* the caller has its result
Return ==
    /\ heard # None /\ ~Proceeds
    /\ call' = None /\ answer' = None /\ heard' = None /\ served' = None
    /\ UNCHANGED <<serviceVars, document, boundVars, goalVars>>

----------------------------------------------------------------------------
\* The application and the Service's operator

SetStatus ==
    /\ Edit
    /\ record # None
    /\ \E s \in Statuses \ {record.status} : record' = [record EXCEPT !.status = s]
    /\ UNCHANGED <<config, memo, document, goalVars>>

\* what the Agent was told no longer stands
RequirementsChange == told' = None /\ met' = FALSE

\* a document is to be acknowledged anew
Require ==
    /\ Edit
    /\ record # None
    /\ \E d \in Documents \ record.required : record' = [record EXCEPT !.required = @ \cup {d}]
    /\ RequirementsChange
    /\ UNCHANGED <<config, memo, document>>

\* restarted with another configuration
Reconfigure ==
    /\ Edit
    /\ config' \in Accepted \ {config}
    /\ RequirementsChange
    /\ UNCHANGED <<record, memo, document>>

\* answers are past their retention
Expire ==
    /\ Edit
    /\ memo' = [k \in Keys |-> None]
    /\ memo' # memo
    /\ UNCHANGED <<config, record, document, goalVars>>

Next ==
    \/ Inspect \/ Enroll \/ Status \/ Grant
    \/ Create \/ Update \/ Decline \/ AnswerStatus \/ RefuseGrant \/ Issue \/ Replay
    \/ Deliver \/ LoseAnswer \/ Proceed \/ Return
    \/ SetStatus \/ Require \/ Reconfigure \/ Expire

Spec == Init /\ [][Next]_vars

----------------------------------------------------------------------------
\* lists that policies and applications may put in a record
ProperLists(p) == \A words \in {p.requirements, p.verification} : words = <<>> \/ NonEmptyUnique(words)

\* The Agent reads every problem the Service answers with, and so learns what is
\* required of it (heard is not "bare"), unless the Service's required claims repeat a name or take the
\* reserved one, which no configuration check refuses, or the lists of a pending
\* record are not proper or announce documents (service.rs:843, 878, protocol.rs:300).
\* And it takes every success for one (heard is not "refused"), unless the lists of the
\* record are not proper, a custom handler's credential lacks a field of its type, or
\* the Agent declared documents after a cached inspection to a Service that had given
\* up the extension, which has then enrolled it all the same (commands.rs:72).
AnswersUnderstood ==
    /\ heard = "bare" =>
        \/ /\ answer.http = 422
           /\ ~IsInjective(served.claims) \/ ServiceDocuments \in Range(served.claims)
        \/ /\ answer.http = 403
           /\ ~ProperLists(served.pending) \/ ServiceDocuments \in Range(served.pending.requirements)
    /\ heard = "refused" =>
        CASE call.command = "grant" -> ~answer.wellFormed
          [] OTHER ->
                \/ ~ProperLists(served.pending)
                \/ call.command = "enroll" /\ call.acks # None /\ ~served.extension

\* A requirement the Agent was told, and has met by an Enroll the policy let through,
\* is not made of it again while it stands, save by the idempotency store: a grant
\* refused under a key is refused under it for the retention (service.rs:263, 458).
MetStaysMet ==
    answer # None /\ heard = None /\ served.met /\ served.anew /\ answer.http = 422 =>
        /\ Requirements(answer).claims \cap told.claims = {}
        /\ Requirements(answer).documents \cap told.documents = {}

----------------------------------------------------------------------------
(***************************************************************************)
(* The inductive invariant behind the two.                                 *)
(***************************************************************************)
Parts(words) == {Restrict(words, kept) : kept \in SUBSET DOMAIN words}

\* the lists of documents a refusal may name
Requirable == {<<>>} \cup UNION {Parts(c.documents) : c \in {c \in Accepted : c.documents # None}}

RefusedFor(a, s) ==
    \E claims \in Parts(s.claims), documents \in Requirable :
        /\ claims # <<>> \/ documents # <<>>
        /\ a = DocumentRequirements(claims, documents)

Turned(a, s) ==
    \/ a \in {Problem(401, "not_recognized"), Problem(403, "enrollment_failed"),
              Problem(403, "identity_suspended"), Problem(409, "idempotency_conflict")}
    \/ a = Blocked([status |-> "pending", pending |-> s.pending])

Succeeded(a, s, c) ==
    \/ /\ c.command = "enroll"
       /\ \E status \in Statuses :
            a = EnrollResponse([status |-> status, pending |-> s.pending],
                               IF s.extension THEN c.acks ELSE None)
    \/ /\ c.command = "status"
       /\ \E status \in Statuses :
            a = StatusResponse([status |-> status, pending |-> s.pending])
    \/ /\ c.command = "grant"
       /\ \E w \in BOOLEAN : a = [http |-> 200, id |-> "credential", wellFormed |-> w]

\* An answer is one of those there are, of what the Service had when it gave it.
Answered(a, s, c) ==
    /\ DOMAIN s = {"claims", "extension", "pending", "met", "anew"}
    /\ \E configured \in Accepted :
        s.claims = configured.claims /\ s.extension = configured.extension
    /\ RefusedFor(a, s) \/ Turned(a, s) \/ Succeeded(a, s, c)
    /\ c.command = "enroll" => OptionalIds(c.acks)

Records == [status : Statuses, claims : SUBSET UNION Offers, acks : SUBSET Documents,
            required : SUBSET Documents, pending : Pendings]

CallsValid ==
    /\ config \in Accepted
    /\ call # None =>
        /\ {"command", "key"} \subseteq DOMAIN call
        /\ call.key \in Keys \cup {None}
        /\ call.command = "enroll" =>
            /\ call.claims \in Offers
            /\ OptionalIds(call.acks)
            /\ call.acks # None => Range(call.acks) \subseteq Documents
    /\ record # None => record \in Records
    /\ memo = [k \in Keys |-> memo[k]]

AnsweredAsServed ==
    /\ answer # None => call # None /\ Answered(answer, served, call)
    /\ \A k \in Keys : memo[k] # None => Answered(memo[k].answer, memo[k].served, memo[k].call)

HeardAsAnswered ==
    /\ heard = "bare" => answer # None /\ answer.http # 200 /\ ~ValidProblem(answer)
    /\ heard = "refused" => answer # None /\ answer.http = 200 /\ ~Understood

Configured == IF config.documents = None THEN {} ELSE Range(config.documents)

\* What the Agent was told of can be declared; what it has met is on record.
GoalsStand ==
    /\ told # None => told.documents \subseteq Configured
    /\ met =>
        /\ told # None /\ record # None
        /\ told.claims \subseteq record.claims
        /\ told.documents \subseteq record.acks \ record.required
    /\ answer # None /\ heard = None /\ served.anew /\ answer.http = 422 =>
        Requirements(answer).documents \subseteq Configured

\* What commands, answers and edits preserve.
ExchangeInvariant ==
    CallsValid /\ AnsweredAsServed /\ HeardAsAnswered /\ GoalsStand /\ MetStaysMet

============
