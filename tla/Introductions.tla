--------------------------- MODULE Introductions ---------------------------
(***************************************************************************)
(* An Agent is given the name of a Service it has not met: it opens a      *)
(* session, inspects the Service, and goes by the document in what it asks *)
(* for (crates/aep-agent/src/client.rs, inspect.rs, commands.rs,           *)
(* documents.rs; crates/aep-service/src/service.rs).  Meanwhile the        *)
(* Service may be configured anew.  InspectDocuments has the documents and *)
(* OpenApi what an Agent reads in the OpenAPI document.                    *)
(*                                                                         *)
(* What calls do to each other, assertions, documents that are required    *)
(* and the freshness of the cache are modelled elsewhere: here an inspection *)
(* is reused or fetched, an assertion is accepted by the Service it is for, *)
(* and a policy accepts.  The identity provider has one identity for each  *)
(* Service DID, as the Platform does, so that an enrollment is of the DID  *)
(* it was made for.                                                        *)
(***************************************************************************)
EXTENDS InspectDocuments

CONSTANTS
    Services,       \* what a Service may be configured with, and at which origin
    Later,          \* what it may be configured with anew
    Agents,         \* what a client may be configured with, and its identity
    References,     \* the names an Agent may be given
    Requests,       \* what it may ask for, [op, ...]
    Operations,     \* what an application may look up in the OpenAPI document
    Variable,
    MaxCalls,       \* bound of its calls
    MaxEvents       \* bound of the Service's configurations

Api == INSTANCE OpenApi

VARIABLES
    service,    \* the Service's options
    agent,      \* the client's options
    reference,  \* what Client::service was given, or None
    session,    \* service_url, or None
    known,      \* the cached Inspect document, or None
    identified, \* the Service DIDs that the client has an identity for
    enrolled,   \* the claims the Service has of each that enrolled, by those DIDs
    call,       \* the call under way, or None
    calls, events

vars == <<service, agent, reference, session, known, identified, enrolled, call, calls, events>>
configuration == <<service, agent, reference, session>>

\* step: "inspect", "command" or "ended"; document: what it goes by; type: the grant type it
\* selects; of is a ghost: how the Service was configured when the call ended
NewCall(request) ==
    [request |-> request, step |-> "inspect", document |-> None, type |-> None,
     outcome |-> None, found |-> None, of |-> None]

Init ==
    /\ service \in {s \in Services : Builds(s)}
    /\ agent \in {a \in Agents : ClientAccepts(a)}
    /\ reference = None /\ session = None
    /\ known = None /\ identified = {} /\ enrolled = [d \in {} |-> {}]
    /\ call = None /\ calls = 0 /\ events = 0

----------------------------------------------------------------------------
\* Client::service
Open ==
    /\ reference = None
    /\ \E r \in References :
        /\ reference' = r
        /\ session' = Resolve(r, agent.loopback)
    /\ UNCHANGED <<service, agent, known, identified, enrolled, call, calls, events>>

Begin ==
    /\ session # None
    /\ call = None /\ calls < MaxCalls
    /\ \E q \in Requests : call' = NewCall(q)
    /\ calls' = calls + 1
    /\ UNCHANGED <<configuration, known, identified, enrolled, events>>

\* what an Agent gets of the document of a Service
Received(s) == Deserialized(Serialized(Document(s)))

At(step) == call # None /\ call.step = step
Op == call.request.op

Ended(outcome) == [call EXCEPT !.step = "ended", !.outcome = outcome, !.of = service]

Commands == {"enroll", "grant", "revoke", "status"}

GrantType(d) ==
    IF Op = "grant" THEN SelectGrantType(d, call.request.selected, call.request.preferred) ELSE None

Check(why, refused) == [why |-> why, refused |-> refused]

\* idempotency_key, blank as given or as made
Keyless == (IF call.request.key # None THEN call.request.key ELSE agent.keys) = "blank"

\* the claims an application sends: what evaluate_claim_support finds of those asked for
Sent(d) == Restrict(call.request.values, Supportable(d, DOMAIN call.request.values))

\* the identity store has one for the Service of the document d
Identified(d) == d.did \in identified

\* what an Agent refuses by itself, in this order, going by the document d:
\* command_context, with resolve_identity
Context(d) ==
    <<Check("unadvertised", Op \notin d.commands),
      Check("unidentified", Op = "grant" /\ ~Identified(d)),
      Check("identity", ~ValidIdentity(agent.identity, d))>>

\* each of the commands, and what applications ask for without one
Checks(d) ==
    LET q == call.request IN
    CASE Op = "grant" -> Context(d) \o
            <<Check("type", GrantType(d) = None),
              Check("unadvertised", "status" \notin d.commands)>>
      [] Op = "revoke" -> Context(d) \o
            <<Check("type", q.type # None /\ q.type \notin Range(d.types)),
              Check("credential", q.credential /\ q.type \notin d.perCredential),
              Check("key", Keyless)>>
      [] Op = "enroll" -> Context(d) \o
            <<Check("key", Keyless), Check("values", ~ValidClaimValues(Sent(d)))>>
      [] Op = "status" -> Context(d)
      [] Op = "openapi" ->
            <<Check("absent", d.openapi = None),
              Check("openapi", d.openapi # None
                    /\ ~ResolveOpenApi(session, d.openapi.url, agent.loopback))>>
      [] Op = "document" -> <<Check("absent", d.documents = None)>>

\* the first that does not pass, or None
Refusal(checks) ==
    LET refused == {i \in DOMAIN checks : checks[i].refused} IN
    IF refused = {} THEN None ELSE checks[CHOOSE i \in refused : \A j \in refused : i <= j].why

\* inspection_from_cache, and the call as far as the Service is not asked
GoBy(d) ==
    LET refusal == IF ~ValidDocument(d) THEN "unread"
                   ELSE IF ~Bound(d, session, agent.loopback) THEN "unbound"
                   ELSE Refusal(Checks(d))
        asks == refusal = None /\ Op \in Commands
        result == IF refusal = None THEN "ok" ELSE refusal
    IN
    /\ call' = [(IF asks THEN [call EXCEPT !.step = "command"] ELSE Ended(result)) EXCEPT
                    !.document = d,
                    !.found = IF refusal = None /\ Op = "document"
                              THEN ReadDocument(d.documents[1], call.request.reply) ELSE None,
                    !.type = IF asks THEN GrantType(d) ELSE None]
    /\ identified' = IF asks \/ refusal \in {"type", "credential", "key", "values"}
                     THEN identified \cup {d.did} ELSE identified

\* inspect, of a document that is fresh
Reuse ==
    /\ At("inspect") /\ known # None
    /\ GoBy(known)
    /\ UNCHANGED <<configuration, known, enrolled, calls, events>>

\* inspect, of the Service as it is; what is refused is not kept
Fetch ==
    LET d == Received(service) IN
    /\ At("inspect") /\ session = service.at
    /\ GoBy(d)
    /\ known' = IF ValidDocument(d) /\ Bound(d, session, agent.loopback) THEN d ELSE known
    /\ UNCHANGED <<configuration, enrolled, calls, events>>

\* with the OpenAPI document of an inspection at hand, an application looks an operation up
LookUp ==
    /\ call = None /\ calls < MaxCalls
    /\ known # None /\ known.openapi # None
    /\ ResolveOpenApi(session, known.openapi.url, agent.loopback)
    /\ \E q \in Operations :
        LET at == Api!MatchPath(q.templates, q.path, known.openapi.equivalent) IN
        call' = [NewCall(q) EXCEPT
                    !.step = "ended", !.document = known,
                    !.found = [at |-> at, security |-> IF at = 0 THEN None
                                ELSE Api!ResolveSecurity(q.root, q.security[at], q.supported)]]
    /\ calls' = calls + 1
    /\ UNCHANGED <<configuration, known, identified, enrolled, events>>

\* nobody answers, or another
Miss ==
    /\ session # service.at
    /\ At("inspect") \/ At("command")
    /\ call' = Ended("unreached")
    /\ UNCHANGED <<configuration, known, identified, enrolled, calls, events>>

----------------------------------------------------------------------------
\* The Service answers

\* an assertion for the DID it has
Asked(op) == At("command") /\ Op = op /\ session = service.at /\ call.document.did = service.did

\* or for another, which it does not accept
Misdirected ==
    /\ At("command") /\ session = service.at /\ call.document.did # service.did
    /\ call' = Ended("unauthenticated")
    /\ UNCHANGED <<configuration, known, identified, enrolled, calls, events>>

\* EnrollmentStore::find and save, by the identity that the Agent has for a DID
Recorded(d) == IF d \in DOMAIN enrolled THEN enrolled[d] ELSE None
Saved(claims) ==
    [d \in DOMAIN enrolled \cup {service.did} |-> IF d = service.did THEN claims ELSE enrolled[d]]

\* the claims it has of the Agent, whose identity is the one for its DID
Claimed == Recorded(service.did)

Required(s) == Range(s.claims.required)

\* enroll, the first time or again; whether the policy updates is its own affair
Enroll ==
    /\ Asked("enroll")
    /\ \E update \in BOOLEAN :
        LET sent == DOMAIN Sent(call.document)
            claims == IF Claimed = None THEN sent ELSE Claimed \cup sent
            size == [call.request.size EXCEPT !.members = Cardinality(sent)]
            judged == Claimed = None \/ update
        IN IF ~WithinLimits(size, service.limits)
           THEN call' = Ended("invalid") /\ UNCHANGED enrolled
           ELSE IF judged /\ ~(Required(service) \subseteq claims)
           THEN call' = Ended("requirements") /\ UNCHANGED enrolled
           ELSE /\ call' = Ended("ok")
                /\ enrolled' = IF judged THEN Saved(claims) ELSE enrolled
    /\ UNCHANGED <<configuration, known, identified, calls, events>>

\* grant, of which the Agent has asked the status before it chose a key
Grant ==
    /\ Asked("grant")
    /\ call' = Ended(IF Claimed = None THEN "unenrolled"
                     ELSE IF Keyless THEN "key"
                     ELSE IF call.type \notin Range(Types(service)) THEN "unsupported"
                     ELSE IF ~(Required(service) \subseteq Claimed) THEN "requirements" ELSE "ok")
    /\ UNCHANGED <<configuration, known, identified, enrolled, calls, events>>

\* revoke, of one type or of all
Revoke ==
    LET type == call.request.type IN
    /\ Asked("revoke")
    /\ call' = Ended(IF Claimed = None THEN "unenrolled"
                     ELSE IF type # None /\ type \notin Range(Types(service)) THEN "unsupported"
                     ELSE "ok")
    /\ UNCHANGED <<configuration, known, identified, enrolled, calls, events>>

\* status
Status ==
    /\ Asked("status")
    /\ call' = Ended(IF Claimed = None THEN "unenrolled" ELSE "ok")
    /\ UNCHANGED <<configuration, known, identified, enrolled, calls, events>>

Return ==
    /\ At("ended")
    /\ call' = None
    /\ UNCHANGED <<configuration, known, identified, enrolled, calls, events>>

\* the Service is configured anew, perhaps with another DID, and keeps its stores.
\* Before the Agent knows it, this is another initial state.
Reconfigure ==
    /\ events < MaxEvents
    /\ known # None
    /\ events' = events + 1
    /\ service' \in {s \in Later : Builds(s) /\ s # service}
    /\ UNCHANGED <<agent, reference, session, known, identified, enrolled, call, calls>>

Next ==
    \/ Open \/ Begin \/ Reuse \/ Fetch \/ Miss \/ LookUp
    \/ Misdirected \/ Enroll \/ Grant \/ Revoke \/ Status
    \/ Return \/ Reconfigure

Spec == Init /\ [][Next]_vars

----------------------------------------------------------------------------
\* the Service is where its DID says, which did:web takes, under the scheme the DID has for this Agent
Proper(s) ==
    /\ s.did.method = "web" /\ s.did.host \notin Improper /\ s.did.path # "odd"
    /\ s.did.host = s.at.host /\ s.did.port = s.at.port
    /\ s.at.scheme = IF agent.loopback /\ s.at.host \in Loopback THEN "http" ELSE "https"

\* its DID and its URL
NamesIt(r, s) ==
    /\ ~r.user
    /\ \/ r.kind = "did" /\ r.did = s.did
       \/ r.kind = "url" /\ r.url = s.at

\* why the call c could not succeed at the Service s, as far as there are reasons to accept;
\* or what its success means
Explained(c, s) ==
    LET q == c.request
        op == q.op
        types == Range(Types(s))
        wanted == IF q.selected # None THEN {q.selected} ELSE Range(q.preferred)
    IN
    CASE c.outcome = "ok" ->
            /\ op = "grant" => c.type \in types /\ (wanted = {} \/ c.type \in wanted)
            /\ op = "enroll" => Recorded(s.did) # None
            /\ op = "document" /\ c.found = "document" => q.reply.document.id = s.documents[1].id
      [] c.outcome = "type" ->
            IF op = "grant" THEN wanted # {} /\ wanted \cap types = {} ELSE q.type \notin types
      [] c.outcome = "credential" -> [type |-> q.type, handled |-> TRUE, config |-> "true"] \notin Range(s.grants)
      [] c.outcome = "unadvertised" -> op \in {"grant", "revoke"} /\ s.grants = <<>>
      [] c.outcome \in {"unidentified", "unenrolled"} -> op \in Commands \ {"enroll"} /\ Recorded(s.did) = None
      [] c.outcome = "identity" ->
            \/ "did:web" \notin Range(s.identities) \cap {agent.identity.method}
            \/ agent.identity.algorithms \cap {"EdDSA", "ES256"} = {}
      [] c.outcome = "invalid" -> \E m \in DOMAIN q.size : q.size[m] > s.limits[m]
      [] c.outcome = "requirements" ->
            LET had == IF Recorded(s.did) = None THEN {} ELSE Recorded(s.did) IN
            ~(Required(s) \subseteq IF op = "enroll" THEN had \cup DOMAIN q.values ELSE had)
      [] c.outcome = "key" -> (IF q.key = None THEN agent.keys ELSE q.key) = "blank"
      [] c.outcome = "values" -> \E n \in Patterned \cup Texts : n \in DOMAIN q.values /\ q.values[n] # "proper"
      [] c.outcome = "openapi" ->
            s.openapi.url \notin {"relative", "https"} \cup (IF agent.loopback THEN {"loopback"} ELSE {})
      [] c.outcome = "absent" -> IF op = "document" THEN s.documents = None ELSE s.openapi = None
      [] OTHER -> FALSE

\* An Agent that is given the DID of a Service that can be built, or its URL, finds it; and
\* what it asks for by the document the Service still publishes succeeds, but for the reasons
\* listed: what it lacks itself, what the Service does not offer, limits it cannot know of,
\* and an OpenAPI document that is advertised where no Agent may fetch it.
ServicesUsable ==
    /\ reference # None /\ NamesIt(reference, service) /\ Proper(service) => session = service.at
    /\ At("ended") /\ call.of # None /\ Proper(call.of) /\ session = call.of.at /\ call.document = Received(call.of)
        => Explained(call, call.of)

\* An Agent takes a request for the operation that the OpenAPI document means, in whatever
\* order it lists the paths, and presents credentials that let it pass: all of one
\* requirement, of schemes it has, whenever there is one of which it has all.
OperationsResolved ==
    At("ended") /\ Op = "operation" =>
        LET q == call.request
            found == call.found
            passing(schemes) == Api!Admits(q.root, q.security[found.at], schemes)
        IN
        /\ found.at = Api!Operation(q.templates, q.path, call.document.openapi.equivalent)
        /\ found.at # 0 =>
            LET r == found.security IN
            /\ r.disposition \in {"public", "optional-anonymous"} => passing({})
            /\ \A schemes \in r.satisfiable : schemes \subseteq q.supported /\ passing(schemes)
            /\ r.disposition \in {"required", "all-required", "alternatives"} => r.satisfiable # {}
            /\ (r.disposition = "fallback-live-challenge") = ~passing(q.supported)
=============================================================================
