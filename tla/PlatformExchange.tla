-------------------------- MODULE PlatformExchange --------------------------
(***************************************************************************)
(* An Agent, its Platform and a Service about one identity: the Agent      *)
(* finds it or has it provisioned, and has assertions signed with its key  *)
(* (crates/aep-agent/src/platform_provider.rs); the Platform answers       *)
(* (crates/aep-platform/src/platform.rs); the Service resolves the key     *)
(* (crates/aep-core/src/did_web.rs).  PlatformDocuments has what they say  *)
(* to each other.                                                          *)
(*                                                                         *)
(* One principal and one Service.  What calls do to each other at the      *)
(* Platform is PlatformProvisioning's and PlatformSigning's; here a        *)
(* request is answered at once.  Idempotency keys are fresh, as they are   *)
(* by default, so no answer is a stored one, though each has been stored   *)
(* and restored.  The application's routes are the endpoints its Platform  *)
(* advertises; an error of the Platform is its status 500.                 *)
(***************************************************************************)
EXTENDS PlatformDocuments

CONSTANTS
    Options,        \* what a Platform may be configured with
    Providers,      \* [loopback, resolver, service] of an Agent's provider
    Claims,         \* [lifetime, resource] of the assertions it wants
    Ids,            \* what agent_did_id_generator may return
    Methods,        \* what a key store may publish of a key, [controlled, jwk]
    Handled,        \* what a sign handler may answer
    MaxStages,      \* MAXIMUM_PENDING_SIGN_STAGES
    MaxCalls,       \* bound of the Agent's calls
    MaxEvents       \* bound of what happens to the parties

VARIABLES
    options,    \* the Platform's configuration
    record,     \* the identity in its store, or None
    provider,   \* the Agent's configuration
    cache,      \* its discovery cache: [document, fresh], or None
    saved,      \* the identity it has, or None
    call,       \* its call under way, or None
    calls,      \* how many it has made
    events      \* how often something has happened to the parties

vars == <<options, record, provider, cache, saved, call, calls, events>>
platformVars == <<options, record>>

\* op: "resolve", "sign" or, of a Service, "key"; step: "discover", "command", "read" or
\* "ended"; verb: the endpoint it is about to ask; document: the discovery document it
\* goes by; inactive and moved are ghosts: whether, since it began, the identity has been
\* inactive and the Platform been configured anew
NewCall(op, verb) ==
    [op |-> op, step |-> "discover", verb |-> verb, claims |-> None, loopback |-> FALSE,
     document |-> None, answer |-> None, stages |-> 1, outcome |-> None, moved |-> FALSE,
     inactive |-> record # None /\ record.status # "active"]

Init ==
    /\ options \in {o \in Options : Accepts(o)}
    /\ record = None
    /\ provider \in Providers
    /\ cache = None /\ saved = None /\ call = None
    /\ calls = 0 /\ events = 0

----------------------------------------------------------------------------
At(step) == call # None /\ call.step = step

End(outcome) == call' = [call EXCEPT !.step = "ended", !.outcome = outcome]

Begin(new) ==
    /\ call = None /\ calls < MaxCalls
    /\ call' = new
    /\ calls' = calls + 1
    /\ UNCHANGED <<platformVars, provider, cache, saved, events>>

\* get_or_create_identity, which begins with find_identity_by_service_did
Resolve == Begin(NewCall("resolve", "list"))

\* validate_owned_identity, of what this provider has returned
Owned(i) == i # None /\ i.status = "active"

\* signer_for and sign; the claims are the identity's, and a Service's algorithms always
\* compatible
Sign ==
    /\ Owned(saved)
    /\ \E c \in Claims : Begin([NewCall("sign", "sign") EXCEPT !.claims = c])

----------------------------------------------------------------------------
\* The Agent asks

\* endpoint, of the document d
GoBy(d) ==
    call' = [call EXCEPT !.document = d,
                         !.step = IF ValidEndpoint(d.paths[call.verb], call.verb = "sign")
                                  THEN "command" ELSE "ended",
                         !.outcome = IF ValidEndpoint(d.paths[call.verb], call.verb = "sign")
                                     THEN None ELSE "unread"]

\* discovery, of the Platform as it is
Published == Discovery(options)

\* cache_fresh
Fresh == cache # None /\ cache.fresh

\* discover: a fresh document is not asked for
DiscoverCached ==
    /\ At("discover")
    /\ Fresh
    /\ GoBy(cache.document)
    /\ UNCHANGED <<platformVars, provider, cache, saved, calls, events>>

\* discover: fetched, or found not modified, with or without redirects; parse_discovery.
\* A document that is refused leaves the cache as it was.
Discover ==
    LET d == Published IN
    /\ At("discover")
    /\ ~Fresh
    /\ IF ValidDiscovery(d, provider.loopback)
       THEN GoBy(d) /\ cache' = [document |-> d, fresh |-> TRUE]
       ELSE /\ call' = [call EXCEPT !.document = d, !.step = "ended", !.outcome = "unread"]
            /\ UNCHANGED cache
    /\ UNCHANGED <<platformVars, provider, saved, calls, events>>

\* the transport fails, a redirect leads elsewhere or there are too many of them; before
\* the request or after it
Lose ==
    /\ At("discover") \/ At("read")
    /\ End("lost")
    /\ UNCHANGED <<platformVars, provider, cache, saved, calls, events>>

----------------------------------------------------------------------------
\* The Platform answers

Serving(verb) ==
    At("command") /\ call.verb = verb /\ call.document.paths[verb] = options.paths[verb]

Says(answer) ==
    /\ call' = [call EXCEPT !.step = "read", !.answer = answer]
    /\ UNCHANGED <<options, provider, cache, saved, calls, events>>

\* what an application answers with for an error
Broken == Answer(500, None, "error")

\* nothing is where the Agent asks
Elsewhere ==
    /\ At("command") /\ ~Serving(call.verb)
    /\ Says(Answer(404, None, "error"))
    /\ UNCHANGED record

\* is_did, of the DID the Agent asks about: it lets more pass
IsDid == provider.service = "did"

\* list, of the principal's identities for the Service
List ==
    LET found == IF record = None THEN {} ELSE {record} IN
    /\ Serving("list")
    /\ Says(IF ~IsDid THEN Problem(400)
            ELSE IF ~options.authorizes THEN Problem(404)
            ELSE [Success("list") EXCEPT !.data = found, !.count = Cardinality(found),
                                         !.total = Cardinality(found)])
    /\ UNCHANGED record

\* find_or_create and create_identity; a key store or a generator may fail
Provide ==
    \/ /\ record # None
       /\ Says([Success("identity") EXCEPT !.data = {record}])
       /\ UNCHANGED record
    \/ record = None /\ Says(Broken) /\ UNCHANGED record
    \/ /\ record = None
       /\ \E id \in Ids, m \in Methods :
            LET new == Identity(options, id, provider.service, m) IN
            /\ record' = new
            /\ Says(IF new = None THEN Broken ELSE [Success("identity") EXCEPT !.data = {new}])

Refuse(status) == Says(Problem(status)) /\ UNCHANGED record

\* provision
Provision ==
    /\ Serving("provision")
    /\ IF ~IsDid THEN Refuse(400)
       ELSE IF ~options.authorizes THEN Refuse(404)
       ELSE IF ~options.resolves THEN Refuse(400)
       ELSE Provide

\* Fault: the default lifetime is taken for the maximum.
DefaultIsMaximum(c) == c.resource # "http" /\ ValidLifetime(c.lifetime, options.default)

\* sign_lifetime
ServableClaims(c) == c.resource # "http" /\ ValidLifetime(c.lifetime, options.maximum)

Completed(lifetime) ==
    [Success("completed") EXCEPT !.assertion = TRUE, !.names = "own", !.lifetime = lifetime]

\* the handler's answer h, stored and restored
FromHandler(h) == IF ValidHandled(h, call.claims.lifetime) /\ Restorable(h) THEN h ELSE Broken

\* sign: a handler may answer in the place of the key store, which may fail
SignAssertion ==
    /\ Serving("sign")
    /\ IF ~ServableClaims(call.claims) THEN Says(Problem(400))
       ELSE IF ~options.authorizes THEN Says(Problem(404))
       ELSE IF record.status # "active" THEN Says(Problem(403))
       ELSE \/ \E a \in {Completed(call.claims.lifetime), Broken} : Says(a)
            \/ options.handles /\ \E h \in Handled : Says(FromHandler(h))
    /\ UNCHANGED record

----------------------------------------------------------------------------
\* The Agent reads

Served == call.answer.status \in 200..299

Reading(verb) ==
    At("read") /\ call.verb = verb /\ Served /\ call.answer.type = "aep"

\* command: a status that is no success, with or without a problem that states it
ReadProblem ==
    /\ At("read") /\ ~Served
    /\ End(IF call.answer.status = 500 THEN "failed" ELSE "refused")
    /\ UNCHANGED <<platformVars, provider, cache, saved, calls, events>>

\* command: validate_media_type
ReadOther ==
    /\ At("read") /\ Served /\ call.answer.type # "aep"
    /\ End("unread")
    /\ UNCHANGED <<platformVars, provider, cache, saved, calls, events>>

Keep(i) == End("identity") /\ saved' = i

\* the rest of find_identity_by_service_did, and of get_or_create_identity
ReadList ==
    LET usable == {i \in call.answer.data : i.service = provider.service /\ i.status = "active"} IN
    /\ Reading("list")
    /\ \/ ~ValidList(call.answer, provider.loopback) /\ End("unread") /\ UNCHANGED saved
       \/ /\ ValidList(call.answer, provider.loopback)
          /\ \/ \E i \in usable : Keep(i)
             \/ /\ usable = {}
                /\ call' = [call EXCEPT !.step = "discover", !.verb = "provision"]
                /\ UNCHANGED saved
    /\ UNCHANGED <<platformVars, provider, cache, calls, events>>

\* the end of get_or_create_identity
ReadProvisioned ==
    /\ Reading("provision")
    /\ \E i \in call.answer.data :
        IF i.service = provider.service /\ i.status = "active" /\ ValidIdentity(i, provider.loopback)
        THEN Keep(i)
        ELSE End("unread") /\ UNCHANGED saved
    /\ UNCHANGED <<platformVars, provider, cache, calls, events>>

\* the loop of sign: a pending signature is asked for again, in another stage, when
\* there is a resolver
ReadSigned ==
    LET a == call.answer IN
    /\ Reading("sign")
    /\ \/ /\ a.body = "completed"
          /\ End(IF ReadCompleted(a, call.claims.lifetime) THEN "assertion" ELSE "unread")
       \/ /\ a.body # "completed"
          /\ IF ~ReadPending(a) THEN End("unread")
             ELSE IF ~provider.resolver THEN End("pending")
             ELSE IF call.stages = MaxStages THEN End("unfinished")
             ELSE call' = [call EXCEPT !.step = "discover", !.stages = @ + 1]
    /\ UNCHANGED <<platformVars, provider, cache, saved, calls, events>>

----------------------------------------------------------------------------
\* A Service that has got an assertion of the identity resolves its key; did_document is
\* what the Platform has at the URL

PublishedAt(url) ==
    IF record.status = "active" /\ url = record.url THEN DidDocument(record) ELSE None

ResolveKey ==
    /\ call = None /\ saved # None /\ calls < MaxCalls
    /\ \E loopback \in BOOLEAN :
        LET url == DocumentUrl(saved.did, loopback)
            found == url # None /\ Resolves(saved.did, saved.key, record.method.jwk.type, PublishedAt(url))
        IN call' = [NewCall("key", "key") EXCEPT
                        !.step = "ended", !.loopback = loopback,
                        !.outcome = IF found THEN "resolved" ELSE "unresolved"]
    /\ calls' = calls + 1
    /\ UNCHANGED <<platformVars, provider, cache, saved, events>>

Return ==
    /\ At("ended")
    /\ call' = None
    /\ UNCHANGED <<platformVars, provider, cache, saved, calls, events>>

----------------------------------------------------------------------------
\* What happens meanwhile

Event ==
    /\ events < MaxEvents /\ events' = events + 1
    /\ ~At("ended")
    /\ UNCHANGED <<provider, saved, calls>>

\* the cached discovery document's max-age is over
Expire ==
    /\ Event
    /\ Fresh
    /\ cache' = [cache EXCEPT !.fresh = FALSE]
    /\ UNCHANGED <<platformVars, call>>

\* restarted over the same stores; the DIDs it has issued stay where they are
Reconfigure ==
    /\ Event
    /\ options' \in {o \in Options : Accepts(o)} \ {options}
    /\ options'.host = options.host /\ options'.prefix = options.prefix
    /\ options'.template = options.template
    /\ call' = IF call = None THEN None ELSE [call EXCEPT !.moved = TRUE]
    /\ UNCHANGED <<record, cache>>

\* update_identity
SetStatus ==
    /\ Event
    /\ record # None
    /\ \E s \in {"active", "suspended"} \ {record.status} :
        /\ record' = [record EXCEPT !.status = s]
        /\ call' = IF call = None THEN None
                   ELSE [call EXCEPT !.inactive = call.inactive \/ s # "active"]
    /\ UNCHANGED <<options, cache>>

\* another client of the principal has the identity provisioned
ProvidedElsewhere ==
    /\ Event
    /\ record = None /\ IsDid /\ options.authorizes /\ options.resolves
    /\ \E id \in Ids, m \in Methods : record' = Identity(options, id, provider.service, m)
    /\ record' # None
    /\ UNCHANGED <<options, cache, call>>

Next ==
    \/ Resolve \/ Sign
    \/ DiscoverCached \/ Discover \/ Lose
    \/ Elsewhere \/ List \/ Provision \/ SignAssertion
    \/ ReadProblem \/ ReadOther \/ ReadList \/ ReadProvisioned \/ ReadSigned
    \/ ResolveKey \/ Return
    \/ Expire \/ Reconfigure \/ SetStatus \/ ProvidedElsewhere

Spec == Init /\ [][Next]_vars

----------------------------------------------------------------------------
Sloppy(p) == p.holes # 0 \/ p.braces

\* what Platform::new lets pass and its Agents do not: endpoints without the hole for an
\* identity, or with one too many, and those that lead to another origin
OddPaths(d) ==
    \/ d.paths["lifecycle"].holes # 1 \/ d.paths["sign"].holes # 1
    \/ \E r \in Routes : d.paths[r].braces \/ ~d.paths[r].within
    \/ Sloppy(d.paths["list"]) \/ Sloppy(d.paths["provision"]) \/ Sloppy(d.base)
    \/ d.verification # None /\ Sloppy(d.verification)

\* An Agent can read every success of its Platform, but for what only one of them checks:
\* endpoints; an Agent on loopback that expects http of a Platform whose documents are at
\* https; an identifier of the generator that did:web does not take; an answer of a sign
\* handler that is not labelled as what it is, or a problem with the status of a success.
\* An identity that is not active is provisioned again, as it is, and read as none
\* (platform.rs:79-102, platform_provider.rs:281, 520, 762, 886).
UnreadExplained ==
    \/ OddPaths(call.document)
    \/ provider.loopback /\ options.host = "loopback"
    \/ record # None /\ record.did.id = "odd"
    \/ call.verb = "provision" /\ call.inactive
    \/ call.verb = "sign" /\ call.answer \in Handled /\ call.answer.type # "aep"

AnswersRead == At("ended") /\ call.outcome = "unread" => UnreadExplained

\* A Platform refuses its Agent only what it must: the identity has been inactive during
\* the call, the principal is not authorized or the Service not known, or the handler says
\* so; and what the Agent could have known only with a check of its own: a lifetime above
\* the Platform's maximum, which is nowhere advertised, a resource on loopback without
\* TLS, a Service DID that is none for the Platform; or the Agent has gone by a discovery
\* document, fresh though it is, of a Platform that has been configured otherwise since
\* (platform.rs:200, 246, 636, platform_provider.rs:198).
RefusalExplained(a) ==
    \/ call.inactive /\ call.verb = "sign"
    \/ call.moved \/ call.document # Published
    \/ ~options.authorizes
    \/ call.verb = "provision" /\ ~options.resolves
    \/ options.handles /\ a \in Handled
    \/ call.verb = "sign" /\ call.claims.lifetime > options.maximum
    \/ call.verb = "sign" /\ call.claims.resource = "http"
    \/ ~IsDid

RequestsServed == At("ended") /\ call.outcome = "refused" => RefusalExplained(call.answer)

\* An Agent and its Platform that agree on how they are configured come to terms: neither
\* refuses what the other has made by the rules of its own, but for the exceptions above.
ExchangesExplained == AnswersRead /\ RequestsServed

\* what a key store should say of its key
WellDescribed(m, algorithms) ==
    /\ m.controlled
    /\ m.jwk.type \in Elements(algorithms) /\ m.jwk.alg \in {None, m.jwk.type}
    /\ m.jwk.private = {} /\ m.jwk.kid # "other" /\ m.jwk.use \in {None, "sig"}
    /\ m.jwk.ops # None => "verify" \in m.jwk.ops

\* Once an Agent has accepted an identity, a Service finds the key that its active identity
\* signs with: the Agent lets no identity pass whose document is elsewhere, and a Platform
\* publishes what its key store describes well.  Only a Service on loopback looks for the
\* documents of a Platform there under http
\* (platform_provider.rs:886-925, document.rs:58-126, did_web.rs:36-90, 154-199).
KeysResolved ==
    At("ended") /\ call.outcome = "unresolved" =>
        \/ call.inactive
        \/ ~WellDescribed(record.method, record.algorithms)
        \/ call.loopback /\ record.did.host = "loopback"

----------------------------------------------------------------------------
\* What makes the properties inductive: where every identity and document that someone
\* holds comes from

\* the configuration is one that a Platform accepts
Configured == options \in Options /\ Accepts(options) /\ provider \in Providers

\* i is an identity as this Platform makes them for the Service, at the URL of its DID
Made(i) ==
    /\ DOMAIN i = {"did", "key", "url", "service", "algorithms", "status", "method"}
    /\ \E id \in Ids : i.did = Did(options.host, options.prefix, id)
    /\ i.key = i.did
    /\ i.url = [scheme |-> "https", of |-> i.did]
    /\ i.service = provider.service
    /\ \E o \in Options : Accepts(o) /\ i.algorithms = o.algorithms
    /\ i.status \in {"active", "suspended"}
    /\ i.method \in Methods

RecordMade == record # None => Made(record)

\* i is the one identity, with a status it had at some time
OnRecord(i) == record # None /\ Made(i) /\ i.did = record.did

SavedRead == saved # None => OnRecord(saved) /\ ValidIdentity(saved, provider.loopback)

CacheRead ==
    cache # None =>
        /\ DOMAIN cache = {"document", "fresh"}
        /\ ValidDiscovery(cache.document, provider.loopback)

\* an answer that is read is of the verb that was asked for, a signature of the claims
AnswerMade(a) ==
    /\ call.verb = "list" /\ a.status \in 200..299 =>
           /\ a.type = "aep"
           /\ a.count = Cardinality(a.data) /\ a.total >= a.count
           /\ \A i \in a.data : OnRecord(i)
    /\ call.verb = "provision" /\ a.status \in 200..299 =>
           /\ a.type = "aep"
           /\ \A i \in a.data : OnRecord(i) /\ (i.status # "active" => call.inactive)
    /\ call.verb = "sign" /\ a.status \in 200..299 =>
           \/ a.type = "aep" /\ a.body = "completed" /\ ReadCompleted(a, call.claims.lifetime)
           \/ a.type = "aep" /\ a.body = "pending" /\ ReadPending(a)
           \/ a.type # "aep" /\ a \in Handled
    /\ a.status \notin 200..299 /\ a.status # 500 => RefusalExplained(a)

CallMade ==
    call # None =>
        /\ DOMAIN call = {"op", "step", "verb", "claims", "loopback", "document", "answer",
                          "stages", "outcome", "moved", "inactive"}
        /\ call.verb \in {"list", "provision", "sign", "key"}
        /\ call.verb = "key" => call.step = "ended"
        /\ call.verb = "sign" => saved # None /\ call.claims \in Claims
        /\ record # None /\ record.status # "active" => call.inactive
        /\ call.step = "read" => AnswerMade(call.answer)

PlatformInvariant ==
    /\ Configured /\ RecordMade /\ SavedRead /\ CacheRead /\ CallMade
    /\ ExchangesExplained /\ KeysResolved

=============================================================================
