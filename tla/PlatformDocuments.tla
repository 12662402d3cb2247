------------------------- MODULE PlatformDocuments -------------------------
(***************************************************************************)
(* What a Platform publishes and answers with, and how it is read:         *)
(* Platform::new and document.rs of crates/aep-platform make the           *)
(* documents, crates/aep-agent/src/platform_provider.rs and                *)
(* crates/aep-core/src/did_web.rs read them.  Both sides check, and not    *)
(* the same things.                                                        *)
(*                                                                         *)
(* Strings are reduced to what the checks tell apart.  A path has holes    *)
(* for an identity and may have other braces; a host is "public",          *)
(* "loopback" or "improper"; a segment of a DID is "plain", "odd", when    *)
(* did:web does not take it, or "empty".  An URL is [scheme, of], of the   *)
(* DID whose document did:web looks for there, or of None.                 *)
(***************************************************************************)
EXTENDS Integers, FiniteSets, Sequences

CONSTANTS
    MaxLifetime,    \* MAX_ASSERTION_LIFETIME
    MaxRetryAfter,  \* 300 seconds, of a pending Sign
    None

Supported == {"EdDSA", "ES256"}
Elements(s) == {s[i] : i \in DOMAIN s}

----------------------------------------------------------------------------
\* did:web

Did(host, prefix, id) == [host |-> host, prefix |-> prefix, id |-> id]

\* create_service_scoped_agent_did
AgentDid(o, id) ==
    IF o.host = "improper" \/ id = "empty" THEN None ELSE Did(o.host, o.prefix, id)

\* is_did_web_host and is_did_web_path_segment, of what is decoded
ProperHost(host) == host # "improper"
ProperSegment(segment) == segment # "odd"

\* did_web_document_url_with_options
DocumentUrl(did, loopback) ==
    IF ~ProperHost(did.host) \/ ~ProperSegment(did.prefix) \/ ~ProperSegment(did.id) THEN None
    ELSE [scheme |-> IF loopback /\ did.host = "loopback" THEN "http" ELSE "https", of |-> did]

\* render_did_url
RenderedUrl(o, id) ==
    IF o.template.holes # 1 \/ o.template.scheme # "https" THEN None
    ELSE [scheme |-> "https",
          of |-> IF o.template.follows THEN Did(o.host, o.prefix, id) ELSE None]

----------------------------------------------------------------------------
\* The Platform's configuration and the documents it makes

\* validate_endpoint_path, and the Agent's valid_endpoint_path
ValidPath(p) == p.absolute

\* validate_lifetime
ValidLifetime(lifetime, maximum) ==
    lifetime > 0 /\ lifetime <= maximum /\ lifetime <= MaxLifetime

\* validate_signing_algorithms: unique, and of those that are supported
ValidAlgorithms(algorithms) ==
    /\ algorithms # <<>>
    /\ Elements(algorithms) \subseteq Supported
    /\ Cardinality(Elements(algorithms)) = Len(algorithms)

Routes == {"lifecycle", "list", "provision", "sign"}

\* create_discovery_document, None when it refuses
Discovery(o) ==
    IF /\ ValidPath(o.base) /\ \A r \in Routes : ValidPath(o.paths[r])
       /\ o.hosted = (o.verification # None)
       /\ o.verification # None => ValidPath(o.verification)
       /\ o.name # "empty"
       /\ o.did \in {None, "did"}
       /\ RenderedUrl(o, "plain") # None
    THEN [paths |-> o.paths, verification |-> o.verification, base |-> o.base,
          template |-> o.template, host |-> o.host, name |-> o.name, did |-> o.did,
          hosted |-> o.hosted, algorithms |-> o.algorithms, lifetime |-> o.default]
    ELSE None

\* Fault: the maximum lifetime may exceed the one of the protocol.
AcceptsAnyLifetime(o) ==
    LET probe == AgentDid(o, "plain") IN
    /\ probe # None /\ DocumentUrl(probe, FALSE) # None
    /\ RenderedUrl(o, "plain") = DocumentUrl(probe, FALSE)
    /\ ValidAlgorithms(o.algorithms)
    /\ o.default > 0 /\ o.default <= o.maximum
    /\ o.hosted => o.replayStore
    /\ Discovery(o) # None

\* Platform::new; "validation", which it probes with, is a plain identifier
Accepts(o) ==
    LET probe == AgentDid(o, "plain") IN
    /\ probe # None /\ DocumentUrl(probe, FALSE) # None
    /\ RenderedUrl(o, "plain") = DocumentUrl(probe, FALSE)
    /\ ValidAlgorithms(o.algorithms)
    /\ ValidLifetime(o.maximum, MaxLifetime)
    /\ ValidLifetime(o.default, o.maximum)
    /\ o.hosted => o.replayStore
    /\ Discovery(o) # None

\* create_identity, whose record keeps the answers to which the options led then;
\* None when the generator gave no identifier
Identity(o, id, service, method) ==
    IF AgentDid(o, id) = None THEN None
    ELSE [did |-> AgentDid(o, id), key |-> AgentDid(o, id), url |-> RenderedUrl(o, id),
          service |-> service, algorithms |-> o.algorithms, status |-> "active", method |-> method]

\* validate_public_key_jwk
Publishable(jwk, i) ==
    /\ jwk.private = {}
    /\ jwk.kid # "other"
    /\ jwk.alg \in {None} \cup Elements(i.algorithms)
    /\ jwk.use \in {None, "sig"}

\* create_did_document of an identity and the method its key store has for it, which
\* it controls or not; None when it refuses
DidDocument(i) ==
    IF i.method.controlled /\ Publishable(i.method.jwk, i)
    THEN [id |-> i.did, methods |-> {[id |-> i.key, jwk |-> i.method.jwk]}]
    ELSE None

----------------------------------------------------------------------------
\* What an Agent makes of them; loopback is its allow_insecure_loopback

\* validate_discovery; the version, the DID method and the template's host are constants
ValidDiscovery(d, loopback) ==
    LET fixed == {d.paths["list"], d.paths["provision"], d.base}
                    \cup (IF d.verification = None THEN {} ELSE {d.verification}) IN
    /\ d.name # "empty"
    /\ d.algorithms # <<>> /\ Elements(d.algorithms) \subseteq Supported
    /\ d.lifetime > 0 /\ d.lifetime <= MaxLifetime
    /\ \A p \in fixed \cup {d.paths[r] : r \in Routes} : ValidPath(p)
    /\ d.paths["lifecycle"].holes = 1 /\ d.paths["sign"].holes = 1
    /\ \A p \in fixed : p.holes = 0 /\ ~p.braces
    /\ d.template.holes = 1
    /\ d.hosted = (d.verification # None)
    /\ d.did # "other"
    /\ \/ d.template.scheme = "https"
       \/ loopback /\ d.template.scheme = "http" /\ d.host = "loopback"

\* endpoint: the identity fills every hole, and the Agent asks no other origin
ValidEndpoint(p, ofIdentity) ==
    /\ ValidPath(p)
    /\ ~p.braces /\ (ofIdentity \/ p.holes = 0)
    /\ p.within

\* Fault: any document URL will do.
ValidIdentityAnywhere(i, loopback) ==
    /\ i.key = i.did
    /\ i.algorithms # <<>> /\ Elements(i.algorithms) \subseteq Supported
    /\ i.status \in {"active", "revoked", "suspended", "terminated"}

\* validate_platform_identity
ValidIdentity(i, loopback) ==
    /\ i.key = i.did
    /\ i.algorithms # <<>> /\ Elements(i.algorithms) \subseteq Supported
    /\ i.status \in {"active", "revoked", "suspended", "terminated"}
    /\ DocumentUrl(i.did, loopback) # None
    /\ i.url = DocumentUrl(i.did, loopback)

\* validate_identity_list
ValidList(answer, loopback) ==
    /\ answer.count = Cardinality(answer.data) /\ answer.total >= answer.count
    /\ \A i \in answer.data : ValidIdentity(i, loopback)

----------------------------------------------------------------------------
\* What a Service makes of a DID document

\* validate_jwk_metadata and from_jwk
ValidKey(jwk, algorithm) ==
    /\ jwk.alg \in {None, algorithm}
    /\ jwk.kid # "other"
    /\ "d" \notin jwk.private
    /\ jwk.use \in {None, "sig"}
    /\ jwk.ops = None \/ "verify" \in jwk.ops
    /\ jwk.type = algorithm

\* resolve_did_web_public_key, with the document that was found at its URL, or None
Resolves(did, key, algorithm, document) ==
    /\ key = did
    /\ document # None
    /\ document.id = did
    /\ \E m \in document.methods : m.id = key /\ ValidKey(m.jwk, algorithm)

----------------------------------------------------------------------------
\* The answer of a sign handler, [body, status, says, type, retryAfter, retry,
\* assertion, names, lifetime]: says is the status a problem states, retryAfter
\* whether there is a Retry-After header, names whose DIDs and jti it has

Answer(status, type, body) ==
    [status |-> status, type |-> type, body |-> body, says |-> status, retryAfter |-> FALSE,
     retry |-> None, assertion |-> FALSE, names |-> None, lifetime |-> None, data |-> {},
     count |-> 0, total |-> 0]

Problem(status) == Answer(status, "problem", "problem")

Success(body) == Answer(200, "aep", body)

\* validate_sign_response
ValidHandled(a, lifetime) ==
    \/ a.body = "problem" /\ a.status = a.says
    \/ /\ a.body = "pending" /\ a.status = 202
       /\ a.retry \in 1..MaxRetryAfter /\ ~a.retryAfter
       /\ ~a.assertion /\ a.names = None /\ a.lifetime = None
    \/ /\ a.body = "completed" /\ a.status = 200
       /\ a.assertion /\ a.names = "own" /\ a.lifetime = lifetime /\ a.retry = None

\* restore_response: a content type that is exactly the one of problems, and no other,
\* makes it one; without any it is a success
Restorable(a) == (a.type = "problem") = (a.body = "problem")

\* validate_completed_sign, and the status before it
ReadCompleted(a, lifetime) ==
    /\ a.status = 200
    /\ a.assertion /\ a.names = "own"
    /\ lifetime > 0 /\ a.lifetime = lifetime

\* validate_pending_sign, and the status and the header before it
ReadPending(a) ==
    /\ a.status = 202 /\ ~a.retryAfter
    /\ a.body = "pending" /\ ~a.assertion /\ a.names = None /\ a.lifetime = None
    /\ a.retry \in 1..MaxRetryAfter
=============================================================================
