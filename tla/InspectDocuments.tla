-------------------------- MODULE InspectDocuments --------------------------
(***************************************************************************)
(* How a Service is configured, the Inspect document it publishes, and     *)
(* what either side makes of it: build_configuration and the limits of     *)
(* crates/aep-service/src/service.rs, the validators of                    *)
(* crates/aep-core/src/inspect.rs and documents.rs, and the choices of     *)
(* crates/aep-agent/src/client.rs and commands.rs that go by the document. *)
(*                                                                         *)
(* An origin is [scheme, host, port]; a port is None when it is the one of *)
(* the scheme.  A DID is [method, host, port, path], its path None,        *)
(* "plain", or "odd" when did:web does not take it; its method is None     *)
(* when it is no DID at all.  Names are words; Improper are those that fit *)
(* no pattern of names.  Of an URL that is quoted only its kind is kept.   *)
(***************************************************************************)
EXTENDS Protocol, FiniteSets

CONSTANTS
    Improper,       \* words that no pattern of names takes
    Loopback,       \* the hosts of is_loopback_host
    Numeric,        \* hosts that cannot be read as the scheme of an URL
    MaxMethods,     \* MAX_AUTHENTICATION_METHODS
    MaxAssertion,   \* MAX_ASSERTION_LIFETIME
    MaxBlocks,      \* 1024
    MaxDepth        \* 8, of sections

Origin(scheme, host, port) == [scheme |-> scheme, host |-> host, port |-> port]

IsLoopback(url) == url.host \in Loopback

\* https, or what allow_insecure_loopback lets pass
Secure(url, loopback) ==
    \/ url.scheme = "https"
    \/ loopback /\ url.scheme = "http" /\ IsLoopback(url)

\* the origin of did_web_document_url_with_options, None when it refuses
DocumentOrigin(did, loopback) ==
    IF did.method # "web" \/ did.host \in Improper \/ did.path = "odd" THEN None
    ELSE Origin(IF loopback /\ did.host \in Loopback THEN "http" ELSE "https", did.host, did.port)

----------------------------------------------------------------------------
\* Claim values

\* those with a grammar of their own, and those that need only not be blank
Patterned == {"address", "email", "mobile", "birthdate"}
Texts == {"first_name", "last_name", "username"}

\* what the grammars make of a value, "proper", "odd" or "blank"
WellFormed(name, form) ==
    CASE name \in Patterned -> form = "proper"
      [] name \in Texts -> form # "blank"
      [] OTHER -> TRUE

\* validate_claim_values
ValidClaimValues(values) == \A name \in DOMAIN values : WellFormed(name, values[name])

----------------------------------------------------------------------------
\* Service documents

\* valid_document_url, of kinds of URLs
ValidDocumentUrl(kind) == kind \in {"https", "loopback"}

Media(d) == {d.representations[i].media : i \in DOMAIN d.representations}

\* validate_service_document, but for the words of its type and its title
ValidDescriptor(d) ==
    /\ d.id # EmptyWord
    /\ Len(d.representations) \in 1..8
    /\ Cardinality(Media(d)) = Len(d.representations)
    /\ Media(d) \cap Improper = {}
    /\ \A i \in DOMAIN d.representations : ValidDocumentUrl(d.representations[i].url)
    /\ "text/html" \in Media(d)

\* validate_portable_service_document: the walk over the blocks stops when there are too
\* many, and then there is an issue; a section may hold blocks at MaxDepth, but none of
\* them is a section
ValidPortable(p) ==
    /\ p.known
    /\ p.id # EmptyWord
    /\ p.blocks \in 1..MaxBlocks
    /\ p.summary # 0
    /\ p.depth <= MaxDepth
    /\ p.items \subseteq 1..128

\* parse_portable_service_document
ReadsPortable(p, id) == p.size /\ ValidPortable(p) /\ p.id = id

----------------------------------------------------------------------------
\* The Service

Unique(words) == Cardinality(Range(words)) = Len(words)

\* ServiceOptions::new, for a Service that is mounted at an origin, with what is the default
\* for limits
ServiceOptions(did, at, limits) ==
    [did |-> did, at |-> at, identities |-> <<"did:web">>, algorithms |-> <<"EdDSA", "ES256">>,
     methods |-> <<>>, grants |-> <<>>,
     claims |-> [required |-> <<>>, preferred |-> <<>>, optional |-> <<>>], limits |-> limits,
     extensions |-> {}, documents |-> None, base |-> "proper", openapi |-> None]

\* ClaimValueLimits::validate
ValidLimits(limits) == \A m \in DOMAIN limits : limits[m] > 0

Types(o) == [i \in DOMAIN o.grants |-> o.grants[i].type]

\* inspect_document of build_configuration
Document(o) ==
    [did |-> o.did, identities |-> o.identities, algorithms |-> o.algorithms,
     methods |-> IF o.methods = <<>> THEN None ELSE o.methods,
     types |-> Types(o),
     configured |-> {o.grants[i].type : i \in {j \in DOMAIN o.grants : o.grants[j].config # None}},
     perCredential |-> {o.grants[i].type : i \in {j \in DOMAIN o.grants : o.grants[j].config = "true"}},
     commands |-> {"enroll", "inspect", "status"}
                    \cup (IF o.grants = <<>> THEN {} ELSE {"grant", "revoke"}),
     claims |-> o.claims, extensions |-> o.extensions, documents |-> o.documents,
     base |-> o.base, openapi |-> o.openapi, version |-> <<1, 0>>]

\* the document on its way: serde leaves out lists that are empty where it may, and gives
\* them back
Skipped(words) == IF words = <<>> THEN None ELSE words
GivenBack(words) == IF words = None THEN <<>> ELSE words

Serialized(d) ==
    [d EXCEPT !.types = Skipped(@), !.claims = [group \in DOMAIN @ |-> Skipped(@[group])]]

Deserialized(sent) ==
    [sent EXCEPT !.types = GivenBack(@), !.claims = [group \in DOMAIN @ |-> GivenBack(@[group])]]

Names(words) == Range(words) \cap Improper = {}

\* is_version_compatible
Compatible(received, supported) == received[1] = supported[1]

\* validate_authentication
ValidMethods(d) ==
    d.methods # None =>
        /\ Len(d.methods) \in 1..MaxMethods
        /\ Names(d.methods) /\ Unique(d.methods)

\* the service_documents of validate_inspect_document
ValidDocuments(d) ==
    d.documents # None =>
        /\ d.documents # <<>> /\ "documents" \in d.extensions
        /\ ValidIds([i \in DOMAIN d.documents |-> d.documents[i].id])
        /\ \A i \in DOMAIN d.documents : ValidDescriptor(d.documents[i])

\* its commands and grant types
ValidCommands(d) ==
    /\ "inspect" \in d.commands /\ "authenticate" \notin d.commands
    /\ Names(d.types)
    /\ d.configured \subseteq Range(d.types)
    /\ d.commands \cap {"grant", "revoke"} # {} => d.types # <<>>

\* its algorithms, extensions and identity methods
ValidIdentities(d) ==
    /\ {"EdDSA", "ES256"} \subseteq Range(d.algorithms)
    /\ "relative" \notin d.extensions
    /\ Names(d.identities)
    /\ d.commands \cap {"enroll", "grant", "revoke", "status"} # {} => d.identities # <<>>

\* openapi.url: absolute whatever its scheme, or relative to the Inspect document
ValidReference(kind) == kind \notin {"blank", "network", "relative#"}

\* its endpoint base and OpenAPI reference
ValidHttp(d) ==
    /\ d.base # "improper"
    /\ d.openapi # None => ValidReference(d.openapi.url)

\* validate_claims
ValidClaims(claims) == \A group \in DOMAIN claims : Names(claims[group])

\* validate_inspect_document
ValidDocument(d) ==
    /\ ValidDocuments(d)
    /\ Compatible(d.version, <<1, 0>>)
    /\ ValidMethods(d)
    /\ ValidClaims(d.claims)
    /\ ValidCommands(d)
    /\ ValidIdentities(d)
    /\ ValidHttp(d)
    /\ d.did.method # None

\* build_configuration
Builds(o) ==
    /\ o.did.method # None
    /\ Unique(o.identities) /\ Unique(Types(o)) /\ Unique(o.methods) /\ Unique(o.algorithms)
    /\ o.identities # <<>> /\ o.algorithms # <<>>
    /\ \A i \in DOMAIN o.grants : o.grants[i].handled
    /\ Range(o.methods) \subseteq {"aep-jwt"} \cup Range(Types(o))
    /\ ValidDocument(Document(o))
    /\ ValidLimits(o.limits)

\* within_claim_value_limits, of what there is of claims: bytes, members in all, the
\* deepest container and the longest string or name
WithinLimits(size, limits) == \A m \in DOMAIN limits : size[m] <= limits[m]

----------------------------------------------------------------------------
\* The Agent

\* ClientOptions::new, for the identity of a provider
ClientOptions(identity) ==
    [loopback |-> FALSE, lifetime |-> [seconds |-> MaxAssertion, whole |-> TRUE],
     bytes |-> 1, timeout |-> 1, identity |-> identity, keys |-> "proper"]

\* Client::new
ClientAccepts(a) ==
    /\ a.lifetime.whole /\ a.lifetime.seconds \in 1..MaxAssertion
    /\ a.bytes > 0 /\ a.timeout > 0

\* what an application asks for: type None is for all of them, key None for one of the provider
EnrollOptions(values, size, key) == [op |-> "enroll", values |-> values, size |-> size, key |-> key]
GrantOptions(selected, preferred, key) ==
    [op |-> "grant", selected |-> selected, preferred |-> preferred, key |-> key]
RevokeOptions(type, credential, key) ==
    [op |-> "revoke", type |-> type, credential |-> credential, key |-> key]

\* Fault: the origin of a DID is https.
ResolveSecurely(r, loopback) ==
    IF r.user THEN None
    ELSE IF r.kind = "did" THEN DocumentOrigin(r.did, FALSE)
    ELSE IF Secure(r.url, loopback) THEN r.url ELSE None

\* the URL of a reference: a bare host and its port, when it is named by a word, read as an
\* URL that has the host for a scheme and has no host
Parsed(r, loopback) ==
    CASE r.kind = "did" -> DocumentOrigin(r.did, loopback)
      [] r.kind = "url" -> r.url
      [] r.kind = "bare" -> IF r.url.port = None \/ r.url.host \in Numeric THEN r.url ELSE None
      [] OTHER -> None

\* resolve_service_reference
Resolve(r, loopback) ==
    LET url == Parsed(r, loopback) IN
    IF url # None /\ ~r.user /\ Secure(url, loopback) THEN url ELSE None

\* validate_service_identity and same_origin
Bound(d, final, loopback) == DocumentOrigin(d.did, loopback) = final

\* validate_identity with compatible_algorithms
ValidIdentity(identity, d) ==
    /\ identity.method = "did:web"
    /\ identity.method \in Range(d.identities)
    /\ identity.algorithms \cap Range(d.algorithms) # {}

\* select_grant_type, None when there is no compatible one
SelectGrantType(d, selected, preferred) ==
    LET candidates == IF selected # None THEN <<selected>>
                      ELSE IF preferred = <<>> THEN d.types ELSE preferred
        advertised == {i \in DOMAIN candidates : candidates[i] \in Range(d.types)}
    IN IF advertised = {} THEN None
       ELSE candidates[CHOOSE i \in advertised : \A j \in advertised : i <= j]

\* the claims that evaluate_claim_support finds the Agent can give, of those asked for
Supportable(d, held) == held \cap UNION {Range(d.claims[group]) : group \in DOMAIN d.claims}

\* resolve_openapi_url of an inspection at the final URL, which is an origin it may be at
ResolveOpenApi(final, kind, loopback) ==
    /\ Secure(final, loopback)
    /\ kind \in {"relative", "https"} \cup (IF loopback THEN {"loopback"} ELSE {})

\* read_service_document with download_document: what is read of the descriptor d when its
\* portable document's server answers so; the page in either case
ReadDocument(d, reply) ==
    IF /\ "application/json" \in Media(d)
       /\ reply.status /\ reply.media /\ reply.charset \in {None, "utf-8"} /\ reply.identity
       /\ ReadsPortable(reply.document, d.id)
    THEN "document" ELSE "page"
=============================================================================
