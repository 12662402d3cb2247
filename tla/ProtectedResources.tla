------------------------- MODULE ProtectedResources -------------------------
(***************************************************************************)
(* A request for a protected resource from end to end: the Agent chooses   *)
(* how to authenticate it and renders that                                 *)
(* (crates/aep-agent/src/authentication.rs), its application and relays    *)
(* add header fields, the Service's layer takes the request                *)
(* (crates/aep-tower/src/authentication.rs) and the Service finds out who  *)
(* it is from (authenticate_protected_resource of                          *)
(* crates/aep-service/src/service.rs, over the credential store).          *)
(*                                                                         *)
(* One Agent, "me", and others that have credentials at the same Service.  *)
(* A grant and a request are one step of the Service each, whose own steps *)
(* ServiceCredentials has; an assertion is good when its resource is,      *)
(* which the other reasons of ClientAssertions are left out of.            *)
(***************************************************************************)
EXTENDS Authorizations

CONSTANTS
    Services,       \* [methods, names, origin] a Service may be configured with: methods
                    \* in their order, header_names or None, origin of the layer
    Issuable,       \* [agent, type, field, text] that issuers may come up with
    Extras,         \* [field, text] of header fields that are added, and None
    MaxCredentials, \* bounds
    MaxCalls,
    MaxEvents

VARIABLES
    service,    \* the Service's configuration
    inspected,  \* the one the Agent has inspected
    records,    \* the Service's credentials, as [id, agent, ...] of Authorizations
    stored,     \* the ids the Agent has stored
    enrolled,   \* whether the Agent's enrollment is active
    call,       \* the Agent's call under way, or None
    calls, events

vars == <<service, inspected, records, stored, enrolled, call, calls, events>>

Types == {"oauth-bearer", "api-key", "basic"}

\* build_configuration: unique methods; there is a handler for every grant type
Configurable(s) == \A i, j \in DOMAIN s.methods : s.methods[i] = s.methods[j] => i = j

Methods(s) == {s.methods[i] : i \in DOMAIN s.methods}

Init ==
    /\ service \in {s \in Services : Configurable(s)}
    /\ inspected = service
    /\ records = {} /\ stored = {}
    /\ enrolled = TRUE
    /\ call = None /\ calls = 0 /\ events = 0

----------------------------------------------------------------------------
\* Grants

\* validate_built_in_grant_response: bearer tokens may be any text, API keys are one
\* word, Basic credentials are encoded
ValidGrant(c) ==
    /\ c.type = "api-key" => c.text.form = "bare"
    /\ c.type = "basic" => c.text.form = "token"

\* validate_issued_credential_config
ValidName(c) == c.type = "api-key" /\ service.names # None => c.field \in service.names

\* save_record
CanSave(c) ==
    \A r \in records :
        r.type = c.type /\ r.field = c.field => SecretOf(c.type, r.text) # SecretOf(c.type, c.text)

\* grant, of the Service's handler and of the Agent, which stores what it can parse
Grant(c) ==
    /\ Cardinality(records) < MaxCredentials
    /\ ValidGrant(c) /\ ValidName(c) /\ CanSave(c)
    /\ LET id == Cardinality(records) IN
        /\ records' = records \cup
            {[id |-> id, agent |-> c.agent, type |-> c.type, field |-> c.field, text |-> c.text,
              revoked |-> FALSE, expired |-> FALSE]}
        /\ stored' = IF c.agent = "me" THEN stored \cup {id} ELSE stored
    /\ UNCHANGED <<service, inspected, enrolled, call, calls, events>>

Wallet == {r \in records : r.id \in stored /\ ~r.expired}

----------------------------------------------------------------------------
\* The Agent

\* [only, id, type, carrier]; an id and its type are as good as the id
Options ==
    {[only |-> TRUE, id |-> None, type |-> None, carrier |-> c] : c \in Carriers}
    \cup {o \in [only : {FALSE}, id : {None} \cup stored, type : {None} \cup Types, carrier : Carriers] :
            o.id = None \/ o.type = None}

Named(o) == o.id # None \/ o.type # None

\* implicit_credential_methods: those before aep-jwt, unless a credential is asked for
Candidates(o) ==
    LET before == {i \in DOMAIN inspected.methods :
                    \A j \in 1..i : inspected.methods[j] # "aep-jwt"}
    IN IF Named(o) THEN DOMAIN inspected.methods ELSE before

\* find_credential: the one that is named, or one of the first method that has any
Choices(o) ==
    LET of(i) == {r \in Wallet :
                    /\ r.type = inspected.methods[i]
                    /\ o.type \in {None, r.type}
                    /\ o.id \in {None, r.id}}
        having == {i \in Candidates(o) : of(i) # {}}
    IN IF o.only \/ having = {} THEN {} ELSE of(CHOOSE i \in having : \A j \in having : i <= j)

NewCall(method, used, headers) ==
    [step |-> "made", method |-> method, used |-> used, headers |-> headers, extra |-> None,
     combined |-> FALSE, changed |-> FALSE, outcome |-> None]

Begin(new) ==
    /\ call = None /\ calls < MaxCalls
    /\ call' = new
    /\ calls' = calls + 1
    /\ UNCHANGED <<service, inspected, records, stored, enrolled, events>>

\* authentication; a request that is not made is no call
AuthenticateWithCredential(o) ==
    \E r \in Choices(o) :
        LET headers == Presented(r.type, r.field, r.text, o.carrier) IN
        /\ headers # NoHeaders
        /\ Begin(NewCall(r.type, r.id, headers))

Assertion == Text("aep", "token", "assertion")

AuthenticateWithAssertion(o) ==
    /\ Choices(o) = {} /\ ~Named(o)
    /\ "aep-jwt" \in Methods(inspected)
    /\ Begin(NewCall("aep-jwt", None, Presented("aep-jwt", None, Assertion, o.carrier)))

\* the application sends its request, with a header field of its own; a relay may combine
\* the lines of a field
Send(extra, combined) ==
    /\ call # None /\ call.step = "made"
    /\ combined => extra # None
    /\ LET headers == IF extra = None THEN call.headers
                      ELSE Appended(call.headers, extra.field, extra.text)
       IN call' = [call EXCEPT
                    !.step = "sent", !.extra = extra, !.combined = combined,
                    !.headers = IF combined THEN Combined(headers) ELSE headers]
    /\ UNCHANGED <<service, inspected, records, stored, enrolled, calls, events>>

----------------------------------------------------------------------------
\* The Service

Principal(agent, method, id) == [agent |-> agent, method |-> method, id |-> id, code |-> None]

\* authentication_failure
Failure(code) == [agent |-> None, method |-> None, id |-> None, code |-> code]

\* whether an enrollment is active; the others' are
Active(agent) == agent = "me" => enrolled

\* the branch of an assertion; the layer's origin is where it takes the resource to be
ByAssertion ==
    IF "aep-jwt" \notin Methods(service) THEN Failure("unsupported_authentication_method")
    ELSE IF service.origin # "service" \/ ~enrolled THEN Failure("not_recognized")
    ELSE Principal("me", "aep-jwt", None)

\* the methods whose handlers authenticate the request, of which the first decides
Matched ==
    {i \in DOMAIN service.methods :
        /\ service.methods[i] \in Types
        /\ Matching(service.methods[i], call.headers, records) # {}}

\* has_presentation, of a handler
HasPresentation ==
    \E i \in DOMAIN service.methods :
        /\ service.methods[i] \in Types
        /\ Presentations(service.methods[i], call.headers, records) # {}

\* the branch of session credentials
BySession(selected) ==
    IF selected.kind = "session" /\ selected.method \notin Methods(service)
    THEN {Failure("unsupported_authentication_method")}
    ELSE IF Matched = {}
    THEN {Failure(IF selected.kind = "session" \/ HasPresentation
                  THEN "not_recognized" ELSE "authentication_required")}
    ELSE LET method == service.methods[CHOOSE i \in Matched : \A j \in Matched : i <= j] IN
         {IF Active(r.agent) THEN Principal(r.agent, method, r.id) ELSE Failure("not_recognized") :
            r \in Matching(method, call.headers, records)}

\* authenticate_protected_resource
Authenticate ==
    LET selected == Select(call.headers) IN
    IF selected.kind = "refused" THEN {Failure("not_recognized")}
    ELSE IF selected.kind = "aep"
    THEN {IF selected.secret = Assertion.secret THEN ByAssertion ELSE Failure("not_recognized")}
    ELSE BySession(selected)

\* the layer's call
Serve ==
    /\ call # None /\ call.step = "sent"
    /\ \E outcome \in Authenticate :
        call' = [call EXCEPT !.step = "served", !.outcome = outcome]
    /\ UNCHANGED <<service, inspected, records, stored, enrolled, calls, events>>

Return ==
    /\ call # None /\ call.step = "served"
    /\ call' = None
    /\ UNCHANGED <<service, inspected, records, stored, enrolled, calls, events>>

----------------------------------------------------------------------------
\* What happens meanwhile

Event ==
    /\ events < MaxEvents /\ events' = events + 1
    /\ call' = IF call = None THEN None ELSE [call EXCEPT !.changed = TRUE]
    /\ call # None => call.step # "served"
    /\ UNCHANGED <<stored, calls>>

Reconfigure ==
    /\ Event
    /\ service' \in {s \in Services : Configurable(s)} \ {service}
    /\ UNCHANGED <<inspected, records, enrolled>>

\* the Agent inspects the Service again
Reinspect ==
    /\ call = None /\ inspected # service
    /\ inspected' = service
    /\ UNCHANGED <<service, records, stored, enrolled, call, calls, events>>

\* revoked by another client of the Agent's, or expired
Lose(r) ==
    /\ Event
    /\ ~r.revoked /\ ~r.expired
    /\ records' \in {(records \ {r}) \cup {[r EXCEPT !.revoked = TRUE]},
                     (records \ {r}) \cup {[r EXCEPT !.expired = TRUE]}}
    /\ UNCHANGED <<service, inspected, enrolled>>

SetStatus ==
    /\ Event
    /\ enrolled' = ~enrolled
    /\ UNCHANGED <<service, inspected, records>>

Next ==
    \/ \E c \in Issuable : Grant(c)
    \/ \E o \in Options : AuthenticateWithCredential(o) \/ AuthenticateWithAssertion(o)
    \/ \E extra \in Extras, combined \in BOOLEAN : Send(extra, combined)
    \/ Serve \/ Return
    \/ Reconfigure \/ Reinspect \/ SetStatus
    \/ \E r \in records : Lose(r)

Spec == Init /\ [][Next]_vars

----------------------------------------------------------------------------
Used == CHOOSE r \in records : r.id = call.used

\* the Service is not as the Agent knows it
Outdated ==
    \/ call.changed \/ inspected # service \/ ~enrolled
    \/ call.used # None /\ (Used.revoked \/ Used.expired)

\* what an added header field can be taken for: another line of the Agent's, an
\* authorization, though not one in the standard field that cannot be read, or an API key
\* in a field of one
Competes(extra) ==
    \/ call.headers[extra.field] # <<extra.text>>
    \/ extra.field = "aep-authorization"
    \/ extra.field = "authorization" /\ extra.text.scheme \in Schemes
    \/ extra.field \in KeyFields(records)

\* credentials that can be granted and not presented: an API key in the dedicated field,
\* or one in the standard field that is the name of a scheme; a token with a comma, in the
\* dedicated field
Unpresentable ==
    /\ call.used # None
    /\ LET sent == {f \in Fields : call.headers[f] # <<>>} IN
        \/ call.method = "api-key" /\ Used.field = "aep-authorization"
        \/ call.method = "api-key" /\ Used.field = "authorization" /\ Used.text.scheme \in Schemes
        \/ Used.text.form = "comma" /\ "aep-authorization" \in sent

AsMeant ==
    /\ call.outcome.agent = "me"
    /\ call.outcome.method = call.method
    /\ call.outcome.id = call.used

\* A request that an Agent has authenticated is one of that Agent, by what it has chosen,
\* for the Service, unless the Service has changed, the application has added a field that
\* competes with it, the credential cannot be presented where it was, or the layer takes
\* another origin for the Service's.  What the application adds is never taken for an
\* authorization in the place of one of the Agent's in either carrier
\* (authentication.rs:139-208, credentials.rs:440-500, service.rs:303-394).
PresentationsUnderstood ==
    call # None /\ call.step = "served" =>
        /\ \/ AsMeant
           \/ Outdated \/ Unpresentable
           \/ call.extra # None /\ Competes(call.extra)
           \/ call.method = "aep-jwt" /\ service.origin # "service"
        /\ call.outcome.code = None /\ ~AsMeant =>
            /\ call.extra # None
            /\ "api-key" \in {call.method, call.outcome.method}

----------------------------------------------------------------------------
\* What makes it inductive: where the lines of a request come from

\* an id is given once, and a line says the same of one credential only
CredentialsDiffer ==
    /\ IsFiniteSet(records)
    /\ {r.id : r \in records} \cup stored \subseteq 0..(Cardinality(records) - 1)
    /\ \A r, s \in records : r.id = s.id => r = s
    /\ \A r, s \in records :
        /\ r.type = s.type /\ r.field = s.field
        /\ SecretOf(r.type, r.text) = SecretOf(s.type, s.text)
        => r = s

SchemeOf(type) == IF type = "basic" THEN "basic" ELSE "bearer"

\* tokens and Basic credentials have a field and a scheme of their own
Placed(c) == c.type # "api-key" => c.field = "authorization" /\ c.text.scheme = SchemeOf(c.type)

CredentialsProper ==
    \A r \in records :
        /\ DOMAIN r = {"id", "agent", "type", "field", "text", "revoked", "expired"}
        /\ r.type \in Types /\ r.field \in Fields
        /\ ValidGrant(r) /\ Placed(r)
        /\ r.id \in stored => r.agent = "me"

\* what the Agent presents, in which field
Chosen(field, text) ==
    \/ /\ call.method = "aep-jwt" /\ call.used = None
       /\ text = Assertion /\ field \in {FieldOf(c) : c \in Carriers}
    \/ \E r \in records :
        /\ r.id \in stored /\ call.used = r.id /\ call.method = r.type
        /\ text = r.text
        /\ IF r.type = "api-key" THEN field = r.field
           ELSE Renders(text.form) /\ field \in {FieldOf(c) : c \in Carriers}

\* its line, with what has been added
Arriving(field, text) ==
    LET own == OneHeader(field, text)
        both == Appended(own, call.extra.field, call.extra.text)
    IN IF call.extra = None THEN own ELSE IF call.combined THEN Combined(both) ELSE both

RequestAuthenticated ==
    call # None =>
        /\ DOMAIN call = {"step", "method", "used", "headers", "extra", "combined", "changed", "outcome"}
        /\ call.step \in {"made", "sent", "served"}
        /\ call.extra \in Extras \cup {None}
        /\ call.step = "made" => call.extra = None
        /\ call.method \in Methods(inspected)
        /\ \E field \in Fields : \E text \in {Assertion} \cup {r.text : r \in records} :
            Chosen(field, text) /\ call.headers = Arriving(field, text)

ResourceInvariant ==
    /\ {service, inspected} \subseteq {s \in Services : Configurable(s)}
    /\ CredentialsDiffer /\ CredentialsProper
    /\ RequestAuthenticated
    /\ PresentationsUnderstood
=============================================================================
