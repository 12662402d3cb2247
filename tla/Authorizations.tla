--------------------------- MODULE Authorizations ---------------------------
(***************************************************************************)
(* The header fields that authorize a request for a protected resource:    *)
(* what an Agent renders and a Service parses (crates/aep-core/src/http.rs,*)
(* crates/aep-service/src/authentication.rs, credentials.rs,               *)
(* crates/aep-agent/src/authentication.rs).                                *)
(*                                                                         *)
(* The text of a line is [scheme, form, secret]: scheme is what stands     *)
(* before the first space, if it is one of the three; form is "bare" when  *)
(* there is no space, and else says of what follows the space whether it   *)
(* is one "token", one with a "comma", or "spaced".  Headers map a field   *)
(* to the sequence of its lines.                                           *)
(***************************************************************************)
EXTENDS Naturals, Sequences, FiniteSets

CONSTANTS
    Fields,     \* the two of Carriers, and those of API keys
    None

Schemes == {"aep", "bearer", "basic"}
Carriers == {"standard", "dedicated"}

\* protected_resource_authorization_header
FieldOf(carrier) == IF carrier = "standard" THEN "authorization" ELSE "aep-authorization"

Text(scheme, form, secret) == [scheme |-> scheme, form |-> form, secret |-> secret]

\* is_credential_token, of credentials of this form
IsCredentialToken(form) == form \in {"token", "comma"}

\* parse_protected_resource_authorization
Parses(text, carrier) ==
    /\ carrier = "dedicated" => text.form # "comma"
    /\ text.scheme \in Schemes
    /\ IsCredentialToken(text.form)

\* render_protected_resource_authorization, which asks for a token only
Renders(form) == IsCredentialToken(form)

NoHeaders == [f \in Fields |-> <<>>]

\* one_header
OneHeader(field, text) == [NoHeaders EXCEPT ![field] = <<text>>]

\* what an application or a relay makes of them
Appended(headers, field, text) == [headers EXCEPT ![field] = Append(@, text)]

\* the lines of every field in one, as RFC 9110 lets a relay do
Combined(headers) ==
    [f \in Fields |->
        IF Len(headers[f]) < 2 THEN headers[f]
        ELSE <<Text(headers[f][1].scheme, "spaced", None)>>]

----------------------------------------------------------------------------
Selection(kind, method, secret) == [kind |-> kind, method |-> method, secret |-> secret]

Selected(text) ==
    IF text.scheme = "aep" THEN Selection("aep", "aep-jwt", text.secret)
    ELSE Selection("session", IF text.scheme = "bearer" THEN "oauth-bearer" ELSE "basic", text.secret)

\* Fault: the dedicated field hides the other.
SelectDedicatedFirst(headers) ==
    LET dedicated == headers["aep-authorization"]
        standard == headers["authorization"]
    IN
    IF Len(dedicated) = 1 /\ Parses(dedicated[1], "dedicated") THEN Selected(dedicated[1])
    ELSE IF Len(standard) = 1 /\ Parses(standard[1], "standard") THEN Selected(standard[1])
    ELSE Selection("none", None, None)

\* select_authorization
Select(headers) ==
    LET dedicated == headers["aep-authorization"]
        standard == headers["authorization"]
        alone == Len(standard) = 1 /\ Parses(standard[1], "standard")
    IN
    IF Len(dedicated) > 1 \/ Len(standard) > 1 THEN Selection("refused", None, None)
    ELSE IF Len(dedicated) = 1
    THEN IF Parses(dedicated[1], "dedicated") /\ ~alone THEN Selected(dedicated[1])
         ELSE Selection("refused", None, None)
    ELSE IF standard = <<>> THEN Selection("none", None, None)
    ELSE IF alone THEN Selected(standard[1])
    ELSE Selection(IF standard[1].scheme \in Schemes THEN "refused" ELSE "unrelated", None, None)

----------------------------------------------------------------------------
\* presentations of a grant type: what the lines that count for it say of a secret;
\* records, [type, field, text, revoked, expired], has every credential ever issued

SecretOf(type, text) == IF type = "api-key" THEN text ELSE text.secret

Lines(headers, field) == {[field |-> field, at |-> i] : i \in DOMAIN headers[field]}

KeyFields(records) == {r.field : r \in {r \in records : r.type = "api-key"}}

Presentations(type, headers, records) ==
    IF type = "api-key"
    THEN {[field |-> l.field, line |-> l, secret |-> headers[l.field][l.at]] :
            l \in UNION {Lines(headers, f) : f \in KeyFields(records)}}
    ELSE {[field |-> "authorization", line |-> l, secret |-> headers[l.field][l.at].secret] :
            l \in UNION {{l \in Lines(headers, FieldOf(c)) :
                            /\ Parses(headers[l.field][l.at], c)
                            /\ Selected(headers[l.field][l.at]).method = type} : c \in Carriers}}

\* MemoryServiceCredentialStore::authenticate: the records that match the only one
Matching(type, headers, records) ==
    LET found == Presentations(type, headers, records) IN
    {r \in records :
        /\ r.type = type /\ ~r.revoked /\ ~r.expired
        /\ Cardinality(found) = 1
        /\ \E p \in found : r.field = p.field /\ SecretOf(type, r.text) = p.secret}

\* credential_authentication, and the end of authentication: the headers that present a
\* credential or an assertion; without any line when it cannot be rendered
Presented(type, field, text, carrier) ==
    IF type = "api-key" THEN OneHeader(field, text)
    ELSE IF Renders(text.form) THEN OneHeader(FieldOf(carrier), text)
    ELSE NoHeaders
=============================================================================
