------------------------- MODULE MCCommandExchange -------------------------
(***************************************************************************)
(* What an Agent and a Service exchange, for TLC: the commands of          *)
(* CommandExchange, how HttpCommands carries one, or the requests of       *)
(* ProtectedResources.  They share no variable, so one of them runs.       *)
(***************************************************************************)
EXTENDS EndToEnd, Naturals, Sequences

CONSTANTS email, terms, review

\* the last is refused; the claims of the two before it are not, though they could be
MCConfigurations ==
    LET C(c, d, e) == [claims |-> c, documents |-> d, extension |-> e] IN
    {C(<<email>>, Nothing, FALSE), C(<<email>>, <<terms>>, TRUE),
     C(<<email, email>>, Nothing, TRUE), C(<<ServiceDocuments>>, <<terms>>, TRUE),
     C(<<email>>, <<terms>>, FALSE)}

\* nothing, proper lists, and the ways not to be proper
MCPendings ==
    LET P(o, q, v) == [owner |-> o, requirements |-> q, verification |-> v] IN
    {P(FALSE, <<>>, <<>>), P(TRUE, <<review>>, <<>>), P(FALSE, <<>>, <<review, review>>),
     P(FALSE, <<ServiceDocuments>>, <<review>>)}

MCOffers == {{}, {email, ServiceDocuments}}

\* the last is refused
MCMounts ==
    LET Base(name, proper) == [name |-> name, proper |-> proper] IN
    {[base |-> Base(n, TRUE), limit |-> l] : n \in {"aep", "other"}, l \in 1..2}
    \cup {[base |-> Base("..", FALSE), limit |-> 1]}

MCPaths ==
    {<<"well-known", "aep">>}
    \cup {<<"aep", op>> : op \in {"enroll", "grant", "revoke", "status", "list"}}

MCFields == {"authorization", "aep-authorization", "x-key"}

MCSizes == 1..2

MCServices ==
    LET S(methods, names, origin) == [methods |-> methods, names |-> names, origin |-> origin] IN
    {S(<<"api-key", "oauth-bearer", "aep-jwt", "basic">>, Nothing, "service"),
     S(<<"aep-jwt", "oauth-bearer">>, {"x-key"}, "other"),
     S(<<"basic", "basic">>, Nothing, "service")}

MCText(scheme, form, secret) == [scheme |-> scheme, form |-> form, secret |-> secret]

MCIssuable ==
    LET Of(agent, type, field, text) ==
            [agent |-> agent, type |-> type, field |-> field, text |-> text]
        Key(agent, field, scheme, k) == Of(agent, "api-key", field, MCText(scheme, "bare", k))
    IN
    {Key("other", f, Nothing, "k2") : f \in {"x-key", "authorization"}}
    \cup {Key("me", f, Nothing, "k1") : f \in {"x-key", "authorization", "aep-authorization"}}
    \cup {Key("me", "authorization", "aep", "k1"),
          Of("me", "basic", "authorization", MCText("basic", "token", "b1")),
          Of("other", "oauth-bearer", "authorization", MCText("bearer", "token", "t2"))}
    \cup {Of("me", "oauth-bearer", "authorization", MCText("bearer", form, "t1")) :
            form \in {"token", "comma", "spaced"}}

MCExtras ==
    LET E(f, scheme, form, secret) == [field |-> f, text |-> MCText(scheme, form, secret)] IN
    {Nothing,
     E("authorization", "bearer", "token", "t2"), E("authorization", Nothing, "spaced", "digest"),
     E("authorization", "aep", "spaced", "else"), E("authorization", Nothing, "bare", "k2"),
     E("aep-authorization", "bearer", "token", "t2"), E("aep-authorization", "aep", "token", "else"),
     E("x-key", Nothing, "bare", "k2")}

MCInit == Commands!Init /\ Http!Init /\ Resources!Init

\* nothing has happened yet, from one of the initial states
NoCommands == config = (CHOOSE c \in Commands!Accepted : TRUE) /\ document = Nothing /\ calls = 0 /\ edits = 0
NoHttp == mount = (CHOOSE m \in MCMounts : m.base.proper) /\ requests = 0 /\ relays = 0
NoResources ==
    /\ service = CHOOSE s \in MCServices : "api-key" \in Resources!Methods(s)
    /\ records = {} /\ presentations = 0 /\ changes = 0

MCNext ==
    \/ NoHttp /\ NoResources /\ Commands!Next /\ UNCHANGED <<httpVars, resourceVars>>
    \/ NoCommands /\ NoResources /\ Http!Next /\ UNCHANGED <<commandVars, resourceVars>>
    \/ NoCommands /\ NoHttp /\ Resources!Next /\ UNCHANGED <<commandVars, httpVars>>

MCSpec == MCInit /\ [][MCNext]_<<commandVars, httpVars, resourceVars>>

=============================================================================
