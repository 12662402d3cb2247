---------------------------- MODULE MCEnrollment ----------------------------
(***************************************************************************)
(* An Agent at a Service, for TLC: enrollments of Enrollment, or what goes *)
(* before and after one in Introductions.  They share no variable, so one  *)
(* of them runs.                                                           *)
(***************************************************************************)
EXTENDS Enrollment, Encounters, TLC

CONSTANTS c1, c2, v1, v2, d1, d2, d3, ImproperWord

\* a request that lacks the required claim and names an unknown document, one that
\* says nothing of documents, one that declares the required document, and one that
\* declares none of them
MCRequests ==
    {[claims |-> c2 :> v1, acks |-> {d1, d2, d3}],
     [claims |-> c1 :> v1, acks |-> None],
     [claims |-> c1 :> v2, acks |-> {d1}],
     [claims |-> c1 :> v1 @@ c2 :> v2, acks |-> {}]}

TaskSymmetry == Permutations(Tasks)

----------------------------------------------------------------------------
\* Introductions: the usual configuration, and those that differ from it in one thing

Inspect == INSTANCE InspectDocuments WITH None <- Nothing

MCDid(host, port, path) == [method |-> "web", host |-> host, port |-> port, path |-> path]
MCAt(scheme, host, port) == [scheme |-> scheme, host |-> host, port |-> port]
MCGrant(type, handled, config) == [type |-> type, handled |-> handled, config |-> config]

MCDescriptor(id, medias, url) ==
    [id |-> id, representations |-> [i \in DOMAIN medias |-> [media |-> medias[i], url |-> url]]]

MCUsual ==
    LET limits == [bytes |-> 2, members |-> 2, depth |-> 2, length |-> 2] IN
    [Inspect!ServiceOptions(MCDid("service", Nothing, Nothing), MCAt("https", "service", Nothing), limits) EXCEPT
        !.methods = <<"aep-jwt", "basic">>,
        !.grants = <<MCGrant("api-key", TRUE, Nothing), MCGrant("basic", TRUE, "true")>>,
        !.claims = [required |-> <<"email">>, preferred |-> <<>>, optional |-> <<"username">>],
        !.extensions = {"documents"}]

MCDids ==
    {MCDid("service", Nothing, "plain"), MCDid("service", Nothing, "odd"),
     MCDid("localhost", Nothing, Nothing), [MCDid("service", Nothing, Nothing) EXCEPT !.method = "key"],
     [MCDid("service", Nothing, Nothing) EXCEPT !.method = Nothing]}

MCGrantLists ==
    {<<>>, <<MCGrant("basic", TRUE, Nothing)>>, <<MCGrant("basic", TRUE, "true"), MCGrant("api-key", FALSE, Nothing)>>,
     <<MCGrant("basic", TRUE, "false"), MCGrant("basic", TRUE, Nothing)>>, <<MCGrant(ImproperWord, TRUE, Nothing)>>}

MCDocumentLists ==
    LET html == <<"text/html">>
        both == <<"text/html", "application/json">>
    IN {<<MCDescriptor("terms", html, "https")>>, <<MCDescriptor("terms", both, "loopback")>>,
        <<MCDescriptor("terms", html, "http")>>, <<MCDescriptor("terms", html \o html, "https")>>, <<>>,
        <<MCDescriptor("terms", both, "https"), MCDescriptor("terms", html, "https")>>,
        <<MCDescriptor(EmptyWord, html, "https")>>}

MCServices ==
    {MCUsual}
    \cup {[MCUsual EXCEPT !.did = d] : d \in MCDids}
    \cup {[MCUsual EXCEPT !.did = MCDid("localhost", "8443", Nothing), !.at = MCAt(s, "localhost", "8443")] :
            s \in {"http", "https"}}
    \cup {[MCUsual EXCEPT !.did = MCDid(ImproperWord, Nothing, Nothing), !.at = MCAt("https", ImproperWord, Nothing)]}
    \cup {[MCUsual EXCEPT !.identities = i] : i \in {<<>>, <<"other">>, <<"other", "did:web">>}}
    \cup {[MCUsual EXCEPT !.algorithms = a] : a \in {<<"EdDSA">>, <<"ES256", "EdDSA", "other">>}}
    \cup {[MCUsual EXCEPT !.methods = m] : m \in {<<>>, <<"basic", "basic">>, <<"oauth-bearer">>}}
    \cup {[MCUsual EXCEPT !.methods = <<>>, !.grants = g] : g \in MCGrantLists}
    \cup {[MCUsual EXCEPT !.claims.required = c] : c \in {<<>>, <<"email", "username">>, <<ImproperWord>>}}
    \cup {[MCUsual EXCEPT !.limits.members = m] : m \in 0..1}
    \cup {[MCUsual EXCEPT !.documents = d] : d \in MCDocumentLists}
    \cup {[MCUsual EXCEPT !.extensions = e] : e \in {{}, {"relative"}}}
    \cup {[MCUsual EXCEPT !.base = "improper"]}
    \cup {[MCUsual EXCEPT !.openapi = [url |-> u, equivalent |-> TRUE]] :
            u \in {"relative", "https", "loopback", "http", "user", "fragment", "opaque", "blank", "network"}}
    \cup {[MCUsual EXCEPT !.openapi = [url |-> "relative", equivalent |-> FALSE]]}

MCLater ==
    {[MCUsual EXCEPT !.methods = <<>>, !.grants = <<>>],
     [MCUsual EXCEPT !.grants = <<MCGrant("basic", TRUE, Nothing)>>],
     [MCUsual EXCEPT !.claims.required = <<"email", "username">>],
     [MCUsual EXCEPT !.limits.members = 1]}

\* the last two are refused
MCAgents ==
    LET usual == Inspect!ClientOptions([method |-> "did:web", algorithms |-> {"ES256"}]) IN
    {usual, [usual EXCEPT !.loopback = TRUE],
     [usual EXCEPT !.keys = "blank", !.identity.algorithms = {"EdDSA", "other"}],
     [usual EXCEPT !.lifetime.seconds = 301], [usual EXCEPT !.timeout = 0]}

MCReferences ==
    LET R(kind, url, did, user) == [kind |-> kind, url |-> url, did |-> did, user |-> user]
    IN {R("url", MCAt(s, "localhost", "8443"), Nothing, FALSE) : s \in {"http", "https"}}
       \cup {R("bare", MCAt("https", h, "8443"), Nothing, FALSE) : h \in {"localhost", "127.0.0.1"}}
       \cup {R("did", Nothing, d, FALSE) :
                d \in {MCUsual.did, MCDid("localhost", "8443", Nothing), MCDid("service", Nothing, "odd"),
                      MCDid(ImproperWord, Nothing, Nothing)}}
       \cup {R("url", MCAt("https", "service", Nothing), Nothing, u) : u \in BOOLEAN}
       \cup {R("url", MCAt("http", "service", Nothing), Nothing, FALSE)}

\* a portable document as it should be, and one thing after the other that is not
MCReplies ==
    LET usual == [status |-> TRUE, media |-> TRUE, charset |-> Nothing, identity |-> TRUE,
                  document |-> [size |-> TRUE, known |-> TRUE, id |-> "terms", blocks |-> 3, summary |-> Nothing,
                                depth |-> 2, items |-> {1}]]
    IN {usual, [usual EXCEPT !.document.id = "other"], [usual EXCEPT !.charset = "latin-1"],
        [usual EXCEPT !.document.depth = 3]}

MCTemplates ==
    LET v == Variable IN
    {<<<<"a", v>>, <<v, "b">>, <<"a", "b">>>>, <<<<v, "b">>, <<v, v>>, <<"a", v>>>>,
     <<<<v, v>>, <<v, v>>, <<"a", "c">>>>, <<<<"a", v>>, <<"a", v>>, <<"a", "b">>>>,
     <<<<"a", "">>, <<"a">>, <<"a", v>>>>}

MCSecurities ==
    {Nothing, <<>>, <<{}>>, <<{"k"}>>, <<{"k", "t"}>>, <<{"t"}, {"k"}>>, <<{"t"}, {"k", "t"}>>, <<{"t"}, {}>>}

MCWishes ==
    LET size(n) == [bytes |-> 1, members |-> n, depth |-> 1, length |-> 1]
        values == {"email" :> "proper", "email" :> "proper" @@ "username" :> "odd",
                   "email" :> "odd", "email" :> "proper" @@ "username" :> "blank"}
    IN
    {Inspect!EnrollOptions(v, size(Cardinality(DOMAIN v)), Nothing) : v \in values}
    \cup {Inspect!GrantOptions(Nothing, p, Nothing) : p \in {<<"oauth-bearer", "basic">>, <<"oauth-bearer">>}}
    \cup {Inspect!GrantOptions("api-key", <<>>, "given")}
    \cup {Inspect!RevokeOptions(t, FALSE, Nothing) : t \in {Nothing, "basic"}}
    \cup {Inspect!RevokeOptions(t, TRUE, "given") : t \in {"api-key", "basic"}}
    \cup {[op |-> "status"], [op |-> "openapi"]}
    \cup {[op |-> "document", reply |-> r] : r \in MCReplies}

\* every path among every list of templates, and every security of one operation
MCOperations ==
    LET Q(t, p, s) == [op |-> "operation", templates |-> t, path |-> p, root |-> <<{"k"}>>,
                       security |-> [i \in 1..3 |-> s], supported |-> {"k"}]
        most == <<<<"a", Variable>>, <<Variable, "b">>, <<"a", "b">>>>
    IN {Q(t, p, Nothing) : t \in MCTemplates, p \in {<<"a", "b">>, <<"a", "">>, <<"c", "b">>}}
       \cup {Q(most, <<"a", "b">>, s) : s \in MCSecurities}

MCInit == Init /\ Introduction!Init

\* nothing has happened yet, from one of the initial states
NoEnrollment == clock = 0 /\ \A t \in Tasks : pc[t] = "idle"
NoIntroduction == reference = Nothing /\ service = MCUsual /\ agent.identity.method = "did:web"
    /\ agent.identity.algorithms = {"ES256"} /\ ~agent.loopback

MCNext ==
    \/ NoIntroduction /\ Next /\ UNCHANGED introductionVars
    \/ NoEnrollment /\ Introduction!Next /\ UNCHANGED vars

MCSpec == MCInit /\ [][MCNext]_<<vars, introductionVars>>
=============================================================================
