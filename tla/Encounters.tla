----------------------------- MODULE Encounters -----------------------------
(***************************************************************************)
(* How an Agent gets to know a Service and goes by what it has been told:  *)
(* Introductions, for Services, Agents, references and requests of which   *)
(* no more than their shape is assumed.                                    *)
(***************************************************************************)
EXTENDS Naturals, Sequences, FiniteSets

CONSTANTS
    Nothing, EmptyWord, ServiceDocuments,
    Improper, Loopback, Numeric, Variable,
    MaxMethods, MaxAssertion, MaxBlocks, MaxDepth,
    Services, Later, Agents, References, Wishes, Operations, MaxCalls, MaxEvents

VARIABLES
    service, agent, reference, session, known, identified, enrolled, call, calls, events

introductionVars ==
    <<service, agent, reference, session, known, identified, enrolled, call, calls, events>>

Introduction == INSTANCE Introductions WITH None <- Nothing, Requests <- Wishes

----------------------------------------------------------------------------
\* Lists are lists, limits and sizes are numbers of the same things, and a size is that of
\* the claims it comes with
IsList(s) == Len(s) \in Nat /\ s = [i \in 1..Len(s) |-> s[i]]

Configurations == Services \cup Later

ASSUME ConfigurationsHaveType ==
    \A s \in Configurations :
        /\ s.at = Introduction!Origin(s.at.scheme, s.at.host, s.at.port)
        /\ s.claims = [group \in {"required", "preferred", "optional"} |-> s.claims[group]]
        /\ IsList(s.grants)
        /\ \A m \in DOMAIN s.limits : s.limits[m] \in Nat
ASSUME WishesHaveType ==
    \A q \in Wishes :
        /\ q.op \in Introduction!Commands \cup {"openapi", "document"}
        /\ q.op = "grant" => IsList(q.preferred)
        /\ q.op = "enroll" =>
            /\ IsFiniteSet(DOMAIN q.values)
            /\ "members" \in DOMAIN q.size /\ q.size.members = Cardinality(DOMAIN q.values)
            /\ \A m \in DOMAIN q.size : q.size[m] \in Nat
            /\ \A s \in Configurations : DOMAIN s.limits = DOMAIN q.size
ASSUME OperationsHaveType ==
    \A q \in Operations :
        /\ q.op = "operation"
        /\ IsList(q.path)
        /\ IsList(q.templates) /\ \A i \in DOMAIN q.templates : IsList(q.templates[i])

\* What is there is not Nothing
ClaimsAsked == UNION {DOMAIN q.values : q \in {w \in Wishes : w.op = "enroll"}}

ASSUME NothingIsNotThere ==
    /\ \A s \in Configurations :
        /\ Nothing # s.at
        /\ Nothing # Introduction!Types(s) /\ \A i \in DOMAIN s.grants : Nothing # s.grants[i].type
        /\ \A group \in DOMAIN s.claims : Nothing # s.claims[group]
    /\ \A names \in SUBSET ClaimsAsked : Nothing # names
    /\ Nothing \notin References
    /\ Nothing \notin {"unread", "unbound", "unadvertised", "unidentified", "identity", "type",
                       "credential", "key", "values", "absent", "openapi"}

----------------------------------------------------------------------------
\* Their properties, which are stated in Introductions

\* A Service that can be built is found, and what is asked of it succeeds but for the reasons
\* that are named there.
ServicesUsable == Introduction!ServicesUsable

\* A request is taken for the operation that the OpenAPI document means, and credentials are
\* presented that let it pass.
OperationsResolved == Introduction!OperationsResolved

=============================================================================
