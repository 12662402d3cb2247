---------------------------- MODULE HttpCommands ----------------------------
(***************************************************************************)
(* A command over HTTP: an Agent renders it (execute_raw of                *)
(* crates/aep-agent/src/commands.rs), an intermediary may add to its       *)
(* fields, the Service's adapter takes it apart and dispatches it          *)
(* (crates/aep-tower/src/command.rs, mounted by crates/aep-axum), and the  *)
(* Agent reads the answer.  Others ask whatever they like.                 *)
(*                                                                         *)
(* A field is the sequence of its lines.  "mine" is the Agent's own value  *)
(* in one, "foreign" an assertion or an idempotency key of somebody else,  *)
(* "unrelated" what is none.  What a command does is CommandExchange's and *)
(* ServiceCredentials'; here the Service executes it, refuses it or fails. *)
(***************************************************************************)
EXTENDS Naturals, Sequences

CONSTANTS
    Mounts,         \* [base, limit] a Service may be mounted with
    Paths,          \* what others may ask for
    Sizes,          \* of the bodies of the Agent's requests
    MaxRequests,    \* bound of the requests
    MaxEvents,      \* bound of what happens meanwhile
    None

VARIABLES
    mount,      \* where the Service's adapter is mounted, and its limit of a body
    inspected,  \* the endpoint base the Agent has inspected
    request,    \* the request under way, or None
    answer,     \* to it, or None
    executed,   \* what the Service has executed of it, or None
    reading,    \* what the Agent has made of the answer, or None
    requests,   \* how many have been made
    events      \* how often something has happened

vars == <<mount, inspected, request, answer, executed, reading, requests, events>>

Bodied == {"enroll", "grant", "revoke"}
Operations == Bodied \cup {"status"}

\* is_endpoint_path
ProperBase(base) == base.proper

\* normalize_endpoint_base: with one slash at its end or without it, it is the same base
Normalized(base) == base.name

\* command_path, as an URL encodes it
CommandPath(base, op) == <<Normalized(base), op>>

WellKnown == <<"well-known", "aep">>

Init ==
    /\ mount \in {m \in Mounts : ProperBase(m.base)}
    /\ inspected = mount.base
    /\ request = None /\ answer = None /\ executed = None /\ reading = None
    /\ requests = 0 /\ events = 0

----------------------------------------------------------------------------
Ask(r) ==
    /\ request = None /\ requests < MaxRequests
    /\ request' = r
    /\ requests' = requests + 1
    /\ UNCHANGED <<mount, inspected, answer, executed, reading, events>>

\* relayed is a ghost: whether an intermediary has added to it
Request(verb, path, op, size) ==
    [verb |-> verb, path |-> path, op |-> op, size |-> size, relayed |-> FALSE,
     authorization |-> <<>>, key |-> <<>>, type |-> <<>>]

\* execute_raw, up to the transport
Execute(op) ==
    \E size \in IF op \in Bodied THEN Sizes ELSE {0} :
        Ask([Request(IF op \in Bodied THEN "POST" ELSE "GET", CommandPath(inspected, op), op, size)
                EXCEPT !.authorization = <<"mine">>,
                       !.key = IF op \in Bodied THEN <<"mine">> ELSE <<>>,
                       !.type = IF op \in Bodied THEN <<"aep">> ELSE <<>>])

\* another client, with an assertion of its own or none
Visit ==
    \E verb \in {"GET", "HEAD", "POST", "PUT"}, path \in Paths, a \in {<<>>, <<"foreign">>} :
        Ask([Request(verb, path, "visit", 1)
                EXCEPT !.authorization = a, !.key = <<"foreign">>, !.type = <<"aep">>])

\* an intermediary adds a line to a field, before or after what is there
Relay(field) ==
    /\ request # None /\ answer = None /\ events < MaxEvents
    /\ events' = events + 1
    /\ \E value \in {"foreign", "unrelated"} :
        request' \in {[request EXCEPT ![field] = <<value>> \o @, !.relayed = TRUE],
                      [request EXCEPT ![field] = Append(@, value), !.relayed = TRUE]}
    /\ UNCHANGED <<mount, inspected, answer, executed, reading, requests>>

----------------------------------------------------------------------------
\* The adapter

\* Fault: the first line counts.
FirstLine(lines) == IF lines = <<>> THEN None ELSE lines[1]

\* header_value: none but the only one
OnlyLine(lines) == IF Len(lines) = 1 THEN lines[1] ELSE None

\* client_assertion: of an authorization with the scheme AEP
ClientAssertion(lines) == IF OnlyLine(lines) \in {"mine", "foreign"} THEN OnlyLine(lines) ELSE None

\* is_aep_content_type
IsAepContentType(lines) == OnlyLine(lines) = "aep"

Endpoints ==
    {[op |-> "inspect", verb |-> "GET", path |-> WellKnown],
     [op |-> "status", verb |-> "GET", path |-> CommandPath(mount.base, "status")]}
    \cup {[op |-> op, verb |-> "POST", path |-> CommandPath(mount.base, op)] : op \in Bodied}

\* route, of those the router knows by their paths
Found == {e \in Endpoints : e.path = request.path}
Allows(e) ==
    \/ request.verb = e.verb
    \/ e.verb = "GET" /\ request.verb = "HEAD"

Response(status, type) == [status |-> status, type |-> type, says |-> status, allow |-> None]

\* problem_response and problem; empty_response; success
Problem(status) == Response(status, "problem")
Empty(status) == Response(status, None)
Success == Response(200, "aep")

\* method_not_allowed
NotAllowed(e) == [Problem(405) EXCEPT !.allow = IF e.verb = "GET" THEN {"GET", "HEAD"} ELSE {"POST"}]

\* head_response: without the content
WithoutContent(response) == [response EXCEPT !.says = None]
ToVerb(response) == IF request.verb = "HEAD" THEN WithoutContent(response) ELSE response

Waiting == request # None /\ answer = None

Respond(response, done) ==
    /\ answer' = ToVerb(response)
    /\ executed' = done
    /\ UNCHANGED <<mount, inspected, request, reading, requests, events>>

\* dispatch: no endpoint, or not for this method
Unrouted ==
    /\ Waiting
    /\ \/ Found = {} /\ Respond(Empty(404), None)
       \/ \E e \in Found : ~Allows(e) /\ Respond(NotAllowed(e), None)

Routed(op) == Waiting /\ \E e \in Found : e.op = op /\ Allows(e)

Inspect == Routed("inspect") /\ Respond(Success, None)

\* authenticate_command and what comes of it; the store or the policy may fail, before
\* the command has taken effect or after it
Perform(op, assertion, key) ==
    LET done == [op |-> op, by |-> assertion, key |-> key] IN
    IF assertion = None THEN Respond(Problem(401), None)
    ELSE IF op \in Bodied /\ key = None THEN Respond(Problem(400), None)
    ELSE \/ Respond(Success, done)
         \/ \E status \in {401, 403, 409, 422} : Respond(Problem(status), done)
         \/ \E d \in {None, done} : Respond(Empty(500), d)

\* dispatch, of a status
Status == Routed("status") /\ Perform("status", ClientAssertion(request.authorization), None)

\* dispatch, of the other commands; collect_body and call. The body may break off.
Command(op) ==
    /\ Routed(op)
    /\ \/ /\ ~IsAepContentType(request.type)
          /\ Respond(Problem(400), None)
       \/ /\ IsAepContentType(request.type)
          /\ \/ Respond(Empty(500), None)
             \/ request.size > mount.limit /\ Respond(Problem(413), None)
             \/ /\ request.size <= mount.limit
                /\ Perform(op, ClientAssertion(request.authorization), OnlyLine(request.key))

----------------------------------------------------------------------------
\* execute_raw, of the answer
Read ==
    /\ answer # None /\ reading = None
    /\ reading' =
        IF answer.status \notin 200..299
        THEN IF answer.type = "problem" /\ answer.says = answer.status THEN "problem" ELSE "status"
        ELSE IF answer.type = "aep" THEN "success" ELSE "unread"
    /\ UNCHANGED <<mount, inspected, request, answer, executed, requests, events>>

Done ==
    /\ reading # None
    /\ request' = None /\ answer' = None /\ executed' = None /\ reading' = None
    /\ UNCHANGED <<mount, inspected, requests, events>>

\* the Service is mounted anew
Remount ==
    /\ events < MaxEvents /\ events' = events + 1
    /\ answer = None
    /\ mount' \in {m \in Mounts : ProperBase(m.base)} \ {mount}
    /\ UNCHANGED <<inspected, request, answer, executed, reading, requests>>

\* the Agent inspects the Service again
Reinspect ==
    /\ request = None /\ inspected # mount.base
    /\ inspected' = mount.base
    /\ UNCHANGED <<mount, request, answer, executed, reading, requests, events>>

Next ==
    \/ \E op \in Operations : Execute(op)
    \/ Visit
    \/ \E field \in {"authorization", "key", "type"} : Relay(field)
    \/ Unrouted \/ Inspect \/ Status
    \/ \E op \in Bodied : Command(op)
    \/ Read \/ Done
    \/ Remount \/ Reinspect

Spec == Init /\ [][Next]_vars

----------------------------------------------------------------------------
Moved == Normalized(inspected) # Normalized(mount.base)

AsSent ==
    /\ executed.op = request.op
    /\ executed.by = "mine"
    /\ executed.key = IF request.op \in Bodied THEN "mine" ELSE None

\* A Service executes of an Agent's command what the Agent has sent, and in its name, no
\* matter what an intermediary adds, and executes it unless something has been added, the
\* Service is mounted elsewhere, the body is above its limit or something has failed.  A
\* visitor's request is executed only for its assertion, and with a safe method only a
\* status.  Every refusal is a problem that the Agent can read, but of a path that is
\* none and of a failure (command.rs:80-150, 205-222, 238-300, commands.rs:436-459).
CommandsDelivered ==
    answer # None =>
        /\ executed # None /\ request.op # "visit" => AsSent
        /\ executed # None /\ request.op = "visit" =>
            /\ executed.by = "foreign"
            /\ request.verb # "POST" => executed.op = "status"
        /\ executed = None /\ request.op # "visit" =>
            \/ request.relayed \/ Moved
            \/ request.size > mount.limit
            \/ answer.status = 500
        /\ reading = "status" => request.verb = "HEAD" \/ answer.status \in {404, 500}
        /\ reading # "unread"

----------------------------------------------------------------------------
(***************************************************************************)
(* The inductive invariant behind it.                                      *)
(***************************************************************************)
Lines(field) == {request[field][i] : i \in DOMAIN request[field]}

\* What the Agent has written is among the lines that arrive, and alone if nothing is added;
\* a visitor has no line of the Agent's.
RequestsMade ==
    request # None =>
        /\ DOMAIN request = {"verb", "path", "op", "size", "relayed", "authorization", "key", "type"}
        /\ \A field \in {"authorization", "key", "type"} :
            request[field] \in Seq({"mine", "foreign", "unrelated", "aep"})
        /\ request.op # "visit" =>
            /\ request.op \in Operations
            /\ request.path = CommandPath(inspected, request.op)
            /\ request.verb = IF request.op \in Bodied THEN "POST" ELSE "GET"
            /\ request.size \in Sizes \cup {0}
            /\ "mine" \in Lines("authorization")
            /\ request.op \in Bodied => "mine" \in Lines("key")
            /\ ~request.relayed =>
                /\ request.authorization = <<"mine">>
                /\ request.op \in Bodied => request.key = <<"mine">> /\ request.type = <<"aep">>
        /\ request.op = "visit" => "mine" \notin Lines("authorization")

\* A success has its type; a problem says its status, but to a HEAD.
AnswersRead ==
    /\ answer # None =>
        /\ request # None
        /\ \/ answer.status = 200 /\ answer.type = "aep"
           \/ /\ answer.status \in {400, 401, 403, 405, 409, 413, 422} /\ answer.type = "problem"
              /\ answer.says = answer.status \/ request.verb = "HEAD"
           \/ answer.status \in {404, 500}
    /\ reading # None => answer # None

\* What requests, intermediaries and mounts preserve.
HttpInvariant ==
    /\ mount \in Mounts
    /\ RequestsMade /\ AnswersRead /\ CommandsDelivered

=============================================================================
