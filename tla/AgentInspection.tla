-------------------------- MODULE AgentInspection --------------------------
(***************************************************************************)
(* Session::inspect (crates/aep-agent/src/inspect.rs): sessions of one     *)
(* client inspect one Service through the MemoryInspectCache they share    *)
(* (store.rs), while the Service replaces its document and answers         *)
(* directly or through a relay that adds an Age.                           *)
(*                                                                         *)
(* A session inspects under its own lock, so a session is one inspection   *)
(* at a time.  The transport is its only await that takes time.  A         *)
(* document is its version, and a validator the version it was sent with.  *)
(* The response to a request was generated at some instant since the       *)
(* request, or before it in a relay; live tells what could be sent then.   *)
(***************************************************************************)
EXTENDS HttpCache

CONSTANTS
    Sessions,
    Urls,           \* the targets of the Service's origin
    InspectUrl,     \* the one that is advertised
    Elsewhere,      \* a target that safe_target refuses
    MaxRedirects,   \* MAXIMUM_REDIRECTS
    Redirects,      \* url -> where the Service may redirect it
    Policies,       \* what the Service may put in a response's headers
    Restored,       \* entries a custom cache may hand back
    MaxAge,         \* how old a relay's copy may be, in ticks
    LastVersion,    \* bound of the documents
    LastInstant,    \* bound of the clock
    LongestLifetime \* that a policy, or the default, grants, in seconds

ASSUME AdvertisedUrl == InspectUrl \in Urls /\ Elsewhere \notin Urls
ASSUME InspectionBounds ==
    /\ MaxRedirects \in Nat
    /\ MaxAge \in Nat
    /\ LastVersion \in Nat
    /\ LastInstant \in Nat
    /\ LongestLifetime \in Nat /\ DefaultLifetime <= LongestLifetime

\* what Cache-Control and Vary may say, here or in an entry of a custom cache
Controls == {p.control : p \in Policies} \cup {e.headers.control : e \in Restored}

Varies == {p.vary : p \in Policies} \cup {e.headers.vary : e \in Restored}

Headers ==
    [control : Controls, validator : Nat \cup {Absent}, vary : Varies,
     age : Nat \cup {Absent, Malformed}, date : Int \cup {Absent, Malformed},
     expires : Int \cup {Absent, Malformed}]

Entries ==
    [version : Nat, bound : BOOLEAN, cachedAt : Nat,
     finalUrl : Urls \cup {e.finalUrl : e \in Restored}, headers : Headers]

ASSUME AbsentIsNothing == Absent \notin Int /\ Malformed \notin Int /\ Absent # Malformed

\* A lifetime is a number of seconds where it parses.
ASSUME PoliciesHaveType ==
    \A p \in Policies :
        /\ p.age \in Nat \cup {Absent, Malformed}
        /\ p.expires \in Int \cup {Absent, Malformed}
        /\ p.expires \in Int => p.expires <= LongestLifetime
ASSUME MaxAgesHaveType ==
    \A c \in Controls \ {Absent, Malformed} :
        c.maxAges \in Seq(0..LongestLifetime \cup {Malformed})

\* A custom cache may return what it should not have kept, or what another Service said:
\* nothing can be said of a document it makes up for this one.
ASSUME RestoredAreForeign ==
    \A e \in Restored :
        /\ e \in Entries
        /\ ~e.bound \/ e.finalUrl \notin Urls \/ ~CacheStorable(e.headers)

VARIABLES
    clock,
    live,       \* instant -> the versions that were current in it
    cache,      \* MemoryInspectCache: url -> entry or Absent
    request,    \* session -> [cached, url, at, redirects] of its request under way, or Absent
    answer      \* session -> [version, at] it was last answered from the cache, or Absent

inspectVars == <<clock, live, cache, request, answer>>

Current == CHOOSE v \in live[clock] : \A w \in live[clock] : w <= v

InspectInit ==
    /\ clock = 0
    /\ live = [i \in 0..LastInstant |-> IF i = 0 THEN {0} ELSE {}]
    /\ \E e \in Restored \cup {Absent} :
        cache = [u \in Urls |-> IF u = InspectUrl THEN e ELSE Absent]
    /\ request = [s \in Sessions |-> Absent]
    /\ answer = [s \in Sessions |-> Absent]

----------------------------------------------------------------------------
SafeTarget(url) == url \in Urls

\* an entry a custom cache should not have kept
Unusable(e) == ~SafeTarget(e.finalUrl) \/ ~CacheStorable(e.headers)

\* Fault: an entry is fresh to the end of its lifetime, that instant included
FreshToTheEnd(e) ==
    /\ CacheStorable(e.headers)
    /\ "no-cache" \notin Directives(e.headers)
    /\ InitialAge(e.headers, e.cachedAt) + clock - e.cachedAt <= Lifetime(e.headers, e.cachedAt)

Fresh(e) == CacheFresh(e.headers, e.cachedAt, clock)

Forget(s) == answer' = [answer EXCEPT ![s] = Absent]

\* inspection_from_cache: an error unless the Service DID binds the origin
AnswerFromCache(s) ==
    LET e == cache[InspectUrl] IN
    /\ request[s] = Absent
    /\ e # Absent
    /\ ~Unusable(e)
    /\ Fresh(e)
    /\ answer' = [answer EXCEPT ![s] =
            IF e.bound THEN [version |-> e.version, at |-> clock] ELSE Absent]
    /\ UNCHANGED <<clock, live, cache, request>>

\* requested_at, inspect_transport.send
Send(s, e, url, redirects) ==
    request' = [request EXCEPT ![s] =
        [cached |-> e, url |-> url, at |-> clock, redirects |-> redirects]]

\* nothing, or nothing fresh, is cached
Revalidate(s) ==
    LET e == cache[InspectUrl] IN
    /\ request[s] = Absent
    /\ e # Absent => ~Unusable(e) /\ ~Fresh(e)
    /\ Send(s, e, IF e = Absent THEN InspectUrl ELSE e.finalUrl, 0)
    /\ Forget(s)
    /\ UNCHANGED <<clock, live, cache>>

\* the entry is deleted under both its keys
Discard(s) ==
    LET e == cache[InspectUrl] IN
    /\ request[s] = Absent
    /\ e # Absent
    /\ Unusable(e)
    /\ cache' = [u \in Urls |-> IF u \in {InspectUrl, e.finalUrl} THEN Absent ELSE cache[u]]
    /\ Send(s, Absent, InspectUrl, 0)
    /\ Forget(s)
    /\ UNCHANGED <<clock, live>>

----------------------------------------------------------------------------
\* headers of a response generated at an instant and then kept in a relay
HeadersOf(p, version, generated, age) ==
    [control   |-> p.control,
     validator |-> IF p.validated THEN version ELSE Absent,
     vary      |-> p.vary,
     age       |-> IF age = 0 THEN p.age ELSE WholeSecondsOf(age),
     date      |-> IF p.dated THEN Ticks(WholeSecondsOf(generated)) ELSE Absent,
     expires   |-> IF p.expires \in {Absent, Malformed} THEN p.expires
                   ELSE Ticks(WholeSecondsOf(generated) + p.expires)]

\* a redirect within the origin and the bound
Follow(s) ==
    LET r == request[s] IN
    /\ r # Absent
    /\ r.redirects < MaxRedirects
    /\ \E url \in Redirects[r.url] :
        /\ SafeTarget(url)
        /\ Send(s, r.cached, url, r.redirects + 1)
    /\ UNCHANGED <<clock, live, cache, answer>>

\* No answer, a bad status, media type, size or document, another Service's document,
\* a followed redirect, one too many or out of the origin, a 304 out of nowhere:
\* every error returns before the cache is touched.
GiveUp(s) ==
    /\ request[s] # Absent
    /\ request' = [request EXCEPT ![s] = Absent]
    /\ UNCHANGED <<clock, live, cache, answer>>

\* parse_response: the entry a document makes
NewEntry(s, version, headers) ==
    [version |-> version, bound |-> TRUE, cachedAt |-> clock, finalUrl |-> request[s].url,
     headers |-> CacheHeaders(headers, Absent, request[s].at, clock)]

\* the cached entry that a 304 confirms
ConfirmedEntry(s, headers) ==
    LET e == request[s].cached IN
    [e EXCEPT
        !.cachedAt = clock,
        !.finalUrl = request[s].url,
        !.headers = CacheHeaders(headers, e.headers, request[s].at, clock)]

\* the previous final URL is forgotten; the entry is saved, or deleted, under both keys
StoredAs(s, entry) ==
    LET previous == request[s].cached
        moved    == previous # Absent /\ previous.finalUrl \notin {InspectUrl, entry.finalUrl} IN
    [u \in Urls |->
        IF u \in {InspectUrl, entry.finalUrl}
        THEN IF CacheStorable(entry.headers) THEN entry ELSE Absent
        ELSE IF moved /\ u = previous.finalUrl THEN Absent ELSE cache[u]]

\* received_at, then the cache; an entry of another Service is an error before it
Conclude(s, entry) ==
    /\ request' = [request EXCEPT ![s] = Absent]
    /\ cache' = IF entry.bound THEN StoredAs(s, entry) ELSE cache
    /\ UNCHANGED <<clock, live, answer>>

\* the document, from the Service since the request or from a relay
ReceiveDocument(s) ==
    /\ request[s] # Absent
    /\ \E p \in Policies, sent \in request[s].at..clock, age \in 0..MaxAge :
        /\ age <= sent
        /\ age > 0 => p.relayed
        /\ \E v \in live[sent - age] :
            Conclude(s, NewEntry(s, v, HeadersOf(p, v, sent - age, age)))

\* 304, when the validator sent names the document
ReceiveUnchanged(s) ==
    /\ request[s] # Absent
    /\ request[s].cached # Absent
    /\ \E p \in Policies, sent \in request[s].at..clock, age \in 0..MaxAge :
        /\ age <= sent
        /\ age > 0 => p.relayed
        /\ \E v \in live[sent - age] :
            /\ request[s].cached.headers.validator = v
            /\ Conclude(s, ConfirmedEntry(s, HeadersOf(p, v, sent - age, age)))

----------------------------------------------------------------------------
Publish ==
    /\ Current < LastVersion
    /\ live' = [live EXCEPT ![clock] = @ \cup {Current + 1}]
    /\ UNCHANGED <<clock, cache, request, answer>>

Tick ==
    /\ clock < LastInstant
    /\ clock' = clock + 1
    /\ live' = [live EXCEPT ![clock + 1] = {Current}]
    /\ UNCHANGED <<cache, request, answer>>

InspectNext ==
    \/ \E s \in Sessions :
        \/ AnswerFromCache(s)
        \/ Revalidate(s)
        \/ Discard(s)
        \/ Follow(s)
        \/ GiveUp(s)
        \/ ReceiveDocument(s)
        \/ ReceiveUnchanged(s)
    \/ Publish
    \/ Tick

InspectSpec == InspectInit /\ [][InspectNext]_inspectVars

----------------------------------------------------------------------------
\* An inspection that is answered from the cache names a document the Service was
\* publishing less than its lifetime ago, however long the request took, whatever
\* a relay kept it for and whichever session stored it; Age and the delay of the
\* request are whole seconds, so each may be short by less than one.
FreshAnswers ==
    \A s \in Sessions :
        answer[s] # Absent =>
            \E i \in 0..answer[s].at :
                /\ answer[s].version \in live[i]
                /\ answer[s].at - i < Ticks(LongestLifetime) + 2 * (TicksPerSecond - 1)

----------------------------------------------------------------------------
(***************************************************************************)
(* The inductive invariant behind it.                                      *)
(***************************************************************************)
InspectionTypeOK ==
    /\ clock \in 0..LastInstant
    /\ live \in [0..LastInstant -> SUBSET Nat]
    /\ cache \in [Urls -> Entries \cup {Absent}]
    /\ request \in [Sessions ->
            [cached : Entries \cup {Absent}, url : Urls, at : 0..clock, redirects : Nat]
            \cup {Absent}]
    /\ answer \in [Sessions -> [version : Nat, at : 0..clock] \cup {Absent}]

\* The Service has a current document, and none for an instant to come.
DocumentsInOrder ==
    /\ \E v \in live[clock] : \A w \in live[clock] : w <= v
    /\ \A i \in 0..LastInstant : i > clock => live[i] = {}

\* Its document was current when the response was generated, and what the headers say of
\* its age, or of its expiry, follows from such an instant.
Sound(e) ==
    /\ e.cachedAt <= clock
    /\ e.headers.validator \in {e.version, Absent}
    /\ \E g \in 0..e.cachedAt :
        /\ e.version \in live[g]
        /\ Age(e.headers) # Malformed =>
            e.cachedAt - g <= Ticks(Age(e.headers)) + 2 * (TicksPerSecond - 1)
    /\ e.headers.expires \in Int =>
        \E g \in 0..e.cachedAt :
            /\ e.version \in live[g]
            /\ e.headers.expires <= g + Ticks(LongestLifetime)

\* What a session would answer from, or send a validator of, is an entry that the code
\* has made, of this Service.
EntriesAreSound ==
    /\ \A u \in Urls :
        cache[u] # Absent => ~cache[u].bound \/ Unusable(cache[u]) \/ Sound(cache[u])
    /\ \A s \in Sessions :
        request[s] # Absent /\ request[s].cached # Absent =>
            ~request[s].cached.bound \/ Sound(request[s].cached)

\* What an inspection, the Service and time preserve.
InspectionInvariant ==
    InspectionTypeOK /\ DocumentsInOrder /\ EntriesAreSound /\ FreshAnswers

=============================================================================
