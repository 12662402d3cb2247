------------------------------ MODULE HttpCache ------------------------------
(***************************************************************************)
(* The freshness arithmetic of aep-agent/src/http_response.rs, which both  *)
(* the inspection cache and the Platform discovery cache rest on.          *)
(*                                                                         *)
(* Headers are a record with one field per header that cache_headers       *)
(* keeps, Absent when the header is missing, Malformed when it does not    *)
(* parse.  control is the set of directive names and the sequence of       *)
(* max-age arguments.  A validator stands for ETag and Last-Modified.      *)
(* Instants count ticks, TicksPerSecond to a second; Age and max-age are   *)
(* in seconds.                                                             *)
(***************************************************************************)
EXTENDS Integers, Sequences

CONSTANTS TicksPerSecond, DefaultLifetime, Absent, Malformed

ASSUME WholeSeconds == TicksPerSecond \in Nat \ {0} /\ DefaultLifetime \in Nat

Larger(a, b) == IF a >= b THEN a ELSE b

Ticks(seconds) == seconds * TicksPerSecond

\* Duration::whole_seconds of a positive duration
WholeSecondsOf(ticks) == ticks \div TicksPerSecond

Merged(field, prior) == IF field = Absent THEN prior ELSE field

\* age_seconds: a missing Age is 0, one that does not parse is refused
Age(h) == IF h.age = Absent THEN 0 ELSE h.age

\* Fault: the Age of the response is kept as it came
CacheHeadersWithoutDelay(response, prior, requestedAt, receivedAt) ==
    IF prior = Absent
    THEN response
    ELSE [control   |-> Merged(response.control, prior.control),
          validator |-> Merged(response.validator, prior.validator),
          expires   |-> Merged(response.expires, prior.expires),
          vary      |-> Merged(response.vary, prior.vary),
          age       |-> response.age,
          date      |-> response.date]

\* cache_headers: a validation response keeps what it does not repeat, except Age
\* and Date, and the age grows by the delay of the request
CacheHeaders(response, prior, requestedAt, receivedAt) ==
    LET headers == CacheHeadersWithoutDelay(response, prior, requestedAt, receivedAt)
        delay   == Larger(0, WholeSecondsOf(receivedAt - requestedAt)) IN
    IF Age(headers) = Malformed
    THEN headers
    ELSE [headers EXCEPT !.age = Age(headers) + delay]

Directives(h) == IF h.control = Absent THEN {} ELSE h.control.names

MaxAges(h) == IF h.control = Absent THEN <<>> ELSE h.control.maxAges

\* cache_storable: the directives parse, none is no-store, Vary does not name *
CacheStorable(h) ==
    /\ h.control # Malformed
    /\ "no-store" \notin Directives(h)
    /\ h.vary # "*"

DateOr(h, instant) == IF h.date \in {Absent, Malformed} THEN instant ELSE h.date

\* the freshness lifetime, or Malformed where cache_fresh returns early
Lifetime(h, cachedAt) ==
    IF MaxAges(h) # <<>>
    THEN IF Len(MaxAges(h)) = 1 /\ MaxAges(h)[1] # Malformed THEN Ticks(MaxAges(h)[1]) ELSE Malformed
    ELSE IF h.expires = Absent THEN Ticks(DefaultLifetime)
    ELSE IF h.expires = Malformed THEN Malformed
    ELSE Larger(0, h.expires - DateOr(h, cachedAt))

InitialAge(h, cachedAt) == Larger(Larger(0, cachedAt - DateOr(h, cachedAt)), Ticks(Age(h)))

\* cache_fresh
CacheFresh(h, cachedAt, now) ==
    /\ CacheStorable(h)
    /\ "no-cache" \notin Directives(h)
    /\ Lifetime(h, cachedAt) # Malformed
    /\ Age(h) # Malformed
    /\ InitialAge(h, cachedAt) + Larger(0, now - cachedAt) < Lifetime(h, cachedAt)

=============================================================================
