------------------------- MODULE PlatformIdentities -------------------------
(***************************************************************************)
(* How an Agent gets an identity of a Platform, in two parts that share no *)
(* variable: several provisions at once with PlatformProvisioning, or one  *)
(* Agent, its Platform and a Service with PlatformExchange.                *)
(***************************************************************************)
EXTENDS PlatformProvisioning

CONSTANTS
    Options, Providers, Claims, Ids, Methods, Handled,
    MaxLifetime, MaxRetryAfter, MaxStages, MaxCalls, MaxEvents

VARIABLES options, record, provider, cache, saved, call, calls, events

exchangeVars == <<options, record, provider, cache, saved, call, calls, events>>

Exchange == INSTANCE PlatformExchange

----------------------------------------------------------------------------
\* Lifetimes are numbers of seconds, and an assertion is asked for with one
ASSUME LifetimesAreNumbers ==
    /\ MaxLifetime \in Nat
    /\ \A o \in Options : o.maximum \in Nat /\ o.default \in Nat
    /\ \A c \in Claims : c.lifetime \in Nat \ {0}

\* What an Agent, a Platform or a Service has when it has none of these is none of them
Dids == {Exchange!Did(o.host, o.prefix, id) : o \in Options, id \in Ids \cup {"plain"}}
Urls == [scheme : {"https"}, of : Dids]
Identities ==
    [did : Dids, key : Dids, url : Urls, service : {p.service : p \in Providers},
     algorithms : {o.algorithms : o \in Options}, status : {"active", "suspended"},
     method : Methods]
DidDocuments == [id : Dids, methods : SUBSET [id : Dids, jwk : {m.jwk : m \in Methods}]]

ASSUME NoneIsNothing ==
    /\ None \notin {"did", "other", "unread", "refused", "unresolved"}
    /\ None \notin Dids /\ None \notin Urls
    /\ None \notin Identities /\ None \notin DidDocuments

----------------------------------------------------------------------------
\* The properties of an exchange, which are stated in PlatformExchange

\* What one of an Agent and its Platform makes the other takes, but for the exceptions
\* that are named there.
ExchangesExplained == Exchange!ExchangesExplained

\* A Service finds the key of an identity that an Agent has accepted.
KeysResolved == Exchange!KeysResolved

=============================================================================
