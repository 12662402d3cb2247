------------------------------ MODULE EndToEnd ------------------------------
(***************************************************************************)
(* An Agent and a Service end to end, in three parts that share no         *)
(* variable: the commands of CommandExchange, how HttpCommands carries     *)
(* one, and the requests of ProtectedResources.                            *)
(***************************************************************************)
EXTENDS Naturals, Sequences, FiniteSets

CONSTANTS
    Nothing, EmptyWord, ServiceDocuments,
    DocumentIds, Configurations, Offers, Pendings, ReusedKeys, MaxCalls, MaxEdits,
    Mounts, Paths, Sizes, MaxRequests, MaxRelays,
    Fields, Services, Issuable, Extras, MaxCredentials, MaxPresentations, MaxChanges

VARIABLES
    config, enrollment, memo, document, command, answer, heard, calls, edits, served, told, met

commandVars ==
    <<config, enrollment, memo, document, command, answer, heard, calls, edits, served, told, met>>

VARIABLES mount, base, asked, reply, executed, reading, requests, relays

httpVars == <<mount, base, asked, reply, executed, reading, requests, relays>>

VARIABLES service, known, records, stored, enrolled, presentation, presentations, changes

resourceVars == <<service, known, records, stored, enrolled, presentation, presentations, changes>>

Commands == INSTANCE CommandExchange
    WITH None <- Nothing, Documents <- DocumentIds, Keys <- ReusedKeys,
         record <- enrollment, call <- command

Http == INSTANCE HttpCommands
    WITH None <- Nothing, MaxEvents <- MaxRelays,
         inspected <- base, request <- asked, answer <- reply, events <- relays

Resources == INSTANCE ProtectedResources
    WITH None <- Nothing, MaxCalls <- MaxPresentations, MaxEvents <- MaxChanges,
         inspected <- known, call <- presentation, calls <- presentations, events <- changes

----------------------------------------------------------------------------
\* Words and lists of them
ASSUME ConfigurationsHaveType ==
    \A c \in Configurations :
        /\ DOMAIN c.claims = 1..Len(c.claims) /\ Len(c.claims) \in Nat
        /\ c.documents # Nothing => IsFiniteSet(DOMAIN c.documents)
        /\ c.extension \in BOOLEAN
ASSUME NothingIsNoList ==
    /\ \A c \in Configurations : \A words \in Commands!Parts(c.claims) :
        Nothing # words /\ Nothing # Commands!Announced(words)
    /\ \A words \in Commands!Requirable : Nothing # words
    /\ \A p \in Pendings : Nothing # p.requirements /\ Nothing # p.verification
ASSUME NothingIsNoRecord == Nothing \notin Commands!Records
ASSUME NothingIsNoWord ==
    Nothing \notin {"answer", "refused", "problem", "bare", "lost", "status", "unread", "success",
                    "mine", "foreign"}
ASSUME WordsDiffer == EmptyWord \notin {ServiceDocuments, "credential"}

\* What a Service executes, and what it is asked for and mounted with
ASSUME NothingIsNotDone ==
    Nothing \notin [op : Http!Operations, by : {"mine", "foreign"},
                    key : {"mine", "foreign", "unrelated", "aep", Nothing}]
ASSUME LimitsAreNumbers == Sizes \subseteq Nat /\ \A m \in Mounts : m.limit \in Nat

\* What it issues and what is added to a request; the three grant types have their carriers
ASSUME ServicesHaveType ==
    \A s \in Services : DOMAIN s.methods = 1..Len(s.methods) /\ Len(s.methods) \in Nat
ASSUME FieldsOfCarriers == {Resources!FieldOf(c) : c \in Resources!Carriers} \subseteq Fields
ASSUME IssuableHaveType ==
    \A c \in Issuable : c.type \in Resources!Types /\ c.field \in Fields /\ Resources!Placed(c)
ASSUME ExtrasHaveType == \A e \in Extras : e = Nothing \/ e.field \in Fields
ASSUME NothingIsNoId == Nothing \notin Nat
ASSUME NothingIsNoCode ==
    Nothing \notin {"not_recognized", "authentication_required", "unsupported_authentication_method"}

----------------------------------------------------------------------------
\* Their properties, which are stated in their own modules

\* The Agent reads what the Service answers, but for the exceptions that are named there.
AnswersUnderstood == Commands!AnswersUnderstood

\* What the Agent was told and has done is not asked of it again.
MetStaysMet == Commands!MetStaysMet

\* A command arrives as it was sent, or not at all.
CommandsDelivered == Http!CommandsDelivered

\* An authenticated request is taken for the Agent's, by what it has chosen.
PresentationsUnderstood == Resources!PresentationsUnderstood

=============================================================================
