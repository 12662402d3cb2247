------------------------------ MODULE Protocol ------------------------------
(***************************************************************************)
(* What either side of the protocol accepts from the other: the validators *)
(* of aep-core (crates/aep-core/src/protocol.rs, documents.rs,             *)
(* inspect.rs) as predicates on records.  A string is a word; of words     *)
(* only emptiness, identity and the one reserved name matter, and of lists *)
(* of words not the places: a list may be any function to words.  An       *)
(* optional member that is absent is None.                                 *)
(***************************************************************************)
EXTENDS Naturals, Sequences, FiniteSets, Functions

CONSTANTS
    None,
    EmptyWord,
    ServiceDocuments    \* the word "service_documents"

\* validate_document_ids
MaxDocumentIds == 7

ValidIds(ids) ==
    /\ Cardinality(DOMAIN ids) <= MaxDocumentIds
    /\ EmptyWord \notin Range(ids)
    /\ IsInjective(ids)

OptionalIds(ids) == ids # None => ValidIds(ids)

\* validate_non_empty_strings
NonEmptyUnique(words) ==
    /\ words # <<>>
    /\ EmptyWord \notin Range(words)
    /\ IsInjective(words)

OptionalWords(words) == words # None => NonEmptyUnique(words)

PendingListsValid(r) == OptionalWords(r.verification) /\ OptionalWords(r.requirements)

ValidEnrollRequest(r) == OptionalIds(r.acks)

ValidEnrollResponse(r) == OptionalIds(r.acks) /\ PendingListsValid(r)

ValidStatusResponse(r) == PendingListsValid(r)

\* Document requirements come with their ids, in a 422 requirements_unmet; a
\* not_recognized exposes nothing.
ValidProblem(p) ==
    LET pending == p.requirements # None /\ ServiceDocuments \in Range(p.requirements) IN
    /\ OptionalIds(p.documents)
    /\ pending \/ p.documents # None =>
        /\ pending
        /\ p.documents \notin {None, <<>>}
        /\ p.code = "requirements_unmet" /\ p.http = 422
    /\ PendingListsValid(p)
    /\ p.code = "not_recognized" => ~p.owner /\ p.requirements = None /\ p.verification = None

\* parse_built_in_grant_response: the common fields, and those of the type
ValidCredential(c) == c.id # EmptyWord /\ c.wellFormed

\* validate_inspect_document, on what a Service can be configured with
ValidInspectDocument(d) ==
    /\ d.documents # None => d.documents # <<>> /\ ValidIds(d.documents) /\ d.extension
    /\ EmptyWord \notin Range(d.claims)

=============================================================================
