------------------------------ MODULE OpenApi ------------------------------
(***************************************************************************)
(* How an Agent reads the OpenAPI document of a Service: the operation a   *)
(* request is one of, and the credentials it asks for                      *)
(* (crates/aep-core/src/openapi.rs), and what both ought to be.            *)
(*                                                                         *)
(* A path is the sequence of its segments, as split after the first slash: *)
(* the last is "" when it ends in a slash.  The segment "{}" of a template *)
(* stands for any one.  A requirement is the set of schemes it names, and  *)
(* the security of an operation a sequence of them, or None.               *)
(***************************************************************************)
EXTENDS Naturals, Sequences, FiniteSets, Functions

CONSTANTS None, Variable

\* path_segments
Segments(path, equivalent) ==
    IF equivalent /\ Len(path) > 1 /\ path[Len(path)] = ""
    THEN SubSeq(path, 1, Len(path) - 1)
    ELSE path

\* the template's segments match, one to one
Fits(template, path) ==
    /\ Len(template) = Len(path)
    /\ \A i \in DOMAIN path : template[i] \in {Variable, path[i]}

Specificity(template) == [i \in DOMAIN template |-> IF template[i] = Variable THEN 0 ELSE 1]

\* the order of vectors of one length
Above(a, b) ==
    \E i \in DOMAIN a : a[i] > b[i] /\ \A j \in 1..(i - 1) : a[j] = b[j]

\* Fault: what was ambiguous stays so when a better template comes.
StaysAmbiguous(best, template, at) ==
    LET score == Specificity(template) IN
    CASE best.at = 0 -> [at |-> at, score |-> score, ambiguous |-> FALSE]
      [] best.at # 0 /\ Above(score, best.score) -> [best EXCEPT !.at = at, !.score = score]
      [] best.at # 0 /\ score = best.score -> [best EXCEPT !.ambiguous = TRUE]
      [] OTHER -> best

\* one turn of the loop of match_openapi_path, for a template that fits
Better(best, template, at) ==
    LET score == Specificity(template) IN
    CASE best.at = 0 -> [at |-> at, score |-> score, ambiguous |-> FALSE]
      [] best.at # 0 /\ Above(score, best.score) -> [at |-> at, score |-> score, ambiguous |-> FALSE]
      [] best.at # 0 /\ score = best.score -> [best EXCEPT !.ambiguous = TRUE]
      [] OTHER -> best

\* its loop: what it has after the first n templates
Matches(templates, path, equivalent) ==
    LET best[n \in 0..Len(templates)] ==
            IF n = 0 THEN [at |-> 0, score |-> <<>>, ambiguous |-> FALSE]
            ELSE LET template == Segments(templates[n], equivalent) IN
                 IF Fits(template, Segments(path, equivalent)) THEN Better(best[n - 1], template, n)
                 ELSE best[n - 1]
    IN best

\* match_openapi_path: the place of the template, or 0 when it is refused
MatchPath(templates, path, equivalent) ==
    LET best == Matches(templates, path, equivalent)[Len(templates)] IN
    IF best.ambiguous THEN 0 ELSE best.at

----------------------------------------------------------------------------
Resolution(disposition, satisfiable) == [disposition |-> disposition, satisfiable |-> satisfiable]

Satisfies(requirement, supported) == requirement \subseteq supported

\* resolve_openapi_security
ResolveSecurity(root, operation, supported) ==
    LET effective == IF operation # None THEN operation ELSE IF root # None THEN root ELSE <<>>
        satisfiable == {r \in Range(effective) : Satisfies(r, supported)}
    IN CASE effective = <<>> -> Resolution("public", {})
         [] {} \in Range(effective) -> Resolution("optional-anonymous", {})
         [] satisfiable = {} /\ effective # <<>> -> Resolution("fallback-live-challenge", {})
         [] OTHER ->
            Resolution(IF Len(effective) > 1 THEN "alternatives"
                       ELSE IF Cardinality(effective[1]) > 1 THEN "all-required" ELSE "required",
                       satisfiable)

----------------------------------------------------------------------------
\* what they ought to be

\* the templates that stand for the path, a slash at its end aside where the document says so
Standing(templates, path, equivalent) ==
    {i \in DOMAIN templates : Fits(Segments(templates[i], equivalent), Segments(path, equivalent))}

\* of two templates the one that is literal where they first differ
Precedes(a, b) ==
    \E i \in DOMAIN a :
        a[i] # Variable /\ b[i] = Variable /\ \A j \in 1..(i - 1) : (a[j] = Variable) = (b[j] = Variable)

\* the one before all others, 0 when there is none
Operation(templates, path, equivalent) ==
    LET fit == Standing(templates, path, equivalent)
        first == {i \in fit : \A j \in fit \ {i} :
                    Precedes(Segments(templates[i], equivalent), Segments(templates[j], equivalent))}
    IN IF first = {} THEN 0 ELSE CHOOSE i \in first : TRUE

\* a request with these credentials is one the operation lets pass
Admits(root, operation, presented) ==
    LET effective == IF operation # None THEN operation ELSE IF root # None THEN root ELSE <<>> IN
    effective = <<>> \/ \E r \in Range(effective) : r \subseteq presented
=============================================================================
