--------------------------- MODULE CoverageSelectors ---------------------------
(***************************************************************************)
(* Closed-world coverage profiles:                                         *)
(* src/receiptos/challenge/transformation-stability-coverage.ts.           *)
(* A profile declares, by selector, which paths of an artifact are         *)
(* normative (N), stability (S) or allowed to vary (A); every other        *)
(* observed path falls to the derived class F.                             *)
(***************************************************************************)
EXTENDS Integers, Sequences

CONSTANTS
    Segments,   \* path segments
    Malformed   \* a selector parseCoverageSelectorV0 rejects

Selectors == [side : {"none", "source", "target"}, segments : Seq(Segments), wildcard : BOOLEAN]

ASSUME SelectorAssumption == Malformed \notin Selectors

Policies == {"classify", "violation"}

DeclaredClasses == {"N", "S", "A"}

Declarations == [selector : Selectors \cup {Malformed}, targetClass : DeclaredClasses]

(* A normalizer reference: its key and what the authority says of its id. *)
Normalizers == [selector : Selectors \cup {Malformed},
                id : {"authentic", "not_a_string", "unknown", "mismatched"}]

ProfileInputs == [same_type : BOOLEAN, policy : Policies, declarations : Seq(Declarations),
                  normalizers : SUBSET Normalizers]

-------------------------------------------------------------------------------
(* defineCoverageProfileV0 *)

DeclarationOk(input, d) ==
    /\ d.selector # Malformed
    /\ (d.selector.side = "none") = input.same_type
    /\ ~(d.targetClass = "A" /\ d.selector.wildcard)
    /\ (d.targetClass = "S" /\ d.selector.wildcard) => input.policy = "violation"

(* Mutant: the first of two conflicting declarations silently wins. *)
ConflictsIgnored(ds) == TRUE

(* Equal selectors agree on their class. *)
ConflictFree(ds) ==
    \A i, j \in DOMAIN ds : ds[i].selector = ds[j].selector => ds[i].targetClass = ds[j].targetClass

NormalizerOk(input, z) ==
    /\ z.id = "authentic"
    /\ z.selector # Malformed /\ ~z.selector.wildcard
    /\ \E i \in DOMAIN input.declarations : input.declarations[i].selector = z.selector

ValidCoverageProfile(input) ==
    /\ input.same_type
    /\ \A i \in DOMAIN input.declarations : DeclarationOk(input, input.declarations[i])
    /\ ConflictFree(input.declarations)
    /\ \A z \in input.normalizers : NormalizerOk(input, z)

-------------------------------------------------------------------------------
(* classifyPathV0 *)

SelectorMatchesPath(selector, path) ==
    IF selector.wildcard
    THEN /\ Len(selector.segments) =< Len(path)
         /\ \A i \in DOMAIN selector.segments : path[i] = selector.segments[i]
    ELSE path = selector.segments

Matches(ds, path) == {i \in DOMAIN ds : SelectorMatchesPath(ds[i].selector, path)}

ExactMatches(ds, path) == {i \in Matches(ds, path) : ~ds[i].selector.wildcard}

LongestMatches(ds, path) ==
    {i \in Matches(ds, path) : \A j \in Matches(ds, path) :
        Len(ds[j].selector.segments) =< Len(ds[i].selector.segments)}

First(S) == CHOOSE i \in S : \A j \in S : i =< j

(* Mutant: the first matching declaration decides. *)
ClassOfFirstMatch(ds, path) ==
    IF Matches(ds, path) = {} THEN "F" ELSE ds[First(Matches(ds, path))].targetClass

(* An exact declaration beats any wildcard; among wildcards the longest      *)
(* prefix wins; the first of several winners decides.                        *)
ClassOf(ds, path) ==
    IF Matches(ds, path) = {} THEN "F"
    ELSE IF ExactMatches(ds, path) # {} THEN ds[First(ExactMatches(ds, path))].targetClass
    ELSE ds[First(LongestMatches(ds, path))].targetClass

-------------------------------------------------------------------------------
(* The specification's resolution (section 9), with no order of declarations *)

(* Declaration i is at least as specific for path as every other one. *)
MostSpecific(ds, path, i) ==
    /\ i \in Matches(ds, path)
    /\ \A j \in Matches(ds, path) :
          IF ds[j].selector.wildcard
          THEN \/ ~ds[i].selector.wildcard
               \/ Len(ds[j].selector.segments) =< Len(ds[i].selector.segments)
          ELSE ~ds[i].selector.wildcard

(* path is given class by some most specific declaration, or falls to F. *)
Resolves(ds, path, class) ==
    \/ \E i \in DOMAIN ds : MostSpecific(ds, path, i) /\ ds[i].targetClass = class
    \/ Matches(ds, path) = {} /\ class = "F"
===============================================================================
