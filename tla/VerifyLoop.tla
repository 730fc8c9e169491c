----------------------------- MODULE VerifyLoop -----------------------------
(***************************************************************************)
(* validator.Verify step by step: the inverse map is walked in the order   *)
(* of a Go map, that is in any order, and the smallest class of members    *)
(* that returned the same checksum is kept.                                *)
(***************************************************************************)
EXTENDS Validator

CONSTANTS Labels,  \* the labels of members
          Hashes   \* the checksums they may return

ASSUME VerifyLoopAssumption == IsFiniteSet(Labels)

VARIABLES states,       \* the argument: label |-> checksum
          left,         \* classes the loop has not visited
          deviated,     \* size of the smallest class seen
          invalidMems,  \* that class
          result        \* "none" until Verify returns

vars == <<states, left, deviated, invalidMems, result>>

TypeOK == /\ states \in UNION {[S -> Hashes] : S \in SUBSET Labels}
          /\ left \subseteq SUBSET Labels
          /\ deviated \in 0..Cardinality(Labels)
          /\ invalidMems \subseteq Labels
          /\ result \in {"none", "ok", "invalid"}

\* Init and loop condition with a plausible slip each: counting one too many,
\* the comparison turned round, and comparing with the total.
AllOfPlusOne == Cardinality(DOMAIN states) + 1
Larger(c) == Cardinality(c) > deviated
SmallerThanAll(c) == Cardinality(c) < Cardinality(DOMAIN states)

\* deviated := len(states)
AllOf == Cardinality(DOMAIN states)

\* The condition of the loop's if.
Smaller(c) == Cardinality(c) < deviated

Init == /\ states \in UNION {[S -> Hashes] : S \in SUBSET Labels}
        /\ left = Classes(states)
        /\ deviated = AllOf
        /\ invalidMems = {}
        /\ result = "none"

\* One round of the loop over mems.
Visit(c) ==
    /\ c \in left
    /\ left' = left \ {c}
    /\ IF Smaller(c)
       THEN deviated' = Cardinality(c) /\ invalidMems' = c
       ELSE UNCHANGED <<deviated, invalidMems>>
    /\ UNCHANGED <<states, result>>

\* The two returns; with ok the member list is nil.
Return ==
    /\ left = {} /\ result = "none"
    /\ \/ /\ deviated = Cardinality(DOMAIN states)
          /\ result' = "ok" /\ invalidMems' = {}
       \/ /\ deviated # Cardinality(DOMAIN states)
          /\ result' = "invalid" /\ UNCHANGED invalidMems
    /\ UNCHANGED <<states, left, deviated>>

Next == Return \/ \E c \in left : Visit(c)

Spec == Init /\ [][Next]_vars
-----------------------------------------------------------------------------
\* Verify says ok exactly when no two members returned different checksums, in
\* whatever order the map is walked; and so does the operator that the group
\* model uses in its place.
OkMeansEqual ==
    result # "none" =>
        /\ result = "ok" <=> \A m, n \in DOMAIN states : states[m] = states[n]
        /\ result = "ok" <=> Verify(states)

\* The comment on Verify: it returns the members deviated from the majority,
\* the fewest if there are several such sets.  Where more than half agree, none
\* of them is named; in any case those named agree among themselves and no
\* group of agreeing members is smaller.
NamesTheFewest ==
    result = "invalid" =>
        /\ invalidMems \in Classes(states)
        /\ \A c \in Classes(states) : Cardinality(invalidMems) <= Cardinality(c)
        /\ \A c \in Classes(states) :
              2 * Cardinality(c) > Cardinality(DOMAIN states) => invalidMems \cap c = {}
=============================================================================
