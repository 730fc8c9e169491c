-------------------------- MODULE VerifyLoop_proofs -------------------------
(***************************************************************************)
(* Proofs about validator.Verify, for groups of any size: comparing the    *)
(* sizes of the classes of equal checksums is as good as comparing the     *)
(* checksums, and the loop, whatever order it takes the classes in, says   *)
(* ok exactly when all checksums are equal and names a smallest class when *)
(* they are not.                                                           *)
(***************************************************************************)
EXTENDS VerifyLoop, FiniteSetTheorems, TLAPS

\* All members returned the same checksum.
Unanimous(hashes) == \A m, n \in DOMAIN hashes : hashes[m] = hashes[n]

\* Verify returns true exactly when all members returned the same checksum: no
\* class is smaller than the whole.
THEOREM VerifyIsUnanimous ==
    ASSUME NEW hashes, IsFiniteSet(DOMAIN hashes)
    PROVE  Verify(hashes) <=> Unanimous(hashes)
<1> DEFINE D == DOMAIN hashes
           CardD == Cardinality(D)
<1>1. CardD \in Nat
  BY FS_CardinalityType
<1>2. \A m \in D : /\ Class(hashes, hashes[m]) \subseteq D
                   /\ Cardinality(Class(hashes, hashes[m])) \in Nat
                   /\ Cardinality(Class(hashes, hashes[m])) <= CardD
                   /\ Cardinality(Class(hashes, hashes[m])) = CardD =>
                         Class(hashes, hashes[m]) = D
  <2> TAKE m \in D
  <2>1. Class(hashes, hashes[m]) \subseteq D
    BY DEF Class
  <2>2. IsFiniteSet(Class(hashes, hashes[m]))
    BY <2>1, FS_Subset
  <2> QED BY <2>1, <2>2, FS_Subset, FS_CardinalityType
<1>3. ASSUME Verify(hashes) PROVE Unanimous(hashes)
  <2> SUFFICES ASSUME NEW m \in D, NEW n \in D PROVE hashes[m] = hashes[n]
    BY DEF Unanimous
  <2>1. ~(Cardinality(Class(hashes, hashes[m])) < CardD)
    BY <1>3 DEF Verify, Classes
  <2>2. Class(hashes, hashes[m]) = D
    BY <1>1, <1>2, <2>1
  <2> QED BY <2>2 DEF Class
<1>4. ASSUME Unanimous(hashes) PROVE Verify(hashes)
  <2> SUFFICES ASSUME NEW m \in D
               PROVE  ~(Cardinality(Class(hashes, hashes[m])) < CardD)
    BY DEF Verify, Classes
  <2>1. Class(hashes, hashes[m]) = D
    BY <1>4 DEF Unanimous, Class
  <2> QED BY <1>1, <2>1
<1> QED BY <1>3, <1>4
-----------------------------------------------------------------------------
(* Classes *)

\* The labels are a finite set, and a class is a part of it.
LEMMA StatesFinite ==
    ASSUME TypeOK
    PROVE  /\ DOMAIN states \subseteq Labels
           /\ IsFiniteSet(DOMAIN states) /\ Cardinality(DOMAIN states) \in Nat
           /\ Cardinality(DOMAIN states) <= Cardinality(Labels)
           /\ Cardinality(Labels) \in Nat
<1>1. DOMAIN states \subseteq Labels
  BY DEF TypeOK
<1>2. IsFiniteSet(DOMAIN states)
  BY <1>1, VerifyLoopAssumption, FS_Subset
<1>3. Cardinality(DOMAIN states) <= Cardinality(Labels)
  BY <1>1, VerifyLoopAssumption, FS_Subset
<1> QED BY <1>1, <1>2, <1>3, VerifyLoopAssumption, FS_CardinalityType

LEMMA ClassFinite ==
    ASSUME TypeOK, NEW c \in Classes(states)
    PROVE  /\ c \subseteq DOMAIN states /\ c \subseteq Labels
           /\ IsFiniteSet(c) /\ Cardinality(c) \in Nat
           /\ Cardinality(c) <= Cardinality(DOMAIN states)
           /\ Cardinality(c) = Cardinality(DOMAIN states) => c = DOMAIN states
<1>1. c \subseteq DOMAIN states
  BY DEF Classes, Class
<1>2. IsFiniteSet(c)
  BY <1>1, StatesFinite, FS_Subset
<1>3. /\ Cardinality(c) <= Cardinality(DOMAIN states)
      /\ Cardinality(DOMAIN states) = Cardinality(c) => DOMAIN states = c
  BY <1>1, StatesFinite, FS_Subset
<1> QED BY <1>1, <1>2, <1>3, StatesFinite, FS_CardinalityType

\* Two classes are the same or have no member in common.
LEMMA ClassesDisjoint ==
    ASSUME NEW c \in Classes(states), NEW d \in Classes(states), c \cap d # {}
    PROVE  c = d
BY DEF Classes, Class

\* With more than half of the members in c, a class beside c is smaller.
LEMMA MajorityLargest ==
    ASSUME TypeOK, NEW c \in Classes(states), c # DOMAIN states,
           2 * Cardinality(c) > Cardinality(DOMAIN states)
    PROVE  \E d \in Classes(states) : Cardinality(d) < Cardinality(c)
<1>1. PICK m \in DOMAIN states : m \notin c
  BY ClassFinite
<1> DEFINE d == Class(states, states[m])
<1>2. d \in Classes(states) /\ m \in d
  BY DEF Classes, Class
<1> HIDE DEF d
<1>3. c \cap d = {}
  BY <1>1, <1>2, ClassesDisjoint
<1>4. /\ IsFiniteSet(c) /\ IsFiniteSet(d) /\ c \cup d \subseteq DOMAIN states
      /\ Cardinality(c) \in Nat /\ Cardinality(d) \in Nat
  BY <1>2, ClassFinite
<1>5. Cardinality(c \cup d) = Cardinality(c) + Cardinality(d)
  <2>1. Cardinality(c \cup d) = Cardinality(c) + Cardinality(d) - Cardinality({})
    BY <1>3, <1>4, FS_Union
  <2> QED BY <1>4, <2>1, FS_EmptySet
<1>6. Cardinality(c \cup d) <= Cardinality(DOMAIN states)
  BY <1>4, StatesFinite, FS_Subset
<1>7. Cardinality(d) < Cardinality(c)
  BY <1>4, <1>5, <1>6, StatesFinite
<1> QED BY <1>2, <1>7
-----------------------------------------------------------------------------
(* The loop *)

\* What the loop has seen so far: no class it visited is smaller than deviated,
\* which is still the number of all or the size of the class kept.
Loop ==
    /\ left \subseteq Classes(states)
    /\ \A c \in Classes(states) \ left : deviated <= Cardinality(c)
    /\ \/ deviated = AllOf /\ invalidMems = {}
       \/ /\ invalidMems \in Classes(states)
          /\ deviated = Cardinality(invalidMems) /\ deviated < AllOf
    /\ result # "none" => left = {}
    /\ result = "ok" => deviated = AllOf
    /\ result = "invalid" => deviated # AllOf

IInv == TypeOK /\ Loop

LEMMA InitIInv == Init => IInv
<1> SUFFICES ASSUME Init PROVE IInv
  OBVIOUS
<1>1. DOMAIN states \subseteq Labels
  BY DEF Init
<1>2. Cardinality(DOMAIN states) \in 0..Cardinality(Labels)
  <2>1. IsFiniteSet(DOMAIN states)
    BY <1>1, VerifyLoopAssumption, FS_Subset
  <2>2. Cardinality(DOMAIN states) <= Cardinality(Labels)
    BY <1>1, VerifyLoopAssumption, FS_Subset
  <2> QED BY <2>1, <2>2, VerifyLoopAssumption, FS_CardinalityType
<1>3. Classes(states) \subseteq SUBSET Labels
  BY <1>1 DEF Classes, Class
<1>4. TypeOK
  BY <1>2, <1>3 DEF Init, TypeOK, AllOf
<1>5. Loop
  BY DEF Init, Loop
<1> QED BY <1>4, <1>5 DEF IInv

LEMMA VisitKeeps ==
    ASSUME IInv, NEW c, Visit(c)
    PROVE  IInv'
<1>1. /\ c \in left /\ left' = left \ {c} /\ states' = states /\ result' = result
      /\ \/ Cardinality(c) < deviated /\ deviated' = Cardinality(c) /\ invalidMems' = c
         \/ ~(Cardinality(c) < deviated) /\ deviated' = deviated /\ invalidMems' = invalidMems
  BY DEF Visit, Smaller
<1>2. TypeOK /\ c \in Classes(states) /\ result = "none"
  BY <1>1 DEF IInv, Loop
<1>3. /\ c \subseteq Labels /\ Cardinality(c) \in Nat /\ Cardinality(c) <= AllOf
      /\ AllOf \in Nat /\ AllOf <= Cardinality(Labels) /\ Cardinality(Labels) \in Nat
  BY <1>2, ClassFinite, StatesFinite DEF AllOf
<1>4. deviated \in Nat /\ deviated <= AllOf
  BY <1>2, <1>3, StatesFinite DEF IInv, Loop, TypeOK
<1>5. \A d \in Classes(states) : Cardinality(d) \in Nat
  BY <1>2, ClassFinite
<1>6. TypeOK'
  BY <1>1, <1>2, <1>3, <1>4 DEF TypeOK
<1>7. \A d \in Classes(states) \ left' : deviated' <= Cardinality(d)
  <2> SUFFICES ASSUME NEW d \in Classes(states), d \notin left'
               PROVE  deviated' <= Cardinality(d)
    OBVIOUS
  <2>1. CASE d = c
    BY <1>1, <1>3, <1>4, <2>1
  <2>2. CASE d # c
    <3>1. deviated <= Cardinality(d)
      BY <1>1, <2>2 DEF IInv, Loop
    <3> QED BY <1>1, <1>3, <1>4, <1>5, <3>1
  <2> QED BY <2>1, <2>2
<1>8. AllOf' = AllOf /\ Classes(states') = Classes(states)
  BY <1>1 DEF AllOf
<1>9. Loop'
  <2>1. \/ deviated' = AllOf /\ invalidMems' = {}
        \/ /\ invalidMems' \in Classes(states)
           /\ deviated' = Cardinality(invalidMems') /\ deviated' < AllOf
    BY <1>1, <1>2, <1>3, <1>4 DEF IInv, Loop
  <2>2. left' \subseteq Classes(states)
    BY <1>1 DEF IInv, Loop
  <2> QED BY <1>1, <1>2, <1>7, <1>8, <2>1, <2>2 DEF Loop
<1> QED BY <1>6, <1>9 DEF IInv

LEMMA ReturnKeeps ==
    ASSUME IInv, Return
    PROVE  IInv'
<1>1. /\ left = {} /\ states' = states /\ left' = left /\ deviated' = deviated
      /\ \/ deviated = AllOf /\ result' = "ok" /\ invalidMems' = {}
         \/ deviated # AllOf /\ result' = "invalid" /\ invalidMems' = invalidMems
  BY DEF Return, AllOf
<1>2. TypeOK'
  BY <1>1 DEF IInv, TypeOK
<1>3. AllOf' = AllOf
  BY <1>1 DEF AllOf
<1>4. Loop'
  BY <1>1, <1>3 DEF IInv, Loop
<1> QED BY <1>2, <1>4 DEF IInv

LEMMA SpecIInv == Spec => []IInv
<1>1. IInv /\ [Next]_vars => IInv'
  <2> SUFFICES ASSUME IInv, [Next]_vars PROVE IInv'
    OBVIOUS
  <2>1. CASE UNCHANGED vars
    BY <2>1 DEF vars, IInv, TypeOK, Loop, AllOf
  <2> QED BY <2>1, VisitKeeps, ReturnKeeps DEF Next
<1> QED BY <1>1, InitIInv, PTL DEF Spec

\* The types: deviated never exceeds the number of labels.
THEOREM TypeCorrect == Spec => []TypeOK
<1>1. IInv => TypeOK
  BY DEF IInv
<1> QED BY <1>1, SpecIInv, PTL

LEMMA OkOf == IInv => OkMeansEqual
<1> SUFFICES ASSUME IInv, result # "none"
             PROVE  /\ result = "ok" <=> Unanimous(states)
                    /\ result = "ok" <=> Verify(states)
  BY DEF OkMeansEqual, Unanimous
<1>1. /\ TypeOK /\ result \in {"ok", "invalid"}
      /\ \A c \in Classes(states) : deviated <= Cardinality(c)
  BY DEF IInv, TypeOK, Loop
<1>2. /\ AllOf \in Nat /\ deviated \in Nat
      /\ \A c \in Classes(states) : Cardinality(c) \in Nat
  BY <1>1, StatesFinite, ClassFinite DEF AllOf, TypeOK
<1>3. ASSUME result = "ok" PROVE Verify(states)
  <2>1. deviated = AllOf
    BY <1>3 DEF IInv, Loop
  <2> QED BY <1>1, <1>2, <2>1 DEF Verify, AllOf
<1>4. ASSUME result = "invalid" PROVE ~Verify(states)
  <2>1. invalidMems \in Classes(states) /\ Cardinality(invalidMems) < AllOf
    BY <1>4 DEF IInv, Loop
  <2> QED BY <2>1 DEF Verify, AllOf
<1>5. Verify(states) <=> Unanimous(states)
  BY <1>1, StatesFinite, VerifyIsUnanimous
<1> QED BY <1>1, <1>3, <1>4, <1>5

\* Verify says ok exactly when no two members returned different checksums, in
\* whatever order the map is walked.
THEOREM OkMeansEqualHolds == Spec => []OkMeansEqual
BY SpecIInv, OkOf, PTL

LEMMA FewestOf == IInv => NamesTheFewest
<1> SUFFICES ASSUME IInv, result = "invalid"
             PROVE  /\ invalidMems \in Classes(states)
                    /\ \A c \in Classes(states) : Cardinality(invalidMems) <= Cardinality(c)
                    /\ \A c \in Classes(states) :
                          2 * Cardinality(c) > Cardinality(DOMAIN states) => invalidMems \cap c = {}
  BY DEF NamesTheFewest
<1>1. /\ TypeOK /\ invalidMems \in Classes(states)
      /\ Cardinality(invalidMems) < Cardinality(DOMAIN states)
      /\ \A c \in Classes(states) : Cardinality(invalidMems) <= Cardinality(c)
  BY DEF IInv, Loop, AllOf
<1>2. ASSUME NEW c \in Classes(states), 2 * Cardinality(c) > Cardinality(DOMAIN states),
             invalidMems \cap c # {}
      PROVE  FALSE
  <2>1. c = invalidMems
    BY <1>1, <1>2, ClassesDisjoint
  <2>2. Cardinality(DOMAIN states) \in Nat /\ Cardinality(c) \in Nat
    BY <1>1, StatesFinite, ClassFinite
  <2>3. c # DOMAIN states
    BY <1>1, <2>1, <2>2
  <2>4. PICK d \in Classes(states) : Cardinality(d) < Cardinality(c)
    BY <1>1, <1>2, <2>3, MajorityLargest
  <2>5. Cardinality(c) <= Cardinality(d) /\ Cardinality(d) \in Nat
    BY <1>1, <2>1, ClassFinite
  <2> QED BY <2>2, <2>4, <2>5
<1> QED BY <1>1, <1>2

\* The members Verify names agree among themselves, no group of agreeing members
\* is smaller, and where more than half of all agree none of them is named.
THEOREM NamesTheFewestHolds == Spec => []NamesTheFewest
BY SpecIInv, FewestOf, PTL
=============================================================================
