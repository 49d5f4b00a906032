---------------------------- MODULE FiniteNumbers ----------------------------
(* Facts about finite sets that several proofs rest on: among the subsets of *)
(* one there is a smallest, and a set of numbers has a least and a greatest. *)
EXTENDS Naturals, FiniteSets, TLAPS, FiniteSetTheorems

HasLeast(F) == \E U \in F : \A V \in F : V \subseteq U => V = U

\* Induction over a finite set: among some of its subsets, one has none below.
LEMMA FiniteMinimal ==
    ASSUME NEW S, IsFiniteSet(S), NEW F \in SUBSET SUBSET S, F # {}
    PROVE  HasLeast(F)
<1>1. IsWellFoundedOn(StrictSubsetOrdering(S), SUBSET S)
  BY FS_StrictSubsetOrderingWellFounded, FS_FiniteSubsetsOfFinite
<1>2. PICK U \in F : \A V \in F : ~ (<<V, U>> \in StrictSubsetOrdering(S))
  BY <1>1, WFMin
<1>3. \A V \in F : V \subseteq U /\ V # U => <<V, U>> \in StrictSubsetOrdering(S)
  BY <1>2 DEF StrictSubsetOrdering
<1>4. \A V \in F : V \subseteq U => V = U
  BY <1>2, <1>3
<1> QED  BY <1>4 DEF HasLeast

LEMMA FiniteMax ==
    ASSUME NEW S, IsFiniteSet(S), S # {}, S \subseteq Nat
    PROVE  \E x \in S : \A y \in S : y <= x
<1> DEFINE HasMax(U) == \E x \in U : \A y \in U : y <= x
           F == {U \in SUBSET S : U # {} /\ ~ HasMax(U)}
<1>1. SUFFICES ASSUME F # {} PROVE FALSE
  OBVIOUS
<1>2. PICK U \in F : \A V \in F : V \subseteq U => V = U
  <2>1. F \in SUBSET SUBSET S
    OBVIOUS
  <2> HIDE DEF F
  <2>2. HasLeast(F)
    BY <1>1, <2>1, FiniteMinimal
  <2> QED  BY <2>2 DEF HasLeast
<1>3. PICK x \in U : TRUE
  BY <1>2
<1>4. x \in Nat /\ \A y \in U : y \in Nat
  BY <1>2, <1>3
<1>5. CASE U = {x}
  BY <1>2, <1>4, <1>5
<1>6. CASE U # {x}
  <2>1. U \ {x} # {} /\ U \ {x} \in SUBSET S /\ U \ {x} # U
    BY <1>2, <1>3, <1>6
  <2>2. HasMax(U \ {x})
    BY <1>2, <2>1
  <2>3. PICK m \in U \ {x} : \A y \in U \ {x} : y <= m
    BY <2>2
  <2>4. CASE x <= m
    BY <1>2, <1>4, <2>3, <2>4
  <2>5. CASE ~ (x <= m)
    <3>1. \A y \in U : y <= x
      BY <1>4, <2>3, <2>5
    <3> QED  BY <1>2, <1>3, <3>1
  <2> QED  BY <2>4, <2>5
<1> QED  BY <1>5, <1>6

LEMMA FiniteMin ==
    ASSUME NEW S, IsFiniteSet(S), S # {}, S \subseteq Nat
    PROVE  \E x \in S : \A y \in S : x <= y
<1> DEFINE HasMin(U) == \E x \in U : \A y \in U : x <= y
           F == {U \in SUBSET S : U # {} /\ ~ HasMin(U)}
<1>1. SUFFICES ASSUME F # {} PROVE FALSE
  OBVIOUS
<1>2. PICK U \in F : \A V \in F : V \subseteq U => V = U
  <2>1. F \in SUBSET SUBSET S
    OBVIOUS
  <2> HIDE DEF F
  <2>2. HasLeast(F)
    BY <1>1, <2>1, FiniteMinimal
  <2> QED  BY <2>2 DEF HasLeast
<1>3. PICK x \in U : TRUE
  BY <1>2
<1>4. x \in Nat /\ \A y \in U : y \in Nat
  BY <1>2, <1>3
<1>5. CASE U = {x}
  BY <1>2, <1>4, <1>5
<1>6. CASE U # {x}
  <2>1. U \ {x} # {} /\ U \ {x} \in SUBSET S /\ U \ {x} # U
    BY <1>2, <1>3, <1>6
  <2>2. HasMin(U \ {x})
    BY <1>2, <2>1
  <2>3. PICK m \in U \ {x} : \A y \in U \ {x} : m <= y
    BY <2>2
  <2>4. CASE m <= x
    BY <1>2, <1>4, <2>3, <2>4
  <2>5. CASE ~ (m <= x)
    <3>1. \A y \in U : x <= y
      BY <1>4, <2>3, <2>5
    <3> QED  BY <1>2, <1>3, <3>1
  <2> QED  BY <2>4, <2>5
<1> QED  BY <1>5, <1>6

=============================================================================
