----------------------- MODULE DependencyGraph_proofs ------------------------
(* Lemmas about DependencyGraph, for any set of tasks, finite or not. *)
EXTENDS DependencyGraph, Integers, WellFoundedInduction, TLAPS

(* Every set of naturals has a least element.                                 *)
LEMMA LeastElement ==
  ASSUME NEW S \in SUBSET Nat, S # {}
  PROVE  \E x \in S : \A y \in S : x <= y
<1> DEFINE R == OpToRel(<, Nat)
<1>1. \A x, y \in Nat : <<x, y>> \in R <=> x < y
  BY DEF OpToRel
<1> HIDE DEF R
<1>2. IsWellFoundedOn(R, Nat)
  BY NatLessThanWellFounded DEF R
<1>3. PICK x \in S : \A y \in S : ~(<<y, x>> \in R)
  BY <1>2, WFMin
<1>4. \A y \in S : x <= y
  <2> SUFFICES ASSUME NEW y \in S PROVE x <= y
    OBVIOUS
  <2>1. ~(y < x)
    BY <1>1, <1>3
  <2> QED BY <2>1
<1> QED BY <1>4

(* Deleting edges cannot close a cycle (deleteMany of the removed edges).     *)
LEMMA AcyclicSubset ==
  ASSUME NEW N, NEW E, NEW F, F \subseteq E, Acyclic(E, N)
  PROVE  Acyclic(F, N)
BY DEF Acyclic

(* Fewer edges reach no further: a negative answer of the cycle check stays   *)
(* right while other transactions only delete edges.                          *)
LEMMA UnreachableSubset ==
  ASSUME NEW N, NEW E, NEW F, F \subseteq E, NEW A, NEW t, ~Reaches(E, N, A, t)
  PROVE  ~Reaches(F, N, A, t)
BY DEF Reaches, Closed

(* Inserting prerequisites of t from which t cannot be reached keeps the      *)
(* graph acyclic: what wouldCreateCycle is asked before createMany.           *)
THEOREM AddPrerequisitesAcyclic ==
  ASSUME NEW N, NEW E, Acyclic(E, N), NEW t, NEW A, ~Reaches(E, N, A, t)
  PROVE  Acyclic(E \cup ({t} \X A), N)
<1> DEFINE F == E \cup ({t} \X A)
<1> SUFFICES ASSUME NEW S \in SUBSET N, S # {}
             PROVE  \E a \in S : \A b \in S : <<a, b>> \notin F
  BY DEF Acyclic
<1>1. PICK C \in SUBSET N : A \subseteq C /\ Closed(E, C) /\ t \notin C
  BY DEF Reaches
<1>2. CASE S \cap C # {}
  <2>1. PICK a \in S \cap C : \A b \in S \cap C : <<a, b>> \notin E
    BY <1>2 DEF Acyclic
  <2>2. ASSUME NEW b \in S, <<a, b>> \in F
        PROVE  FALSE
    <3>1. a # t
      BY <1>1
    <3>2. <<a, b>> \in E
      BY <2>2, <3>1
    <3>3. b \in C
      BY <1>1, <3>2 DEF Closed
    <3> QED BY <2>1, <3>2, <3>3
  <2> QED BY <2>2
<1>3. CASE S \cap C = {}
  <2>1. PICK a \in S : \A b \in S : <<a, b>> \notin E
    BY DEF Acyclic
  <2>2. \A b \in S : <<a, b>> \notin F
    BY <1>1, <1>3, <2>1
  <2> QED BY <2>2
<1> QED BY <1>2, <1>3

(* And from which it can be reached: the new edges would close a cycle, so a   *)
(* refusal is never spurious. The tasks that reach t have no minimal one.      *)
THEOREM AddPrerequisitesCycle ==
  ASSUME NEW N, NEW E, E \subseteq N \X N, NEW t \in N, NEW A \in SUBSET N,
         Reaches(E, N, A, t)
  PROVE  ~Acyclic(E \cup ({t} \X A), N)
<1> DEFINE F == E \cup ({t} \X A)
           D == {a \in N : Reaches(E, N, {a}, t)}
<1>1. t \in D
  BY DEF Reaches
<1>2. Closed(E, N \ D) /\ t \notin N \ D
  <2> SUFFICES ASSUME NEW e \in E, e[1] \in N \ D PROVE e[2] \in N \ D
    BY <1>1 DEF Closed
  <2>1. PICK C \in SUBSET N : e[1] \in C /\ Closed(E, C) /\ t \notin C
    BY DEF Reaches
  <2>2. e[2] \in C
    BY <2>1 DEF Closed
  <2> QED BY <2>1, <2>2 DEF Reaches
<1>3. ASSUME NEW a \in D PROVE \E b \in D : <<a, b>> \in F
  <2>1. CASE a = t
    <3>1. PICK b \in A : b \notin N \ D
      BY <1>2 DEF Reaches
    <3> QED BY <2>1, <3>1
  <2>2. CASE a # t
    <3> SUFFICES ASSUME \A b \in D : <<a, b>> \notin F PROVE FALSE
      OBVIOUS
    <3> DEFINE C == (N \ D) \cup {a}
    <3>1. C \in SUBSET N /\ a \in C /\ t \notin C
      BY <1>1, <2>2
    <3>2. ASSUME NEW e \in E, e[1] \in C PROVE e[2] \in C
      <4>1. CASE e[1] = a
        <5>1. e = <<a, e[2]>> /\ e[2] \in N
          BY <4>1
        <5> QED BY <5>1
      <4>2. CASE e[1] # a
        BY <3>2, <4>2, <1>2 DEF Closed
      <4> QED BY <4>1, <4>2
    <3>3. Closed(E, C)
      BY <3>2 DEF Closed
    <3> QED BY <3>1, <3>3 DEF Reaches
  <2> QED BY <2>1, <2>2
<1>4. D \in SUBSET N /\ D # {}
  BY <1>1
<1> QED BY <1>3, <1>4 DEF Acyclic

(* A task without dependents is reached by no other task: a new row may take  *)
(* any existing tasks as prerequisites.                                       *)
LEMMA FreshUnreachable ==
  ASSUME NEW N, NEW E, E \subseteq N \X N, NEW t, NEW A \in SUBSET N, t \notin A,
         \A e \in E : e[2] # t
  PROVE  ~Reaches(E, N, A, t)
<1> DEFINE S == N \ {t}
<1>1. A \subseteq S /\ t \notin S /\ S \in SUBSET N
  OBVIOUS
<1>2. Closed(E, S)
  BY DEF Closed
<1> QED BY <1>1, <1>2 DEF Reaches

(* The edges after an update are the earlier ones, fewer, plus the added.     *)
LEMMA RewiredSubset ==
  ASSUME NEW E, NEW t, NEW old, NEW new
  PROVE  /\ Rewired(E, t, old, new) \subseteq E \cup ({t} \X (new \ old))
         /\ \A e : e[1] # t => (e \in Rewired(E, t, old, new) => e \in E)
BY DEF Rewired
==============================================================================
