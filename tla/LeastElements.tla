--------------------------- MODULE LeastElements ---------------------------
(***************************************************************************)
(* Least and greatest elements, from the well-foundedness of the subset    *)
(* order on finite sets. Whatever the proofs of this project show by       *)
(* induction over data, they show with these facts: the least place on a   *)
(* route at which something happens, the last departure of a partition.    *)
(***************************************************************************)
EXTENDS Integers, FiniteSets, FiniteSetTheorems, WellFoundedInduction, TLAPS

(* Every nonempty set of finite sets has a member that contains no other.  *)
LEMMA Smallest ==
  ASSUME NEW F, F # {}, \A A \in F : IsFiniteSet(A)
  PROVE  \E A \in F : \A B \in F : B \subseteq A => B = A
<1>1. F \subseteq FiniteSubsetsOf(UNION F)
  BY DEF FiniteSubsetsOf
<1>2. PICK A \in F : \A B \in F : <<B, A>> \notin StrictSubsetOrdering(UNION F)
  BY <1>1, WFMin, FS_StrictSubsetOrderingWellFounded
<1>3. ASSUME NEW B \in F, B \subseteq A PROVE B = A
  BY <1>2, <1>3 DEF StrictSubsetOrdering
<1> QED BY <1>3

(* Every nonempty set of natural numbers has a least element: the smallest *)
(* of the intervals 1 .. n.                                                *)
LEMMA Least ==
  ASSUME NEW T, T \subseteq Nat, T # {}
  PROVE  \E x \in T : \A y \in T : x <= y
<1> DEFINE F == {1 .. n : n \in T}
<1>1. F # {}
  BY Zenon
<1>a. \A A \in F : IsFiniteSet(A)
  <2> TAKE A \in F
  <2>1. PICK n \in T : A = 1 .. n
    OBVIOUS
  <2> QED BY <2>1, FS_Interval
<1>2. PICK A \in F : \A B \in F : B \subseteq A => B = A
  <2> HIDE DEF F
  <2> QED BY <1>1, <1>a, Smallest
<1>3. PICK x \in T : A = 1 .. x
  BY <1>2
<1>4. ASSUME NEW y \in T, y < x PROVE FALSE
  <2>1. 1 .. y \in F /\ 1 .. y \subseteq A
    BY <1>3, <1>4
  <2>2. x \in 1 .. x /\ x \notin 1 .. y
    BY <1>4
  <2> QED BY <1>2, <1>3, <2>1, <2>2
<1> QED BY <1>4

(* A bounded one has a greatest element: it has the least distance n - x.  *)
LEMMA Greatest ==
  ASSUME NEW T, T \subseteq Nat, T # {}, NEW n \in Nat, \A x \in T : x <= n
  PROVE  \E x \in T : \A y \in T : y <= x
<1> DEFINE U == {n - x : x \in T}
<1>1. U \subseteq Nat
  OBVIOUS
<1>a. U # {}
  BY Zenon
<1>2. PICK u \in U : \A y \in U : u <= y
  <2> HIDE DEF U
  <2> QED BY <1>1, <1>a, Least
<1>3. PICK x \in T : u = n - x
  BY <1>2
<1>4. ASSUME NEW y \in T PROVE y <= x
  <2>1. n - y \in U
    OBVIOUS
  <2> QED BY <1>2, <1>3, <2>1
<1> QED BY <1>4

(* So has a finite one: take a smallest set that has none, and one element *)
(* less.                                                                   *)
LEMMA FiniteMax ==
  ASSUME NEW S, S \subseteq Nat, IsFiniteSet(S), S # {}
  PROVE  \E x \in S : \A y \in S : y <= x
<1> DEFINE Bounded(A) == \E x \in A : \A y \in A : y <= x
           F == {A \in SUBSET S : A # {} /\ ~ Bounded(A)}
<1> SUFFICES ASSUME F # {} PROVE FALSE
  OBVIOUS
<1>1. \A A \in F : IsFiniteSet(A)
  BY FS_Subset
<1>2. PICK A \in F : \A B \in F : B \subseteq A => B = A
  <2> HIDE DEF F
  <2> QED BY <1>1, Smallest
<1>3. PICK a \in A : TRUE
  OBVIOUS
<1>4. A \ {a} # {}
  OBVIOUS
<1>5. A \ {a} \notin F
  BY <1>2
<1>6. PICK x \in A \ {a} : \A y \in A \ {a} : y <= x
  BY <1>4, <1>5
<1> QED BY <1>6
=============================================================================
