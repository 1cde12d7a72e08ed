------------------------- MODULE Induction_proofs ---------------------------
(***************************************************************************)
(* Induction over the numbers and over sequences, from the well-founded     *)
(* order of the numbers: the theorems of the library that take an operator  *)
(* cannot be used, sets and functions of them can.                          *)
(***************************************************************************)
EXTENDS WellFoundedInduction, TLAPS

(* Every set of numbers that is not empty has a least.                      *)
LEMMA LeastNumber ==
  ASSUME NEW T, T \subseteq Nat, T # {}
  PROVE  \E x \in T : \A y \in T : x <= y
<1> DEFINE R == {ss \in Nat \X Nat : ss[1] < ss[2]}
<1>1. IsWellFoundedOn(R, Nat)
  BY NatLessThanWellFounded DEF OpToRel
<1>2. ASSUME NEW x \in Nat, NEW y \in Nat, y < x PROVE <<y, x>> \in R
  <2> DEFINE p == <<y, x>>
  <2>1. p \in Nat \X Nat /\ p[1] = y /\ p[2] = x
    OBVIOUS
  <2> HIDE DEF p
  <2>2. p \in R
    BY <2>1, <1>2
  <2> QED
    BY <2>2 DEF p
<1> HIDE DEF R
<1>3. \E x \in T : \A y \in T : ~(<<y, x>> \in R)
  BY <1>1, WFMin
<1>4. \A x \in T, y \in T : x \in Nat /\ y \in Nat /\ (~(y < x) => x <= y)
  OBVIOUS
<1> QED
  BY <1>2, <1>3, <1>4

(* Induction up to a number, for a set.                                     *)
LEMMA InductionUpTo ==
  ASSUME NEW m \in Nat, NEW T, 0 \in T, \A n \in 0 .. m - 1 : n \in T => n + 1 \in T
  PROVE  \A n \in 0 .. m : n \in T
<1> SUFFICES ASSUME (0 .. m) \ T # {} PROVE FALSE
  OBVIOUS
<1>1. PICK x \in (0 .. m) \ T : \A y \in (0 .. m) \ T : x <= y
  <2>1. (0 .. m) \ T \subseteq Nat
    OBVIOUS
  <2> QED
    BY <2>1, LeastNumber
<1>2. x # 0
  OBVIOUS
<1>3. x - 1 \in 0 .. m - 1 /\ x - 1 \in T /\ x = (x - 1) + 1
  BY <1>1, <1>2
<1> QED
  BY <1>1, <1>3

(* There is a function that begins with any value, and goes on with any step. *)
StepsDefine(m, V) ==
  \A start \in V, step \in [1 .. m -> [V -> V]] :
    \E g \in [0 .. m -> V] : g[0] = start /\ \A n \in 1 .. m : g[n] = step[n][g[n - 1]]

(* A function that is described by its beginning and its steps is there.    *)
LEMMA Recursion == \A m \in Nat : \A V : StepsDefine(m, V)
<1> SUFFICES ASSUME NEW m \in Nat, NEW V, NEW start \in V, NEW step \in [1 .. m -> [V -> V]]
             PROVE  \E g \in [0 .. m -> V] :
                      g[0] = start /\ \A n \in 1 .. m : g[n] = step[n][g[n - 1]]
  BY DEF StepsDefine
<1> DEFINE Fits(k, g) == g[0] = start /\ \A n \in 1 .. k : g[n] = step[n][g[n - 1]]
           T == {k \in 0 .. m : \E g \in [0 .. k -> V] : Fits(k, g)}
<1>1. 0 \in T
  <2> DEFINE g == [n \in 0 .. 0 |-> start]
  <2>1. g \in [0 .. 0 -> V] /\ Fits(0, g)
    OBVIOUS
  <2> HIDE DEF g, Fits
  <2> QED
    BY <2>1
<1>2. ASSUME NEW k \in 0 .. m - 1, k \in T PROVE k + 1 \in T
  <2>1. PICK g \in [0 .. k -> V] : Fits(k, g)
    BY <1>2
  <2> DEFINE h == [n \in 0 .. k + 1 |-> IF n = k + 1 THEN step[k + 1][g[k]] ELSE g[n]]
  <2>2. step[k + 1] \in [V -> V] /\ g[k] \in V
    OBVIOUS
  <2>3. h \in [0 .. k + 1 -> V]
    BY <2>2
  <2>4. h[0] = start
    BY <2>1
  <2>5. ASSUME NEW n \in 1 .. k + 1 PROVE h[n] = step[n][h[n - 1]]
    BY <2>1, <2>5
  <2>6. Fits(k + 1, h)
    BY <2>4, <2>5
  <2> HIDE DEF h, Fits
  <2> QED
    BY <2>3, <2>6
<1>3. m \in T
  <2> HIDE DEF T
  <2>1. \A n \in 0 .. m : n \in T
    BY <1>1, <1>2, InductionUpTo
  <2> QED
    BY <2>1
<1> QED
  BY <1>3
=============================================================================
