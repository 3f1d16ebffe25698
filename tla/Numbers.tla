-------------------------------- MODULE Numbers --------------------------------
(***************************************************************************)
(* Induction over the natural numbers, in a form that speaks of sets: what *)
(* is said of a number is that it is in the set.                           *)
(***************************************************************************)
EXTENDS Integers, WellFoundedInduction, TLAPS

LessThan == {p \in Nat \X Nat : p[1] < p[2]}

\* Every set of numbers has a smallest.
LEMMA Smallest ==
    ASSUME NEW T, T \subseteq Nat, T # {}
    PROVE  \E n \in T : \A m \in T : ~(m < n)
<1>1. IsWellFoundedOn(LessThan, Nat)
  BY NatLessThanWellFounded DEF LessThan, OpToRel
<1>2. PICK n \in T : \A m \in T : <<m, n>> \notin LessThan
  BY <1>1, WFMin
<1>3. QED BY <1>2 DEF LessThan

\* A set that holds 0 and the successor of each of its members up to n has all
\* numbers up to n.
LEMMA Inductive ==
    ASSUME NEW n \in Nat, NEW S, 0 \in S,
           \A k \in 0..n : k \in S /\ k < n => k + 1 \in S
    PROVE  0..n \subseteq S
<1>1. SUFFICES ASSUME ~(0..n \subseteq S) PROVE FALSE
  OBVIOUS
<1> DEFINE T == {k \in 0..n : k \notin S}
<1>2. T \subseteq Nat /\ T # {}
  BY <1>1
<1>3. PICK k \in T : \A m \in T : ~(m < k)
  BY <1>2, Smallest
<1>4. k # 0 /\ k - 1 \in 0..n /\ k - 1 \notin T
  BY <1>3
<1>5. QED BY <1>3, <1>4

\* g has the values computed by the steps from start up to the n-th.
Computes(g, n, V, start, step) ==
    /\ g \in [0..n -> V]
    /\ g[0] = start
    /\ \A k \in 1..n : g[k] = step[k][g[k - 1]]

\* However many steps there are, they have values.
LEMMA Computed ==
    ASSUME NEW n \in Nat, NEW V, NEW start \in V, NEW step \in [1..n -> [V -> V]]
    PROVE  \E g : Computes(g, n, V, start, step)
<1> DEFINE UpTo(g, m) ==
              /\ g \in [0..m -> V]
              /\ g[0] = start
              /\ \A k \in 1..m : g[k] = step[k][g[k - 1]]
           S == {m \in 0..n : \E g : UpTo(g, m)}
<1>1. 0 \in S
  <2>1. UpTo([k \in 0..0 |-> start], 0)
    OBVIOUS
  <2> HIDE DEF UpTo
  <2>2. QED BY <2>1
<1>2. ASSUME NEW m \in 0..n, m \in S, m < n
      PROVE  m + 1 \in S
  <2>1. PICK g : UpTo(g, m)
    BY <1>2
  <2> DEFINE h == [k \in 0..(m + 1) |-> IF k = m + 1 THEN step[m + 1][g[m]] ELSE g[k]]
  <2>2. m \in Nat /\ m + 1 \in 1..n /\ m \in 0..m /\ g[m] \in V
    BY <1>2, <2>1
  <2>3. step[m + 1][g[m]] \in V
    BY <2>2
  <2>4. h \in [0..(m + 1) -> V] /\ h[0] = start
    BY <2>1, <2>2, <2>3
  <2>5. ASSUME NEW k \in 1..(m + 1) PROVE h[k] = step[k][h[k - 1]]
    <3>1. CASE k = m + 1
      BY <2>2, <3>1
    <3>2. CASE k # m + 1
      <4>1. k \in 1..m /\ k - 1 \in 0..m /\ k - 1 # m + 1
        BY <2>2, <3>2
      <4>2. h[k] = g[k] /\ h[k - 1] = g[k - 1]
        BY <2>2, <3>2, <4>1
      <4>3. QED BY <2>1, <4>1, <4>2
    <3>3. QED BY <3>1, <3>2
  <2>6. UpTo(h, m + 1)
    BY <2>4, <2>5
  <2> HIDE DEF UpTo, h
  <2>7. QED BY <1>2, <2>2, <2>6
<1>3. n \in S
  <2> HIDE DEF S
  <2>1. 0..n \subseteq S
    BY <1>1, <1>2, Inductive
  <2>2. QED BY <2>1
<1>4. QED BY <1>3 DEF Computes

===============================================================================
