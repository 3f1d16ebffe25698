----------------------------- MODULE DeliveryProofs -----------------------------
(***************************************************************************)
(* Proofs about Delivery: for any sections, packages and programs, any     *)
(* fault and any order of loads and runs.                                  *)
(***************************************************************************)
EXTENDS Delivery, Numbers, SequenceTheorems, FiniteSetTheorems

(***************************************************************************)
(* Lists.                                                                  *)
(***************************************************************************)

Members(q) == {q[i] : i \in 1..Len(q)}

LEMMA ListSeq ==
    ASSUME NEW q, IsList(q)
    PROVE  q \in Seq(Members(q)) /\ DOMAIN q = 1..Len(q) /\ Len(q) \in Nat
<1>1. Len(q) \in Nat /\ q \in [1..Len(q) -> Members(q)]
  BY DEF IsList, Members
<1>2. QED BY <1>1, SeqDef

LEMMA SeqList ==
    ASSUME NEW T, NEW q \in Seq(T)
    PROVE  IsList(q)
BY LenProperties DEF IsList

\* A function on the numbers from 1 on is a list.
LEMMA ListOf ==
    ASSUME NEW n \in Nat, NEW f, f = [i \in 1..n |-> f[i]]
    PROVE  IsList(f) /\ Len(f) = n
<1> DEFINE T == {f[i] : i \in 1..n}
<1>1. f \in [1..n -> T]
  OBVIOUS
<1>2. f \in Seq(T) /\ DOMAIN f = 1..n
  BY <1>1, SeqDef
<1>3. Len(f) \in Nat /\ DOMAIN f = 1..Len(f)
  BY <1>2, LenProperties
<1>4. Len(f) = n
  BY <1>2, <1>3
<1>5. QED BY <1>2, <1>4, SeqList

LEMMA ListSame ==
    ASSUME NEW p, IsList(p), NEW q, IsList(q), Len(p) = Len(q),
           \A i \in 1..Len(p) : p[i] = q[i]
    PROVE  p = q
BY DEF IsList

LEMMA ListLength ==
    ASSUME NEW q, IsList(q)
    PROVE  Len(q) \in Nat
BY DEF IsList

LEMMA ListEmpty == IsList(<<>>) /\ Len(<<>>) = 0
BY DEF IsList

LEMMA ListNone ==
    ASSUME NEW q, IsList(q), Len(q) = 0
    PROVE  q = <<>>
BY ListSame, ListEmpty

LEMMA ListOne ==
    ASSUME NEW x
    PROVE  IsList(<<x>>) /\ Len(<<x>>) = 1 /\ <<x>>[1] = x
<1>1. <<x>> \in Seq({x}) /\ Len(<<x>>) = 1 /\ <<x>>[1] = x
  OBVIOUS
<1>2. QED BY <1>1, SeqList

\* r is the list p and the list q behind it.
Joined(r, p, q) ==
    /\ IsList(r) /\ Len(r) = Len(p) + Len(q)
    /\ \A i \in 1..Len(p) : r[i] = p[i]
    /\ \A i \in 1..Len(q) : r[Len(p) + i] = q[i]

LEMMA ListConcat ==
    ASSUME NEW p, IsList(p), NEW q, IsList(q)
    PROVE  Joined(p \o q, p, q)
<1> DEFINE T == Members(p) \cup Members(q)
           m == Len(p)
           n == Len(q)
           r == p \o q
<1>1. m \in Nat /\ n \in Nat /\ p \in Seq(T) /\ q \in Seq(T)
  BY ListSeq, SeqMonotonic
<1>2. /\ r \in Seq(T) /\ Len(r) = m + n
      /\ \A i \in 1..m + n : r[i] = IF i <= m THEN p[i] ELSE q[i - m]
  BY <1>1, ConcatProperties
<1> HIDE DEF m, n, r, T
<1>3. ASSUME NEW i \in 1..m PROVE r[i] = p[i]
  BY <1>1, <1>2
<1>4. ASSUME NEW i \in 1..n PROVE r[m + i] = q[i]
  <2>1. m + i \in 1..m + n /\ ~(m + i <= m) /\ (m + i) - m = i
    BY <1>1
  <2>2. QED BY <1>2, <2>1
<1>5. IsList(r)
  BY <1>2, SeqList
<1>6. QED BY <1>2, <1>3, <1>4, <1>5 DEF m, n, r, Joined

LEMMA ListAppend ==
    ASSUME NEW q, IsList(q), NEW x
    PROVE  Joined(Append(q, x), q, <<x>>)
<1> DEFINE T == Members(q) \cup {x}
<1>1. q \in Seq(T)
  BY ListSeq, SeqMonotonic
<1>2. Append(q, x) \in Seq(T)
  BY <1>1, AppendProperties
<1>3. IsList(Append(q, x))
  BY <1>2, SeqList
<1>4. /\ Len(Append(q, x)) = Len(q) + 1 /\ Append(q, x)[Len(q) + 1] = x
      /\ \A i \in 1..Len(q) : Append(q, x)[i] = q[i]
  BY <1>1, AppendProperties
<1>5. Len(<<x>>) = 1 /\ <<x>>[1] = x
  OBVIOUS
<1>6. QED BY <1>3, <1>4, <1>5 DEF Joined

\* A unit of a joined list is one of the first, or one of the second.
LEMMA ListSplit ==
    ASSUME NEW p, IsList(p), NEW q, IsList(q), NEW r, Joined(r, p, q), NEW i \in 1..Len(r)
    PROVE  i \in 1..Len(p) \/ \E j \in 1..Len(q) : i = Len(p) + j
<1> DEFINE m == Len(p)
           n == Len(q)
<1>1. m \in Nat /\ n \in Nat /\ i \in 1..m + n
  BY DEF Joined, IsList
<1> HIDE DEF m, n
<1>2. CASE i <= m
  BY <1>1, <1>2 DEF m
<1>3. CASE ~(i <= m)
  <2>1. i - m \in 1..n /\ i = m + (i - m)
    BY <1>1, <1>3
  <2>2. QED BY <2>1 DEF m, n
<1>4. QED BY <1>2, <1>3

\* Units from within a list, or from where there is none.
IsTaken(r, q, at, n) == IsList(r) /\ Len(r) = n /\ \A i \in 1..n : r[i] = q[at + i]

LEMMA TakenIs ==
    ASSUME NEW q, NEW at \in Nat, NEW n \in Nat
    PROVE  IsTaken(Taken(q, at, n), q, at, n)
<1> DEFINE lo == at + 1
           hi == at + n
           T  == {q[i] : i \in lo..hi}
<1>1. /\ lo \in Int /\ hi \in Int /\ \A i \in lo..hi : q[i] \in T
      /\ hi - lo + 1 = n /\ (~(lo <= hi) => n = 0)
      /\ \A i \in 1..n : lo + i - 1 = at + i
  OBVIOUS
<1> HIDE DEF T
<1>2. /\ SubSeq(q, lo, hi) \in Seq(T)
      /\ Len(SubSeq(q, lo, hi)) = IF lo <= hi THEN hi - lo + 1 ELSE 0
      /\ \A i \in 1..hi - lo + 1 : SubSeq(q, lo, hi)[i] = q[lo + i - 1]
  <2> HIDE DEF lo, hi
  <2>1. QED BY <1>1, SubSeqProperties
<1>3. Len(SubSeq(q, lo, hi)) = n
  BY <1>1, <1>2
<1>4. QED BY <1>1, <1>2, <1>3, SeqList DEF Taken, IsTaken

LEMMA CutIs ==
    ASSUME NEW q, NEW n \in Nat
    PROVE  IsTaken(SubSeq(q, 1, n), q, 0, n)
<1>1. SubSeq(q, 1, n) = Taken(q, 0, n)
  <2>1. 0 + 1 = 1 /\ 0 + n = n
    OBVIOUS
  <2>2. QED BY <2>1, Zenon DEF Taken
<1>2. QED BY <1>1, TakenIs

\* e[k] is where the first k of the lists end when they are put together.
Ends(e, qs) ==
    /\ e \in [0..Len(qs) -> Nat]
    /\ e[0] = 0
    /\ \A k \in 1..Len(qs) : e[k] = e[k - 1] + Len(qs[k])

Lists(qs) == IsList(qs) /\ \A k \in 1..Len(qs) : IsList(qs[k])

LEMMA EndsExist ==
    ASSUME NEW qs, Lists(qs)
    PROVE  \E e : Ends(e, qs)
<1> DEFINE n    == Len(qs)
           step == [k \in 1..n |-> [at \in Nat |-> at + Len(qs[k])]]
<1>1. n \in Nat /\ \A k \in 1..n : Len(qs[k]) \in Nat
  BY DEF Lists, IsList
<1>2. step \in [1..n -> [Nat -> Nat]]
  BY <1>1
<1>3. PICK e : Computes(e, n, Nat, 0, step)
  <2> HIDE DEF n, step
  <2>1. QED BY <1>1, <1>2, Computed
<1>4. ASSUME NEW k \in 1..n PROVE e[k] = e[k - 1] + Len(qs[k])
  <2>1. k - 1 \in 0..n
    BY <1>1
  <2>2. e[k - 1] \in Nat
    BY <1>3, <2>1 DEF Computes
  <2>3. QED BY <1>3, <2>2 DEF Computes
<1>5. QED BY <1>3, <1>4 DEF Computes, Ends

\* Each list ends where the next one begins, and not behind the last one.
LEMMA EndsGrow ==
    ASSUME NEW qs, Lists(qs), NEW e, Ends(e, qs), NEW k \in 0..Len(qs)
    PROVE  e[k] \in Nat /\ e[k] <= e[Len(qs)]
<1> DEFINE n == Len(qs)
           S == {d \in 0..n : \A i \in 0..n : i + d = n => e[i] <= e[n]}
<1>1. n \in Nat /\ e \in [0..n -> Nat] /\ \A i \in 1..n : Len(qs[i]) \in Nat
  BY DEF Lists, IsList, Ends
<1>2. 0 \in S
  BY <1>1
<1>3. ASSUME NEW d \in 0..n, d \in S, d < n PROVE d + 1 \in S
  <2>1. d + 1 \in 0..n
    BY <1>1, <1>3
  <2>2. ASSUME NEW i \in 0..n, i + (d + 1) = n PROVE e[i] <= e[n]
    <3>1. i + 1 \in 1..n /\ i + 1 \in 0..n /\ (i + 1) + d = n /\ (i + 1) - 1 = i
      BY <1>1, <2>2
    <3>2. e[i + 1] <= e[n]
      BY <1>3, <3>1
    <3>3. e[i + 1] = e[i] + Len(qs[i + 1])
      BY <3>1 DEF Ends
    <3>4. e[i] \in Nat /\ e[i + 1] \in Nat /\ e[n] \in Nat /\ Len(qs[i + 1]) \in Nat
      <4>1. i \in 0..n /\ n \in 0..n
        BY <1>1
      <4>2. QED BY <1>1, <3>1, <4>1
    <3>5. QED BY <3>2, <3>3, <3>4
  <2>3. QED BY <2>1, <2>2
<1>4. n - k \in 0..n /\ k + (n - k) = n
  BY <1>1
<1>5. n - k \in S
  <2> HIDE DEF S, n
  <2>1. 0..n \subseteq S
    BY <1>1, <1>2, <1>3, Inductive
  <2>2. QED BY <1>4, <2>1
<1>6. QED BY <1>1, <1>4, <1>5

\* Every place is in one of the lists.
LEMMA EndsCover ==
    ASSUME NEW qs, Lists(qs), NEW e, Ends(e, qs), NEW j \in 1..e[Len(qs)]
    PROVE  \E k \in 1..Len(qs) : \E i \in 1..Len(qs[k]) : j = e[k - 1] + i
<1> DEFINE n == Len(qs)
           T == {k \in 0..n : j <= e[k]}
<1>1. /\ n \in Nat /\ e \in [0..n -> Nat] /\ e[0] = 0
      /\ \A k \in 1..n : e[k] = e[k - 1] + Len(qs[k]) /\ Len(qs[k]) \in Nat
  BY DEF Lists, IsList, Ends
<1>2. n \in 0..n /\ e[n] \in Nat /\ j \in Nat /\ j >= 1 /\ j <= e[n]
  BY <1>1
<1>3. T \subseteq Nat /\ T # {}
  <2>1. n \in T
    BY <1>2
  <2>2. QED BY <1>1, <2>1
<1>4. PICK k \in T : \A l \in T : ~(l < k)
  <2> HIDE DEF T
  <2>1. QED BY <1>3, Smallest
<1>5. k # 0
  BY <1>1, <1>2, <1>4
<1>6. k \in 1..n /\ k - 1 \in 0..n /\ k - 1 \notin T
  BY <1>1, <1>4, <1>5
<1>7. e[k - 1] \in Nat /\ j <= e[k] /\ ~(j <= e[k - 1]) /\ e[k] = e[k - 1] + Len(qs[k])
      /\ Len(qs[k]) \in Nat
  BY <1>1, <1>4, <1>6
<1>8. j - e[k - 1] \in 1..Len(qs[k]) /\ j = e[k - 1] + (j - e[k - 1])
  BY <1>2, <1>7
<1>9. QED BY <1>6, <1>8

\* p is made of the lists.
Strings(p, qs) ==
    /\ IsList(p)
    /\ \A e : Ends(e, qs) =>
          /\ Len(p) = e[Len(qs)]
          /\ \A k \in 1..Len(qs) : \A j \in 1..Len(qs[k]) : p[e[k - 1] + j] = qs[k][j]

\* f[i] is made of the first i.
Flattens(f, qs, n) == f = [i \in 1..n |-> IF i = 1 THEN qs[i] ELSE f[i - 1] \o qs[i]]

LEMMA FlattensExist ==
    ASSUME NEW qs, IsList(qs)
    PROVE  \E f : Flattens(f, qs, Len(qs))
<1> DEFINE n == Len(qs)
           S == {k \in 0..n : \E f : Flattens(f, qs, k)}
<1>1. n \in Nat
  BY DEF IsList
<1>2. 0 \in S
  <2>1. Flattens(<<>>, qs, 0)
    BY DEF Flattens
  <2>2. QED BY <1>1, <2>1
<1>3. ASSUME NEW k \in 0..n, k \in S, k < n PROVE k + 1 \in S
  <2>1. PICK f : Flattens(f, qs, k)
    BY <1>3
  <2> DEFINE g == [i \in 1..k + 1 |->
                      IF i \in 1..k THEN f[i]
                      ELSE IF i = 1 THEN qs[i] ELSE f[i - 1] \o qs[i]]
  <2>2. ASSUME NEW i \in 1..k + 1
        PROVE  g[i] = IF i = 1 THEN qs[i] ELSE g[i - 1] \o qs[i]
    <3>1. CASE i = 1
      BY <1>1, <2>1, <3>1 DEF Flattens
    <3>2. CASE i # 1
      <4>1. i - 1 \in 1..k /\ i - 1 \in 1..k + 1
        BY <1>1, <3>2
      <4>2. g[i - 1] = f[i - 1]
        BY <4>1
      <4>3. g[i] = f[i - 1] \o qs[i]
        BY <2>1, <3>2 DEF Flattens
      <4>4. QED BY <3>2, <4>2, <4>3
    <3>3. QED BY <3>1, <3>2
  <2>3. Flattens(g, qs, k + 1)
    <3>1. g = [i \in 1..k + 1 |-> IF i = 1 THEN qs[i] ELSE g[i - 1] \o qs[i]]
      BY <2>2
    <3> HIDE DEF g
    <3>2. QED BY <3>1 DEF Flattens
  <2> HIDE DEF g
  <2>4. QED BY <1>1, <1>3, <2>3
<1>4. n \in S
  <2> HIDE DEF S, n
  <2>1. 0..n \subseteq S
    BY <1>1, <1>2, <1>3, Inductive
  <2>2. QED BY <1>1, <2>1
<1>5. QED BY <1>4

LEMMA FlattenIs ==
    ASSUME NEW qs, Lists(qs)
    PROVE  Strings(FlattenSeq(qs), qs)
<1> DEFINE n == Len(qs)
           f == CHOOSE f : Flattens(f, qs, n)
<1>1. n \in Nat /\ \A k \in 1..n : IsList(qs[k])
  BY DEF Lists, IsList
<1>2. CASE n = 0
  <2>1. FlattenSeq(qs) = <<>>
    BY <1>2, ListNone DEF FlattenSeq, Lists
  <2>2. QED BY <1>2, <2>1, ListEmpty DEF Strings, Ends
<1>3. CASE n # 0
  <2>1. FlattenSeq(qs) = f[n]
    BY <1>3 DEF FlattenSeq, Flattens
  <2>2. Flattens(f, qs, n)
    BY FlattensExist DEF Lists
  <2> HIDE DEF f
  <2>3. ASSUME NEW e, Ends(e, qs)
        PROVE  /\ IsList(f[n]) /\ Len(f[n]) = e[n]
               /\ \A k \in 1..n : \A j \in 1..Len(qs[k]) : f[n][e[k - 1] + j] = qs[k][j]
    <3> DEFINE Fine(i) ==
                 /\ IsList(f[i]) /\ Len(f[i]) = e[i]
                 /\ \A k \in 1..i : \A j \in 1..Len(qs[k]) : f[i][e[k - 1] + j] = qs[k][j]
               S == {i \in 0..n : i = 0 \/ Fine(i)}
    <3>1. e \in [0..n -> Nat] /\ e[0] = 0 /\ \A k \in 1..n : e[k] = e[k - 1] + Len(qs[k])
      BY <2>3 DEF Ends
    <3>2. 0 \in S
      BY <1>1
    <3>3. ASSUME NEW i \in 0..n, i \in S, i < n PROVE i + 1 \in S
      <4>1. /\ i + 1 \in 1..n /\ i + 1 \in 0..n /\ (i + 1) - 1 = i
            /\ e[i + 1] = e[i] + Len(qs[i + 1]) /\ e[i] \in Nat /\ IsList(qs[i + 1])
            /\ Len(qs[i + 1]) \in Nat
        <5>1. i + 1 \in 1..n /\ i + 1 \in 0..n /\ (i + 1) - 1 = i
          BY <1>1, <3>3
        <5>2. IsList(qs[i + 1])
          BY <1>1, <5>1
        <5>3. QED BY <3>1, <5>1, <5>2 DEF IsList
      <4>2. CASE i = 0
        <5>1. f[1] = qs[1]
          BY <1>1, <1>3, <2>2 DEF Flattens
        <5>2. ASSUME NEW k \in 1..1, NEW j \in 1..Len(qs[k])
              PROVE  f[1][e[k - 1] + j] = qs[k][j]
          <6>1. k = 1 /\ k - 1 = 0
            OBVIOUS
          <6>2. j \in Nat /\ 0 + j = j
            BY <4>1, <4>2, <6>1
          <6>3. QED BY <3>1, <5>1, <6>1, <6>2
        <5>3. QED BY <3>1, <4>1, <4>2, <5>1, <5>2
      <4>3. CASE i # 0
        <5>1. Fine(i)
          BY <3>3, <4>3
        <5>2. f[i + 1] = f[i] \o qs[i + 1]
          <6>1. i + 1 # 1
            BY <4>3
          <6>2. QED BY <2>2, <4>1, <6>1 DEF Flattens
        <5>3. /\ IsList(f[i + 1]) /\ Len(f[i + 1]) = e[i] + Len(qs[i + 1])
              /\ \A p \in 1..e[i] : f[i + 1][p] = f[i][p]
              /\ \A p \in 1..Len(qs[i + 1]) : f[i + 1][e[i] + p] = qs[i + 1][p]
          <6>1. IsList(f[i]) /\ Len(f[i]) = e[i]
            BY <5>1
          <6>2. Joined(f[i + 1], f[i], qs[i + 1])
            BY <4>1, <5>2, <6>1, ListConcat
          <6>3. QED BY <6>1, <6>2 DEF Joined
        <5>4. ASSUME NEW k \in 1..i + 1, NEW j \in 1..Len(qs[k])
              PROVE  f[i + 1][e[k - 1] + j] = qs[k][j]
          <6>1. CASE k = i + 1
            BY <4>1, <5>3, <6>1
          <6>2. CASE k # i + 1
            <7>1. k \in 1..i /\ k \in 1..n /\ k \in 0..i /\ k - 1 \in 0..n
              BY <1>1, <6>2
            <7>2. f[i][e[k - 1] + j] = qs[k][j]
              BY <5>1, <7>1
            <7>3. e[k - 1] \in Nat /\ e[k] = e[k - 1] + Len(qs[k]) /\ Len(qs[k]) \in Nat
              BY <1>1, <3>1, <7>1 DEF IsList
            <7>4. e[k] <= e[i]
              <8> DEFINE ps == SubSeq(qs, 1, i)
                         d  == [m \in 0..i |-> e[m]]
              <8>1. IsList(ps) /\ Len(ps) = i /\ \A m \in 1..i : ps[m] = qs[m]
                <9>1. IsTaken(ps, qs, 0, i) /\ \A m \in 1..i : 0 + m = m
                  BY <1>1, CutIs
                <9> HIDE DEF ps
                <9>2. QED BY <9>1 DEF IsTaken
              <8>2. Lists(ps)
                BY <1>1, <8>1 DEF Lists
              <8>3. Ends(d, ps)
                <9>1. \A m \in 1..i : m \in 1..n /\ m - 1 \in 0..i /\ m \in 0..i
                  BY <1>1
                <9>2. d \in [0..i -> Nat] /\ d[0] = 0
                  <10>1. \A m \in 0..i : e[m] \in Nat
                    BY <1>1, <3>1
                  <10>2. QED BY <1>1, <3>1, <10>1
                <9>3. \A m \in 1..i : d[m] = d[m - 1] + Len(ps[m])
                  BY <3>1, <8>1, <9>1
                <9> HIDE DEF ps, d
                <9>4. QED BY <8>1, <9>2, <9>3 DEF Ends
              <8>4. d[k] <= d[i]
                <9> HIDE DEF ps, d
                <9>1. QED BY <7>1, <8>1, <8>2, <8>3, EndsGrow
              <8>5. i \in 0..i
                OBVIOUS
              <8>6. QED BY <7>1, <8>4, <8>5
            <7>5. e[k - 1] + j \in 1..e[i]
              <8>1. j \in Nat /\ 1 <= j /\ j <= Len(qs[k]) /\ e[i] \in Nat /\ e[k] \in Nat
                BY <4>1, <7>3
              <8>2. QED BY <7>3, <7>4, <8>1
            <7>6. QED BY <5>3, <7>2, <7>5
          <6>3. QED BY <6>1, <6>2
        <5>5. QED BY <4>1, <5>3, <5>4
      <4>4. QED BY <4>2, <4>3
    <3>4. n \in S
      <4> HIDE DEF S, n
      <4>1. 0..n \subseteq S
        BY <1>1, <3>2, <3>3, Inductive
      <4>2. QED BY <1>1, <4>1
    <3>5. QED BY <1>3, <3>4
  <2>4. PICK e : Ends(e, qs)
    BY EndsExist
  <2>5. QED BY <2>1, <2>3, <2>4 DEF Strings
<1>4. QED BY <1>2, <1>3

(***************************************************************************)
(* Numbers in their order.                                                 *)
(***************************************************************************)

\* a has each of the numbers once, the smallest first.
Ascends(a, ids) ==
    /\ IsList(a) /\ Len(a) = Cardinality(ids)
    /\ \A k \in 1..Len(a) : a[k] \in ids
    /\ \A x \in ids : \E k \in 1..Len(a) : a[k] = x
    /\ \A k, l \in 1..Len(a) : k < l => a[k] < a[l]

LEMMA AscendingIs ==
    ASSUME NEW ids, IsFiniteSet(ids), ids \subseteq Nat
    PROVE  Ascends(Ascending(ids), ids)
<1> DEFINE n        == Cardinality(ids)
           Below(x) == {y \in ids : y < x}
           rank     == [x \in ids |-> Cardinality(Below(x)) + 1]
           a        == Ascending(ids)
<1>1. n \in Nat
  BY FS_CardinalityType
<1>2. ASSUME NEW x \in ids
      PROVE  /\ IsFiniteSet(Below(x)) /\ Cardinality(Below(x)) \in Nat
             /\ Cardinality(Below(x)) + 1 <= n
  <2>1. IsFiniteSet(Below(x)) /\ Cardinality(Below(x)) \in Nat
    BY FS_Subset, FS_CardinalityType
  <2>2. x \notin Below(x)
    OBVIOUS
  <2>3. /\ IsFiniteSet(Below(x) \cup {x})
        /\ Cardinality(Below(x) \cup {x}) = Cardinality(Below(x)) + 1
    <3> HIDE DEF Below
    <3>1. QED BY <2>1, <2>2, FS_AddElement
  <2>4. Cardinality(Below(x) \cup {x}) <= n
    <3>1. (Below(x) \cup {x}) \in SUBSET ids
      OBVIOUS
    <3> HIDE DEF Below
    <3>2. QED BY <3>1, FS_Subset
  <2>5. QED BY <2>1, <2>3, <2>4
<1>3. ASSUME NEW x \in ids, NEW z \in ids, x < z
      PROVE  Cardinality(Below(x)) < Cardinality(Below(z))
  <2>1. (Below(x) \cup {x}) \in SUBSET Below(z) /\ x \notin Below(x)
    <3>1. ASSUME NEW y \in ids, y < x PROVE y < z
      <4>1. x \in Nat /\ y \in Nat /\ z \in Nat
        OBVIOUS
      <4>2. QED BY <1>3, <3>1, <4>1
    <3>2. Below(x) \subseteq Below(z)
      BY <3>1
    <3>3. x \in Below(z) /\ x \in Nat
      BY <1>3
    <3>4. ~(x < x)
      BY <3>3
    <3>5. QED BY <3>2, <3>3, <3>4
  <2> HIDE DEF Below
  <2>2. Cardinality(Below(x) \cup {x}) = Cardinality(Below(x)) + 1
    BY <1>2, <2>1, FS_AddElement
  <2>3. Cardinality(Below(x) \cup {x}) <= Cardinality(Below(z))
    BY <1>2, <2>1, FS_Subset
  <2>4. QED BY <1>2, <2>2, <2>3
<1>4. rank \in Injection(ids, 1..n)
  <2>1. \A x \in ids : rank[x] \in 1..n
    BY <1>1, <1>2
  <2>2. ASSUME NEW x \in ids, NEW z \in ids, rank[x] = rank[z] PROVE x = z
    <3>1. ~(x < z) /\ ~(z < x)
      BY <1>2, <1>3, <2>2
    <3>2. x \in Nat /\ z \in Nat
      OBVIOUS
    <3>3. QED BY <3>1, <3>2
  <2>3. rank \in [ids -> 1..n]
    BY <2>1
  <2> HIDE DEF rank
  <2>4. QED BY <2>2, <2>3 DEF Injection, IsInjective
<1>5. rank \in Surjection(ids, 1..n)
  <2>1. IsFiniteSet(1..n) /\ Cardinality(1..n) = n
    BY <1>1, FS_Interval
  <2> HIDE DEF rank
  <2>2. QED BY <1>4, <2>1, FS_Injection
<1>6. ASSUME NEW k \in 1..n
      PROVE  a[k] \in ids /\ Cardinality(Below(a[k])) = k - 1
  <2>1. PICK x \in ids : rank[x] = k
    <3> HIDE DEF rank
    <3>1. QED BY <1>5 DEF Surjection
  <2>2. Cardinality(Below(x)) = k - 1
    BY <1>1, <1>2, <2>1
  <2>3. a[k] = CHOOSE y \in ids : Cardinality(Below(y)) = k - 1
    BY DEF Ascending
  <2> HIDE DEF Below, a
  <2>4. QED BY <2>2, <2>3
<1>7. a = [k \in 1..n |-> a[k]]
  <2> DEFINE c(k) == CHOOSE x \in ids : Cardinality({y \in ids : y < x}) = k - 1
  <2>1. a = [k \in 1..n |-> c(k)]
    BY DEF Ascending
  <2> HIDE DEF a, c
  <2>2. QED BY <2>1
<1> HIDE DEF a
<1>8. IsList(a) /\ Len(a) = n
  <2> HIDE DEF n
  <2>1. QED BY <1>1, <1>7, ListOf
<1>9. ASSUME NEW x \in ids PROVE \E k \in 1..n : a[k] = x
  <2>1. rank[x] \in 1..n /\ rank[x] - 1 = Cardinality(Below(x))
    BY <1>1, <1>2
  <2> DEFINE y == a[rank[x]]
  <2>2. y \in ids /\ Cardinality(Below(y)) = Cardinality(Below(x))
    BY <1>6, <2>1
  <2> HIDE DEF y
  <2>3. x \in Nat /\ y \in Nat /\ Cardinality(Below(x)) \in Nat
    BY <1>2, <2>2
  <2>4. ~(y < x)
    <3>1. y < x => Cardinality(Below(y)) < Cardinality(Below(x))
      BY <1>3, <2>2
    <3> HIDE DEF Below
    <3>2. QED BY <2>2, <2>3, <3>1
  <2>5. ~(x < y)
    <3>1. x < y => Cardinality(Below(x)) < Cardinality(Below(y))
      BY <1>3, <2>2
    <3> HIDE DEF Below
    <3>2. QED BY <2>2, <2>3, <3>1
  <2>6. y = x
    BY <2>3, <2>4, <2>5
  <2>7. QED BY <2>1, <2>6 DEF y
<1>10. ASSUME NEW k \in 1..n, NEW l \in 1..n, k < l PROVE a[k] < a[l]
  <2> DEFINE x == a[k]
             y == a[l]
  <2>1. /\ x \in ids /\ y \in ids /\ x \in Nat /\ y \in Nat
        /\ Cardinality(Below(x)) = k - 1 /\ Cardinality(Below(y)) = l - 1
    BY <1>6
  <2> HIDE DEF x, y
  <2>2. ~(y < x) /\ x # y
    <3>1. ~(l - 1 < k - 1) /\ k - 1 # l - 1
      BY <1>1, <1>10
    <3> HIDE DEF Below
    <3>2. QED BY <1>3, <2>1, <3>1
  <2>3. x < y
    BY <2>1, <2>2
  <2>4. QED BY <2>3 DEF x, y
<1>11. Ascends(a, ids)
  BY <1>6, <1>8, <1>9, <1>10 DEF Ascends
<1>12. QED BY <1>11 DEF a

\* The only number is the largest and the smallest.
LEMMA OnlyOne ==
    ASSUME NEW x \in Int
    PROVE  Max({x}) = x /\ Min({x}) = x
BY DEF Max, Min

LEMMA DivIs ==
    ASSUME NEW x \in Nat, NEW a \in Nat, a > 0
    PROVE  /\ x \div a \in Nat
           /\ (x \div a) * a <= x /\ x < (x \div a) * a + a
<1>1. x \div a \in Nat
  OBVIOUS
<1>2. x = a * (x \div a) + (x % a) /\ x % a \in 0..a-1
  OBVIOUS
<1>3. QED BY <1>1, <1>2
LEMMA ModIs ==
    ASSUME NEW q \in Nat, NEW a \in Nat, a > 0
    PROVE  (q * a) % a = 0
OBVIOUS
LEMMA AlignUpIs ==
    ASSUME NEW at \in Nat, NEW align \in Nat
    PROVE  /\ align_up(at, align) \in Nat /\ align_up(at, align) >= at
           /\ align > 1 => align_up(at, align) % align = 0
<1>1. CASE align <= 1
  BY <1>1 DEF align_up
<1>2. CASE align > 1
  <2> DEFINE x == at + align - 1
             q == x \div align
  <2>1. x \in Nat /\ align > 0
    BY <1>2
  <2>2. q \in Nat /\ q * align <= x /\ x < q * align + align
    <3> HIDE DEF x
    <3>1. QED BY <2>1, DivIs
  <2>3. align_up(at, align) = q * align
    BY <1>2 DEF align_up
  <2>4. (q * align) % align = 0
    <3> HIDE DEF q
    <3>1. QED BY <2>1, <2>2, ModIs
  <2> HIDE DEF q
  <2> DEFINE r == q * align
  <2>5. r \in Nat
    BY <2>2
  <2>6. r >= at
    <3>1. r <= x /\ x < r + align
      BY <2>2
    <3> HIDE DEF r
    <3>2. QED BY <2>5, <3>1
  <2>7. QED BY <2>3, <2>4, <2>5, <2>6
<1>3. QED BY <1>1, <1>2

(***************************************************************************)
(* How an archive is laid out.                                             *)
(***************************************************************************)

\* What every section has.
Sectioned(s)   == s.id \in Nat /\ s.align \in Nat /\ IsList(s.payload)
SectionList(q) == IsList(q) /\ \A i \in 1..Len(q) : Sectioned(q[i])

\* S has the sections q, no two of them with one id.
Sorted(S, q) ==
    /\ SectionList(S) /\ Len(S) = Len(q)
    /\ \A k \in 1..Len(S) : \E i \in 1..Len(q) : S[k] = q[i]
    /\ \A i \in 1..Len(q) : \E k \in 1..Len(S) : S[k] = q[i]
    /\ \A k, l \in 1..Len(S) : S[k].id = S[l].id => k = l

LEMMA ByIdIs ==
    ASSUME NEW q, SectionList(q), DistinctIds(q)
    PROVE  Sorted(ById(q), q)
<1> DEFINE n     == Len(q)
           ids   == {q[i].id : i \in DOMAIN q}
           order == Ascending(ids)
           at(k) == CHOOSE i \in DOMAIN q : q[i].id = order[k]
           S     == ById(q)
<1>1. n \in Nat /\ DOMAIN q = 1..n /\ \A i \in 1..n : q[i].id \in Nat
  BY DEF SectionList, Sectioned, IsList
<1>2. IsFiniteSet(ids) /\ Cardinality(ids) = n /\ ids \subseteq Nat
  <2> DEFINE f == [i \in 1..n |-> q[i].id]
  <2>1. f \in Bijection(1..n, ids)
    <3>1. f \in [1..n -> ids] /\ \A x \in ids : \E i \in 1..n : f[i] = x
      BY <1>1
    <3>2. \A i, j \in 1..n : f[i] = f[j] => i = j
      BY <1>1 DEF DistinctIds
    <3>3. DOMAIN f = 1..n
      OBVIOUS
    <3> HIDE DEF f, ids
    <3>4. f \in Injection(1..n, ids)
      BY <3>1, <3>2, <3>3 DEF Injection, IsInjective
    <3>5. f \in Surjection(1..n, ids)
      BY <3>1 DEF Surjection
    <3>6. QED BY <3>4, <3>5 DEF Bijection
  <2>2. IsFiniteSet(1..n) /\ Cardinality(1..n) = n
    <3> HIDE DEF n
    <3>1. QED BY <1>1, FS_Interval
  <2>3. ids \subseteq Nat
    BY <1>1
  <2> HIDE DEF f, ids
  <2>4. QED BY <2>1, <2>2, <2>3, FS_Bijection DEF ExistsBijection
<1>3. Ascends(order, ids)
  <2> HIDE DEF ids
  <2>1. QED BY <1>2, AscendingIs
<1>4. IsList(order) /\ Len(order) = n /\ DOMAIN order = 1..n
  BY <1>2, <1>3, ListSeq DEF Ascends
<1>5. ASSUME NEW k \in 1..n
      PROVE  S[k] = q[at(k)] /\ at(k) \in 1..n /\ S[k].id = order[k]
  <2>1. S[k] = q[at(k)]
    BY <1>4 DEF ById
  <2>2. \E i \in DOMAIN q : q[i].id = order[k]
    <3>1. order[k] \in ids
      <4> HIDE DEF ids, order
      <4>1. QED BY <1>3, <1>4 DEF Ascends
    <3>2. QED BY <3>1
  <2>3. at(k) \in DOMAIN q /\ q[at(k)].id = order[k]
    <3> HIDE DEF order
    <3>1. QED BY <2>2
  <2>4. QED BY <1>1, <2>1, <2>3
<1>6. S = [k \in 1..n |-> q[at(k)]]
  BY <1>4 DEF ById
<1> HIDE DEF S, at
<1>7. IsList(S) /\ Len(S) = n
  <2>1. S = [k \in 1..n |-> S[k]]
    BY <1>6
  <2> HIDE DEF n
  <2>2. QED BY <1>1, <2>1, ListOf
<1>8. \A k \in 1..n : Sectioned(S[k]) /\ \E i \in 1..n : S[k] = q[i]
  BY <1>5 DEF SectionList
<1>9. ASSUME NEW k \in 1..n, NEW l \in 1..n, S[k].id = S[l].id PROVE k = l
  <2>1. order[k] = order[l]
    BY <1>5, <1>9
  <2>2. ~(k < l) /\ ~(l < k)
    <3>1. order[k] \in ids /\ order[l] \in ids
      <4> HIDE DEF ids, order
      <4>1. QED BY <1>3, <1>4 DEF Ascends
    <3>2. order[k] \in Nat /\ order[l] \in Nat
      BY <1>2, <3>1
    <3>3. (k < l => order[k] < order[l]) /\ (l < k => order[l] < order[k])
      <4> HIDE DEF ids, order
      <4>1. QED BY <1>3, <1>4 DEF Ascends
    <3> DEFINE a == order[k]
               b == order[l]
    <3>4. a \in Nat /\ b \in Nat /\ a = b /\ (k < l => a < b) /\ (l < k => b < a)
      BY <2>1, <3>2, <3>3
    <3> HIDE DEF a, b
    <3>5. QED BY <3>4
  <2>3. QED BY <1>1, <2>2
<1>10. ASSUME NEW i \in 1..n PROVE \E k \in 1..n : S[k] = q[i]
  <2>1. PICK k \in 1..n : order[k] = q[i].id
    <3>1. q[i].id \in ids
      BY <1>1
    <3> HIDE DEF ids, order
    <3>2. QED BY <1>3, <1>4, <3>1 DEF Ascends
  <2>2. at(k) \in 1..n /\ S[k] = q[at(k)] /\ q[at(k)].id = q[i].id
    BY <1>5, <2>1
  <2>3. at(k) = i
    BY <1>1, <2>2 DEF DistinctIds
  <2>4. QED BY <2>2, <2>3
<1>11. Sorted(S, q)
  BY <1>7, <1>8, <1>9, <1>10 DEF Sorted, SectionList
<1>12. QED BY <1>11 DEF S

\* Where the sections start: behind the table, aligned, each behind the others
\* before it.
Laying(st, S) ==
    /\ \A i \in 1..Len(S) :
          /\ st[i] \in Nat /\ st[i] >= TableOffset + Len(S)
          /\ S[i].align > 1 => st[i] % S[i].align = 0
    /\ \A i, j \in 1..Len(S) : i < j => st[i] + Len(S[i].payload) <= st[j]

LEMMA StartsAre ==
    ASSUME NEW S, SectionList(S)
    PROVE  Laying(Starts(S), S)
<1> DEFINE n        == Len(S)
           first    == align_up(TableOffset + n, Block)
           size(i)  == Len(S[i].payload)
           Sets(st) == st = [i \in DOMAIN S |->
                         align_up(IF i = 1 THEN first ELSE st[i - 1] + Len(S[i - 1].payload),
                                  S[i].align)]
           st       == CHOOSE st : Sets(st)
<1>1. /\ n \in Nat /\ DOMAIN S = 1..n
      /\ \A i \in 1..n : size(i) \in Nat /\ S[i].align \in Nat
  BY DEF SectionList, Sectioned, IsList
<1>2. first \in Nat /\ first >= TableOffset + n
  <2>1. TableOffset + n \in Nat /\ Block \in Nat
    BY <1>1, BlockAssumption DEF TableOffset
  <2>2. QED BY <2>1, AlignUpIs
<1>3. \E g : Sets(g)
  <2> DEFINE more(k) == IF k = 1 THEN 0 ELSE size(k - 1)
             step == [k \in 1..n |-> [v \in Nat |-> align_up(v + more(k), S[k].align)]]
  <2>1. ASSUME NEW k \in 1..n PROVE more(k) \in Nat
    <3>1. CASE k = 1
      BY <3>1
    <3>2. CASE k # 1
      <4>1. k - 1 \in 1..n
        BY <1>1, <3>2
      <4>2. QED BY <1>1, <3>2, <4>1
    <3>3. QED BY <3>1, <3>2
  <2> HIDE DEF first, more, size
  <2>2. step \in [1..n -> [Nat -> Nat]]
    <3>1. ASSUME NEW k \in 1..n, NEW v \in Nat PROVE align_up(v + more(k), S[k].align) \in Nat
      <4>1. v + more(k) \in Nat /\ S[k].align \in Nat
        BY <1>1, <2>1
      <4>2. QED BY <4>1, AlignUpIs
    <3>2. QED BY <3>1
  <2>3. PICK g : Computes(g, n, Nat, first, step)
    <3> HIDE DEF n, step
    <3>1. QED BY <1>1, <1>2, <2>2, Computed
  <2> DEFINE h == [i \in 1..n |-> g[i]]
  <2>4. ASSUME NEW i \in 1..n
        PROVE  h[i] = align_up(IF i = 1 THEN first ELSE h[i - 1] + Len(S[i - 1].payload), S[i].align)
    <3>1. i - 1 \in 0..n
      BY <1>1
    <3>2. g[i - 1] \in Nat
      BY <2>3, <3>1 DEF Computes
    <3>3. h[i] = align_up(g[i - 1] + more(i), S[i].align)
      BY <2>3, <3>2 DEF Computes
    <3>4. CASE i = 1
      <4>1. g[i - 1] + more(i) = first
        <5>1. g[0] = first /\ more(i) = 0
          BY <2>3, <3>4 DEF Computes, more
        <5>2. QED BY <1>2, <3>4, <5>1
      <4>2. QED BY <3>3, <3>4, <4>1
    <3>5. CASE i # 1
      <4>1. i - 1 \in 1..n
        BY <1>1, <3>5
      <4>2. h[i - 1] = g[i - 1] /\ more(i) = Len(S[i - 1].payload)
        BY <3>5, <4>1 DEF more, size
      <4>3. QED BY <3>3, <3>5, <4>2
    <3>6. QED BY <3>4, <3>5
  <2>5. Sets(h)
    <3>1. h = [i \in 1..n |-> align_up(IF i = 1 THEN first ELSE h[i - 1] + Len(S[i - 1].payload),
                                       S[i].align)]
      BY <2>4
    <3> HIDE DEF h
    <3>2. QED BY <1>1, <3>1
  <2> HIDE DEF Sets, h
  <2>6. QED BY <2>5
<1>4. Sets(st)
  <2> HIDE DEF Sets
  <2>1. QED BY <1>3
<1>5. Starts(S) = st
  BY DEF Starts
<1> HIDE DEF st, first
<1>6. \A i \in 1..n : st[i] = align_up(IF i = 1 THEN first ELSE st[i - 1] + size(i - 1), S[i].align)
  BY <1>1, <1>4
<1> HIDE DEF size, Sets
<1> DEFINE Good(i) ==
              /\ st[i] \in Nat /\ st[i] >= TableOffset + n
              /\ S[i].align > 1 => st[i] % S[i].align = 0
              /\ \A j \in 1..n : j < i => st[j] \in Nat /\ st[j] + size(j) <= st[i]
           G == {i \in 0..n : i = 0 \/ Good(i)}
<1>7. 0 \in G
  BY <1>1
<1>8. ASSUME NEW i \in 0..n, i \in G, i < n PROVE i + 1 \in G
  <2> DEFINE k  == i + 1
             at == IF k = 1 THEN first ELSE st[k - 1] + size(k - 1)
  <2>1. k \in 1..n /\ k \in 0..n /\ k - 1 = i /\ S[k].align \in Nat /\ st[k] = align_up(at, S[k].align)
    BY <1>1, <1>6, <1>8
  <2>2. at \in Nat /\ at >= TableOffset + n
    <3>1. CASE i = 0
      BY <1>2, <3>1
    <3>2. CASE i # 0
      <4>1. i \in 1..n /\ Good(i)
        BY <1>8, <3>2
      <4>2. st[i] \in Nat /\ size(i) \in Nat /\ st[i] >= TableOffset + n
        BY <1>1, <4>1
      <4>3. at = st[i] + size(i)
        BY <2>1, <3>2
      <4>4. QED BY <1>1, <4>2, <4>3 DEF TableOffset
    <3>3. QED BY <3>1, <3>2
  <2> DEFINE al == S[k].align
  <2>3. /\ st[k] \in Nat /\ st[k] >= at /\ st[k] >= TableOffset + n
        /\ S[k].align > 1 => st[k] % S[k].align = 0
    <3>1. al \in Nat /\ st[k] = align_up(at, al)
      BY <2>1
    <3> HIDE DEF at, al
    <3>2. st[k] \in Nat /\ st[k] >= at /\ (al > 1 => st[k] % al = 0)
      BY <2>2, <3>1, AlignUpIs
    <3>3. st[k] >= TableOffset + n
      BY <1>1, <2>2, <3>2 DEF TableOffset
    <3>4. QED BY <3>2, <3>3 DEF al
  <2>4. ASSUME NEW j \in 1..n, j < k PROVE st[j] \in Nat /\ st[j] + size(j) <= st[k]
    <3>1. i \in 1..n /\ i # 0
      BY <1>1, <2>4
    <3>2. Good(i)
      BY <1>8, <3>1
    <3>3. at = st[i] + size(i) /\ st[i] \in Nat /\ size(i) \in Nat
      BY <1>1, <2>1, <3>1, <3>2
    <3>4. CASE j = i
      BY <2>3, <3>3, <3>4
    <3>5. CASE j # i
      <4>1. j < i
        BY <2>4, <3>5
      <4>2. st[j] \in Nat /\ st[j] + size(j) <= st[i] /\ size(j) \in Nat
        BY <1>1, <3>2, <4>1
      <4>3. at \in Nat /\ st[i] <= at /\ st[k] \in Nat /\ at <= st[k]
        BY <2>2, <2>3, <3>3
      <4> HIDE DEF at, k
      <4>4. QED BY <3>3, <4>2, <4>3
    <3>6. QED BY <3>4, <3>5
  <2>5. Good(k)
    BY <2>3, <2>4
  <2>6. QED BY <2>1, <2>5
<1>9. \A i \in 1..n : Good(i)
  <2>1. 0..n \subseteq G
    <3> HIDE DEF G, n
    <3>1. QED BY <1>1, <1>7, <1>8, Inductive
  <2>2. QED BY <2>1
<1>10. Laying(st, S)
  BY <1>9 DEF Laying, size
<1>11. QED BY <1>5, <1>10

\* What both readers rely on.
Headed(u, n) == u.unit = "header" /\ u.count = n /\ u.table = TableOffset /\ u.security = 1

Lays(u, S, st) ==
    /\ IsList(u) /\ Len(u) >= TableOffset + Len(S)
    /\ Headed(u[1], Len(S))
    /\ \A i \in 1..Len(S) :
          /\ u[TableOffset + i] = Entry(S[i], st[i])
          /\ st[i] + Len(S[i].payload) <= Len(u)
          /\ \A j \in 1..Len(S[i].payload) : u[st[i] + j] = S[i].payload[j]

Unsigned(u, key) ==
    /\ u[1] = [unit |-> "header", count |-> u[1].count, table |-> u[1].table,
               security |-> u[1].security, signatureAt |-> 0, signatureSize |-> 0]
    /\ u[2] = [unit |-> "security", key |-> key]

LEMMA LaidIs ==
    ASSUME NEW S, SectionList(S), NEW st, Laying(st, S), NEW key
    PROVE  Lays(Laid(S, st, key), S, st) /\ Unsigned(Laid(S, st, key), key)
<1> DEFINE n       == Len(S)
           size(i) == Len(S[i].payload)
           length  == IF n = 0 THEN TableOffset ELSE st[n] + size(n)
           u       == Laid(S, st, key)
           In(p)   == \E i \in 1..n : p - st[i] \in 1..size(i)
           Of(p)   == CHOOSE i \in 1..n : p - st[i] \in 1..size(i)
           header  == [unit |-> "header", count |-> n, table |-> TableOffset, security |-> 1,
                       signatureAt |-> 0, signatureSize |-> 0]
           At(p)   == IF p = 1 THEN header
                      ELSE IF p = 2 THEN [unit |-> "security", key |-> key]
                      ELSE IF p <= TableOffset + n THEN Entry(S[p - 2], st[p - 2])
                      ELSE IF In(p) THEN S[Of(p)].payload[p - st[Of(p)]]
                      ELSE Padding
<1>1. n \in Nat /\ \A i \in 1..n : size(i) \in Nat
  BY DEF SectionList, Sectioned, IsList
<1>2. \A i \in 1..n : st[i] \in Nat /\ st[i] >= TableOffset + n
  BY DEF Laying
<1>3. \A i, j \in 1..n : i < j => st[i] + size(i) <= st[j]
  BY DEF Laying
<1>4. u = [p \in 1..length |-> At(p)]
  BY DEF Laid
<1> HIDE DEF u, size
<1>5. length \in Nat /\ length >= TableOffset + n
  <2>1. CASE n = 0
    BY <2>1 DEF TableOffset
  <2>2. CASE n # 0
    <3>1. n \in 1..n
      BY <1>1, <2>2
    <3>2. st[n] \in Nat /\ size(n) \in Nat /\ st[n] >= TableOffset + n
      BY <1>1, <1>2, <3>1
    <3>3. QED BY <1>1, <2>2, <3>2 DEF TableOffset
  <2>3. QED BY <2>1, <2>2
<1>6. ASSUME NEW i \in 1..n PROVE st[i] + size(i) <= length
  <2>1. n \in 1..n /\ n # 0 /\ length = st[n] + size(n)
    BY <1>1
  <2>2. CASE i = n
    BY <1>1, <1>2, <2>1, <2>2
  <2>3. CASE i # n
    <3>1. i < n
      BY <1>1, <2>3
    <3>2. st[i] + size(i) <= st[n] /\ st[i] \in Nat /\ st[n] \in Nat /\ size(i) \in Nat /\ size(n) \in Nat
      BY <1>1, <1>2, <1>3, <2>1, <3>1
    <3>3. QED BY <2>1, <3>2
  <2>4. QED BY <2>2, <2>3
<1> HIDE DEF length, At
<1>7. IsList(u) /\ Len(u) = length /\ \A p \in 1..length : u[p] = At(p)
  <2>1. u = [p \in 1..length |-> u[p]] /\ \A p \in 1..length : u[p] = At(p)
    BY <1>4
  <2>2. QED BY <1>5, <2>1, ListOf
<1>8. u[1] = header /\ u[2] = [unit |-> "security", key |-> key]
  <2>1. 1 \in 1..length /\ 2 \in 1..length
    BY <1>1, <1>5 DEF TableOffset
  <2>2. At(1) = header /\ At(2) = [unit |-> "security", key |-> key]
    BY DEF At
  <2>3. QED BY <1>7, <2>1, <2>2
<1>9. ASSUME NEW i \in 1..n PROVE u[TableOffset + i] = Entry(S[i], st[i])
  <2> DEFINE p == TableOffset + i
  <2>1. p \in 1..length /\ p # 1 /\ p # 2 /\ p <= TableOffset + n /\ p - 2 = i
    BY <1>1, <1>5 DEF TableOffset
  <2>2. u[p] = At(p)
    BY <1>7, <2>1
  <2> HIDE DEF p
  <2>3. u[p] = Entry(S[i], st[i])
    BY <2>1, <2>2 DEF At
  <2>4. QED BY <2>3 DEF p
<1>10. ASSUME NEW i \in 1..n, NEW j \in 1..size(i) PROVE u[st[i] + j] = S[i].payload[j]
  <2> DEFINE p == st[i] + j
             k == Of(p)
  <2>1. st[i] \in Nat /\ size(i) \in Nat /\ j \in Nat /\ j >= 1 /\ j <= size(i)
    BY <1>1, <1>2
  <2>2. p \in 1..length /\ p # 1 /\ p # 2 /\ ~(p <= TableOffset + n) /\ p - st[i] = j
    <3>1. st[i] >= TableOffset + n /\ st[i] + size(i) <= length
      BY <1>2, <1>6
    <3>2. QED BY <1>1, <1>5, <2>1, <3>1 DEF TableOffset
  <2>3. In(p)
    BY <2>2
  <2>4. k \in 1..n /\ p - st[k] \in 1..size(k)
    BY <2>3
  <2> HIDE DEF k
  <2>5. k = i
    <3>1. st[k] \in Nat /\ size(k) \in Nat /\ k \in Nat /\ i \in Nat
      BY <1>1, <1>2, <2>4
    <3>2. (k < i => st[k] + size(k) <= st[i]) /\ (i < k => st[i] + size(i) <= st[k])
      BY <1>3, <2>4
    <3>3. p - st[k] >= 1 /\ p - st[k] <= size(k)
      BY <2>4, <3>1
    <3> HIDE DEF In
    <3>4. ~(k < i)
      BY <2>1, <3>1, <3>2, <3>3
    <3>5. ~(i < k)
      BY <2>1, <3>1, <3>2, <3>3
    <3>6. QED BY <3>1, <3>4, <3>5
  <2>6. u[p] = At(p)
    BY <1>7, <2>2
  <2>7. At(p) = S[k].payload[p - st[k]]
    BY <2>2, <2>3 DEF At, k
  <2>8. QED BY <2>2, <2>5, <2>6, <2>7
<1>11. Lays(u, S, st)
  <2>1. Headed(u[1], n) /\ \A i \in 1..n : st[i] + size(i) <= Len(u)
    BY <1>6, <1>7, <1>8 DEF Headed
  <2>2. QED BY <1>5, <1>7, <1>9, <1>10, <2>1 DEF Lays, size
<1>12. Unsigned(u, key)
  BY <1>8 DEF Unsigned
<1>13. QED BY <1>11, <1>12 DEF u

\* The archive that Archive_decode makes of units it accepts.
Accepted(u, n) == [header |-> u[1], security |-> u[2], entries |-> Taken(u, TableOffset, n), units |-> u]

\* A record with entries is something read.
LEMMA AcceptedIsRead ==
    ASSUME NEW u, NEW n
    PROVE  IsRead(Accepted(u, n))
<1>1. "entries" \in DOMAIN Accepted(u, n) /\ "entries" \notin DOMAIN NotRead
  BY DEF Accepted, NotRead
<1>2. QED BY <1>1 DEF IsRead

\* The two readers agree where the header says what the builder wrote, or there is
\* none.
LEMMA ReadersAgree ==
    ASSUME NEW u, IsList(u), NEW n \in Nat, Len(u) >= 1 => Headed(u[1], n)
    PROVE  Stream_open(u) = Archive_decode(u)
<1>1. CASE Len(u) = 0
  <2>1. u = <<>>
    BY <1>1, ListNone
  <2>2. QED BY <1>1, <2>1 DEF Stream_open, Archive_decode, Opened
<1>2. CASE Len(u) # 0
  <2>1. u # <<>> /\ Headed(u[1], n)
    BY <1>2, ListEmpty DEF IsList
  <2>2. QED BY <2>1 DEF Stream_open, Archive_decode, Headed
<1>3. QED BY <1>1, <1>2

(***************************************************************************)
(* What a fault leaves of a list, and what a reader finds in the file of   *)
(* an archive.                                                             *)
(***************************************************************************)

\* One unit, or another that a fault may have made of it.
Hit(w, u)  == w = u \/ w \in Damaged(u) \ {u}
Near(f, u) == IsList(f) /\ Len(f) <= Len(u) /\ \A p \in 1..Len(f) : Hit(f[p], u[p])

Firm == {"header", "security", "entry", "manifest", "count", "extension", "place", "worker"}

LEMMA FirmStays ==
    ASSUME NEW u, u.unit \in Firm
    PROVE  Damaged(u) = {}
BY Zenon DEF Damaged, Firm

LEMMA FirmHit ==
    ASSUME NEW u, NEW w, u.unit \in Firm, Hit(w, u)
    PROVE  w = u
BY FirmStays DEF Hit

LEMMA EntryIs ==
    ASSUME NEW s, NEW offset
    PROVE  LET e == Entry(s, offset)
           IN  /\ e.unit = "entry" /\ e.id = s.id /\ e.kind = s.kind /\ e.flags = s.flags
               /\ e.align = s.align /\ e.hash = s.hash /\ e.offset = offset
               /\ e.packed = Len(s.payload) /\ e.unpacked = Len(s.payload)
BY DEF Entry

\* The entries of the sections, as far as the file goes.
Carries(f, S, st) ==
    /\ IsList(f)
    /\ Len(f) >= 1 => Headed(f[1], Len(S))
    /\ \A i \in 1..Len(S) : TableOffset + i <= Len(f) => f[TableOffset + i] = Entry(S[i], st[i])

LEMMA NearCarries ==
    ASSUME NEW S, SectionList(S), NEW st, NEW u, Lays(u, S, st), NEW f, Near(f, u)
    PROVE  Carries(f, S, st)
<1>1. IsList(f) /\ Len(f) \in Nat /\ Len(u) \in Nat /\ Len(f) <= Len(u) /\ Len(S) \in Nat
  BY DEF Near, Lays, IsList, SectionList
<1>2. ASSUME Len(f) >= 1 PROVE Headed(f[1], Len(S))
  <2>1. Hit(f[1], u[1])
    BY <1>1, <1>2 DEF Near
  <2>2. Headed(u[1], Len(S)) /\ u[1].unit \in Firm
    BY DEF Lays, Headed, Firm
  <2>3. QED BY <2>1, <2>2, FirmHit
<1>3. ASSUME NEW i \in 1..Len(S), TableOffset + i <= Len(f)
      PROVE  f[TableOffset + i] = Entry(S[i], st[i])
  <2> DEFINE p == TableOffset + i
  <2>1. p \in 1..Len(f)
    BY <1>1, <1>3 DEF TableOffset
  <2>2. u[p] = Entry(S[i], st[i])
    BY DEF Lays
  <2>3. Hit(f[p], u[p])
    BY <2>1 DEF Near
  <2> HIDE DEF p
  <2>4. u[p].unit \in Firm
    BY <2>2 DEF Entry, Firm
  <2>5. f[p] = u[p]
    BY <2>3, <2>4, FirmHit
  <2>6. QED BY <2>2, <2>5 DEF p
<1>4. QED BY <1>1, <1>2, <1>3 DEF Carries

\* What the reader of a file with the sections S gives back.
Finds(a, f, S, st) ==
    /\ a = Accepted(f, Len(S))
    /\ IsList(a.entries) /\ Len(a.entries) = Len(S) /\ Len(f) >= TableOffset + Len(S)
    /\ \A i \in 1..Len(S) :
          /\ a.entries[i] = Entry(S[i], st[i])
          /\ st[i] + Len(S[i].payload) <= Len(f)

LEMMA OpenedIs ==
    ASSUME NEW S, SectionList(S), NEW st, NEW f, Carries(f, S, st), IsRead(Archive_decode(f))
    PROVE  Finds(Archive_decode(f), f, S, st)
<1> DEFINE n  == Len(S)
           es == Taken(f, TableOffset, n)
<1>1. n \in Nat /\ Len(f) \in Nat
  BY DEF SectionList, IsList, Carries
<1>2. /\ Len(f) # 0 /\ f[1].unit = "header" /\ ~(Len(f) < 1 + 1)
      /\ ~(Len(f) < TableOffset + f[1].count)
      /\ verify_layout(Taken(f, TableOffset, f[1].count), Len(f))
      /\ Archive_decode(f) = [header |-> f[1], security |-> f[1 + 1],
                              entries |-> Taken(f, TableOffset, f[1].count), units |-> f]
  BY DEF Archive_decode, Opened, IsRead
<1>3. f[1].count = n
  <2>1. Len(f) >= 1
    BY <1>1, <1>2
  <2>2. QED BY <2>1 DEF Carries, Headed
<1>4. Archive_decode(f) = Accepted(f, n) /\ Len(f) >= TableOffset + n
  <2>1. 1 + 1 = 2
    OBVIOUS
  <2>2. Len(f) >= TableOffset + n
    BY <1>1, <1>2, <1>3 DEF TableOffset
  <2>3. QED BY <1>2, <1>3, <2>1, <2>2 DEF Accepted
<1>5. IsList(es) /\ Len(es) = n /\ \A i \in 1..n : es[i] = f[TableOffset + i]
  <2>1. TableOffset \in Nat
    BY DEF TableOffset
  <2> HIDE DEF n
  <2>2. QED BY <1>1, <2>1, TakenIs DEF IsTaken
<1>6. ASSUME NEW i \in 1..n
      PROVE  es[i] = Entry(S[i], st[i]) /\ st[i] + Len(S[i].payload) <= Len(f)
  <2>1. TableOffset + i <= Len(f)
    BY <1>1, <1>4 DEF TableOffset
  <2>2. es[i] = Entry(S[i], st[i])
    BY <1>5, <2>1 DEF Carries
  <2>3. es[i].offset + es[i].packed <= Len(f)
    <3>1. i \in DOMAIN es
      <4> HIDE DEF es
      <4>1. QED BY <1>5, ListSeq
    <3>2. QED BY <1>2, <1>3, <3>1 DEF verify_layout
  <2> HIDE DEF es
  <2>4. QED BY <2>2, <2>3 DEF Entry
<1>7. QED BY <1>4, <1>5, <1>6 DEF Finds, Accepted

LEMMA OpensWhole ==
    ASSUME NEW S, SectionList(S), NEW st, NEW f, Carries(f, S, st),
           Len(f) >= TableOffset + Len(S),
           \A i \in 1..Len(S) : st[i] + Len(S[i].payload) <= Len(f),
           \A k, l \in 1..Len(S) : S[k].id = S[l].id => k = l
    PROVE  IsRead(Archive_decode(f))
<1> DEFINE n  == Len(S)
           es == Taken(f, TableOffset, n)
<1>1. n \in Nat /\ Len(f) \in Nat
  BY DEF SectionList, IsList, Carries
<1>2. /\ Len(f) # 0 /\ ~(Len(f) < 1 + 1) /\ Headed(f[1], n)
      /\ ~(Len(f) < TableOffset + n)
  BY <1>1 DEF TableOffset, Carries
<1>3. IsList(es) /\ Len(es) = n /\ \A i \in 1..n : es[i] = f[TableOffset + i]
  <2>1. TableOffset \in Nat
    BY DEF TableOffset
  <2>2. IsTaken(es, f, TableOffset, n)
    <3> HIDE DEF n
    <3>1. QED BY <1>1, <2>1, TakenIs
  <2> HIDE DEF n
  <2>3. QED BY <2>2 DEF IsTaken
<1>4. DOMAIN es = 1..n
  <2> HIDE DEF es
  <2>1. QED BY <1>3, ListSeq
<1>5. \A i \in 1..n : es[i] = Entry(S[i], st[i])
  <2>1. ASSUME NEW i \in 1..n PROVE es[i] = Entry(S[i], st[i])
    <3>1. TableOffset + i <= Len(f)
      BY <1>1, <1>2 DEF TableOffset
    <3>2. QED BY <1>3, <3>1 DEF Carries
  <2>2. QED BY <2>1
<1>6. verify_layout(es, Len(f))
  <2> HIDE DEF es
  <2>1. \A i \in 1..n : es[i].id = S[i].id /\ es[i].offset = st[i] /\ es[i].packed = Len(S[i].payload)
    BY <1>5, EntryIs
  <2>2. QED BY <1>4, <2>1 DEF verify_layout, DistinctIds
<1>7. Archive_decode(f) = Accepted(f, n)
  <2>1. 1 + 1 = 2
    OBVIOUS
  <2>2. f[1].unit = "header" /\ f[1].count = n
    BY <1>2 DEF Headed
  <2> HIDE DEF n
  <2>3. QED BY <1>2, <1>6, <2>1, <2>2 DEF Archive_decode, Opened, Accepted
<1>8. QED BY <1>7, AcceptedIsRead

\* A section is found by its id.
LEMMA SectionIs ==
    ASSUME NEW S, SectionList(S), \A k, l \in 1..Len(S) : S[k].id = S[l].id => k = l,
           NEW st, NEW f, NEW a, Finds(a, f, S, st), NEW id
    PROVE  /\ HasSection(a, id) <=> \E i \in 1..Len(S) : S[i].id = id
           /\ \A i \in 1..Len(S) : S[i].id = id => section(a, id) = Entry(S[i], st[i])
<1>1. DOMAIN a.entries = 1..Len(S)
  BY ListSeq DEF Finds
<1>2. \A i \in 1..Len(S) : a.entries[i] = Entry(S[i], st[i]) /\ a.entries[i].id = S[i].id
  BY EntryIs DEF Finds
<1>3. HasSection(a, id) <=> \E i \in 1..Len(S) : S[i].id = id
  BY <1>1, <1>2 DEF HasSection
<1>4. ASSUME NEW i \in 1..Len(S), S[i].id = id PROVE section(a, id) = Entry(S[i], st[i])
  <2> DEFINE k == CHOOSE k \in DOMAIN a.entries : a.entries[k].id = id
  <2>1. k \in 1..Len(S) /\ S[k].id = id
    BY <1>1, <1>2, <1>4
  <2>2. section(a, id) = a.entries[k]
    BY DEF section
  <2> HIDE DEF k
  <2>3. k = i
    BY <1>4, <2>1
  <2>4. QED BY <1>2, <2>2, <2>3
<1>5. QED BY <1>3, <1>4

\* The bytes of a section that lies within the file are near to what was pushed.
LEMMA BytesNear ==
    ASSUME NEW S, SectionList(S), NEW st, Laying(st, S), NEW u, Lays(u, S, st),
           NEW f, Near(f, u), NEW a, a.units = f,
           NEW i \in 1..Len(S), st[i] + Len(S[i].payload) <= Len(f)
    PROVE  LET b == section_bytes(a, Entry(S[i], st[i]))
           IN  /\ Near(b, S[i].payload) /\ Len(b) = Len(S[i].payload)
               /\ \A j \in 1..Len(S[i].payload) : b[j] = f[st[i] + j]
<1> DEFINE b == section_bytes(a, Entry(S[i], st[i]))
           m == Len(S[i].payload)
           s == st[i]
<1>1. s \in Nat /\ m \in Nat /\ Len(f) \in Nat
  BY DEF SectionList, Sectioned, IsList, Laying, Near
<1>2. b = Taken(f, s, m)
  BY DEF section_bytes, Entry
<1> HIDE DEF b
<1>3. IsList(b) /\ Len(b) = m /\ \A j \in 1..m : b[j] = f[s + j]
  <2> HIDE DEF s, m
  <2>1. IsTaken(b, f, s, m)
    BY ONLY <1>1, <1>2, TakenIs
  <2>2. QED BY <1>1, <2>1 DEF IsTaken
<1>4. ASSUME NEW j \in 1..m PROVE Hit(b[j], S[i].payload[j])
  <2>1. s + j \in 1..Len(f)
    BY <1>1
  <2>2. Hit(f[s + j], u[s + j])
    BY <2>1 DEF Near
  <2>3. u[s + j] = S[i].payload[j]
    BY DEF Lays
  <2>4. QED BY <1>3, <2>2, <2>3
<1>5. Near(b, S[i].payload)
  <2>1. m <= m
    BY <1>1
  <2>2. QED BY <1>3, <1>4, <2>1 DEF Near
<1>6. QED BY <1>3, <1>5 DEF b

(***************************************************************************)
(* What stands where in a list.                                            *)
(***************************************************************************)

\* Behind the first `at` units of r stands q, as far as r goes.
Slot(r, at, q) ==
    /\ at \in Nat /\ IsList(q)
    /\ \A i \in 1..Len(q) : at + i <= Len(r) => r[at + i] = q[i]

LEMMA SlotSelf ==
    ASSUME NEW q, IsList(q)
    PROVE  Slot(q, 0, q)
<1>1. \A i \in 1..Len(q) : 0 + i = i
  BY DEF IsList
<1>2. QED BY <1>1 DEF Slot

LEMMA SlotSplit ==
    ASSUME NEW r, NEW at, NEW p, IsList(p), NEW q, IsList(q), Slot(r, at, p \o q)
    PROVE  Slot(r, at, p) /\ Slot(r, at + Len(p), q)
<1> DEFINE x == p \o q
           m == Len(p)
           n == Len(q)
<1>1. /\ at \in Nat /\ m \in Nat /\ n \in Nat
      /\ \A i \in 1..Len(x) : at + i <= Len(r) => r[at + i] = x[i]
  BY DEF Slot, IsList
<1>2. Joined(x, p, q)
  BY ListConcat
<1> HIDE DEF x
<1>3. Len(x) = m + n /\ (\A i \in 1..m : x[i] = p[i]) /\ \A i \in 1..n : x[m + i] = q[i]
  BY <1>2 DEF Joined
<1> HIDE DEF m, n
<1>4. ASSUME NEW i \in 1..m, at + i <= Len(r) PROVE r[at + i] = p[i]
  <2>1. i \in 1..Len(x)
    BY <1>1, <1>3
  <2>2. QED BY <1>1, <1>3, <1>4, <2>1
<1>5. ASSUME NEW i \in 1..n, (at + m) + i <= Len(r) PROVE r[(at + m) + i] = q[i]
  <2>1. m + i \in 1..Len(x) /\ at + (m + i) = (at + m) + i
    BY <1>1, <1>3
  <2>2. r[at + (m + i)] = x[m + i]
    BY <1>1, <1>5, <2>1
  <2>3. QED BY <1>3, <2>1, <2>2
<1>6. at + m \in Nat
  BY <1>1
<1>7. QED BY <1>1, <1>4, <1>5, <1>6 DEF Slot, m, n

\* What stands within a list is what can be taken there.
LEMMA SlotTaken ==
    ASSUME NEW r, NEW at, NEW q, Slot(r, at, q), at + Len(q) <= Len(r), Len(r) \in Nat
    PROVE  Taken(r, at, Len(q)) = q
<1> DEFINE n == Len(q)
           t == Taken(r, at, n)
<1>1. at \in Nat /\ n \in Nat /\ IsList(q)
  BY DEF Slot, IsList
<1>2. IsTaken(t, r, at, n)
  <2> HIDE DEF n
  <2>1. QED BY <1>1, TakenIs
<1>3. ASSUME NEW i \in 1..n PROVE t[i] = q[i]
  <2>1. at + i <= Len(r)
    BY <1>1
  <2>2. r[at + i] = q[i]
    BY <2>1 DEF Slot
  <2> HIDE DEF t
  <2>3. QED BY <1>2, <2>2 DEF IsTaken
<1> HIDE DEF t
<1>4. t = q
  BY <1>1, <1>2, <1>3, ListSame DEF IsTaken
<1>5. QED BY <1>4 DEF t

LEMMA SlotOne ==
    ASSUME NEW r, NEW at, NEW x, Slot(r, at, <<x>>), at + 1 <= Len(r)
    PROVE  r[at + 1] = x
<1>1. Len(<<x>>) = 1 /\ <<x>>[1] = x
  BY ListOne
<1>2. QED BY <1>1 DEF Slot

LEMMA SlotFlatten ==
    ASSUME NEW r, NEW at, NEW qs, Lists(qs), NEW e, Ends(e, qs), Len(r) \in Nat,
           Slot(r, at, FlattenSeq(qs)), NEW k \in 1..Len(qs)
    PROVE  Slot(r, at + e[k - 1], qs[k])
<1> DEFINE n == Len(qs)
           x == FlattenSeq(qs)
           m == e[k - 1]
           q == qs[k]
<1>1. Strings(x, qs)
  BY FlattenIs
<1> HIDE DEF x
<1>2. n \in Nat /\ k - 1 \in 0..n /\ k \in 0..n /\ IsList(q) /\ Len(q) \in Nat
  BY DEF Lists, IsList
<1>3. m \in Nat /\ e[k] = m + Len(q) /\ e[k] <= e[n] /\ e[n] \in Nat
  <2>1. m \in Nat /\ e[k] = m + Len(q) /\ e[n] \in Nat
    <3>1. e \in [0..n -> Nat] /\ \A i \in 1..n : e[i] = e[i - 1] + Len(qs[i])
      BY DEF Ends
    <3>2. n \in 0..n
      BY <1>2
    <3>3. QED BY <1>2, <3>1, <3>2
  <2>2. e[k] <= e[n]
    BY <1>2, EndsGrow
  <2>3. QED BY <2>1, <2>2
<1>4. Len(x) = e[n] /\ \A j \in 1..Len(q) : x[m + j] = q[j]
  BY <1>1 DEF Strings
<1>5. at \in Nat /\ \A i \in 1..Len(x) : at + i <= Len(r) => r[at + i] = x[i]
  BY DEF Slot, x
<1>6. ASSUME NEW j \in 1..Len(q), (at + m) + j <= Len(r) PROVE r[(at + m) + j] = q[j]
  <2> HIDE DEF m, q
  <2>1. m + j \in 1..Len(x) /\ at + (m + j) = (at + m) + j
    BY <1>2, <1>3, <1>4, <1>5
  <2>2. r[at + (m + j)] = x[m + j]
    BY <1>5, <1>6, <2>1
  <2>3. QED BY <1>4, <2>1, <2>2
<1>7. at + m \in Nat
  BY <1>3, <1>5
<1>8. QED BY <1>2, <1>6, <1>7 DEF Slot

(***************************************************************************)
(* Some elements of a list.                                                *)
(***************************************************************************)

Picked(q, I) == [i \in DOMAIN q |-> IF i \in I THEN <<q[i]>> ELSE <<>>]

LEMMA PickedLists ==
    ASSUME NEW q, IsList(q), NEW I
    PROVE  /\ Lists(Picked(q, I)) /\ Len(Picked(q, I)) = Len(q)
           /\ \A i \in 1..Len(q) : Picked(q, I)[i] = IF i \in I THEN <<q[i]>> ELSE <<>>
<1> DEFINE n  == Len(q)
           qs == Picked(q, I)
<1>1. n \in Nat /\ DOMAIN q = 1..n
  BY ListSeq
<1>2. qs = [i \in 1..n |-> IF i \in I THEN <<q[i]>> ELSE <<>>]
  BY <1>1 DEF Picked
<1> HIDE DEF qs
<1>3. IsList(qs) /\ Len(qs) = n
  <2>1. qs = [i \in 1..n |-> qs[i]]
    BY <1>2
  <2> HIDE DEF n
  <2>2. QED BY <1>1, <2>1, ListOf
<1>4. ASSUME NEW i \in 1..n PROVE IsList(qs[i])
  <2>1. CASE i \in I
    BY <1>2, <2>1, ListOne
  <2>2. CASE i \notin I
    BY <1>2, <2>2, ListEmpty
  <2>3. QED BY <2>1, <2>2
<1>5. QED BY <1>2, <1>3, <1>4 DEF Lists, qs

LEMMA ThoseIs ==
    ASSUME NEW q, IsList(q), NEW I
    PROVE  /\ IsList(Those(q, I))
           /\ \A j \in 1..Len(Those(q, I)) : \E i \in 1..Len(q) : i \in I /\ Those(q, I)[j] = q[i]
           /\ \A i \in 1..Len(q) : i \in I => \E j \in 1..Len(Those(q, I)) : Those(q, I)[j] = q[i]
<1> DEFINE n  == Len(q)
           qs == Picked(q, I)
           t  == Those(q, I)
<1>1. /\ Lists(qs) /\ Len(qs) = n /\ n \in Nat
      /\ \A i \in 1..n : qs[i] = IF i \in I THEN <<q[i]>> ELSE <<>>
  BY PickedLists DEF IsList
<1>2. t = FlattenSeq(qs)
  BY DEF Those, Picked
<1> HIDE DEF qs, t
<1>3. Strings(t, qs)
  BY <1>1, <1>2, FlattenIs
<1>4. PICK e : Ends(e, qs)
  BY <1>1, EndsExist
<1>5. /\ IsList(t) /\ Len(t) = e[n]
      /\ \A k \in 1..n : \A j \in 1..Len(qs[k]) : t[e[k - 1] + j] = qs[k][j]
  BY <1>1, <1>3, <1>4 DEF Strings
<1>6. /\ e \in [0..n -> Nat] /\ e[0] = 0
      /\ \A k \in 1..n : e[k] = e[k - 1] + Len(qs[k])
  BY <1>1, <1>4 DEF Ends
<1>7. ASSUME NEW i \in 1..n, i \in I
      PROVE  \E j \in 1..Len(t) : t[j] = q[i]
  <2>1. qs[i] = <<q[i]>> /\ Len(qs[i]) = 1 /\ qs[i][1] = q[i]
    BY <1>1, <1>7, ListOne
  <2>2. t[e[i - 1] + 1] = q[i]
    <3>1. 1 \in 1..Len(qs[i])
      BY <2>1
    <3>2. QED BY <1>5, <2>1, <3>1
  <2>3. e[i] = e[i - 1] + 1 /\ e[i - 1] \in Nat /\ e[i] <= e[n] /\ e[n] \in Nat
    <3>1. i - 1 \in 0..n /\ i \in 0..n /\ n \in 0..n
      BY <1>1
    <3>2. e[i] <= e[n]
      BY <1>1, <1>4, <3>1, EndsGrow
    <3>3. QED BY <1>6, <2>1, <3>1, <3>2
  <2>4. e[i - 1] + 1 \in 1..Len(t)
    BY <1>5, <2>3
  <2>5. QED BY <2>2, <2>4
<1>8. ASSUME NEW j \in 1..Len(t)
      PROVE  \E i \in 1..n : i \in I /\ t[j] = q[i]
  <2>1. j \in 1..e[n]
    BY <1>5
  <2>2. PICK k \in 1..n : \E i \in 1..Len(qs[k]) : j = e[k - 1] + i
    BY <1>1, <1>4, <2>1, EndsCover
  <2>3. PICK i \in 1..Len(qs[k]) : j = e[k - 1] + i
    BY <2>2
  <2>4. k \in I
    <3>1. CASE k \notin I
      <4>1. Len(qs[k]) = 0
        BY <1>1, <3>1, ListEmpty
      <4>2. QED BY <2>3, <4>1
    <3>2. QED BY <3>1
  <2>5. qs[k] = <<q[k]>> /\ Len(qs[k]) = 1 /\ qs[k][1] = q[k]
    BY <1>1, <2>4, ListOne
  <2>6. i = 1
    BY <2>3, <2>5
  <2>7. t[j] = q[k]
    BY <1>5, <2>3, <2>5, <2>6
  <2>8. QED BY <2>4, <2>7
<1>9. QED BY <1>5, <1>7, <1>8 DEF t

\* An element that is not picked changes nothing.
LEMMA ThoseAppend ==
    ASSUME NEW q, IsList(q), NEW x, NEW I, NEW J, I \cap 1..Len(q) = J \cap 1..Len(q),
           Len(q) + 1 \notin J
    PROVE  Those(Append(q, x), J) = Those(q, I)
<1> DEFINE n  == Len(q)
           r  == Append(q, x)
           qs == Picked(q, I)
           ps == Picked(r, J)
           t  == FlattenSeq(qs)
           u  == FlattenSeq(ps)
<1>1. Joined(r, q, <<x>>) /\ Len(<<x>>) = 1
  BY ListAppend, ListOne
<1> HIDE DEF r
<1>2. /\ n \in Nat /\ IsList(r) /\ Len(r) = n + 1
      /\ \A i \in 1..n : r[i] = q[i]
  BY <1>1 DEF Joined, IsList
<1>3. /\ Lists(qs) /\ Len(qs) = n
      /\ \A i \in 1..n : qs[i] = IF i \in I THEN <<q[i]>> ELSE <<>>
  BY PickedLists
<1>4. /\ Lists(ps) /\ Len(ps) = n + 1
      /\ \A i \in 1..n + 1 : ps[i] = IF i \in J THEN <<r[i]>> ELSE <<>>
  BY <1>2, PickedLists
<1> HIDE DEF qs, ps
<1>5. \A i \in 1..n : ps[i] = qs[i]
  <2>1. ASSUME NEW i \in 1..n PROVE ps[i] = qs[i]
    <3>1. i \in 1..n + 1 /\ r[i] = q[i] /\ (i \in I <=> i \in J)
      BY <1>2
    <3>2. QED BY <1>3, <1>4, <3>1
  <2>2. QED BY <2>1
<1>6. ps[n + 1] = <<>> /\ Len(ps[n + 1]) = 0
  <2>1. n + 1 \in 1..n + 1
    BY <1>2
  <2>2. QED BY <1>4, <2>1, ListEmpty
<1>7. Strings(t, qs) /\ Strings(u, ps)
  BY <1>3, <1>4, FlattenIs
<1> HIDE DEF t, u
<1>8. PICK e : Ends(e, ps)
  BY <1>4, EndsExist
<1> DEFINE d == [i \in 0..n |-> e[i]]
<1>9. Ends(d, qs)
  <2>1. /\ e \in [0..n + 1 -> Nat] /\ e[0] = 0
        /\ \A k \in 1..n + 1 : e[k] = e[k - 1] + Len(ps[k])
    BY <1>4, <1>8 DEF Ends
  <2>2. \A k \in 0..n : k \in 0..n + 1
    BY <1>2
  <2>3. d \in [0..n -> Nat] /\ d[0] = 0
    <3>1. \A k \in 0..n : e[k] \in Nat
      BY <2>1, <2>2
    <3>2. QED BY <1>2, <2>1, <3>1
  <2>4. ASSUME NEW k \in 1..n PROVE d[k] = d[k - 1] + Len(qs[k])
    <3>1. k \in 1..n + 1 /\ k \in 0..n /\ k - 1 \in 0..n
      BY <1>2
    <3>2. QED BY <1>5, <2>1, <3>1
  <2> HIDE DEF d
  <2>5. QED BY <1>3, <2>3, <2>4 DEF Ends
<1>10. Len(u) = e[n] /\ e[n] \in Nat /\ Len(t) = e[n]
  <2>1. n + 1 \in 1..n + 1 /\ n + 1 - 1 = n /\ n \in 0..n + 1 /\ n \in 0..n
    BY <1>2
  <2>2. Len(u) = e[n + 1]
    BY <1>4, <1>7, <1>8 DEF Strings
  <2>x. /\ e \in [0..n + 1 -> Nat]
        /\ \A k \in 1..n + 1 : e[k] = e[k - 1] + Len(ps[k])
    BY <1>4, <1>8 DEF Ends
  <2>y. e[n + 1] = e[n] + 0 /\ e[n] \in Nat
    BY <1>6, <2>1, <2>x
  <2>3. Len(t) = d[n]
    <3> HIDE DEF d
    <3>1. QED BY <1>3, <1>7, <1>9 DEF Strings
  <2>4. QED BY <2>1, <2>2, <2>3, <2>y
<1>11. ASSUME NEW j \in 1..e[n] PROVE u[j] = t[j]
  <2>1. d[n] = e[n]
    BY <1>2
  <2>2. PICK k \in 1..n : \E i \in 1..Len(qs[k]) : j = d[k - 1] + i
    <3> HIDE DEF d
    <3>1. QED BY <1>3, <1>9, <2>1, EndsCover
  <2>3. PICK i \in 1..Len(qs[k]) : j = d[k - 1] + i
    BY <2>2
  <2>4. t[j] = qs[k][i]
    <3> HIDE DEF d
    <3>1. QED BY <1>3, <1>7, <1>9, <2>3 DEF Strings
  <2>5. k \in 1..n + 1 /\ k - 1 \in 0..n /\ ps[k] = qs[k]
    BY <1>2, <1>5
  <2>6. j = e[k - 1] + i /\ i \in 1..Len(ps[k])
    BY <2>3, <2>5
  <2>7. u[j] = ps[k][i]
    BY <1>4, <1>7, <1>8, <2>5, <2>6 DEF Strings
  <2>8. QED BY <2>4, <2>5, <2>7
<1>12. u = t
  BY <1>7, <1>10, <1>11, ListSame DEF Strings
<1>13. QED BY <1>12 DEF Those, Picked, t, u, qs, ps, r

(***************************************************************************)
(* Manifests.                                                              *)
(***************************************************************************)

ManifestLists(m) ==
    /\ IsList(m.extensions) /\ IsList(m.archives) /\ IsList(m.digests)
    /\ IsList(m.names) /\ IsList(m.places) /\ IsList(m.workers)

\* Where the lists of a manifest begin.
ArchivesAt(m) == 1 + Len(m.extensions)
DigestsAt(m)  == ArchivesAt(m) + Len(m.archives)
NamesAt(m)    == DigestsAt(m) + Len(m.digests)
PlacesAt(m)   == NamesAt(m) + Len(m.names)
WorkersAt(m)  == PlacesAt(m) + 1 + Len(m.places)

ManifestHead(m) ==
    [unit |-> "manifest", entry |-> m.entry, extensions |-> Len(m.extensions),
     archives |-> Len(m.archives), digests |-> Len(m.digests), names |-> Len(m.names)]

LEMMA ManifestNumbers ==
    ASSUME NEW m, ManifestLists(m)
    PROVE  /\ ArchivesAt(m) \in Nat /\ DigestsAt(m) \in Nat /\ NamesAt(m) \in Nat
           /\ PlacesAt(m) \in Nat /\ WorkersAt(m) \in Nat
           /\ 1 <= ArchivesAt(m) /\ ArchivesAt(m) <= DigestsAt(m) /\ DigestsAt(m) <= NamesAt(m)
           /\ NamesAt(m) <= PlacesAt(m) /\ PlacesAt(m) < WorkersAt(m)
<1> DEFINE x == Len(m.extensions)
           a == Len(m.archives)
           d == Len(m.digests)
           n == Len(m.names)
           p == Len(m.places)
<1>1. x \in Nat /\ a \in Nat /\ d \in Nat /\ n \in Nat /\ p \in Nat
  BY ListLength DEF ManifestLists
<1>2. /\ ArchivesAt(m) = 1 + x /\ DigestsAt(m) = ArchivesAt(m) + a
      /\ NamesAt(m) = DigestsAt(m) + d /\ PlacesAt(m) = NamesAt(m) + n
      /\ WorkersAt(m) = PlacesAt(m) + 1 + p
  BY DEF ArchivesAt, DigestsAt, NamesAt, PlacesAt, WorkersAt
<1> HIDE DEF x, a, d, n, p
<1>3. QED BY <1>1, <1>2

LEMMA EncodedManifest ==
    ASSUME NEW m, ManifestLists(m)
    PROVE  LET p == EncodeManifest(m)
           IN  /\ IsList(p) /\ Len(p) = WorkersAt(m) + 1 + Len(m.workers)
               /\ Slot(p, 0, <<ManifestHead(m)>>)
               /\ Slot(p, 1, m.extensions) /\ Slot(p, ArchivesAt(m), m.archives)
               /\ Slot(p, DigestsAt(m), m.digests) /\ Slot(p, NamesAt(m), m.names)
               /\ Slot(p, PlacesAt(m), <<Count(m.places)>>)
               /\ Slot(p, PlacesAt(m) + 1, m.places)
               /\ Slot(p, WorkersAt(m), <<Count(m.workers)>>)
               /\ Slot(p, WorkersAt(m) + 1, m.workers)
<1> DEFINE q0 == <<ManifestHead(m)>>
           q1 == q0 \o m.extensions
           q2 == q1 \o m.archives
           q3 == q2 \o m.digests
           q4 == q3 \o m.names
           q5 == q4 \o <<Count(m.places)>>
           q6 == q5 \o m.places
           q7 == q6 \o <<Count(m.workers)>>
           q8 == q7 \o m.workers
<1>1. EncodeManifest(m) = q8
  BY DEF EncodeManifest, ManifestHead
<1>2. /\ IsList(q0) /\ Len(q0) = 1
      /\ IsList(<<Count(m.places)>>) /\ Len(<<Count(m.places)>>) = 1
      /\ IsList(<<Count(m.workers)>>) /\ Len(<<Count(m.workers)>>) = 1
  BY ListOne
<1> DEFINE cp == <<Count(m.places)>>
           cw == <<Count(m.workers)>>
<1>h. /\ q1 = q0 \o m.extensions /\ q2 = q1 \o m.archives /\ q3 = q2 \o m.digests
      /\ q4 = q3 \o m.names /\ q5 = q4 \o cp /\ q6 = q5 \o m.places /\ q7 = q6 \o cw
  OBVIOUS
<1>i. IsList(cp) /\ Len(cp) = 1 /\ IsList(cw) /\ Len(cw) = 1 /\ ManifestLists(m)
  BY <1>2
<1> HIDE DEF q0, q1, q2, q3, q4, q5, q6, q7, cp, cw
<1>3. IsList(q1) /\ Len(q1) = ArchivesAt(m)
  <2>1. Joined(q0 \o m.extensions, q0, m.extensions)
    BY <1>2, <1>i, ListConcat DEF ManifestLists
  <2>2. QED BY <1>2, <1>h, <1>i, <2>1 DEF Joined, ArchivesAt
<1>4. IsList(q2) /\ Len(q2) = DigestsAt(m)
  <2>1. Joined(q1 \o m.archives, q1, m.archives)
    BY <1>3, <1>i, ListConcat DEF ManifestLists
  <2>2. QED BY <1>3, <1>h, <1>i, <2>1 DEF Joined, DigestsAt
<1>5. IsList(q3) /\ Len(q3) = NamesAt(m)
  <2>1. Joined(q2 \o m.digests, q2, m.digests)
    BY <1>4, <1>i, ListConcat DEF ManifestLists
  <2>2. QED BY <1>4, <1>h, <1>i, <2>1 DEF Joined, NamesAt
<1>6. IsList(q4) /\ Len(q4) = PlacesAt(m)
  <2>1. Joined(q3 \o m.names, q3, m.names)
    BY <1>5, <1>i, ListConcat DEF ManifestLists
  <2>2. QED BY <1>5, <1>h, <1>i, <2>1 DEF Joined, PlacesAt
<1>7. IsList(q5) /\ Len(q5) = PlacesAt(m) + 1
  <2>1. Joined(q4 \o cp, q4, cp)
    BY <1>6, <1>i, ListConcat DEF ManifestLists
  <2>2. QED BY <1>6, <1>h, <1>i, <2>1 DEF Joined
<1>8. IsList(q6) /\ Len(q6) = WorkersAt(m)
  <2>1. Joined(q5 \o m.places, q5, m.places)
    BY <1>7, <1>i, ListConcat DEF ManifestLists
  <2>2. QED BY <1>7, <1>h, <1>i, <2>1 DEF Joined, WorkersAt
<1>9. IsList(q7) /\ Len(q7) = WorkersAt(m) + 1
  <2>1. Joined(q6 \o cw, q6, cw)
    BY <1>8, <1>i, ListConcat DEF ManifestLists
  <2>2. QED BY <1>8, <1>h, <1>i, <2>1 DEF Joined
<1>10. IsList(q8) /\ Len(q8) = WorkersAt(m) + 1 + Len(m.workers)
  <2>1. Joined(q7 \o m.workers, q7, m.workers)
    BY <1>9, <1>i, ListConcat DEF ManifestLists
  <2>2. QED BY <1>9, <1>h, <1>i, <2>1 DEF Joined
<1>11. Slot(q8, 0, q7 \o m.workers)
  BY <1>10, SlotSelf
<1> DEFINE r == q8
<1>12. Slot(r, 0, q7 \o m.workers)
  BY <1>11
<1>n. IsList(r) /\ Len(r) = WorkersAt(m) + 1 + Len(m.workers)
  BY <1>10
<1> HIDE DEF r
<1>13. Slot(r, 0, q7) /\ Slot(r, 0 + Len(q7), m.workers)
  BY <1>9, <1>12, SlotSplit DEF ManifestLists
<1>14. Slot(r, 0, q6) /\ Slot(r, 0 + Len(q6), cw)
  <2>1. Slot(r, 0, q6 \o cw) /\ IsList(cw)
    BY <1>13, <1>h, <1>i
  <2>2. QED BY <1>8, <2>1, SlotSplit
<1>15. Slot(r, 0, q5) /\ Slot(r, 0 + Len(q5), m.places)
  <2>1. Slot(r, 0, q5 \o m.places)
    BY <1>14, <1>h
  <2>2. QED BY <1>7, <2>1, SlotSplit DEF ManifestLists
<1>16. Slot(r, 0, q4) /\ Slot(r, 0 + Len(q4), cp)
  <2>1. Slot(r, 0, q4 \o cp) /\ IsList(cp)
    BY <1>15, <1>h, <1>i
  <2>2. QED BY <1>6, <2>1, SlotSplit
<1>17. Slot(r, 0, q3) /\ Slot(r, 0 + Len(q3), m.names)
  <2>1. Slot(r, 0, q3 \o m.names)
    BY <1>16, <1>h
  <2>2. QED BY <1>5, <2>1, SlotSplit DEF ManifestLists
<1>18. Slot(r, 0, q2) /\ Slot(r, 0 + Len(q2), m.digests)
  <2>1. Slot(r, 0, q2 \o m.digests)
    BY <1>17, <1>h
  <2>2. QED BY <1>4, <2>1, SlotSplit DEF ManifestLists
<1>19. Slot(r, 0, q1) /\ Slot(r, 0 + Len(q1), m.archives)
  <2>1. Slot(r, 0, q1 \o m.archives)
    BY <1>18, <1>h
  <2>2. QED BY <1>3, <2>1, SlotSplit DEF ManifestLists
<1>20. Slot(r, 0, q0) /\ Slot(r, 0 + Len(q0), m.extensions)
  <2>1. Slot(r, 0, q0 \o m.extensions)
    BY <1>19, <1>h
  <2>2. QED BY <1>2, <2>1, SlotSplit DEF ManifestLists
<1>21. /\ 0 + Len(q0) = 1 /\ 0 + Len(q1) = ArchivesAt(m) /\ 0 + Len(q2) = DigestsAt(m)
       /\ 0 + Len(q3) = NamesAt(m) /\ 0 + Len(q4) = PlacesAt(m)
       /\ 0 + Len(q5) = PlacesAt(m) + 1 /\ 0 + Len(q6) = WorkersAt(m)
       /\ 0 + Len(q7) = WorkersAt(m) + 1
  BY <1>2, <1>3, <1>4, <1>5, <1>6, <1>7, <1>8, <1>9, ManifestNumbers
<1>22. /\ Slot(r, 1, m.extensions) /\ Slot(r, ArchivesAt(m), m.archives)
       /\ Slot(r, DigestsAt(m), m.digests) /\ Slot(r, NamesAt(m), m.names)
       /\ Slot(r, PlacesAt(m), cp) /\ Slot(r, PlacesAt(m) + 1, m.places)
       /\ Slot(r, WorkersAt(m), cw) /\ Slot(r, WorkersAt(m) + 1, m.workers)
  BY <1>13, <1>14, <1>15, <1>16, <1>17, <1>18, <1>19, <1>20, <1>21
<1>23. QED BY <1>1, <1>n, <1>20, <1>22 DEF r, q0, cp, cw

\* What is decoded of units that have the head and the lengths of m.
Read(b, m, places, workersAt, count) ==
    [entry      |-> m.entry,
     extensions |-> Taken(b, 1, Len(m.extensions)),
     archives   |-> Taken(b, ArchivesAt(m), Len(m.archives)),
     digests    |-> Taken(b, DigestsAt(m), Len(m.digests)),
     names      |-> Taken(b, NamesAt(m), Len(m.names)),
     places     |-> Taken(b, PlacesAt(m) + 1, places),
     workers    |-> Taken(b, workersAt + 1, count)]

Full(b, m) ==
    /\ Len(b) = WorkersAt(m) + 1 + Len(m.workers)
    /\ b[PlacesAt(m) + 1] = Count(m.places) /\ b[WorkersAt(m) + 1] = Count(m.workers)
Older(b, m) == Len(b) = PlacesAt(m)

LEMMA DecodedManifest ==
    ASSUME NEW m, ManifestLists(m), NEW b, IsList(b), b[1] = ManifestHead(m)
    PROVE  /\ Full(b, m) =>
                  DecodeManifest(b) = Read(b, m, Len(m.places), WorkersAt(m), Len(m.workers))
           /\ Older(b, m) => DecodeManifest(b) = Read(b, m, 0, PlacesAt(m), 0)
<1> DEFINE p == PlacesAt(m)
           w == WorkersAt(m)
           x == Len(m.extensions)
           a == Len(m.archives)
           d == Len(m.digests)
           n == Len(m.names)
           k == Len(m.places)
           l == Len(m.workers)
<1>1. p \in Nat /\ w \in Nat /\ 1 <= p /\ k \in Nat /\ l \in Nat /\ w = p + 1 + k /\ Len(b) \in Nat
  <2>1. p \in Nat /\ w \in Nat /\ 1 <= ArchivesAt(m) /\ ArchivesAt(m) <= DigestsAt(m)
        /\ DigestsAt(m) <= NamesAt(m) /\ NamesAt(m) <= p
        /\ ArchivesAt(m) \in Nat /\ DigestsAt(m) \in Nat /\ NamesAt(m) \in Nat
    BY ManifestNumbers
  <2>2. w = p + 1 + k
    BY DEF WorkersAt
  <2>3. k \in Nat /\ l \in Nat /\ Len(b) \in Nat
    BY ListLength DEF ManifestLists
  <2> HIDE DEF p, w, k, l
  <2>4. QED BY <2>1, <2>2, <2>3
<1>2. /\ b[1].unit = "manifest" /\ b[1].entry = m.entry /\ b[1].extensions = x
      /\ b[1].archives = a /\ b[1].digests = d /\ b[1].names = n
  BY DEF ManifestHead
<1>3. /\ 1 + b[1].extensions = ArchivesAt(m) /\ ArchivesAt(m) + b[1].archives = DigestsAt(m)
      /\ DigestsAt(m) + b[1].digests = NamesAt(m) /\ NamesAt(m) + b[1].names = p
  BY <1>2 DEF ArchivesAt, DigestsAt, NamesAt, PlacesAt
<1>4. Len(b) >= 1 => b # <<>>
  BY ListEmpty
<1> DEFINE ws == AfterLater(b, p)
           Made == [entry |-> b[1].entry,
                    extensions |-> Taken(b, 1, b[1].extensions),
                    archives   |-> Taken(b, ArchivesAt(m), b[1].archives),
                    digests    |-> Taken(b, DigestsAt(m), b[1].digests),
                    names      |-> Taken(b, NamesAt(m), b[1].names),
                    places     |-> Taken(b, p + 1, LaterCount(b, p)),
                    workers    |-> Taken(b, ws + 1, LaterCount(b, ws))]
<1> HIDE DEF p, w, x, a, d, n, k, l
<1>5. ASSUME b # <<>>, ~(Len(b) < p), ~(Len(b) < ws), ~(Len(b) < AfterLater(b, ws))
      PROVE  DecodeManifest(b) = Made
  BY <1>2, <1>3, <1>5 DEF DecodeManifest
<1>6. ASSUME Full(b, m) PROVE DecodeManifest(b) = Read(b, m, k, w, l)
  <2>1. Len(b) = w + 1 + l /\ b[p + 1].count = k /\ b[w + 1].count = l
    BY <1>6 DEF Full, Count, p, w, k, l
  <2>2. LaterCount(b, p) = k /\ ws = w
    BY <1>1, <2>1 DEF LaterCount, AfterLater, HasLater
  <2>3. LaterCount(b, w) = l /\ AfterLater(b, w) = w + 1 + l
    BY <1>1, <2>1 DEF LaterCount, AfterLater, HasLater
  <2> HIDE DEF ws
  <2>4. /\ b # <<>> /\ ~(Len(b) < p) /\ ~(Len(b) < ws) /\ ~(Len(b) < AfterLater(b, ws))
    BY <1>1, <1>4, <2>1, <2>2, <2>3
  <2>5. QED BY <1>2, <1>5, <2>2, <2>3, <2>4 DEF Read, ws, p, x, a, d, n
<1>7. ASSUME Older(b, m) PROVE DecodeManifest(b) = Read(b, m, 0, p, 0)
  <2>1. Len(b) = p
    BY <1>7 DEF Older, p
  <2>2. LaterCount(b, p) = 0 /\ ws = p /\ AfterLater(b, p) = p
    BY <1>1, <2>1 DEF LaterCount, AfterLater, HasLater
  <2> HIDE DEF ws
  <2>3. /\ b # <<>> /\ ~(Len(b) < p) /\ ~(Len(b) < ws) /\ ~(Len(b) < AfterLater(b, ws))
    BY <1>1, <1>4, <2>1, <2>2
  <2>4. QED BY <1>2, <1>5, <2>2, <2>3 DEF Read, ws, p, x, a, d, n
<1>8. QED BY <1>6, <1>7 DEF p, w, k, l

LEMMA ReadIsRead ==
    ASSUME NEW b, NEW m, NEW places, NEW workersAt, NEW count
    PROVE  IsRead(Read(b, m, places, workersAt, count))
<1>1. "digests" \in DOMAIN Read(b, m, places, workersAt, count) /\ "digests" \notin DOMAIN NotRead
  BY DEF Read, NotRead
<1>2. QED BY <1>1 DEF IsRead

\* The manifest of an older build.
LEMMA LegacyIs ==
    ASSUME NEW m, ManifestLists(m)
    PROVE  LET p == EncodeManifest(m)
           IN  /\ p[1] = ManifestHead(m) /\ Full(p, m)
               /\ IsList(Legacy(p)) /\ Len(Legacy(p)) = PlacesAt(m)
               /\ \A i \in 1..PlacesAt(m) : Legacy(p)[i] = p[i]
<1> DEFINE p == EncodeManifest(m)
           l == Legacy(p)
<1>1. /\ IsList(p) /\ Len(p) = WorkersAt(m) + 1 + Len(m.workers)
      /\ Slot(p, 0, <<ManifestHead(m)>>) /\ Slot(p, PlacesAt(m), <<Count(m.places)>>)
      /\ Slot(p, WorkersAt(m), <<Count(m.workers)>>)
  BY EncodedManifest
<1> HIDE DEF p
<1>2. /\ PlacesAt(m) \in Nat /\ WorkersAt(m) \in Nat /\ 1 <= PlacesAt(m)
      /\ PlacesAt(m) < WorkersAt(m) /\ Len(m.workers) \in Nat
  BY ManifestNumbers, ListLength DEF ManifestLists
<1>3. 0 + 1 <= Len(p) /\ PlacesAt(m) + 1 <= Len(p) /\ WorkersAt(m) + 1 <= Len(p)
  BY <1>1, <1>2
<1>4. /\ p[0 + 1] = ManifestHead(m) /\ p[PlacesAt(m) + 1] = Count(m.places)
      /\ p[WorkersAt(m) + 1] = Count(m.workers)
  BY <1>1, <1>3, SlotOne
<1>5. p[1] = ManifestHead(m)
  BY <1>4
<1>6. l = SubSeq(p, 1, PlacesAt(m))
  <2>1. /\ p[1].extensions = Len(m.extensions) /\ p[1].archives = Len(m.archives)
        /\ p[1].digests = Len(m.digests) /\ p[1].names = Len(m.names)
    BY <1>5 DEF ManifestHead
  <2>2. 1 + Len(m.extensions) + Len(m.archives) + Len(m.digests) + Len(m.names) = PlacesAt(m)
    BY DEF ArchivesAt, DigestsAt, NamesAt, PlacesAt
  <2>3. QED BY <2>1, <2>2 DEF Legacy
<1> HIDE DEF l
<1>7. IsList(l) /\ Len(l) = PlacesAt(m) /\ \A i \in 1..PlacesAt(m) : l[i] = p[i]
  <2>1. IsTaken(l, p, 0, PlacesAt(m))
    BY <1>2, <1>6, CutIs
  <2>2. \A i \in 1..PlacesAt(m) : 0 + i = i
    BY <1>2
  <2>3. QED BY <2>1, <2>2 DEF IsTaken
<1>8. Full(p, m)
  BY <1>1, <1>4 DEF Full
<1>9. QED BY <1>5, <1>7, <1>8 DEF l, p

\* What a build pushes for m, or an older build.
Manifested(p, m) == p = EncodeManifest(m) \/ p = Legacy(EncodeManifest(m))

LEMMA ManifestedIs ==
    ASSUME NEW m, ManifestLists(m), NEW p, Manifested(p, m)
    PROVE  /\ IsList(p) /\ Len(p) >= PlacesAt(m) /\ p[1] = ManifestHead(m)
           /\ Full(p, m) \/ Older(p, m)
           /\ Slot(p, DigestsAt(m), m.digests)
<1> DEFINE e == EncodeManifest(m)
           l == Legacy(e)
<1>1. /\ e[1] = ManifestHead(m) /\ Full(e, m) /\ IsList(l) /\ Len(l) = PlacesAt(m)
      /\ \A i \in 1..PlacesAt(m) : l[i] = e[i]
  BY LegacyIs
<1>2. IsList(e) /\ Len(e) = WorkersAt(m) + 1 + Len(m.workers) /\ Slot(e, DigestsAt(m), m.digests)
  BY EncodedManifest
<1>3. /\ PlacesAt(m) \in Nat /\ WorkersAt(m) \in Nat /\ 1 <= PlacesAt(m)
      /\ PlacesAt(m) < WorkersAt(m) /\ Len(m.workers) \in Nat /\ Len(m.digests) \in Nat
      /\ DigestsAt(m) \in Nat /\ DigestsAt(m) + Len(m.digests) <= PlacesAt(m)
  <2>1. Len(m.digests) \in Nat /\ Len(m.workers) \in Nat
    BY ListLength DEF ManifestLists
  <2>2. DigestsAt(m) + Len(m.digests) = NamesAt(m)
    BY DEF NamesAt
  <2>3. QED BY <2>1, <2>2, ManifestNumbers
<1> HIDE DEF e, l
<1>4. CASE p = e
  <2>1. Len(e) >= PlacesAt(m)
    BY <1>2, <1>3
  <2>2. QED BY <1>1, <1>2, <1>4, <2>1
<1>5. CASE p = l
  <2>1. l[1] = ManifestHead(m) /\ Len(l) >= PlacesAt(m)
    BY <1>1, <1>3
  <2>2. ASSUME NEW i \in 1..Len(m.digests), DigestsAt(m) + i <= Len(l)
        PROVE  l[DigestsAt(m) + i] = m.digests[i]
    <3>1. DigestsAt(m) + i \in 1..PlacesAt(m) /\ DigestsAt(m) + i <= Len(e)
      BY <1>1, <1>2, <1>3, <2>2
    <3>2. e[DigestsAt(m) + i] = m.digests[i]
      BY <1>2, <3>1 DEF Slot
    <3>3. QED BY <1>1, <3>1, <3>2
  <2>3. Slot(l, DigestsAt(m), m.digests)
    BY <1>3, <2>2 DEF Slot, ManifestLists
  <2>4. QED BY <1>1, <1>5, <2>1, <2>3 DEF Older
<1>6. QED BY <1>4, <1>5 DEF Manifested, e, l

\* A manifest in which units have been hit still is one, with a digest for the
\* same sections.
LEMMA NearManifest ==
    ASSUME NEW m, ManifestLists(m), NEW p, Manifested(p, m), NEW b, Near(b, p), Len(b) = Len(p)
    PROVE  LET r == DecodeManifest(b)
           IN  /\ IsRead(r) /\ IsList(r.workers)
               /\ IsList(r.digests) /\ Len(r.digests) = Len(m.digests)
               /\ \A i \in 1..Len(m.digests) : Hit(r.digests[i], m.digests[i])
<1> DEFINE r == DecodeManifest(b)
           n == Len(m.digests)
           t == Taken(b, DigestsAt(m), n)
<1>1. /\ IsList(p) /\ Len(p) >= PlacesAt(m) /\ p[1] = ManifestHead(m)
      /\ Full(p, m) \/ Older(p, m)
      /\ Slot(p, DigestsAt(m), m.digests)
  BY ManifestedIs
<1>2. /\ PlacesAt(m) \in Nat /\ WorkersAt(m) \in Nat /\ 1 <= PlacesAt(m)
      /\ PlacesAt(m) < WorkersAt(m) /\ Len(m.workers) \in Nat /\ n \in Nat
      /\ DigestsAt(m) \in Nat /\ DigestsAt(m) + n <= PlacesAt(m)
  <2>1. n \in Nat /\ Len(m.workers) \in Nat
    BY ListLength DEF ManifestLists
  <2>2. DigestsAt(m) + n = NamesAt(m)
    BY DEF NamesAt
  <2>3. QED BY <2>1, <2>2, ManifestNumbers
<1>3. IsList(b) /\ Len(b) = Len(p) /\ Len(p) \in Nat /\ \A i \in 1..Len(p) : Hit(b[i], p[i])
  BY <1>1, ListLength DEF Near
<1>4. b[1] = ManifestHead(m)
  <2>1. Hit(b[1], p[1]) /\ p[1].unit \in Firm
    BY <1>1, <1>2, <1>3 DEF ManifestHead, Firm
  <2>2. QED BY <1>1, <2>1, FirmHit
<1>5. Full(b, m) \/ Older(b, m)
  <2>1. CASE Full(p, m)
    <3>1. PlacesAt(m) + 1 \in 1..Len(p) /\ WorkersAt(m) + 1 \in 1..Len(p)
      BY <1>2, <2>1 DEF Full
    <3>2. /\ p[PlacesAt(m) + 1] = Count(m.places) /\ p[PlacesAt(m) + 1].unit \in Firm
          /\ p[WorkersAt(m) + 1] = Count(m.workers) /\ p[WorkersAt(m) + 1].unit \in Firm
      BY <2>1 DEF Full, Count, Firm
    <3>3. b[PlacesAt(m) + 1] = p[PlacesAt(m) + 1] /\ b[WorkersAt(m) + 1] = p[WorkersAt(m) + 1]
      BY <1>3, <3>1, <3>2, FirmHit
    <3>4. QED BY <1>3, <2>1, <3>2, <3>3 DEF Full
  <2>2. CASE Older(p, m)
    BY <1>3, <2>2 DEF Older
  <2>3. QED BY <1>1, <2>1, <2>2
<1>6. IsRead(r) /\ r.digests = t /\ IsList(r.workers)
  <2>1. ASSUME NEW places, NEW at \in Nat, NEW count \in Nat, r = Read(b, m, places, at, count)
        PROVE  IsRead(r) /\ r.digests = t /\ IsList(r.workers)
    <3> HIDE DEF r
    <3>1. r.workers = Taken(b, at + 1, count) /\ r.digests = t
      BY <2>1 DEF Read
    <3>2. IsTaken(Taken(b, at + 1, count), b, at + 1, count)
      BY TakenIs
    <3>3. IsRead(r)
      BY <2>1, ReadIsRead
    <3>4. QED BY <3>1, <3>2, <3>3 DEF IsTaken
  <2>2. CASE Full(b, m)
    <3>1. r = Read(b, m, Len(m.places), WorkersAt(m), Len(m.workers))
      BY <1>3, <1>4, <2>2, DecodedManifest
    <3> HIDE DEF r
    <3>2. QED BY <1>2, <2>1, <3>1
  <2>3. CASE Older(b, m)
    <3>1. r = Read(b, m, 0, PlacesAt(m), 0)
      BY <1>3, <1>4, <2>3, DecodedManifest
    <3> HIDE DEF r
    <3>2. QED BY <1>2, <2>1, <3>1
  <2>4. QED BY <1>5, <2>2, <2>3
<1>7. IsTaken(t, b, DigestsAt(m), n)
  <2> HIDE DEF n
  <2>1. QED BY <1>2, TakenIs
<1> HIDE DEF t, r
<1>8. ASSUME NEW i \in 1..n PROVE Hit(t[i], m.digests[i])
  <2>1. DigestsAt(m) + i \in 1..Len(p) /\ DigestsAt(m) + i <= Len(p)
    BY <1>1, <1>2, <1>3
  <2>2. t[i] = b[DigestsAt(m) + i]
    BY <1>7 DEF IsTaken
  <2>3. p[DigestsAt(m) + i] = m.digests[i]
    BY <1>1, <2>1 DEF Slot
  <2>4. Hit(b[DigestsAt(m) + i], p[DigestsAt(m) + i])
    BY <1>3, <2>1
  <2>5. QED BY <2>2, <2>3, <2>4
<1>9. QED BY <1>6, <1>7, <1>8 DEF IsTaken, r

\* The manifest of sections: a digest for each of the covered ones.
LEMMA ManifestOfIs ==
    ASSUME NEW q, IsList(q), NEW c
    PROVE  LET m == ManifestOf(q, c)
           IN  /\ ManifestLists(m)
               /\ m = [entry |-> m.entry, extensions |-> m.extensions, archives |-> m.archives,
                       digests |-> m.digests, names |-> m.names, places |-> m.places,
                       workers |-> m.workers]
               /\ \A j \in 1..Len(m.digests) : \E i \in 1..Len(q) :
                     q[i].id \in c /\ m.digests[j] = SectionDigest(q[i])
               /\ \A i \in 1..Len(q) : q[i].id \in c =>
                     \E j \in 1..Len(m.digests) : m.digests[j] = SectionDigest(q[i])
<1> DEFINE m       == ManifestOf(q, c)
           I       == {i \in DOMAIN q : q[i].id \in c}
           assets  == Those(q, {i \in OfKind(q, "Asset") : q[i].payload # <<>>})
           modules == Those(q, OfKind(q, "Module"))
           digests == Those(q, I)
           name(a) == [unit |-> "name", hash |-> a.hash, resource |-> a.payload[1].id]
           place(a)  == [unit |-> "place", section |-> a.id]
           worker(a) == [unit |-> "worker", section |-> a.id]
<1>1. m = [entry |-> EntryModule(modules), extensions |-> <<[unit |-> "extension"]>>,
           archives |-> <<>>,
           digests |-> [i \in DOMAIN digests |-> SectionDigest(digests[i])],
           names   |-> [i \in DOMAIN assets |-> name(assets[i])],
           places  |-> [i \in DOMAIN assets |-> place(assets[i])],
           workers |-> [i \in DOMAIN modules |-> worker(modules[i])]]
  BY DEF ManifestOf
<1>2. IsList(assets) /\ IsList(modules) /\ IsList(digests)
  BY ThoseIs
<1>3. /\ \A j \in 1..Len(digests) : \E i \in 1..Len(q) : i \in I /\ digests[j] = q[i]
      /\ \A i \in 1..Len(q) : i \in I => \E j \in 1..Len(digests) : digests[j] = q[i]
  <2> HIDE DEF I
  <2>1. QED BY ThoseIs
<1>4. DOMAIN q = 1..Len(q)
  BY ListSeq
<1> HIDE DEF assets, modules, digests, m, name, place, worker
<1>5. DOMAIN assets = 1..Len(assets) /\ DOMAIN modules = 1..Len(modules)
      /\ DOMAIN digests = 1..Len(digests)
      /\ Len(assets) \in Nat /\ Len(modules) \in Nat /\ Len(digests) \in Nat
  BY <1>2, ListSeq
<1>6. /\ m.digests = [i \in 1..Len(digests) |-> SectionDigest(digests[i])]
      /\ m.names = [i \in 1..Len(assets) |-> name(assets[i])]
      /\ m.places = [i \in 1..Len(assets) |-> place(assets[i])]
      /\ m.workers = [i \in 1..Len(modules) |-> worker(modules[i])]
      /\ m.extensions = <<[unit |-> "extension"]>> /\ m.archives = <<>>
  BY <1>1, <1>5
<1>7. IsList(m.digests) /\ Len(m.digests) = Len(digests)
  <2>1. m.digests = [i \in 1..Len(digests) |-> m.digests[i]]
    BY <1>6
  <2>2. QED BY <1>5, <2>1, ListOf
<1>8. IsList(m.names) /\ IsList(m.places)
  <2>1. m.names = [i \in 1..Len(assets) |-> m.names[i]] /\ m.places = [i \in 1..Len(assets) |-> m.places[i]]
    BY <1>6
  <2>2. QED BY <1>5, <2>1, ListOf
<1>9. IsList(m.workers)
  <2>1. m.workers = [i \in 1..Len(modules) |-> m.workers[i]]
    BY <1>6
  <2>2. QED BY <1>5, <2>1, ListOf
<1>10. ManifestLists(m)
  BY <1>6, <1>7, <1>8, <1>9, ListOne, ListEmpty DEF ManifestLists
<1>11. \A j \in 1..Len(m.digests) : \E i \in 1..Len(q) :
          q[i].id \in c /\ m.digests[j] = SectionDigest(q[i])
  BY <1>3, <1>6, <1>7
<1>12. \A i \in 1..Len(q) : q[i].id \in c =>
          \E j \in 1..Len(m.digests) : m.digests[j] = SectionDigest(q[i])
  <2>1. SUFFICES ASSUME NEW i \in 1..Len(q), q[i].id \in c
                 PROVE  \E j \in 1..Len(m.digests) : m.digests[j] = SectionDigest(q[i])
    OBVIOUS
  <2>2. i \in I
    BY <1>4, <2>1
  <2>3. PICK j \in 1..Len(digests) : digests[j] = q[i]
    BY <1>3, <2>2
  <2>4. QED BY <1>6, <1>7, <2>3
<1>13. m = [entry |-> m.entry, extensions |-> m.extensions, archives |-> m.archives,
            digests |-> m.digests, names |-> m.names, places |-> m.places,
            workers |-> m.workers]
  BY <1>1
<1>14. QED BY <1>10, <1>11, <1>12, <1>13 DEF m

\* A manifest leaves itself out.
LEMMA ManifestOfAppend ==
    ASSUME NEW q, IsList(q), NEW x, x.kind = "Manifest", NEW c, x.id \notin c
    PROVE  ManifestOf(Append(q, x), c) = ManifestOf(q, c)
<1> DEFINE n == Len(q)
           r == Append(q, x)
<1>1. Joined(r, q, <<x>>) /\ Len(<<x>>) = 1 /\ <<x>>[1] = x
  BY ListAppend, ListOne
<1> HIDE DEF r
<1>2. n \in Nat /\ IsList(r) /\ Len(r) = n + 1 /\ r[n + 1] = x /\ \A i \in 1..n : r[i] = q[i]
  BY <1>1, ListLength DEF Joined
<1>3. DOMAIN q = 1..n /\ DOMAIN r = 1..n + 1
  BY <1>2, ListSeq
<1> DEFINE A(s) == {i \in OfKind(s, "Asset") : s[i].payload # <<>>}
           M(s) == OfKind(s, "Module")
           D(s) == {i \in DOMAIN s : s[i].id \in c}
<1>4. \A i \in 1..n : i \in DOMAIN r /\ i \in DOMAIN q
  BY <1>2, <1>3
<1>5. /\ A(q) \cap 1..n = A(r) \cap 1..n /\ n + 1 \notin A(r)
      /\ M(q) \cap 1..n = M(r) \cap 1..n /\ n + 1 \notin M(r)
      /\ D(q) \cap 1..n = D(r) \cap 1..n /\ n + 1 \notin D(r)
  <2>1. n + 1 \notin A(r) /\ n + 1 \notin M(r) /\ n + 1 \notin D(r)
    BY <1>2 DEF OfKind
  <2>2. ASSUME NEW i \in 1..n
        PROVE  (i \in A(q) <=> i \in A(r)) /\ (i \in M(q) <=> i \in M(r)) /\ (i \in D(q) <=> i \in D(r))
    BY <1>2, <1>4 DEF OfKind
  <2> HIDE DEF A, M, D
  <2>3. QED BY <2>1, <2>2
<1> HIDE DEF A, M, D
<1>6. Those(r, A(r)) = Those(q, A(q)) /\ Those(r, M(r)) = Those(q, M(q)) /\ Those(r, D(r)) = Those(q, D(q))
  BY <1>5, ThoseAppend DEF r
<1>7. QED BY <1>6 DEF ManifestOf, A, M, D, r

\* Sections with their manifest, which covers those with the ids c.
Closed(q, c) ==
    \E front, legacy :
        /\ IsList(front) /\ \A i \in 1..Len(front) : front[i].kind # "Manifest"
        /\ c \subseteq {front[i].id : i \in 1..Len(front)}
        /\ q = Append(front, ManifestSection(front, c, legacy))

LEMMA ClosedIs ==
    ASSUME NEW q, IsList(q), DistinctIds(q), NEW c, Closed(q, c)
    PROVE  /\ Len(q) \in 1..Len(q) /\ q[Len(q)].kind = "Manifest"
           /\ \A i \in 1..Len(q) : q[i].kind = "Manifest" => i = Len(q)
           /\ Manifested(q[Len(q)].payload, ManifestOf(q, c))
           /\ \A id \in c : \E i \in 1..Len(q) : q[i].id = id
<1>1. PICK front, legacy :
        /\ IsList(front) /\ \A i \in 1..Len(front) : front[i].kind # "Manifest"
        /\ c \subseteq {front[i].id : i \in 1..Len(front)}
        /\ q = Append(front, ManifestSection(front, c, legacy))
  BY DEF Closed
<1> DEFINE n == Len(front)
           x == ManifestSection(front, c, legacy)
<1>2. Joined(q, front, <<x>>) /\ Len(<<x>>) = 1 /\ <<x>>[1] = x
  BY <1>1, ListAppend, ListOne
<1>3. x.kind = "Manifest" /\ Manifested(x.payload, ManifestOf(front, c))
  BY DEF ManifestSection, Manifested
<1> HIDE DEF x
<1>4. n \in Nat /\ Len(q) = n + 1 /\ q[n + 1] = x /\ \A i \in 1..n : q[i] = front[i]
  BY <1>1, <1>2, ListLength DEF Joined
<1>5. x.id \notin c
  <2>1. SUFFICES ASSUME x.id \in c PROVE FALSE
    OBVIOUS
  <2>2. PICK i \in 1..n : front[i].id = x.id
    BY <1>1, <2>1
  <2>3. i \in DOMAIN q /\ n + 1 \in DOMAIN q /\ i # n + 1
    BY <1>4, ListSeq
  <2>4. QED BY <1>4, <2>2, <2>3 DEF DistinctIds
<1>6. ManifestOf(q, c) = ManifestOf(front, c)
  <2>1. q = Append(front, x)
    BY <1>1 DEF x
  <2>2. QED BY <1>1, <1>3, <1>5, <2>1, ManifestOfAppend
<1>7. ASSUME NEW i \in 1..Len(q), q[i].kind = "Manifest" PROVE i = Len(q)
  BY <1>1, <1>4, <1>7
<1>8. ASSUME NEW id \in c PROVE \E i \in 1..Len(q) : q[i].id = id
  <2>1. PICK i \in 1..n : front[i].id = id
    BY <1>1
  <2>2. i \in 1..Len(q)
    BY <1>4
  <2>3. QED BY <1>4, <2>1, <2>2
<1>9. QED BY <1>3, <1>4, <1>6, <1>7, <1>8

\* The reader of a file in which units have been hit finds the manifest, with a
\* digest for the same sections.
LEMMA ManifestFound ==
    ASSUME NEW q, SectionList(q), DistinctIds(q), NEW c, Closed(q, c),
           NEW S, Sorted(S, q), NEW st, Laying(st, S), NEW u, Lays(u, S, st),
           NEW f, Near(f, u), NEW a, Finds(a, f, S, st)
    PROVE  /\ Manifests(a) # {} /\ IsRead(manifest(a)) /\ IsList(manifest(a).workers)
           /\ IsList(manifest(a).digests)
           /\ Len(manifest(a).digests) = Len(ManifestOf(q, c).digests)
           /\ \A j \in 1..Len(ManifestOf(q, c).digests) :
                 Hit(manifest(a).digests[j], ManifestOf(q, c).digests[j])
           /\ \E k \in 1..Len(S) :
                 /\ S[k] = q[Len(q)] /\ Manifests(a) = {k} /\ a.entries[k] = Entry(S[k], st[k])
                 /\ manifest(a) = DecodeManifest(section_bytes(a, Entry(S[k], st[k])))
<1> DEFINE m == ManifestOf(q, c)
<1>1. /\ IsList(q) /\ Len(q) \in 1..Len(q) /\ q[Len(q)].kind = "Manifest"
      /\ \A i \in 1..Len(q) : q[i].kind = "Manifest" => i = Len(q)
      /\ Manifested(q[Len(q)].payload, m)
  BY ClosedIs DEF SectionList
<1>2. ManifestLists(m)
  BY <1>1, ManifestOfIs
<1> HIDE DEF m
<1>3. PICK k \in 1..Len(S) : S[k] = q[Len(q)]
  BY <1>1 DEF Sorted
<1>4. /\ a.units = f /\ IsList(a.entries) /\ Len(a.entries) = Len(S) /\ SectionList(S)
      /\ \A i \in 1..Len(S) : a.entries[i] = Entry(S[i], st[i])
                              /\ st[i] + Len(S[i].payload) <= Len(f)
  BY DEF Finds, Accepted, Sorted
<1>5. Manifests(a) = {k}
  <2>1. DOMAIN a.entries = 1..Len(S)
    BY <1>4, ListSeq
  <2>2. ASSUME NEW i \in 1..Len(S) PROVE a.entries[i].kind = S[i].kind
    BY <1>4, EntryIs
  <2>3. ASSUME NEW i \in 1..Len(S), S[i].kind = "Manifest" PROVE i = k
    <3>1. PICK j \in 1..Len(q) : S[i] = q[j]
      BY DEF Sorted
    <3>2. S[i] = S[k]
      BY <1>1, <1>3, <2>3, <3>1
    <3>3. QED BY <3>2 DEF Sorted
  <2>4. S[k].kind = "Manifest"
    BY <1>1, <1>3
  <2>5. QED BY <2>1, <2>2, <2>3, <2>4 DEF Manifests, OfKind
<1>6. manifest(a) = DecodeManifest(section_bytes(a, Entry(S[k], st[k])))
  <2>1. Min({k}) = k
    <3>1. k \in Int
      OBVIOUS
    <3>2. QED BY <3>1, OnlyOne
  <2>2. QED BY <1>4, <1>5, <2>1 DEF manifest
<1> DEFINE b == section_bytes(a, Entry(S[k], st[k]))
<1>7. Near(b, S[k].payload) /\ Len(b) = Len(S[k].payload)
  BY <1>4, BytesNear
<1> HIDE DEF b
<1>8. Manifested(S[k].payload, m)
  BY <1>1, <1>3
<1>9. LET r == DecodeManifest(b)
      IN  /\ IsRead(r) /\ IsList(r.workers)
          /\ IsList(r.digests) /\ Len(r.digests) = Len(m.digests)
          /\ \A i \in 1..Len(m.digests) : Hit(r.digests[i], m.digests[i])
  BY <1>2, <1>7, <1>8, NearManifest
<1>10. manifest(a) = DecodeManifest(b)
  BY <1>6 DEF b
<1>11. QED BY <1>3, <1>4, <1>5, <1>6, <1>9, <1>10 DEF m

\* The bytes of a section with a digest that holds are those that were pushed.
LEMMA Vouched ==
    ASSUME NEW q, SectionList(q), DistinctIds(q), NEW c, Closed(q, c),
           NEW S, Sorted(S, q), NEW st, Laying(st, S), NEW u, Lays(u, S, st),
           NEW f, Near(f, u), NEW a, Finds(a, f, S, st), verify_manifest_digests(a),
           NEW i \in 1..Len(q), q[i].id \in c
    PROVE  HasSection(a, q[i].id) /\ section_bytes(a, section(a, q[i].id)) = q[i].payload
<1> DEFINE m == ManifestOf(q, c)
           r == manifest(a)
           s == section(a, q[i].id)
<1>1. /\ Manifests(a) # {} /\ IsList(r.digests) /\ Len(r.digests) = Len(m.digests)
      /\ \A j \in 1..Len(m.digests) : Hit(r.digests[j], m.digests[j])
  BY ManifestFound
<1>2. PICK j \in 1..Len(m.digests) : m.digests[j] = SectionDigest(q[i])
  <2>1. IsList(q)
    BY DEF SectionList
  <2>2. QED BY <2>1, ManifestOfIs
<1>3. DigestHolds(a, r.digests[j])
  <2>1. j \in DOMAIN r.digests
    BY <1>1, ListSeq
  <2>2. QED BY <1>1, <2>1 DEF verify_manifest_digests
<1>4. Hit(r.digests[j], SectionDigest(q[i]))
  BY <1>1, <1>2
<1> HIDE DEF m, r
<1> DEFINE d == SectionDigest(q[i])
           w == r.digests[j]
<1>5. d.unit = "digest" /\ d.section = q[i].id
      /\ d.digest = DigestOf(q[i].id, q[i].kind, q[i].flags, Len(q[i].payload), q[i].payload)
  BY DEF SectionDigest
<1>6. Damaged(d) = {[d EXCEPT !.digest = <<>>]}
  <2> HIDE DEF d
  <2>1. Damaged(d) = {[d EXCEPT !.digest = <<>>]}
    BY <1>5 DEF Damaged
  <2>2. QED BY <2>1
<1>7. w = d \/ w = [d EXCEPT !.digest = <<>>]
  BY <1>4, <1>6 DEF Hit
<1>8. w.section = q[i].id /\ (w = d \/ w.digest = <<>>)
  BY <1>7 DEF SectionDigest
<1>9. /\ HasSection(a, q[i].id)
      /\ w.digest = DigestOf(s.id, s.kind, w.flags, s.unpacked, section_bytes(a, s))
  BY <1>3, <1>8 DEF DigestHolds
<1>10. w.digest # <<>>
  BY <1>9 DEF DigestOf
<1>11. DigestOf(q[i].id, q[i].kind, q[i].flags, Len(q[i].payload), q[i].payload)
         = DigestOf(s.id, s.kind, w.flags, s.unpacked, section_bytes(a, s))
  BY <1>5, <1>8, <1>9, <1>10
<1> HIDE DEF s, w, d
<1>12. section_bytes(a, s) = q[i].payload
  BY <1>11 DEF DigestOf
<1>13. QED BY <1>9, <1>12 DEF s

(***************************************************************************)
(* What a build writes, and what a fault makes of it.                      *)
(***************************************************************************)

\* The units of the sections q with a signature of the key, or without.
Written(q, key) == IF key = NoKey THEN build(q, NoKey) ELSE build_signed(q, key)

\* b is u with its header patched and its signature behind it.
Signs(b, u, key) ==
    /\ IsList(b) /\ Len(b) = Len(u) + 1
    /\ b[1] = [u[1] EXCEPT !.signatureAt = Len(u), !.signatureSize = 1]
    /\ \A p \in 2..Len(u) : b[p] = u[p]
    /\ b[Len(u) + 1] = Signature(key, u)

LEMMA SignedIs ==
    ASSUME NEW q, NEW key, IsList(build(q, key)), Len(build(q, key)) >= 1
    PROVE  Signs(build_signed(q, key), build(q, key), key)
<1> DEFINE u       == build(q, key)
           head    == [u[1] EXCEPT !.signatureAt = Len(u), !.signatureSize = 1]
           patched == [u EXCEPT ![1] = head]
           s       == Signature(key, u)
<1>1. build_signed(q, key) = Append(patched, s)
  BY DEF build_signed
<1>2. IsList(u) /\ Len(u) >= 1
  OBVIOUS
<1> HIDE DEF u, s, head
<1>3. Len(u) \in Nat /\ DOMAIN u = 1..Len(u)
  BY <1>2, ListSeq
<1>4. IsList(patched) /\ Len(patched) = Len(u) /\ patched[1] = head
      /\ \A p \in 2..Len(u) : patched[p] = u[p]
  <2>1. patched = [p \in 1..Len(u) |-> patched[p]]
    BY <1>3
  <2>2. 1 \in DOMAIN u
    BY <1>2, <1>3
  <2>3. patched[1] = head /\ \A p \in 2..Len(u) : patched[p] = u[p]
    BY <1>3, <2>2
  <2> HIDE DEF patched
  <2>4. QED BY <1>3, <2>1, <2>3, ListOf
<1> HIDE DEF patched
<1>5. Joined(Append(patched, s), patched, <<s>>) /\ Len(<<s>>) = 1 /\ <<s>>[1] = s
  BY <1>4, ListAppend, ListOne
<1> DEFINE b == Append(patched, s)
<1> HIDE DEF b
<1>6. /\ IsList(b) /\ Len(b) = Len(u) + 1 /\ b[Len(u) + 1] = s
      /\ \A p \in 1..Len(u) : b[p] = patched[p]
  BY <1>4, <1>5 DEF Joined, b
<1>7. b[1] = head /\ \A p \in 2..Len(u) : b[p] = u[p]
  BY <1>2, <1>3, <1>4, <1>6
<1>8. build_signed(q, key) = b
  BY <1>1 DEF b
<1>9. Signs(b, u, key)
  BY <1>6, <1>7 DEF Signs, head, s
<1>10. QED BY <1>8, <1>9 DEF u

\* How many units the sections take, whoever signs them.
LaidLength(S, st) == IF Len(S) = 0 THEN TableOffset ELSE st[Len(S)] + Len(S[Len(S)].payload)

LEMMA LaidLengthIs ==
    ASSUME NEW S, SectionList(S), NEW st, Laying(st, S), NEW key
    PROVE  Len(Laid(S, st, key)) = LaidLength(S, st)
<1> DEFINE u    == Laid(S, st, key)
           l    == LaidLength(S, st)
           n    == Len(S)
<1>1. l \in Nat
  <2>1. CASE n = 0
    BY <2>1 DEF LaidLength, TableOffset
  <2>2. CASE n # 0
    <3>1. n \in 1..n
      BY <2>2, ListLength DEF SectionList
    <3>2. st[n] \in Nat /\ Len(S[n].payload) \in Nat
      BY <3>1, ListLength DEF Laying, SectionList, Sectioned
    <3>3. QED BY <2>2, <3>2 DEF LaidLength
  <2>3. QED BY <2>1, <2>2
<1>2. u = [p \in 1..l |-> u[p]]
  BY DEF Laid, LaidLength
<1> HIDE DEF u, l
<1>3. Len(u) = l
  BY <1>1, <1>2, ListOf
<1>4. QED BY <1>3 DEF u, l

\* A file as it was written, signed or not: the sections S of q are where st says.
LEMMA WrittenIs ==
    ASSUME NEW q, SectionList(q), DistinctIds(q), NEW key
    PROVE  LET S  == ById(q)
               st == Starts(S)
               u  == build(q, key)
           IN  /\ Sorted(S, q) /\ Laying(st, S)
               /\ Lays(u, S, st) /\ Unsigned(u, key) /\ Len(u) = LaidLength(S, st)
               /\ Lays(Written(q, key), S, st)
               /\ key # NoKey => Signs(Written(q, key), u, key)
<1> DEFINE S  == ById(q)
           st == Starts(S)
           u  == build(q, key)
           b  == Written(q, key)
<1>1. Sorted(S, q)
  BY ByIdIs
<1>2. SectionList(S)
  BY <1>1 DEF Sorted
<1> HIDE DEF S
<1>3. Laying(st, S)
  BY <1>2, StartsAre
<1> HIDE DEF st
<1>4. u = Laid(S, st, key)
  BY DEF build, S, st
<1> HIDE DEF u
<1>5. Lays(u, S, st) /\ Unsigned(u, key) /\ Len(u) = LaidLength(S, st)
  BY <1>2, <1>3, <1>4, LaidIs, LaidLengthIs
<1>6. IsList(u) /\ Len(S) \in Nat /\ Len(u) \in Nat /\ Len(u) >= 2 + Len(S)
  BY <1>2, <1>5, ListLength DEF Lays, SectionList, TableOffset
<1>7. ASSUME key # NoKey PROVE Signs(b, u, key)
  <2>1. b = build_signed(q, key)
    BY <1>7 DEF Written
  <2>2. Signs(build_signed(q, key), u, key)
    BY <1>6, SignedIs DEF u
  <2>3. QED BY <2>1, <2>2
<1>8. Lays(b, S, st)
  <2>1. CASE key = NoKey
    BY <1>5, <2>1 DEF Written, u
  <2>2. CASE key # NoKey
    <3>1. Signs(b, u, key)
      BY <1>7, <2>2
    <3> HIDE DEF b
    <3>2. Headed(b[1], Len(S))
      <4>1. Headed(u[1], Len(S))
        BY <1>5 DEF Lays
      <4>2. u[1] = [unit |-> "header", count |-> u[1].count, table |-> u[1].table,
                    security |-> u[1].security, signatureAt |-> 0, signatureSize |-> 0]
        BY <1>5 DEF Unsigned
      <4>3. b[1].unit = u[1].unit /\ b[1].count = u[1].count /\ b[1].table = u[1].table
            /\ b[1].security = u[1].security
        BY <3>1, <4>2 DEF Signs
      <4>4. QED BY <4>1, <4>3 DEF Headed
    <3>3. \A p \in 2..Len(u) : b[p] = u[p]
      BY <3>1 DEF Signs
    <3>4. IsList(b) /\ Len(b) = Len(u) + 1
      BY <3>1 DEF Signs
    <3>5. ASSUME NEW i \in 1..Len(S)
          PROVE  /\ b[TableOffset + i] = Entry(S[i], st[i])
                 /\ st[i] + Len(S[i].payload) <= Len(b)
                 /\ \A j \in 1..Len(S[i].payload) : b[st[i] + j] = S[i].payload[j]
      <4> DEFINE l == Len(S[i].payload)
      <4>1. /\ u[TableOffset + i] = Entry(S[i], st[i])
            /\ st[i] + l <= Len(u)
            /\ \A j \in 1..l : u[st[i] + j] = S[i].payload[j]
        BY <1>5 DEF Lays
      <4>2. l \in Nat /\ st[i] \in Nat /\ st[i] >= TableOffset + Len(S)
        BY <1>2, <1>3, ListLength DEF Laying, SectionList, Sectioned
      <4> HIDE DEF l
      <4>3. TableOffset + i \in 2..Len(u)
        BY <1>6 DEF TableOffset
      <4>4. \A j \in 1..l : st[i] + j \in 2..Len(u)
        BY <1>6, <4>1, <4>2 DEF TableOffset
      <4>5. st[i] + l <= Len(b)
        BY <1>6, <3>4, <4>1, <4>2
      <4>6. b[TableOffset + i] = Entry(S[i], st[i])
        BY <3>3, <4>1, <4>3
      <4>7. \A j \in 1..l : b[st[i] + j] = S[i].payload[j]
        BY <3>3, <4>1, <4>4
      <4>8. QED BY <4>5, <4>6, <4>7 DEF l
    <3>6. Len(b) >= TableOffset + Len(S)
      BY <1>6, <3>4 DEF TableOffset
    <3>7. QED BY <3>2, <3>4, <3>5, <3>6 DEF Lays
  <2>3. QED BY <2>1, <2>2
<1>9. QED BY <1>1, <1>3, <1>5, <1>7, <1>8 DEF S, st, u

\* f is what the fault made of u.
Faulty(f, u, what) ==
    \/ what = "none" /\ f = u
    \/ what = "cut" /\ \E n \in 0..(Len(u) - 1) : f = SubSeq(u, 1, n)
    \/ /\ what = "garbled"
       /\ \E p \in DOMAIN u : \E w \in Damaged(u[p]) \ {u[p]} : f = [u EXCEPT ![p] = w]
    \/ /\ what = "misled"
       /\ \E p \in DOMAIN u : \E w \in Misled(u[p], Len(u)) \ {u[p]} : f = [u EXCEPT ![p] = w]

LEMMA FaultyIsNear ==
    ASSUME NEW u, IsList(u), NEW f, NEW what, Faulty(f, u, what), what # "misled"
    PROVE  Near(f, u)
<1>1. Len(u) \in Nat /\ DOMAIN u = 1..Len(u)
  BY ListSeq
<1>2. CASE f = u
  BY <1>1, <1>2 DEF Near, Hit
<1>3. CASE \E n \in 0..(Len(u) - 1) : f = SubSeq(u, 1, n)
  <2>1. PICK n \in 0..(Len(u) - 1) : f = SubSeq(u, 1, n)
    BY <1>3
  <2>2. n \in Nat /\ n <= Len(u)
    BY <1>1
  <2>3. IsTaken(f, u, 0, n)
    BY <2>1, <2>2, CutIs
  <2>4. IsList(f) /\ Len(f) = n /\ \A i \in 1..n : f[i] = u[i]
    <3>1. \A i \in 1..n : u[0 + i] = u[i]
      BY <2>2
    <3>2. QED BY <2>3, <3>1 DEF IsTaken
  <2>5. QED BY <2>2, <2>4 DEF Near, Hit
<1>4. CASE \E p \in DOMAIN u : \E w \in Damaged(u[p]) \ {u[p]} : f = [u EXCEPT ![p] = w]
  <2>1. PICK p \in DOMAIN u : \E w \in Damaged(u[p]) \ {u[p]} : f = [u EXCEPT ![p] = w]
    BY <1>4
  <2>2. PICK w \in Damaged(u[p]) \ {u[p]} : f = [u EXCEPT ![p] = w]
    BY <2>1
  <2>3. f = [i \in 1..Len(u) |-> f[i]] /\ f[p] = w /\ \A i \in 1..Len(u) : i # p => f[i] = u[i]
    BY <1>1, <2>2
  <2>4. IsList(f) /\ Len(f) = Len(u)
    BY <1>1, <2>3, ListOf
  <2>5. ASSUME NEW i \in 1..Len(f) PROVE Hit(f[i], u[i])
    <3>1. CASE i = p
      BY <2>2, <2>3, <3>1 DEF Hit
    <3>2. CASE i # p
      BY <2>3, <2>4, <3>2 DEF Hit
    <3>3. QED BY <3>1, <3>2
  <2>6. QED BY <1>1, <2>4, <2>5 DEF Near
<1>5. QED BY <1>2, <1>3, <1>4 DEF Faulty

\* A file without its last units ends before its last section, or has lost the
\* signature only.
LEMMA CutIsShort ==
    ASSUME NEW q, SectionList(q), DistinctIds(q), NEW key, NEW f, IsList(f),
           NEW u, u = Written(q, key), Near(f, u), Len(f) < Len(u),
           IsRead(Archive_decode(f))
    PROVE  key # NoKey /\ Len(f) = Len(build(q, NoKey))
<1> DEFINE S  == ById(q)
           st == Starts(S)
           l  == LaidLength(S, st)
           n  == Len(S)
<1>1. /\ Sorted(S, q) /\ Laying(st, S) /\ Lays(u, S, st) /\ Len(build(q, key)) = l
      /\ key # NoKey => Signs(u, build(q, key), key)
  BY WrittenIs
<1>2. Len(build(q, NoKey)) = l
  BY WrittenIs
<1>3. SectionList(S)
  BY <1>1 DEF Sorted
<1> HIDE DEF S, st
<1>4. Finds(Archive_decode(f), f, S, st)
  <2>1. Carries(f, S, st)
    BY <1>1, <1>3, NearCarries
  <2>2. QED BY <1>3, <2>1, OpenedIs
<1>5. Len(f) \in Nat /\ Len(u) \in Nat /\ Len(S) \in Nat
  BY <1>1, <1>3, ListLength DEF Lays, SectionList
<1>6. Len(f) >= l
  <2>1. CASE n = 0
    BY <1>4, <2>1 DEF Finds, LaidLength, TableOffset
  <2>2. CASE n # 0
    <3>1. n \in 1..n
      BY <1>5, <2>2
    <3>2. st[n] + Len(S[n].payload) <= Len(f)
      BY <1>4, <3>1 DEF Finds
    <3>3. st[n] \in Nat /\ Len(S[n].payload) \in Nat
      BY <1>1, <1>3, <3>1, ListLength DEF Laying, SectionList, Sectioned
    <3>4. QED BY <1>5, <2>2, <3>2, <3>3 DEF LaidLength
  <2>3. QED BY <2>1, <2>2
<1>7. l \in Nat
  <2>1. IsList(build(q, key))
    BY WrittenIs DEF Lays
  <2>2. QED BY <1>1, <2>1, ListLength
<1>8. key # NoKey
  <2>1. SUFFICES ASSUME key = NoKey PROVE FALSE
    OBVIOUS
  <2>2. Len(u) = l
    BY <1>2, <2>1 DEF Written
  <2>3. QED BY <1>5, <1>6, <1>7, <2>2
<1>9. Len(u) = l + 1
  BY <1>1, <1>8 DEF Signs
<1> HIDE DEF l
<1>10. Len(f) = l
  BY <1>5, <1>6, <1>7, <1>9
<1>11. QED BY <1>2, <1>8, <1>10

(***************************************************************************)
(* Signatures.                                                             *)
(***************************************************************************)

\* s is what a signature is computed from: the first n units of f, with the header
\* as it was.
IsSigned(s, f, n) ==
    /\ IsList(s) /\ Len(s) = n
    /\ s[1] = [f[1] EXCEPT !.signatureAt = 0, !.signatureSize = 0]
    /\ \A p \in 2..n : s[p] = f[p]

LEMMA SignedPartIs ==
    ASSUME NEW f, IsList(f), NEW n \in Nat, 1 <= n, n <= Len(f),
           NEW a, a.units = f, a.header.signatureAt = n
    PROVE  IsSigned(SignedPart(a), f, n)
<1> DEFINE c == SubSeq(f, 1, n)
           s == [c EXCEPT ![1].signatureAt = 0, ![1].signatureSize = 0]
<1>1. IsTaken(c, f, 0, n)
  BY CutIs
<1> HIDE DEF c
<1>2. IsList(c) /\ Len(c) = n /\ \A i \in 1..n : c[i] = f[i]
  <2>1. \A i \in 1..n : f[0 + i] = f[i]
    OBVIOUS
  <2>2. QED BY <1>1, <2>1 DEF IsTaken
<1>3. DOMAIN c = 1..n
  BY <1>2, ListSeq
<1>4. s = [p \in 1..n |-> s[p]]
  BY <1>3
<1>5. 1 \in 1..n
  OBVIOUS
<1>6. s[1] = [c[1] EXCEPT !.signatureAt = 0, !.signatureSize = 0]
  BY <1>3, <1>5
<1>7. \A p \in 2..n : s[p] = c[p]
  BY <1>3
<1>8. SignedPart(a) = s
  BY DEF SignedPart, c
<1> HIDE DEF s
<1>9. IsList(s) /\ Len(s) = n
  BY <1>4, ListOf
<1>10. c[1] = f[1] /\ \A p \in 2..n : c[p] = f[p]
  BY <1>2, <1>5
<1>11. QED BY <1>6, <1>7, <1>8, <1>9, <1>10 DEF IsSigned

\* The header of a signed file, whatever happened to it.
LEMMA HeaderPatched ==
    ASSUME NEW unit, NEW count, NEW table, NEW security, NEW at
    PROVE  LET h == [unit |-> unit, count |-> count, table |-> table, security |-> security,
                     signatureAt |-> 0, signatureSize |-> 0]
               g == [h EXCEPT !.signatureAt = at, !.signatureSize = 1]
           IN  /\ g.unit = unit /\ g.signatureAt = at /\ g.signatureSize = 1
               /\ [g EXCEPT !.signatureAt = 0, !.signatureSize = 0] = h
<1> DEFINE h == [unit |-> unit, count |-> count, table |-> table, security |-> security,
                 signatureAt |-> 0, signatureSize |-> 0]
           g == [h EXCEPT !.signatureAt = at, !.signatureSize = 1]
           At(x, size) == [unit |-> unit, count |-> count, table |-> table,
                           security |-> security, signatureAt |-> x, signatureSize |-> size]
           Moved(r, x) == [r EXCEPT !.signatureAt = x]
           Sized(r, size) == [r EXCEPT !.signatureSize = size]
<1>1. h = At(0, 0)
  OBVIOUS
<1>2. \A x, size, y : Moved(At(x, size), y) = At(y, size) /\ Sized(At(x, size), y) = At(x, y)
  OBVIOUS
<1>3. \A x, size : At(x, size).unit = unit /\ At(x, size).signatureAt = x /\ At(x, size).signatureSize = size
  OBVIOUS
<1> HIDE DEF At, h
<1>4. g = Sized(Moved(h, at), 1)
  OBVIOUS
<1> HIDE DEF g
<1>5. [g EXCEPT !.signatureAt = 0, !.signatureSize = 0] = Sized(Moved(g, 0), 0)
  OBVIOUS
<1> HIDE DEF Moved, Sized
<1>6. g = At(at, 1)
  BY <1>1, <1>2, <1>4
<1>7. [g EXCEPT !.signatureAt = 0, !.signatureSize = 0] = h
  BY <1>1, <1>2, <1>5, <1>6
<1>8. QED BY <1>3, <1>7, <1>6 DEF g, h

Unpatched(h, v, at) ==
    /\ h.unit = "header" /\ h.signatureAt = at /\ h.signatureSize = 1
    /\ [h EXCEPT !.signatureAt = 0, !.signatureSize = 0] = v

LEMMA SignedHeader ==
    ASSUME NEW u, NEW v, NEW key, NEW k, Unsigned(v, k), IsList(v), Len(v) >= 1, Signs(u, v, key),
           v[1].unit = "header", NEW f, Near(f, u), Len(f) >= 1
    PROVE  f[1] = u[1] /\ Unpatched(f[1], v[1], Len(v))
<1>1. v[1] = [unit |-> "header", count |-> v[1].count, table |-> v[1].table,
              security |-> v[1].security, signatureAt |-> 0, signatureSize |-> 0]
  BY DEF Unsigned
<1>2. u[1] = [v[1] EXCEPT !.signatureAt = Len(v), !.signatureSize = 1]
  BY DEF Signs
<1>3. Unpatched(u[1], v[1], Len(v))
  <2> DEFINE g == [v[1] EXCEPT !.signatureAt = Len(v), !.signatureSize = 1]
  <2>1. g.signatureAt = Len(v) /\ g.signatureSize = 1 /\ g.unit = v[1].unit
        /\ [g EXCEPT !.signatureAt = 0, !.signatureSize = 0] = v[1]
    BY <1>1, HeaderPatched
  <2> HIDE DEF g
  <2>2. u[1] = g
    BY <1>2 DEF g
  <2>3. QED BY <2>1, <2>2 DEF Unpatched
<1>4. f[1] = u[1]
  <2>1. Hit(f[1], u[1])
    <3>1. 1 \in 1..Len(f)
      BY ListLength DEF Near
    <3>2. QED BY <3>1 DEF Near
  <2>2. u[1].unit \in Firm
    BY <1>3 DEF Firm, Unpatched
  <2>3. QED BY <2>1, <2>2, FirmHit
<1>5. QED BY <1>3, <1>4

\* The signature of a file that nothing happened to holds.
LEMMA SignatureHolds ==
    ASSUME NEW q, SectionList(q), DistinctIds(q), NEW ring, NEW key, key = NoKey \/ key \in ring,
           NEW u, u = Written(q, key), NEW n, NEW a, a = Accepted(u, n)
    PROVE  verify_signature(a, ring)
<1> DEFINE v  == build(q, key)
           S  == ById(q)
           st == Starts(S)
<1>1. /\ Lays(v, S, st) /\ Unsigned(v, key) /\ SectionList(S)
      /\ key # NoKey => Signs(u, v, key)
  BY WrittenIs DEF Sorted
<1> HIDE DEF v, S, st
<1>2. IsList(v) /\ Len(v) \in Nat /\ Len(v) >= 2 /\ v[1].unit = "header"
  <2>1. Len(S) \in Nat
    BY <1>1, ListLength DEF SectionList
  <2>2. IsList(v) /\ Len(v) \in Nat /\ Len(v) >= TableOffset + Len(S) /\ v[1].unit = "header"
    BY <1>1, ListLength DEF Lays, Headed
  <2>3. QED BY <2>1, <2>2 DEF TableOffset
<1>3. a.units = u /\ a.header = u[1] /\ a.security = u[2]
  BY DEF Accepted
<1>4. CASE key = NoKey
  <2>1. u = v
    BY <1>4 DEF Written, v
  <2>2. u[1].signatureSize = 0
    BY <1>1, <2>1 DEF Unsigned
  <2>3. QED BY <1>3, <2>2 DEF verify_signature
<1>5. CASE key # NoKey
  <2>1. Signs(u, v, key)
    BY <1>1, <1>5
  <2>2. IsList(u) /\ Len(u) = Len(v) + 1 /\ u[2] = v[2] /\ u[Len(v) + 1] = Signature(key, v)
        /\ \A p \in 2..Len(v) : u[p] = v[p]
    <3>1. 2 \in 2..Len(v)
      BY <1>2
    <3>2. QED BY <2>1, <3>1 DEF Signs
  <2>3. u[2].key = key
    BY <1>1, <2>2 DEF Unsigned
  <2>4. Near(u, u)
    <3>1. Faulty(u, u, "none")
      BY DEF Faulty
    <3>2. QED BY <2>2, <3>1, FaultyIsNear
  <2>5. Unpatched(u[1], v[1], Len(v))
    <3>1. Len(u) >= 1 /\ Len(v) >= 1
      BY <1>2, <2>2
    <3>2. QED BY <1>1, <1>2, <2>1, <2>4, <3>1, SignedHeader
  <2> DEFINE s == SignedPart(a)
  <2>6. IsSigned(s, u, Len(v))
    <3>1. 1 <= Len(v) /\ Len(v) <= Len(u)
      BY <1>2, <2>2
    <3>2. a.header.signatureAt = Len(v)
      BY <1>3, <2>5 DEF Unpatched
    <3>3. QED BY <1>2, <1>3, <2>2, <3>1, <3>2, SignedPartIs
  <2> HIDE DEF s
  <2>10. IsList(s) /\ Len(s) = Len(v)
    BY <2>6 DEF IsSigned
  <2>7. s = v
    <3>1. ASSUME NEW i \in 1..Len(s) PROVE s[i] = v[i]
      <4>1. i = 1 \/ i \in 2..Len(v)
        BY <1>2, <2>10
      <4>2. s[1] = v[1]
        BY <2>5, <2>6 DEF IsSigned, Unpatched
      <4>3. QED BY <2>2, <2>6, <4>1, <4>2 DEF IsSigned
    <3>2. QED BY <1>2, <2>10, <3>1, ListSame
  <2>8. Len(v) + 1 <= Len(u)
    BY <1>2, <2>2
  <2>9. QED BY <1>3, <1>5, <2>2, <2>3, <2>5, <2>7, <2>8 DEF verify_signature, s, Unpatched
<1>6. QED BY <1>4, <1>5

\* That of a file that something happened to does not, what says where or what
\* others are apart.
LEMMA SignatureFails ==
    ASSUME NEW q, SectionList(q), DistinctIds(q), NEW ring, NEW key, key # NoKey,
           NEW u, u = Written(q, key), NEW f, NEW what, Faulty(f, u, what),
           what \notin {"none", "misled"},
           NEW n, NEW a, a = Accepted(f, n), Len(f) >= 1
    PROVE  ~verify_signature(a, ring)
<1> DEFINE v  == build(q, key)
           S  == ById(q)
           st == Starts(S)
<1>1. /\ Lays(v, S, st) /\ Unsigned(v, key) /\ SectionList(S) /\ Signs(u, v, key)
  BY WrittenIs DEF Sorted
<1> HIDE DEF v, S, st
<1>2. IsList(v) /\ Len(v) \in Nat /\ Len(v) >= 2 /\ v[1].unit = "header"
  <2>1. Len(S) \in Nat
    BY <1>1, ListLength DEF SectionList
  <2>2. IsList(v) /\ Len(v) \in Nat /\ Len(v) >= TableOffset + Len(S) /\ v[1].unit = "header"
    BY <1>1, ListLength DEF Lays, Headed
  <2>3. QED BY <2>1, <2>2 DEF TableOffset
<1>3. a.units = f /\ a.header = f[1] /\ a.security = f[2]
  BY DEF Accepted
<1>4. IsList(u) /\ Len(u) = Len(v) + 1 /\ u[Len(v) + 1] = Signature(key, v)
      /\ \A p \in 2..Len(v) : u[p] = v[p]
  BY <1>1 DEF Signs
<1>5. Near(f, u)
  BY <1>4, FaultyIsNear
<1>6. f[1] = u[1] /\ f[1].signatureAt = Len(v) /\ f[1].signatureSize = 1
  <2>1. Len(v) >= 1
    BY <1>2
  <2>2. f[1] = u[1] /\ Unpatched(f[1], v[1], Len(v))
    BY <1>1, <1>2, <1>5, <2>1, SignedHeader
  <2>3. QED BY <2>2 DEF Unpatched
<1>7. SUFFICES ASSUME verify_signature(a, ring) PROVE FALSE
  OBVIOUS
<1> DEFINE s == SignedPart(a)
<1>8. Len(v) + 1 <= Len(f) /\ f[Len(v) + 1] = Signature(a.security.key, s)
  BY <1>3, <1>6, <1>7 DEF verify_signature
<1>9. PICK p \in DOMAIN u : \E w \in Damaged(u[p]) \ {u[p]} : f = [u EXCEPT ![p] = w]
  <2>1. ASSUME NEW m \in 0..(Len(u) - 1), f = SubSeq(u, 1, m) PROVE FALSE
    <3>1. m \in Nat
      BY <1>2, <1>4
    <3>2. IsTaken(f, u, 0, m)
      BY <2>1, <3>1, CutIs
    <3>3. Len(f) = m
      BY <3>2 DEF IsTaken
    <3>4. QED BY <1>2, <1>4, <1>8, <3>1, <3>3
  <2>2. QED BY <2>1 DEF Faulty
<1>10. PICK w \in Damaged(u[p]) \ {u[p]} : f = [u EXCEPT ![p] = w]
  BY <1>9
<1>11. DOMAIN u = 1..(Len(v) + 1) /\ p \in 1..(Len(v) + 1)
  BY <1>4, ListSeq
<1>12. f[p] = w /\ w # u[p] /\ \A i \in DOMAIN u : i # p => f[i] = u[i]
  BY <1>10
<1>13. p # 1
  BY <1>6, <1>12
<1>14. IsList(s) /\ Len(s) = Len(v) /\ \A i \in 2..Len(v) : s[i] = f[i]
  <2>1. IsList(f) /\ 1 <= Len(v) /\ Len(v) <= Len(f)
    BY <1>2, <1>5, <1>8, ListLength DEF Near
  <2>2. a.header.signatureAt = Len(v)
    BY <1>3, <1>6
  <2> HIDE DEF s
  <2>3. IsSigned(SignedPart(a), f, Len(v))
    BY <1>2, <1>3, <2>1, <2>2, SignedPartIs
  <2>4. QED BY <2>3 DEF IsSigned, s
<1> HIDE DEF s
<1>15. CASE p \in 2..Len(v)
  <2>1. s[p] # v[p]
    BY <1>4, <1>12, <1>14, <1>15
  <2>2. Len(v) + 1 \in DOMAIN u /\ Len(v) + 1 # p
    BY <1>2, <1>11, <1>15
  <2>3. f[Len(v) + 1] = Signature(key, v)
    BY <1>4, <1>12, <2>2
  <2>4. s = v
    BY <1>8, <2>3 DEF Signature
  <2>5. QED BY <2>1, <2>4
<1>16. CASE p = Len(v) + 1
  <2> DEFINE g == Signature(key, v)
  <2>1. g.unit = "signature" /\ g = [unit |-> "signature", key |-> key, signs |-> v]
    BY DEF Signature
  <2>2. Damaged(g) = {[g EXCEPT !.signs = <<>>]}
    <3> HIDE DEF g
    <3>1. QED BY <2>1 DEF Damaged
  <2>3. w = [g EXCEPT !.signs = <<>>]
    BY <1>4, <1>10, <1>16, <2>2
  <2>4. w.signs = <<>>
    BY <2>1, <2>3
  <2>5. w = Signature(a.security.key, s)
    BY <1>8, <1>12, <1>16
  <2>6. s = <<>>
    BY <2>4, <2>5 DEF Signature
  <2>7. QED BY <1>2, <1>14, <2>6, ListEmpty
<1>17. QED BY <1>2, <1>11, <1>13, <1>15, <1>16

IsHeader(h) ==
    h = [unit |-> "header", count |-> h.count, table |-> h.table, security |-> h.security,
         signatureAt |-> h.signatureAt, signatureSize |-> h.signatureSize]

\* What may become of a header is one.
LEMMA MisledHeader ==
    ASSUME NEW h, IsHeader(h), NEW far, NEW w \in Misled(h, far)
    PROVE  IsHeader(w) /\ w.unit = "header"
<1>1. h.unit = "header"
  BY DEF IsHeader
<1>2. \/ w = [h EXCEPT !.table = far] \/ w = [h EXCEPT !.security = far]
      \/ w = [h EXCEPT !.signatureAt = far] \/ w = [h EXCEPT !.signatureSize = 1 - @]
      \/ \E c \in 0..(h.count - 1) \cup {far} : w = [h EXCEPT !.count = c]
  BY <1>1 DEF Misled
<1>3. QED BY <1>2 DEF IsHeader

LEMMA MovedHeader ==
    ASSUME NEW h, IsHeader(h), NEW x, NEW y
    PROVE  IsHeader([h EXCEPT !.signatureAt = x, !.signatureSize = y])
<1> DEFINE At(a, size) == [unit |-> "header", count |-> h.count, table |-> h.table,
                           security |-> h.security, signatureAt |-> a, signatureSize |-> size]
           Moved(r, a) == [r EXCEPT !.signatureAt = a]
           Sized(r, size) == [r EXCEPT !.signatureSize = size]
<1>1. h = At(h.signatureAt, h.signatureSize)
  BY DEF IsHeader
<1>2. \A a, size, z : Moved(At(a, size), z) = At(z, size) /\ Sized(At(a, size), z) = At(a, z)
  OBVIOUS
<1>3. IsHeader(At(x, y))
  <2>1. /\ At(x, y).count = h.count /\ At(x, y).table = h.table /\ At(x, y).security = h.security
        /\ At(x, y).signatureAt = x /\ At(x, y).signatureSize = y
    OBVIOUS
  <2>2. QED BY <2>1 DEF IsHeader
<1>4. [h EXCEPT !.signatureAt = x, !.signatureSize = y] = Sized(Moved(h, x), y)
  OBVIOUS
<1> HIDE DEF At, Moved, Sized
<1>5. Sized(Moved(h, x), y) = At(x, y)
  BY <1>1, <1>2
<1>6. QED BY <1>3, <1>4, <1>5

LEMMA WrittenHeader ==
    ASSUME NEW q, SectionList(q), DistinctIds(q), NEW key
    PROVE  IsHeader(Written(q, key)[1])
<1> DEFINE v  == build(q, key)
           u  == Written(q, key)
           S  == ById(q)
           st == Starts(S)
<1>1. /\ Lays(v, S, st) /\ Unsigned(v, key) /\ SectionList(S)
      /\ key # NoKey => Signs(u, v, key)
  BY WrittenIs DEF Sorted
<1>2. IsHeader(v[1])
  <2> HIDE DEF v
  <2>1. v[1].unit = "header"
    <3>1. Len(S) \in Nat /\ Len(v) \in Nat /\ Len(v) >= TableOffset + Len(S)
      BY <1>1, ListLength DEF Lays, SectionList
    <3>2. QED BY <1>1, <3>1 DEF Lays, Headed, TableOffset
  <2>2. QED BY <1>1, <2>1 DEF Unsigned, IsHeader
<1>3. CASE key = NoKey
  <2>1. u = v
    BY <1>3 DEF Written
  <2> HIDE DEF u, v
  <2>2. QED BY <1>2, <2>1 DEF u
<1>4. CASE key # NoKey
  <2> HIDE DEF u, v
  <2>1. u[1] = [v[1] EXCEPT !.signatureAt = Len(v), !.signatureSize = 1]
    BY <1>1, <1>4 DEF Signs
  <2>2. IsHeader(u[1])
    <3>1. IsHeader([v[1] EXCEPT !.signatureAt = Len(v), !.signatureSize = 1])
      BY <1>2, MovedHeader
    <3>2. QED BY <2>1, <3>1
  <2>3. QED BY <2>2 DEF u
<1>5. QED BY <1>3, <1>4

\* Headers that differ only in where the signature is, and do not differ in
\* that.
LEMMA HeadersSame ==
    ASSUME NEW h, NEW g, IsHeader(h), IsHeader(g),
           h.signatureAt = g.signatureAt, h.signatureSize = g.signatureSize,
           [h EXCEPT !.signatureAt = 0, !.signatureSize = 0]
               = [g EXCEPT !.signatureAt = 0, !.signatureSize = 0]
    PROVE  h = g
<1> DEFINE hh == [h EXCEPT !.signatureAt = 0, !.signatureSize = 0]
           gg == [g EXCEPT !.signatureAt = 0, !.signatureSize = 0]
<1>1. hh.count = h.count /\ hh.table = h.table /\ hh.security = h.security
  BY DEF IsHeader
<1>2. gg.count = g.count /\ gg.table = g.table /\ gg.security = g.security
  BY DEF IsHeader
<1>3. hh = gg
  OBVIOUS
<1> HIDE DEF hh, gg
<1>4. h.count = g.count /\ h.table = g.table /\ h.security = g.security
  BY <1>1, <1>2, <1>3
<1>5. QED BY <1>4 DEF IsHeader

\* Nor that of one in which what says where others are changed, unless that is
\* where the header says that the signature is.
LEMMA SignatureMisled ==
    ASSUME NEW q, SectionList(q), DistinctIds(q), NEW ring, NEW key, key # NoKey,
           NEW u, u = Written(q, key), NEW f, Faulty(f, u, "misled"),
           NEW a, a.units = f, a.header = f[1], f[1].unit = "header",
           f[1].signatureAt = Len(build(q, NoKey)), f[1].signatureSize = 1
    PROVE  ~verify_signature(a, ring)
<1> DEFINE v  == build(q, key)
           S  == ById(q)
           st == Starts(S)
<1>1. /\ Lays(v, S, st) /\ Unsigned(v, key) /\ SectionList(S) /\ Signs(u, v, key)
      /\ Len(build(q, NoKey)) = Len(v)
  <2>1. /\ Lays(v, S, st) /\ Unsigned(v, key) /\ SectionList(S) /\ Signs(u, v, key)
        /\ Len(v) = LaidLength(S, st)
    BY WrittenIs DEF Sorted
  <2>2. Len(build(q, NoKey)) = LaidLength(S, st)
    BY WrittenIs
  <2>3. QED BY <2>1, <2>2
<1>2. IsHeader(u[1])
  BY WrittenHeader
<1> HIDE DEF v, S, st
<1>3. IsList(v) /\ Len(v) \in Nat /\ Len(v) >= 2 /\ v[1].unit = "header"
  <2>1. Len(S) \in Nat
    BY <1>1, ListLength DEF SectionList
  <2>2. IsList(v) /\ Len(v) \in Nat /\ Len(v) >= TableOffset + Len(S) /\ v[1].unit = "header"
    BY <1>1, ListLength DEF Lays, Headed
  <2>3. QED BY <2>1, <2>2 DEF TableOffset
<1>4. IsList(u) /\ Len(u) = Len(v) + 1 /\ u[Len(v) + 1] = Signature(key, v)
      /\ \A p \in 2..Len(v) : u[p] = v[p]
  BY <1>1 DEF Signs
<1>5. Unpatched(u[1], v[1], Len(v))
  <2>1. Near(u, u)
    BY <1>4, ListLength DEF Near, Hit
  <2>2. Len(u) >= 1 /\ Len(v) >= 1
    BY <1>3, <1>4
  <2>3. QED BY <1>1, <1>3, <2>1, <2>2, SignedHeader
<1>6. SUFFICES ASSUME verify_signature(a, ring) PROVE FALSE
  OBVIOUS
<1> DEFINE s == SignedPart(a)
<1>7. Len(v) + 1 <= Len(f) /\ f[Len(v) + 1] = Signature(a.security.key, s)
  BY <1>1, <1>6 DEF verify_signature
<1>8. PICK p \in DOMAIN u : \E w \in Misled(u[p], Len(u)) \ {u[p]} : f = [u EXCEPT ![p] = w]
  BY DEF Faulty
<1>9. PICK w \in Misled(u[p], Len(u)) \ {u[p]} : f = [u EXCEPT ![p] = w]
  BY <1>8
<1>10. DOMAIN u = 1..(Len(v) + 1) /\ p \in 1..(Len(v) + 1)
  BY <1>4, ListSeq
<1>11. f[p] = w /\ w # u[p] /\ \A i \in DOMAIN u : i # p => f[i] = u[i]
  BY <1>9
<1>12. IsList(f) /\ Len(f) = Len(u)
  <2>1. f = [i \in 1..Len(u) |-> f[i]]
    BY <1>4, <1>9, <1>10
  <2>2. Len(u) \in Nat
    BY <1>4, ListLength
  <2>3. QED BY <2>1, <2>2, ListOf
<1>13. p # Len(v) + 1
  <2> DEFINE g == Signature(key, v)
  <2>1. g.unit = "signature"
    BY DEF Signature
  <2>2. Misled(g, Len(u)) = {}
    <3> HIDE DEF g
    <3>1. QED BY <2>1 DEF Misled
  <2>3. QED BY <1>4, <1>9, <2>2
<1>14. s = v
  <2>1. Len(v) + 1 \in DOMAIN u
    BY <1>3, <1>10
  <2>2. f[Len(v) + 1] = Signature(key, v)
    BY <1>4, <1>11, <1>13, <2>1
  <2> HIDE DEF s
  <2>3. QED BY <1>7, <2>2 DEF Signature
<1>15. IsSigned(s, f, Len(v))
  <2>1. 1 <= Len(v) /\ Len(v) <= Len(f)
    BY <1>3, <1>4, <1>12
  <2>2. a.header.signatureAt = Len(v)
    BY <1>1
  <2> HIDE DEF s
  <2>3. IsSigned(SignedPart(a), f, Len(v))
    BY <1>3, <1>12, <2>1, <2>2, SignedPartIs
  <2>4. QED BY <2>3 DEF s
<1> HIDE DEF s
<1>16. CASE p = 1
  <2>1. IsHeader(f[1])
    BY <1>2, <1>9, <1>11, <1>16, MisledHeader
  <2>2. [f[1] EXCEPT !.signatureAt = 0, !.signatureSize = 0] = v[1]
    BY <1>14, <1>15 DEF IsSigned
  <2>3. [u[1] EXCEPT !.signatureAt = 0, !.signatureSize = 0] = v[1]
        /\ u[1].signatureAt = Len(v) /\ u[1].signatureSize = 1
    BY <1>5 DEF Unpatched
  <2>4. f[1] = u[1]
    BY <1>1, <1>2, <2>1, <2>2, <2>3, HeadersSame
  <2>5. QED BY <1>11, <1>16, <2>4
<1>17. CASE p \in 2..Len(v)
  <2>1. s[p] = f[p]
    BY <1>15, <1>17 DEF IsSigned
  <2>2. QED BY <1>4, <1>11, <1>14, <1>17, <2>1
<1>18. QED BY <1>3, <1>10, <1>13, <1>16, <1>17

(***************************************************************************)
(* What a runtime registers of an archive.                                 *)
(***************************************************************************)

\* The entry at k of the archive a is the asset r, and this is its place and data.
Gives(a, k, r, place, d) ==
    LET e == a.entries[k]
        b == section_bytes(a, e)
    IN  /\ e.kind = "Asset" /\ b # <<>> /\ b[1].id = r
        /\ place.section = e.id /\ d = Taken(b, b[1].offset, b[1].size)

\* L is what the first n entries of a make of the data d and the catalog c.
Registers(L, a, n, d, c) ==
    /\ L = [data |-> L.data, catalog |-> L.catalog, failed |-> L.failed]
    /\ DOMAIN L.data = DOMAIN L.catalog /\ DOMAIN d \subseteq DOMAIN L.data
    /\ \A r \in DOMAIN L.catalog :
          \/ r \in DOMAIN c /\ L.catalog[r] = c[r] /\ L.data[r] = d[r]
          \/ \E k \in 1..n : Gives(a, k, r, L.catalog[r], L.data[r])
    /\ ~L.failed => \A k \in 1..n : a.entries[k].kind = "Asset" =>
           LET b == section_bytes(a, a.entries[k])
           IN  b # <<>> /\ b[1].id \in DOMAIN L.data

IsPut(g, f, k, v) ==
    /\ DOMAIN g = DOMAIN f \cup {k} /\ g[k] = v
    /\ \A x \in DOMAIN f : x # k => g[x] = f[x]

LEMMA PutIs ==
    ASSUME NEW f, NEW k, NEW v
    PROVE  IsPut(Put(f, k, v), f, k, v)
  BY DEF Put, IsPut

LEMMA RegistersMore ==
    ASSUME NEW a, NEW n \in Nat, NEW d, NEW c, NEW L, Registers(L, a, n, d, c),
           NEW M, M = IF L.failed \/ a.entries[n + 1].kind # "Asset" THEN L
                      ELSE RegisterSection(a, L, a.entries[n + 1])
    PROVE  Registers(M, a, n + 1, d, c)
<1> DEFINE k == n + 1
           e == a.entries[k]
           b == section_bytes(a, e)
           r == b[1].id
           v == Taken(b, b[1].offset, b[1].size)
           w == [section |-> e.id, offset |-> b[1].offset, size |-> b[1].size]
           Fine(i) == LET x == section_bytes(a, a.entries[i])
                      IN  x # <<>> /\ x[1].id \in DOMAIN M.data
           Stays(R) == \/ R \in DOMAIN c /\ M.catalog[R] = c[R] /\ M.data[R] = d[R]
                       \/ \E i \in 1..k : Gives(a, i, R, M.catalog[R], M.data[R])
<1>1. \A i \in 1..n : i \in 1..k
  OBVIOUS
<1>2. \A i \in 1..k : i \in 1..n \/ i = k
  OBVIOUS
<1>3. k \in 1..k
  OBVIOUS
<1>4. /\ L = [data |-> L.data, catalog |-> L.catalog, failed |-> L.failed]
      /\ DOMAIN L.data = DOMAIN L.catalog /\ DOMAIN d \subseteq DOMAIN L.data
      /\ \A R \in DOMAIN L.catalog :
            \/ R \in DOMAIN c /\ L.catalog[R] = c[R] /\ L.data[R] = d[R]
            \/ \E i \in 1..n : Gives(a, i, R, L.catalog[R], L.data[R])
      /\ ~L.failed => \A i \in 1..n : a.entries[i].kind = "Asset" =>
             LET x == section_bytes(a, a.entries[i])
             IN  x # <<>> /\ x[1].id \in DOMAIN L.data
  BY DEF Registers
<1> HIDE DEF k
<1>5. SUFFICES /\ M = [data |-> M.data, catalog |-> M.catalog, failed |-> M.failed]
               /\ DOMAIN M.data = DOMAIN M.catalog /\ DOMAIN d \subseteq DOMAIN M.data
               /\ \A R \in DOMAIN M.catalog : Stays(R)
               /\ ~M.failed => \A i \in 1..k : a.entries[i].kind = "Asset" => Fine(i)
  BY DEF Registers, k
<1>6. CASE M = [data |-> M.data, catalog |-> M.catalog, failed |-> M.failed]
           /\ M.data = L.data /\ M.catalog = L.catalog /\ (M.failed \/ (M.failed = L.failed /\ e.kind # "Asset"))
  <2>1. ASSUME NEW R \in DOMAIN M.catalog PROVE Stays(R)
    BY <1>1, <1>4, <1>6
  <2>2. ASSUME ~M.failed, NEW i \in 1..k, a.entries[i].kind = "Asset" PROVE Fine(i)
    <3>1. i \in 1..n
      BY <1>2, <1>6, <2>2
    <3>2. QED BY <1>4, <1>6, <2>2, <3>1
  <2> HIDE DEF Stays, Fine
  <2>3. QED BY <1>4, <1>6, <2>1, <2>2
<1>7. CASE /\ e.kind = "Asset" /\ b # <<>> /\ ~L.failed
           /\ M = [data |-> Put(L.data, r, v), catalog |-> Put(L.catalog, r, w),
                   failed |-> r \in DOMAIN L.catalog]
  <2>1. M.data = Put(L.data, r, v) /\ M.catalog = Put(L.catalog, r, w)
    BY <1>7
  <2>2. w.section = e.id
    OBVIOUS
  <2>3. Gives(a, k, r, w, v)
    BY <1>7, <2>2 DEF Gives
  <2> HIDE DEF r, v, w
  <2>4. DOMAIN M.data = DOMAIN L.data \cup {r} /\ M.data[r] = v
        /\ \A x \in DOMAIN L.data : x # r => M.data[x] = L.data[x]
    <3>1. IsPut(M.data, L.data, r, v)
      BY <2>1, PutIs
    <3>2. QED BY <3>1 DEF IsPut
  <2>5. DOMAIN M.catalog = DOMAIN L.catalog \cup {r} /\ M.catalog[r] = w
        /\ \A x \in DOMAIN L.catalog : x # r => M.catalog[x] = L.catalog[x]
    <3>1. IsPut(M.catalog, L.catalog, r, w)
      BY <2>1, PutIs
    <3>2. QED BY <3>1 DEF IsPut
  <2>6. ASSUME NEW R \in DOMAIN M.catalog PROVE Stays(R)
    <3>1. CASE R = r
      BY <1>3, <2>3, <2>4, <2>5, <3>1
    <3>2. CASE R # r
      <4>1. R \in DOMAIN L.catalog /\ M.catalog[R] = L.catalog[R] /\ M.data[R] = L.data[R]
        BY <1>4, <2>4, <2>5, <3>2
      <4>2. QED BY <1>1, <1>4, <4>1
    <3>3. QED BY <3>1, <3>2
  <2>7. ASSUME NEW i \in 1..k, a.entries[i].kind = "Asset" PROVE Fine(i)
    <3>1. CASE i = k
      BY <1>7, <2>4, <3>1 DEF r
    <3>2. CASE i # k
      <4>1. i \in 1..n
        BY <1>2, <3>2
      <4>2. QED BY <1>4, <1>7, <2>4, <2>7, <4>1
    <3>3. QED BY <3>1, <3>2
  <2> HIDE DEF Stays, Fine
  <2>8. M = [data |-> M.data, catalog |-> M.catalog, failed |-> M.failed]
    BY <1>7
  <2>9. QED BY <1>4, <2>4, <2>5, <2>6, <2>7, <2>8
<1>8. CASE L.failed \/ e.kind # "Asset"
  <2>1. M = L
    BY <1>8 DEF k
  <2>2. QED BY <1>4, <1>6, <1>8, <2>1
<1>9. CASE ~L.failed /\ e.kind = "Asset"
  <2>1. M = RegisterSection(a, L, e)
    BY <1>9 DEF k
  <2>2. CASE b = <<>> \/ b[1].unit # "resource" \/ b[1].offset + b[1].size > Len(b)
    <3>1. M = [L EXCEPT !.failed = TRUE]
      BY <2>1, <2>2 DEF RegisterSection
    <3>2. M = [data |-> L.data, catalog |-> L.catalog, failed |-> TRUE]
      BY <1>4, <3>1
    <3>3. M = [data |-> M.data, catalog |-> M.catalog, failed |-> M.failed]
          /\ M.data = L.data /\ M.catalog = L.catalog /\ M.failed
      BY <3>2
    <3>4. QED BY <1>6, <3>3
  <2>3. CASE ~(b = <<>> \/ b[1].unit # "resource" \/ b[1].offset + b[1].size > Len(b))
    <3>1. M = [data |-> Put(L.data, r, v), catalog |-> Put(L.catalog, r, w),
               failed |-> r \in DOMAIN L.catalog]
      BY <2>1, <2>3 DEF RegisterSection
    <3>2. QED BY <1>7, <1>9, <2>3, <3>1
  <2>4. QED BY <2>2, <2>3
<1>10. QED BY <1>8, <1>9

LEMMA RegisteredIs ==
    ASSUME NEW a, IsList(a.entries), DOMAIN data = DOMAIN catalog
    PROVE  Registers(Registered(a), a, Len(a.entries), data, catalog)
<1> DEFINE n     == Len(a.entries)
           start == [data |-> data, catalog |-> catalog, failed |-> FALSE]
           Step(k, L) == IF L.failed \/ a.entries[k].kind # "Asset" THEN L
                         ELSE RegisterSection(a, L, a.entries[k])
           Runs(f, m) == f = [k \in 0..m |-> IF k = 0 THEN start ELSE Step(k, f[k - 1])]
           g     == CHOOSE f : Runs(f, n)
<1>1. n \in Nat
  BY ListLength
<1> HIDE DEF n
<1>2. \E f : Runs(f, n)
  <2> DEFINE S == {m \in 0..n : \E f : Runs(f, m)}
  <2> HIDE DEF Step, start
  <2>1. 0 \in S
    <3>1. Runs([k \in 0..0 |-> start], 0)
      OBVIOUS
    <3> HIDE DEF Runs
    <3>2. QED BY <1>1, <3>1
  <2>2. ASSUME NEW m \in 0..n, m \in S, m < n PROVE m + 1 \in S
    <3>1. PICK f : Runs(f, m)
      BY <2>2
    <3> DEFINE h == [k \in 0..m + 1 |-> IF k \in 0..m THEN f[k] ELSE Step(k, f[k - 1])]
    <3>2. ASSUME NEW k \in 0..m + 1
          PROVE  h[k] = IF k = 0 THEN start ELSE Step(k, h[k - 1])
      <4>1. CASE k = 0
        BY <1>1, <3>1, <4>1
      <4>2. CASE k # 0
        <5>1. k - 1 \in 0..m /\ k - 1 \in 0..m + 1
          BY <1>1, <4>2
        <5>2. h[k - 1] = f[k - 1]
          BY <5>1
        <5>3. h[k] = Step(k, f[k - 1])
          BY <3>1, <4>2
        <5>4. QED BY <4>2, <5>2, <5>3
      <4>3. QED BY <4>1, <4>2
    <3>3. Runs(h, m + 1)
      <4>1. h = [k \in 0..m + 1 |-> IF k = 0 THEN start ELSE Step(k, h[k - 1])]
        BY <3>2
      <4> HIDE DEF h
      <4>2. QED BY <4>1
    <3> HIDE DEF h, Runs
    <3>4. QED BY <1>1, <2>2, <3>3
  <2>3. n \in S
    <3> HIDE DEF S
    <3>1. 0..n \subseteq S
      BY <1>1, <2>1, <2>2, Inductive
    <3>2. QED BY <1>1, <3>1
  <2> HIDE DEF Runs
  <2>4. QED BY <2>3
<1>3. Runs(g, n)
  <2> HIDE DEF Runs
  <2>1. QED BY <1>2
<1>4. Registered(a) = g[n]
  BY DEF Registered, n
<1> HIDE DEF g
<1> DEFINE G == {k \in 0..n : Registers(g[k], a, k, data, catalog)}
<1>5. 0 \in G
  <2>1. g[0] = start
    BY <1>1, <1>3
  <2>2. Registers(start, a, 0, data, catalog)
    BY DEF Registers
  <2> HIDE DEF start
  <2>3. QED BY <1>1, <2>1, <2>2
<1>6. ASSUME NEW k \in 0..n, k \in G, k < n PROVE k + 1 \in G
  <2> HIDE DEF start, Step
  <2>1. k \in Nat /\ k + 1 \in 0..n /\ k + 1 # 0 /\ (k + 1) - 1 = k
    BY <1>1, <1>6
  <2>2. g[k + 1] = Step(k + 1, g[k])
    BY <1>3, <2>1
  <2>3. Registers(g[k], a, k, data, catalog)
    BY <1>6
  <2>4. Registers(g[k + 1], a, k + 1, data, catalog)
    BY <2>1, <2>2, <2>3, RegistersMore DEF Step
  <2>5. QED BY <2>1, <2>4
<1>7. n \in G
  <2> HIDE DEF G
  <2>1. 0..n \subseteq G
    BY <1>1, <1>5, <1>6, Inductive
  <2>2. QED BY <1>1, <2>1
<1>8. QED BY <1>4, <1>7 DEF n

(***************************************************************************)
(* Reading one thing after the other.                                      *)
(***************************************************************************)

NextRead(reads, before) ==
    LET one == ReadAt(reads, before.next)
    IN  IF one.next = 0 THEN Failed
        ELSE [value |-> Append(before.value, one.value), next |-> one.next]

AllReads(all, reads, at, n) ==
    all = [k \in 0..n |-> IF k = 0 THEN [value |-> <<>>, next |-> at]
                          ELSE NextRead(reads, all[k - 1])]

LEMMA ReadAllIs ==
    ASSUME NEW reads, NEW at, NEW n \in Nat
    PROVE  \E all : AllReads(all, reads, at, n) /\ ReadAll(reads, at, n) = all[n]
<1> DEFINE start == [value |-> <<>>, next |-> at]
           g     == CHOOSE f : AllReads(f, reads, at, n)
<1>1. \E f : AllReads(f, reads, at, n)
  <2> DEFINE S == {m \in 0..n : \E f : AllReads(f, reads, at, m)}
  <2> HIDE DEF start
  <2>1. 0 \in S
    <3>1. AllReads([k \in 0..0 |-> start], reads, at, 0)
      BY DEF AllReads, start
    <3>2. QED BY <3>1
  <2>2. ASSUME NEW m \in 0..n, m \in S, m < n PROVE m + 1 \in S
    <3>1. PICK f : AllReads(f, reads, at, m)
      BY <2>2
    <3> DEFINE h == [k \in 0..m + 1 |-> IF k \in 0..m THEN f[k] ELSE NextRead(reads, f[k - 1])]
    <3>2. ASSUME NEW k \in 0..m + 1
          PROVE  h[k] = IF k = 0 THEN start ELSE NextRead(reads, h[k - 1])
      <4>1. CASE k = 0
        BY <3>1, <4>1 DEF AllReads, start
      <4>2. CASE k # 0
        <5>1. k - 1 \in 0..m /\ k - 1 \in 0..m + 1
          BY <4>2
        <5>2. h[k - 1] = f[k - 1]
          BY <5>1
        <5>3. h[k] = NextRead(reads, f[k - 1])
          BY <3>1, <4>2 DEF AllReads
        <5>4. QED BY <4>2, <5>2, <5>3
      <4>3. QED BY <4>1, <4>2
    <3>3. AllReads(h, reads, at, m + 1)
      <4>1. h = [k \in 0..m + 1 |-> IF k = 0 THEN start ELSE NextRead(reads, h[k - 1])]
        BY <3>2
      <4> HIDE DEF h
      <4>2. QED BY <4>1 DEF AllReads, start
    <3> HIDE DEF h
    <3>4. QED BY <2>2, <3>3
  <2>3. n \in S
    <3> HIDE DEF S
    <3>1. 0..n \subseteq S
      BY <2>1, <2>2, Inductive
    <3>2. QED BY <3>1
  <2>4. QED BY <2>3
<1>2. AllReads(g, reads, at, n)
  BY <1>1
<1>3. ReadAll(reads, at, n) = g[n]
  BY DEF ReadAll, AllReads, NextRead
<1> HIDE DEF g
<1>4. QED BY <1>2, <1>3

\* Where nothing can be read any more, nothing is.
LEMMA ReadAllFails ==
    ASSUME NEW reads, 0 \notin DOMAIN reads, NEW n \in Nat
    PROVE  ReadAll(reads, 0, n).next = 0
<1>1. PICK all : AllReads(all, reads, 0, n) /\ ReadAll(reads, 0, n) = all[n]
  BY ReadAllIs
<1>2. CASE n = 0
  BY <1>1, <1>2 DEF AllReads
<1>3. CASE n # 0
  <2> DEFINE S == {k \in 0..n : all[k].next = 0}
  <2>1. 0 \in S
    BY <1>1 DEF AllReads
  <2>2. ASSUME NEW k \in 0..n, k \in S, k < n PROVE k + 1 \in S
    <3>1. k + 1 \in 0..n /\ k + 1 # 0 /\ (k + 1) - 1 = k
      BY <2>2
    <3>2. all[k + 1] = NextRead(reads, all[k])
      BY <1>1, <3>1 DEF AllReads
    <3>3. ReadAt(reads, 0) = Failed /\ all[k].next = 0
      BY <2>2 DEF ReadAt
    <3>4. all[k + 1] = Failed
      BY <3>2, <3>3 DEF NextRead, Failed
    <3>5. QED BY <3>1, <3>4 DEF Failed
  <2>3. n \in S
    <3> HIDE DEF S
    <3>1. 0..n \subseteq S
      BY <2>1, <2>2, Inductive
    <3>2. QED BY <3>1
  <2>4. QED BY <1>1, <2>3
<1>4. QED BY <1>2, <1>3

\* A read of x that ends before the position `next`, among the first l units.
Reading(read, x, next, l) ==
    read = IF next - 1 <= l THEN [value |-> x, next |-> next] ELSE Failed

\* Reads of the values vals, the k-th between pos[k - 1] and pos[k].
LEMMA ReadAllWorks ==
    ASSUME NEW reads, 0 \notin DOMAIN reads, NEW l \in Nat,
           NEW vals, IsList(vals), NEW at \in Nat, at >= 1, at - 1 <= l,
           NEW pos, pos \in [0..Len(vals) -> Nat], pos[0] = at,
           \A k \in 1..Len(vals) :
              /\ pos[k - 1] <= pos[k]
              /\ pos[k - 1] - 1 <= l => Reading(ReadAt(reads, pos[k - 1]), vals[k], pos[k], l)
    PROVE  Reading(ReadAll(reads, at, Len(vals)), vals, pos[Len(vals)], l)
<1> DEFINE n         == Len(vals)
           Prefix(k) == [i \in 1..k |-> vals[i]]
<1>1. n \in Nat
  BY ListLength
<1>2. PICK all : AllReads(all, reads, at, n) /\ ReadAll(reads, at, n) = all[n]
  <2> HIDE DEF n
  <2>1. QED BY ONLY <1>1, ReadAllIs
<1> DEFINE S == {k \in 0..n : pos[k] >= 1 /\ Reading(all[k], Prefix(k), pos[k], l)}
<1>3. 0 \in S
  <2>1. all[0] = [value |-> <<>>, next |-> at]
    BY <1>1, <1>2 DEF AllReads
  <2>2. Prefix(0) = <<>>
    OBVIOUS
  <2>3. QED BY <1>1, <2>1, <2>2 DEF Reading
<1>4. ASSUME NEW k \in 0..n, k \in S, k < n PROVE k + 1 \in S
  <2>1. k + 1 \in 0..n /\ k + 1 # 0 /\ (k + 1) - 1 = k /\ k + 1 \in 1..n /\ k \in Nat
    BY <1>1, <1>4
  <2> DEFINE p == pos[k]
             t == pos[k + 1]
  <2>2. p \in Nat /\ t \in Nat /\ p >= 1 /\ p <= t /\ Reading(all[k], Prefix(k), p, l)
        /\ (p - 1 <= l => Reading(ReadAt(reads, p), vals[k + 1], t, l))
    BY <1>4, <2>1
  <2>3. all[k + 1] = NextRead(reads, all[k])
    BY <1>2, <2>1 DEF AllReads
  <2> HIDE DEF p, t
  <2>4. CASE ~(p - 1 <= l)
    <3>1. all[k] = Failed /\ ReadAt(reads, 0) = Failed
      BY <2>2, <2>4 DEF Reading, ReadAt
    <3>2. all[k + 1] = Failed
      BY <2>3, <3>1 DEF NextRead, Failed
    <3>3. ~(t - 1 <= l)
      BY <2>2, <2>4
    <3>4. t >= 1 /\ Reading(all[k + 1], Prefix(k + 1), t, l)
      BY <2>2, <3>2, <3>3 DEF Reading
    <3>5. QED BY <2>1, <3>4 DEF t
  <2>5. CASE p - 1 <= l /\ ~(t - 1 <= l)
    <3>1. all[k].next = p
      BY <2>2, <2>5 DEF Reading
    <3>2. ReadAt(reads, p) = Failed
      BY <2>2, <2>5 DEF Reading
    <3>3. all[k + 1] = Failed
      BY <2>3, <3>1, <3>2 DEF NextRead, Failed
    <3>4. t >= 1 /\ Reading(all[k + 1], Prefix(k + 1), t, l)
      BY <2>2, <2>5, <3>3 DEF Reading
    <3>5. QED BY <2>1, <3>4 DEF t
  <2>6. CASE p - 1 <= l /\ t - 1 <= l
    <3>1. all[k] = [value |-> Prefix(k), next |-> p]
      BY <2>2, <2>6 DEF Reading
    <3>2. ReadAt(reads, p) = [value |-> vals[k + 1], next |-> t]
      BY <2>2, <2>6 DEF Reading
    <3>3. t # 0 /\ t >= 1
      BY <2>2
    <3>4. all[k].next = p /\ all[k].value = Prefix(k)
      BY <3>1
    <3>5. all[k + 1] = [value |-> Append(Prefix(k), vals[k + 1]), next |-> t]
      <4>1. ReadAt(reads, all[k].next) = [value |-> vals[k + 1], next |-> t]
        BY <3>2, <3>4
      <4>2. QED BY <2>3, <3>3, <3>4, <4>1 DEF NextRead
    <3>6. Append(Prefix(k), vals[k + 1]) = Prefix(k + 1)
      <4>1. IsList(Prefix(k)) /\ Len(Prefix(k)) = k
        <5>1. Prefix(k) = [i \in 1..k |-> Prefix(k)[i]]
          OBVIOUS
        <5> HIDE DEF Prefix
        <5>2. QED BY <2>1, <5>1, ListOf
      <4>2. IsList(Prefix(k + 1)) /\ Len(Prefix(k + 1)) = k + 1
        <5>1. Prefix(k + 1) = [i \in 1..k + 1 |-> Prefix(k + 1)[i]]
          OBVIOUS
        <5> HIDE DEF Prefix
        <5>2. QED BY <2>1, <5>1, ListOf
      <4> DEFINE q == Append(Prefix(k), vals[k + 1])
                 x == vals[k + 1]
      <4>3. Joined(q, Prefix(k), <<x>>) /\ Len(<<x>>) = 1 /\ <<x>>[1] = x
        <5> HIDE DEF Prefix, x
        <5>1. QED BY <4>1, ListAppend, ListOne DEF x
      <4> HIDE DEF q
      <4>4. IsList(q) /\ Len(q) = k + 1 /\ q[k + 1] = vals[k + 1] /\ \A i \in 1..k : q[i] = Prefix(k)[i]
        BY <2>1, <4>1, <4>3 DEF Joined
      <4>5. ASSUME NEW i \in 1..k + 1 PROVE q[i] = Prefix(k + 1)[i]
        <5>1. CASE i = k + 1
          BY <4>4, <5>1
        <5>2. CASE i # k + 1
          <6>1. i \in 1..k
            BY <2>1, <5>2
          <6>2. QED BY <4>4, <6>1
        <5>3. QED BY <5>1, <5>2
      <4> HIDE DEF Prefix
      <4>6. QED BY <2>1, <4>2, <4>4, <4>5, ListSame DEF q
    <3>7. Reading(all[k + 1], Prefix(k + 1), t, l)
      BY <2>6, <3>5, <3>6 DEF Reading
    <3>8. QED BY <2>1, <3>3, <3>7 DEF t
  <2>7. QED BY <2>4, <2>5, <2>6
<1>5. n \in S
  <2> HIDE DEF S, n
  <2>1. 0..n \subseteq S
    BY <1>1, <1>3, <1>4, Inductive
  <2>2. QED BY <1>1, <2>1
<1>6. Prefix(n) = vals
  BY DEF IsList
<1>7. QED BY <1>2, <1>5, <1>6

(***************************************************************************)
(* Reading what was written, as far as the units go.                       *)
(***************************************************************************)

LEMMA UsingIs ==
    ASSUME NEW read, NEW x, NEW next \in Nat, next >= 1, NEW l, Reading(read, x, next, l),
           NEW y, NEW z, next - 1 <= l => y = z
    PROVE  Reading(Using(read, y), z, next, l)
<1>1. CASE next - 1 <= l
  <2>1. read = [value |-> x, next |-> next]
    BY <1>1 DEF Reading
  <2>2. Using(read, y) = [value |-> z, next |-> next]
    BY <1>1, <2>1 DEF Using
  <2>3. QED BY <1>1, <2>2 DEF Reading
<1>2. CASE ~(next - 1 <= l)
  BY <1>2 DEF Reading, Using, Failed
<1>3. QED BY <1>1, <1>2

LEMMA ReadUnitsIs ==
    ASSUME NEW r, Len(r) \in Nat, NEW at \in Nat, at >= 1, NEW q, Slot(r, at - 1, q)
    PROVE  Reading(ReadUnits(r, at, Len(q)), q, at + Len(q), Len(r))
<1> DEFINE n == Len(q)
<1>1. n \in Nat
  BY ListLength DEF Slot
<1>2. CASE at + n - 1 <= Len(r)
  <2>1. Taken(r, at - 1, n) = q
    <3>1. (at - 1) + n <= Len(r)
      BY <1>1, <1>2
    <3>2. QED BY <3>1, SlotTaken
  <2>2. (at - 1) + 1 = at /\ (at - 1) + n = at + n - 1
    BY <1>1
  <2>3. SubSeq(r, at, at + n - 1) = q
    BY <2>1, <2>2 DEF Taken
  <2> HIDE DEF n
  <2>4. ReadUnits(r, at, n) = [value |-> q, next |-> at + n]
    <3>1. ~(at = 0 \/ at + n - 1 > Len(r))
      BY <1>1, <1>2
    <3>2. ReadUnits(r, at, n) = [value |-> SubSeq(r, at, at + n - 1), next |-> at + n]
      BY <3>1 DEF ReadUnits
    <3>3. QED BY <2>3, <3>2
  <2>5. QED BY <1>2, <2>4 DEF Reading, n
<1>3. CASE ~(at + n - 1 <= Len(r))
  <2> HIDE DEF n
  <2>1. ReadUnits(r, at, n) = Failed
    BY <1>1, <1>3 DEF ReadUnits
  <2>2. QED BY <1>1, <1>3, <2>1 DEF Reading, n
<1>4. QED BY <1>2, <1>3

LEMMA BlobIs ==
    ASSUME NEW q, IsList(q)
    PROVE  IsList(Blob(q)) /\ Len(Blob(q)) = 1 + Len(q)
<1> DEFINE x == [unit |-> "blob", size |-> Len(q)]
<1>1. IsList(<<x>>) /\ Len(<<x>>) = 1
  BY ListOne
<1>2. Joined(<<x>> \o q, <<x>>, q)
  BY <1>1, ListConcat
<1>3. Blob(q) = <<x>> \o q
  BY DEF Blob
<1> HIDE DEF x
<1>4. QED BY <1>1, <1>2, <1>3 DEF Joined

LEMMA ReadBlobIs ==
    ASSUME NEW r, Len(r) \in Nat, NEW at \in Nat, at >= 1, NEW q, IsList(q),
           Slot(r, at - 1, Blob(q))
    PROVE  Reading(ReadBlob(r, at), q, at + 1 + Len(q), Len(r))
<1> DEFINE x    == [unit |-> "blob", size |-> Len(q)]
           one  == ReadUnits(r, at, 1)
<1>1. IsList(<<x>>) /\ Len(<<x>>) = 1 /\ <<x>>[1] = x /\ x.size = Len(q)
  BY ListOne
<1>2. Len(q) \in Nat
  BY ListLength
<1>3. Slot(r, at - 1, <<x>>) /\ Slot(r, at, q)
  <2>1. Slot(r, at - 1, <<x>> \o q)
    BY DEF Blob
  <2> HIDE DEF x
  <2>2. Slot(r, at - 1, <<x>>) /\ Slot(r, (at - 1) + Len(<<x>>), q)
    BY <1>1, <2>1, SlotSplit
  <2>3. (at - 1) + 1 = at
    OBVIOUS
  <2>4. QED BY <1>1, <2>2, <2>3
<1> HIDE DEF x
<1>4. Reading(one, <<x>>, at + 1, Len(r))
  <2>1. Reading(ReadUnits(r, at, Len(<<x>>)), <<x>>, at + Len(<<x>>), Len(r))
    BY <1>3, ReadUnitsIs
  <2>2. QED BY <1>1, <2>1
<1>5. ReadBlob(r, at) = ReadUnits(r, one.next, IF one.next = 0 THEN 0 ELSE one.value[1].size)
  BY DEF ReadBlob
<1> HIDE DEF one
<1>6. CASE at <= Len(r)
  <2>1. one = [value |-> <<x>>, next |-> at + 1]
    BY <1>4, <1>6 DEF Reading
  <2>2. one.next = at + 1 /\ one.value[1] = x
    BY <1>1, <2>1
  <2>3. ReadBlob(r, at) = ReadUnits(r, at + 1, Len(q))
    BY <1>1, <1>5, <2>2
  <2>4. Reading(ReadUnits(r, at + 1, Len(q)), q, at + 1 + Len(q), Len(r))
    <3>1. (at + 1) - 1 = at /\ at + 1 \in Nat /\ at + 1 >= 1
      OBVIOUS
    <3>2. Slot(r, (at + 1) - 1, q)
      BY <1>3, <3>1
    <3>3. QED BY <3>1, <3>2, ReadUnitsIs
  <2>5. QED BY <2>3, <2>4
<1>7. CASE ~(at <= Len(r))
  <2>1. one = Failed
    BY <1>4, <1>7 DEF Reading
  <2>2. ReadBlob(r, at) = Failed
    BY <1>5, <2>1 DEF Failed, ReadUnits
  <2>3. ~((at + 1 + Len(q)) - 1 <= Len(r))
    BY <1>2, <1>7
  <2>4. QED BY <2>2, <2>3 DEF Reading
<1>8. QED BY <1>6, <1>7

LEMMA ReadBlobFails ==
    ASSUME NEW r
    PROVE  ReadBlob(r, 0) = Failed /\ ReadUnits(r, 0, 1) = Failed
<1>1. \A n : ReadUnits(r, 0, n) = Failed
  BY DEF ReadUnits
<1>2. Failed.next = 0
  BY DEF Failed
<1>3. QED BY <1>1, <1>2 DEF ReadBlob

LEMMA EncodedFunctionIs ==
    ASSUME NEW id, NEW f, IsList(f.code)
    PROVE  IsList(EncodedFunction(id, f)) /\ Len(EncodedFunction(id, f)) = 1 + Len(f.code)
<1> DEFINE x == [unit |-> "function", id |-> id, args |-> f.args, locals |-> f.locals,
                 stack |-> f.stack, size |-> Len(f.code)]
           q == f.code
<1>1. EncodedFunction(id, f) = <<x>> \o q
  BY DEF EncodedFunction
<1>2. IsList(<<x>>) /\ Len(<<x>>) = 1 /\ IsList(q)
  BY ListOne
<1> HIDE DEF x, q
<1>3. Joined(<<x>> \o q, <<x>>, q)
  BY <1>2, ListConcat
<1>4. QED BY <1>1, <1>2, <1>3 DEF Joined, q

LEMMA ReadFunctionIs ==
    ASSUME NEW r, Len(r) \in Nat, NEW at \in 1..Len(r), NEW id, NEW f, IsList(f.code),
           f = [args |-> f.args, locals |-> f.locals, stack |-> f.stack, code |-> f.code],
           Slot(r, at - 1, EncodedFunction(id, f))
    PROVE  Reading(ReadFunction(r, at), [id |-> id, function |-> f], at + 1 + Len(f.code), Len(r))
<1> DEFINE x == [unit |-> "function", id |-> id, args |-> f.args, locals |-> f.locals,
                 stack |-> f.stack, size |-> Len(f.code)]
           q == f.code
           u == r[at]
           code == ReadUnits(r, at + 1, u.size)
           y == [id |-> u.id, function |-> [args |-> u.args, locals |-> u.locals,
                                            stack |-> u.stack, code |-> code.value]]
           z == [id |-> id, function |-> f]
<1>1. /\ x.unit = "function" /\ x.id = id /\ x.args = f.args /\ x.locals = f.locals
      /\ x.stack = f.stack /\ x.size = Len(q)
  OBVIOUS
<1>2. IsList(<<x>>) /\ Len(<<x>>) = 1 /\ IsList(q) /\ Len(q) \in Nat
  BY ListOne, ListLength
<1>3. Slot(r, at - 1, <<x>> \o q)
  BY DEF EncodedFunction
<1> HIDE DEF x, q
<1>4. Slot(r, at - 1, <<x>>) /\ Slot(r, at, q)
  <2>1. Slot(r, at - 1, <<x>>) /\ Slot(r, (at - 1) + Len(<<x>>), q)
    BY <1>2, <1>3, SlotSplit
  <2>2. (at - 1) + 1 = at
    OBVIOUS
  <2>3. QED BY <1>2, <2>1, <2>2
<1>5. u = x
  <2>1. (at - 1) + 1 <= Len(r) /\ (at - 1) + 1 = at
    OBVIOUS
  <2>2. QED BY <1>4, <2>1, SlotOne
<1>6. ReadFunction(r, at) = Using(code, y)
  BY <1>1, <1>5 DEF ReadFunction
<1>7. Reading(code, q, at + 1 + Len(q), Len(r))
  <2>1. (at + 1) - 1 = at /\ at + 1 \in Nat /\ at + 1 >= 1
    OBVIOUS
  <2>2. Slot(r, (at + 1) - 1, q)
    BY <1>4, <2>1
  <2>3. Reading(ReadUnits(r, at + 1, Len(q)), q, at + 1 + Len(q), Len(r))
    BY <2>1, <2>2, ReadUnitsIs
  <2>4. QED BY <1>1, <1>5, <2>3
<1> HIDE DEF u, code
<1>8. ASSUME (at + 1 + Len(q)) - 1 <= Len(r) PROVE y = z
  <2>1. code.value = q
    BY <1>7, <1>8 DEF Reading
  <2>2. QED BY <1>1, <1>5, <2>1 DEF q
<1> HIDE DEF y, z
<1>9. at + 1 + Len(q) \in Nat /\ at + 1 + Len(q) >= 1
  BY <1>2
<1>10. Reading(Using(code, y), z, at + 1 + Len(q), Len(r))
  BY <1>7, <1>8, <1>9, UsingIs
<1>11. QED BY <1>6, <1>10 DEF z, q

LEMMA EncodedAssetIs ==
    ASSUME NEW a, IsList(a.units)
    PROVE  IsList(EncodedAsset(a)) /\ Len(EncodedAsset(a)) = 2 + Len(a.units)
<1> DEFINE x == [unit |-> "asset", id |-> a.id, kind |-> a.kind, name |-> a.name]
           q == Blob(a.units)
<1>1. EncodedAsset(a) = <<x>> \o q
  BY DEF EncodedAsset
<1>2. IsList(<<x>>) /\ Len(<<x>>) = 1 /\ IsList(q) /\ Len(q) = 1 + Len(a.units)
      /\ Len(a.units) \in Nat
  BY ListOne, BlobIs, ListLength
<1> HIDE DEF x, q
<1>3. Joined(<<x>> \o q, <<x>>, q)
  BY <1>2, ListConcat
<1>4. QED BY <1>1, <1>2, <1>3 DEF Joined

LEMMA ReadAssetIs ==
    ASSUME NEW r, Len(r) \in Nat, NEW at \in 1..Len(r), NEW a, IsList(a.units),
           a = [id |-> a.id, kind |-> a.kind, name |-> a.name, units |-> a.units],
           Slot(r, at - 1, EncodedAsset(a))
    PROVE  Reading(ReadAsset(r, at), a, at + 2 + Len(a.units), Len(r))
<1> DEFINE x == [unit |-> "asset", id |-> a.id, kind |-> a.kind, name |-> a.name]
           q == a.units
           u == r[at]
           blob == ReadBlob(r, at + 1)
           y == [id |-> u.id, kind |-> u.kind, name |-> u.name, units |-> blob.value]
<1>1. x.unit = "asset" /\ x.id = a.id /\ x.kind = a.kind /\ x.name = a.name
  OBVIOUS
<1>2. IsList(<<x>>) /\ Len(<<x>>) = 1 /\ IsList(q) /\ Len(q) \in Nat /\ IsList(Blob(q))
  BY ListOne, ListLength, BlobIs
<1>3. Slot(r, at - 1, <<x>> \o Blob(q))
  BY DEF EncodedAsset
<1> HIDE DEF x, q
<1>4. Slot(r, at - 1, <<x>>) /\ Slot(r, at, Blob(q))
  <2>1. Slot(r, at - 1, <<x>>) /\ Slot(r, (at - 1) + Len(<<x>>), Blob(q))
    BY <1>2, <1>3, SlotSplit
  <2>2. (at - 1) + 1 = at
    OBVIOUS
  <2>3. QED BY <1>2, <2>1, <2>2
<1>5. u = x
  <2>1. (at - 1) + 1 <= Len(r) /\ (at - 1) + 1 = at
    OBVIOUS
  <2>2. QED BY <1>4, <2>1, SlotOne
<1>6. ReadAsset(r, at) = Using(blob, y)
  BY <1>1, <1>5 DEF ReadAsset
<1>7. Reading(blob, q, at + 2 + Len(q), Len(r))
  <2>1. (at + 1) - 1 = at /\ at + 1 \in Nat /\ at + 1 >= 1
        /\ (at + 1) + 1 + Len(q) = at + 2 + Len(q)
    BY <1>2
  <2>2. Slot(r, (at + 1) - 1, Blob(q))
    BY <1>4, <2>1
  <2>3. Reading(ReadBlob(r, at + 1), q, (at + 1) + 1 + Len(q), Len(r))
    BY <1>2, <2>1, <2>2, ReadBlobIs
  <2>4. QED BY <2>1, <2>3
<1> HIDE DEF u, blob
<1>8. ASSUME (at + 2 + Len(q)) - 1 <= Len(r) PROVE y = a
  <2>1. blob.value = q
    BY <1>7, <1>8 DEF Reading
  <2>2. QED BY <1>1, <1>5, <2>1 DEF q
<1> HIDE DEF y
<1>9. at + 2 + Len(q) \in Nat /\ at + 2 + Len(q) >= 1
  BY <1>2
<1>10. Reading(Using(blob, y), a, at + 2 + Len(q), Len(r))
  BY <1>7, <1>8, <1>9, UsingIs
<1>11. QED BY <1>6, <1>10 DEF q

(***************************************************************************)
(* The units of values.                                                    *)
(***************************************************************************)

Level(k) == {v \in ConstantValue : Nesting[v] < k}

Encodes(e, k) == e = [v \in Level(k) |-> EncodedValue(v, [w \in Parts(v) |-> e[w]])]

LEMMA NestingIs ==
    ASSUME NEW v \in ConstantValue
    PROVE  /\ Nesting[v] \in Nat
           /\ \A w \in Parts(v) : w \in ConstantValue /\ Nesting[w] \in Nat /\ Nesting[w] < Nesting[v]
  BY ConstantsAssumption

LEMMA EncodesExist ==
    ASSUME NEW n \in Nat
    PROVE  \E e : Encodes(e, n)
<1> DEFINE S == {k \in 0..n : \E e : Encodes(e, k)}
<1>1. 0 \in S
  <2>1. Level(0) = {}
    BY NestingIs DEF Level
  <2>2. Encodes([v \in {} |-> 0], 0)
    BY <2>1 DEF Encodes
  <2>3. QED BY <2>2
<1>2. ASSUME NEW k \in 0..n, k \in S, k < n PROVE k + 1 \in S
  <2>1. PICK f : Encodes(f, k)
    BY <1>2
  <2> DEFINE F(v) == [w \in Parts(v) |-> f[w]]
             h    == [v \in Level(k + 1) |-> EncodedValue(v, F(v))]
             H(v) == [w \in Parts(v) |-> h[w]]
  <2>2. ASSUME NEW v \in Level(k + 1) PROVE F(v) = H(v)
    <3>1. ASSUME NEW w \in Parts(v) PROVE f[w] = h[w]
      <4>1. w \in Level(k) /\ w \in Level(k + 1)
        BY NestingIs DEF Level
      <4>2. f[w] = EncodedValue(w, F(w))
        BY <2>1, <4>1 DEF Encodes
      <4>3. QED BY <4>1, <4>2
    <3>2. QED BY <3>1
  <2>3. h = [v \in Level(k + 1) |-> EncodedValue(v, H(v))]
    <3> HIDE DEF F
    <3>1. QED BY <2>2
  <2>4. Encodes(h, k + 1)
    <3> HIDE DEF h
    <3>1. QED BY <2>3 DEF Encodes
  <2> HIDE DEF h
  <2>5. QED BY <1>2, <2>4
<1>3. n \in S
  <2> HIDE DEF S
  <2>1. 0..n \subseteq S
    BY <1>1, <1>2, Inductive
  <2>2. QED BY <2>1
<1>4. QED BY <1>3

LEMMA EncodesAgree ==
    ASSUME NEW n \in Nat, NEW k \in Nat, NEW l \in Nat, NEW e, Encodes(e, k), NEW f, Encodes(f, l),
           NEW v \in Level(k), v \in Level(l), Nesting[v] = n
    PROVE  e[v] = f[v]
<1> DEFINE S == {m \in 0..n : \A w \in ConstantValue :
                    w \in Level(k) /\ w \in Level(l) /\ Nesting[w] <= m => e[w] = f[w]}
<1>1. ASSUME NEW m \in 0..n, NEW w \in ConstantValue, w \in Level(k), w \in Level(l), Nesting[w] <= m,
             \A x \in Parts(w) : Nesting[x] < m /\ x \in Level(k) /\ x \in Level(l) => e[x] = f[x]
      PROVE  e[w] = f[w]
  <2> DEFINE E == [x \in Parts(w) |-> e[x]]
             F == [x \in Parts(w) |-> f[x]]
  <2>1. E = F
    <3>1. ASSUME NEW x \in Parts(w) PROVE e[x] = f[x]
      <4>1. Nesting[x] \in Nat /\ Nesting[w] \in Nat /\ Nesting[x] < Nesting[w] /\ x \in ConstantValue
        BY NestingIs
      <4>2. Nesting[x] < m /\ x \in Level(k) /\ x \in Level(l)
        BY <1>1, <4>1 DEF Level
      <4>3. QED BY <1>1, <4>2
    <3>2. QED BY <3>1
  <2>2. e[w] = EncodedValue(w, E) /\ f[w] = EncodedValue(w, F)
    BY <1>1 DEF Encodes
  <2> HIDE DEF E, F
  <2>3. QED BY <2>1, <2>2
<1>2. 0 \in S
  <2>1. ASSUME NEW w \in ConstantValue, w \in Level(k), w \in Level(l), Nesting[w] <= 0
        PROVE  e[w] = f[w]
    <3>1. \A x \in Parts(w) : ~(Nesting[x] < 0)
      BY NestingIs
    <3>2. 0 \in 0..n
      OBVIOUS
    <3>3. QED BY <1>1, <2>1, <3>1, <3>2
  <2>2. QED BY <2>1
<1>3. ASSUME NEW m \in 0..n, m \in S, m < n PROVE m + 1 \in S
  <2>1. ASSUME NEW w \in ConstantValue, w \in Level(k), w \in Level(l), Nesting[w] <= m + 1
        PROVE  e[w] = f[w]
    <3>1. m + 1 \in 0..n
      BY <1>3
    <3>2. \A x \in Parts(w) : Nesting[x] < m + 1 /\ x \in Level(k) /\ x \in Level(l) => e[x] = f[x]
      <4>1. SUFFICES ASSUME NEW x \in Parts(w), Nesting[x] < m + 1, x \in Level(k), x \in Level(l)
                     PROVE  e[x] = f[x]
        OBVIOUS
      <4>2. x \in ConstantValue /\ Nesting[x] \in Nat
        BY NestingIs
      <4>3. Nesting[x] <= m
        BY <4>1, <4>2
      <4>4. QED BY <1>3, <4>1, <4>2, <4>3
    <3>3. QED BY <1>1, <2>1, <3>1, <3>2
  <2>2. m + 1 \in 0..n
    BY <1>3
  <2>3. QED BY <2>1, <2>2
<1>4. n \in S
  <2> HIDE DEF S
  <2>1. 0..n \subseteq S
    BY <1>2, <1>3, Inductive
  <2>2. QED BY <2>1
<1>5. QED BY <1>4 DEF Level

LEMMA EncodeIs ==
    ASSUME NEW v \in ConstantValue
    PROVE  encode_program_value[v]
             = EncodedValue(v, [w \in Parts(v) |-> encode_program_value[w]])
<1> DEFINE Total(e) == e = [x \in ConstantValue |-> EncodedValue(x, [w \in Parts(x) |-> e[w]])]
           E(k) == CHOOSE e : Encodes(e, k)
           g == [x \in ConstantValue |-> E(Nesting[x] + 1)[x]]
           G(x) == [w \in Parts(x) |-> g[w]]
<1>1. ASSUME NEW k \in Nat PROVE Encodes(E(k), k)
  BY EncodesExist
<1> HIDE DEF E
<1>2. ASSUME NEW x \in ConstantValue PROVE g[x] = EncodedValue(x, G(x))
  <2> DEFINE n == Nesting[x]
             F == [w \in Parts(x) |-> E(n + 1)[w]]
  <2>1. n \in Nat /\ n + 1 \in Nat /\ x \in Level(n + 1)
    BY NestingIs DEF Level
  <2>2. F = G(x)
    <3>1. ASSUME NEW w \in Parts(x) PROVE E(n + 1)[w] = g[w]
      <4>1. w \in ConstantValue /\ Nesting[w] \in Nat /\ Nesting[w] < n
        BY NestingIs
      <4>2. w \in Level(n + 1) /\ w \in Level(Nesting[w] + 1) /\ Nesting[w] + 1 \in Nat
        BY <2>1, <4>1 DEF Level
      <4>3. E(n + 1)[w] = E(Nesting[w] + 1)[w]
        <5>1. Encodes(E(n + 1), n + 1) /\ Encodes(E(Nesting[w] + 1), Nesting[w] + 1)
          BY <1>1, <2>1, <4>2
        <5> HIDE DEF n
        <5>2. QED BY <2>1, <4>1, <4>2, <5>1, EncodesAgree
      <4>4. QED BY <4>1, <4>3
    <3>2. QED BY <3>1
  <2>3. E(n + 1)[x] = EncodedValue(x, F)
    <3>1. Encodes(E(n + 1), n + 1)
      BY <1>1, <2>1
    <3>2. QED BY <2>1, <3>1 DEF Encodes
  <2>4. g[x] = E(n + 1)[x]
    OBVIOUS
  <2> HIDE DEF F, G, g
  <2>5. QED BY <2>2, <2>3, <2>4
<1>3. Total(g)
  <2>1. g = [x \in ConstantValue |-> EncodedValue(x, G(x))]
    <3>1. g = [x \in ConstantValue |-> g[x]]
      OBVIOUS
    <3> HIDE DEF g, G
    <3>2. QED BY <1>2, <3>1
  <2> HIDE DEF g
  <2>2. QED BY <2>1
<1> HIDE DEF g
<1>4. encode_program_value = CHOOSE e : Total(e)
  BY DEF encode_program_value
<1>5. Total(encode_program_value)
  <2> HIDE DEF Total
  <2>1. QED BY <1>3, <1>4
<1>6. QED BY <1>5

\* What holds for a value when it holds for what the value holds, holds for all.
LEMMA NestingInduction ==
    ASSUME NEW T, \A v \in ConstantValue : (\A w \in Parts(v) : w \in T) => v \in T
    PROVE  ConstantValue \subseteq T
<1> SUFFICES ASSUME NEW v \in ConstantValue, v \notin T PROVE FALSE
  OBVIOUS
<1> DEFINE N == {Nesting[w] : w \in {x \in ConstantValue : x \notin T}}
<1>1. N \subseteq Nat /\ N # {}
  BY NestingIs
<1>2. PICK n \in N : \A m \in N : ~(m < n)
  <2> HIDE DEF N
  <2>1. QED BY <1>1, Smallest
<1>3. PICK u \in ConstantValue : u \notin T /\ Nesting[u] = n
  BY <1>2
<1>4. PICK w \in Parts(u) : w \notin T
  BY <1>3
<1>5. w \in ConstantValue /\ Nesting[w] < n
  BY <1>3, <1>4, NestingIs
<1>6. Nesting[w] \in N
  BY <1>4, <1>5
<1>7. QED BY <1>2, <1>5, <1>6

KeysOf(v)     == Ascending(DOMAIN v.fields)
ItemUnits(v)  == [i \in DOMAIN v.items |-> encode_program_value[v.items[i]]]
FieldUnits(v) == [i \in DOMAIN KeysOf(v) |->
                     <<Key(KeysOf(v)[i])>> \o encode_program_value[v.fields[KeysOf(v)[i]]]]

LEMMA ArrayIs ==
    ASSUME NEW v \in ConstantValue, v.tag = "array"
    PROVE  /\ v = Array(v.items) /\ IsList(v.items) /\ DOMAIN v.items = 1..Len(v.items)
           /\ Len(v.items) \in Nat
           /\ \A i \in 1..Len(v.items) : v.items[i] \in Parts(v) /\ v.items[i] \in ConstantValue
           /\ encode_program_value[v]
                = <<[unit |-> "array", count |-> Len(v.items)]>> \o FlattenSeq(ItemUnits(v))
<1>1. v = Array(v.items) /\ IsList(v.items)
  BY ConstantsAssumption
<1>2. DOMAIN v.items = 1..Len(v.items) /\ Len(v.items) \in Nat
  BY <1>1, ListSeq
<1>3. ASSUME NEW i \in 1..Len(v.items) PROVE v.items[i] \in Parts(v)
  BY <1>2 DEF Parts
<1>4. \A i \in 1..Len(v.items) : v.items[i] \in ConstantValue
  BY <1>3, NestingIs
<1> DEFINE parts == [w \in Parts(v) |-> encode_program_value[w]]
<1>5. [i \in DOMAIN v.items |-> parts[v.items[i]]] = ItemUnits(v)
  BY <1>2, <1>3 DEF ItemUnits
<1> HIDE DEF parts
<1>6. EncodedValue(v, parts) = <<[unit |-> "array", count |-> Len(v.items)]>>
                                  \o FlattenSeq([i \in DOMAIN v.items |-> parts[v.items[i]]])
  BY DEF EncodedValue
<1>7. encode_program_value[v] = EncodedValue(v, parts)
  BY EncodeIs DEF parts
<1>8. QED BY <1>1, <1>2, <1>3, <1>4, <1>5, <1>6, <1>7

LEMMA TableIs ==
    ASSUME NEW v \in ConstantValue, v.tag = "table"
    PROVE  /\ v = Table([k \in DOMAIN v.fields |-> v.fields[k]])
           /\ Ascends(KeysOf(v), DOMAIN v.fields) /\ IsList(KeysOf(v)) /\ DOMAIN v.fields \subseteq Nat
           /\ DOMAIN KeysOf(v) = 1..Len(KeysOf(v)) /\ Len(KeysOf(v)) \in Nat
           /\ \A i \in 1..Len(KeysOf(v)) : /\ v.fields[KeysOf(v)[i]] \in Parts(v)
                                           /\ v.fields[KeysOf(v)[i]] \in ConstantValue
           /\ encode_program_value[v]
                = <<[unit |-> "table", count |-> Len(KeysOf(v))]>> \o FlattenSeq(FieldUnits(v))
<1> DEFINE keys == KeysOf(v)
           n    == Len(keys)
<1>1. /\ v = Table([k \in DOMAIN v.fields |-> v.fields[k]])
      /\ IsFiniteSet(DOMAIN v.fields) /\ DOMAIN v.fields \subseteq Nat
  BY ConstantsAssumption
<1>2. Ascends(keys, DOMAIN v.fields)
  BY <1>1, AscendingIs DEF KeysOf
<1> HIDE DEF keys
<1>3. IsList(keys) /\ DOMAIN keys = 1..n /\ n \in Nat /\ \A i \in 1..n : keys[i] \in DOMAIN v.fields
  BY <1>2, ListSeq DEF Ascends
<1>4. ASSUME NEW i \in 1..n PROVE v.fields[keys[i]] \in Parts(v)
  <2>1. keys[i] \in DOMAIN v.fields
    BY <1>3
  <2>2. v.tag # "array"
    OBVIOUS
  <2>3. QED BY <2>1, <2>2 DEF Parts
<1>5. \A i \in 1..n : v.fields[keys[i]] \in ConstantValue
  BY <1>4, NestingIs
<1> DEFINE parts == [w \in Parts(v) |-> encode_program_value[w]]
<1>6. [i \in DOMAIN keys |-> <<Key(keys[i])>> \o parts[v.fields[keys[i]]]] = FieldUnits(v)
  <2>1. \A i \in DOMAIN keys : parts[v.fields[keys[i]]] = encode_program_value[v.fields[keys[i]]]
    BY <1>3, <1>4
  <2>2. FieldUnits(v) = [i \in DOMAIN keys |->
                            <<Key(keys[i])>> \o encode_program_value[v.fields[keys[i]]]]
    BY DEF FieldUnits, keys
  <2> HIDE DEF parts
  <2>3. QED BY <2>1, <2>2
<1> HIDE DEF parts
<1>7. EncodedValue(v, parts) = <<[unit |-> "table", count |-> n]>>
         \o FlattenSeq([i \in DOMAIN keys |-> <<Key(keys[i])>> \o parts[v.fields[keys[i]]]])
  BY DEF EncodedValue, keys, KeysOf
<1>8. encode_program_value[v] = EncodedValue(v, parts)
  BY EncodeIs DEF parts
<1>9. encode_program_value[v] = <<[unit |-> "table", count |-> n]>> \o FlattenSeq(FieldUnits(v))
  BY <1>6, <1>7, <1>8
<1>10. QED BY <1>1, <1>2, <1>3, <1>4, <1>5, <1>9 DEF keys

LEMMA ScalarIs ==
    ASSUME NEW v \in ConstantValue, v.tag # "array", v.tag # "table"
    PROVE  encode_program_value[v] = <<Scalar(v)>>
  BY EncodeIs DEF EncodedValue

LEMMA ItemLists ==
    ASSUME NEW v \in ConstantValue, v.tag = "array",
           \A w \in Parts(v) : IsList(encode_program_value[w])
    PROVE  /\ Lists(ItemUnits(v)) /\ Len(ItemUnits(v)) = Len(v.items)
           /\ \A i \in 1..Len(v.items) : ItemUnits(v)[i] = encode_program_value[v.items[i]]
<1> DEFINE qs == ItemUnits(v)
           n  == Len(v.items)
<1>1. qs = [i \in 1..n |-> qs[i]] /\ \A i \in 1..n : qs[i] = encode_program_value[v.items[i]]
  BY ArrayIs DEF ItemUnits
<1>2. n \in Nat /\ \A i \in 1..n : IsList(encode_program_value[v.items[i]])
  BY ArrayIs
<1> HIDE DEF qs, n
<1>3. IsList(qs) /\ Len(qs) = n
  BY <1>1, <1>2, ListOf
<1>4. Lists(qs)
  BY <1>1, <1>2, <1>3 DEF Lists
<1>5. QED BY <1>1, <1>3, <1>4 DEF qs, n

LEMMA FieldLists ==
    ASSUME NEW v \in ConstantValue, v.tag = "table",
           \A w \in Parts(v) : IsList(encode_program_value[w])
    PROVE  /\ Lists(FieldUnits(v)) /\ Len(FieldUnits(v)) = Len(KeysOf(v))
           /\ \A i \in 1..Len(KeysOf(v)) :
                 FieldUnits(v)[i] = <<Key(KeysOf(v)[i])>> \o encode_program_value[v.fields[KeysOf(v)[i]]]
<1> DEFINE qs   == FieldUnits(v)
           keys == KeysOf(v)
           n    == Len(keys)
<1>1. n \in Nat /\ DOMAIN keys = 1..n /\ \A i \in 1..n : v.fields[keys[i]] \in Parts(v)
  BY TableIs
<1>2. qs = [i \in 1..n |-> <<Key(keys[i])>> \o encode_program_value[v.fields[keys[i]]]]
  BY <1>1 DEF FieldUnits
<1> HIDE DEF qs, n, keys
<1>3. ASSUME NEW i \in 1..n PROVE IsList(qs[i])
  <2> DEFINE q == <<Key(keys[i])>>
             p == encode_program_value[v.fields[keys[i]]]
  <2>1. IsList(q) /\ IsList(p)
    BY <1>1, ListOne
  <2>2. qs[i] = q \o p
    BY <1>2
  <2> HIDE DEF q, p
  <2>3. Joined(q \o p, q, p)
    BY <2>1, ListConcat
  <2>4. QED BY <2>2, <2>3 DEF Joined
<1>4. qs = [i \in 1..n |-> qs[i]]
  BY <1>2
<1>5. IsList(qs) /\ Len(qs) = n
  BY <1>1, <1>4, ListOf
<1>6. Lists(qs)
  BY <1>3, <1>5 DEF Lists
<1>7. QED BY <1>2, <1>5, <1>6 DEF qs, n, keys

\* The units of a value: one at least.
LEMMA EncodedList ==
    ASSUME NEW v \in ConstantValue
    PROVE  IsList(encode_program_value[v]) /\ Len(encode_program_value[v]) >= 1
<1> DEFINE Fine(q) == IsList(q) /\ Len(q) >= 1
           T       == {w \in ConstantValue : Fine(encode_program_value[w])}
<1>1. ASSUME NEW qs, Lists(qs), NEW x PROVE Fine(<<x>> \o FlattenSeq(qs))
  <2> DEFINE q == <<x>>
             p == FlattenSeq(qs)
  <2>1. IsList(p) /\ IsList(q) /\ Len(q) = 1
    BY <1>1, FlattenIs, ListOne DEF Strings
  <2> HIDE DEF p, q
  <2>2. Joined(q \o p, q, p) /\ Len(p) \in Nat
    BY <2>1, ListConcat, ListLength
  <2>3. QED BY <2>1, <2>2 DEF Joined, p, q
<1>2. ASSUME NEW w \in ConstantValue, \A x \in Parts(w) : x \in T PROVE w \in T
  <2> DEFINE p == encode_program_value[w]
  <2>1. \A x \in Parts(w) : IsList(encode_program_value[x])
    BY <1>2
  <2>2. SUFFICES Fine(p)
    OBVIOUS
  <2>3. CASE w.tag = "array"
    <3>1. Lists(ItemUnits(w))
      BY <2>3, <2>1, ItemLists
    <3>2. p = <<[unit |-> "array", count |-> Len(w.items)]>> \o FlattenSeq(ItemUnits(w))
      BY <2>3, ArrayIs
    <3> HIDE DEF Fine, p
    <3>3. QED BY <1>1, <3>1, <3>2
  <2>4. CASE w.tag = "table"
    <3>1. Lists(FieldUnits(w))
      BY <2>4, <2>1, FieldLists
    <3>2. p = <<[unit |-> "table", count |-> Len(KeysOf(w))]>> \o FlattenSeq(FieldUnits(w))
      BY <2>4, TableIs
    <3> HIDE DEF Fine, p
    <3>3. QED BY <1>1, <3>1, <3>2
  <2>5. CASE w.tag # "array" /\ w.tag # "table"
    <3>1. Fine(<<Scalar(w)>>)
      BY ListOne
    <3>2. encode_program_value[w] = <<Scalar(w)>>
      BY <2>5, ScalarIs
    <3>3. QED BY <3>1, <3>2
  <2>6. QED BY <2>3, <2>4, <2>5
<1>3. v \in T
  <2> HIDE DEF T
  <2>1. QED BY <1>2, NestingInduction
<1>4. QED BY <1>3

\* The value that begins at a position is what ValueAt makes of those behind it.
LEMMA DecodeIs ==
    ASSUME NEW units, Len(units) \in Nat
    PROVE  LET d == decode_program_value(units)
           IN  /\ DOMAIN d = 1..Len(units)
               /\ \A at \in 1..Len(units) :
                     d[at] = ValueAt(units, at, [p \in at + 1..Len(units) |-> d[p]])
<1> DEFINE n == Len(units)
           Decodes(f, k) == f = [at \in n - k + 1..n |->
                                    ValueAt(units, at, [p \in at + 1..n |-> f[p]])]
           All(f) == f = [at \in 1..n |-> ValueAt(units, at, [p \in at + 1..n |-> f[p]])]
           S == {k \in 0..n : \E f : Decodes(f, k)}
<1>1. n \in Nat
  OBVIOUS
<1>2. decode_program_value(units) = CHOOSE f : All(f)
  BY DEF decode_program_value
<1> HIDE DEF n
<1>3. 0 \in S
  <2>1. n - 0 + 1..n = {}
    BY <1>1
  <2>2. Decodes([at \in {} |-> 0], 0)
    BY <2>1
  <2> HIDE DEF Decodes
  <2>3. QED BY <1>1, <2>2
<1>4. ASSUME NEW k \in 0..n, k \in S, k < n PROVE k + 1 \in S
  <2>1. PICK f : Decodes(f, k)
    BY <1>4
  <2> DEFINE m     == n - k
             F(at) == [p \in at + 1..n |-> f[p]]
             h     == [at \in m..n |-> ValueAt(units, at, F(at))]
             H(at) == [p \in at + 1..n |-> h[p]]
  <2>2. m \in Nat /\ n - (k + 1) + 1 = m /\ n - k + 1 = m + 1
    BY <1>1, <1>4
  <2>3. ASSUME NEW at \in m..n PROVE F(at) = H(at)
    <3>1. ASSUME NEW p \in at + 1..n PROVE f[p] = h[p]
      <4>1. p \in m + 1..n /\ p \in m..n
        BY <1>1, <2>2
      <4>2. f[p] = ValueAt(units, p, F(p))
        <5>1. f = [x \in m + 1..n |-> ValueAt(units, x, F(x))]
          BY <2>1, <2>2
        <5> HIDE DEF F, m
        <5>2. QED BY <4>1, <5>1
      <4>3. QED BY <4>1, <4>2
    <3>2. QED BY <3>1
  <2>4. h = [at \in m..n |-> ValueAt(units, at, H(at))]
    <3> HIDE DEF F
    <3>1. QED BY <2>3
  <2>5. Decodes(h, k + 1)
    <3> HIDE DEF h
    <3>1. QED BY <2>2, <2>4
  <2>6. k + 1 \in 0..n
    BY <1>1, <1>4
  <2> HIDE DEF h, Decodes
  <2>7. QED BY <2>5, <2>6
<1>5. \E f : All(f)
  <2>1. n \in S
    <3> HIDE DEF S
    <3>1. 0..n \subseteq S
      BY <1>1, <1>3, <1>4, Inductive
    <3>2. QED BY <1>1, <3>1
  <2>2. PICK f : Decodes(f, n)
    BY <2>1
  <2>3. n - n + 1 = 1
    BY <1>1
  <2>4. All(f)
    BY <2>2, <2>3
  <2> HIDE DEF All
  <2>5. QED BY <2>4
<1>6. All(decode_program_value(units))
  <2> HIDE DEF All
  <2>1. QED BY <1>2, <1>5
<1> DEFINE d == decode_program_value(units)
<1> HIDE DEF d
<1>7. All(d)
  BY <1>6 DEF d
<1>8. DOMAIN d = 1..n /\ \A at \in 1..n : d[at] = ValueAt(units, at, [p \in at + 1..n |-> d[p]])
  BY <1>7
<1>9. QED BY <1>8 DEF d, n

\* A unit and the list behind it.
LEMMA HeadSlot ==
    ASSUME NEW r, IsList(r), NEW at \in Nat, at >= 1, NEW x, NEW q, IsList(q),
           Slot(r, at - 1, <<x>> \o q)
    PROVE  /\ at <= Len(r) => r[at] = x
           /\ Slot(r, at, q) /\ Slot(r, (at + 1) - 1, q)
           /\ IsList(<<x>> \o q) /\ Len(<<x>> \o q) = 1 + Len(q)
<1> DEFINE p == <<x>>
           w == p \o q
<1>1. IsList(p) /\ Len(p) = 1 /\ p[1] = x
  BY ListOne
<1> HIDE DEF p
<1>2. Joined(w, p, q)
  BY <1>1, ListConcat
<1>3. Slot(r, at - 1, p) /\ Slot(r, (at - 1) + Len(p), q)
  <2>1. Slot(r, at - 1, p \o q)
    BY DEF p
  <2>2. QED BY <1>1, <2>1, SlotSplit
<1>4. (at - 1) + 1 = at /\ (at + 1) - 1 = at
  OBVIOUS
<1>5. Slot(r, at, q) /\ Slot(r, (at + 1) - 1, q)
  BY <1>1, <1>3, <1>4
<1>6. ASSUME at <= Len(r) PROVE r[at] = x
  <2>1. 1 \in 1..Len(p)
    BY <1>1
  <2>2. (at - 1) + 1 <= Len(r)
    BY <1>4, <1>6
  <2>3. r[(at - 1) + 1] = p[1]
    BY <1>3, <2>1, <2>2 DEF Slot
  <2>4. QED BY <1>1, <1>4, <2>3
<1> HIDE DEF w
<1>7. IsList(w) /\ Len(w) = 1 + Len(q)
  BY <1>1, <1>2 DEF Joined
<1>8. QED BY <1>5, <1>6, <1>7 DEF w, p

\* A list of lists is read list by list.
LEMMA ReadListIs ==
    ASSUME NEW r, IsList(r), NEW at \in Nat, at >= 1, at - 1 <= Len(r), NEW qs, Lists(qs),
           Slot(r, at - 1, FlattenSeq(qs)), NEW vals, IsList(vals), Len(vals) = Len(qs),
           NEW reads, 0 \notin DOMAIN reads,
           \A k \in 1..Len(qs) : \A p \in at..Len(r) + 1 :
              Slot(r, p - 1, qs[k]) => Reading(ReadAt(reads, p), vals[k], p + Len(qs[k]), Len(r))
    PROVE  Reading(ReadAll(reads, at, Len(qs)), vals, at + Len(FlattenSeq(qs)), Len(r))
<1> DEFINE n   == Len(qs)
           l   == Len(r)
<1>1. PICK e : Ends(e, qs)
  BY EndsExist
<1>2. n \in Nat /\ l \in Nat
  BY ListLength DEF Lists
<1>3. Len(FlattenSeq(qs)) = e[n]
  BY <1>1, FlattenIs DEF Strings
<1>4. e \in [0..n -> Nat] /\ e[0] = 0
      /\ \A k \in 1..n : e[k] = e[k - 1] + Len(qs[k])
  BY <1>1 DEF Ends
<1> DEFINE pos == [k \in 0..n |-> at + e[k]]
<1>5. pos \in [0..n -> Nat] /\ pos[0] = at /\ pos[n] = at + e[n]
  BY <1>2, <1>4
<1>6. ASSUME NEW k \in 1..n
      PROVE  /\ pos[k - 1] <= pos[k]
             /\ pos[k - 1] - 1 <= l => Reading(ReadAt(reads, pos[k - 1]), vals[k], pos[k], l)
  <2> DEFINE b == e[k - 1]
             m == Len(qs[k])
  <2>1. k - 1 \in 0..n /\ k \in 0..n
    BY <1>2
  <2>2. b \in Nat /\ m \in Nat /\ pos[k - 1] = at + b /\ pos[k] = at + (b + m)
    <3>1. m \in Nat
      BY ListLength DEF Lists
    <3>2. b \in Nat /\ e[k] = b + m
      BY <1>4, <2>1
    <3>3. QED BY <2>1, <3>1, <3>2
  <2>3. Slot(r, (at - 1) + b, qs[k])
    BY <1>1, <1>2, SlotFlatten
  <2> HIDE DEF pos, b, m
  <2>4. ASSUME (at + b) - 1 <= l PROVE Reading(ReadAt(reads, at + b), vals[k], (at + b) + m, l)
    <3>1. at + b \in at..l + 1 /\ (at + b) - 1 = (at - 1) + b
      BY <1>2, <2>2, <2>4
    <3>2. Slot(r, (at + b) - 1, qs[k])
      BY <2>3, <3>1
    <3>3. QED BY <3>1, <3>2 DEF m
  <2>5. (at + b) + m = at + (b + m)
    BY <2>2
  <2>6. QED BY <2>2, <2>4, <2>5
<1> HIDE DEF pos
<1>7. Reading(ReadAll(reads, at, Len(vals)), vals, pos[Len(vals)], l)
  BY <1>2, <1>5, <1>6, ReadAllWorks
<1>8. QED BY <1>3, <1>5, <1>7

\* The reads behind a position are reads.
LEMMA BehindIs ==
    ASSUME NEW d, NEW l \in Nat, DOMAIN d = 1..l, NEW at \in Nat, at >= 1, NEW p \in Nat, p >= at
    PROVE  ReadAt([x \in at..l |-> d[x]], p) = ReadAt(d, p)
  BY DEF ReadAt

\* A key and the value behind it.
LEMMA PairIs ==
    ASSUME NEW r, IsList(r), NEW values, NEW first \in Nat, first >= 1,
           NEW p \in first..Len(r) + 1, NEW k, NEW w, NEW q, IsList(q),
           Slot(r, p - 1, <<Key(k)>> \o q),
           p + 1 <= Len(r) + 1 => Reading(ReadAt(values, p + 1), w, p + 1 + Len(q), Len(r)),
           Len(q) >= 1
    PROVE  Reading(ReadAt(Pairs(r, values, first), p), [key |-> k, value |-> w],
                   p + (1 + Len(q)), Len(r))
<1> DEFINE l    == Len(r)
           m    == Len(q)
           read == ReadAt(values, p + 1)
           y    == [key |-> r[p].key, value |-> read.value]
           z    == [key |-> k, value |-> w]
           x    == Key(k)
<1>1. l \in Nat /\ m \in Nat /\ p \in Nat /\ p >= 1 /\ m >= 1
  BY ListLength
<1>2. x.unit = "key" /\ x.key = k
  BY DEF Key
<1>3. p <= l => r[p] = x
  <2> HIDE DEF x
  <2>1. Slot(r, p - 1, <<x>> \o q)
    BY DEF x
  <2>2. QED BY <1>1, <2>1, HeadSlot
<1> HIDE DEF l, m, read, x
<1>4. CASE p <= l
  <2>1. ReadAt(Pairs(r, values, first), p) = Using(read, y)
    <3>1. p \in first..l
      BY <1>1, <1>4
    <3>2. ReadAt(Pairs(r, values, first), p) = Pairs(r, values, first)[p]
      BY <3>1 DEF ReadAt, Pairs, l
    <3>3. QED BY <1>2, <1>3, <1>4, <3>1, <3>2 DEF Pairs, l, read
  <2>2. Reading(read, w, p + 1 + m, l)
    BY <1>1, <1>4 DEF read, m, l
  <2>3. ASSUME (p + 1 + m) - 1 <= l PROVE y = z
    <3>1. read.value = w
      BY <2>2, <2>3 DEF Reading
    <3>2. QED BY <1>2, <1>3, <1>4, <3>1
  <2>4. p + 1 + m \in Nat /\ p + 1 + m >= 1 /\ p + 1 + m = p + (1 + m)
    BY <1>1
  <2> HIDE DEF y, z
  <2>5. Reading(Using(read, y), z, p + 1 + m, l)
    BY <2>2, <2>3, <2>4, UsingIs
  <2>6. QED BY <2>1, <2>4, <2>5 DEF z, l, m
<1>5. CASE ~(p <= l)
  <2>1. ReadAt(Pairs(r, values, first), p) = Failed
    BY <1>1, <1>5 DEF ReadAt, Pairs, l
  <2>2. ~((p + (1 + m)) - 1 <= l)
    BY <1>1, <1>5
  <2>3. QED BY <2>1, <2>2 DEF Reading, l, m
<1>6. QED BY <1>4, <1>5

\* A value is read back from where its units stand, if the list goes so far.
ReadsBack(v, r) ==
    \A at \in 1..Len(r) + 1 : Slot(r, at - 1, encode_program_value[v]) =>
        Reading(ReadAt(decode_program_value(r), at), v, at + Len(encode_program_value[v]), Len(r))

LEMMA ReadArray ==
    ASSUME NEW r, IsList(r), NEW v \in ConstantValue, v.tag = "array",
           \A w \in Parts(v) : ReadsBack(w, r), NEW at \in 1..Len(r),
           Slot(r, at - 1, encode_program_value[v]),
           NEW behind, behind = [p \in at + 1..Len(r) |-> decode_program_value(r)[p]]
    PROVE  Reading(ValueAt(r, at, behind), v, at + Len(encode_program_value[v]), Len(r))
<1> DEFINE n == Len(v.items)
           l == Len(r)
           d == decode_program_value(r)
           x == [unit |-> "array", count |-> n]
           qs == ItemUnits(v)
           q == FlattenSeq(qs)
           items == ReadAll(behind, at + 1, n)
           y == Array(items.value)
<1>1. /\ v = Array(v.items) /\ IsList(v.items) /\ n \in Nat
      /\ \A i \in 1..n : v.items[i] \in Parts(v) /\ v.items[i] \in ConstantValue
      /\ encode_program_value[v] = <<x>> \o q
  BY ArrayIs
<1>2. Lists(qs) /\ Len(qs) = n /\ \A i \in 1..n : qs[i] = encode_program_value[v.items[i]]
  <2>1. \A w \in Parts(v) : IsList(encode_program_value[w])
    BY NestingIs, EncodedList
  <2>2. QED BY <2>1, ItemLists
<1>3. IsList(q)
  BY <1>2, FlattenIs DEF Strings
<1>4. x.unit = "array" /\ x.count = n
  OBVIOUS
<1>5. l \in Nat /\ at \in Nat /\ at >= 1 /\ at <= l
  BY ListLength
<1>6. DOMAIN d = 1..l
  BY <1>5, DecodeIs
<1> HIDE DEF x, q, qs, n, d
<1>7. r[at] = x /\ Slot(r, (at + 1) - 1, q) /\ Len(<<x>> \o q) = 1 + Len(q)
  <2> DEFINE e == encode_program_value[v]
  <2>1. Slot(r, at - 1, <<x>> \o q)
    BY <1>1
  <2>2. /\ at <= Len(r) => r[at] = x
        /\ Slot(r, at, q) /\ Slot(r, (at + 1) - 1, q)
        /\ IsList(<<x>> \o q) /\ Len(<<x>> \o q) = 1 + Len(q)
    BY <1>3, <1>5, <2>1, HeadSlot
  <2>3. QED BY <1>5, <2>2
<1> HIDE DEF l
<1>8. ASSUME NEW k \in 1..Len(qs), NEW p \in at + 1..l + 1, Slot(r, p - 1, qs[k])
      PROVE  Reading(ReadAt(behind, p), v.items[k], p + Len(qs[k]), l)
  <2>1. ReadAt(behind, p) = ReadAt(d, p)
    <3>1. at + 1 \in Nat /\ at + 1 >= 1 /\ p \in Nat /\ p >= at + 1
      BY <1>5
    <3>2. behind = [z \in at + 1..l |-> d[z]]
      BY DEF l, d
    <3>3. QED BY <1>5, <1>6, <3>1, <3>2, BehindIs
  <2>2. p \in 1..l + 1
    BY <1>5
  <2>3. ReadsBack(v.items[k], r) /\ qs[k] = encode_program_value[v.items[k]]
    BY <1>1, <1>2
  <2>4. QED BY <1>8, <2>1, <2>2, <2>3 DEF ReadsBack, l, d
<1>9. Reading(items, v.items, (at + 1) + Len(q), l)
  <2>1. at + 1 \in Nat /\ at + 1 >= 1 /\ (at + 1) - 1 <= l
    BY <1>5
  <2>2. 0 \notin DOMAIN behind
    BY <1>5
  <2>3. Slot(r, (at + 1) - 1, FlattenSeq(qs)) /\ Len(v.items) = Len(qs)
    BY <1>2, <1>7 DEF q, n
  <2>4. Reading(ReadAll(behind, at + 1, Len(qs)), v.items, (at + 1) + Len(FlattenSeq(qs)), l)
    BY <1>1, <1>2, <1>8, <2>1, <2>2, <2>3, ReadListIs DEF l
  <2>5. QED BY <1>2, <2>4 DEF q
<1> HIDE DEF items
<1>10. ValueAt(r, at, behind) = Using(items, y)
  <2>1. r[at].unit = "array" /\ r[at].count = n
    BY <1>4, <1>7
  <2>2. ValueAt(r, at, behind) = Using(ReadAll(behind, at + 1, r[at].count),
                                       Array(ReadAll(behind, at + 1, r[at].count).value))
    BY <2>1 DEF ValueAt
  <2>3. QED BY <2>1, <2>2 DEF items
<1>11. ASSUME ((at + 1) + Len(q)) - 1 <= l PROVE y = v
  <2>1. items.value = v.items
    BY <1>9, <1>11 DEF Reading
  <2>2. QED BY <1>1, <2>1
<1> HIDE DEF y
<1>12. (at + 1) + Len(q) \in Nat /\ (at + 1) + Len(q) >= 1 /\ at + (1 + Len(q)) = (at + 1) + Len(q)
  BY <1>3, <1>5, ListLength
<1>13. Reading(Using(items, y), v, (at + 1) + Len(q), l)
  BY <1>9, <1>11, <1>12, UsingIs
<1>14. QED BY <1>1, <1>7, <1>10, <1>12, <1>13 DEF l

\* A table is made of its pairs again.
LEMMA TableOfIs ==
    ASSUME NEW v \in ConstantValue, v.tag = "table", NEW pairs, IsList(pairs),
           Len(pairs) = Len(KeysOf(v)),
           \A i \in 1..Len(pairs) :
               pairs[i] = [key |-> KeysOf(v)[i], value |-> v.fields[KeysOf(v)[i]]]
    PROVE  TableOf(pairs) = v
<1> DEFINE keys == KeysOf(v)
           n    == Len(keys)
           F(k) == pairs[Max({i \in DOMAIN pairs : pairs[i].key = k})].value
<1>1. /\ v = Table([k \in DOMAIN v.fields |-> v.fields[k]])
      /\ Ascends(keys, DOMAIN v.fields) /\ n \in Nat
  BY TableIs
<1> HIDE DEF keys
<1>2. DOMAIN pairs = 1..n /\ \A i \in 1..n : pairs[i].key = keys[i] /\ pairs[i].value = v.fields[keys[i]]
  <2>1. DOMAIN pairs = 1..n
    BY ListSeq DEF keys
  <2>2. \A i \in 1..n : pairs[i] = [key |-> keys[i], value |-> v.fields[keys[i]]]
    BY DEF keys
  <2>3. QED BY <2>1, <2>2
<1> HIDE DEF n
<1>3. {pairs[i].key : i \in DOMAIN pairs} = DOMAIN v.fields
  <2>1. \A i \in 1..n : keys[i] \in DOMAIN v.fields
    BY <1>1 DEF Ascends, n
  <2>2. \A k \in DOMAIN v.fields : \E i \in 1..n : keys[i] = k
    BY <1>1 DEF Ascends, n
  <2>3. QED BY <1>2, <2>1, <2>2
<1>4. ASSUME NEW k \in DOMAIN v.fields PROVE F(k) = v.fields[k]
  <2>1. PICK i \in 1..n : keys[i] = k
    BY <1>1 DEF Ascends, n
  <2>2. ASSUME NEW j \in 1..n, keys[j] = k PROVE j = i
    <3>1. /\ \A a, b \in 1..n : a < b => keys[a] < keys[b]
          /\ k \in Nat
      BY <1>1, TableIs DEF Ascends, n
    <3>2. ~(i < j) /\ ~(j < i)
      BY <2>1, <2>2, <3>1
    <3>3. i \in Int /\ j \in Int
      BY <1>1
    <3>4. QED BY <3>2, <3>3
  <2>3. {j \in DOMAIN pairs : pairs[j].key = k} = {i}
    BY <1>2, <2>1, <2>2
  <2>4. Max({i}) = i
    <3>1. i \in Int
      OBVIOUS
    <3>2. QED BY <3>1, OnlyOne
  <2>5. QED BY <1>2, <2>1, <2>3, <2>4
<1>5. TableOf(pairs) = Table([k \in {pairs[i].key : i \in DOMAIN pairs} |-> F(k)])
  BY DEF TableOf
<1> HIDE DEF F
<1>6. [k \in {pairs[i].key : i \in DOMAIN pairs} |-> F(k)] = [k \in DOMAIN v.fields |-> v.fields[k]]
  BY <1>3, <1>4
<1>7. QED BY <1>1, <1>5, <1>6

LEMMA ReadTable ==
    ASSUME NEW r, IsList(r), NEW v \in ConstantValue, v.tag = "table",
           \A w \in Parts(v) : ReadsBack(w, r), NEW at \in 1..Len(r),
           Slot(r, at - 1, encode_program_value[v]),
           NEW behind, behind = [p \in at + 1..Len(r) |-> decode_program_value(r)[p]]
    PROVE  Reading(ValueAt(r, at, behind), v, at + Len(encode_program_value[v]), Len(r))
<1> DEFINE keys == KeysOf(v)
           n == Len(keys)
           l == Len(r)
           d == decode_program_value(r)
           x == [unit |-> "table", count |-> n]
           qs == FieldUnits(v)
           q == FlattenSeq(qs)
           of(k) == v.fields[keys[k]]
           vals == [i \in 1..n |-> [key |-> keys[i], value |-> of(i)]]
           reads == Pairs(r, behind, at + 1)
           pairs == ReadAll(reads, at + 1, n)
           y == TableOf(pairs.value)
<1>1. /\ n \in Nat
      /\ \A i \in 1..n : of(i) \in Parts(v) /\ of(i) \in ConstantValue
      /\ encode_program_value[v] = <<x>> \o q
  BY TableIs
<1>2. Lists(qs) /\ Len(qs) = n
      /\ \A i \in 1..n : qs[i] = <<Key(keys[i])>> \o encode_program_value[of(i)]
  <2>1. \A w \in Parts(v) : IsList(encode_program_value[w])
    BY NestingIs, EncodedList
  <2>2. QED BY <2>1, FieldLists
<1>3. IsList(q)
  BY <1>2, FlattenIs DEF Strings
<1>4. x.unit = "table" /\ x.count = n
  OBVIOUS
<1>5. l \in Nat /\ at \in Nat /\ at >= 1 /\ at <= l
  BY ListLength
<1>6. DOMAIN d = 1..l
  BY <1>5, DecodeIs
<1>7. IsList(vals) /\ Len(vals) = n /\ \A i \in 1..n : vals[i] = [key |-> keys[i], value |-> of(i)]
  <2>1. vals = [i \in 1..n |-> vals[i]] /\ \A i \in 1..n : vals[i] = [key |-> keys[i], value |-> of(i)]
    OBVIOUS
  <2> HIDE DEF vals, n
  <2>2. QED BY <1>1, <2>1, ListOf
<1>8. TableOf(vals) = v
  <2>1. IsList(vals) /\ Len(vals) = Len(KeysOf(v))
        /\ \A i \in 1..Len(vals) : vals[i] = [key |-> KeysOf(v)[i], value |-> v.fields[KeysOf(v)[i]]]
    BY <1>7
  <2> HIDE DEF vals
  <2>2. QED BY <2>1, TableOfIs
<1> HIDE DEF x, q, qs, n, d, keys, of, vals
<1>9. r[at] = x /\ Slot(r, (at + 1) - 1, q) /\ Len(<<x>> \o q) = 1 + Len(q)
  <2>1. Slot(r, at - 1, <<x>> \o q)
    BY <1>1
  <2>2. /\ at <= Len(r) => r[at] = x
        /\ Slot(r, at, q) /\ Slot(r, (at + 1) - 1, q)
        /\ IsList(<<x>> \o q) /\ Len(<<x>> \o q) = 1 + Len(q)
    BY <1>3, <1>5, <2>1, HeadSlot
  <2>3. QED BY <1>5, <2>2
<1> HIDE DEF l
<1>10. ASSUME NEW k \in 1..Len(qs), NEW p \in at + 1..l + 1, Slot(r, p - 1, qs[k])
       PROVE  Reading(ReadAt(reads, p), vals[k], p + Len(qs[k]), l)
  <2> DEFINE w == of(k)
             s == encode_program_value[w]
  <2>1. w \in Parts(v) /\ w \in ConstantValue /\ qs[k] = <<Key(keys[k])>> \o s
        /\ vals[k] = [key |-> keys[k], value |-> w]
    BY <1>1, <1>2, <1>7
  <2>2. ReadsBack(w, r)
    BY <2>1
  <2>3. IsList(s) /\ Len(s) >= 1
    BY <2>1, EncodedList
  <2>4. at + 1 \in Nat /\ at + 1 >= 1 /\ p \in Nat /\ p >= at + 1 /\ p >= 1
    BY <1>5
  <2>5. ASSUME p + 1 <= l + 1
        PROVE  Reading(ReadAt(behind, p + 1), w, p + 1 + Len(s), l)
    <3>1. p + 1 \in Nat /\ p + 1 >= at + 1 /\ p + 1 \in 1..l + 1 /\ (p + 1) - 1 = p
      BY <1>5, <2>4, <2>5
    <3>2. behind = [z \in at + 1..l |-> d[z]]
      BY DEF l, d
    <3>3. ReadAt(behind, p + 1) = ReadAt(d, p + 1)
      BY <1>5, <1>6, <2>4, <3>1, <3>2, BehindIs
    <3>4. Slot(r, p, s) /\ Slot(r, (p + 1) - 1, s)
      <4>1. Slot(r, p - 1, <<Key(keys[k])>> \o s)
        BY <1>10, <2>1
      <4> HIDE DEF s
      <4>2. QED BY <2>3, <2>4, <4>1, HeadSlot
    <3>5. QED BY <2>2, <3>1, <3>3, <3>4 DEF ReadsBack, l, d
  <2>6. Slot(r, p - 1, <<Key(keys[k])>> \o s)
    BY <1>10, <2>1
  <2>7. Len(qs[k]) = 1 + Len(s)
    <3> HIDE DEF s
    <3>1. Len(<<Key(keys[k])>> \o s) = 1 + Len(s)
      BY <2>3, <2>4, <2>6, HeadSlot
    <3>2. QED BY <2>1, <3>1
  <2>8. Reading(ReadAt(reads, p), [key |-> keys[k], value |-> w], p + (1 + Len(s)), l)
    <3> HIDE DEF s, w
    <3>1. QED BY <2>3, <2>4, <2>5, <2>6, PairIs DEF l
  <2>9. QED BY <2>1, <2>7, <2>8
<1>11. Reading(pairs, vals, (at + 1) + Len(q), l)
  <2>1. at + 1 \in Nat /\ at + 1 >= 1 /\ (at + 1) - 1 <= l
    BY <1>5
  <2>2. 0 \notin DOMAIN reads
    BY <1>5 DEF Pairs
  <2>3. Slot(r, (at + 1) - 1, FlattenSeq(qs)) /\ Len(vals) = Len(qs)
    BY <1>2, <1>7, <1>9 DEF q
  <2> HIDE DEF reads
  <2>4. Reading(ReadAll(reads, at + 1, Len(qs)), vals, (at + 1) + Len(FlattenSeq(qs)), l)
    BY <1>2, <1>7, <1>10, <2>1, <2>2, <2>3, ReadListIs DEF l
  <2>5. QED BY <1>2, <2>4 DEF q
<1>12. ValueAt(r, at, behind) = Using(pairs, y)
  <2> HIDE DEF pairs
  <2>1. r[at].unit = "table" /\ r[at].count = n
    BY <1>4, <1>9
  <2> DEFINE c == r[at].count
             all == ReadAll(Pairs(r, behind, at + 1), at + 1, c)
  <2>2. ValueAt(r, at, behind) = Using(all, TableOf(all.value))
    <3>1. r[at].unit # "scalar" /\ r[at].unit # "array"
      BY <2>1
    <3>2. QED BY <2>1, <3>1 DEF ValueAt
  <2>3. all = pairs
    BY <2>1 DEF pairs
  <2>4. QED BY <2>2, <2>3
<1> HIDE DEF pairs
<1>13. ASSUME ((at + 1) + Len(q)) - 1 <= l PROVE y = v
  <2>1. pairs.value = vals
    BY <1>11, <1>13 DEF Reading
  <2>2. QED BY <1>8, <2>1
<1> HIDE DEF y
<1>14. (at + 1) + Len(q) \in Nat /\ (at + 1) + Len(q) >= 1 /\ at + (1 + Len(q)) = (at + 1) + Len(q)
  BY <1>3, <1>5, ListLength
<1>15. Reading(Using(pairs, y), v, (at + 1) + Len(q), l)
  BY <1>11, <1>13, <1>14, UsingIs
<1>16. QED BY <1>1, <1>9, <1>12, <1>14, <1>15 DEF l

\* Every value is read back.
LEMMA ValueIsRead ==
    ASSUME NEW r, IsList(r), NEW v \in ConstantValue
    PROVE  ReadsBack(v, r)
<1> DEFINE T == {w \in ConstantValue : ReadsBack(w, r)}
           d == decode_program_value(r)
           l == Len(r)
<1>1. l \in Nat
  BY ListLength
<1>2. DOMAIN d = 1..l
      /\ \A at \in 1..l : d[at] = ValueAt(r, at, [p \in at + 1..l |-> d[p]])
  BY <1>1, DecodeIs
<1>3. ASSUME NEW w \in ConstantValue, \A x \in Parts(w) : x \in T PROVE w \in T
  <2> DEFINE q == encode_program_value[w]
  <2>1. ASSUME NEW at \in 1..l + 1, Slot(r, at - 1, q)
        PROVE  Reading(ReadAt(d, at), w, at + Len(q), l)
    <3>1. IsList(q) /\ Len(q) >= 1 /\ Len(q) \in Nat
      BY EncodedList, ListLength
    <3>2. CASE at = l + 1
      <4> HIDE DEF q, d, l
      <4>1. ReadAt(d, at) = Failed
        BY <1>1, <1>2, <3>2 DEF ReadAt
      <4>2. ~((at + Len(q)) - 1 <= l)
        BY <1>1, <3>1, <3>2
      <4>3. QED BY <4>1, <4>2 DEF Reading
    <3>3. CASE at # l + 1
      <4> DEFINE behind == [p \in at + 1..l |-> d[p]]
      <4>1. at \in 1..l
        BY <1>1, <3>3
      <4>2. ReadAt(d, at) = ValueAt(r, at, behind)
        BY <1>2, <4>1 DEF ReadAt
      <4>3. \A x \in Parts(w) : ReadsBack(x, r)
        BY <1>3
      <4>4. CASE w.tag = "array"
        BY <2>1, <4>1, <4>2, <4>3, <4>4, ReadArray
      <4>5. CASE w.tag = "table"
        BY <2>1, <4>1, <4>2, <4>3, <4>5, ReadTable
      <4>6. CASE w.tag # "array" /\ w.tag # "table"
        <5>1. q = <<Scalar(w)>> /\ Len(q) = 1
          BY <4>6, ScalarIs, ListOne
        <5>2. r[at] = Scalar(w)
          <6>1. (at - 1) + 1 <= l /\ (at - 1) + 1 = at
            BY <1>1, <4>1
          <6>2. Slot(r, at - 1, <<Scalar(w)>>)
            BY <2>1, <5>1
          <6>3. QED BY <6>1, <6>2, SlotOne
        <5>3. r[at].unit = "scalar" /\ r[at].value = w
          BY <5>2 DEF Scalar
        <5>4. ValueAt(r, at, behind) = [value |-> w, next |-> at + 1]
          <6> HIDE DEF behind
          <6>1. QED BY <5>3 DEF ValueAt
        <5>5. (at + 1) - 1 <= l
          BY <1>1, <4>1
        <5> HIDE DEF behind
        <5>6. QED BY <4>2, <5>1, <5>4, <5>5 DEF Reading
      <4>7. QED BY <4>4, <4>5, <4>6
    <3>4. QED BY <3>2, <3>3
  <2>2. QED BY <2>1 DEF ReadsBack
<1>4. v \in T
  <2> HIDE DEF T
  <2>1. QED BY <1>3, NestingInduction
<1>5. QED BY <1>4

(***************************************************************************)
(* Programs.                                                               *)
(***************************************************************************)

FunctionIds(p)   == Ascending(DOMAIN p.functions)
ConstantUnits(p) == [i \in DOMAIN p.constants |-> encode_program_value[p.constants[i]]]
FunctionUnits(p) ==
    [i \in DOMAIN FunctionIds(p) |-> EncodedFunction(FunctionIds(p)[i], p.functions[FunctionIds(p)[i]])]
ProgramHead(p) ==
    [unit |-> "program", entry |-> IF p.entry = NoEntry THEN MaxId ELSE p.entry,
     constants |-> Len(p.constants), functions |-> Len(FunctionIds(p))]

LEMMA FunctionIdsAre ==
    ASSUME NEW p, IsProgram(p)
    PROVE  /\ Ascends(FunctionIds(p), DOMAIN p.functions) /\ IsList(FunctionIds(p))
           /\ Len(FunctionIds(p)) \in Nat /\ DOMAIN FunctionIds(p) = 1..Len(FunctionIds(p))
           /\ \A i \in 1..Len(FunctionIds(p)) : LET f == p.functions[FunctionIds(p)[i]] IN
                 /\ f = [args |-> f.args, locals |-> f.locals, stack |-> f.stack, code |-> f.code]
                 /\ IsList(f.code)
<1> DEFINE ids == FunctionIds(p)
<1>1. IsFiniteSet(DOMAIN p.functions) /\ DOMAIN p.functions \subseteq Nat
  BY MaxIdAssumption DEF IsProgram
<1>2. Ascends(ids, DOMAIN p.functions)
  BY <1>1, AscendingIs DEF FunctionIds
<1> HIDE DEF ids
<1>3. IsList(ids) /\ \A i \in 1..Len(ids) : ids[i] \in DOMAIN p.functions
  BY <1>2 DEF Ascends
<1>4. Len(ids) \in Nat /\ DOMAIN ids = 1..Len(ids)
  BY <1>3, ListSeq
<1>5. \A id \in DOMAIN p.functions : LET f == p.functions[id] IN
          /\ f = [args |-> f.args, locals |-> f.locals, stack |-> f.stack, code |-> f.code]
          /\ IsList(f.code)
  BY DEF IsProgram
<1>6. QED BY <1>2, <1>3, <1>4, <1>5 DEF ids

LEMMA ProgramLists ==
    ASSUME NEW p, IsProgram(p)
    PROVE  /\ Lists(ConstantUnits(p)) /\ Len(ConstantUnits(p)) = Len(p.constants)
           /\ \A i \in 1..Len(p.constants) :
                 /\ p.constants[i] \in ConstantValue
                 /\ ConstantUnits(p)[i] = encode_program_value[p.constants[i]]
           /\ Lists(FunctionUnits(p)) /\ Len(FunctionUnits(p)) = Len(FunctionIds(p))
           /\ \A i \in 1..Len(FunctionIds(p)) : FunctionUnits(p)[i]
                 = EncodedFunction(FunctionIds(p)[i], p.functions[FunctionIds(p)[i]])
<1> DEFINE cs  == ConstantUnits(p)
           fs  == FunctionUnits(p)
           ids == FunctionIds(p)
           n   == Len(p.constants)
           m   == Len(ids)
<1>1. DOMAIN p.constants = 1..n /\ n \in Nat /\ \A i \in 1..n : p.constants[i] \in ConstantValue
  BY ListSeq DEF IsProgram
<1>2. m \in Nat /\ DOMAIN ids = 1..m /\ \A i \in 1..m : IsList(p.functions[ids[i]].code)
  BY FunctionIdsAre
<1>3. cs = [i \in 1..n |-> encode_program_value[p.constants[i]]]
  BY <1>1 DEF ConstantUnits
<1>4. fs = [i \in 1..m |-> EncodedFunction(ids[i], p.functions[ids[i]])]
  BY <1>2 DEF FunctionUnits
<1> HIDE DEF cs, fs, n, m, ids
<1>5. IsList(cs) /\ Len(cs) = n
  <2>1. cs = [i \in 1..n |-> cs[i]]
    BY <1>3
  <2>2. QED BY <1>1, <2>1, ListOf
<1>6. IsList(fs) /\ Len(fs) = m
  <2>1. fs = [i \in 1..m |-> fs[i]]
    BY <1>4
  <2>2. QED BY <1>2, <2>1, ListOf
<1>7. Lists(cs)
  BY <1>1, <1>3, <1>5, EncodedList DEF Lists
<1>8. Lists(fs)
  <2>1. \A i \in 1..m : IsList(EncodedFunction(ids[i], p.functions[ids[i]]))
    BY <1>2, EncodedFunctionIs
  <2>2. QED BY <1>4, <1>6, <2>1 DEF Lists
<1>9. QED BY <1>1, <1>3, <1>4, <1>5, <1>6, <1>7, <1>8 DEF cs, fs, n, m, ids

\* Where the parts of a program stand.
LEMMA EncodedProgram ==
    ASSUME NEW p, IsProgram(p)
    PROVE  LET q == encode_binary(p)
               C == FlattenSeq(ConstantUnits(p))
               F == FlattenSeq(FunctionUnits(p))
           IN  /\ IsList(q) /\ IsList(C) /\ IsList(F) /\ Len(q) = 1 + Len(C) + Len(F)
               /\ q[1] = ProgramHead(p) /\ Len(q) >= 1
               /\ \A r : Slot(r, 0, q) => Slot(r, 1, C) /\ Slot(r, 1 + Len(C), F)
<1> DEFINE q == encode_binary(p)
           C == FlattenSeq(ConstantUnits(p))
           F == FlattenSeq(FunctionUnits(p))
           h == <<ProgramHead(p)>>
           g == h \o C
<1>1. q = (h \o C) \o F
  BY DEF encode_binary, ProgramHead, ConstantUnits, FunctionUnits, FunctionIds
<1>2. IsList(C) /\ IsList(F)
  BY ProgramLists, FlattenIs DEF Strings
<1>3. IsList(h) /\ Len(h) = 1 /\ h[1] = ProgramHead(p)
  BY ListOne
<1> HIDE DEF q, C, F, h
<1>4. Joined(g, h, C)
  BY <1>2, <1>3, ListConcat
<1>5. IsList(g) /\ q = g \o F
  BY <1>1, <1>4 DEF Joined
<1>6. ASSUME NEW r, Slot(r, 0, q) PROVE Slot(r, 1, C) /\ Slot(r, 1 + Len(C), F)
  <2>1. Slot(r, 0, g \o F)
    BY <1>5, <1>6
  <2>2. Slot(r, 0, g) /\ Slot(r, 0 + Len(g), F)
    <3> HIDE DEF g
    <3>1. QED BY <1>2, <1>5, <2>1, SlotSplit
  <2>3. Slot(r, 0, h) /\ Slot(r, 0 + Len(h), C)
    BY <1>2, <1>3, <2>2, SlotSplit
  <2> HIDE DEF g
  <2>4. Len(g) = 1 + Len(C) /\ Len(C) \in Nat
    BY <1>2, <1>3, <1>4, ListLength DEF Joined
  <2>5. 0 + Len(g) = 1 + Len(C) /\ 0 + Len(h) = 1
    BY <1>3, <2>4
  <2>6. QED BY <2>2, <2>3, <2>5
<1> HIDE DEF g
<1>7. Joined(q, g, F)
  BY <1>2, <1>5, ListConcat
<1>8. Len(C) \in Nat /\ Len(F) \in Nat /\ Len(g) = 1 + Len(C)
  BY <1>2, <1>3, <1>4, ListLength DEF Joined
<1>9. IsList(q) /\ Len(q) = 1 + Len(C) + Len(F) /\ Len(q) >= 1
  BY <1>7, <1>8 DEF Joined
<1>10. q[1] = ProgramHead(p)
  <2>1. 1 \in 1..Len(g) /\ 1 \in 1..Len(h)
    BY <1>3, <1>8
  <2>2. q[1] = g[1] /\ g[1] = h[1]
    BY <1>4, <1>7, <2>1 DEF Joined
  <2>3. QED BY <1>3, <2>2
<1>11. QED BY <1>2, <1>6, <1>9, <1>10 DEF q, C, F

\* A read behind another one.
LEMMA Chained ==
    ASSUME NEW prev, NEW x, NEW P \in Nat, NEW Q \in Nat, P >= 1, P <= Q, NEW l \in Nat,
           Reading(prev, x, P, l), NEW read, NEW y,
           prev.next = 0 => read = Failed,
           prev = [value |-> x, next |-> P] /\ P - 1 <= l => Reading(read, y, Q, l)
    PROVE  Reading(read, y, Q, l)
<1>1. CASE P - 1 <= l
  BY <1>1 DEF Reading
<1>2. CASE ~(P - 1 <= l)
  <2>1. prev = Failed /\ prev.next = 0
    BY <1>2 DEF Reading, Failed
  <2>2. ~(Q - 1 <= l)
    BY <1>2
  <2>3. QED BY <2>1, <2>2 DEF Reading
<1>3. QED BY <1>1, <1>2

LEMMA KeptIs ==
    ASSUME NEW p, IsProgram(p)
    PROVE  /\ Kept(p) = [entry |-> IF ProgramHead(p).entry = MaxId THEN NoEntry
                                   ELSE ProgramHead(p).entry,
                         constants |-> p.constants, functions |-> p.functions]
           /\ IsRead(Kept(p))
<1> DEFINE e == IF p.entry = MaxId THEN NoEntry ELSE p.entry
           k == [entry |-> e, constants |-> p.constants, functions |-> p.functions]
<1>1. p = [entry |-> p.entry, constants |-> p.constants, functions |-> p.functions]
      /\ p.entry \in 0..NoEntry
  BY DEF IsProgram
<1>2. Kept(p) = k
  <2>1. CASE p.entry = MaxId
    <3>1. Kept(p) = [p EXCEPT !.entry = NoEntry]
      BY <2>1 DEF Kept
    <3>2. QED BY <1>1, <2>1, <3>1
  <2>2. CASE p.entry # MaxId
    BY <1>1, <2>2 DEF Kept
  <2>3. QED BY <2>1, <2>2
<1>3. ProgramHead(p).entry = IF p.entry = NoEntry THEN MaxId ELSE p.entry
  BY DEF ProgramHead
<1>4. e = IF ProgramHead(p).entry = MaxId THEN NoEntry ELSE ProgramHead(p).entry
  BY <1>3, MaxIdAssumption DEF NoEntry
<1>5. IsRead(k)
  BY DEF IsRead, NotRead
<1> HIDE DEF e
<1>6. QED BY <1>2, <1>4, <1>5

\* The functions of a program, by their ids.
LEMMA FunctionsOf ==
    ASSUME NEW p, IsProgram(p), NEW vals, IsList(vals), Len(vals) = Len(FunctionIds(p)),
           \A i \in 1..Len(vals) :
              vals[i] = [id |-> FunctionIds(p)[i], function |-> p.functions[FunctionIds(p)[i]]]
    PROVE  [id \in {vals[i].id : i \in DOMAIN vals} |->
               vals[Max({i \in DOMAIN vals : vals[i].id = id})].function] = p.functions
<1> DEFINE ids  == FunctionIds(p)
           n    == Len(ids)
           F(k) == vals[Max({i \in DOMAIN vals : vals[i].id = k})].function
<1>1. /\ p.functions = [k \in DOMAIN p.functions |-> p.functions[k]]
      /\ DOMAIN p.functions \subseteq Nat
      /\ Ascends(ids, DOMAIN p.functions) /\ n \in Nat
  BY FunctionIdsAre, MaxIdAssumption DEF IsProgram
<1> HIDE DEF ids
<1>2. DOMAIN vals = 1..n /\ \A i \in 1..n : vals[i].id = ids[i] /\ vals[i].function = p.functions[ids[i]]
  <2>1. DOMAIN vals = 1..n
    BY ListSeq DEF ids
  <2>2. \A i \in 1..n : vals[i] = [id |-> ids[i], function |-> p.functions[ids[i]]]
    BY DEF ids
  <2>3. QED BY <2>1, <2>2
<1> HIDE DEF n
<1>3. {vals[i].id : i \in DOMAIN vals} = DOMAIN p.functions
  <2>1. \A i \in 1..n : ids[i] \in DOMAIN p.functions
    BY <1>1 DEF Ascends, n
  <2>2. \A k \in DOMAIN p.functions : \E i \in 1..n : ids[i] = k
    BY <1>1 DEF Ascends, n
  <2>3. QED BY <1>2, <2>1, <2>2
<1>4. ASSUME NEW k \in DOMAIN p.functions PROVE F(k) = p.functions[k]
  <2>1. PICK i \in 1..n : ids[i] = k
    BY <1>1 DEF Ascends, n
  <2>2. ASSUME NEW j \in 1..n, ids[j] = k PROVE j = i
    <3>1. /\ \A a, b \in 1..n : a < b => ids[a] < ids[b]
          /\ k \in Nat
      BY <1>1 DEF Ascends, n
    <3>2. ~(i < j) /\ ~(j < i)
      BY <2>1, <2>2, <3>1
    <3>3. i \in Int /\ j \in Int
      BY <1>1
    <3>4. QED BY <3>2, <3>3
  <2>3. {j \in DOMAIN vals : vals[j].id = k} = {i}
    BY <1>2, <2>1, <2>2
  <2>4. Max({i}) = i
    <3>1. i \in Int
      OBVIOUS
    <3>2. QED BY <3>1, OnlyOne
  <2>5. QED BY <1>2, <2>1, <2>3, <2>4
<1> HIDE DEF F
<1>5. [k \in {vals[i].id : i \in DOMAIN vals} |-> F(k)] = p.functions
  BY <1>1, <1>3, <1>4
<1>6. QED BY <1>5 DEF F

\* A program is read back, and refused where its end is missing.
LEMMA ProgramIsRead ==
    ASSUME NEW p, IsProgram(p), NEW r, IsList(r), Slot(r, 0, encode_binary(p))
    PROVE  decode_binary(r) = IF Len(encode_binary(p)) <= Len(r) THEN Kept(p) ELSE NotRead
<1> DEFINE q   == encode_binary(p)
           cs  == ConstantUnits(p)
           fs  == FunctionUnits(p)
           C   == FlattenSeq(cs)
           F   == FlattenSeq(fs)
           ids == FunctionIds(p)
           n   == Len(p.constants)
           m   == Len(ids)
           l   == Len(r)
           h   == ProgramHead(p)
           d   == decode_program_value(r)
           at  == 2 + Len(C)
           functionAt == [a \in 1..l |-> ReadFunction(r, a)]
           constants  == ReadAll(d, 2, n)
           functions  == ReadAll(functionAt, constants.next, m)
           of(i) == [id |-> ids[i], function |-> p.functions[ids[i]]]
           vals == [i \in 1..m |-> of(i)]
           value == [entry     |-> IF h.entry = MaxId THEN NoEntry ELSE h.entry,
                     constants |-> constants.value,
                     functions |-> [id \in {functions.value[i].id : i \in DOMAIN functions.value} |->
                         functions.value[Max({i \in DOMAIN functions.value :
                                                 functions.value[i].id = id})].function]]
<1>1. /\ IsList(q) /\ IsList(C) /\ IsList(F) /\ Len(q) = 1 + Len(C) + Len(F) /\ q[1] = h
      /\ Len(q) >= 1 /\ Slot(r, 1, C) /\ Slot(r, 1 + Len(C), F)
  BY EncodedProgram
<1>2. l \in Nat /\ Len(C) \in Nat /\ Len(F) \in Nat
  BY <1>1, ListLength
<1>3. CASE r = <<>>
  <2>1. l = 0
    BY <1>3, ListEmpty
  <2>2. QED BY <1>1, <1>2, <1>3, <2>1 DEF decode_binary
<1>4. CASE r # <<>>
  <2>1. 1 <= l
    BY <1>2, <1>4, ListNone
  <2>2. r[1] = h
    <3>1. 1 \in 1..Len(q) /\ 0 + 1 <= Len(r) /\ 0 + 1 = 1
      BY <1>1, <1>2, <2>1
    <3>2. r[0 + 1] = q[1]
      BY <3>1 DEF Slot
    <3>3. QED BY <1>1, <3>1, <3>2
  <2>3. h.unit = "program" /\ h.constants = n /\ h.functions = m
    BY DEF ProgramHead
  <2>4. decode_binary(r) = IF functions.next = 0 THEN NotRead ELSE value
    <3> HIDE DEF h
    <3>1. QED BY <1>4, <2>2, <2>3 DEF decode_binary, h
  <2>5. /\ Lists(cs) /\ Len(cs) = n
        /\ \A i \in 1..n : p.constants[i] \in ConstantValue /\ cs[i] = encode_program_value[p.constants[i]]
        /\ Lists(fs) /\ Len(fs) = m
        /\ \A i \in 1..m : fs[i] = EncodedFunction(ids[i], p.functions[ids[i]])
    BY ProgramLists
  <2>6. /\ m \in Nat
        /\ \A i \in 1..m : LET f == p.functions[ids[i]] IN
              /\ f = [args |-> f.args, locals |-> f.locals, stack |-> f.stack, code |-> f.code]
              /\ IsList(f.code)
    BY FunctionIdsAre
  <2>7. IsList(vals) /\ Len(vals) = m /\ \A i \in 1..m : vals[i] = of(i)
    <3>1. vals = [i \in 1..m |-> vals[i]] /\ \A i \in 1..m : vals[i] = of(i)
      OBVIOUS
    <3> HIDE DEF vals, m, of
    <3>2. QED BY <2>6, <3>1, ListOf
  <2>8. [id \in {vals[i].id : i \in DOMAIN vals} |->
            vals[Max({i \in DOMAIN vals : vals[i].id = id})].function] = p.functions
    <3> HIDE DEF vals
    <3>1. QED BY <2>7, FunctionsOf
  <2>9. DOMAIN d = 1..l /\ 0 \notin DOMAIN d
    BY <1>2, DecodeIs
  <2> HIDE DEF q, cs, fs, C, F, h, d, functionAt, vals
  <2>10. Reading(constants, p.constants, at, l)
    <3>1. ASSUME NEW k \in 1..Len(cs), NEW a \in 2..Len(r) + 1, Slot(r, a - 1, cs[k])
          PROVE  Reading(ReadAt(d, a), p.constants[k], a + Len(cs[k]), Len(r))
      <4>1. a \in 1..Len(r) + 1
        BY <1>2
      <4>2. ReadsBack(p.constants[k], r)
        BY <2>5, ValueIsRead
      <4>3. cs[k] = encode_program_value[p.constants[k]]
        BY <2>5
      <4>4. QED BY <3>1, <4>1, <4>2, <4>3 DEF ReadsBack, d
    <3>2. 2 - 1 <= Len(r)
      BY <1>1, <2>1
    <3>3. 2 - 1 = 1 /\ 2 \in Nat /\ 2 >= 1
      OBVIOUS
    <3>4. Slot(r, 2 - 1, FlattenSeq(cs))
      BY <1>1, <3>3 DEF C
    <3>5. IsList(p.constants) /\ Len(p.constants) = Len(cs)
      BY <2>5 DEF IsProgram
    <3>6. Lists(cs) /\ 0 \notin DOMAIN d
      BY <2>5, <2>9
    <3> HIDE DEF constants
    <3>7. Reading(ReadAll(d, 2, Len(cs)), p.constants, 2 + Len(FlattenSeq(cs)), Len(r))
      BY <3>1, <3>2, <3>3, <3>4, <3>5, <3>6, ReadListIs
    <3>8. QED BY <2>5, <3>7 DEF C, constants
  <2> HIDE DEF constants
  <2>11. ASSUME at - 1 <= l
         PROVE  Reading(ReadAll(functionAt, at, m), vals, at + Len(F), l)
    <3>1. ASSUME NEW k \in 1..Len(fs), NEW a \in at..Len(r) + 1, Slot(r, a - 1, fs[k])
          PROVE  Reading(ReadAt(functionAt, a), vals[k], a + Len(fs[k]), Len(r))
      <4> DEFINE f == p.functions[ids[k]]
      <4>1. /\ fs[k] = EncodedFunction(ids[k], f) /\ vals[k] = [id |-> ids[k], function |-> f]
            /\ f = [args |-> f.args, locals |-> f.locals, stack |-> f.stack, code |-> f.code]
            /\ IsList(f.code)
        BY <2>5, <2>6, <2>7
      <4>2. Len(fs[k]) = 1 + Len(f.code) /\ Len(f.code) \in Nat
        BY <4>1, EncodedFunctionIs, ListLength
      <4>3. a \in Nat /\ a >= 1 /\ a <= l + 1
        BY <1>2
      <4> HIDE DEF f, at
      <4>4. CASE a <= l
        <5>1. a \in 1..Len(r)
          BY <1>2, <4>3, <4>4
        <5>2. ReadAt(functionAt, a) = ReadFunction(r, a)
          BY <5>1 DEF ReadAt, functionAt
        <5>3. Reading(ReadFunction(r, a), [id |-> ids[k], function |-> f], a + 1 + Len(f.code), Len(r))
          BY <1>2, <3>1, <4>1, <5>1, ReadFunctionIs
        <5>4. a + 1 + Len(f.code) = a + Len(fs[k])
          <6> DEFINE x == Len(f.code)
                     y == Len(fs[k])
          <6>1. y = 1 + x /\ x \in Nat /\ a \in Nat
            BY <4>2, <4>3
          <6> HIDE DEF x, y
          <6>2. a + 1 + x = a + y
            BY <6>1
          <6>3. QED BY <6>2 DEF x, y
        <5>5. Reading(ReadFunction(r, a), [id |-> ids[k], function |-> f], a + Len(fs[k]), Len(r))
          BY <5>3, <5>4
        <5>6. vals[k] = [id |-> ids[k], function |-> f]
          BY <4>1
        <5>7. QED BY <5>2, <5>5, <5>6
      <4>5. CASE ~(a <= l)
        <5>1. ReadAt(functionAt, a) = Failed
          BY <1>2, <4>3, <4>5 DEF ReadAt, functionAt
        <5>2. ~((a + Len(fs[k])) - 1 <= l)
          BY <1>2, <4>2, <4>3, <4>5
        <5>3. QED BY <5>1, <5>2 DEF Reading
      <4>6. QED BY <4>4, <4>5
    <3>2. at \in Nat /\ at >= 1 /\ at - 1 <= Len(r) /\ at - 1 = 1 + Len(C)
      BY <1>2, <2>11
    <3>3. Slot(r, at - 1, FlattenSeq(fs)) /\ Len(vals) = Len(fs)
      BY <1>1, <2>5, <2>7, <3>2 DEF F
    <3>4. 0 \notin DOMAIN functionAt
      BY <1>2 DEF functionAt
    <3> HIDE DEF at
    <3>5. Reading(ReadAll(functionAt, at, Len(fs)), vals, at + Len(FlattenSeq(fs)), Len(r))
      BY <2>5, <2>7, <3>1, <3>2, <3>3, <3>4, ReadListIs
    <3>6. QED BY <2>5, <3>5 DEF F
  <2>12. CASE at - 1 <= l /\ (at + Len(F)) - 1 <= l
    <3>1. constants = [value |-> p.constants, next |-> at]
      BY <2>10, <2>12 DEF Reading
    <3>2. functions = [value |-> vals, next |-> at + Len(F)]
      BY <2>11, <2>12, <3>1 DEF Reading
    <3>3. functions.next # 0 /\ Len(q) <= l
      BY <1>1, <1>2, <2>12, <3>2
    <3>4. value = [entry |-> IF h.entry = MaxId THEN NoEntry ELSE h.entry,
                   constants |-> p.constants, functions |-> p.functions]
      <4> DEFINE G(x) == [id \in {x[i].id : i \in DOMAIN x} |->
                             x[Max({i \in DOMAIN x : x[i].id = id})].function]
      <4>1. constants.value = p.constants /\ functions.value = vals
        BY <3>1, <3>2
      <4>2. G(vals) = p.functions
        BY <2>8
      <4>3. value = [entry |-> IF h.entry = MaxId THEN NoEntry ELSE h.entry,
                     constants |-> constants.value, functions |-> G(functions.value)]
        OBVIOUS
      <4> HIDE DEF functions, G, value
      <4>4. QED BY <4>1, <4>2, <4>3
    <3>5. value = Kept(p)
      BY <3>4, KeptIs DEF h
    <3> HIDE DEF value, functions
    <3>6. QED BY <2>4, <3>3, <3>5 DEF q
  <2>13. CASE ~(at - 1 <= l /\ (at + Len(F)) - 1 <= l)
    <3>1. functions.next = 0
      <4>1. CASE at - 1 <= l
        <5>1. constants.next = at
          BY <2>10, <4>1 DEF Reading
        <5>2. functions = Failed
          BY <2>11, <2>13, <4>1, <5>1 DEF Reading
        <5>3. QED BY <5>2 DEF Failed
      <4>2. CASE ~(at - 1 <= l)
        <5>1. constants.next = 0
          BY <2>10, <4>2 DEF Reading, Failed
        <5>2. 0 \notin DOMAIN functionAt
          BY <1>2 DEF functionAt
        <5>3. QED BY <2>6, <5>1, <5>2, ReadAllFails
      <4>3. QED BY <4>1, <4>2
    <3>2. ~(Len(q) <= l)
      BY <1>1, <1>2, <2>13
    <3> HIDE DEF value, functions
    <3>3. QED BY <2>4, <3>1, <3>2 DEF q
  <2>14. QED BY <2>12, <2>13
<1>5. QED BY <1>3, <1>4

\* A list put behind another one.
Behind(q, g, x) ==
    /\ IsList(q) /\ Len(q) = Len(g) + Len(x) /\ q[1] = g[1] /\ Len(q) >= 1
    /\ Len(g) \in Nat /\ Len(x) \in Nat
    /\ \A r : Slot(r, 0, q) => Slot(r, 0, g) /\ Slot(r, Len(g), x)

LEMMA PutBehind ==
    ASSUME NEW g, IsList(g), Len(g) >= 1, NEW x, IsList(x), NEW q, q = g \o x
    PROVE  Behind(q, g, x)
<1>1. Joined(q, g, x)
  BY ListConcat
<1>2. Len(g) \in Nat /\ Len(x) \in Nat
  BY ListLength
<1>3. 1 \in 1..Len(g)
  BY <1>2
<1>4. ASSUME NEW r, Slot(r, 0, q) PROVE Slot(r, 0, g) /\ Slot(r, Len(g), x)
  <2>1. Slot(r, 0, g \o x)
    BY <1>4
  <2>2. Slot(r, 0, g) /\ Slot(r, 0 + Len(g), x)
    BY <2>1, SlotSplit
  <2>3. 0 + Len(g) = Len(g)
    BY <1>2
  <2>4. QED BY <2>2, <2>3
<1>5. QED BY <1>1, <1>2, <1>3, <1>4 DEF Joined, Behind

IsPackage(u) ==
    /\ u = [manifest |-> u.manifest, capabilities |-> u.capabilities,
            program |-> u.program, schema |-> u.schema, assets |-> u.assets]
    /\ IsList(u.capabilities) /\ IsList(u.program) /\ IsList(u.schema) /\ IsList(u.assets)
    /\ \A i \in 1..Len(u.assets) : LET a == u.assets[i] IN
          /\ a = [id |-> a.id, kind |-> a.kind, name |-> a.name, units |-> a.units]
          /\ IsList(a.units)

PackageHead(u) ==
    [unit |-> "package", manifest |-> u.manifest, capabilities |-> Len(u.capabilities)]
AssetUnits(u) == [i \in DOMAIN u.assets |-> EncodedAsset(u.assets[i])]

\* Where the parts of a package are read.
ProgramAt(u) == 2 + Len(u.capabilities)
SchemaAt(u)  == ProgramAt(u) + 1 + Len(u.program)
CountAt(u)   == SchemaAt(u) + 1 + Len(u.schema)

LEMMA PackageNumbers ==
    ASSUME NEW u, IsPackage(u)
    PROVE  /\ ProgramAt(u) \in Nat /\ SchemaAt(u) \in Nat /\ CountAt(u) \in Nat
           /\ 2 <= ProgramAt(u) /\ ProgramAt(u) <= SchemaAt(u) /\ SchemaAt(u) <= CountAt(u)
<1> DEFINE c == Len(u.capabilities)
           g == Len(u.program)
           s == Len(u.schema)
<1>1. c \in Nat /\ g \in Nat /\ s \in Nat
  BY ListLength DEF IsPackage
<1>2. /\ ProgramAt(u) = 2 + c /\ SchemaAt(u) = 2 + c + 1 + g
      /\ CountAt(u) = 2 + c + 1 + g + 1 + s
  BY DEF ProgramAt, SchemaAt, CountAt
<1> HIDE DEF c, g, s
<1>3. QED BY <1>1, <1>2

LEMMA AssetLists ==
    ASSUME NEW u, IsPackage(u)
    PROVE  /\ Lists(AssetUnits(u)) /\ Len(AssetUnits(u)) = Len(u.assets)
           /\ \A i \in 1..Len(u.assets) : AssetUnits(u)[i] = EncodedAsset(u.assets[i])
<1> DEFINE as == AssetUnits(u)
           n  == Len(u.assets)
<1>1. DOMAIN u.assets = 1..n /\ n \in Nat
  BY ListSeq DEF IsPackage
<1>2. as = [i \in 1..n |-> EncodedAsset(u.assets[i])]
  BY <1>1 DEF AssetUnits
<1>3. as = [i \in 1..n |-> as[i]] /\ \A i \in 1..n : as[i] = EncodedAsset(u.assets[i])
  BY <1>2
<1>4. \A i \in 1..n : IsList(EncodedAsset(u.assets[i]))
  BY EncodedAssetIs DEF IsPackage
<1> HIDE DEF as, n
<1>5. IsList(as) /\ Len(as) = n
  BY <1>1, <1>3, ListOf
<1>6. QED BY <1>3, <1>4, <1>5 DEF Lists, as, n

\* Where the parts of a package stand.
LEMMA EncodedPackage ==
    ASSUME NEW u, IsPackage(u)
    PROVE  LET q == EncodePackage(u)
               A == FlattenSeq(AssetUnits(u))
           IN  /\ IsList(q) /\ IsList(A) /\ Len(q) = CountAt(u) + Len(A)
               /\ q[1] = PackageHead(u) /\ Len(q) >= 1
               /\ \A r : Slot(r, 0, q) =>
                     /\ Slot(r, 2 - 1, u.capabilities)
                     /\ Slot(r, ProgramAt(u) - 1, Blob(u.program))
                     /\ Slot(r, SchemaAt(u) - 1, Blob(u.schema))
                     /\ Slot(r, CountAt(u) - 1, <<Count(u.assets)>>)
                     /\ Slot(r, CountAt(u), A)
<1> DEFINE q  == EncodePackage(u)
           A  == FlattenSeq(AssetUnits(u))
           g1 == <<PackageHead(u)>>
           g2 == g1 \o u.capabilities
           g3 == g2 \o Blob(u.program)
           g4 == g3 \o Blob(u.schema)
           g5 == g4 \o <<Count(u.assets)>>
<1>1. q = g5 \o A
  BY DEF EncodePackage, PackageHead, AssetUnits
<1>2. IsList(A)
  BY AssetLists, FlattenIs DEF Strings
<1>3. IsList(g1) /\ Len(g1) = 1 /\ g1[1] = PackageHead(u)
  BY ListOne
<1>4. /\ IsList(u.capabilities) /\ IsList(Blob(u.program)) /\ IsList(Blob(u.schema))
      /\ Len(Blob(u.program)) = 1 + Len(u.program) /\ Len(Blob(u.schema)) = 1 + Len(u.schema)
      /\ Len(u.capabilities) \in Nat /\ Len(u.program) \in Nat /\ Len(u.schema) \in Nat
  BY BlobIs, ListLength DEF IsPackage
<1>5. IsList(<<Count(u.assets)>>) /\ Len(<<Count(u.assets)>>) = 1
  BY ListOne
<1> DEFINE N == <<Count(u.assets)>>
<1> HIDE DEF g1, A, q
<1>6. /\ IsList(g2) /\ Len(g2) = 1 + Len(u.capabilities) /\ g2[1] = g1[1] /\ Len(g2) >= 1
      /\ \A r : Slot(r, 0, g2) => Slot(r, 0, g1) /\ Slot(r, Len(g1), u.capabilities)
  <2>1. g2 = g1 \o u.capabilities /\ Len(g1) >= 1
    BY <1>3
  <2> HIDE DEF g2
  <2>2. Behind(g2, g1, u.capabilities)
    BY <1>3, <1>4, <2>1, PutBehind
  <2>3. QED BY <1>4, <1>3, <2>2 DEF Behind
<1>7. /\ IsList(g3) /\ Len(g3) = Len(g2) + (1 + Len(u.program)) /\ g3[1] = g2[1] /\ Len(g3) >= 1
      /\ \A r : Slot(r, 0, g3) => Slot(r, 0, g2) /\ Slot(r, Len(g2), Blob(u.program))
  <2>1. g3 = g2 \o Blob(u.program)
    OBVIOUS
  <2> HIDE DEF g2, g3
  <2>2. Behind(g3, g2, Blob(u.program))
    BY <1>4, <1>6, <2>1, PutBehind
  <2>3. QED BY <1>4, <2>2 DEF Behind
<1>8. /\ IsList(g4) /\ Len(g4) = Len(g3) + (1 + Len(u.schema)) /\ g4[1] = g3[1] /\ Len(g4) >= 1
      /\ \A r : Slot(r, 0, g4) => Slot(r, 0, g3) /\ Slot(r, Len(g3), Blob(u.schema))
  <2>1. g4 = g3 \o Blob(u.schema)
    OBVIOUS
  <2> HIDE DEF g3, g4
  <2>2. Behind(g4, g3, Blob(u.schema))
    BY <1>4, <1>7, <2>1, PutBehind
  <2>3. QED BY <1>4, <2>2 DEF Behind
<1>9. /\ IsList(g5) /\ Len(g5) = Len(g4) + 1 /\ g5[1] = g4[1] /\ Len(g5) >= 1
      /\ \A r : Slot(r, 0, g5) => Slot(r, 0, g4) /\ Slot(r, Len(g4), N)
  <2>1. g5 = g4 \o N
    OBVIOUS
  <2>2. IsList(N) /\ Len(N) = 1
    BY <1>5
  <2> HIDE DEF g4, g5, N
  <2>3. Behind(g5, g4, N)
    BY <1>8, <2>1, <2>2, PutBehind
  <2>4. QED BY <2>2, <2>3 DEF Behind
<1>10. /\ IsList(q) /\ Len(q) = Len(g5) + Len(A) /\ q[1] = g5[1] /\ Len(A) \in Nat
       /\ \A r : Slot(r, 0, q) => Slot(r, 0, g5) /\ Slot(r, Len(g5), A)
  <2> HIDE DEF g5
  <2>1. Behind(q, g5, A)
    BY <1>1, <1>2, <1>9, PutBehind
  <2>2. QED BY <1>9, <2>1 DEF Behind
<1> HIDE DEF g2, g3, g4, g5
<1>11. /\ Len(g1) = 2 - 1 /\ Len(g2) = ProgramAt(u) - 1 /\ Len(g3) = SchemaAt(u) - 1
       /\ Len(g4) = CountAt(u) - 1 /\ Len(g5) = CountAt(u)
  <2> DEFINE c == Len(u.capabilities)
             g == Len(u.program)
             s == Len(u.schema)
             l1 == Len(g1)
             l2 == Len(g2)
             l3 == Len(g3)
             l4 == Len(g4)
             l5 == Len(g5)
  <2>1. c \in Nat /\ g \in Nat /\ s \in Nat
    BY <1>4
  <2>2. l1 = 1 /\ l2 = 1 + c /\ l3 = l2 + (1 + g) /\ l4 = l3 + (1 + s) /\ l5 = l4 + 1
    BY <1>3, <1>6, <1>7, <1>8, <1>9
  <2>3. /\ ProgramAt(u) = 2 + c /\ SchemaAt(u) = 2 + c + 1 + g
        /\ CountAt(u) = 2 + c + 1 + g + 1 + s
    BY DEF ProgramAt, SchemaAt, CountAt
  <2> HIDE DEF c, g, s, l1, l2, l3, l4, l5
  <2>4. /\ l1 = 2 - 1 /\ l2 = ProgramAt(u) - 1 /\ l3 = SchemaAt(u) - 1
        /\ l4 = CountAt(u) - 1 /\ l5 = CountAt(u)
    BY <2>1, <2>2, <2>3
  <2>5. QED BY <2>4 DEF l1, l2, l3, l4, l5
<1>12. Len(q) = CountAt(u) + Len(A) /\ Len(q) >= 1 /\ q[1] = PackageHead(u)
  <2>1. Len(g5) \in Nat
    BY <1>9, ListLength
  <2> DEFINE a == Len(A)
             b == Len(g5)
  <2>2. Len(q) = CountAt(u) + a
    BY <1>10, <1>11
  <2>3. a \in Nat /\ CountAt(u) \in Nat /\ CountAt(u) >= 1
    BY <1>9, <1>10, <1>11, <2>1
  <2>4. q[1] = PackageHead(u)
    BY <1>3, <1>6, <1>7, <1>8, <1>9, <1>10
  <2> HIDE DEF a
  <2>5. CountAt(u) + a >= 1
    BY <2>3
  <2>6. QED BY <2>2, <2>4, <2>5 DEF a
<1>13. ASSUME NEW r, Slot(r, 0, q)
       PROVE  /\ Slot(r, 2 - 1, u.capabilities)
              /\ Slot(r, ProgramAt(u) - 1, Blob(u.program))
              /\ Slot(r, SchemaAt(u) - 1, Blob(u.schema))
              /\ Slot(r, CountAt(u) - 1, N)
              /\ Slot(r, CountAt(u), A)
  <2> HIDE DEF N
  <2>1. Slot(r, 0, g5) /\ Slot(r, Len(g5), A)
    BY <1>10, <1>13
  <2>2. Slot(r, 0, g4) /\ Slot(r, Len(g4), N)
    BY <1>9, <2>1
  <2>3. Slot(r, 0, g3) /\ Slot(r, Len(g3), Blob(u.schema))
    BY <1>8, <2>2
  <2>4. Slot(r, 0, g2) /\ Slot(r, Len(g2), Blob(u.program))
    BY <1>7, <2>3
  <2>5. Slot(r, Len(g1), u.capabilities)
    BY <1>6, <2>4
  <2>6. QED BY <1>11, <2>1, <2>2, <2>3, <2>4, <2>5
<1>14. QED BY <1>2, <1>10, <1>12, <1>13 DEF q, A, N

\* A package is read back, and refused where its end is missing.
LEMMA PackageIsRead ==
    ASSUME NEW u, IsPackage(u), validate_assets(u.assets),
           NEW r, IsList(r), Slot(r, 0, EncodePackage(u)), Len(r) <= Len(EncodePackage(u))
    PROVE  DecodePackage(r) = IF Len(r) = Len(EncodePackage(u)) THEN u ELSE NotRead
<1> DEFINE q  == EncodePackage(u)
           as == AssetUnits(u)
           A  == FlattenSeq(as)
           l  == Len(r)
           n  == Len(u.assets)
           P  == ProgramAt(u)
           S  == SchemaAt(u)
           K  == CountAt(u)
           h  == PackageHead(u)
           N  == <<Count(u.assets)>>
           capabilities == ReadUnits(r, 2, Len(u.capabilities))
           program == ReadBlob(r, capabilities.next)
           schema  == ReadBlob(r, program.next)
           count   == ReadUnits(r, schema.next, 1)
           assetAt == [at \in 1..l |-> ReadAsset(r, at)]
           assets  == ReadAll(assetAt, count.next,
                              IF count.next = 0 THEN 0 ELSE count.value[1].count)
           value   == [manifest |-> h.manifest, capabilities |-> capabilities.value,
                       program |-> program.value, schema |-> schema.value,
                       assets |-> assets.value]
<1>1. /\ IsList(q) /\ IsList(A) /\ Len(q) = K + Len(A) /\ q[1] = h /\ Len(q) >= 1
      /\ Slot(r, 2 - 1, u.capabilities) /\ Slot(r, P - 1, Blob(u.program))
      /\ Slot(r, S - 1, Blob(u.schema)) /\ Slot(r, K - 1, N) /\ Slot(r, K, A)
  BY EncodedPackage
<1>2. l \in Nat /\ Len(A) \in Nat /\ Len(q) \in Nat
  BY <1>1, ListLength
<1>3. l <= Len(q)
  OBVIOUS
<1>4. /\ P \in Nat /\ S \in Nat /\ K \in Nat /\ 2 <= P /\ P <= S /\ S <= K
  BY PackageNumbers
<1>5. CASE r = <<>>
  <2>1. l = 0
    BY <1>5, ListEmpty
  <2>2. QED BY <1>1, <1>2, <1>5, <2>1 DEF DecodePackage
<1>6. CASE r # <<>>
  <2>1. 1 <= l
    BY <1>2, <1>6, ListNone
  <2>2. r[1] = h
    <3>1. 1 \in 1..Len(q) /\ 0 + 1 <= Len(r) /\ 0 + 1 = 1
      BY <1>1, <1>2, <2>1
    <3>2. r[0 + 1] = q[1]
      BY <3>1 DEF Slot
    <3>3. QED BY <1>1, <3>1, <3>2
  <2>3. h.unit = "package" /\ h.capabilities = Len(u.capabilities) /\ h.manifest = u.manifest
    BY DEF PackageHead
  <2>4. DecodePackage(r) = IF assets.next # l + 1 \/ ~validate_assets(assets.value)
                           THEN NotRead ELSE value
    <3> HIDE DEF h
    <3>1. QED BY <1>6, <2>2, <2>3 DEF DecodePackage, h
  <2>5. /\ Lists(as) /\ Len(as) = n /\ \A i \in 1..n : as[i] = EncodedAsset(u.assets[i])
        /\ IsList(u.assets)
        /\ \A i \in 1..n : LET a == u.assets[i] IN
              /\ a = [id |-> a.id, kind |-> a.kind, name |-> a.name, units |-> a.units]
              /\ IsList(a.units)
    BY AssetLists DEF IsPackage
  <2>6. IsList(u.capabilities) /\ IsList(u.program) /\ IsList(u.schema)
    BY DEF IsPackage
  <2> HIDE DEF q, as, A, h, value, assets, assetAt
  <2>7. Reading(capabilities, u.capabilities, P, l)
    <3>1. 2 \in Nat /\ 2 >= 1
      OBVIOUS
    <3>2. Reading(ReadUnits(r, 2, Len(u.capabilities)), u.capabilities,
                  2 + Len(u.capabilities), Len(r))
      BY <1>1, <1>2, <3>1, ReadUnitsIs
    <3>3. QED BY <3>2 DEF ProgramAt
  <2> HIDE DEF capabilities
  <2>8. Reading(program, u.program, S, l)
    <3>1. capabilities.next = 0 => program = Failed
      BY ReadBlobFails
    <3>2. ASSUME capabilities = [value |-> u.capabilities, next |-> P]
          PROVE  Reading(program, u.program, S, l)
      <4>1. program = ReadBlob(r, P)
        BY <3>2
      <4>2. P >= 1
        BY <1>4
      <4>3. Reading(ReadBlob(r, P), u.program, P + 1 + Len(u.program), Len(r))
        <5> HIDE DEF P
        <5>1. QED BY <1>1, <1>2, <1>4, <2>6, <4>2, ReadBlobIs
      <4>4. QED BY <4>1, <4>3 DEF SchemaAt
    <3> HIDE DEF program, P, S
    <3>3. P >= 1
      BY <1>4
    <3>4. QED BY <1>2, <1>4, <2>7, <3>1, <3>2, <3>3, Chained
  <2> HIDE DEF program
  <2>9. Reading(schema, u.schema, K, l)
    <3>1. program.next = 0 => schema = Failed
      BY ReadBlobFails
    <3>2. ASSUME program = [value |-> u.program, next |-> S]
          PROVE  Reading(schema, u.schema, K, l)
      <4>1. schema = ReadBlob(r, S)
        BY <3>2
      <4>2. S >= 1
        BY <1>4
      <4>3. Reading(ReadBlob(r, S), u.schema, S + 1 + Len(u.schema), Len(r))
        <5> HIDE DEF S
        <5>1. QED BY <1>1, <1>2, <1>4, <2>6, <4>2, ReadBlobIs
      <4>4. QED BY <4>1, <4>3 DEF CountAt
    <3> HIDE DEF schema, S, K
    <3>3. S >= 1
      BY <1>4
    <3>4. QED BY <1>2, <1>4, <2>8, <3>1, <3>2, <3>3, Chained
  <2> HIDE DEF schema
  <2>10. IsList(N) /\ Len(N) = 1 /\ N[1] = Count(u.assets)
    BY ListOne
  <2>11. Reading(count, N, K + 1, l)
    <3>1. schema.next = 0 => count = Failed
      BY ReadBlobFails
    <3> HIDE DEF N
    <3>2. ASSUME schema = [value |-> u.schema, next |-> K]
          PROVE  Reading(count, N, K + 1, l)
      <4>1. count = ReadUnits(r, K, 1)
        BY <3>2
      <4>2. K >= 1
        BY <1>4
      <4> HIDE DEF K
      <4>3. Reading(ReadUnits(r, K, Len(N)), N, K + Len(N), Len(r))
        BY <1>1, <1>2, <1>4, <4>2, ReadUnitsIs
      <4>4. QED BY <2>10, <4>1, <4>3
    <3> HIDE DEF count, K
    <3>3. K >= 1 /\ K + 1 \in Nat /\ K <= K + 1
      BY <1>4
    <3>4. QED BY <1>2, <1>4, <2>9, <3>1, <3>2, <3>3, Chained
  <2> HIDE DEF count
  <2>12. ASSUME K <= l PROVE Reading(assets, u.assets, K + 1 + Len(A), l)
    <3>1. (K + 1) - 1 <= l
      BY <1>4, <2>12
    <3>2. count = [value |-> N, next |-> K + 1]
      <4> HIDE DEF N, K
      <4>1. QED BY <2>11, <3>1 DEF Reading
    <3>4. count.next = K + 1 /\ count.next # 0 /\ count.value[1].count = n
      <4>1. count.next = K + 1 /\ count.value = N
        BY <3>2
      <4>2. Count(u.assets).count = n
        BY DEF Count
      <4> HIDE DEF N
      <4>3. QED BY <1>4, <2>10, <4>1, <4>2
    <3>5. assets = ReadAll(assetAt, K + 1, n)
      BY <3>4 DEF assets
    <3>6. ASSUME NEW k \in 1..Len(as), NEW a \in K + 1..Len(r) + 1, Slot(r, a - 1, as[k])
          PROVE  Reading(ReadAt(assetAt, a), u.assets[k], a + Len(as[k]), Len(r))
      <4> DEFINE x == u.assets[k]
      <4>1. /\ as[k] = EncodedAsset(x) /\ IsList(x.units)
            /\ x = [id |-> x.id, kind |-> x.kind, name |-> x.name, units |-> x.units]
        BY <2>5
      <4>2. Len(as[k]) = 2 + Len(x.units) /\ Len(x.units) \in Nat
        BY <4>1, EncodedAssetIs, ListLength
      <4>3. a \in Nat /\ a >= 1 /\ a <= l + 1
        BY <1>2, <1>4
      <4> DEFINE y == Len(x.units)
                 z == Len(as[k])
      <4> HIDE DEF x, K
      <4>4. a + 2 + y = a + z /\ z \in Nat
        <5>1. z = 2 + y /\ y \in Nat
          BY <4>2
        <5> HIDE DEF y, z
        <5>2. QED BY <4>3, <5>1
      <4>5. CASE a <= l
        <5>1. a \in 1..Len(r)
          BY <1>2, <4>3, <4>5
        <5>2. ReadAt(assetAt, a) = ReadAsset(r, a)
          BY <5>1 DEF ReadAt, assetAt
        <5>3. Reading(ReadAsset(r, a), x, a + 2 + Len(x.units), Len(r))
          BY <1>2, <3>6, <4>1, <5>1, ReadAssetIs
        <5>4. Reading(ReadAsset(r, a), x, a + z, Len(r))
          BY <4>4, <5>3
        <5>5. QED BY <5>2, <5>4 DEF x
      <4>6. CASE ~(a <= l)
        <5>1. ReadAt(assetAt, a) = Failed
          BY <1>2, <4>3, <4>6 DEF ReadAt, assetAt
        <5>2. z >= 1
          <6>1. z = 2 + y /\ y \in Nat
            BY <4>2
          <6> HIDE DEF y, z
          <6>2. QED BY <6>1
        <5>3. ~((a + z) - 1 <= l)
          <6> HIDE DEF z
          <6>1. QED BY <1>2, <4>3, <4>4, <4>6, <5>2
        <5>4. QED BY <5>1, <5>3 DEF Reading
      <4>7. QED BY <4>5, <4>6
    <3>7. Reading(ReadAll(assetAt, K + 1, Len(as)), u.assets, K + 1 + Len(A), Len(r))
      <4>1. K + 1 \in Nat /\ K + 1 >= 1 /\ (K + 1) - 1 <= Len(r) /\ (K + 1) - 1 = K
        BY <1>4, <3>1
      <4>2. Slot(r, (K + 1) - 1, FlattenSeq(as)) /\ Len(u.assets) = Len(as)
        BY <1>1, <2>5, <4>1 DEF A
      <4>3. 0 \notin DOMAIN assetAt
        BY <1>2 DEF assetAt
      <4> HIDE DEF K
      <4>4. Reading(ReadAll(assetAt, K + 1, Len(as)), u.assets, K + 1 + Len(FlattenSeq(as)), Len(r))
        BY <2>5, <3>6, <4>1, <4>2, <4>3, ReadListIs
      <4>5. QED BY <4>4 DEF A
    <3>8. QED BY <2>5, <3>5, <3>7
  <2>13. CASE l = Len(q)
    <3>1. K <= l
      BY <1>1, <1>2, <1>4, <2>13
    <3>2. schema = [value |-> u.schema, next |-> K]
      <4> HIDE DEF K
      <4>1. K - 1 <= l
        BY <1>4, <3>1
      <4>2. QED BY <2>9, <4>1 DEF Reading
    <3>3. /\ program = [value |-> u.program, next |-> S]
          /\ capabilities = [value |-> u.capabilities, next |-> P]
      <4> HIDE DEF P, S, K
      <4>1. P - 1 <= l /\ S - 1 <= l
        BY <1>4, <3>1
      <4>2. QED BY <2>7, <2>8, <4>1 DEF Reading
    <3>8. assets = [value |-> u.assets, next |-> K + 1 + Len(A)]
      <4>1. Reading(assets, u.assets, K + 1 + Len(A), l)
        BY <2>12, <3>1
      <4>2. (K + 1 + Len(A)) - 1 <= l
        BY <1>1, <1>2, <1>4, <2>13
      <4>3. QED BY <4>1, <4>2 DEF Reading
    <3>9. assets.next = l + 1 /\ assets.value = u.assets
      <4>1. K + 1 + Len(A) = l + 1
        BY <1>1, <1>2, <1>4, <2>13
      <4>2. QED BY <3>8, <4>1
    <3>10. DecodePackage(r) = value
      <4> HIDE DEF value
      <4>1. QED BY <2>4, <3>9
    <3>11. value = u
      <4>1. /\ capabilities.value = u.capabilities /\ program.value = u.program
            /\ schema.value = u.schema
        BY <3>2, <3>3
      <4>2. value = [manifest |-> u.manifest, capabilities |-> u.capabilities,
                     program |-> u.program, schema |-> u.schema, assets |-> u.assets]
        BY <2>3, <3>9, <4>1 DEF value
      <4>3. QED BY <4>2 DEF IsPackage
    <3>12. QED BY <2>13, <3>10, <3>11 DEF q
  <2>14. CASE l # Len(q)
    <3>1. assets.next = 0
      <4>1. CASE K <= l
        <5>1. Reading(assets, u.assets, K + 1 + Len(A), l)
          BY <2>12, <4>1
        <5>2. ~((K + 1 + Len(A)) - 1 <= l)
          BY <1>1, <1>2, <1>4, <1>3, <2>14
        <5>3. QED BY <5>1, <5>2 DEF Reading, Failed
      <4>2. CASE ~(K <= l)
        <5>1. ~((K + 1) - 1 <= l)
          BY <1>4, <4>2
        <5>2. count.next = 0
          <6> HIDE DEF N, K
          <6>1. QED BY <2>11, <5>1 DEF Reading, Failed
        <5>3. assets = ReadAll(assetAt, 0, 0)
          BY <5>2 DEF assets
        <5>4. 0 \notin DOMAIN assetAt
          BY DEF assetAt
        <5>5. QED BY <5>3, <5>4, ReadAllFails
      <4>3. QED BY <4>1, <4>2
    <3>2. assets.next # l + 1
      BY <1>2, <3>1
    <3> HIDE DEF value
    <3>3. QED BY <2>4, <2>14, <3>2 DEF q
  <2>15. QED BY <2>13, <2>14
<1>7. QED BY <1>5, <1>6

\* A digest that was hit still is for the same section.
LEMMA HitDigest ==
    ASSUME NEW s, NEW w, Hit(w, SectionDigest(s))
    PROVE  w.section = s.id
<1> DEFINE d == SectionDigest(s)
<1>1. d = [unit |-> "digest", section |-> s.id, flags |-> s.flags,
           digest |-> DigestOf(s.id, s.kind, s.flags, Len(s.payload), s.payload)]
  BY DEF SectionDigest
<1>2. d.unit = "digest" /\ d.section = s.id
  BY <1>1
<1>3. Damaged(d) = {[d EXCEPT !.digest = <<>>]}
  <2> HIDE DEF d
  <2>1. QED BY <1>2 DEF Damaged
<1>4. w = d \/ w = [d EXCEPT !.digest = <<>>]
  BY <1>3 DEF Hit
<1>5. QED BY <1>1, <1>4

\* The sections that a manifest covers.
LEMMA CoveredIs ==
    ASSUME NEW q, SectionList(q), DistinctIds(q), NEW c, Closed(q, c), NEW b,
           Near(b, q[Len(q)].payload), Len(b) = Len(q[Len(q)].payload)
    PROVE  {DecodeManifest(b).digests[i].section : i \in DOMAIN DecodeManifest(b).digests} = c
<1> DEFINE m == ManifestOf(q, c)
           r == DecodeManifest(b)
           n == Len(m.digests)
<1>1. IsList(q)
  BY DEF SectionList
<1>2. /\ Manifested(q[Len(q)].payload, m)
      /\ \A id \in c : \E i \in 1..Len(q) : q[i].id = id
  BY <1>1, ClosedIs
<1>3. /\ ManifestLists(m)
      /\ \A j \in 1..n : \E i \in 1..Len(q) : q[i].id \in c /\ m.digests[j] = SectionDigest(q[i])
      /\ \A i \in 1..Len(q) : q[i].id \in c => \E j \in 1..n : m.digests[j] = SectionDigest(q[i])
  <2>1. ManifestLists(m)
    BY <1>1, ManifestOfIs
  <2>2. ASSUME NEW j \in 1..n
        PROVE  \E i \in 1..Len(q) : q[i].id \in c /\ m.digests[j] = SectionDigest(q[i])
    BY <1>1, ManifestOfIs
  <2>3. ASSUME NEW i \in 1..Len(q), q[i].id \in c
        PROVE  \E j \in 1..n : m.digests[j] = SectionDigest(q[i])
    BY <1>1, <2>3, ManifestOfIs
  <2> HIDE DEF m, n
  <2>4. QED BY <2>1, <2>2, <2>3
<1> HIDE DEF m
<1>4. /\ IsList(r.digests) /\ Len(r.digests) = n
      /\ \A i \in 1..n : Hit(r.digests[i], m.digests[i])
  BY <1>2, <1>3, NearManifest
<1>5. DOMAIN r.digests = 1..n
  BY <1>4, ListSeq
<1> HIDE DEF r, n
<1>6. ASSUME NEW j \in 1..n PROVE r.digests[j].section \in c
  <2>1. PICK i \in 1..Len(q) : q[i].id \in c /\ m.digests[j] = SectionDigest(q[i])
    BY <1>3
  <2>2. Hit(r.digests[j], SectionDigest(q[i]))
    BY <1>4, <2>1
  <2>3. QED BY <2>1, <2>2, HitDigest
<1>7. ASSUME NEW id \in c PROVE \E j \in 1..n : r.digests[j].section = id
  <2>1. PICK i \in 1..Len(q) : q[i].id = id
    BY <1>2
  <2>2. PICK j \in 1..n : m.digests[j] = SectionDigest(q[i])
    BY <1>3, <2>1
  <2>3. Hit(r.digests[j], SectionDigest(q[i]))
    BY <1>4, <2>2
  <2>4. r.digests[j].section = id
    BY <2>1, <2>3, HitDigest
  <2>5. QED BY <2>4
<1>8. {r.digests[i].section : i \in DOMAIN r.digests} = c
  BY <1>5, <1>6, <1>7
<1>9. QED BY <1>8 DEF r

LEMMA NearSelf ==
    ASSUME NEW q, IsList(q)
    PROVE  Near(q, q)
<1>1. Len(q) \in Nat
  BY ListLength
<1>2. QED BY <1>1 DEF Near, Hit

\* A manifest without the lists that came later.
Stripped(m) == [m EXCEPT !.places = <<>>, !.workers = <<>>]

LEMMA StrippedIs ==
    ASSUME NEW m, m = [entry |-> m.entry, extensions |-> m.extensions, archives |-> m.archives,
                       digests |-> m.digests, names |-> m.names, places |-> m.places,
                       workers |-> m.workers]
    PROVE  Stripped(m) = [entry |-> m.entry, extensions |-> m.extensions,
                          archives |-> m.archives, digests |-> m.digests, names |-> m.names,
                          places |-> <<>>, workers |-> <<>>]
<1> DEFINE x == [m EXCEPT !.places = <<>>]
<1>1. x = [entry |-> m.entry, extensions |-> m.extensions, archives |-> m.archives,
           digests |-> m.digests, names |-> m.names, places |-> <<>>, workers |-> m.workers]
  OBVIOUS
<1>2. Stripped(m) = [x EXCEPT !.workers = <<>>]
  BY DEF Stripped
<1> HIDE DEF x
<1>3. QED BY <1>1, <1>2

LEMMA TakenNone ==
    ASSUME NEW q, NEW at \in Nat
    PROVE  Taken(q, at, 0) = <<>>
<1>1. IsTaken(Taken(q, at, 0), q, at, 0)
  BY TakenIs
<1>2. QED BY <1>1, ListNone DEF IsTaken

\* A manifest is read back as it was pushed.
LEMMA ManifestWhole ==
    ASSUME NEW m, ManifestLists(m),
           m = [entry |-> m.entry, extensions |-> m.extensions, archives |-> m.archives,
                digests |-> m.digests, names |-> m.names, places |-> m.places,
                workers |-> m.workers]
    PROVE  /\ DecodeManifest(EncodeManifest(m)) = m
           /\ DecodeManifest(Legacy(EncodeManifest(m))) = Stripped(m)
<1> DEFINE p == EncodeManifest(m)
           g == Legacy(p)
<1>1. /\ IsList(p) /\ Len(p) = WorkersAt(m) + 1 + Len(m.workers)
      /\ Slot(p, 1, m.extensions) /\ Slot(p, ArchivesAt(m), m.archives)
      /\ Slot(p, DigestsAt(m), m.digests) /\ Slot(p, NamesAt(m), m.names)
      /\ Slot(p, PlacesAt(m) + 1, m.places) /\ Slot(p, WorkersAt(m) + 1, m.workers)
  BY EncodedManifest
<1>2. /\ p[1] = ManifestHead(m) /\ Full(p, m) /\ IsList(g) /\ Len(g) = PlacesAt(m)
      /\ \A i \in 1..PlacesAt(m) : g[i] = p[i]
  BY LegacyIs
<1> DEFINE x == Len(m.extensions)
           y == Len(m.archives)
           d == Len(m.digests)
           n == Len(m.names)
           k == Len(m.places)
           l == Len(m.workers)
<1>3. /\ x \in Nat /\ y \in Nat /\ d \in Nat /\ n \in Nat /\ k \in Nat /\ l \in Nat
      /\ ArchivesAt(m) = 1 + x /\ DigestsAt(m) = 1 + x + y /\ NamesAt(m) = 1 + x + y + d
      /\ PlacesAt(m) = 1 + x + y + d + n /\ WorkersAt(m) = 1 + x + y + d + n + 1 + k
  BY ListLength DEF ManifestLists, ArchivesAt, DigestsAt, NamesAt, PlacesAt, WorkersAt
<1>4. Len(p) \in Nat /\ Len(g) \in Nat
  BY <1>1, <1>2, ListLength
<1> HIDE DEF p, g, x, y, d, n, k, l
<1>5. DecodeManifest(p) = Read(p, m, k, WorkersAt(m), l)
  BY <1>1, <1>2, DecodedManifest DEF k, l
<1>6. DecodeManifest(g) = Read(g, m, 0, PlacesAt(m), 0)
  <2>1. 1 \in 1..PlacesAt(m)
    BY <1>3
  <2>2. g[1] = ManifestHead(m)
    BY <1>2, <2>1
  <2>3. QED BY <1>2, <2>2, DecodedManifest DEF Older
<1>7. ASSUME NEW r, IsList(r), Len(r) >= PlacesAt(m), \A i \in 1..PlacesAt(m) : r[i] = p[i]
      PROVE  /\ Taken(r, 1, x) = m.extensions /\ Taken(r, ArchivesAt(m), y) = m.archives
             /\ Taken(r, DigestsAt(m), d) = m.digests /\ Taken(r, NamesAt(m), n) = m.names
  <2>1. Len(r) \in Nat
    BY <1>7, ListLength
  <2>2. ASSUME NEW at \in Nat, NEW q, IsList(q), Slot(p, at, q), at + Len(q) <= PlacesAt(m),
               at >= 1, Len(p) >= PlacesAt(m)
        PROVE  Taken(r, at, Len(q)) = q
    <3>1. Len(q) \in Nat /\ PlacesAt(m) \in Nat
      BY <1>3, <2>2, ListLength
    <3>2. ASSUME NEW i \in 1..Len(q) PROVE r[at + i] = q[i]
      <4>1. at + i \in 1..PlacesAt(m) /\ at + i <= Len(p)
        BY <1>4, <2>2, <3>1
      <4>2. QED BY <1>7, <2>2, <4>1 DEF Slot
    <3>3. Slot(r, at, q)
      BY <2>2, <3>2 DEF Slot
    <3>4. at + Len(q) <= Len(r)
      BY <1>7, <2>1, <2>2, <3>1
    <3>5. QED BY <2>1, <3>3, <3>4, SlotTaken
  <2>3. /\ ArchivesAt(m) \in Nat /\ DigestsAt(m) \in Nat /\ NamesAt(m) \in Nat /\ 1 \in Nat
        /\ 1 + x <= PlacesAt(m) /\ ArchivesAt(m) + y <= PlacesAt(m)
        /\ DigestsAt(m) + d <= PlacesAt(m) /\ NamesAt(m) + n <= PlacesAt(m)
        /\ ArchivesAt(m) >= 1 /\ DigestsAt(m) >= 1 /\ NamesAt(m) >= 1 /\ 1 >= 1
    BY <1>3
  <2>4. Len(p) >= PlacesAt(m)
    BY <1>1, <1>3 DEF l
  <2>5. Taken(r, 1, x) = m.extensions
    BY <1>1, <2>2, <2>3, <2>4 DEF x, ManifestLists
  <2>6. Taken(r, ArchivesAt(m), y) = m.archives
    BY <1>1, <2>2, <2>3, <2>4 DEF y, ManifestLists
  <2>7. Taken(r, DigestsAt(m), d) = m.digests
    BY <1>1, <2>2, <2>3, <2>4 DEF d, ManifestLists
  <2>8. Taken(r, NamesAt(m), n) = m.names
    BY <1>1, <2>2, <2>3, <2>4 DEF n, ManifestLists
  <2>9. QED BY <2>5, <2>6, <2>7, <2>8
<1>8. DecodeManifest(p) = m
  <2>1. Len(p) >= PlacesAt(m) /\ \A i \in 1..PlacesAt(m) : p[i] = p[i]
    BY <1>1, <1>3 DEF l
  <2>2. /\ Taken(p, 1, x) = m.extensions /\ Taken(p, ArchivesAt(m), y) = m.archives
        /\ Taken(p, DigestsAt(m), d) = m.digests /\ Taken(p, NamesAt(m), n) = m.names
    BY <1>1, <1>7, <2>1
  <2>3. Taken(p, PlacesAt(m) + 1, k) = m.places
    <3>1. (PlacesAt(m) + 1) + Len(m.places) <= Len(p)
      BY <1>1, <1>3 DEF k, l
    <3>2. QED BY <1>1, <1>4, <3>1, SlotTaken DEF k
  <2>4. Taken(p, WorkersAt(m) + 1, l) = m.workers
    <3>1. (WorkersAt(m) + 1) + Len(m.workers) <= Len(p)
      BY <1>1, <1>3 DEF k, l
    <3>2. QED BY <1>1, <1>4, <3>1, SlotTaken DEF l
  <2>5. Read(p, m, k, WorkersAt(m), l) =
          [entry |-> m.entry, extensions |-> m.extensions, archives |-> m.archives,
           digests |-> m.digests, names |-> m.names, places |-> m.places, workers |-> m.workers]
    BY <2>2, <2>3, <2>4 DEF Read, x, y, d, n
  <2>6. QED BY <1>5, <2>5
<1>9. DecodeManifest(g) = Stripped(m)
  <2>1. Len(g) >= PlacesAt(m)
    BY <1>2, <1>3
  <2>2. /\ Taken(g, 1, x) = m.extensions /\ Taken(g, ArchivesAt(m), y) = m.archives
        /\ Taken(g, DigestsAt(m), d) = m.digests /\ Taken(g, NamesAt(m), n) = m.names
    BY <1>2, <1>7, <2>1
  <2>3. Taken(g, PlacesAt(m) + 1, 0) = <<>>
    <3>1. PlacesAt(m) + 1 \in Nat
      BY <1>3
    <3>2. QED BY <3>1, TakenNone
  <2>4. Read(g, m, 0, PlacesAt(m), 0) =
          [entry |-> m.entry, extensions |-> m.extensions, archives |-> m.archives,
           digests |-> m.digests, names |-> m.names, places |-> <<>>, workers |-> <<>>]
    BY <2>2, <2>3 DEF Read, x, y, d, n
  <2>5. QED BY <1>6, <2>4, StrippedIs
<1>10. QED BY <1>8, <1>9 DEF p, g

\* What an older build pushes is the same without the lists that came later.
LEMMA LegacyStripped ==
    ASSUME NEW m, ManifestLists(m),
           m = [entry |-> m.entry, extensions |-> m.extensions, archives |-> m.archives,
                digests |-> m.digests, names |-> m.names, places |-> m.places,
                workers |-> m.workers]
    PROVE  Legacy(EncodeManifest(m)) = Legacy(EncodeManifest(Stripped(m)))
<1> DEFINE s == Stripped(m)
           p == EncodeManifest(m)
           q == EncodeManifest(s)
           g == Legacy(p)
           h == Legacy(q)
<1>1. /\ s.entry = m.entry /\ s.extensions = m.extensions /\ s.archives = m.archives
      /\ s.digests = m.digests /\ s.names = m.names /\ s.places = <<>> /\ s.workers = <<>>
  BY StrippedIs
<1> HIDE DEF s
<1>2. ManifestLists(s)
  BY <1>1, ListEmpty DEF ManifestLists
<1>3. /\ PlacesAt(s) = PlacesAt(m) /\ NamesAt(s) = NamesAt(m) /\ DigestsAt(s) = DigestsAt(m)
      /\ ArchivesAt(s) = ArchivesAt(m) /\ ManifestHead(s) = ManifestHead(m)
  BY <1>1 DEF PlacesAt, NamesAt, DigestsAt, ArchivesAt, ManifestHead
<1>4. /\ IsList(p) /\ Len(p) = WorkersAt(m) + 1 + Len(m.workers)
      /\ Slot(p, 1, m.extensions) /\ Slot(p, ArchivesAt(m), m.archives)
      /\ Slot(p, DigestsAt(m), m.digests) /\ Slot(p, NamesAt(m), m.names)
  BY EncodedManifest
<1>5. /\ IsList(q) /\ Len(q) = WorkersAt(s) + 1 + Len(s.workers)
      /\ Slot(q, 1, m.extensions) /\ Slot(q, ArchivesAt(m), m.archives)
      /\ Slot(q, DigestsAt(m), m.digests) /\ Slot(q, NamesAt(m), m.names)
  <2>1. /\ IsList(q) /\ Len(q) = WorkersAt(s) + 1 + Len(s.workers)
        /\ Slot(q, 1, s.extensions) /\ Slot(q, ArchivesAt(s), s.archives)
        /\ Slot(q, DigestsAt(s), s.digests) /\ Slot(q, NamesAt(s), s.names)
    BY <1>2, EncodedManifest
  <2> HIDE DEF q
  <2>2. QED BY <1>1, <1>3, <2>1
<1>6. /\ p[1] = ManifestHead(m) /\ IsList(g) /\ Len(g) = PlacesAt(m)
      /\ \A i \in 1..PlacesAt(m) : g[i] = p[i]
  BY LegacyIs
<1>7. /\ q[1] = ManifestHead(m) /\ IsList(h) /\ Len(h) = PlacesAt(m)
      /\ \A i \in 1..PlacesAt(m) : h[i] = q[i]
  <2>1. /\ q[1] = ManifestHead(s) /\ IsList(h) /\ Len(h) = PlacesAt(s)
        /\ \A i \in 1..PlacesAt(s) : h[i] = q[i]
    BY <1>2, LegacyIs
  <2> HIDE DEF q, h
  <2>2. QED BY <1>3, <2>1
<1> DEFINE x == Len(m.extensions)
           y == Len(m.archives)
           d == Len(m.digests)
           n == Len(m.names)
<1>8. /\ x \in Nat /\ y \in Nat /\ d \in Nat /\ n \in Nat
      /\ ArchivesAt(m) = 1 + x /\ DigestsAt(m) = 1 + x + y /\ NamesAt(m) = 1 + x + y + d
      /\ PlacesAt(m) = 1 + x + y + d + n
  BY ListLength DEF ManifestLists, ArchivesAt, DigestsAt, NamesAt, PlacesAt
<1>9. Len(p) >= PlacesAt(m) /\ Len(q) >= PlacesAt(m)
  <2>1. /\ WorkersAt(m) \in Nat /\ WorkersAt(s) \in Nat /\ PlacesAt(m) \in Nat
        /\ PlacesAt(m) < WorkersAt(m) /\ PlacesAt(s) < WorkersAt(s)
    BY <1>2, ManifestNumbers
  <2>2. Len(m.workers) \in Nat /\ Len(s.workers) \in Nat
    BY <1>2, ListLength DEF ManifestLists
  <2> HIDE DEF p, q
  <2>3. QED BY <1>3, <1>4, <1>5, <2>1, <2>2
<1> HIDE DEF p, q, g, h
<1>10. ASSUME NEW at \in Nat, NEW z, Slot(p, at, z), Slot(q, at, z), NEW j \in 1..Len(z),
              at + j <= PlacesAt(m)
       PROVE  p[at + j] = q[at + j]
  <2>1. Len(p) \in Nat /\ Len(q) \in Nat /\ PlacesAt(m) \in Nat
    BY <1>4, <1>5, <1>8, ListLength
  <2>2. at + j <= Len(p) /\ at + j <= Len(q)
    BY <1>9, <1>10, <2>1
  <2>3. p[at + j] = z[j] /\ q[at + j] = z[j]
    BY <1>10, <2>2 DEF Slot
  <2>4. QED BY <2>3
<1>11. ASSUME NEW i \in 1..PlacesAt(m) PROVE p[i] = q[i]
  <2> HIDE DEF x, y, d, n
  <2>1. CASE i = 1
    BY <1>6, <1>7, <2>1
  <2>2. CASE i - 1 \in 1..x
    <3>1. 1 + (i - 1) = i /\ 1 \in Nat /\ i <= PlacesAt(m)
      BY <1>8
    <3>2. p[1 + (i - 1)] = q[1 + (i - 1)]
      BY <1>4, <1>5, <1>10, <2>2, <3>1 DEF x
    <3>3. QED BY <3>1, <3>2
  <2>3. CASE i - ArchivesAt(m) \in 1..y
    <3>1. ArchivesAt(m) + (i - ArchivesAt(m)) = i /\ ArchivesAt(m) \in Nat /\ i <= PlacesAt(m)
      BY <1>8
    <3>2. p[ArchivesAt(m) + (i - ArchivesAt(m))] = q[ArchivesAt(m) + (i - ArchivesAt(m))]
      BY <1>4, <1>5, <1>10, <2>3, <3>1 DEF y
    <3>3. QED BY <3>1, <3>2
  <2>4. CASE i - DigestsAt(m) \in 1..d
    <3>1. DigestsAt(m) + (i - DigestsAt(m)) = i /\ DigestsAt(m) \in Nat /\ i <= PlacesAt(m)
      BY <1>8
    <3>2. p[DigestsAt(m) + (i - DigestsAt(m))] = q[DigestsAt(m) + (i - DigestsAt(m))]
      BY <1>4, <1>5, <1>10, <2>4, <3>1 DEF d
    <3>3. QED BY <3>1, <3>2
  <2>5. CASE i - NamesAt(m) \in 1..n
    <3>1. NamesAt(m) + (i - NamesAt(m)) = i /\ NamesAt(m) \in Nat /\ i <= PlacesAt(m)
      BY <1>8
    <3>2. p[NamesAt(m) + (i - NamesAt(m))] = q[NamesAt(m) + (i - NamesAt(m))]
      BY <1>4, <1>5, <1>10, <2>5, <3>1 DEF n
    <3>3. QED BY <3>1, <3>2
  <2>6. QED BY <1>8, <2>1, <2>2, <2>3, <2>4, <2>5
<1>12. g = h
  <2>1. \A i \in 1..Len(g) : g[i] = h[i]
    BY <1>6, <1>7, <1>11
  <2>2. QED BY <1>6, <1>7, <2>1, ListSame
<1>13. QED BY <1>12 DEF g, h, p, q, s

\* A section of the written file is found as it was pushed.
LEMMA FoundWhole ==
    ASSUME NEW q, SectionList(q), DistinctIds(q), NEW key, NEW u, u = Written(q, key),
           NEW S, S = ById(q), NEW st, st = Starts(S)
    PROVE  /\ IsRead(Archive_decode(u)) /\ Finds(Archive_decode(u), u, S, st)
           /\ Len(Archive_decode(u).entries) = Len(q)
           /\ \A k \in 1..Len(S) : section_bytes(Archive_decode(u), Entry(S[k], st[k])) = S[k].payload
           /\ \A i \in 1..Len(q) : Found(Archive_decode(u), q[i])
<1> DEFINE a == Archive_decode(u)
<1>1. Sorted(S, q) /\ Laying(st, S) /\ Lays(u, S, st)
  BY WrittenIs
<1>2. SectionList(S) /\ IsList(u) /\ Len(S) = Len(q)
      /\ \A k, l \in 1..Len(S) : S[k].id = S[l].id => k = l
  BY <1>1 DEF Sorted, Lays
<1>3. Near(u, u)
  BY <1>2, NearSelf
<1>4. Carries(u, S, st)
  BY <1>1, <1>2, <1>3, NearCarries
<1>5. IsRead(a)
  <2>1. Len(u) >= TableOffset + Len(S) /\ \A i \in 1..Len(S) : st[i] + Len(S[i].payload) <= Len(u)
    BY <1>1 DEF Lays
  <2>2. QED BY <1>2, <1>4, <2>1, OpensWhole
<1>6. Finds(a, u, S, st)
  BY <1>2, <1>4, <1>5, OpenedIs
<1>7. Len(a.entries) = Len(q) /\ a.units = u
  BY <1>2, <1>6 DEF Finds, Accepted
<1> HIDE DEF a
<1>8. ASSUME NEW k \in 1..Len(S) PROVE section_bytes(a, Entry(S[k], st[k])) = S[k].payload
  <2> DEFINE p == S[k].payload
             b == section_bytes(a, Entry(S[k], st[k]))
  <2>1. /\ st[k] \in Nat /\ st[k] + Len(p) <= Len(u) /\ IsList(p)
        /\ \A j \in 1..Len(p) : u[st[k] + j] = p[j]
    BY <1>1, <1>2 DEF Lays, Laying, SectionList, Sectioned
  <2>2. b = Taken(u, st[k], Len(p))
    BY <1>7, EntryIs DEF section_bytes
  <2>3. Slot(u, st[k], p)
    BY <2>1 DEF Slot
  <2>4. Len(u) \in Nat
    BY <1>2, ListLength
  <2> HIDE DEF p, b
  <2>5. b = p
    BY <2>1, <2>2, <2>3, <2>4, SlotTaken
  <2>6. QED BY <2>5 DEF b, p
<1>9. ASSUME NEW i \in 1..Len(q) PROVE Found(a, q[i])
  <2>1. PICK k \in 1..Len(S) : S[k] = q[i]
    BY <1>1 DEF Sorted
  <2> DEFINE s == S[k]
             e == Entry(S[k], st[k])
  <2>2. HasSection(a, s.id) /\ section(a, s.id) = e
    BY <1>2, <1>6, SectionIs
  <2>3. /\ e.kind = s.kind /\ e.flags = s.flags /\ e.hash = s.hash /\ e.align = s.align
        /\ e.offset = st[k]
    BY EntryIs
  <2>4. section_bytes(a, e) = s.payload
    BY <1>8
  <2>5. s.align > 1 => st[k] % s.align = 0
    BY <1>1 DEF Laying
  <2> HIDE DEF s, e
  <2>6. Found(a, s)
    BY <2>2, <2>3, <2>4, <2>5 DEF Found
  <2>7. QED BY <2>1, <2>6 DEF s
<1>10. QED BY <1>5, <1>6, <1>7, <1>8, <1>9 DEF a

\* The archive without a manifest has none to verify.
LEMMA NoneFound ==
    ASSUME NEW q, SectionList(q), \A i \in 1..Len(q) : q[i].kind # "Manifest",
           NEW S, Sorted(S, q), NEW st, NEW f, NEW a, Finds(a, f, S, st)
    PROVE  Manifests(a) = {}
<1>1. DOMAIN a.entries = 1..Len(S) /\ \A i \in 1..Len(S) : a.entries[i] = Entry(S[i], st[i])
  BY ListSeq DEF Finds
<1>2. \A i \in 1..Len(S) : a.entries[i].kind = S[i].kind
  BY <1>1, EntryIs
<1>3. ASSUME NEW k \in 1..Len(S) PROVE S[k].kind # "Manifest"
  <2>1. PICK i \in 1..Len(q) : S[k] = q[i]
    BY DEF Sorted
  <2>2. QED BY <2>1
<1>4. \A i \in DOMAIN a.entries : a.entries[i].kind # "Manifest"
  BY <1>1, <1>2, <1>3
<1>5. {i \in DOMAIN a.entries : a.entries[i].kind = "Manifest"} = {}
  BY <1>4
<1>6. QED BY <1>5 DEF Manifests, OfKind

\* The written manifest is found, and its digests hold.
LEMMA ManifestHolds ==
    ASSUME NEW q, SectionList(q), DistinctIds(q), NEW c, Closed(q, c), NEW key,
           NEW u, u = Written(q, key)
    PROVE  /\ manifest(Archive_decode(u)) = DecodeManifest(q[Len(q)].payload)
           /\ verify_manifest_digests(Archive_decode(u))
<1> DEFINE a  == Archive_decode(u)
           S  == ById(q)
           st == Starts(S)
           m  == ManifestOf(q, c)
           p  == q[Len(q)].payload
           r  == DecodeManifest(p)
<1>1. /\ Finds(a, u, S, st)
      /\ \A k \in 1..Len(S) : section_bytes(a, Entry(S[k], st[k])) = S[k].payload
      /\ \A i \in 1..Len(q) : Found(a, q[i])
  BY FoundWhole
<1>2. Sorted(S, q) /\ Laying(st, S) /\ Lays(u, S, st)
  BY WrittenIs
<1>3. SectionList(S) /\ IsList(u) /\ IsList(q)
      /\ \A k, l \in 1..Len(S) : S[k].id = S[l].id => k = l
  BY <1>2 DEF Sorted, Lays, SectionList
<1>4. Near(u, u)
  BY <1>3, NearSelf
<1>5. Len(q) \in 1..Len(q) /\ Manifested(p, m) /\ IsList(p)
  <2>1. Len(q) \in 1..Len(q) /\ Manifested(p, m)
    BY <1>3, ClosedIs
  <2>2. QED BY <2>1 DEF SectionList, Sectioned
<1> HIDE DEF a, S, st
<1>6. manifest(a) = r
  <2>1. PICK k \in 1..Len(S) :
            /\ S[k] = q[Len(q)] /\ Manifests(a) = {k}
            /\ manifest(a) = DecodeManifest(section_bytes(a, Entry(S[k], st[k])))
    BY <1>1, <1>2, <1>4, ManifestFound
  <2>2. section_bytes(a, Entry(S[k], st[k])) = p
    BY <1>1, <2>1
  <2>3. QED BY <2>1, <2>2
<1>7. /\ r = m \/ r = Stripped(m)
      /\ r.digests = m.digests
  <2>1. /\ ManifestLists(m)
        /\ m = [entry |-> m.entry, extensions |-> m.extensions, archives |-> m.archives,
                digests |-> m.digests, names |-> m.names, places |-> m.places,
                workers |-> m.workers]
    BY <1>3, ManifestOfIs
  <2> HIDE DEF m, p
  <2>2. DecodeManifest(EncodeManifest(m)) = m /\ DecodeManifest(Legacy(EncodeManifest(m))) = Stripped(m)
    BY <2>1, ManifestWhole
  <2>3. r = m \/ r = Stripped(m)
    BY <1>5, <2>2 DEF Manifested
  <2>4. Stripped(m).digests = m.digests
    BY <2>1, StrippedIs
  <2>5. QED BY <2>3, <2>4
<1>8. IsRead(r) /\ IsList(r.digests)
  <2>1. Near(p, p) /\ ManifestLists(m)
    BY <1>3, <1>5, NearSelf, ManifestOfIs
  <2> HIDE DEF m, p
  <2>2. QED BY <1>5, <2>1, NearManifest
<1>9. ASSUME NEW j \in DOMAIN m.digests PROVE DigestHolds(a, m.digests[j])
  <2>1. DOMAIN m.digests = 1..Len(m.digests)
    BY <1>7, <1>8, ListSeq
  <2>2. PICK i \in 1..Len(q) : q[i].id \in c /\ m.digests[j] = SectionDigest(q[i])
    BY <1>3, <2>1, ManifestOfIs
  <2>3. PICK k \in 1..Len(S) : S[k] = q[i]
    BY <1>2 DEF Sorted
  <2> DEFINE s == S[k]
             e == Entry(S[k], st[k])
  <2>4. HasSection(a, s.id) /\ section(a, s.id) = e
    BY <1>1, <1>3, SectionIs
  <2>5. e.id = s.id /\ e.kind = s.kind /\ e.unpacked = Len(s.payload)
    BY EntryIs
  <2>6. section_bytes(a, e) = s.payload
    BY <1>1
  <2> HIDE DEF s, e
  <2>7. DigestHolds(a, SectionDigest(s))
    BY <2>4, <2>5, <2>6 DEF DigestHolds, SectionDigest
  <2>8. QED BY <2>2, <2>3, <2>7 DEF s
<1> HIDE DEF m, r
<1>10. verify_manifest_digests(a)
  BY <1>6, <1>7, <1>8, <1>9 DEF verify_manifest_digests
<1>11. QED BY <1>6, <1>10 DEF a, r

LEMMA UnpackIsRead ==
    ASSUME NEW a, verify_manifest_digests(a)
    PROVE  IsRead(unpack(a))
<1>1. unpack(a) = [sections |-> [i \in DOMAIN a.entries |-> section_bytes(a, a.entries[i])]]
  BY DEF unpack
<1>2. "sections" \in DOMAIN unpack(a) /\ "sections" \notin DOMAIN NotRead
  BY <1>1 DEF NotRead
<1>3. QED BY <1>2 DEF IsRead

(***************************************************************************)
(* What the build was given and what became of its file, in every state.   *)
(***************************************************************************)

\* An archive, while its sections are pushed and when it is written.
ArchiveWritten ==
    /\ written = [format |-> "v1", sections |-> written.sections, key |-> written.key]
    /\ SectionList(written.sections) /\ written.key \in Keys \cup {NoKey}
    /\ \/ \A i \in 1..Len(written.sections) : written.sections[i].kind # "Manifest"
       \/ \E c : Closed(written.sections, c)
    /\ \/ file = <<>> /\ fault = "none" /\ written.key = NoKey
       \/ /\ DistinctIds(written.sections)
          /\ Faulty(file, Written(written.sections, written.key), fault)

Carried(p) == [p EXCEPT !.program = encode_binary(p.program)]

PackageWritten ==
    /\ written = [format |-> "v2", package |-> written.package]
    /\ written.package \in Packaged /\ validate_assets(written.package.assets)
    /\ Faulty(file, EncodePackage(Carried(written.package)), fault)
    /\ fault \notin {"garbled", "misled"}

ProgramWritten ==
    /\ written = [format |-> "program", program |-> written.program]
    /\ written.program \in Programs
    /\ Faulty(file, encode_binary(written.program), fault)
    /\ fault \notin {"garbled", "misled"}

BuildInv == ArchiveWritten \/ PackageWritten \/ ProgramWritten

LEMMA WrittenSome ==
    ASSUME NEW q, SectionList(q), DistinctIds(q), NEW key
    PROVE  IsList(Written(q, key)) /\ Len(Written(q, key)) >= 1
<1> DEFINE S  == ById(q)
           u  == Written(q, key)
           st == Starts(S)
<1>1. Sorted(S, q) /\ Lays(u, S, st)
  BY WrittenIs
<1>2. Len(S) \in Nat /\ Len(u) \in Nat
  <2>1. IsList(S) /\ IsList(u)
    BY <1>1 DEF Sorted, SectionList, Lays
  <2>2. QED BY <2>1, ListLength
<1> HIDE DEF S, u, st
<1>3. Len(u) >= 1
  BY <1>1, <1>2 DEF Lays, TableOffset
<1>4. QED BY <1>1, <1>3 DEF Lays, u

LEMMA BuildingIs ==
    ASSUME BuildInv, Building
    PROVE  /\ written = [format |-> "v1", sections |-> written.sections, key |-> NoKey]
           /\ Sections = written.sections /\ SectionList(Sections)
           /\ DOMAIN Sections = 1..Len(Sections) /\ Len(Sections) \in Nat
           /\ file = <<>> /\ fault = "none" /\ written.key = NoKey
<1>1. ArchiveWritten /\ written.format = "v1" /\ file = <<>> /\ fault = "none"
  BY DEF BuildInv, Building, PackageWritten, ProgramWritten
<1>2. written.key = NoKey
  <2>1. SUFFICES ASSUME DistinctIds(written.sections),
                        Faulty(file, Written(written.sections, written.key), fault)
                 PROVE  FALSE
    BY <1>1 DEF ArchiveWritten
  <2>2. <<>> = Written(written.sections, written.key)
    BY <1>1, <2>1 DEF Faulty
  <2>3. Len(Written(written.sections, written.key)) >= 1
    BY <1>1, <2>1, WrittenSome DEF ArchiveWritten
  <2>4. QED BY <2>2, <2>3, ListEmpty
<1>3. Sections = written.sections /\ SectionList(Sections)
  BY <1>1 DEF Sections, ArchiveWritten
<1>4. DOMAIN Sections = 1..Len(Sections) /\ Len(Sections) \in Nat
  BY <1>3, ListSeq DEF SectionList
<1>5. QED BY <1>1, <1>2, <1>3, <1>4 DEF ArchiveWritten

Longer(r, q, s) == \A i \in 1..Len(r) : r[i] = s \/ \E j \in 1..Len(q) : r[i] = q[j]

LEMMA SectionAppend ==
    ASSUME NEW q, SectionList(q), NEW s, Sectioned(s), NEW r, r = Append(q, s)
    PROVE  SectionList(r) /\ Longer(r, q, s)
<1>1. Joined(r, q, <<s>>) /\ Len(<<s>>) = 1 /\ <<s>>[1] = s /\ Len(q) \in Nat
  BY ListAppend, ListOne, ListLength DEF SectionList
<1>2. IsList(r) /\ Len(r) = Len(q) + 1 /\ r[Len(q) + 1] = s /\ \A i \in 1..Len(q) : r[i] = q[i]
  BY <1>1 DEF Joined
<1>3. ASSUME NEW i \in 1..Len(r) PROVE r[i] = s \/ \E j \in 1..Len(q) : r[i] = q[j]
  <2>1. i \in 1..Len(q) \/ i = Len(q) + 1
    BY <1>1, <1>2
  <2>2. QED BY <1>2, <2>1
<1>4. QED BY <1>2, <1>3 DEF SectionList, Longer

LEMMA PushStep ==
    ASSUME BuildInv, NEW s \in Pushable, push_section(s)
    PROVE  BuildInv'
<1>1. /\ written = [format |-> "v1", sections |-> written.sections, key |-> NoKey]
      /\ Sections = written.sections /\ SectionList(Sections)
      /\ DOMAIN Sections = 1..Len(Sections)
      /\ file = <<>> /\ fault = "none"
  BY BuildingIs DEF push_section
<1> DEFINE r == Append(Sections, s)
<1>2. /\ written' = [written EXCEPT !.sections = Append(written.sections, s)]
      /\ file' = file /\ fault' = fault /\ ~HasManifest
  BY DEF push_section
<1>3. written' = [format |-> "v1", sections |-> r, key |-> NoKey]
  <2>1. written' = [written EXCEPT !.sections = r]
    BY <1>1, <1>2
  <2> HIDE DEF r
  <2>2. QED BY <1>1, <2>1
<1>4. Sectioned(s) /\ s.kind # "Manifest"
  BY PushableAssumption DEF Sectioned
<1>5. SectionList(r) /\ Longer(r, Sections, s)
  <2>1. r = Append(Sections, s)
    OBVIOUS
  <2> HIDE DEF r
  <2>2. QED BY <1>1, <1>4, <2>1, SectionAppend
<1>6. \A j \in 1..Len(Sections) : Sections[j].kind # "Manifest"
  BY <1>1, <1>2 DEF HasManifest
<1> HIDE DEF r
<1>7. \A i \in 1..Len(r) : r[i].kind # "Manifest"
  BY <1>4, <1>5, <1>6 DEF Longer
<1>8. written'.sections = r /\ written'.key = NoKey
      /\ written' = [format |-> "v1", sections |-> written'.sections, key |-> written'.key]
  BY <1>3
<1>9. ArchiveWritten'
  BY <1>1, <1>2, <1>5, <1>7, <1>8 DEF ArchiveWritten
<1>10. QED BY <1>9 DEF BuildInv

LEMMA ManifestStep ==
    ASSUME BuildInv, NEW covered \in SUBSET {Sections[i].id : i \in DOMAIN Sections},
           NEW legacy \in BOOLEAN, push_manifest(covered, legacy)
    PROVE  BuildInv'
<1>1. /\ written = [format |-> "v1", sections |-> written.sections, key |-> NoKey]
      /\ Sections = written.sections /\ SectionList(Sections)
      /\ DOMAIN Sections = 1..Len(Sections)
      /\ file = <<>> /\ fault = "none"
  BY BuildingIs DEF push_manifest
<1> DEFINE x == ManifestSection(Sections, covered, legacy)
           r == Append(Sections, x)
<1>2. /\ written' = [written EXCEPT !.sections = Append(written.sections, x)]
      /\ file' = file /\ fault' = fault /\ ~HasManifest
  BY DEF push_manifest
<1>3. Sectioned(x)
  <2> DEFINE m == ManifestOf(Sections, covered)
  <2>1. x.id = 1 /\ x.align = Block /\ Manifested(x.payload, m)
    BY DEF ManifestSection, Manifested, ManifestId
  <2>2. ManifestLists(m)
    BY <1>1, ManifestOfIs DEF SectionList
  <2> HIDE DEF x, m
  <2>3. IsList(x.payload)
    BY <2>1, <2>2, ManifestedIs
  <2>4. x.id \in Nat /\ x.align \in Nat
    BY <2>1, BlockAssumption
  <2>5. QED BY <2>3, <2>4 DEF Sectioned
<1>4. \A j \in 1..Len(Sections) : Sections[j].kind # "Manifest"
  BY <1>1, <1>2 DEF HasManifest
<1>5. \E c : Closed(r, c)
  <2>1. IsList(Sections) /\ covered \subseteq {Sections[i].id : i \in 1..Len(Sections)}
    BY <1>1 DEF SectionList
  <2>2. Closed(r, covered)
    BY <1>4, <2>1 DEF Closed
  <2>3. QED BY <2>2
<1> HIDE DEF x
<1>6. SectionList(r)
  BY <1>1, <1>3, SectionAppend
<1>7. written' = [format |-> "v1", sections |-> r, key |-> NoKey]
  BY <1>1, <1>2
<1> HIDE DEF r
<1>8. written'.sections = r /\ written'.key = NoKey
      /\ written' = [format |-> "v1", sections |-> written'.sections, key |-> written'.key]
  BY <1>7
<1>9. ArchiveWritten'
  BY <1>1, <1>2, <1>5, <1>6, <1>8 DEF ArchiveWritten
<1>10. QED BY <1>9 DEF BuildInv

LEMMA BuildStep ==
    ASSUME BuildInv, Build \/ \E key \in Keys : BuildSigned(key)
    PROVE  BuildInv'
<1>1. /\ written = [format |-> "v1", sections |-> written.sections, key |-> NoKey]
      /\ Sections = written.sections /\ SectionList(Sections) /\ fault = "none"
      /\ DistinctIds(Sections)
  BY BuildingIs DEF Build, BuildSigned
<1>2. ArchiveWritten
  BY <1>1 DEF BuildInv, PackageWritten, ProgramWritten
<1>3. PICK key \in Keys \cup {NoKey} :
          /\ written' = [format |-> "v1", sections |-> Sections, key |-> key]
          /\ file' = Written(Sections, key) /\ fault' = fault
  <2>1. CASE Build
    <3>1. written' = written /\ file' = Written(Sections, NoKey) /\ fault' = fault
      BY <2>1 DEF Build, Written
    <3>2. QED BY <1>1, <3>1
  <2>2. CASE \E key \in Keys : BuildSigned(key)
    <3>1. PICK key \in Keys : BuildSigned(key)
      BY <2>2
    <3>2. key # NoKey
      BY KeysAssumption
    <3>3. /\ written' = [written EXCEPT !.key = key] /\ fault' = fault
          /\ file' = Written(Sections, key)
      BY <3>1, <3>2 DEF BuildSigned, Written
    <3>4. written' = [format |-> "v1", sections |-> Sections, key |-> key]
      BY <1>1, <3>3
    <3>5. QED BY <3>3, <3>4
  <2>3. QED BY <2>1, <2>2
<1>4. written'.sections = Sections /\ written'.key = key
      /\ written' = [format |-> "v1", sections |-> written'.sections, key |-> written'.key]
  BY <1>3
<1>5. \/ \A i \in 1..Len(Sections) : Sections[i].kind # "Manifest"
      \/ \E c : Closed(Sections, c)
  BY <1>1, <1>2 DEF ArchiveWritten
<1>6. Faulty(file', Written(Sections, key), fault')
  BY <1>1, <1>3 DEF Faulty
<1>7. ArchiveWritten'
  BY <1>1, <1>3, <1>4, <1>5, <1>6 DEF ArchiveWritten
<1>8. QED BY <1>7 DEF BuildInv

LEMMA WriteStep ==
    ASSUME BuildInv, (\E p \in Packaged : WritePackage(p)) \/ (\E p \in Programs : WriteProgram(p))
    PROVE  BuildInv'
<1>1. CASE \E p \in Packaged : WritePackage(p)
  <2>1. PICK p \in Packaged : WritePackage(p)
    BY <1>1
  <2>2. fault' = "none"
    BY <2>1 DEF WritePackage, Building
  <2>3. /\ written' = [format |-> "v2", package |-> p] /\ validate_assets(p.assets)
        /\ file' = EncodePackage(Carried(p))
    BY <2>1 DEF WritePackage, Carried
  <2>4. written'.package = p
    BY <2>3
  <2>5. Faulty(file', EncodePackage(Carried(p)), fault')
    BY <2>2, <2>3 DEF Faulty
  <2>6. PackageWritten'
    BY <2>2, <2>3, <2>4, <2>5 DEF PackageWritten
  <2>7. QED BY <2>6 DEF BuildInv
<1>2. CASE \E p \in Programs : WriteProgram(p)
  <2>1. PICK p \in Programs : WriteProgram(p)
    BY <1>2
  <2>2. fault' = "none"
    BY <2>1 DEF WriteProgram, Building
  <2>3. written' = [format |-> "program", program |-> p] /\ file' = encode_binary(p)
    BY <2>1 DEF WriteProgram
  <2>4. written'.program = p
    BY <2>3
  <2>5. Faulty(file', encode_binary(p), fault')
    BY <2>2, <2>3 DEF Faulty
  <2>6. ProgramWritten'
    BY <2>2, <2>3, <2>4, <2>5 DEF ProgramWritten
  <2>7. QED BY <2>6 DEF BuildInv
<1>3. QED BY <1>1, <1>2

\* A fault befalls a file that is whole.
LEMMA FaultStep ==
    ASSUME BuildInv,
           \/ \E length \in 0..(Len(file) - 1) : Cut(length)
           \/ \E p \in DOMAIN file : Garble(p) \/ Mislead(p)
    PROVE  BuildInv'
<1>1. fault = "none" /\ written' = written
  BY DEF Cut, Garble, Mislead
<1>2. file # <<>>
  <2>1. CASE \E length \in 0..(Len(file) - 1) : Cut(length)
    BY <2>1 DEF Cut
  <2>2. CASE \E p \in DOMAIN file : Garble(p) \/ Mislead(p)
    <3>1. DOMAIN file # {}
      BY <2>2
    <3>2. DOMAIN <<>> = {}
      OBVIOUS
    <3>3. QED BY <3>1, <3>2
  <2>3. QED BY <2>1, <2>2
<1>3. ASSUME NEW u, Faulty(file, u, fault) PROVE Faulty(file', u, fault')
  <2>1. file = u
    BY <1>1, <1>3 DEF Faulty
  <2>2. CASE \E length \in 0..(Len(file) - 1) : Cut(length)
    <3>1. PICK length \in 0..(Len(file) - 1) : Cut(length)
      BY <2>2
    <3>2. file' = SubSeq(file, 1, length) /\ fault' = "cut"
      BY <3>1 DEF Cut
    <3>3. QED BY <2>1, <3>2 DEF Faulty
  <2>3. CASE \E p \in DOMAIN file : Garble(p)
    <3>1. PICK p \in DOMAIN file : Garble(p)
      BY <2>3
    <3>2. PICK w \in Damaged(file[p]) \ {file[p]} : file' = [file EXCEPT ![p] = w]
      BY <3>1 DEF Garble
    <3>3. fault' = "garbled"
      BY <3>1 DEF Garble
    <3>4. QED BY <2>1, <3>2, <3>3 DEF Faulty
  <2>4. CASE \E p \in DOMAIN file : Mislead(p)
    <3>1. PICK p \in DOMAIN file : Mislead(p)
      BY <2>4
    <3>2. PICK w \in Misled(file[p], Len(file)) \ {file[p]} : file' = [file EXCEPT ![p] = w]
      BY <3>1 DEF Mislead
    <3>3. fault' = "misled"
      BY <3>1 DEF Mislead
    <3>4. QED BY <2>1, <3>2, <3>3 DEF Faulty
  <2>5. QED BY <2>2, <2>3, <2>4
<1>4. CASE ArchiveWritten
  <2>1. /\ DistinctIds(written.sections)
        /\ Faulty(file, Written(written.sections, written.key), fault)
    BY <1>2, <1>4 DEF ArchiveWritten
  <2>2. Faulty(file', Written(written.sections, written.key), fault')
    BY <1>3, <2>1
  <2>3. ArchiveWritten'
    BY <1>1, <1>4, <2>1, <2>2 DEF ArchiveWritten
  <2>4. QED BY <2>3 DEF BuildInv
<1>5. ASSUME written.format # "v1" PROVE fault' \notin {"garbled", "misled"}
  BY <1>5 DEF Cut, Garble, Mislead
<1>6. CASE PackageWritten
  <2>1. written.format # "v1"
    BY <1>6 DEF PackageWritten
  <2>2. PackageWritten'
    BY <1>1, <1>3, <1>5, <1>6, <2>1 DEF PackageWritten
  <2>3. QED BY <2>2 DEF BuildInv
<1>7. CASE ProgramWritten
  <2>1. written.format # "v1"
    BY <1>7 DEF ProgramWritten
  <2>2. ProgramWritten'
    BY <1>1, <1>3, <1>5, <1>7, <2>1 DEF ProgramWritten
  <2>3. QED BY <2>2 DEF BuildInv
<1>8. QED BY <1>4, <1>6, <1>7 DEF BuildInv

LEMMA BuildSame ==
    ASSUME BuildInv, UNCHANGED <<written, file, fault>>
    PROVE  BuildInv'
BY DEF BuildInv, ArchiveWritten, PackageWritten, ProgramWritten

\* Every step keeps it: the loads and runs leave the file alone.
LEMMA BuildInvStep ==
    ASSUME BuildInv, [Next]_vars
    PROVE  BuildInv'
<1>1. CASE \E s \in Pushable : push_section(s)
  BY <1>1, PushStep
<1>2. CASE \E covered \in SUBSET {Sections[i].id : i \in DOMAIN Sections}, legacy \in BOOLEAN :
              push_manifest(covered, legacy)
  BY <1>2, ManifestStep
<1>3. CASE Build \/ \E key \in Keys : BuildSigned(key)
  BY <1>3, BuildStep
<1>4. CASE (\E p \in Packaged : WritePackage(p)) \/ (\E p \in Programs : WriteProgram(p))
  BY <1>4, WriteStep
<1>5. CASE \/ \E length \in 0..(Len(file) - 1) : Cut(length)
           \/ \E p \in DOMAIN file : Garble(p) \/ Mislead(p)
  BY <1>5, FaultStep
<1>6. CASE load_archive \/ load_archive_reader \/ run_archive \/ run_archive_reader \/ RunPackage
  <2>1. UNCHANGED <<written, file, fault>>
    BY <1>6 DEF load_archive, load_archive_reader, run_archive, run_archive_reader, RunPackage
  <2>2. QED BY <2>1, BuildSame
<1>7. CASE UNCHANGED vars
  BY <1>7, BuildSame DEF vars
<1>8. QED BY <1>1, <1>2, <1>3, <1>4, <1>5, <1>6, <1>7 DEF Next

LEMMA BuildInvInit ==
    ASSUME Init
    PROVE  BuildInv
<1>1. /\ written = [format |-> "v1", sections |-> <<>>, key |-> NoKey]
      /\ file = <<>> /\ fault = "none"
  BY DEF Init
<1>2. written.sections = <<>> /\ written.key = NoKey
      /\ written = [format |-> "v1", sections |-> written.sections, key |-> written.key]
  BY <1>1
<1>3. SectionList(<<>>) /\ \A i \in 1..Len(<<>>) : FALSE
  BY ListEmpty DEF SectionList
<1>4. ArchiveWritten
  BY <1>1, <1>2, <1>3 DEF ArchiveWritten
<1>5. QED BY <1>4 DEF BuildInv

(***************************************************************************)
(* What the readers make of the file of a state.                           *)
(***************************************************************************)

\* A file that at most lost its end.
LEMMA Prefix ==
    ASSUME NEW u, IsList(u), Len(u) >= 1, NEW f, NEW what, Faulty(f, u, what),
           what \notin {"garbled", "misled"}
    PROVE  /\ IsList(f) /\ Slot(f, 0, u) /\ Len(f) <= Len(u) /\ Len(f) \in Nat
           /\ what = "none" => f = u
           /\ what = "cut" => Len(f) < Len(u)
           /\ f # <<>> => f[1] = u[1]
<1>1. Len(u) \in Nat
  BY ListLength
<1>2. CASE what = "none"
  <2>1. f = u
    BY <1>2 DEF Faulty
  <2>2. QED BY <1>1, <1>2, <2>1, SlotSelf
<1>3. CASE what # "none"
  <2>1. PICK n \in 0..(Len(u) - 1) : what = "cut" /\ f = SubSeq(u, 1, n)
    BY <1>3 DEF Faulty
  <2>2. n \in Nat /\ n < Len(u)
    BY <1>1
  <2>3. IsTaken(f, u, 0, n)
    BY <2>1, <2>2, CutIs
  <2>4. IsList(f) /\ Len(f) = n /\ \A i \in 1..n : f[i] = u[0 + i]
    BY <2>3 DEF IsTaken
  <2>5. \A i \in 1..n : f[0 + i] = u[i] /\ f[i] = u[i]
    BY <2>4
  <2>6. Slot(f, 0, u)
    <3>1. ASSUME NEW i \in 1..Len(u), 0 + i <= Len(f) PROVE f[0 + i] = u[i]
      <4>1. i \in 1..n
        BY <2>2, <2>4, <3>1
      <4>2. QED BY <2>5, <4>1
    <3>2. QED BY <3>1 DEF Slot
  <2>7. ASSUME f # <<>> PROVE f[1] = u[1]
    <3>1. 1 \in 1..n
      BY <2>2, <2>4, <2>7, ListNone
    <3>2. QED BY <2>5, <3>1
  <2>8. QED BY <2>1, <2>2, <2>4, <2>6, <2>7
<1>4. QED BY <1>2, <1>3

\* A package as it is encoded.
LEMMA CarriedIs ==
    ASSUME NEW p \in Packaged
    PROVE  /\ IsPackage(Carried(p)) /\ Carried(p).program = encode_binary(p.program)
           /\ Carried(p).assets = p.assets /\ Carried(p).schema = p.schema
           /\ Carried(p).manifest = p.manifest /\ Carried(p).capabilities = p.capabilities
           /\ IsProgram(p.program)
           /\ p = [manifest |-> p.manifest, capabilities |-> p.capabilities,
                   program |-> p.program, schema |-> p.schema, assets |-> p.assets]
<1>1. /\ p = [manifest |-> p.manifest, capabilities |-> p.capabilities,
              program |-> p.program, schema |-> p.schema, assets |-> p.assets]
      /\ IsProgram(p.program)
      /\ IsList(p.capabilities) /\ IsList(p.schema) /\ IsList(p.assets)
      /\ \A i \in DOMAIN p.assets : LET a == p.assets[i] IN
             /\ a = [id |-> a.id, kind |-> a.kind, name |-> a.name, units |-> a.units]
             /\ IsList(a.units)
  BY PackagedAssumption
<1> DEFINE e == encode_binary(p.program)
           u == Carried(p)
<1>2. IsList(e)
  BY <1>1, EncodedProgram
<1>3. u = [manifest |-> p.manifest, capabilities |-> p.capabilities,
           program |-> e, schema |-> p.schema, assets |-> p.assets]
  BY <1>1 DEF Carried
<1> HIDE DEF e, u
<1>4. /\ u.manifest = p.manifest /\ u.capabilities = p.capabilities /\ u.program = e
      /\ u.schema = p.schema /\ u.assets = p.assets
  BY <1>3
<1>5. DOMAIN p.assets = 1..Len(p.assets)
  BY <1>1, ListSeq
<1>6. IsPackage(u)
  BY <1>1, <1>2, <1>3, <1>4, <1>5 DEF IsPackage
<1>7. QED BY <1>1, <1>4, <1>6 DEF u, e

\* What was written, when its file is there and lost at most its end.
LEMMA PackageFile ==
    ASSUME PackageWritten
    PROVE  LET q == EncodePackage(Carried(written.package))
           IN  /\ IsList(q) /\ IsList(file) /\ Slot(file, 0, q) /\ Len(file) <= Len(q)
               /\ fault = "none" => file = q
               /\ fault = "cut" => Len(file) < Len(q)
               /\ file # <<>> => file[1].unit = "package"
<1> DEFINE u == Carried(written.package)
           q == EncodePackage(u)
<1>1. IsPackage(u) /\ Faulty(file, q, fault) /\ fault \notin {"garbled", "misled"}
  BY CarriedIs DEF PackageWritten
<1>2. IsList(q) /\ q[1] = PackageHead(u) /\ Len(q) >= 1
  <2> HIDE DEF u
  <2>1. QED BY <1>1, EncodedPackage
<1>3. PackageHead(u).unit = "package"
  BY DEF PackageHead
<1> HIDE DEF q
<1>4. QED BY <1>1, <1>2, <1>3, Prefix DEF q

LEMMA ProgramFile ==
    ASSUME ProgramWritten
    PROVE  LET q == encode_binary(written.program)
           IN  /\ IsProgram(written.program)
               /\ IsList(q) /\ IsList(file) /\ Slot(file, 0, q) /\ Len(file) <= Len(q)
               /\ fault = "none" => file = q
               /\ fault = "cut" => Len(file) < Len(q)
               /\ file # <<>> => file[1].unit = "program"
<1> DEFINE p == written.program
           q == encode_binary(p)
<1>1. IsProgram(p) /\ Faulty(file, q, fault) /\ fault \notin {"garbled", "misled"}
  BY ProgramsAssumption DEF ProgramWritten
<1>2. IsList(q) /\ q[1] = ProgramHead(p) /\ Len(q) >= 1
  <2> HIDE DEF p
  <2>1. QED BY <1>1, EncodedProgram
<1>3. ProgramHead(p).unit = "program"
  BY DEF ProgramHead
<1> HIDE DEF q
<1>4. QED BY <1>1, <1>2, <1>3, Prefix DEF q

\* The units u of the sections S, in the order of their ids, and their file.
FileIs(S, st, u) ==
    /\ Sections = written.sections /\ SectionList(Sections) /\ DistinctIds(Sections)
    /\ S = ById(Sections) /\ st = Starts(S) /\ u = Written(Sections, written.key)
    /\ Sorted(S, Sections) /\ Laying(st, S) /\ Lays(u, S, st)
    /\ Faulty(file, u, fault) /\ Near(file, u) /\ Carries(file, S, st)
    /\ written.key \in Keys \cup {NoKey}
    /\ \/ ~HasManifest /\ Covered = {}
          /\ \A i \in 1..Len(Sections) : Sections[i].kind # "Manifest"
       \/ HasManifest /\ Closed(Sections, Covered)

LEMMA ArchiveFile ==
    ASSUME BuildInv, written.format = "v1", ~Building, fault # "misled"
    PROVE  \E S, st, u : FileIs(S, st, u)
<1>1. ArchiveWritten /\ Sections = written.sections /\ SectionList(Sections)
  BY DEF BuildInv, PackageWritten, ProgramWritten, Sections, ArchiveWritten
<1>2. DistinctIds(Sections) /\ Faulty(file, Written(Sections, written.key), fault)
  BY <1>1 DEF ArchiveWritten, Building
<1> DEFINE S  == ById(Sections)
           st == Starts(S)
           u  == Written(Sections, written.key)
<1>3. Sorted(S, Sections) /\ Laying(st, S) /\ Lays(u, S, st)
  BY <1>1, <1>2, WrittenIs
<1>4. IsList(u) /\ SectionList(S)
  BY <1>3 DEF Lays, Sorted
<1>5. Near(file, u)
  <2> HIDE DEF u
  <2>1. QED BY <1>2, <1>4, FaultyIsNear DEF u
<1>6. Carries(file, S, st)
  <2> HIDE DEF S, st, u
  <2>1. QED BY <1>3, <1>4, <1>5, NearCarries
<1>7. DOMAIN Sections = 1..Len(Sections) /\ IsList(Sections)
  BY <1>1, ListSeq DEF SectionList
<1>8. \/ ~HasManifest /\ Covered = {}
         /\ \A i \in 1..Len(Sections) : Sections[i].kind # "Manifest"
      \/ HasManifest /\ Closed(Sections, Covered)
  <2>1. CASE \A i \in 1..Len(Sections) : Sections[i].kind # "Manifest"
    BY <1>7, <2>1 DEF HasManifest, Covered
  <2>2. CASE \E c : Closed(Sections, c)
    <3>1. PICK c : Closed(Sections, c)
      BY <2>2
    <3> DEFINE p == Sections[Len(Sections)].payload
    <3>2. Len(Sections) \in 1..Len(Sections) /\ Sections[Len(Sections)].kind = "Manifest"
      BY <1>2, <1>7, <3>1, ClosedIs
    <3>3. IsList(p)
      BY <1>1, <3>2 DEF SectionList, Sectioned
    <3>4. HasManifest
      BY <1>7, <3>2 DEF HasManifest
    <3>5. Near(p, p)
      BY <3>3, NearSelf
    <3>6. {DecodeManifest(p).digests[i].section : i \in DOMAIN DecodeManifest(p).digests} = c
      BY <1>1, <1>2, <3>1, <3>5, CoveredIs
    <3>7. Covered = c
      BY <3>4, <3>6 DEF Covered
    <3>8. QED BY <3>1, <3>4, <3>7
  <2>3. QED BY <1>1, <2>1, <2>2 DEF ArchiveWritten
<1>9. written.key \in Keys \cup {NoKey}
  BY <1>1 DEF ArchiveWritten
<1> HIDE DEF S, st, u
<1>10. FileIs(S, st, u)
  BY <1>1, <1>2, <1>3, <1>5, <1>6, <1>8, <1>9 DEF FileIs, S, st, u
<1>11. QED BY <1>10

LEMMA BothReaders ==
    ASSUME BuildInv, fault # "misled"
    PROVE  Stream_open(file) = Archive_decode(file)
<1>1. CASE file = <<>>
  BY <1>1, ListEmpty DEF Stream_open, Archive_decode, Opened
<1>2. CASE file # <<>> /\ file[1].unit # "header"
  BY <1>2 DEF Stream_open, Archive_decode, Opened
<1>3. CASE file # <<>> /\ file[1].unit = "header"
  <2>1. ~PackageWritten /\ ~ProgramWritten
    BY <1>3, PackageFile, ProgramFile
  <2>2. written.format = "v1" /\ ~Building
    BY <1>3, <2>1 DEF BuildInv, ArchiveWritten, Building
  <2>3. PICK S, st, u : FileIs(S, st, u)
    BY <2>2, ArchiveFile
  <2>4. Carries(file, S, st) /\ IsList(S)
    BY <2>3 DEF FileIs, Sorted, SectionList
  <2>5. IsList(file) /\ Len(S) \in Nat /\ (Len(file) >= 1 => Headed(file[1], Len(S)))
    BY <2>4, ListLength DEF Carries
  <2>6. QED BY <2>5, ReadersAgree
<1>4. QED BY <1>1, <1>2, <1>3

\* Only an archive is opened.
LEMMA OpenedFile ==
    ASSUME BuildInv, fault # "misled", NEW a, a = Archive_decode(file), IsRead(a)
    PROVE  /\ written.format = "v1" /\ ~Building
           /\ \E S, st, u : FileIs(S, st, u) /\ Finds(a, file, S, st)
<1>1. Len(file) # 0 /\ file[1].unit = "header"
  BY DEF Archive_decode, Opened, IsRead
<1>2. file # <<>>
  BY <1>1, ListEmpty
<1>3. ~PackageWritten /\ ~ProgramWritten
  BY <1>1, <1>2, PackageFile, ProgramFile
<1>4. written.format = "v1" /\ ~Building
  BY <1>2, <1>3 DEF BuildInv, ArchiveWritten, Building
<1>5. PICK S, st, u : FileIs(S, st, u)
  BY <1>4, ArchiveFile
<1>6. SectionList(S) /\ Carries(file, S, st)
  BY <1>5 DEF FileIs, Sorted
<1>7. Finds(a, file, S, st)
  BY <1>6, OpenedIs
<1>8. QED BY <1>4, <1>5, <1>7

\* An archive of which a unit says something else still begins with a header.
LEMMA MisledFile ==
    ASSUME ArchiveWritten, file # <<>>, fault = "misled"
    PROVE  file[1].unit = "header"
<1> DEFINE u == Written(written.sections, written.key)
<1>1. /\ SectionList(written.sections) /\ DistinctIds(written.sections)
      /\ Faulty(file, u, "misled")
  BY DEF ArchiveWritten
<1>2. IsHeader(u[1]) /\ IsList(u) /\ Len(u) >= 1
  BY <1>1, WrittenHeader, WrittenSome
<1> HIDE DEF u
<1>3. PICK p \in DOMAIN u : \E w \in Misled(u[p], Len(u)) \ {u[p]} : file = [u EXCEPT ![p] = w]
  BY <1>1 DEF Faulty
<1>4. PICK w \in Misled(u[p], Len(u)) : file = [u EXCEPT ![p] = w]
  BY <1>3
<1>5. 1 \in DOMAIN u
  BY <1>2, ListSeq, ListLength
<1>6. CASE p = 1
  <2>1. w.unit = "header"
    BY <1>2, <1>4, <1>6, MisledHeader
  <2>2. QED BY <1>4, <1>5, <1>6, <2>1
<1>7. CASE p # 1
  <2>1. file[1] = u[1]
    BY <1>4, <1>5, <1>7
  <2>2. QED BY <1>2, <2>1 DEF IsHeader
<1>8. QED BY <1>6, <1>7

\* Only a package is decoded as one: the one that was written.
LEMMA DecodedFile ==
    ASSUME BuildInv, IsRead(DecodePackage(file))
    PROVE  /\ PackageWritten /\ fault # "cut"
           /\ DecodePackage(file) = Carried(written.package)
<1>1. file # <<>> /\ file[1].unit = "package"
  BY DEF DecodePackage, IsRead
<1>2. PackageWritten
  <2>1. ~ProgramWritten
    BY <1>1, ProgramFile
  <2>2. SUFFICES ASSUME ArchiveWritten, fault # "misled" PROVE FALSE
    BY <1>1, <2>1, MisledFile DEF BuildInv
  <2>3. written.format = "v1" /\ ~Building
    BY <1>1, <2>2 DEF ArchiveWritten, Building
  <2>4. PICK S, st, u : FileIs(S, st, u)
    BY <2>2, <2>3, ArchiveFile
  <2>5. Carries(file, S, st) /\ IsList(file)
    BY <2>4 DEF FileIs, Carries
  <2>6. Len(file) >= 1
    BY <1>1, <2>5, ListLength, ListNone
  <2>7. file[1].unit = "header"
    BY <2>5, <2>6 DEF Carries, Headed
  <2>8. QED BY <1>1, <2>7
<1> DEFINE u == Carried(written.package)
           q == EncodePackage(u)
<1>3. /\ IsList(q) /\ IsList(file) /\ Slot(file, 0, q) /\ Len(file) <= Len(q)
      /\ fault = "cut" => Len(file) < Len(q)
  BY <1>2, PackageFile
<1>4. IsPackage(u) /\ validate_assets(u.assets)
  BY <1>2, CarriedIs DEF PackageWritten
<1>5. DecodePackage(file) = IF Len(file) = Len(q) THEN u ELSE NotRead
  <2> HIDE DEF u
  <2>1. QED BY <1>3, <1>4, PackageIsRead
<1>6. Len(file) = Len(q) /\ DecodePackage(file) = u
  <2> HIDE DEF q, u
  <2>1. QED BY <1>5 DEF IsRead
<1>7. fault # "cut"
  <2>1. Len(file) \in Nat
    BY <1>3, ListLength
  <2> HIDE DEF q, u
  <2>2. QED BY <1>3, <1>6, <2>1
<1>8. QED BY <1>2, <1>6, <1>7

(***************************************************************************)
(* The runtime.                                                            *)
(***************************************************************************)

\* The three parts of OnlyWrittenIsLoaded.
CatalogIsWritten ==
    \A r \in DOMAIN catalog, i \in DOMAIN Sections :
        Sections[i].id = catalog[r].section /\ Sections[i].id \in Covered =>
           LET header == Sections[i].payload[1]
           IN  header.id = r /\ data[r] = Taken(Sections[i].payload, header.offset, header.size)
WorkersAreWritten ==
    \A k \in DOMAIN workers, i \in DOMAIN Sections :
        Sections[i].id = workers[k].section /\ Sections[i].id \in Covered =>
           workers[k].program = decode_binary(Sections[i].payload)
RunIsWritten ==
    running # Nothing =>
        /\ written.format = "v2"
        /\ running = [program |-> Kept(written.package.program), schema |-> written.package.schema,
                      seed |-> written.package.manifest.seed]

\* Before there is an archive, nothing is loaded.
LoadInv ==
    /\ DOMAIN data = DOMAIN catalog
    /\ IsList(listed) /\ IsList(workers)
    /\ written.format # "v1" \/ Building =>
           catalog = Nothing /\ listed = <<>> /\ workers = <<>>

DeliveryInv ==
    /\ BuildInv /\ LoadInv
    /\ CatalogIsWritten /\ WorkersAreWritten /\ RunIsWritten /\ UsedIsRegistered

\* The sections with a digest that a manifest has, or may have.
Uses(m) == \A j \in DOMAIN m.digests : m.digests[j].section \in Covered

LEMMA ManifestUses ==
    ASSUME BuildInv, NEW S, NEW st, NEW u, FileIs(S, st, u), NEW a, Finds(a, file, S, st),
           Manifests(a) # {}
    PROVE  /\ HasManifest /\ Closed(Sections, Covered)
           /\ Uses(manifest(a)) /\ Uses(ManifestOf(Sections, Covered))
           /\ IsList(manifest(a).workers)
<1>1. HasManifest /\ Closed(Sections, Covered)
  <2>1. SUFFICES ASSUME \A i \in 1..Len(Sections) : Sections[i].kind # "Manifest" PROVE FALSE
    BY DEF FileIs
  <2>2. Manifests(a) = {}
    BY <2>1, NoneFound DEF FileIs
  <2>3. QED BY <2>2
<1> DEFINE m == ManifestOf(Sections, Covered)
           r == manifest(a)
           n == Len(m.digests)
<1>2. SectionList(Sections) /\ DistinctIds(Sections) /\ IsList(Sections)
  BY DEF FileIs, SectionList
<1>3. /\ IsList(r.workers) /\ IsList(r.digests) /\ Len(r.digests) = n
      /\ \A j \in 1..n : Hit(r.digests[j], m.digests[j])
  BY <1>1, ManifestFound DEF FileIs
<1>4. IsList(m.digests)
  BY <1>2, ManifestOfIs DEF ManifestLists
<1>5. ASSUME NEW j \in 1..n
      PROVE  \E i \in 1..Len(Sections) : Sections[i].id \in Covered
                                         /\ m.digests[j] = SectionDigest(Sections[i])
  BY <1>2, ManifestOfIs
<1>6. DOMAIN m.digests = 1..n /\ DOMAIN r.digests = 1..n
  BY <1>3, <1>4, ListSeq
<1> HIDE DEF m, r, n
<1>7. ASSUME NEW j \in 1..n
      PROVE  r.digests[j].section \in Covered /\ m.digests[j].section \in Covered
  <2>1. PICK i \in 1..Len(Sections) :
            Sections[i].id \in Covered /\ m.digests[j] = SectionDigest(Sections[i])
    BY <1>5
  <2>2. Hit(r.digests[j], SectionDigest(Sections[i]))
    BY <1>3, <2>1
  <2>3. r.digests[j].section = Sections[i].id
    BY <2>2, HitDigest
  <2>4. SectionDigest(Sections[i]).section = Sections[i].id
    BY DEF SectionDigest
  <2>5. QED BY <2>1, <2>3, <2>4
<1>8. Uses(r) /\ Uses(m)
  BY <1>6, <1>7 DEF Uses
<1>9. QED BY <1>1, <1>3, <1>8 DEF m, r

\* What a verified archive has of a covered section.
LEMMA CoveredBytes ==
    ASSUME BuildInv, NEW S, NEW st, NEW u, FileIs(S, st, u), NEW a, Finds(a, file, S, st),
           verify_manifest_digests(a), NEW i \in 1..Len(Sections), Sections[i].id \in Covered
    PROVE  /\ HasSection(a, Sections[i].id)
           /\ section_bytes(a, section(a, Sections[i].id)) = Sections[i].payload
           /\ \A k \in DOMAIN a.entries : a.entries[k].id = Sections[i].id =>
                 a.entries[k] = section(a, Sections[i].id)
                 /\ section_bytes(a, a.entries[k]) = Sections[i].payload
           /\ Sections[i].kind = "Asset" => \E k \in 1..Len(a.entries) :
                 /\ a.entries[k].kind = "Asset"
                 /\ section_bytes(a, a.entries[k]) = Sections[i].payload
<1> DEFINE q  == Sections
           id == Sections[i].id
<1>1. Closed(q, Covered)
  BY DEF FileIs
<1>2. /\ SectionList(q) /\ DistinctIds(q) /\ Sorted(S, q) /\ Laying(st, S) /\ Lays(u, S, st)
      /\ Near(file, u)
  BY DEF FileIs
<1>3. HasSection(a, id) /\ section_bytes(a, section(a, id)) = q[i].payload
  BY <1>1, <1>2, Vouched
<1>4. /\ SectionList(S) /\ \A k, l \in 1..Len(S) : S[k].id = S[l].id => k = l
      /\ \E k \in 1..Len(S) : S[k] = q[i]
  BY <1>2 DEF Sorted
<1>5. /\ DOMAIN a.entries = 1..Len(S) /\ Len(a.entries) = Len(S)
      /\ \A k \in 1..Len(S) : a.entries[k] = Entry(S[k], st[k])
  BY ListSeq DEF Finds
<1>6. \A k \in 1..Len(S) : S[k].id = id => section(a, id) = Entry(S[k], st[k])
  BY <1>4, SectionIs
<1>7. \A k \in 1..Len(S) : a.entries[k].id = S[k].id /\ a.entries[k].kind = S[k].kind
  BY <1>5, EntryIs
<1>8. ASSUME NEW k \in DOMAIN a.entries, a.entries[k].id = id
      PROVE  /\ a.entries[k] = section(a, id)
             /\ section_bytes(a, a.entries[k]) = q[i].payload
  <2>1. k \in 1..Len(S) /\ S[k].id = id
    BY <1>5, <1>7, <1>8
  <2>2. a.entries[k] = section(a, id)
    BY <1>5, <1>6, <2>1
  <2>3. QED BY <1>3, <2>2
<1>9. ASSUME q[i].kind = "Asset"
      PROVE  \E k \in 1..Len(a.entries) :
                 /\ a.entries[k].kind = "Asset"
                 /\ section_bytes(a, a.entries[k]) = q[i].payload
  <2>1. PICK k \in 1..Len(S) : S[k] = q[i]
    BY <1>4
  <2>2. a.entries[k].kind = "Asset" /\ a.entries[k].id = id
    BY <1>7, <1>9, <2>1
  <2>3. section_bytes(a, a.entries[k]) = q[i].payload
    BY <1>5, <1>8, <2>2
  <2>4. QED BY <1>5, <2>2, <2>3
<1>10. QED BY <1>3, <1>8, <1>9

\* What the sections q with a digest in m need of the ids D that are ready.
Ready(q, m, D) ==
    \A i \in 1..Len(q) : IsAssetOf(q[i], m) => q[i].payload # <<>> /\ q[i].payload[1].id \in D

LEMMA ReadyIs ==
    ASSUME NEW m, IsList(Sections)
    PROVE  AssetsReady(m) <=> Ready(Sections, m, DOMAIN data)
<1>1. DOMAIN Sections = 1..Len(Sections)
  BY ListSeq
<1>2. QED BY <1>1 DEF AssetsReady, Ready

\* The sections that are registered: the covered ones are those that were
\* pushed, and all of them when none failed.
LEMMA RegisterStep ==
    ASSUME BuildInv, fault # "misled", LoadInv, CatalogIsWritten,
           NEW a, a = Archive_decode(file), Verified(a), Register(a), UNCHANGED written
    PROVE  /\ CatalogIsWritten' /\ DOMAIN data' = DOMAIN catalog'
           /\ DOMAIN data \subseteq DOMAIN data'
           /\ ~Registered(a).failed =>
                 \A m : Uses(m) => Ready(Sections, m, DOMAIN data')
<1>1. PICK S, st, u : FileIs(S, st, u) /\ Finds(a, file, S, st)
  BY OpenedFile DEF Verified
<1>2. verify_manifest_digests(a)
  BY DEF Verified
<1> DEFINE L == Registered(a)
<1>3. data' = L.data /\ catalog' = L.catalog
  BY DEF Register
<1>4. IsList(a.entries) /\ DOMAIN a.entries = 1..Len(a.entries)
  BY <1>1, ListSeq DEF Finds
<1>5. Registers(L, a, Len(a.entries), data, catalog)
  <2>1. DOMAIN data = DOMAIN catalog
    BY DEF LoadInv
  <2>2. QED BY <1>4, <2>1, RegisteredIs
<1>6. Sections' = Sections /\ Covered' = Covered
  BY DEF Sections, Covered, HasManifest
<1>7. IsList(Sections) /\ DOMAIN Sections = 1..Len(Sections)
  BY <1>1, ListSeq DEF FileIs, SectionList
<1> HIDE DEF L
<1>8. DOMAIN data' = DOMAIN catalog' /\ DOMAIN data \subseteq DOMAIN data'
  BY <1>3, <1>5 DEF Registers
<1>9. ASSUME NEW r \in DOMAIN catalog', NEW i \in DOMAIN Sections,
             Sections[i].id = catalog'[r].section, Sections[i].id \in Covered
      PROVE  LET header == Sections[i].payload[1]
             IN  header.id = r /\ data'[r] = Taken(Sections[i].payload, header.offset, header.size)
  <2>1. CASE r \in DOMAIN catalog /\ L.catalog[r] = catalog[r] /\ L.data[r] = data[r]
    BY <1>3, <1>9, <2>1 DEF CatalogIsWritten
  <2>2. CASE \E k \in 1..Len(a.entries) : Gives(a, k, r, L.catalog[r], L.data[r])
    <3>1. PICK k \in 1..Len(a.entries) : Gives(a, k, r, L.catalog[r], L.data[r])
      BY <2>2
    <3> DEFINE b == section_bytes(a, a.entries[k])
    <3>2. /\ b[1].id = r /\ L.catalog[r].section = a.entries[k].id
          /\ L.data[r] = Taken(b, b[1].offset, b[1].size)
      BY <3>1 DEF Gives
    <3>3. a.entries[k].id = Sections[i].id
      BY <1>3, <1>9, <3>2
    <3>4. b = Sections[i].payload
      BY <1>1, <1>2, <1>4, <1>7, <1>9, <3>3, CoveredBytes
    <3> HIDE DEF b
    <3>5. QED BY <1>3, <3>2, <3>4
  <2>3. QED BY <1>3, <1>5, <2>1, <2>2 DEF Registers
<1>10. CatalogIsWritten'
  BY <1>6, <1>9 DEF CatalogIsWritten
<1>11. ASSUME ~L.failed, NEW m, Uses(m) PROVE Ready(Sections, m, DOMAIN data')
  <2>1. ASSUME NEW i \in 1..Len(Sections), IsAssetOf(Sections[i], m)
        PROVE  Sections[i].payload # <<>> /\ Sections[i].payload[1].id \in DOMAIN data'
    <3>1. Sections[i].kind = "Asset" /\ Sections[i].id \in Covered
      BY <1>11, <2>1 DEF IsAssetOf, Uses
    <3>2. PICK k \in 1..Len(a.entries) :
              /\ a.entries[k].kind = "Asset"
              /\ section_bytes(a, a.entries[k]) = Sections[i].payload
      BY <1>1, <1>2, <3>1, CoveredBytes
    <3>3. LET b == section_bytes(a, a.entries[k]) IN b # <<>> /\ b[1].id \in DOMAIN L.data
      BY <1>5, <1>11, <3>2 DEF Registers
    <3>4. QED BY <1>3, <3>2, <3>3
  <2>2. QED BY <2>1 DEF Ready
<1>12. QED BY <1>8, <1>10, <1>11 DEF L

\* The programs of an archive, with the sections they are decoded from.
LEMMA ProgramsAre ==
    ASSUME NEW a, NEW m, IsList(m.workers)
    PROVE  LET p == WorkerPrograms(a, m)
           IN  IsList(p) /\ \A k \in 1..Len(p) : p[k].program = ProgramOf(a, p[k].section)
<1> DEFINE x == [section |-> MainSection(a, m), program |-> ProgramOf(a, MainSection(a, m))]
           y(i) == [section |-> m.workers[i].section, program |-> ProgramOf(a, m.workers[i].section)]
           z == [i \in DOMAIN m.workers |-> y(i)]
<1>1. CASE m.workers = <<>>
  <2>1. WorkerPrograms(a, m) = <<x>>
    BY <1>1 DEF WorkerPrograms
  <2>2. x.program = ProgramOf(a, x.section)
    OBVIOUS
  <2> HIDE DEF x
  <2>3. IsList(<<x>>) /\ Len(<<x>>) = 1 /\ <<x>>[1] = x
    BY ListOne
  <2>4. \A k \in 1..Len(<<x>>) : <<x>>[k].program = ProgramOf(a, <<x>>[k].section)
    BY <2>2, <2>3
  <2>5. QED BY <2>1, <2>3, <2>4
<1>2. CASE m.workers # <<>>
  <2>1. WorkerPrograms(a, m) = z
    BY <1>2 DEF WorkerPrograms
  <2>2. DOMAIN m.workers = 1..Len(m.workers) /\ Len(m.workers) \in Nat
    BY ListSeq
  <2>3. \A i \in 1..Len(m.workers) : z[i] = y(i) /\ y(i).program = ProgramOf(a, y(i).section)
    BY <2>2
  <2>4. z = [i \in 1..Len(m.workers) |-> z[i]]
    BY <2>2
  <2> HIDE DEF z, y
  <2>5. IsList(z) /\ Len(z) = Len(m.workers)
    BY <2>2, <2>4, ListOf
  <2>6. QED BY <2>1, <2>3, <2>5
<1>3. QED BY <1>1, <1>2

\* The workers that are started run the programs of their sections.
LEMMA WorkersStep ==
    ASSUME BuildInv, fault # "misled", LoadInv, WorkersAreWritten,
           NEW a, a = Archive_decode(file), Verified(a), Manifests(a) # {},
           SpawnWorkers(WorkerPrograms(a, manifest(a))), UNCHANGED written
    PROVE  IsList(workers') /\ WorkersAreWritten'
<1>1. PICK S, st, u : FileIs(S, st, u) /\ Finds(a, file, S, st)
  BY OpenedFile DEF Verified
<1>2. verify_manifest_digests(a)
  BY DEF Verified
<1> DEFINE p == WorkerPrograms(a, manifest(a))
<1>3. IsList(p) /\ \A k \in 1..Len(p) : p[k].program = ProgramOf(a, p[k].section)
  BY <1>1, ManifestUses, ProgramsAre
<1> HIDE DEF p
<1>4. PICK n \in 0..Len(p) : workers' = workers \o SubSeq(p, 1, n)
  BY DEF SpawnWorkers, p
<1> DEFINE x == SubSeq(p, 1, n)
<1>5. IsTaken(x, p, 0, n) /\ n \in Nat /\ Len(p) \in Nat
  <2>1. n \in Nat /\ Len(p) \in Nat
    BY <1>3, ListLength
  <2>2. QED BY <2>1, CutIs
<1>6. workers' = workers \o x
  BY <1>4
<1> HIDE DEF x
<1>7. IsList(x) /\ Len(x) = n /\ \A k \in 1..n : x[k] = p[0 + k]
  BY <1>5 DEF IsTaken
<1>8. \A k \in 1..Len(x) : x[k].program = ProgramOf(a, x[k].section)
  <2>1. \A k \in 1..n : 0 + k = k /\ k \in 1..Len(p)
    BY <1>5
  <2>2. QED BY <1>3, <1>7, <2>1
<1>9. IsList(workers)
  BY DEF LoadInv
<1>10. Joined(workers', workers, x)
  <2>1. Joined(workers \o x, workers, x)
    BY <1>7, <1>9, ListConcat
  <2>2. QED BY <1>6, <2>1
<1>11. Sections' = Sections /\ Covered' = Covered
  BY DEF Sections, Covered, HasManifest
<1>12. IsList(Sections) /\ DOMAIN Sections = 1..Len(Sections)
  BY <1>1, ListSeq DEF FileIs, SectionList
<1>13. IsList(workers') /\ DOMAIN workers' = 1..Len(workers') /\ DOMAIN workers = 1..Len(workers)
  BY <1>9, <1>10, ListSeq DEF Joined
<1>14. ASSUME NEW k \in DOMAIN workers', NEW i \in DOMAIN Sections,
              Sections[i].id = workers'[k].section, Sections[i].id \in Covered
       PROVE  workers'[k].program = decode_binary(Sections[i].payload)
  <2>1. CASE k \in 1..Len(workers)
    <3>1. workers'[k] = workers[k] /\ k \in DOMAIN workers
      BY <1>10, <1>13, <2>1 DEF Joined
    <3>2. QED BY <1>14, <3>1 DEF WorkersAreWritten
  <2>2. CASE \E j \in 1..Len(x) : k = Len(workers) + j
    <3>1. PICK j \in 1..Len(x) : k = Len(workers) + j
      BY <2>2
    <3>2. workers'[k] = x[j]
      BY <1>10, <3>1 DEF Joined
    <3>3. x[j].program = ProgramOf(a, Sections[i].id)
      BY <1>8, <1>14, <3>2
    <3>4. /\ HasSection(a, Sections[i].id)
          /\ section_bytes(a, section(a, Sections[i].id)) = Sections[i].payload
      BY <1>1, <1>2, <1>12, <1>14, CoveredBytes
    <3>5. QED BY <3>2, <3>3, <3>4 DEF ProgramOf
  <2>3. k \in 1..Len(workers')
    BY <1>13
  <2>4. k \in 1..Len(workers) \/ \E j \in 1..Len(x) : k = Len(workers) + j
    <3>1. IsList(workers) /\ IsList(x)
      BY <1>7, <1>9
    <3>2. ASSUME NEW w, IsList(w), NEW r, Joined(r, w, x), NEW j \in 1..Len(r)
          PROVE  j \in 1..Len(w) \/ \E l \in 1..Len(x) : j = Len(w) + l
      BY <3>1, <3>2, ListSplit
    <3>3. QED BY <1>10, <2>3, <3>1, <3>2
  <2>5. QED BY <2>1, <2>2, <2>4
<1>15. WorkersAreWritten'
  BY <1>11, <1>14 DEF WorkersAreWritten
<1>16. QED BY <1>13, <1>15

\* The manifests a runtime lists.
ListedReady(list, q, D) ==
    \A k \in 1..Len(list) : list[k].call = "load_archive" => Ready(q, list[k].manifest, D)

LEMMA ReadyMore ==
    ASSUME NEW q, NEW m, NEW D, NEW E, D \subseteq E, Ready(q, m, D)
    PROVE  Ready(q, m, E)
BY DEF Ready

LEMMA ListedMore ==
    ASSUME NEW list, IsList(list), NEW x, IsList(x), NEW q, NEW D, NEW E, D \subseteq E,
           ListedReady(list, q, D), ListedReady(x, q, E), NEW r, r = list \o x
    PROVE  IsList(r) /\ ListedReady(r, q, E)
<1>1. Joined(r, list, x)
  BY ListConcat
<1>2. ASSUME NEW k \in 1..Len(r), r[k].call = "load_archive" PROVE Ready(q, r[k].manifest, E)
  <2>1. k \in 1..Len(list) \/ \E j \in 1..Len(x) : k = Len(list) + j
    BY <1>1, ListSplit
  <2>2. CASE k \in 1..Len(list)
    <3>1. r[k] = list[k]
      BY <1>1, <2>2 DEF Joined
    <3>2. Ready(q, list[k].manifest, D)
      BY <1>2, <2>2, <3>1 DEF ListedReady
    <3>3. QED BY <3>1, <3>2, ReadyMore
  <2>3. CASE \E j \in 1..Len(x) : k = Len(list) + j
    <3>1. PICK j \in 1..Len(x) : k = Len(list) + j
      BY <2>3
    <3>2. r[k] = x[j]
      BY <1>1, <3>1 DEF Joined
    <3>3. QED BY <1>2, <3>2 DEF ListedReady
  <2>4. QED BY <2>1, <2>2, <2>3
<1>3. QED BY <1>1, <1>2 DEF Joined, ListedReady

LEMMA ManifestListIs ==
    ASSUME NEW a, NEW call
    PROVE  /\ IsList(ManifestList(a, call))
           /\ \A k \in 1..Len(ManifestList(a, call)) :
                 /\ Manifests(a) # {} /\ ManifestList(a, call)[k].call = call
                 /\ ManifestList(a, call)[k].manifest = manifest(a)
<1> DEFINE x == [manifest |-> manifest(a), call |-> call]
<1>1. CASE Manifests(a) = {}
  <2>1. ManifestList(a, call) = <<>>
    BY <1>1 DEF ManifestList
  <2>2. \A k \in 1..0 : FALSE
    OBVIOUS
  <2>3. QED BY <2>1, <2>2, ListEmpty
<1>2. CASE Manifests(a) # {}
  <2>1. ManifestList(a, call) = <<x>>
    BY <1>2 DEF ManifestList
  <2>2. x.call = call /\ x.manifest = manifest(a)
    OBVIOUS
  <2> HIDE DEF x
  <2>3. IsList(<<x>>) /\ Len(<<x>>) = 1 /\ <<x>>[1] = x
    BY ListOne
  <2>4. QED BY <1>2, <2>1, <2>2, <2>3
<1>3. QED BY <1>1, <1>2

\* UsedIsRegistered, of the sections of a state.
LEMMA UsedIs ==
    ASSUME IsList(Sections), IsList(listed)
    PROVE  UsedIsRegistered <=>
              /\ ListedReady(listed, Sections, DOMAIN data)
              /\ workers # <<>> => Ready(Sections, ManifestOf(Sections, Covered), DOMAIN data)
<1>1. DOMAIN listed = 1..Len(listed)
  BY ListSeq
<1>2. \A m : AssetsReady(m) <=> Ready(Sections, m, DOMAIN data)
  BY ReadyIs
<1>3. QED BY <1>1, <1>2 DEF UsedIsRegistered, ListedReady

\* A load, and what is started with it.
LEMMA LoadStep ==
    ASSUME DeliveryInv, fault # "misled", NEW a, a = Archive_decode(file), Verified(a),
           LoadArchive(a) \/ LoadArchiveReader(a),
           UNCHANGED <<written, file, fault, running>>,
           \/ UNCHANGED workers
           \/ /\ ~Registered(a).failed /\ Manifests(a) # {}
              /\ SpawnWorkers(WorkerPrograms(a, manifest(a)))
    PROVE  DeliveryInv'
<1>1. BuildInv /\ LoadInv /\ CatalogIsWritten /\ WorkersAreWritten /\ RunIsWritten
      /\ UsedIsRegistered
  BY DEF DeliveryInv
<1>2. PICK S, st, u : FileIs(S, st, u) /\ Finds(a, file, S, st)
  BY <1>1, OpenedFile DEF Verified
<1>3. written.format = "v1" /\ ~Building
  BY <1>1, OpenedFile DEF Verified
<1>4. Register(a)
  BY DEF LoadArchive, LoadArchiveReader
<1>5. /\ CatalogIsWritten' /\ DOMAIN data' = DOMAIN catalog' /\ DOMAIN data \subseteq DOMAIN data'
      /\ ~Registered(a).failed => \A m : Uses(m) => Ready(Sections, m, DOMAIN data')
  BY <1>1, <1>4, RegisterStep
<1>6. BuildInv'
  BY <1>1, BuildSame
<1>7. Sections' = Sections /\ Covered' = Covered /\ Building' = Building /\ written' = written
  BY DEF Sections, Covered, HasManifest, Building
<1>8. IsList(workers') /\ WorkersAreWritten'
  <2>1. CASE UNCHANGED workers
    BY <1>1, <1>7, <2>1 DEF LoadInv, WorkersAreWritten
  <2>2. CASE Manifests(a) # {} /\ SpawnWorkers(WorkerPrograms(a, manifest(a)))
    BY <1>1, <2>2, WorkersStep
  <2>3. QED BY <2>1, <2>2
<1>9. RunIsWritten'
  BY <1>1 DEF RunIsWritten
<1>10. IsList(Sections) /\ IsList(listed) /\ IsList(workers)
  BY <1>1, <1>2 DEF FileIs, SectionList, LoadInv
<1>11. /\ ListedReady(listed, Sections, DOMAIN data)
       /\ workers # <<>> => Ready(Sections, ManifestOf(Sections, Covered), DOMAIN data)
  BY <1>1, <1>10, UsedIs
<1>12. IsList(listed') /\ ListedReady(listed', Sections, DOMAIN data')
  <2>1. PICK x : /\ IsList(x) /\ listed' = listed \o x
                 /\ ListedReady(x, Sections, DOMAIN data')
    <3>1. CASE LoadArchive(a) /\ Registered(a).failed
      <4>1. listed' = listed
        BY <3>1 DEF LoadArchive
      <4>2. IsList(<<>>) /\ Len(<<>>) = 0 /\ \A k \in 1..0 : FALSE
        BY ListEmpty
      <4>3. ListedReady(<<>>, Sections, DOMAIN data')
        BY <4>2 DEF ListedReady
      <4>4. listed \o <<>> = listed
        <5>1. Joined(listed \o <<>>, listed, <<>>) /\ Len(listed) \in Nat
          BY <1>10, <4>2, ListConcat, ListLength
        <5> DEFINE z == listed \o <<>>
        <5>2. Joined(z, listed, <<>>)
          BY <5>1
        <5> HIDE DEF z
        <5>3. IsList(z) /\ Len(z) = Len(listed) /\ \A i \in 1..Len(z) : z[i] = listed[i]
          BY <4>2, <5>1, <5>2 DEF Joined
        <5>4. z = listed
          BY <1>10, <5>3, ListSame
        <5>5. QED BY <5>4 DEF z
      <4>5. QED BY <4>1, <4>2, <4>3, <4>4
    <3>2. CASE LoadArchive(a) /\ ~Registered(a).failed
      <4> DEFINE x == ManifestList(a, "load_archive")
      <4>1. listed' = listed \o x
        BY <3>2 DEF LoadArchive
      <4>2. IsList(x) /\ \A k \in 1..Len(x) : Manifests(a) # {} /\ x[k].manifest = manifest(a)
        BY ManifestListIs
      <4>3. ASSUME Manifests(a) # {} PROVE Ready(Sections, manifest(a), DOMAIN data')
        <5>1. Uses(manifest(a))
          BY <1>1, <1>2, <4>3, ManifestUses
        <5>2. QED BY <1>5, <3>2, <5>1
      <4> HIDE DEF x
      <4>4. ListedReady(x, Sections, DOMAIN data')
        BY <4>2, <4>3 DEF ListedReady
      <4>5. QED BY <4>1, <4>2, <4>4
    <3>3. CASE LoadArchiveReader(a)
      <4> DEFINE x == ManifestList(a, "load_archive_reader")
      <4>1. listed' = listed \o x
        BY <3>3 DEF LoadArchiveReader
      <4>2. IsList(x) /\ \A k \in 1..Len(x) : x[k].call = "load_archive_reader"
        BY ManifestListIs
      <4> HIDE DEF x
      <4>3. ListedReady(x, Sections, DOMAIN data')
        BY <4>2 DEF ListedReady
      <4>4. QED BY <4>1, <4>2, <4>3
    <3>4. QED BY <3>1, <3>2, <3>3
  <2>2. ASSUME NEW r, r = listed \o x PROVE IsList(r) /\ ListedReady(r, Sections, DOMAIN data')
    BY <1>5, <1>10, <1>11, <2>1, <2>2, ListedMore
  <2>3. QED BY <2>1, <2>2
<1>13. workers' # <<>> => Ready(Sections, ManifestOf(Sections, Covered), DOMAIN data')
  <2>1. CASE UNCHANGED workers
    BY <1>5, <1>11, <2>1, ReadyMore
  <2>2. CASE ~Registered(a).failed /\ Manifests(a) # {}
    <3>1. Uses(ManifestOf(Sections, Covered))
      BY <1>1, <1>2, <2>2, ManifestUses
    <3>2. QED BY <1>5, <2>2, <3>1
  <2>3. QED BY <2>1, <2>2
<1>14. UsedIsRegistered'
  <2>1. /\ ListedReady(listed', Sections', DOMAIN data')
        /\ workers' # <<>> => Ready(Sections', ManifestOf(Sections', Covered'), DOMAIN data')
    BY <1>7, <1>12, <1>13
  <2>2. DOMAIN listed' = 1..Len(listed') /\ DOMAIN Sections' = 1..Len(Sections')
    BY <1>7, <1>10, <1>12, ListSeq
  <2>3. ASSUME NEW m, Ready(Sections', m, DOMAIN data') PROVE AssetsReady(m)'
    BY <2>2, <2>3 DEF AssetsReady, Ready
  <2>4. ASSUME NEW k \in DOMAIN listed', listed'[k].call = "load_archive"
        PROVE  Ready(Sections', listed'[k].manifest, DOMAIN data')
    BY <2>1, <2>2, <2>4 DEF ListedReady
  <2>5. QED BY <2>1, <2>3, <2>4 DEF UsedIsRegistered, AssetsReady, Ready
<1>15. LoadInv'
  BY <1>3, <1>5, <1>7, <1>8, <1>12 DEF LoadInv
<1>16. QED BY <1>5, <1>6, <1>8, <1>9, <1>14, <1>15 DEF DeliveryInv

\* Nothing has been loaded while an archive is built: building one, or anything
\* else, breaks nothing.
LEMMA NothingLoaded ==
    ASSUME catalog = Nothing, workers = <<>>, listed = <<>>
    PROVE  CatalogIsWritten /\ WorkersAreWritten /\ UsedIsRegistered
<1>1. DOMAIN Nothing = {} /\ DOMAIN <<>> = {}
  BY DEF Nothing
<1>2. QED BY <1>1 DEF CatalogIsWritten, WorkersAreWritten, UsedIsRegistered

LEMMA BuildsStep ==
    ASSUME DeliveryInv, BuildInv', Building, UNCHANGED runtimeVars
    PROVE  DeliveryInv'
<1>1. /\ catalog = Nothing /\ listed = <<>> /\ workers = <<>>
      /\ DOMAIN data = DOMAIN catalog /\ IsList(listed) /\ IsList(workers)
  BY DEF DeliveryInv, LoadInv
<1>2. data' = data /\ catalog' = catalog /\ listed' = listed /\ workers' = workers /\ running' = running
  BY DEF runtimeVars, loadVars
<1>3. (CatalogIsWritten /\ WorkersAreWritten /\ UsedIsRegistered)'
  <2>1. DOMAIN catalog' = {} /\ DOMAIN workers' = {} /\ DOMAIN listed' = {} /\ workers' = <<>>
    BY <1>1, <1>2 DEF Nothing
  <2>2. QED BY <2>1 DEF CatalogIsWritten, WorkersAreWritten, UsedIsRegistered
<1>4. LoadInv'
  BY <1>1, <1>2 DEF LoadInv
<1>5. RunIsWritten'
  <2>1. running = Nothing
    BY DEF DeliveryInv, RunIsWritten, Building
  <2>2. QED BY <1>2, <2>1 DEF RunIsWritten
<1>6. QED BY <1>3, <1>4, <1>5 DEF DeliveryInv

LEMMA DamageStep ==
    ASSUME DeliveryInv, BuildInv',
           \/ \E length \in 0..(Len(file) - 1) : Cut(length)
           \/ \E p \in DOMAIN file : Garble(p) \/ Mislead(p)
    PROVE  DeliveryInv'
<1>1. UNCHANGED <<written, runtimeVars>> /\ fault' # "none"
  BY DEF Cut, Garble, Mislead
<1>2. Sections' = Sections /\ Covered' = Covered /\ written' = written /\ ~Building'
  BY <1>1 DEF Sections, Covered, HasManifest, Building
<1>3. data' = data /\ catalog' = catalog /\ listed' = listed /\ workers' = workers /\ running' = running
  BY <1>1 DEF runtimeVars, loadVars
<1>4. LoadInv'
  BY <1>2, <1>3 DEF DeliveryInv, LoadInv
<1>5. CatalogIsWritten' /\ WorkersAreWritten' /\ RunIsWritten'
  BY <1>2, <1>3 DEF DeliveryInv, CatalogIsWritten, WorkersAreWritten, RunIsWritten
<1>6. UsedIsRegistered'
  BY <1>2, <1>3 DEF DeliveryInv, UsedIsRegistered, AssetsReady
<1>7. QED BY <1>4, <1>5, <1>6 DEF DeliveryInv

\* What runs is the program of the package.
LEMMA PackageRuns ==
    ASSUME PackageWritten
    PROVE  decode_binary(Carried(written.package).program) = Kept(written.package.program)
           /\ IsRead(Kept(written.package.program))
<1> DEFINE p == written.package.program
           q == encode_binary(p)
<1>1. IsProgram(p) /\ Carried(written.package).program = q
  BY CarriedIs DEF PackageWritten
<1>2. IsList(q)
  <2> HIDE DEF p
  <2>1. QED BY <1>1, EncodedProgram
<1>3. Slot(q, 0, q) /\ Len(q) \in Nat
  <2> HIDE DEF q
  <2>1. QED BY <1>2, SlotSelf, ListLength
<1>4. decode_binary(q) = IF Len(q) <= Len(q) THEN Kept(p) ELSE NotRead
  <2>1. ASSUME NEW x, IsProgram(x), NEW r, IsList(r), Slot(r, 0, encode_binary(x))
        PROVE  decode_binary(r) = IF Len(encode_binary(x)) <= Len(r) THEN Kept(x) ELSE NotRead
    BY <2>1, ProgramIsRead
  <2> HIDE DEF p
  <2>2. QED BY <1>1, <1>2, <1>3, <2>1
<1>5. Len(q) <= Len(q)
  <2> HIDE DEF q
  <2>1. QED BY <1>3
<1>6. decode_binary(q) = Kept(p)
  BY <1>4, <1>5
<1>7. IsRead(Kept(p))
  <2> HIDE DEF p
  <2>1. QED BY <1>1, KeptIs
<1>8. QED BY <1>1, <1>6, <1>7

LEMMA RunStep ==
    ASSUME DeliveryInv, RunPackage
    PROVE  DeliveryInv'
<1>1. UNCHANGED <<written, file, fault, loadVars, workers>>
  BY DEF RunPackage
<1>2. BuildInv /\ BuildInv'
  BY <1>1, BuildSame DEF DeliveryInv
<1>3. /\ Sections' = Sections /\ Covered' = Covered /\ written' = written /\ Building' = Building
      /\ data' = data /\ catalog' = catalog /\ listed' = listed /\ workers' = workers
  BY <1>1 DEF Sections, Covered, HasManifest, Building, loadVars
<1>4. LoadInv' /\ CatalogIsWritten' /\ WorkersAreWritten' /\ UsedIsRegistered'
  BY <1>3 DEF DeliveryInv, LoadInv, CatalogIsWritten, WorkersAreWritten, UsedIsRegistered, AssetsReady
<1>5. IsRead(DecodePackage(file))
  BY DEF RunPackage
<1>6. PackageWritten /\ DecodePackage(file) = Carried(written.package)
  BY <1>2, <1>5, DecodedFile
<1> DEFINE u == Carried(written.package)
<1>7. /\ u.schema = written.package.schema /\ u.manifest = written.package.manifest
      /\ decode_binary(u.program) = Kept(written.package.program)
  BY <1>6, CarriedIs, PackageRuns DEF PackageWritten
<1>8. running' = [program |-> decode_binary(u.program), schema |-> u.schema, seed |-> u.manifest.seed]
  BY <1>6 DEF RunPackage
<1> HIDE DEF u
<1>9. running' = [program |-> Kept(written.package.program), schema |-> written.package.schema,
                  seed |-> written.package.manifest.seed]
  BY <1>7, <1>8
<1>10. written.format = "v2"
  BY <1>6 DEF PackageWritten
<1>11. RunIsWritten'
  BY <1>3, <1>9, <1>10 DEF RunIsWritten
<1>12. QED BY <1>2, <1>4, <1>11 DEF DeliveryInv

LEMMA DeliveryInvInit ==
    ASSUME Init
    PROVE  DeliveryInv
<1>1. BuildInv
  BY BuildInvInit
<1>2. /\ data = Nothing /\ catalog = Nothing /\ listed = <<>> /\ workers = <<>> /\ running = Nothing
  BY DEF Init
<1>3. LoadInv
  BY <1>2, ListEmpty DEF LoadInv
<1>4. CatalogIsWritten /\ WorkersAreWritten /\ UsedIsRegistered
  BY <1>2, NothingLoaded
<1>5. RunIsWritten
  BY <1>2 DEF RunIsWritten
<1>6. QED BY <1>1, <1>3, <1>4, <1>5 DEF DeliveryInv

LEMMA DeliveryInvStep ==
    ASSUME DeliveryInv, [Next]_vars
    PROVE  DeliveryInv'
<1>1. BuildInv /\ BuildInv'
  BY BuildInvStep DEF DeliveryInv
<1>2. CASE \E s \in Pushable : push_section(s)
  <2>1. Building /\ UNCHANGED runtimeVars
    BY <1>2 DEF push_section
  <2>2. QED BY <1>1, <2>1, BuildsStep
<1>3. CASE \E covered \in SUBSET {Sections[i].id : i \in DOMAIN Sections}, legacy \in BOOLEAN :
              push_manifest(covered, legacy)
  <2>1. Building /\ UNCHANGED runtimeVars
    BY <1>3 DEF push_manifest
  <2>2. QED BY <1>1, <2>1, BuildsStep
<1>4. CASE Build \/ \E key \in Keys : BuildSigned(key)
  <2>1. Building /\ UNCHANGED runtimeVars
    BY <1>4 DEF Build, BuildSigned
  <2>2. QED BY <1>1, <2>1, BuildsStep
<1>5. CASE (\E p \in Packaged : WritePackage(p)) \/ (\E p \in Programs : WriteProgram(p))
  <2>1. Building /\ UNCHANGED runtimeVars
    BY <1>5 DEF WritePackage, WriteProgram
  <2>2. QED BY <1>1, <2>1, BuildsStep
<1>6. CASE \/ \E length \in 0..(Len(file) - 1) : Cut(length)
           \/ \E p \in DOMAIN file : Garble(p) \/ Mislead(p)
  BY <1>1, <1>6, DamageStep
<1>7. CASE load_archive \/ run_archive
  <2> DEFINE a == Archive_decode(file)
  <2>1. /\ Verified(a) /\ fault # "misled" /\ LoadArchive(a)
        /\ UNCHANGED <<written, file, fault, running>>
    BY <1>7 DEF load_archive, run_archive, MayLoad
  <2>2. \/ UNCHANGED workers
        \/ /\ ~Registered(a).failed /\ Manifests(a) # {}
           /\ SpawnWorkers(WorkerPrograms(a, manifest(a)))
    BY <1>7 DEF load_archive, run_archive
  <2>3. a = Archive_decode(file)
    OBVIOUS
  <2> HIDE DEF a
  <2>4. QED BY <2>1, <2>2, <2>3, LoadStep
<1>8. CASE load_archive_reader \/ run_archive_reader
  <2> DEFINE a == Stream_open(file)
  <2>1. /\ Verified(a) /\ fault # "misled" /\ LoadArchiveReader(a)
        /\ UNCHANGED <<written, file, fault, running>>
    BY <1>8 DEF load_archive_reader, run_archive_reader, MayLoad
  <2>2. \/ UNCHANGED workers
        \/ /\ ~Registered(a).failed /\ Manifests(a) # {}
           /\ SpawnWorkers(WorkerPrograms(a, manifest(a)))
    BY <1>8 DEF load_archive_reader, run_archive_reader
  <2>3. a = Archive_decode(file)
    BY <1>1, <2>1, BothReaders
  <2> HIDE DEF a
  <2>4. QED BY <2>1, <2>2, <2>3, LoadStep
<1>9. CASE RunPackage
  BY <1>9, RunStep
<1>10. CASE UNCHANGED vars
  <2>1. UNCHANGED <<written, file, fault, loadVars, workers, running>>
    BY <1>10 DEF vars, runtimeVars
  <2>2. data' = data /\ catalog' = catalog /\ listed' = listed
    BY <2>1 DEF loadVars
  <2>3. Sections' = Sections
    BY <2>1 DEF Sections
  <2>4. Covered' = Covered
    BY <2>3 DEF Covered, HasManifest
  <2>5. Building' = Building
    BY <2>1 DEF Building
  <2>6. LoadInv'
    BY <2>1, <2>2, <2>3, <2>4, <2>5 DEF DeliveryInv, LoadInv
  <2>7. CatalogIsWritten'
    BY <2>2, <2>3, <2>4 DEF DeliveryInv, CatalogIsWritten
  <2>8. WorkersAreWritten'
    BY <2>1, <2>3, <2>4 DEF DeliveryInv, WorkersAreWritten
  <2>9. RunIsWritten'
    BY <2>1 DEF DeliveryInv, RunIsWritten
  <2>10. UsedIsRegistered'
    BY <2>1, <2>2, <2>3, <2>4 DEF DeliveryInv, UsedIsRegistered, AssetsReady
  <2>11. QED BY <1>1, <2>6, <2>7, <2>8, <2>9, <2>10 DEF DeliveryInv
<1>11. QED BY <1>2, <1>3, <1>4, <1>5, <1>6, <1>7, <1>8, <1>9, <1>10 DEF Next

(***************************************************************************)
(* What was written, and a fault of it.                                    *)
(***************************************************************************)

LEMMA SignatureNotices ==
    ASSUME BuildInv, fault \notin {"none", "misled"}, written.format = "v1",
           written.key # NoKey, NEW a, a = Archive_decode(file), IsRead(a)
    PROVE  ~verify_signature(a, Keys)
<1>1. PICK S, st, u : FileIs(S, st, u) /\ Finds(a, file, S, st)
  BY OpenedFile
<1>2. /\ SectionList(Sections) /\ DistinctIds(Sections) /\ u = Written(Sections, written.key)
      /\ Faulty(file, u, fault)
  BY <1>1 DEF FileIs
<1>3. a = Accepted(file, Len(S)) /\ Len(file) >= TableOffset + Len(S)
  BY <1>1 DEF Finds
<1>4. Len(S) \in Nat /\ Len(file) \in Nat
  BY <1>1, ListLength DEF FileIs, Sorted, SectionList, Near
<1>5. Len(file) >= 1
  BY <1>3, <1>4 DEF TableOffset
<1>6. QED BY <1>2, <1>3, <1>5, SignatureFails

LEMMA MisledNotices ==
    ASSUME BuildInv, fault = "misled", written.format = "v1", written.key # NoKey,
           NEW a, a = Archive_decode(file), IsRead(a), SignatureStands(a.header)
    PROVE  ~verify_signature(a, Keys)
<1>1. /\ Sections = written.sections /\ SectionList(Sections) /\ DistinctIds(Sections)
      /\ Faulty(file, Written(Sections, written.key), "misled")
  BY DEF BuildInv, ArchiveWritten, PackageWritten, ProgramWritten, Sections
<1>2. a.units = file /\ a.header = file[1] /\ file[1].unit = "header"
  BY DEF Archive_decode, Opened, IsRead
<1>3. file[1].signatureAt = Len(build(Sections, NoKey)) /\ file[1].signatureSize = 1
  BY <1>2 DEF SignatureStands
<1>4. QED BY <1>1, <1>2, <1>3, SignatureMisled

\* An archive that lost its end is refused, unless only its signature is gone.
LEMMA CutArchive ==
    ASSUME BuildInv, fault = "cut", IsRead(Archive_decode(file))
    PROVE  written.key # NoKey /\ Len(file) = Len(build(Sections, NoKey))
<1> DEFINE a == Archive_decode(file)
<1>1. PICK S, st, u : FileIs(S, st, u) /\ Finds(a, file, S, st)
  BY OpenedFile
<1>2. /\ SectionList(Sections) /\ DistinctIds(Sections) /\ u = Written(Sections, written.key)
      /\ Faulty(file, u, fault) /\ Near(file, u) /\ IsList(file)
  BY <1>1 DEF FileIs, Near
<1>3. IsList(u) /\ Len(u) >= 1
  BY <1>2, WrittenSome
<1>4. Len(file) < Len(u)
  BY <1>2, <1>3, Prefix
<1>5. QED BY <1>2, <1>4, CutIsShort

LEMMA CutProgram ==
    ASSUME BuildInv, fault = "cut", written.format = "program"
    PROVE  ~IsRead(decode_binary(file))
<1> DEFINE p == written.program
           q == encode_binary(p)
<1>1. ProgramWritten
  BY DEF BuildInv, ArchiveWritten, PackageWritten
<1>2. IsProgram(p) /\ IsList(q) /\ IsList(file) /\ Slot(file, 0, q) /\ Len(file) < Len(q)
  BY <1>1, ProgramFile
<1>3. Len(file) \in Nat /\ Len(q) \in Nat
  BY <1>2, ListLength
<1>4. decode_binary(file) = IF Len(q) <= Len(file) THEN Kept(p) ELSE NotRead
  <2> HIDE DEF p
  <2>1. QED BY <1>2, ProgramIsRead
<1> HIDE DEF q
<1>5. ~(Len(q) <= Len(file))
  BY <1>2, <1>3
<1>6. QED BY <1>4, <1>5 DEF IsRead

LEMMA DamageNoticed ==
    ASSUME BuildInv
    PROVE  DamageIsNoticed
<1>1. ASSUME fault # "none", written.format = "v1", written.key # NoKey,
             IsRead(Archive_decode(file)), SignatureStands(Archive_decode(file).header)
      PROVE  ~verify_signature(Archive_decode(file), Keys)
  <2>1. CASE fault = "misled"
    BY <1>1, <2>1, MisledNotices
  <2>2. CASE fault # "misled"
    BY <1>1, <2>2, SignatureNotices
  <2>3. QED BY <2>1, <2>2
<1>2. ASSUME fault = "cut"
      PROVE  CASE written.format = "v1" ->
                     (IsRead(Archive_decode(file)) \/ IsRead(Stream_open(file))) =>
                         written.key # NoKey /\ Len(file) = Len(build(Sections, NoKey))
               [] written.format = "v2"      -> ~IsRead(DecodePackage(file))
               [] written.format = "program" -> ~IsRead(decode_binary(file))
  <2>1. CASE written.format = "v1"
    <3>1. (IsRead(Archive_decode(file)) \/ IsRead(Stream_open(file))) =>
              written.key # NoKey /\ Len(file) = Len(build(Sections, NoKey))
      BY <1>2, BothReaders, CutArchive
    <3>2. QED BY <2>1, <3>1, Zenon
  <2>2. CASE written.format = "v2"
    <3>1. ~IsRead(DecodePackage(file))
      BY <1>2, DecodedFile
    <3>2. QED BY <2>2, <3>1, Zenon
  <2>3. CASE written.format = "program"
    <3>1. ~IsRead(decode_binary(file))
      BY <1>2, <2>3, CutProgram
    <3>2. QED BY <2>3, <3>1, Zenon
  <2>4. written.format = "v1" \/ written.format = "v2" \/ written.format = "program"
    BY DEF BuildInv, ArchiveWritten, PackageWritten, ProgramWritten
  <2>5. QED BY <2>1, <2>2, <2>3, <2>4
<1>3. QED BY <1>1, <1>2, Zenon DEF DamageIsNoticed

\* What an archive holds that nothing happened to.
LEMMA ArchiveWhole ==
    ASSUME BuildInv, Whole, written.format = "v1"
    PROVE  ArchiveIsRead(Archive_decode(file))
<1> DEFINE a == Archive_decode(file)
           q == Sections
           m == ManifestOf(q, Covered)
           p == q[Len(q)].payload
<1>1. ~Building
  BY DEF Whole, Building
<1>2. PICK S, st, u : FileIs(S, st, u)
  BY <1>1, ArchiveFile DEF Whole
<1>3. /\ SectionList(q) /\ DistinctIds(q) /\ S = ById(q) /\ st = Starts(S)
      /\ u = Written(q, written.key) /\ Faulty(file, u, fault)
      /\ Sorted(S, q) /\ written.key \in Keys \cup {NoKey}
  BY <1>2 DEF FileIs
<1>4. file = u
  BY <1>3 DEF Faulty, Whole
<1>5. IsList(q) /\ DOMAIN q = 1..Len(q)
  BY <1>3, ListSeq DEF SectionList
<1>6. IsRead(a) /\ Finds(a, u, S, st) /\ Len(a.entries) = Len(q)
  <2> HIDE DEF q
  <2>1. QED BY <1>3, <1>4, FoundWhole
<1>7. \A i \in 1..Len(q) : Found(a, q[i])
  <2> HIDE DEF q
  <2>1. QED BY <1>3, <1>4, FoundWhole
<1>8. verify_signature(a, Keys)
  <2>1. a = Accepted(u, Len(S))
    BY <1>6 DEF Finds
  <2> HIDE DEF q, a
  <2>2. QED BY <1>3, <2>1, SignatureHolds
<1>9. \/ ~HasManifest /\ \A i \in 1..Len(q) : q[i].kind # "Manifest"
      \/ HasManifest /\ Closed(q, Covered)
  BY <1>2 DEF FileIs
<1>10. verify_manifest_digests(a)
  <2>1. CASE \A i \in 1..Len(q) : q[i].kind # "Manifest"
    <3> HIDE DEF q, a
    <3>1. Manifests(a) = {}
      BY <1>3, <1>6, <2>1, NoneFound
    <3>2. QED BY <3>1 DEF verify_manifest_digests
  <2>2. CASE Closed(q, Covered)
    <3> HIDE DEF q
    <3>1. QED BY <1>3, <1>4, <2>2, ManifestHolds
  <2>3. QED BY <1>9, <2>1, <2>2
<1>11. IsRead(unpack(a))
  BY <1>10, UnpackIsRead
<1>12. ASSUME HasManifest
       PROVE  \/ manifest(a) = m /\ p = EncodeManifest(manifest(a))
              \/ /\ manifest(a) = [m EXCEPT !.places = <<>>, !.workers = <<>>]
                 /\ p = Legacy(EncodeManifest(manifest(a)))
  <2>1. Closed(q, Covered)
    BY <1>9, <1>12
  <2>2. manifest(a) = DecodeManifest(p)
    <3> HIDE DEF q
    <3>1. QED BY <1>3, <1>4, <2>1, ManifestHolds
  <2>3. Manifested(p, m)
    BY <1>3, <1>5, <2>1, ClosedIs
  <2>4. /\ ManifestLists(m)
        /\ m = [entry |-> m.entry, extensions |-> m.extensions, archives |-> m.archives,
                digests |-> m.digests, names |-> m.names, places |-> m.places,
                workers |-> m.workers]
    BY <1>5, ManifestOfIs
  <2> HIDE DEF a, p, m
  <2>5. DecodeManifest(EncodeManifest(m)) = m /\ DecodeManifest(Legacy(EncodeManifest(m))) = Stripped(m)
    BY <2>4, ManifestWhole
  <2>6. Legacy(EncodeManifest(m)) = Legacy(EncodeManifest(Stripped(m)))
    BY <2>4, LegacyStripped
  <2>7. CASE p = EncodeManifest(m)
    BY <2>2, <2>5, <2>7
  <2>8. CASE p = Legacy(EncodeManifest(m))
    <3>1. manifest(a) = Stripped(m) /\ p = Legacy(EncodeManifest(manifest(a)))
      BY <2>2, <2>5, <2>6, <2>8
    <3>2. QED BY <3>1 DEF Stripped
  <2>9. QED BY <2>3, <2>7, <2>8 DEF Manifested
<1>13. \A i \in DOMAIN Sections : Found(a, Sections[i])
  BY <1>5, <1>7
<1> HIDE DEF a
<1>14. ArchiveIsRead(a)
  BY <1>6, <1>8, <1>11, <1>12, <1>13 DEF ArchiveIsRead
<1>15. QED BY <1>14 DEF a

LEMMA PackageWhole ==
    ASSUME BuildInv, Whole, written.format = "v2"
    PROVE  LET p == DecodePackage(file)
           IN  /\ IsRead(p)
               /\ [p EXCEPT !.program = decode_binary(@)] =
                     [written.package EXCEPT !.program = Kept(@)]
<1> DEFINE p == written.package
           u == Carried(p)
           q == EncodePackage(u)
<1>1. PackageWritten
  BY DEF BuildInv, ArchiveWritten, ProgramWritten
<1>2. p \in Packaged /\ validate_assets(p.assets)
  BY <1>1 DEF PackageWritten
<1>3. /\ IsPackage(u) /\ u.program = encode_binary(p.program) /\ u.assets = p.assets
      /\ p = [manifest |-> p.manifest, capabilities |-> p.capabilities,
              program |-> p.program, schema |-> p.schema, assets |-> p.assets]
  BY <1>2, CarriedIs
<1>4. IsList(file) /\ Slot(file, 0, q) /\ file = q
  BY <1>1, PackageFile DEF Whole
<1>5. Len(file) \in Nat /\ Len(file) <= Len(q)
  <2>1. Len(file) \in Nat
    BY <1>4, ListLength
  <2> HIDE DEF q
  <2>2. QED BY <1>4, <2>1
<1>6. DecodePackage(file) = u
  <2>1. DecodePackage(file) = IF Len(file) = Len(q) THEN u ELSE NotRead
    <3> HIDE DEF u
    <3>1. QED BY <1>2, <1>3, <1>4, <1>5, PackageIsRead
  <2> HIDE DEF u, q
  <2>2. QED BY <1>4, <2>1
<1>7. decode_binary(u.program) = Kept(p.program)
  BY <1>1, PackageRuns
<1>8. IsRead(u)
  <2>1. "manifest" \in DOMAIN u /\ "manifest" \notin DOMAIN NotRead
    BY <1>3 DEF Carried, NotRead
  <2>2. QED BY <2>1 DEF IsRead
<1>9. [u EXCEPT !.program = decode_binary(@)] = [p EXCEPT !.program = Kept(@)]
  <2> DEFINE e == encode_binary(p.program)
             k == Kept(p.program)
  <2>1. u = [p EXCEPT !.program = e]
    BY DEF Carried
  <2>2. [u EXCEPT !.program = decode_binary(@)] = [u EXCEPT !.program = k]
    BY <1>7
  <2>3. [p EXCEPT !.program = Kept(@)] = [p EXCEPT !.program = k]
    OBVIOUS
  <2> HIDE DEF u, e, k, p
  <2>4. [u EXCEPT !.program = k] = [p EXCEPT !.program = k]
    BY <1>3, <2>1
  <2>5. QED BY <2>2, <2>3, <2>4
<1> HIDE DEF u
<1>10. QED BY <1>6, <1>8, <1>9

LEMMA ProgramWhole ==
    ASSUME BuildInv, Whole, written.format = "program"
    PROVE  decode_binary(file) = Kept(written.program)
<1> DEFINE p == written.program
           q == encode_binary(p)
<1>1. ProgramWritten
  BY DEF BuildInv, ArchiveWritten, PackageWritten
<1>2. IsProgram(p) /\ IsList(file) /\ Slot(file, 0, q) /\ file = q
  BY <1>1, ProgramFile DEF Whole
<1>3. Len(file) \in Nat
  BY <1>2, ListLength
<1>4. decode_binary(file) = IF Len(q) <= Len(file) THEN Kept(p) ELSE NotRead
  <2> HIDE DEF p
  <2>1. QED BY <1>2, ProgramIsRead
<1> HIDE DEF q
<1>5. QED BY <1>2, <1>3, <1>4

LEMMA WrittenRead ==
    ASSUME BuildInv
    PROVE  WrittenIsRead
<1> SUFFICES ASSUME Whole
    PROVE CASE written.format = "v1" ->
                  ArchiveIsRead(Archive_decode(file)) /\ ArchiveIsRead(Stream_open(file))
            [] written.format = "v2" ->
                  LET p == DecodePackage(file)
                  IN  /\ IsRead(p)
                      /\ [p EXCEPT !.program = decode_binary(@)] =
                            [written.package EXCEPT !.program = Kept(@)]
            [] written.format = "program" -> decode_binary(file) = Kept(written.program)
  BY Zenon DEF WrittenIsRead
<1>1. CASE written.format = "v1"
  <2>1. ArchiveIsRead(Archive_decode(file)) /\ ArchiveIsRead(Stream_open(file))
    BY <1>1, ArchiveWhole, BothReaders DEF Whole
  <2>2. QED BY <1>1, <2>1, Zenon
<1>2. CASE written.format = "v2"
  <2>1. LET p == DecodePackage(file)
        IN  /\ IsRead(p)
            /\ [p EXCEPT !.program = decode_binary(@)] =
                  [written.package EXCEPT !.program = Kept(@)]
    BY <1>2, PackageWhole
  <2>2. QED BY <1>2, <2>1, Zenon
<1>3. CASE written.format = "program"
  <2>1. decode_binary(file) = Kept(written.program)
    BY <1>3, ProgramWhole
  <2>2. QED BY <1>3, <2>1, Zenon
<1>4. written.format = "v1" \/ written.format = "v2" \/ written.format = "program"
  BY DEF BuildInv, ArchiveWritten, PackageWritten, ProgramWritten
<1>5. QED BY <1>1, <1>2, <1>3, <1>4

(***************************************************************************)
(* The theorems.                                                           *)
(***************************************************************************)

\* In every state the file is what the build wrote, or that with one fault of
\* it, and what the runtime has is of sections as they were pushed
\* (ArchiveBuilder, load_archive, ResourceCatalog::insert): the invariant that
\* the theorems below follow from.
THEOREM DeliveryHolds == Spec => []DeliveryInv
<1>1. Init => DeliveryInv
  BY DeliveryInvInit
<1>2. DeliveryInv /\ [Next]_vars => DeliveryInv'
  BY DeliveryInvStep
<1>3. QED BY <1>1, <1>2, PTL DEF Spec

\* Whatever sections, packages and programs a build is given, every reader
\* gives them back of a file that nothing happened to (ArchiveBuilder::build,
\* Archive::decode, ArchiveStreamReader::open, ArchiveBundle::from_archive,
\* Manifest::decode, ArchiveV2::decode, Program::decode_binary).
THEOREM WhatIsWrittenIsRead == Spec => []WrittenIsRead
<1>1. DeliveryInv => WrittenIsRead
  BY WrittenRead DEF DeliveryInv
<1>2. QED BY <1>1, DeliveryHolds, PTL

\* A signed archive of which a unit changed, headers and table included, or the
\* end is lost, does not verify, unless what changed is where the header says
\* that the signature is, which is not signed; and a file that lost its end is
\* refused, or has lost nothing but its signature (ArchiveVerifier::verify,
\* normalized_signed_bytes, verify_layout, ArchiveV2::decode, decode_binary).
THEOREM NoDamageIsMissed == Spec => []DamageIsNoticed
<1>1. DeliveryInv => DamageIsNoticed
  BY DamageNoticed DEF DeliveryInv
<1>2. QED BY <1>1, DeliveryHolds, PTL

\* Of a section with a digest a runtime only ever has, and a worker only ever
\* runs, what was pushed, and wms only runs the program of the package that was
\* built, whether the file was whole, cut or garbled between two loads of it (load_archive,
\* load_archive_reader, decode_worker_programs_from_archive, run_archive).
THEOREM LoadedIsWritten == Spec => []OnlyWrittenIsLoaded
<1>1. ASSUME DeliveryInv PROVE OnlyWrittenIsLoaded
  <2>1. \A r \in DOMAIN catalog, i \in DOMAIN Sections :
            Sections[i].id = catalog[r].section /\ Sections[i].id \in Covered =>
               LET header == Sections[i].payload[1]
               IN  header.id = r /\ data[r] = Taken(Sections[i].payload, header.offset, header.size)
    BY <1>1 DEF DeliveryInv, CatalogIsWritten
  <2>2. \A k \in DOMAIN workers, i \in DOMAIN Sections :
            Sections[i].id = workers[k].section /\ Sections[i].id \in Covered =>
               workers[k].program = decode_binary(Sections[i].payload)
    BY <1>1 DEF DeliveryInv, WorkersAreWritten
  <2>3. running # Nothing =>
            /\ running.program = Kept(written.package.program)
            /\ running.schema = written.package.schema
            /\ running.seed = written.package.manifest.seed
    BY <1>1 DEF DeliveryInv, RunIsWritten
  <2>4. QED BY <2>1, <2>2, <2>3 DEF OnlyWrittenIsLoaded
<1>2. QED BY <1>1, DeliveryHolds, PTL

\* A manifest that load_archive lists, and one whose workers were started
\* through either reader, has all its assets registered (Runtime::load_archive,
\* Toolchain::run_archive, run_archive_reader).
THEOREM UsedIsAlwaysRegistered == Spec => []UsedIsRegistered
<1>1. DeliveryInv => UsedIsRegistered
  BY DEF DeliveryInv
<1>2. QED BY <1>1, DeliveryHolds, PTL

=================================================================================
