-------------------------- MODULE GatewayQuery_proofs --------------------------
(***************************************************************************)
(* Proofs about GatewayQuery, for any table, questions, drafts and bounds. *)
(* Induction is on sets of numbers: a set without a least element that is  *)
(* outside of it holds them all.                                           *)
(***************************************************************************)
EXTENDS GatewayQuery, SequenceTheorems, WellFoundedInduction, TLAPS

--------------------------------------------------------------------------------
(* Numbers                                                                    *)

LEMMA LeastOf == ASSUME NEW T \in SUBSET Nat, T # {} PROVE \E x \in T : \A y \in T : x <= y
<1> DEFINE R == OpToRel(<, Nat)
<1>1. IsWellFoundedOn(R, Nat)
  BY NatLessThanWellFounded
<1>2. \A x, y \in Nat : <<y, x>> \in R <=> y < x
  BY DEF OpToRel
<1> HIDE DEF R
<1>3. PICK x \in T : \A y \in T : ~(<<y, x>> \in R)
  BY <1>1, WFMin
<1>4. ASSUME NEW y \in T PROVE x <= y
  <2>1. ~(<<y, x>> \in R) /\ x \in Nat /\ y \in Nat
    BY <1>3
  <2>2. ~(y < x)
    BY <1>2, <2>1
  <2> QED
    BY <2>1, <2>2
<1> QED
  BY <1>4

\* Induction up to n: a set that holds 0, and with every number the next, has all.
LEMMA UpTo ==
  ASSUME NEW n \in Nat, NEW G, 0 \in G, \A i \in 1..n : i - 1 \in G => i \in G
  PROVE  0..n \subseteq G
<1> DEFINE bad == (0..n) \ G
<1> SUFFICES ASSUME bad # {} PROVE FALSE
  OBVIOUS
<1>1. bad \in SUBSET Nat
  OBVIOUS
<1>2. PICK x \in bad : \A y \in bad : x <= y
  BY <1>1, LeastOf
<1>3. x \in 1..n
  BY <1>2
<1>4. x - 1 \in G
  BY <1>2, <1>3
<1> QED
  BY <1>2, <1>3, <1>4

\* A set of numbers with a bound has a largest one.
LEMMA LargestOf ==
  ASSUME NEW n \in Nat, NEW T \in SUBSET (0..n), T # {}
  PROVE  \E x \in T : \A y \in T : y <= x
<1> DEFINE above == {i \in Nat : \A y \in T : y <= i}
<1>1. n \in above /\ above \in SUBSET Nat
  OBVIOUS
<1>2. PICK x \in above : \A z \in above : x <= z
  BY <1>1, LeastOf
<1>3. ASSUME x \notin T PROVE FALSE
  <2>1. PICK y \in T : TRUE
    OBVIOUS
  <2>2. \A z \in T : z < x
    BY <1>2, <1>3
  <2>3. x - 1 \in above
    BY <1>2, <2>1, <2>2
  <2> QED
    BY <1>2, <2>3
<1> QED
  BY <1>2, <1>3

--------------------------------------------------------------------------------
(* Amounts that are kept, and their sum                                       *)

\* What the recursive functions of the model satisfy.
Keeps(s, f, n) ==
  f = [i \in 0..n |-> IF i = 0 THEN <<>>
                      ELSE IF s[i] > 0 THEN Append(f[i - 1], s[i]) ELSE f[i - 1]]
Sums(s, f, n) == f = [i \in 0..n |-> IF i = 0 THEN 0 ELSE f[i - 1] + s[i]]

LEMMA KeepsStep ==
  ASSUME NEW s, NEW n \in Nat, NEW f, Keeps(s, f, n)
  PROVE  /\ f[0] = <<>>
         /\ \A i \in 1..n : f[i] = IF s[i] > 0 THEN Append(f[i - 1], s[i]) ELSE f[i - 1]
<1>1. ASSUME NEW i \in 0..n
      PROVE  f[i] = IF i = 0 THEN <<>>
                    ELSE IF s[i] > 0 THEN Append(f[i - 1], s[i]) ELSE f[i - 1]
  BY DEF Keeps
<1>2. 0 \in 0..n /\ \A i \in 1..n : i \in 0..n /\ i # 0
  OBVIOUS
<1> QED
  BY <1>1, <1>2

LEMMA SumsStep ==
  ASSUME NEW s, NEW n \in Nat, NEW f, Sums(s, f, n)
  PROVE  f[0] = 0 /\ \A i \in 1..n : f[i] = f[i - 1] + s[i]
<1>1. ASSUME NEW i \in 0..n PROVE f[i] = IF i = 0 THEN 0 ELSE f[i - 1] + s[i]
  BY DEF Sums
<1>2. 0 \in 0..n /\ \A i \in 1..n : i \in 0..n /\ i # 0
  OBVIOUS
<1> QED
  BY <1>1, <1>2

LEMMA KeepsExists == ASSUME NEW s, NEW n \in Nat PROVE \E f : Keeps(s, f, n)
<1> DEFINE G == {m \in 0..n : \E f : Keeps(s, f, m)}
<1>1. 0 \in G
  <2> DEFINE f == [i \in 0..0 |-> <<>>]
  <2>1. Keeps(s, f, 0)
    BY DEF Keeps
  <2> HIDE DEF f
  <2> QED
    BY <2>1
<1>2. ASSUME NEW m \in 1..n, m - 1 \in G PROVE m \in G
  <2>1. PICK f : Keeps(s, f, m - 1)
    BY <1>2
  <2> DEFINE g == [i \in 0..m |-> IF i < m THEN f[i]
                    ELSE IF s[m] > 0 THEN Append(f[m - 1], s[m]) ELSE f[m - 1]]
  <2>2. ASSUME NEW i \in 0..m
        PROVE  g[i] = IF i = 0 THEN <<>>
                      ELSE IF s[i] > 0 THEN Append(g[i - 1], s[i]) ELSE g[i - 1]
    <3>1. CASE i = m
      BY <3>1
    <3>2. CASE i # m
      <4>1. i \in 0..(m - 1) /\ (i # 0 => i - 1 \in 0..(m - 1))
        BY <3>2
      <4>2. f[i] = IF i = 0 THEN <<>>
                   ELSE IF s[i] > 0 THEN Append(f[i - 1], s[i]) ELSE f[i - 1]
        BY <2>1, <4>1 DEF Keeps
      <4>3. g[i] = f[i] /\ (i # 0 => g[i - 1] = f[i - 1])
        BY <3>2, <4>1
      <4> HIDE DEF g
      <4> QED
        BY <4>2, <4>3
    <3> QED
      BY <3>1, <3>2
  <2>3. g = [i \in 0..m |-> g[i]]
    OBVIOUS
  <2> HIDE DEF g
  <2>4. Keeps(s, g, m)
    BY <2>2, <2>3 DEF Keeps
  <2> QED
    BY <2>4
<1> HIDE DEF G
<1>3. n \in G
  BY <1>1, <1>2, UpTo
<1> QED
  BY <1>3 DEF G

LEMMA SumsExists == ASSUME NEW s, NEW n \in Nat PROVE \E f : Sums(s, f, n)
<1> DEFINE G == {m \in 0..n : \E f : Sums(s, f, m)}
<1>1. 0 \in G
  <2> DEFINE f == [i \in 0..0 |-> 0]
  <2>1. Sums(s, f, 0)
    BY DEF Sums
  <2> HIDE DEF f
  <2> QED
    BY <2>1
<1>2. ASSUME NEW m \in 1..n, m - 1 \in G PROVE m \in G
  <2>1. PICK f : Sums(s, f, m - 1)
    BY <1>2
  <2> DEFINE g == [i \in 0..m |-> IF i < m THEN f[i] ELSE f[m - 1] + s[m]]
  <2>2. ASSUME NEW i \in 0..m PROVE g[i] = IF i = 0 THEN 0 ELSE g[i - 1] + s[i]
    <3>1. CASE i = m
      BY <3>1
    <3>2. CASE i # m
      <4>1. i \in 0..(m - 1) /\ (i # 0 => i - 1 \in 0..(m - 1))
        BY <3>2
      <4>2. f[i] = IF i = 0 THEN 0 ELSE f[i - 1] + s[i]
        BY <2>1, <4>1 DEF Sums
      <4>3. g[i] = f[i] /\ (i # 0 => g[i - 1] = f[i - 1])
        BY <3>2, <4>1
      <4> HIDE DEF g
      <4> QED
        BY <4>2, <4>3
    <3> QED
      BY <3>1, <3>2
  <2>3. g = [i \in 0..m |-> g[i]]
    OBVIOUS
  <2> HIDE DEF g
  <2>4. Sums(s, g, m)
    BY <2>2, <2>3 DEF Sums
  <2> QED
    BY <2>4
<1> HIDE DEF G
<1>3. n \in G
  BY <1>1, <1>2, UpTo
<1> QED
  BY <1>3 DEF G

LEMMA PositiveKeeps ==
  ASSUME NEW S, NEW s \in Seq(S)
  PROVE  \E f : Keeps(s, f, Len(s)) /\ Positive(s) = f[Len(s)]
<1> DEFINE f == CHOOSE g : Keeps(s, g, Len(s))
<1>1. Keeps(s, f, Len(s))
  BY KeepsExists
<1>2. Positive(s) = f[Len(s)]
  BY DEF Positive, Keeps
<1> QED
  BY <1>1, <1>2

LEMMA TotalSums ==
  ASSUME NEW S, NEW s \in Seq(S)
  PROVE  \E f : Sums(s, f, Len(s)) /\ Total(s) = f[Len(s)]
<1> DEFINE f == CHOOSE g : Sums(s, g, Len(s))
<1>1. Sums(s, f, Len(s))
  BY SumsExists
<1>2. Total(s) = f[Len(s)]
  BY DEF Total, Sums
<1> QED
  BY <1>1, <1>2

\* What is kept of the first i amounts.
LEMMA KeptTyped ==
  ASSUME NEW S, NEW s \in Seq(S), NEW n \in 0..Len(s), NEW f, Keeps(s, f, n)
  PROVE  \A i \in 0..n : f[i] \in Seq(S) /\ Len(f[i]) <= i
<1> DEFINE G == {i \in 0..n : f[i] \in Seq(S) /\ Len(f[i]) <= i}
<1>1. 0 \in G
  <2>1. f[0] = <<>>
    BY KeepsStep
  <2>2. f[0] \in Seq(S) /\ Len(f[0]) = 0
    BY <2>1, EmptySeq
  <2> QED
    BY <2>2
<1>2. ASSUME NEW i \in 1..n, i - 1 \in G PROVE i \in G
  <2>1. f[i] = IF s[i] > 0 THEN Append(f[i - 1], s[i]) ELSE f[i - 1]
    BY KeepsStep
  <2>2. f[i - 1] \in Seq(S) /\ Len(f[i - 1]) <= i - 1 /\ s[i] \in S
    BY <1>2
  <2>3. Append(f[i - 1], s[i]) \in Seq(S) /\ Len(Append(f[i - 1], s[i])) = Len(f[i - 1]) + 1
    BY <2>2, AppendProperties
  <2>4. Len(f[i - 1]) \in Nat
    BY <2>2
  <2>5. f[i] \in Seq(S)
    BY <2>1, <2>2, <2>3
  <2>6. Len(f[i]) <= i
    BY <2>1, <2>2, <2>3, <2>4
  <2> QED
    BY <2>5, <2>6
<1> HIDE DEF G
<1>3. 0..n \subseteq G
  BY <1>1, <1>2, UpTo
<1> QED
  BY <1>3 DEF G

\* What is kept of fewer amounts is the beginning of what is kept of more.
LEMMA KeptGrows ==
  ASSUME NEW S, NEW s \in Seq(S), NEW n \in 0..Len(s), NEW f, Keeps(s, f, n), NEW m \in 0..n
  PROVE  \A i \in m..n : /\ Len(f[m]) <= Len(f[i])
                         /\ \A k \in 1..Len(f[m]) : f[i][k] = f[m][k]
<1> DEFINE Grown(i) == Len(f[m]) <= Len(f[i]) /\ \A k \in 1..Len(f[m]) : f[i][k] = f[m][k]
           G == {d \in 0..(n - m) : Grown(m + d)}
<1>1. 0 \in G
  BY KeptTyped
<1>2. ASSUME NEW d \in 1..(n - m), d - 1 \in G PROVE d \in G
  <2> DEFINE i == m + d
  <2>1. i \in 1..n /\ i - 1 \in 0..n /\ m + (d - 1) = i - 1
    OBVIOUS
  <2>2. Grown(i - 1)
    BY <1>2, <2>1
  <2> HIDE DEF i
  <2>3. f[i] = IF s[i] > 0 THEN Append(f[i - 1], s[i]) ELSE f[i - 1]
    BY <2>1, KeepsStep
  <2>4. f[i - 1] \in Seq(S) /\ f[m] \in Seq(S) /\ s[i] \in S
    BY <2>1, KeptTyped
  <2>5. /\ Len(Append(f[i - 1], s[i])) = Len(f[i - 1]) + 1
        /\ \A k \in 1..Len(f[i - 1]) : Append(f[i - 1], s[i])[k] = f[i - 1][k]
    BY <2>4, AppendProperties
  <2>6. Len(f[m]) \in Nat /\ Len(f[i - 1]) \in Nat
    BY <2>4
  <2>7. Grown(i)
    BY <2>2, <2>3, <2>5, <2>6
  <2> QED
    BY <2>7 DEF i
<1> HIDE DEF G
<1>3. 0..(n - m) \subseteq G
  <2>1. n - m \in Nat
    OBVIOUS
  <2> QED
    BY <1>1, <1>2, <2>1, UpTo
<1>4. ASSUME NEW i \in m..n PROVE Grown(i)
  <2>1. i - m \in 0..(n - m) /\ m + (i - m) = i
    OBVIOUS
  <2> QED
    BY <1>3, <2>1 DEF G
<1> QED
  BY <1>4

\* What is kept depends on nothing but the amounts looked at.
LEMMA KeptAlike ==
  ASSUME NEW s, NEW t, NEW n \in Nat, NEW m \in 0..n, NEW f, NEW g,
         Keeps(s, f, n), Keeps(t, g, m), \A i \in 1..m : t[i] = s[i]
  PROVE  g[m] = f[m]
<1> DEFINE G == {i \in 0..m : g[i] = f[i]}
<1>1. 0 \in G
  BY KeepsStep
<1>2. ASSUME NEW i \in 1..m, i - 1 \in G PROVE i \in G
  <2>1. f[i] = IF s[i] > 0 THEN Append(f[i - 1], s[i]) ELSE f[i - 1]
    BY KeepsStep
  <2>2. g[i] = IF t[i] > 0 THEN Append(g[i - 1], t[i]) ELSE g[i - 1]
    BY KeepsStep
  <2> QED
    BY <1>2, <2>1, <2>2
<1> HIDE DEF G
<1>3. 0..m \subseteq G
  BY <1>1, <1>2, UpTo
<1> QED
  BY <1>3 DEF G

LEMMA FirstOfSeq ==
  ASSUME NEW S, NEW s \in Seq(S), NEW n \in Nat
  PROVE  LET m == IF Len(s) < n THEN Len(s) ELSE n
         IN  /\ m \in 0..Len(s)
             /\ First(n, s) \in Seq(S) /\ Len(First(n, s)) = m
             /\ \A i \in 1..m : First(n, s)[i] = s[i]
             /\ Len(s) <= n => First(n, s) = s
<1> DEFINE m == IF Len(s) < n THEN Len(s) ELSE n
<1>1. m \in 0..Len(s) /\ (Len(s) <= n => m = Len(s))
  OBVIOUS
<1> HIDE DEF m
<1>2. First(n, s) = SubSeq(s, 1, m)
  BY DEF First, m
<1>3. /\ SubSeq(s, 1, m) \in Seq(S) /\ Len(SubSeq(s, 1, m)) = m
      /\ \A i \in 1..m : SubSeq(s, 1, m)[i] = s[i]
  <2>1. \A i \in 1..m : s[i] \in S
    BY <1>1
  <2> QED
    BY <1>1, <2>1, SubSeqProperties
<1>4. Len(s) <= n => First(n, s) = s
  BY <1>1, <1>2, SubSeqFull
<1> QED
  BY <1>1, <1>2, <1>3, <1>4 DEF m

\* The positive amounts among the first n of s.
LEMMA PositiveOfFirst ==
  ASSUME NEW S, NEW s \in Seq(S), NEW f, Keeps(s, f, Len(s)), NEW n \in Nat
  PROVE  Positive(First(n, s)) = f[IF Len(s) < n THEN Len(s) ELSE n]
<1> DEFINE m == IF Len(s) < n THEN Len(s) ELSE n
           t == First(n, s)
<1>1. m \in 0..Len(s) /\ t \in Seq(S) /\ Len(t) = m /\ \A i \in 1..m : t[i] = s[i]
  BY FirstOfSeq
<1> HIDE DEF m, t
<1>2. PICK g : Keeps(t, g, m) /\ Positive(t) = g[m]
  BY <1>1, PositiveKeeps
<1>3. g[m] = f[m]
  BY <1>1, <1>2, KeptAlike
<1> QED
  BY <1>2, <1>3 DEF m, t

LEMMA PositiveTyped ==
  ASSUME NEW S, NEW s \in Seq(S)
  PROVE  Positive(s) \in Seq(S) /\ Len(Positive(s)) <= Len(s)
<1>1. PICK f : Keeps(s, f, Len(s)) /\ Positive(s) = f[Len(s)]
  BY PositiveKeeps
<1> QED
  BY <1>1, KeptTyped

\* Of fewer first amounts the positive ones come first among those of more.
LEMMA PositiveIsPrefix ==
  ASSUME NEW S, NEW s \in Seq(S), NEW m \in Nat, NEW n \in Nat, m <= n
  PROVE  IsPrefix(Positive(First(m, s)), Positive(First(n, s)))
<1> DEFINE a == IF Len(s) < m THEN Len(s) ELSE m
           b == IF Len(s) < n THEN Len(s) ELSE n
<1>1. PICK f : Keeps(s, f, Len(s))
  <2>1. Len(s) \in Nat
    OBVIOUS
  <2> QED
    BY <2>1, KeepsExists
<1>2. Positive(First(m, s)) = f[a] /\ Positive(First(n, s)) = f[b]
  BY <1>1, PositiveOfFirst
<1>3. a \in 0..Len(s) /\ b \in a..Len(s) /\ b \in 0..Len(s)
  OBVIOUS
<1> HIDE DEF a, b
<1>4. f[a] \in Seq(S) /\ f[b] \in Seq(S)
  BY <1>1, <1>3, KeptTyped
<1>5. Len(f[a]) <= Len(f[b]) /\ \A k \in 1..Len(f[a]) : f[b][k] = f[a][k]
  BY <1>1, <1>3, KeptGrows
<1>6. SubSeq(f[a], 1, Len(f[a])) = SubSeq(f[b], 1, Len(f[a]))
  <2> DEFINE n0 == Len(f[a])
             t == SubSeq(f[b], 1, n0)
  <2>1. n0 \in Nat /\ Len(f[b]) \in Nat /\ n0 <= Len(f[b])
    BY <1>4, <1>5
  <2>2. \A i \in 1..n0 : f[b][i] \in S
    BY <1>4, <2>1
  <2>3. t \in Seq(S) /\ Len(t) = n0 /\ \A i \in 1..n0 : t[i] = f[b][i]
    BY <2>1, <2>2, SubSeqProperties
  <2>4. t = f[a]
    BY <1>4, <1>5, <2>3, SeqEqual
  <2> QED
    BY <1>4, <2>4, SubSeqFull
<1> QED
  BY <1>2, <1>5, <1>6 DEF IsPrefix

LEMMA TotalTyped == ASSUME NEW s \in Seq(Int) PROVE Total(s) \in Int
<1>1. PICK f : Sums(s, f, Len(s)) /\ Total(s) = f[Len(s)]
  BY TotalSums
<1> DEFINE n == Len(s)
           G == {i \in 0..n : f[i] \in Int}
<1>2. 0 \in G
  BY <1>1, SumsStep
<1>3. ASSUME NEW i \in 1..n, i - 1 \in G PROVE i \in G
  <2>1. f[i] = f[i - 1] + s[i]
    BY <1>1, SumsStep
  <2> QED
    BY <1>3, <2>1
<1>4. n \in Nat
  OBVIOUS
<1> HIDE DEF G, n
<1>5. 0..n \subseteq G
  BY <1>2, <1>3, <1>4, UpTo
<1> QED
  BY <1>1, <1>4, <1>5 DEF G, n

--------------------------------------------------------------------------------
(* The loop over the rows, and amounts to the nearest unit                    *)

LEMMA TotalAppend ==
  /\ Total(<<>>) = 0
  /\ \A s \in Seq(Int), x \in Int : Total(Append(s, x)) = Total(s) + x
<1>1. Total(<<>>) = 0
  <2>1. <<>> \in Seq(Int) /\ Len(<<>>) = 0
    BY EmptySeq
  <2>2. PICK f : Sums(<<>>, f, 0) /\ Total(<<>>) = f[0]
    BY <2>1, TotalSums
  <2> QED
    BY <2>2, SumsStep
<1>2. ASSUME NEW s \in Seq(Int), NEW x \in Int PROVE Total(Append(s, x)) = Total(s) + x
  <2> DEFINE n == Len(s)
             t == Append(s, x)
  <2>1. /\ n \in Nat /\ t \in Seq(Int) /\ Len(t) = n + 1
        /\ t[n + 1] = x /\ \A i \in 1..n : t[i] = s[i]
    BY AppendProperties
  <2>2. PICK f : Sums(s, f, n) /\ Total(s) = f[n]
    BY TotalSums
  <2> HIDE DEF t
  <2>3. PICK g : Sums(t, g, n + 1) /\ Total(t) = g[n + 1]
    BY <2>1, TotalSums
  <2> HIDE DEF n
  <2> DEFINE G == {i \in 0..n : g[i] = f[i]}
  <2>4. n + 1 \in Nat
    BY <2>1
  <2>5. f[0] = 0 /\ \A i \in 1..n : f[i] = f[i - 1] + s[i]
    BY <2>1, <2>2, SumsStep
  <2>6. g[0] = 0 /\ \A i \in 1..(n + 1) : g[i] = g[i - 1] + t[i]
    BY <2>3, <2>4, SumsStep
  <2>7. 0 \in G
    BY <2>1, <2>5, <2>6
  <2>8. ASSUME NEW i \in 1..n, i - 1 \in G PROVE i \in G
    <3>1. i \in 1..(n + 1) /\ i \in 0..n
      BY <2>1
    <3> QED
      BY <2>1, <2>5, <2>6, <2>8, <3>1
  <2> HIDE DEF G
  <2>9. n \in G
    <3>1. n \in Nat
      BY <2>1
    <3>2. 0..n \subseteq G
      BY <2>7, <2>8, <3>1, UpTo
    <3> QED
      BY <3>1, <3>2
  <2>10. g[n] = f[n] /\ g[n + 1] = g[n] + x
    <3>1. n + 1 \in 1..(n + 1) /\ (n + 1) - 1 = n
      BY <2>1
    <3>2. g[n + 1] = g[(n + 1) - 1] + t[n + 1]
      BY <2>6, <3>1
    <3> QED
      BY <2>1, <2>9, <3>1, <3>2 DEF G
  <2> QED
    BY <2>2, <2>3, <2>10 DEF t
<1> QED
  BY <1>1, <1>2

\* What the recursive function of Loop satisfies.
OneRow(r, x) ==
  IF columns = "others" THEN [r EXCEPT !.items = Append(@, x)]
  ELSE IF x <= 0 THEN r
  ELSE [items |-> Append(r.items, x), total |-> r.total + x]
Loops(s, f, n) ==
  f = [i \in 0..n |-> IF i = 0 THEN [items |-> <<>>, total |-> 0] ELSE OneRow(f[i - 1], s[i])]

LEMMA LoopsStep ==
  ASSUME NEW s, NEW n \in Nat, NEW f, Loops(s, f, n)
  PROVE  f[0] = [items |-> <<>>, total |-> 0] /\ \A i \in 1..n : f[i] = OneRow(f[i - 1], s[i])
<1>1. ASSUME NEW i \in 0..n
      PROVE  f[i] = IF i = 0 THEN [items |-> <<>>, total |-> 0] ELSE OneRow(f[i - 1], s[i])
  BY DEF Loops
<1>2. 0 \in 0..n /\ \A i \in 1..n : i \in 0..n /\ i # 0
  OBVIOUS
<1> QED
  BY <1>1, <1>2

LEMMA LoopsExists == ASSUME NEW s, NEW n \in Nat PROVE \E f : Loops(s, f, n)
<1> DEFINE none == [items |-> <<>>, total |-> 0]
           G == {m \in 0..n : \E f : Loops(s, f, m)}
<1> HIDE DEF none
<1>1. 0 \in G
  <2> DEFINE f == [i \in 0..0 |-> none]
  <2>1. Loops(s, f, 0)
    BY DEF Loops, none
  <2> HIDE DEF f
  <2> QED
    BY <2>1
<1>2. ASSUME NEW m \in 1..n, m - 1 \in G PROVE m \in G
  <2>1. PICK f : Loops(s, f, m - 1)
    BY <1>2
  <2> DEFINE g == [i \in 0..m |-> IF i < m THEN f[i] ELSE OneRow(f[m - 1], s[m])]
  <2>2. ASSUME NEW i \in 0..m PROVE g[i] = IF i = 0 THEN none ELSE OneRow(g[i - 1], s[i])
    <3>1. CASE i = m
      BY <3>1
    <3>2. CASE i # m
      <4>1. i \in 0..(m - 1) /\ (i # 0 => i - 1 \in 0..(m - 1))
        BY <3>2
      <4>2. f[i] = IF i = 0 THEN none ELSE OneRow(f[i - 1], s[i])
        BY <2>1, <4>1 DEF Loops, none
      <4>3. g[i] = f[i] /\ (i # 0 => g[i - 1] = f[i - 1])
        BY <3>2, <4>1
      <4> HIDE DEF g
      <4> QED
        BY <4>2, <4>3
    <3> QED
      BY <3>1, <3>2
  <2>3. g = [i \in 0..m |-> g[i]]
    OBVIOUS
  <2> HIDE DEF g
  <2>4. Loops(s, g, m)
    BY <2>2, <2>3 DEF Loops, none
  <2> QED
    BY <2>4
<1> HIDE DEF G
<1>3. n \in G
  BY <1>1, <1>2, UpTo
<1> QED
  BY <1>3 DEF G

LEMMA LoopLoops ==
  ASSUME NEW S, NEW s \in Seq(S)
  PROVE  \E f : Loops(s, f, Len(s)) /\ Loop(s) = f[Len(s)]
<1> DEFINE f == CHOOSE g : Loops(s, g, Len(s))
<1>1. Loops(s, f, Len(s))
  BY LoopsExists
<1>2. Loop(s) = f[Len(s)]
  BY DEF Loop, Loops, OneRow
<1> QED
  BY <1>1, <1>2

\* With an amount column the loop lists the positive amounts and adds up the list;
\* without one it lists all rows.
LEMMA LoopTyped ==
  ASSUME NEW s \in Seq(Int)
  PROVE  /\ Loop(s).items \in Seq(Int) /\ Loop(s).total \in Int
         /\ columns # "others" => Loop(s).items = Positive(s) /\ Loop(s).total = Total(Positive(s))
<1> DEFINE n == Len(s)
<1>1. PICK f : Loops(s, f, n) /\ Loop(s) = f[n]
  BY LoopLoops
<1>2. PICK g : Keeps(s, g, n) /\ Positive(s) = g[n]
  BY PositiveKeeps
<1>3. n \in Nat /\ \A i \in 1..n : s[i] \in Int
  OBVIOUS
<1> HIDE DEF n
<1>4. f[0] = [items |-> <<>>, total |-> 0] /\ \A i \in 1..n : f[i] = OneRow(f[i - 1], s[i])
  BY <1>1, <1>3, LoopsStep
<1>5. CASE columns = "others"
  <2> DEFINE G == {i \in 0..n : f[i] \in [items : Seq(Int), total : Int]}
  <2>1. 0 \in G
    <3>1. f[0] = [items |-> <<>>, total |-> 0] /\ <<>> \in Seq(Int)
      BY <1>4, EmptySeq
    <3>2. f[0] \in [items : Seq(Int), total : Int]
      BY <3>1
    <3> QED
      BY <1>3, <3>2
  <2>2. ASSUME NEW i \in 1..n, i - 1 \in G PROVE i \in G
    <3>1. f[i] = [f[i - 1] EXCEPT !.items = Append(@, s[i])]
      BY <1>4, <1>5 DEF OneRow
    <3>2. f[i - 1].items \in Seq(Int) /\ s[i] \in Int
      BY <1>3, <2>2
    <3>3. Append(f[i - 1].items, s[i]) \in Seq(Int)
      BY <3>2, AppendProperties
    <3>4. i \in 0..n
      BY <1>3
    <3> QED
      BY <2>2, <3>1, <3>3, <3>4
  <2> HIDE DEF G
  <2>3. n \in 0..n /\ 0..n \subseteq G
    <3>1. n \in Nat
      BY <1>3
    <3>2. 0..n \subseteq G
      BY <2>1, <2>2, <3>1, UpTo
    <3> QED
      BY <3>1, <3>2
  <2>4. f[n] \in [items : Seq(Int), total : Int]
    BY <2>3 DEF G
  <2> QED
    BY <1>1, <1>5, <2>4
<1>6. CASE columns # "others"
  <2> DEFINE G == {i \in 0..n : f[i].items = g[i] /\ f[i].total = Total(g[i])}
  <2>1. g[0] = <<>> /\ \A i \in 1..n : g[i] = IF s[i] > 0 THEN Append(g[i - 1], s[i]) ELSE g[i - 1]
    BY <1>2, <1>3, KeepsStep
  <2>2. \A i \in 0..n : g[i] \in Seq(Int)
    BY <1>2, KeptTyped DEF n
  <2>3. 0 \in G
    <3>1. f[0].items = <<>> /\ f[0].total = 0
      BY <1>4
    <3> QED
      BY <1>3, <2>1, <3>1, TotalAppend
  <2>4. ASSUME NEW i \in 1..n, i - 1 \in G PROVE i \in G
    <3>1. i \in 0..n /\ i - 1 \in 0..n /\ s[i] \in Int /\ g[i - 1] \in Seq(Int)
      BY <1>3, <2>2
    <3>2. f[i - 1].items = g[i - 1] /\ f[i - 1].total = Total(g[i - 1])
      BY <2>4
    <3>3. f[i] = IF s[i] <= 0 THEN f[i - 1]
                 ELSE [items |-> Append(f[i - 1].items, s[i]), total |-> f[i - 1].total + s[i]]
      BY <1>4, <1>6 DEF OneRow
    <3>4. CASE s[i] > 0
      <4>1. f[i] = [items |-> Append(g[i - 1], s[i]), total |-> Total(g[i - 1]) + s[i]]
        BY <3>1, <3>2, <3>3, <3>4
      <4>2. g[i] = Append(g[i - 1], s[i]) /\ Total(g[i]) = Total(g[i - 1]) + s[i]
        BY <2>1, <3>1, <3>4, TotalAppend
      <4>3. f[i].items = g[i] /\ f[i].total = Total(g[i])
        BY <4>1, <4>2
      <4> QED
        BY <3>1, <4>3
    <3>5. CASE s[i] <= 0
      <4>1. f[i] = f[i - 1] /\ g[i] = g[i - 1]
        BY <2>1, <3>1, <3>3, <3>5
      <4> QED
        BY <3>1, <3>2, <4>1
    <3> QED
      BY <3>1, <3>4, <3>5
  <2> HIDE DEF G
  <2>5. n \in 0..n /\ 0..n \subseteq G
    <3>1. n \in Nat
      BY <1>3
    <3>2. 0..n \subseteq G
      BY <2>3, <2>4, <3>1, UpTo
    <3> QED
      BY <3>1, <3>2
  <2>6. f[n].items = g[n] /\ f[n].total = Total(g[n]) /\ g[n] \in Seq(Int)
    BY <2>2, <2>5 DEF G
  <2>7. Total(g[n]) \in Int
    BY <2>6, TotalTyped
  <2> QED
    BY <1>1, <1>2, <2>6, <2>7
<1> QED
  BY <1>5, <1>6

LEMMA FormatIsNear ==
  ASSUME NEW x \in Int, NEW w \in fmt_wan(x)
  PROVE  w \in Int /\ Near(Unit * w, x, Unit)
BY GatewayQueryAssumption DEF GatewayQueryAssumption, fmt_wan

\* Every amount of a list is formatted.
LEMMA FormattedTyped ==
  ASSUME NEW s \in Seq(Int), NEW v \in Formatted(s)
  PROVE  /\ v \in Seq(Int) /\ Len(v) = Len(s)
         /\ columns # "others" => \A i \in 1..Len(s) : Near(Unit * v[i], s[i], Unit)
<1>1. CASE columns = "others"
  BY <1>1 DEF Formatted
<1>2. CASE columns # "others"
  <2> DEFINE n == Len(s)
             all == UNION {fmt_wan(s[i]) : i \in 1..n}
  <2>1. n \in Nat /\ \A i \in 1..n : s[i] \in Int
    OBVIOUS
  <2>2. v \in [1..n -> all] /\ \A i \in 1..n : v[i] \in fmt_wan(s[i])
    BY <1>2 DEF Formatted
  <2> HIDE DEF n, all
  <2>3. \A i \in 1..n : v[i] \in Int /\ Near(Unit * v[i], s[i], Unit)
    BY <2>1, <2>2, FormatIsNear
  <2>4. v \in [1..n -> Int]
    BY <2>2, <2>3
  <2>5. v \in Seq(Int) /\ Len(v) = n
    BY <2>1, <2>4
  <2> QED
    BY <2>3, <2>5 DEF n
<1> QED
  BY <1>1, <1>2

LEMMA NearAdds ==
  ASSUME NEW a \in Int, NEW b \in Int, NEW c \in Int, NEW d \in Int, NEW e \in Int, NEW g \in Int,
         Near(a, b, e), Near(c, d, g)
  PROVE  Near(a + c, b + d, e + g)
BY DEF Near

\* Amounts near others have a sum near theirs, by as much as all of them together.
LEMMA RoundedSum ==
  ASSUME NEW s \in Seq(Int), NEW v \in Seq(Int), Len(v) = Len(s),
         \A i \in 1..Len(s) : Near(Unit * v[i], s[i], Unit)
  PROVE  Near(Unit * Total(v), Total(s), Len(s) * Unit)
<1> DEFINE n == Len(s)
<1>1. n \in Nat /\ Unit \in Nat /\ \A i \in 1..n : s[i] \in Int /\ v[i] \in Int
  BY GatewayQueryAssumption DEF GatewayQueryAssumption
<1>2. PICK f : Sums(s, f, n) /\ Total(s) = f[n]
  BY TotalSums
<1>3. PICK g : Sums(v, g, n) /\ Total(v) = g[n]
  BY TotalSums
<1>4. \A i \in 1..n : Near(Unit * v[i], s[i], Unit)
  OBVIOUS
<1> HIDE DEF n
<1>5. f[0] = 0 /\ \A i \in 1..n : f[i] = f[i - 1] + s[i]
  BY <1>1, <1>2, SumsStep
<1>6. g[0] = 0 /\ \A i \in 1..n : g[i] = g[i - 1] + v[i]
  BY <1>1, <1>3, SumsStep
<1> DEFINE G == {i \in 0..n : f[i] \in Int /\ g[i] \in Int /\ Near(Unit * g[i], f[i], i * Unit)}
<1>7. 0 \in G
  <2>1. Unit * 0 = 0 /\ 0 * Unit = 0
    BY <1>1
  <2>2. Near(Unit * g[0], f[0], 0 * Unit)
    BY <1>5, <1>6, <2>1 DEF Near
  <2> QED
    BY <1>1, <1>5, <1>6, <2>2
<1>8. ASSUME NEW i \in 1..n, i - 1 \in G PROVE i \in G
  <2> DEFINE a == f[i - 1]
             b == g[i - 1]
  <2>1. a \in Int /\ b \in Int /\ Near(Unit * b, a, (i - 1) * Unit) /\ i \in 0..n /\ i \in Int
    BY <1>1, <1>8
  <2>2. f[i] = a + s[i] /\ g[i] = b + v[i] /\ s[i] \in Int /\ v[i] \in Int
    BY <1>1, <1>5, <1>6
  <2> HIDE DEF a, b
  <2>3. Unit * (b + v[i]) = Unit * b + Unit * v[i] /\ i * Unit = (i - 1) * Unit + Unit
    BY <1>1, <2>1, <2>2
  <2>4. Unit * b \in Int /\ Unit * v[i] \in Int /\ (i - 1) * Unit \in Int
    BY <1>1, <2>1, <2>2
  <2>5. Near(Unit * v[i], s[i], Unit)
    BY <1>4
  <2>6. Near(Unit * b + Unit * v[i], a + s[i], (i - 1) * Unit + Unit)
    <3> DEFINE ub == Unit * b
               uv == Unit * v[i]
               x == s[i]
               far == (i - 1) * Unit
    <3>1. /\ a \in Int /\ x \in Int /\ ub \in Int /\ uv \in Int /\ far \in Int /\ Unit \in Int
          /\ Near(ub, a, far) /\ Near(uv, x, Unit)
      BY <1>1, <2>1, <2>2, <2>4, <2>5
    <3> HIDE DEF ub, uv, x, far
    <3>2. Near(ub + uv, a + x, far + Unit)
      BY <3>1, NearAdds
    <3> QED
      BY <3>2 DEF ub, uv, x, far
  <2>7. Near(Unit * g[i], f[i], i * Unit)
    BY <2>2, <2>3, <2>6
  <2> QED
    BY <2>1, <2>2, <2>7
<1> HIDE DEF G
<1>9. n \in 0..n /\ 0..n \subseteq G
  <2>1. n \in Nat
    BY <1>1
  <2> QED
    BY <1>7, <1>8, <2>1, UpTo
<1>10. Near(Unit * g[n], f[n], n * Unit)
  BY <1>9 DEF G
<1> QED
  BY <1>2, <1>3, <1>10 DEF n

\* What is near in units is near in their number.
LEMMA InUnits ==
  ASSUME NEW x \in Int, NEW y \in Int, NEW z \in Int, NEW k \in Nat,
         Near(Unit * x, z, Unit), Near(Unit * y, z, k * Unit)
  PROVE  Near(x, y, k + 1)
<1>1. Unit \in Nat /\ Unit > 0
  BY GatewayQueryAssumption DEF GatewayQueryAssumption
<1>2. /\ 2 * (Unit * x - Unit * y) <= k * Unit + Unit
      /\ 2 * (Unit * y - Unit * x) <= k * Unit + Unit
  <2>1. Unit * x \in Int /\ Unit * y \in Int /\ k * Unit \in Int
    BY <1>1
  <2> QED
    BY <1>1, <2>1 DEF Near
<1>3. ASSUME NEW d \in Int, d > 0 PROVE Unit * d > 0
  BY <1>1, <1>3
<1>4. /\ Unit * (2 * (x - y) - (k + 1)) = 2 * (Unit * x - Unit * y) - (k * Unit + Unit)
      /\ Unit * (2 * (y - x) - (k + 1)) = 2 * (Unit * y - Unit * x) - (k * Unit + Unit)
  BY <1>1
<1> DEFINE d == 2 * (x - y) - (k + 1)
           e == 2 * (y - x) - (k + 1)
<1>5. d \in Int /\ e \in Int
  OBVIOUS
<1>6. ~(Unit * d > 0) /\ ~(Unit * e > 0)
  <2>1. Unit * x \in Int /\ Unit * y \in Int /\ k * Unit \in Int
    BY <1>1
  <2> QED
    BY <1>1, <1>2, <1>4, <2>1
<1>7. ~(d > 0) /\ ~(e > 0)
  <2> HIDE DEF d, e
  <2> QED
    BY <1>3, <1>5, <1>6
<1> QED
  BY <1>7 DEF Near

--------------------------------------------------------------------------------
(* The invariant                                                              *)

\* The statement that goes to the guard, and the replies with their mark and file.
Chosen == IF Extracted(draft) # NoPlan THEN Extracted(draft) ELSE Canonical(question)
Data == {[r EXCEPT !.mark = Mark(rows), !.file = File(rows)] : r \in Listing(rows)}

Typed ==
  /\ loaded \in [Years -> 0..MaxLoads]
  /\ pc \in {"plan", "guard", "run", "asof", "reply", "done"}
  /\ question \in Questions
  /\ draft \in Drafts
  /\ stmt \in Statements \cup {NoPlan}
  /\ pc \notin {"plan", "done"} => stmt \in Statements
  /\ rows \in Seq(Amounts) /\ Len(rows) <= Room
  /\ columns \in Columns
  /\ rowsDay \in 0..MaxLoads
  /\ asOf \in 0..MaxLoads \cup {DefaultDay}

Planned ==
  pc = "guard" => stmt = Chosen /\ (Extracted(draft) = NoPlan => HasFallback(question))

\* What is executed is what was written, through the guard.
Guarded ==
  pc \in {"run", "asof", "reply"} =>
    /\ stmt = Sanitize(Written) /\ Accepted(Written)
    /\ question.byMonth => Written.month
    /\ draft.form = "none" => HasFallback(question)

Paged == pc \in {"asof", "reply"} => Len(rows) <= AtMost(stmt.limit)

\* Rows come from a year of the statement that holds their last day, still.
Dated ==
  /\ rowsDay = 0 \/ \E y \in stmt.scope \cap Years : rowsDay <= loaded[y]
  /\ pc \in {"plan", "guard", "run"} => rowsDay = 0

Replied ==
  /\ pc # "done" => reply = NoReply
  /\ pc = "done" => reply \in {Text("unauthorized"), Text("guard"), Text("failed")} \cup Data

GInv == Typed /\ Planned /\ Guarded /\ Paged /\ Dated /\ AsOfCoversRows /\ Replied

--------------------------------------------------------------------------------
(* Statements                                                                 *)

LEMMA RecordOfStatement ==
  ASSUME NEW s \in Statements
  PROVE  /\ s.breaks \in SUBSET Rules /\ s.commented \in SUBSET Rules
         /\ s.limit \in [form : Forms, n : Nat, m : Nat]
         /\ s.junk \in BOOLEAN /\ s.month \in BOOLEAN
         /\ s.year \in Years \cup {0} /\ s.scope \in SUBSET Years
         /\ s = [breaks |-> s.breaks, commented |-> s.commented, limit |-> s.limit, junk |-> s.junk,
                 month |-> s.month, year |-> s.year, scope |-> s.scope]
BY DEF Statements

LEMMA QuestionTyped ==
  ASSUME NEW q \in Questions
  PROVE  /\ q.year \in Years /\ q.byMonth \in BOOLEAN /\ q.span \in BOOLEAN
         /\ q.want \in {"table", "excel", "chart"}
BY GatewayQueryAssumption DEF GatewayQueryAssumption

LEMMA CanonicalTyped ==
  ASSUME NEW q \in Questions
  PROVE  /\ Canonical(q) \in Statements /\ Accepted(Canonical(q))
         /\ q.byMonth => Canonical(q).month
<1>1. Limit("rows", AggRows, 0) \in [form : Forms, n : Nat, m : Nat]
  BY GatewayQueryAssumption DEF GatewayQueryAssumption, Limit, Forms
<1>2. (q.byMonth \/ q.span) \in BOOLEAN
  OBVIOUS
<1>3. q.year \in Years \cup {0} /\ {q.year} \in SUBSET Years
  BY QuestionTyped
<1>4. {} \in SUBSET Rules
  OBVIOUS
<1> DEFINE month == q.byMonth \/ q.span
           limit == Limit("rows", AggRows, 0)
<1>5. Canonical(q) = [breaks |-> {}, commented |-> {}, limit |-> limit, junk |-> FALSE,
                      month |-> month, year |-> q.year, scope |-> {q.year}]
  BY DEF Canonical
<1>6. q.byMonth => month
  OBVIOUS
<1>7. month \in BOOLEAN /\ limit \in [form : Forms, n : Nat, m : Nat]
  BY <1>1, <1>2
<1> HIDE DEF month, limit
<1>8. Canonical(q) \in Statements
  BY <1>3, <1>4, <1>5, <1>7 DEF Statements
<1>9. Canonical(q).breaks = {} /\ Canonical(q).commented = {} /\ Canonical(q).month = month
  BY <1>5
<1> QED
  BY <1>6, <1>8, <1>9 DEF Accepted

LEMMA ExtractedTyped ==
  ASSUME NEW d \in Drafts
  PROVE  /\ Extracted(d) \in Statements \cup {NoPlan}
         /\ Extracted(d) = NoPlan <=> d.form = "none"
         /\ d.form # "none" => Extracted(d).month = d.stmt.month
<1>1. d.stmt \in Statements /\ NoPlan \notin Statements
  BY GatewayQueryAssumption DEF GatewayQueryAssumption
<1>2. [d.stmt EXCEPT !.junk = TRUE] \in Statements /\ [d.stmt EXCEPT !.junk = TRUE].month = d.stmt.month
  BY <1>1 DEF Statements
<1> QED
  BY <1>1, <1>2 DEF Extracted

LEMMA RecordOfSanitized ==
  ASSUME NEW s \in Statements
  PROVE  Sanitize(s) = [breaks |-> s.breaks, commented |-> {}, limit |-> Bounded(s.limit), junk |-> s.junk,
                        month |-> s.month, year |-> s.year, scope |-> s.scope]
<1> DEFINE u == [s EXCEPT !.commented = {}]
<1>1. u = [breaks |-> s.breaks, commented |-> {}, limit |-> s.limit, junk |-> s.junk,
           month |-> s.month, year |-> s.year, scope |-> s.scope]
  BY DEF Statements
<1>2. Sanitize(s) = [u EXCEPT !.limit = Bounded(s.limit)]
  <2>1. u.limit = s.limit
    BY <1>1
  <2> QED
    BY <2>1 DEF Sanitize
<1> HIDE DEF u
<1> QED
  BY <1>1, <1>2

LEMMA SanitizedTyped ==
  ASSUME NEW s \in Statements
  PROVE  /\ Sanitize(s) \in Statements /\ Bounded(s.limit) \in [form : Forms, n : Nat, m : Nat]
         /\ Sanitize(s).limit = Bounded(s.limit) /\ Sanitize(s).commented = {}
         /\ Sanitize(s).breaks = s.breaks /\ Sanitize(s).month = s.month
<1>1. Bounded(s.limit) \in [form : Forms, n : Nat, m : Nat]
  BY MaxRowsAssumption, RecordOfStatement DEF MaxRowsAssumption, Bounded, Limit, Forms
<1>2. Sanitize(s) = [breaks |-> s.breaks, commented |-> {}, limit |-> Bounded(s.limit), junk |-> s.junk,
                     month |-> s.month, year |-> s.year, scope |-> s.scope]
  BY RecordOfSanitized
<1> QED
  BY <1>1, <1>2, RecordOfStatement DEF Statements

\* A clause that has been bounded is left alone.
LEMMA BoundedOnce == ASSUME NEW l PROVE Bounded(Bounded(l)) = Bounded(l)
BY MaxRowsAssumption DEF MaxRowsAssumption, Bounded, Limit

\* What passed the guard passes it again unchanged, and differs from what was written
\* only in its LIMIT and its comments.
LEMMA SanitizedAgain ==
  ASSUME NEW s \in Statements, Accepted(s)
  PROVE  /\ Accepted(Sanitize(s)) /\ Sanitize(Sanitize(s)) = Sanitize(s)
         /\ [Sanitize(s) EXCEPT !.limit = s.limit, !.commented = s.commented] = s
<1> DEFINE t == Sanitize(s)
<1>1. t = [breaks |-> s.breaks, commented |-> {}, limit |-> Bounded(s.limit), junk |-> s.junk,
           month |-> s.month, year |-> s.year, scope |-> s.scope]
  BY RecordOfSanitized
<1>2. t \in Statements
  BY SanitizedTyped
<1>3. Accepted(t)
  BY <1>1 DEF Accepted
<1>4. Sanitize(t) = [breaks |-> t.breaks, commented |-> {}, limit |-> Bounded(t.limit), junk |-> t.junk,
                     month |-> t.month, year |-> t.year, scope |-> t.scope]
  BY <1>2, RecordOfSanitized
<1> HIDE DEF t
<1>5. Sanitize(t) = t
  BY <1>1, <1>4, BoundedOnce
<1>6. [t EXCEPT !.limit = s.limit, !.commented = s.commented] = s
  <2> DEFINE u == [t EXCEPT !.limit = s.limit]
  <2>1. u = [breaks |-> s.breaks, commented |-> {}, limit |-> s.limit, junk |-> s.junk,
             month |-> s.month, year |-> s.year, scope |-> s.scope]
    BY <1>1
  <2> HIDE DEF u
  <2>2. [u EXCEPT !.commented = s.commented] =
          [breaks |-> s.breaks, commented |-> s.commented, limit |-> s.limit, junk |-> s.junk,
           month |-> s.month, year |-> s.year, scope |-> s.scope]
    BY <2>1
  <2> QED
    BY <2>2, RecordOfStatement DEF u
<1> QED
  BY <1>3, <1>5, <1>6 DEF t

--------------------------------------------------------------------------------
(* Days and pages                                                             *)

LEMMA DayIsLast ==
  ASSUME loaded \in [Years -> 0..MaxLoads], NEW ys \in SUBSET Years
  PROVE  /\ Day(ys) \in 0..MaxLoads
         /\ \A y \in ys : loaded[y] <= Day(ys)
         /\ Day(ys) = 0 \/ \E y \in ys : Day(ys) = loaded[y]
<1> DEFINE days == {loaded[y] : y \in ys}
<1>1. MaxLoads \in Nat /\ days \in SUBSET (0..MaxLoads)
  BY GatewayQueryAssumption DEF GatewayQueryAssumption
<1>2. CASE days = {}
  <2>1. Day(ys) = 0 /\ ys = {}
    BY <1>2 DEF Day
  <2> QED
    BY <1>1, <2>1
<1>3. CASE days # {}
  <2>1. Day(ys) = CHOOSE d \in days : \A e \in days : e <= d
    BY <1>3 DEF Day
  <2> HIDE DEF days
  <2>2. \E d \in days : \A e \in days : e <= d
    BY <1>1, <1>3, LargestOf
  <2>3. Day(ys) \in days /\ \A e \in days : e <= Day(ys)
    BY <2>1, <2>2
  <2> QED
    BY <1>1, <2>3 DEF days
<1> QED
  BY <1>2, <1>3

LEMMA AtMostTyped ==
  ASSUME NEW l \in [form : Forms, n : Nat, m : Nat]
  PROVE  AtMost(l) \in Nat /\ AtMost(l) <= Room
<1>1. Room \in Nat
  BY GatewayQueryAssumption DEF GatewayQueryAssumption
<1>2. Skipped(l) \in Nat /\ Returned(l, Room) \in Nat
  BY <1>1 DEF Skipped, Returned
<1> QED
  BY <1>1, <1>2 DEF AtMost

LEMMA RowsTyped ==
  ASSUME NEW n \in Nat, NEW s \in BoundedSeq(Amounts, n)
  PROVE  s \in Seq(Amounts) /\ Len(s) <= n
<1>1. PICK k \in 0..n : s \in [1..k -> Amounts]
  BY DEF BoundedSeq, SeqOf
<1> QED
  BY <1>1

\* What the guard does to a LIMIT, in rows that can come back.
LEMMA PagesKept ==
  ASSUME NEW l \in [form : Forms, n : Nat, m : Nat], NEW k \in Nat, k <= AtMost(Bounded(l))
  PROVE  LET most == Returned(l, Room)
         IN  /\ l.form # "pair" => k <= MaxRows /\ k <= most
             /\ l.form = "pair" => k <= IF l.n <= MaxRows THEN l.m ELSE MaxRows
             /\ l.form \in {"page", "pair"} /\ l.n <= MaxRows => Bounded(l) = l
             /\ l.form \in {"rows", "inner", "none"} =>
                  /\ Skipped(Bounded(l)) = 0
                  /\ AtMost(Bounded(l)) = IF most < MaxRows THEN most ELSE MaxRows
<1>1. Room \in Nat /\ MaxRows \in Nat /\ MaxRows <= Room /\ l.n \in Nat /\ l.m \in Nat
  BY GatewayQueryAssumption, MaxRowsAssumption DEF GatewayQueryAssumption, MaxRowsAssumption
<1> DEFINE cut == Limit("rows", MaxRows, 0)
<1>2. AtMost(cut) = MaxRows /\ Skipped(cut) = 0
  BY <1>1 DEF AtMost, Limit, Skipped, Returned
<1>3. CASE l.form \in {"inner", "none"}
  <2>1. Bounded(l) = cut /\ Returned(l, Room) = Room
    BY <1>3 DEF Bounded, Returned
  <2> QED
    BY <1>1, <1>2, <1>3, <2>1
<1>4. CASE l.form \notin {"inner", "none"} /\ l.n > MaxRows
  <2>1. Bounded(l) = cut /\ (l.form # "pair" => Returned(l, Room) = l.n)
    BY <1>4 DEF Bounded, Returned, Forms
  <2> QED
    BY <1>1, <1>2, <1>4, <2>1
<1>5. CASE l.form \notin {"inner", "none"} /\ l.n <= MaxRows
  <2>1. Bounded(l) = l /\ (l.form # "pair" => Returned(l, Room) = l.n)
    BY <1>1, <1>5 DEF Bounded, Returned, Forms
  <2>2. l.form = "rows" => Skipped(l) = 0 /\ AtMost(l) = l.n
    BY <1>1, <1>5, <2>1 DEF AtMost, Skipped
  <2>3. l.form # "pair" => AtMost(l) <= l.n
    BY <1>1, <2>1 DEF AtMost, Skipped
  <2>4. l.form = "pair" => AtMost(l) <= l.m
    BY <1>1, <2>1 DEF AtMost, Skipped, Returned
  <2>5. AtMost(l) \in Nat
    BY AtMostTyped
  <2> QED
    BY <1>1, <1>5, <2>1, <2>2, <2>3, <2>4, <2>5
<1> QED
  BY <1>1, <1>3, <1>4, <1>5

--------------------------------------------------------------------------------
(* The steps keep the invariant                                               *)

LEMMA WrittenTyped ==
  ASSUME question \in Questions, draft \in Drafts
  PROVE  Written \in Statements /\ Chosen \in Statements
BY ExtractedTyped, CanonicalTyped DEF Written, Chosen

LEMMA GatewayInit == Init => GInv
<1> SUFFICES ASSUME Init PROVE GInv
  OBVIOUS
<1> USE DEF Init
<1>1. Typed
  <2>1. \A i \in 0..1 : i \in 0..MaxLoads
    BY GatewayQueryAssumption DEF GatewayQueryAssumption
  <2>2. loaded \in [Years -> 0..MaxLoads]
    BY <2>1
  <2>3. rows \in Seq(Amounts) /\ Len(rows) <= Room /\ rowsDay \in 0..MaxLoads /\ asOf \in 0..MaxLoads
    BY EmptySeq, GatewayQueryAssumption DEF GatewayQueryAssumption
  <2> QED
    BY <2>2, <2>3 DEF Typed, Columns
<1>2. Planned /\ Guarded /\ Paged /\ Dated /\ AsOfCoversRows /\ Replied
  BY DEF Planned, Guarded, Paged, Dated, AsOfCoversRows, Replied, NoReply
<1> QED
  BY <1>1, <1>2 DEF GInv

\* An answer other than the data ends the request and leaves the rest as it was.
LEMMA Refused ==
  ASSUME GInv, NEW body \in {"unauthorized", "guard", "failed"}, Respond(Text(body)),
         UNCHANGED <<loaded, request, stmt, rows, columns, rowsDay, asOf>>
  PROVE  GInv'
<1>1. pc' = "done" /\ reply' = Text(body) /\ reply'.body = body
  BY DEF Respond, Text, NoReply
<1>2. Typed'
  BY <1>1 DEF GInv, Typed, request
<1>3. Planned' /\ Guarded' /\ Paged'
  BY <1>1 DEF Planned, Guarded, Paged
<1>4. Dated'
  BY <1>1 DEF GInv, Dated
<1>5. AsOfCoversRows'
  BY <1>1 DEF AsOfCoversRows
<1>6. Replied'
  BY <1>1 DEF Replied
<1> QED
  BY <1>2, <1>3, <1>4, <1>5, <1>6 DEF GInv

\* A reply is made of the question, the rows and their columns.
LEMMA SameData == ASSUME UNCHANGED <<question, rows, columns>> PROVE Data' = Data
BY DEF Data, Listing, Listed, Loop, Formatted, First, Mark, File, Positive

LEMMA LoadKeeps == ASSUME GInv, Load PROVE GInv'
<1>1. PICK y \in Years : loaded[y] < MaxLoads /\ loaded' = [loaded EXCEPT ![y] = @ + 1]
  BY DEF Load
<1>2. UNCHANGED <<pc, question, draft, stmt, rows, columns, rowsDay, asOf, reply>>
  BY DEF Load, request
<1>3. loaded \in [Years -> 0..MaxLoads] /\ MaxLoads \in Nat
  BY GatewayQueryAssumption DEF GatewayQueryAssumption, GInv, Typed
<1>4. loaded' \in [Years -> 0..MaxLoads] /\ \A z \in Years : loaded[z] <= loaded'[z]
  BY <1>1, <1>3
<1>5. Typed'
  BY <1>2, <1>4 DEF GInv, Typed
<1>6. Planned' /\ Guarded' /\ Paged'
  BY <1>2 DEF GInv, Planned, Guarded, Paged, Chosen, Written
<1>7. Dated'
  <2> USE DEF GInv
  <2>1. CASE rowsDay = 0
    BY <1>2, <2>1 DEF Dated
  <2>2. CASE rowsDay # 0
    <3>1. PICK z \in stmt.scope \cap Years : rowsDay <= loaded[z]
      BY <2>2 DEF GInv, Dated
    <3>2. rowsDay \in Nat /\ loaded[z] \in Nat /\ loaded'[z] \in Nat /\ loaded[z] <= loaded'[z]
      BY <1>3, <1>4 DEF GInv, Typed
    <3> QED
      BY <1>2, <2>2, <3>1, <3>2 DEF Dated
  <2> QED
    BY <2>1, <2>2
<1>8. AsOfCoversRows' /\ Replied'
  BY <1>2, SameData DEF GInv, AsOfCoversRows, Replied
<1> QED
  BY <1>5, <1>6, <1>7, <1>8 DEF GInv

LEMMA PlanKeeps == ASSUME GInv, Plan PROVE GInv'
<1>1. CASE Respond(Text("unauthorized")) /\ UNCHANGED stmt
  BY <1>1, Refused DEF Plan
<1>2. CASE Respond(Text("guard")) /\ UNCHANGED stmt
  BY <1>2, Refused DEF Plan
<1>3. CASE /\ Extracted(draft) # NoPlan \/ HasFallback(question)
           /\ stmt' = Chosen /\ pc' = "guard" /\ UNCHANGED reply
  <2>1. pc = "plan" /\ UNCHANGED <<loaded, question, draft, rows, columns, rowsDay, asOf>>
    BY DEF Plan, request
  <2>2. Chosen \in Statements
    BY WrittenTyped DEF GInv, Typed
  <2>3. Typed'
    BY <1>3, <2>1, <2>2 DEF GInv, Typed
  <2>4. Planned' /\ Guarded' /\ Paged' /\ Replied'
    BY <1>3, <2>1 DEF GInv, Planned, Guarded, Paged, Replied, Chosen
  <2>5. Dated' /\ AsOfCoversRows'
    BY <1>3, <2>1 DEF GInv, Dated, AsOfCoversRows, Replied, NoReply
  <2> QED
    BY <2>3, <2>4, <2>5 DEF GInv
<1> QED
  BY <1>1, <1>2, <1>3 DEF Plan, Chosen

LEMMA GuardKeeps == ASSUME GInv, Guard PROVE GInv'
<1>1. CASE Respond(Text("guard")) /\ UNCHANGED stmt
  BY <1>1, Refused DEF Guard
<1>2. CASE /\ Accepted(stmt) /\ pc' = "run" /\ UNCHANGED reply
           /\ stmt' = Sanitize(IF question.byMonth /\ ~stmt.month THEN Canonical(question) ELSE stmt)
  <2>1. pc = "guard" /\ UNCHANGED <<loaded, question, draft, rows, columns, rowsDay, asOf>>
    BY DEF Guard, request
  <2>2. stmt = Chosen /\ question \in Questions /\ draft \in Drafts
    BY <2>1 DEF GInv, Typed, Planned
  <2>3. (IF question.byMonth /\ ~stmt.month THEN Canonical(question) ELSE stmt) = Written
    BY <2>2, ExtractedTyped, CanonicalTyped DEF Written, Chosen
  <2>4. Accepted(Written)
    BY <1>2, <2>2, CanonicalTyped DEF Written, Chosen
  <2>5. question.byMonth => Written.month
    BY <2>2, ExtractedTyped, CanonicalTyped DEF Written
  <2>6. draft.form = "none" => HasFallback(question)
    BY <2>1, <2>2, ExtractedTyped DEF GInv, Planned
  <2>7. stmt' = Sanitize(Written) /\ stmt' \in Statements
    BY <1>2, <2>2, <2>3, WrittenTyped, SanitizedTyped
  <2>8. Typed'
    BY <1>2, <2>1, <2>7 DEF GInv, Typed
  <2>9. Written' = Written
    BY <2>1 DEF Written
  <2>10. Planned' /\ Guarded' /\ Paged'
    BY <1>2, <2>1, <2>4, <2>5, <2>6, <2>7, <2>9 DEF Planned, Guarded, Paged
  <2>11. Dated' /\ AsOfCoversRows' /\ Replied'
    BY <1>2, <2>1 DEF GInv, Dated, AsOfCoversRows, Replied, NoReply
  <2> QED
    BY <2>8, <2>10, <2>11 DEF GInv
<1> QED
  BY <1>1, <1>2 DEF Guard

LEMMA RunKeeps == ASSUME GInv, RunSql PROVE GInv'
<1>1. CASE Respond(Text("failed")) /\ UNCHANGED <<rows, columns, rowsDay>>
  BY <1>1, Refused DEF RunSql
<1>2. CASE /\ rows' \in BoundedSeq(Amounts, AtMost(stmt.limit)) /\ columns' \in Columns
           /\ rowsDay' = IF rows' = <<>> THEN 0 ELSE Day(stmt.scope)
           /\ pc' = "asof" /\ UNCHANGED reply
  <2>1. pc = "run" /\ UNCHANGED <<loaded, question, draft, stmt, asOf>>
    BY DEF RunSql, request
  <2>2. stmt \in Statements /\ stmt.limit \in [form : Forms, n : Nat, m : Nat] /\ stmt.scope \in SUBSET Years
    BY <2>1, RecordOfStatement DEF GInv, Typed
  <2>3. AtMost(stmt.limit) \in Nat /\ AtMost(stmt.limit) <= Room
    BY <2>2, AtMostTyped
  <2>4. rows' \in Seq(Amounts) /\ Len(rows') <= AtMost(stmt.limit) /\ Len(rows') <= Room
    <3>1. rows' \in Seq(Amounts) /\ Len(rows') <= AtMost(stmt.limit)
      BY <1>2, <2>3, RowsTyped
    <3>2. Len(rows') \in Nat /\ Room \in Nat
      BY <3>1, GatewayQueryAssumption DEF GatewayQueryAssumption
    <3> QED
      BY <2>3, <3>1, <3>2
  <2>5. /\ Day(stmt.scope) \in 0..MaxLoads
        /\ Day(stmt.scope) = 0 \/ \E y \in stmt.scope : Day(stmt.scope) = loaded[y]
    BY <2>2, DayIsLast DEF GInv, Typed
  <2>6. rowsDay' \in 0..MaxLoads
    BY <1>2, <2>5, GatewayQueryAssumption DEF GatewayQueryAssumption
  <2>7. Typed'
    BY <1>2, <2>1, <2>4, <2>6 DEF GInv, Typed
  <2>8. Planned' /\ Guarded' /\ Paged' /\ Replied'
    BY <1>2, <2>1, <2>4 DEF GInv, Planned, Guarded, Paged, Replied, Written
  <2>9. Dated'
    <3>1. CASE rowsDay' = 0
      BY <1>2, <3>1 DEF Dated
    <3>2. CASE rowsDay' # 0
      <4>1. PICK y \in stmt.scope : Day(stmt.scope) = loaded[y]
        BY <1>2, <2>5, <3>2
      <4>2. y \in stmt'.scope \cap Years /\ rowsDay' = loaded'[y] /\ loaded'[y] \in Nat
        BY <1>2, <2>1, <2>2, <2>5, <3>2, <4>1, GatewayQueryAssumption DEF GatewayQueryAssumption
      <4> QED
        BY <1>2, <4>2 DEF Dated
    <3> QED
      BY <3>1, <3>2
  <2>10. AsOfCoversRows'
    BY <1>2, <2>1 DEF GInv, AsOfCoversRows, Replied, NoReply
  <2> QED
    BY <2>7, <2>8, <2>9, <2>10 DEF GInv
<1> QED
  BY <1>1, <1>2 DEF RunSql

\* The rows were read before the date, and the table only grows.
LEMMA AsOfKeeps == ASSUME GInv, AsOf PROVE GInv'
<1>1. CASE Respond(Text("failed")) /\ UNCHANGED asOf
  BY <1>1, Refused DEF AsOf
<1> DEFINE ys == IF stmt.year = 0 THEN Years ELSE {stmt.year}
           day == Day(ys)
<1>2. CASE asOf' = (IF day = 0 THEN DefaultDay ELSE day) /\ pc' = "reply" /\ UNCHANGED reply
  <2>1. pc = "asof" /\ UNCHANGED <<loaded, question, draft, stmt, rows, columns, rowsDay>>
    BY DEF AsOf, request
  <2>2. stmt \in Statements /\ stmt.year \in Years \cup {0}
    BY <2>1, RecordOfStatement DEF GInv, Typed
  <2>3. ys \in SUBSET Years
    BY <2>2
  <2>4. MaxLoads \in Nat /\ DefaultDay \in Nat /\ rowsDay \in 0..MaxLoads
    BY GatewayQueryAssumption DEF GatewayQueryAssumption, GInv, Typed
  <2> HIDE DEF ys
  <2>5. day \in 0..MaxLoads /\ \A y \in ys : loaded[y] <= day /\ loaded[y] \in 0..MaxLoads
    BY <2>3, DayIsLast DEF GInv, Typed
  <2> HIDE DEF day
  <2>6. Typed'
    BY <1>2, <2>1, <2>5 DEF GInv, Typed
  <2>7. Planned' /\ Guarded' /\ Paged' /\ Replied' /\ Dated'
    BY <1>2, <2>1 DEF GInv, Planned, Guarded, Paged, Replied, Dated, Written
  <2>8. ASSUME stmt.year = 0 \/ stmt.scope = {stmt.year} PROVE asOf' >= rowsDay
    <3>1. stmt.scope \cap Years \subseteq ys
      BY <2>2, <2>8 DEF ys
    <3>2. rowsDay = 0 \/ \E y \in ys : rowsDay <= loaded[y]
      BY <3>1 DEF GInv, Dated
    <3>3. rowsDay <= day
      BY <2>4, <2>5, <3>2
    <3> QED
      BY <1>2, <2>4, <2>5, <3>3
  <2>9. AsOfCoversRows'
    BY <2>1, <2>8 DEF AsOfCoversRows
  <2> QED
    BY <2>6, <2>7, <2>9 DEF GInv
<1> QED
  BY <1>1, <1>2 DEF AsOf

LEMMA ReplyKeeps == ASSUME GInv, BuildReply PROVE GInv'
<1>1. CASE Respond(Text("failed"))
  BY <1>1, Refused DEF BuildReply
<1>2. CASE \E r \in Listing(rows) : Respond([r EXCEPT !.mark = Mark(rows), !.file = File(rows)])
  <2>1. pc = "reply" /\ UNCHANGED <<loaded, question, draft, stmt, rows, columns, rowsDay, asOf>>
    BY DEF BuildReply, request
  <2>2. pc' = "done" /\ reply' \in Data /\ Data' = Data
    BY <1>2, <2>1, SameData DEF Respond, Data
  <2>3. Typed' /\ Planned' /\ Guarded' /\ Paged' /\ Dated'
    BY <2>1, <2>2 DEF GInv, Typed, Planned, Guarded, Paged, Dated
  <2>4. AsOfCoversRows'
    BY <2>1, <2>2 DEF GInv, AsOfCoversRows
  <2>5. Replied'
    BY <2>2 DEF Replied
  <2> QED
    BY <2>3, <2>4, <2>5 DEF GInv
<1> QED
  BY <1>1, <1>2 DEF BuildReply

LEMMA GatewayStep == GInv /\ [Next]_vars => GInv'
<1> SUFFICES ASSUME GInv, [Next]_vars PROVE GInv'
  OBVIOUS
<1>1. CASE UNCHANGED vars
  BY <1>1, SameData DEF vars, request, GInv, Typed, Planned, Guarded, Paged, Dated, AsOfCoversRows,
     Replied, Chosen, Written
<1> QED
  BY <1>1, LoadKeeps, PlanKeeps, GuardKeeps, RunKeeps, AsOfKeeps, ReplyKeeps DEF Next, Step

\* Whatever the model drafts and whenever the table is loaded, in every reachable state
\* of a request its parts belong together.
THEOREM GatewaySafety == Spec => []GInv
<1> QED
  BY GatewayInit, GatewayStep, PTL DEF Spec

--------------------------------------------------------------------------------
(* What follows from it                                                       *)

\* Whatever a draft looks like, the statement that runs has passed sanitize_select()
\* and suits the question, the repaired and the fallback statement included.
THEOREM StatementSuits == Spec => []ExecutedSuits
<1>1. GInv => ExecutedSuits
  <2> SUFFICES ASSUME GInv, pc \in {"run", "asof", "reply"}
               PROVE  /\ Accepted(stmt) /\ Sanitize(stmt) = stmt
                      /\ question.byMonth => stmt.month
                      /\ [stmt EXCEPT !.limit = Written.limit, !.commented = Written.commented] = Written
                      /\ draft.form = "none" => HasFallback(question)
    BY DEF ExecutedSuits
  <2>1. Written \in Statements
    BY WrittenTyped DEF GInv, Typed
  <2>2. /\ stmt = Sanitize(Written) /\ Accepted(Written)
        /\ question.byMonth => Written.month
        /\ draft.form = "none" => HasFallback(question)
    BY DEF GInv, Guarded
  <2>3. stmt.month = Written.month
    BY <2>1, <2>2, SanitizedTyped
  <2> QED
    BY <2>1, <2>2, <2>3, SanitizedAgain
<1> QED
  BY <1>1, GatewaySafety, PTL

\* MAX_ROWS bounds what a statement returns, but for "LIMIT a, b" with a small a, which
\* returns up to its b rows; and the guard changes no page that fits.
THEOREM PagesAreKept == Spec => []PageKept
<1>1. GInv => PageKept
  <2> SUFFICES ASSUME GInv, pc \in {"asof", "reply"} PROVE PageKept
    BY DEF PageKept
  <2>1. Written \in Statements
    BY WrittenTyped DEF GInv, Typed
  <2>2. Written.limit \in [form : Forms, n : Nat, m : Nat] /\ stmt.limit = Bounded(Written.limit)
    BY <2>1, RecordOfStatement, SanitizedTyped DEF GInv, Guarded
  <2>3. Len(rows) \in Nat /\ Len(rows) <= AtMost(stmt.limit)
    BY DEF GInv, Typed, Paged
  <2> QED
    BY <2>2, <2>3, PagesKept DEF PageKept
<1> QED
  BY <1>1, GatewaySafety, PTL

\* data_as_of() runs after run_sql(), on a connection of its own: however often the
\* table is loaded in between, the date is not older than the rows.
THEOREM DateCoversRows == Spec => []AsOfCoversRows
<1> QED
  BY GatewaySafety, PTL DEF GInv

LEMMA AmountsAreNumbers == ASSUME NEW s \in Seq(Amounts) PROVE s \in Seq(Int)
BY SeqMonotonic, GatewayQueryAssumption DEF GatewayQueryAssumption

\* What build_reply() lists, before the mark and the file are added.
LEMMA ListingTyped ==
  ASSUME NEW s \in Seq(Int), NEW r \in Listing(s)
  PROVE  LET lone == columns = "amount" /\ Len(s) = 1
             listed == Loop(First(Shown, s)).items
         IN  /\ r = [body |-> "data", items |-> r.items, shown |-> r.shown, total |-> r.total,
                     mark |-> "none", file |-> <<>>]
             /\ r.items \in Seq(Int) /\ r.shown \in Formatted(r.items)
             /\ r.items = IF lone THEN s ELSE listed
             /\ r.total = {} \/ \E w \in fmt_wan(Loop(First(Shown, s)).total) : r.total = {w}
             /\ r.total # {} => columns # "others" /\ Len(r.items) > 1
             /\ columns # "others" /\ Len(r.items) > 1 => r.total # {}
<1> DEFINE lone == columns = "amount" /\ Len(s) = 1
           loop == Loop(First(Shown, s))
           items == IF lone THEN s ELSE loop.items
           totals == IF columns # "others" /\ Len(items) > 1
                     THEN {{w} : w \in fmt_wan(loop.total)} ELSE {{}}
<1>1. First(Shown, s) \in Seq(Int)
  BY FirstOfSeq, GatewayQueryAssumption DEF GatewayQueryAssumption
<1>2. items \in Seq(Int)
  BY <1>1, LoopTyped
<1>3. PICK v \in Formatted(items), t \in totals : r = Listed(items, v, t)
  BY DEF Listing
<1>4. r = [body |-> "data", items |-> items, shown |-> v, total |-> t, mark |-> "none", file |-> <<>>]
  <2> HIDE DEF items, totals
  <2> QED
    BY <1>3 DEF NoReply, Listed
<1>5. r.items = items /\ r.shown = v /\ r.total = t
  <2> HIDE DEF items, totals
  <2> QED
    BY <1>4
<1>6. /\ t = {} \/ \E w \in fmt_wan(loop.total) : t = {w}
      /\ t # {} => columns # "others" /\ Len(items) > 1
      /\ columns # "others" /\ Len(items) > 1 => t # {}
  <2> HIDE DEF items, loop
  <2> QED
    BY <1>3
<1> HIDE DEF totals
<1> QED
  BY <1>2, <1>3, <1>4, <1>5, <1>6

LEMMA DataTyped ==
  ASSUME GInv, NEW d \in Data
  PROVE  /\ \E r \in Listing(rows) :
              d = [body |-> "data", items |-> r.items, shown |-> r.shown, total |-> r.total,
                   mark |-> Mark(rows), file |-> File(rows)]
         /\ d \in Replies
<1>1. rows \in Seq(Int) /\ question \in Questions
  BY AmountsAreNumbers DEF GInv, Typed
<1>2. File(rows) \in Seq(Int)
  <2>1. Bars \in Nat
    BY GatewayQueryAssumption DEF GatewayQueryAssumption
  <2>2. First(Bars, rows) \in Seq(Int)
    BY <1>1, <2>1, FirstOfSeq
  <2>3. Positive(First(Bars, rows)) \in Seq(Int) /\ <<>> \in Seq(Int)
    BY <2>2, PositiveTyped, EmptySeq
  <2> QED
    BY <1>1, <2>3 DEF File
<1>3. Mark(rows) \in {"none", "excel", "chart"}
  BY <1>1, QuestionTyped DEF Mark, File
<1>4. PICK r \in Listing(rows) : d = [r EXCEPT !.mark = Mark(rows), !.file = File(rows)]
  BY DEF Data
<1>5. /\ r = [body |-> "data", items |-> r.items, shown |-> r.shown, total |-> r.total,
              mark |-> "none", file |-> <<>>]
      /\ r.items \in Seq(Int) /\ r.shown \in Formatted(r.items)
      /\ r.total = {} \/ \E w \in fmt_wan(Loop(First(Shown, rows)).total) : r.total = {w}
  BY <1>1, <1>4, ListingTyped
<1>6. r.shown \in Seq(Int)
  BY <1>5, FormattedTyped
<1>7. r.total \in SUBSET Int
  <2>1. Loop(First(Shown, rows)).total \in Int
    BY <1>1, FirstOfSeq, LoopTyped, GatewayQueryAssumption DEF GatewayQueryAssumption
  <2>2. \A w \in fmt_wan(Loop(First(Shown, rows)).total) : w \in Int
    BY <2>1, FormatIsNear
  <2> QED
    BY <1>5, <2>2
<1>8. d = [body |-> "data", items |-> r.items, shown |-> r.shown, total |-> r.total,
           mark |-> Mark(rows), file |-> File(rows)]
  <2> DEFINE u == [r EXCEPT !.mark = Mark(rows)]
  <2>1. u = [body |-> "data", items |-> r.items, shown |-> r.shown, total |-> r.total,
             mark |-> Mark(rows), file |-> <<>>]
    BY <1>5
  <2>2. d = [u EXCEPT !.file = File(rows)]
    BY <1>4
  <2> HIDE DEF u
  <2> QED
    BY <2>1, <2>2
<1>9. d \in Replies
  BY <1>2, <1>3, <1>5, <1>6, <1>7, <1>8 DEF Replies
<1> QED
  BY <1>8, <1>9

\* Every state of a request has its types, the amounts and the rows of the reply included
\* (that the rows are few is PagesAreKept's); a reply is there exactly when the request
\* is done.
THEOREM GatewayTyped == Spec => []TypeOK
<1>1. GInv => TypeOK
  <2> SUFFICES ASSUME GInv PROVE TypeOK
    OBVIOUS
  <2>1. \A d \in Data : d \in Replies /\ d.body = "data"
    BY DataTyped
  <2>2. ASSUME NEW b \in {"none", "unauthorized", "guard", "failed"}
        PROVE  Text(b) \in Replies /\ Text(b).body = b
    <3>1. Text(b) = [body |-> b, items |-> <<>>, shown |-> <<>>, total |-> {},
                     mark |-> "none", file |-> <<>>]
      <4> DEFINE e == <<>>
      <4>1. NoReply = [body |-> "none", items |-> e, shown |-> e, total |-> {}, mark |-> "none", file |-> e]
        BY DEF NoReply
      <4>2. Text(b) = [NoReply EXCEPT !.body = b]
        BY DEF Text
      <4> HIDE DEF e
      <4>3. Text(b) = [body |-> b, items |-> e, shown |-> e, total |-> {}, mark |-> "none", file |-> e]
        BY <4>1, <4>2
      <4> QED
        BY <4>3 DEF e
    <3>2. <<>> \in Seq(Int) /\ {} \in SUBSET Int
      BY EmptySeq
    <3> QED
      BY <3>1, <3>2 DEF Replies
  <2>3. NoReply = Text("none") /\ NoReply.body = "none"
    BY DEF Text, NoReply
  <2>4. reply \in Replies /\ ((pc = "done") = (reply # NoReply))
    BY <2>1, <2>2, <2>3 DEF GInv, Replied
  <2>5. NoPlan \notin Statements
    BY GatewayQueryAssumption DEF GatewayQueryAssumption
  <2> QED
    BY <2>4, <2>5 DEF GInv, Typed, TypeOK
<1> QED
  BY <1>1, GatewaySafety, PTL

\* The total build_reply() states differs from the sum of the amounts as it lists them by
\* half a unit for each at most, since the loop adds up the amounts and each is rounded
\* on its own; on a list that has room for all rows it is the total of all that are
\* positive, to the nearest unit.
THEOREM SumIsOfListed == Spec => []SumOfListed
<1>1. GInv => SumOfListed
  <2> SUFFICES ASSUME GInv, reply.body = "data", columns # "others"
               PROVE  /\ \A t \in reply.total : Near(t, Total(reply.shown), Len(reply.shown) + 1)
                      /\ Len(rows) <= Shown =>
                           /\ \A t \in reply.total : Near(Unit * t, Total(Positive(rows)), Unit)
                           /\ reply.total = {} => Len(Positive(rows)) <= 1
    BY DEF SumOfListed
  <2>1. reply \in Data
    BY DEF GInv, Replied, Text, NoReply
  <2>2. PICK r \in Listing(rows) :
          reply = [body |-> "data", items |-> r.items, shown |-> r.shown, total |-> r.total,
                   mark |-> Mark(rows), file |-> File(rows)]
    BY <2>1, DataTyped
  <2>3. rows \in Seq(Int) /\ Shown \in Nat
    BY AmountsAreNumbers, GatewayQueryAssumption DEF GatewayQueryAssumption, GInv, Typed
  <2> DEFINE first == First(Shown, rows)
             loop == Loop(first)
             lone == columns = "amount" /\ Len(rows) = 1
  <2>4. /\ r.items \in Seq(Int) /\ r.shown \in Formatted(r.items)
        /\ r.items = IF lone THEN rows ELSE loop.items
        /\ r.total = {} \/ \E w \in fmt_wan(loop.total) : r.total = {w}
        /\ r.total # {} => columns # "others" /\ Len(r.items) > 1
        /\ columns # "others" /\ Len(r.items) > 1 => r.total # {}
    BY <2>3, ListingTyped
  <2>5. first \in Seq(Int) /\ (Len(rows) <= Shown => first = rows)
    BY <2>3, FirstOfSeq
  <2>6. /\ loop.items \in Seq(Int) /\ loop.total \in Int
        /\ loop.items = Positive(first) /\ loop.total = Total(Positive(first))
    BY <2>5, LoopTyped
  <2> HIDE DEF first, loop
  <2>7. reply.shown = r.shown /\ reply.total = r.total /\ Len(r.items) \in Nat
    BY <2>2, <2>4
  <2>8. /\ r.shown \in Seq(Int) /\ Len(r.shown) = Len(r.items)
        /\ \A i \in 1..Len(r.items) : Near(Unit * r.shown[i], r.items[i], Unit)
    BY <2>4, FormattedTyped
  <2>9. ASSUME NEW t \in r.total
        PROVE  t \in Int /\ Near(Unit * t, loop.total, Unit) /\ r.items = loop.items
    <3>1. Len(r.items) > 1 /\ t \in fmt_wan(loop.total)
      BY <2>4, <2>9
    <3>2. t \in Int /\ Near(Unit * t, loop.total, Unit)
      BY <2>6, <3>1, FormatIsNear
    <3>3. r.items = loop.items
      <4>1. ASSUME lone PROVE Len(r.items) = 1
        BY <2>4, <4>1
      <4>2. Len(r.items) # 1
        <5> DEFINE k == Len(r.items)
        <5>1. k \in Nat /\ k > 1
          BY <2>7, <3>1
        <5> HIDE DEF k
        <5>2. k # 1
          BY <5>1
        <5> QED
          BY <5>2 DEF k
      <4>3. ~lone
        BY <4>1, <4>2
      <4> QED
        BY <2>4, <4>3
    <3> QED
      BY <3>2, <3>3
  <2>10. ASSUME NEW t \in r.total PROVE Near(t, Total(r.shown), Len(r.shown) + 1)
    <3>1. Near(Unit * Total(r.shown), Total(r.items), Len(r.items) * Unit)
      BY <2>4, <2>8, RoundedSum
    <3>2. loop.total = Total(r.items)
      BY <2>6, <2>9, <2>10
    <3>3. Total(r.shown) \in Int
      BY <2>8, TotalTyped
    <3> QED
      BY <2>6, <2>7, <2>8, <2>9, <2>10, <3>1, <3>2, <3>3, InUnits
  <2>11. ASSUME Len(rows) <= Shown, r.total = {} PROVE Len(Positive(rows)) <= 1
    <3>1. Len(r.items) <= 1
      BY <2>4, <2>7, <2>11
    <3>2. CASE lone
      BY <2>3, <3>2, PositiveTyped
    <3>3. CASE ~lone
      BY <2>4, <2>5, <2>6, <2>11, <3>1, <3>3
    <3> QED
      BY <3>2, <3>3
  <2>12. ASSUME Len(rows) <= Shown, NEW t \in r.total PROVE Near(Unit * t, Total(Positive(rows)), Unit)
    BY <2>5, <2>6, <2>9, <2>12
  <2> QED
    BY <2>7, <2>10, <2>11, <2>12
<1> QED
  BY <1>1, GatewaySafety, PTL

\* One amount is drawn as it is, or not at all.
LEMMA PositiveOfOne ==
  ASSUME NEW s \in Seq(Int), Len(s) = 1, NEW n \in Nat, Positive(First(n, s)) # <<>>
  PROVE  Positive(First(n, s)) = s
<1>1. PICK f : Keeps(s, f, Len(s))
  <2>1. Len(s) \in Nat
    OBVIOUS
  <2> QED
    BY <2>1, KeepsExists
<1>2. f[0] = <<>> /\ f[1] = IF s[1] > 0 THEN Append(<<>>, s[1]) ELSE <<>>
  <2>1. 1 \in 1..Len(s) /\ 1 - 1 = 0 /\ Len(s) \in Nat
    OBVIOUS
  <2>2. f[0] = <<>> /\ \A i \in 1..Len(s) : f[i] = IF s[i] > 0 THEN Append(f[i - 1], s[i]) ELSE f[i - 1]
    BY <1>1, <2>1, KeepsStep
  <2>3. f[1] = IF s[1] > 0 THEN Append(f[1 - 1], s[1]) ELSE f[1 - 1]
    BY <2>1, <2>2
  <2> QED
    BY <2>1, <2>2, <2>3
<1>3. Positive(First(n, s)) \in {f[0], f[1]}
  <2>1. (IF Len(s) < n THEN Len(s) ELSE n) \in {0, 1}
    OBVIOUS
  <2> QED
    BY <1>1, <2>1, PositiveOfFirst
<1>4. Append(<<>>, s[1]) = s
  <2>1. /\ Append(<<>>, s[1]) \in Seq(Int) /\ Len(Append(<<>>, s[1])) = 1
        /\ Append(<<>>, s[1])[1] = s[1]
    BY EmptySeq, AppendProperties
  <2> QED
    BY <2>1, SeqEqual
<1> QED
  BY <1>2, <1>3, <1>4

\* The picture shows the first of the amounts the text lists, though the text and
\* build_bar_png() cut the rows at different places; the Excel file has every row.
THEOREM FilesAgree == Spec => []FileAgrees
<1>1. GInv => FileAgrees
  <2> SUFFICES ASSUME GInv, reply.mark # "none" PROVE FileAgrees
    BY DEF FileAgrees
  <2>1. reply \in Data
    BY DEF GInv, Replied, Text, NoReply
  <2>2. PICK r \in Listing(rows) :
          /\ reply.body = "data" /\ reply.items = r.items
          /\ reply.mark = Mark(rows) /\ reply.file = File(rows)
    BY <2>1, DataTyped
  <2>3. rows \in Seq(Int) /\ Shown \in Nat /\ Bars \in Nat /\ Bars <= Shown
    BY AmountsAreNumbers, GatewayQueryAssumption DEF GatewayQueryAssumption, GInv, Typed
  <2>4. /\ reply.mark = question.want
        /\ r.items = IF columns = "amount" /\ Len(rows) = 1 THEN rows ELSE Loop(First(Shown, rows)).items
    BY <2>2, <2>3, ListingTyped DEF Mark
  <2>5. reply.mark = "excel" => reply.file = rows
    BY <2>2, <2>4 DEF File
  <2>6. ASSUME reply.mark = "chart" PROVE reply.file # <<>> /\ IsPrefix(reply.file, reply.items)
    <3>1. reply.file # <<>> /\ question.want = "chart"
      BY <2>2, <2>4, <2>6 DEF Mark
    <3>2. columns # "others" /\ reply.file = Positive(First(Bars, rows))
      BY <2>2, <3>1 DEF File
    <3>3. CASE columns = "amount" /\ Len(rows) = 1
      <4>1. reply.items = rows
        BY <2>2, <2>4, <3>3
      <4>2. reply.file = rows
        BY <2>3, <3>1, <3>2, <3>3, PositiveOfOne
      <4> QED
        BY <2>3, <3>1, <4>1, <4>2 DEF IsPrefix
    <3>4. CASE ~(columns = "amount" /\ Len(rows) = 1)
      <4>1. reply.items = Positive(First(Shown, rows))
        <5>1. First(Shown, rows) \in Seq(Int)
          BY <2>3, FirstOfSeq
        <5> QED
          BY <2>2, <2>4, <3>2, <3>4, <5>1, LoopTyped
      <4> QED
        BY <2>3, <3>1, <3>2, <4>1, PositiveIsPrefix
    <3> QED
      BY <3>3, <3>4
  <2> QED
    BY <2>2, <2>4, <2>5, <2>6 DEF FileAgrees
<1> QED
  BY <1>1, GatewaySafety, PTL
================================================================================
