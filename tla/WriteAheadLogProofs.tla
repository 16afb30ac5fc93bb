------------------------ MODULE WriteAheadLogProofs -------------------------
(***************************************************************************)
(* Facts about logs made of whole batches, which the proofs about          *)
(* Replication rest on.                                                    *)
(***************************************************************************)
EXTENDS WriteAheadLog, SequenceTheorems, TLAPS

\* The operations of a batch stand together and complete in l.
Whole(l) ==
    \A i \in 1 .. Len(l) :
        /\ l[i][1] \in Batch
        /\ l[i][2] \in 1 .. Count[l[i][1]]
        /\ \A j \in 1 .. Count[l[i][1]] :
              i - l[i][2] + j \in 1 .. Len(l) /\ l[i - l[i][2] + j] = <<l[i][1], j>>

\* A batch begins at sequence number p of l, or p is the next one to come.
At(l, p) == p \in 1 .. Len(l) + 1 /\ (p <= Len(l) => l[p][2] = 1)

\* u is what follows sequence number q in l.
Follows(u, l, q) == q + Len(u) <= Len(l) /\ \A i \in 1 .. Len(u) : u[i] = l[q + i]

\* Writing a batch appends its operations, numbered from 1.
LEMMA AppendBatch ==
    ASSUME NEW l \in Seq(Op), NEW b \in Batch
    PROVE  /\ l \o Block(b) \in Seq(Op)
           /\ Len(l \o Block(b)) = Len(l) + Count[b]
           /\ \A i \in 1 .. Len(l) : (l \o Block(b))[i] = l[i]
           /\ \A j \in 1 .. Count[b] : (l \o Block(b))[Len(l) + j] = <<b, j>>
  <1>1. Count[b] \in Nat /\ Count[b] >= 1
    BY CountAssumption
  <1>2. Block(b) \in Seq(Op) /\ Len(Block(b)) = Count[b]
    BY <1>1 DEF Block, Op
  <1>3. \A j \in 1 .. Count[b] : Block(b)[j] = <<b, j>>
    BY <1>1 DEF Block
  <1>4. \A i \in 1 .. Len(l) : (l \o Block(b))[i] = l[i]
    BY <1>2
  <1>5. l \o Block(b) \in Seq(Op) /\ Len(l \o Block(b)) = Len(l) + Count[b]
    BY <1>2
  <1>6. ASSUME NEW j \in 1 .. Count[b] PROVE (l \o Block(b))[Len(l) + j] = Block(b)[j]
    <2>1. Len(l) \in Nat /\ Len(l) + j \in 1 .. Len(l) + Len(Block(b)) /\ ~(Len(l) + j <= Len(l))
      BY <1>1, <1>2
    <2>2. (l \o Block(b))[Len(l) + j] = Block(b)[(Len(l) + j) - Len(l)]
      BY <1>2, <2>1
    <2>3. QED BY <1>1, <2>1, <2>2
  <1>7. QED BY <1>3, <1>4, <1>5, <1>6

\* A log to which a batch is appended still consists of whole batches.
LEMMA WholeAppend ==
    ASSUME NEW l \in Seq(Op), NEW b \in Batch, Whole(l)
    PROVE  Whole(l \o Block(b))
  <1> DEFINE m == l \o Block(b)
  <1>1. Count[b] \in Nat /\ Count[b] >= 1
    BY CountAssumption
  <1>2. Len(m) = Len(l) + Count[b] /\ Len(l) \in Nat
    BY AppendBatch
  <1>3. \A i \in 1 .. Len(l) : m[i] = l[i]
    BY AppendBatch
  <1>4. \A j \in 1 .. Count[b] : m[Len(l) + j] = <<b, j>>
    BY AppendBatch
  <1> HIDE DEF m
  <1>5. ASSUME NEW i \in 1 .. Len(m)
        PROVE  /\ m[i][1] \in Batch
               /\ m[i][2] \in 1 .. Count[m[i][1]]
               /\ \A j \in 1 .. Count[m[i][1]] :
                     i - m[i][2] + j \in 1 .. Len(m) /\ m[i - m[i][2] + j] = <<m[i][1], j>>
    <2>1. CASE i <= Len(l)
      <3>1. i \in 1 .. Len(l) /\ m[i] = l[i]
        BY <1>2, <1>3, <2>1
      <3>2. /\ l[i][1] \in Batch
            /\ l[i][2] \in 1 .. Count[l[i][1]]
            /\ \A j \in 1 .. Count[l[i][1]] :
                  i - l[i][2] + j \in 1 .. Len(l) /\ l[i - l[i][2] + j] = <<l[i][1], j>>
        BY <3>1 DEF Whole
      <3>3. \A k \in 1 .. Len(l) : k \in 1 .. Len(m)
        BY <1>1, <1>2
      <3>4. QED BY <1>3, <3>1, <3>2, <3>3
    <2>2. CASE i > Len(l)
      <3>1. i - Len(l) \in 1 .. Count[b] /\ i = Len(l) + (i - Len(l))
        BY <1>1, <1>2, <2>2
      <3>2. m[i] = <<b, i - Len(l)>>
        BY <1>4, <3>1
      <3>3. m[i][1] = b /\ m[i][2] = i - Len(l)
        BY <3>2
      <3>4. \A j \in 1 .. Count[b] : i - m[i][2] + j = Len(l) + j
        BY <1>1, <1>2, <3>3
      <3>5. QED BY <1>1, <1>2, <1>4, <3>1, <3>3, <3>4
    <2>3. QED BY <1>2, <2>1, <2>2
  <1>6. Whole(m)
    BY <1>5 DEF Whole
  <1>7. QED BY <1>6 DEF m

\* Where a batch began, or was to begin, one begins after an append too.
LEMMA AtAppend ==
    ASSUME NEW l \in Seq(Op), NEW b \in Batch, NEW p, At(l, p)
    PROVE  At(l \o Block(b), p)
  <1>1. Count[b] \in Nat /\ Count[b] >= 1 /\ Len(l) \in Nat
    BY CountAssumption
  <1>2. CASE p <= Len(l)
    BY <1>1, <1>2, AppendBatch DEF At
  <1>3. CASE p = Len(l) + 1
    <2>1. (l \o Block(b))[Len(l) + 1] = <<b, 1>>
      BY <1>1, AppendBatch
    <2>2. QED BY <1>1, <1>3, <2>1, AppendBatch DEF At
  <1>4. QED BY <1>1, <1>2, <1>3 DEF At

\* What follows entry q of a log still does after one more batch is written.
LEMMA FollowsAppend ==
    ASSUME NEW l \in Seq(Op), NEW b \in Batch, NEW u \in Seq(Op), NEW q \in Nat,
           Follows(u, l, q)
    PROVE  Follows(u, l \o Block(b), q)
  <1>1. Count[b] \in Nat /\ Len(l) \in Nat /\ Len(u) \in Nat
    BY CountAssumption
  <1>2. \A i \in 1 .. Len(u) : q + i \in 1 .. Len(l)
    BY <1>1 DEF Follows
  <1>3. QED BY <1>1, <1>2, AppendBatch DEF Follows

\* Reading the batch at p: its operations are there, and the next one begins
\* right after them.
LEMMA NextBatch ==
    ASSUME NEW l \in Seq(Op), Whole(l), NEW p, At(l, p), p <= Len(l)
    PROVE  LET b == l[p][1] IN
           /\ b \in Batch
           /\ p + Count[b] <= Len(l) + 1
           /\ \A j \in 1 .. Count[b] : l[p + j - 1] = <<b, j>>
           /\ At(l, p + Count[b])
  <1> DEFINE b == l[p][1]
  <1>1. Len(l) \in Nat /\ p \in 1 .. Len(l) /\ l[p][2] = 1
    BY DEF At
  <1>2. b \in Batch
    BY <1>1 DEF Whole
  <1>3. Count[b] \in Nat /\ Count[b] >= 1
    BY <1>2, CountAssumption
  <1>4. \A j \in 1 .. Count[b] : p - 1 + j \in 1 .. Len(l) /\ l[p - 1 + j] = <<b, j>>
    BY <1>1 DEF Whole
  <1>5. \A j \in 1 .. Count[b] : p - 1 + j = p + j - 1
    BY <1>1, <1>3
  <1>6. p - 1 + Count[b] \in 1 .. Len(l) /\ l[p - 1 + Count[b]] = <<b, Count[b]>>
    BY <1>3, <1>4
  <1>7. ASSUME p + Count[b] <= Len(l) PROVE l[p + Count[b]][2] = 1
    <2> DEFINE q == p + Count[b]
               e == l[q]
    <2>1. q \in 1 .. Len(l) /\ q - 1 = p - 1 + Count[b]
      BY <1>1, <1>3, <1>7
    <2>2. /\ e[1] \in Batch /\ e[2] \in 1 .. Count[e[1]]
          /\ \A j \in 1 .. Count[e[1]] : l[q - e[2] + j] = <<e[1], j>>
      BY <2>1 DEF Whole
    <2>3. Count[e[1]] \in Nat
      BY <2>2, CountAssumption
    <2> HIDE DEF e
    <2>4. ASSUME e[2] # 1 PROVE FALSE
      <3>0. e[2] \in Nat /\ e[2] >= 1 /\ e[2] <= Count[e[1]]
        BY <2>2, <2>3
      <3>1. e[2] - 1 \in 1 .. Count[e[1]] /\ q - e[2] + (e[2] - 1) = q - 1
        BY <2>1, <2>3, <2>4, <3>0
      <3>2. l[q - e[2] + (e[2] - 1)] = <<e[1], e[2] - 1>>
        BY <2>2, <3>1
      <3>3. <<b, Count[b]>> = <<e[1], e[2] - 1>>
        BY <1>6, <2>1, <3>1, <3>2
      <3>4. b = e[1] /\ Count[b] = e[2] - 1
        BY <3>3
      <3>5. QED BY <3>0, <3>4, <1>3
    <2>5. QED BY <2>4 DEF e
  <1> HIDE DEF b
  <1>8. At(l, p + Count[b])
    <2>1. p + Count[b] \in 1 .. Len(l) + 1
      BY <1>1, <1>3, <1>6
    <2>2. QED BY <1>7, <2>1 DEF At
  <1>9. QED BY <1>1, <1>2, <1>3, <1>4, <1>5, <1>6, <1>8 DEF b

\* The read loop adds the batch at the iterator to the response.
LEMMA FollowsExtend ==
    ASSUME NEW l \in Seq(Op), Whole(l), NEW u \in Seq(Op), NEW q \in Nat, Follows(u, l, q),
           At(l, q + Len(u) + 1), q + Len(u) + 1 <= Len(l)
    PROVE  LET b == l[q + Len(u) + 1][1] IN Follows(u \o Block(b), l, q)
  <1> DEFINE p == q + Len(u) + 1
             b == l[p][1]
             v == u \o Block(b)
  <1>1. Len(u) \in Nat /\ Len(l) \in Nat
    OBVIOUS
  <1>2. /\ b \in Batch
        /\ p + Count[b] <= Len(l) + 1
        /\ \A j \in 1 .. Count[b] : l[p + j - 1] = <<b, j>>
    BY NextBatch
  <1>3. Count[b] \in Nat
    BY <1>2, CountAssumption
  <1>4. /\ Len(v) = Len(u) + Count[b]
        /\ \A i \in 1 .. Len(u) : v[i] = u[i]
        /\ \A j \in 1 .. Count[b] : v[Len(u) + j] = <<b, j>>
    BY <1>2, AppendBatch
  <1> HIDE DEF v, b
  <1>5. ASSUME NEW i \in 1 .. Len(v) PROVE v[i] = l[q + i]
    <2>1. CASE i <= Len(u)
      BY <1>1, <1>4, <2>1 DEF Follows
    <2>2. CASE i > Len(u)
      <3> DEFINE j == i - Len(u)
      <3>1. j \in 1 .. Count[b] /\ i = Len(u) + j /\ p + j - 1 = q + i
        BY <1>1, <1>3, <1>4, <2>2
      <3>2. v[Len(u) + j] = <<b, j>> /\ l[p + j - 1] = <<b, j>>
        BY <1>2, <1>4, <3>1
      <3>3. QED BY <3>1, <3>2
    <2>3. QED BY <1>1, <1>3, <1>4, <2>1, <2>2
  <1>6. q + Len(v) <= Len(l)
    BY <1>1, <1>2, <1>3, <1>4
  <1>7. QED BY <1>5, <1>6 DEF Follows, v, b

\* What is left of u after its first k operations.
LEMMA Rest ==
    ASSUME NEW u \in Seq(Op), NEW k \in 0 .. Len(u)
    PROVE  LET v == SubSeq(u, k + 1, Len(u)) IN
           /\ v \in Seq(Op)
           /\ Len(v) = Len(u) - k
           /\ \A i \in 1 .. Len(v) : v[i] = u[k + i]
  <1> DEFINE v == SubSeq(u, k + 1, Len(u))
             n == Len(u)
  <1>1. n \in Nat /\ k \in Nat /\ k <= n
    OBVIOUS
  <1>2. \A i \in k + 1 .. n : u[i] \in Op
    BY <1>1
  <1>3. /\ v \in Seq(Op)
        /\ Len(v) = IF k + 1 <= n THEN n - (k + 1) + 1 ELSE 0
        /\ \A i \in 1 .. n - (k + 1) + 1 : v[i] = u[k + 1 + i - 1]
    BY <1>1, <1>2, SubSeqProperties
  <1> HIDE DEF v, n
  <1>4. Len(v) = n - k /\ n - (k + 1) + 1 = n - k
    BY <1>1, <1>3
  <1>5. ASSUME NEW i \in 1 .. Len(v) PROVE v[i] = u[k + i]
    <2>1. i \in 1 .. n - (k + 1) + 1
      BY <1>1, <1>4
    <2>2. k + 1 + i - 1 = k + i
      BY <1>1, <1>4
    <2>3. v[i] = u[k + 1 + i - 1]
      BY <1>3, <2>1
    <2>4. QED BY <2>2, <2>3
  <1>6. QED BY <1>3, <1>4, <1>5 DEF v, n

\* Positions in what is left after the first c of n updates.
LEMMA Shift ==
    \A m, n, c \in Nat : \A i \in 1 .. n - c :
        c + i \in 1 .. n /\ m + (c + i) = (m + c) + i
  OBVIOUS

\* The slave applies the first batch of what it received: the batch is
\* complete, it is what comes next, and the rest follows it.
LEMMA ApplyBatch ==
    ASSUME NEW l \in Seq(Op), Whole(l), NEW u \in Seq(Op), NEW a \in Seq(Op),
           IsPrefixOf(a, l), Follows(u, l, Len(a)), u # << >>,
           At(l, Len(a) + 1), At(l, Len(a) + Len(u) + 1)
    PROVE  LET b == Head(u)[1]
               v == SubSeq(u, Count[b] + 1, Len(u))
               d == a \o Block(b)
           IN  /\ b \in Batch
               /\ v \in Seq(Op)
               /\ Len(d) + Len(v) = Len(a) + Len(u)
               /\ IsPrefixOf(d, l)
               /\ Follows(v, l, Len(d))
               /\ At(l, Len(d) + 1)
  <1> DEFINE p == Len(a) + 1
             b == Head(u)[1]
             v == SubSeq(u, Count[b] + 1, Len(u))
             d == a \o Block(b)
  <1>1. Len(u) \in Nat /\ Len(u) >= 1 /\ Len(l) \in Nat /\ Len(a) \in Nat
    OBVIOUS
  <1>2. p <= Len(l) /\ p \in Nat
    BY <1>1 DEF Follows
  <1>3. Head(u) = u[1] /\ u[1] = l[p]
    BY <1>1 DEF Follows
  <1>4. b = l[p][1]
    BY <1>3
  <1>5. /\ b \in Batch
        /\ p + Count[b] <= Len(l) + 1
        /\ \A j \in 1 .. Count[b] : l[p + j - 1] = <<b, j>>
        /\ At(l, p + Count[b])
    <2> HIDE DEF b, p
    <2>1. At(l, p)
      BY DEF p
    <2>2. LET c == l[p][1] IN
          /\ c \in Batch
          /\ p + Count[c] <= Len(l) + 1
          /\ \A j \in 1 .. Count[c] : l[p + j - 1] = <<c, j>>
          /\ At(l, p + Count[c])
      BY <1>2, <2>1, NextBatch
    <2>3. QED BY <1>4, <2>2
  <1>6. Count[b] \in Nat /\ Count[b] >= 1
    BY <1>5, CountAssumption
  <1> HIDE DEF b
  <1>7. Count[b] <= Len(u)
    <2>1. SUFFICES ASSUME Count[b] > Len(u) PROVE FALSE
      BY <1>1, <1>6
    <2> DEFINE k == Len(u) + 1
    <2>2. k \in 1 .. Count[b] /\ p + k - 1 = Len(a) + Len(u) + 1
      BY <1>1, <1>6, <2>1
    <2>3. l[Len(a) + Len(u) + 1] = <<b, k>>
      BY <1>5, <2>2
    <2>4. Len(a) + Len(u) + 1 <= Len(l)
      BY <1>1, <1>5, <1>6, <2>1
    <2>5. l[Len(a) + Len(u) + 1][2] = 1
      BY <2>4 DEF At
    <2>6. k = 1
      BY <2>3, <2>5
    <2>7. QED BY <1>1, <2>6
  <1>8. /\ v \in Seq(Op)
        /\ Len(v) = Len(u) - Count[b]
        /\ \A i \in 1 .. Len(v) : v[i] = u[Count[b] + i]
    <2>1. Count[b] \in 0 .. Len(u)
      BY <1>1, <1>6, <1>7
    <2>2. QED BY <2>1, Rest
  <1>9. /\ Len(d) = Len(a) + Count[b]
        /\ \A i \in 1 .. Len(a) : d[i] = a[i]
        /\ \A j \in 1 .. Count[b] : d[Len(a) + j] = <<b, j>>
    BY <1>5, AppendBatch
  <1> HIDE DEF v, d
  <1>10. Len(d) + Len(v) = Len(a) + Len(u)
    BY <1>1, <1>6, <1>8, <1>9
  <1>11. IsPrefixOf(d, l)
    <2>1. ASSUME NEW i \in 1 .. Len(d) PROVE d[i] = l[i]
      <3>1. CASE i <= Len(a)
        BY <1>1, <1>9, <3>1 DEF IsPrefixOf
      <3>2. CASE i > Len(a)
        <4> DEFINE j == i - Len(a)
        <4>1. j \in 1 .. Count[b] /\ i = Len(a) + j /\ p + j - 1 = i
          BY <1>1, <1>6, <1>9, <3>2
        <4>2. d[Len(a) + j] = <<b, j>> /\ l[p + j - 1] = <<b, j>>
          BY <1>5, <1>9, <4>1
        <4>3. QED BY <4>1, <4>2
      <3>3. QED BY <1>1, <1>6, <1>9, <3>1, <3>2
    <2>2. Len(d) <= Len(l)
      BY <1>1, <1>5, <1>6, <1>9
    <2>3. QED BY <2>1, <2>2 DEF IsPrefixOf
  <1>12. Follows(v, l, Len(d))
    <2>1. ASSUME NEW i \in 1 .. Len(v) PROVE v[i] = l[Len(d) + i]
      <3>0. Len(v) = Len(u) - Count[b] /\ Len(d) = Len(a) + Count[b]
        BY <1>8, <1>9
      <3>1. Count[b] + i \in 1 .. Len(u) /\ Len(a) + (Count[b] + i) = Len(d) + i
        <4>1. i \in 1 .. Len(u) - Count[b]
          BY <3>0, Zenon
        <4>2. /\ Count[b] + i \in 1 .. Len(u)
              /\ Len(a) + (Count[b] + i) = (Len(a) + Count[b]) + i
          BY <1>1, <1>6, <4>1, Shift, Zenon
        <4>3. QED BY <3>0, <4>2, Zenon
      <3>2. u[Count[b] + i] = l[Len(a) + (Count[b] + i)]
        BY <3>1 DEF Follows
      <3>3. QED BY <1>8, <3>1, <3>2
    <2>2. Len(d) + Len(v) <= Len(l)
      BY <1>10 DEF Follows
    <2>3. QED BY <2>1, <2>2 DEF Follows
  <1>13. At(l, Len(d) + 1)
    <2>0. Len(d) = Len(a) + Count[b]
      BY <1>9
    <2>1. p + Count[b] = Len(d) + 1
      <3>1. \A x, y \in Nat : (x + 1) + y = (x + y) + 1
        OBVIOUS
      <3>2. QED BY <1>1, <1>6, <2>0, <3>1, Zenon
    <2>2. At(l, p + Count[b])
      BY <1>5
    <2>3. QED BY <2>1, <2>2, Zenon
  <1>14. QED BY <1>5, <1>8, <1>10, <1>11, <1>12, <1>13 DEF b, v, d

\* A batch begins at the first sequence number.
LEMMA AtFirst ==
    ASSUME NEW l \in Seq(Op), Whole(l)
    PROVE  At(l, 1)
  <1>1. Len(l) \in Nat
    OBVIOUS
  <1>2. ASSUME 1 <= Len(l) PROVE l[1][2] = 1
    <2> DEFINE k == l[1][2]
               n == Count[l[1][1]]
    <2>1. /\ l[1][1] \in Batch /\ k \in 1 .. n
          /\ \A j \in 1 .. n : 1 - k + j \in 1 .. Len(l)
      BY <1>1, <1>2 DEF Whole
    <2>2. n \in Nat
      BY <2>1, CountAssumption
    <2> HIDE DEF k, n
    <2>3. 1 - k + 1 \in 1 .. Len(l)
      BY <2>1, <2>2
    <2>4. k = 1
      BY <2>1, <2>2, <2>3
    <2>5. QED BY <2>4 DEF k
  <1>3. QED BY <1>1, <1>2 DEF At

\* A fresh iterator is where the slave asks for, or there is none.
LEMMA FreshIter ==
    ASSUME NEW l \in Seq(Op), NEW p, At(l, p)
    PROVE  GetUpdatesSince(l, p) = IF p <= Len(l) THEN p ELSE 0
  <1>1. Len(l) \in Nat /\ p \in Nat
    BY DEF At
  <1>2. p <= Len(l) => l[p][2] = 1
    BY DEF At
  <1>3. QED BY <1>1, <1>2 DEF GetUpdatesSince

\* Replication from a to l keeps a prefix when l grows, and the empty sequence
\* follows everything.
LEMMA PrefixAppend ==
    ASSUME NEW l \in Seq(Op), NEW b \in Batch, NEW a \in Seq(Op), IsPrefixOf(a, l)
    PROVE  IsPrefixOf(a, l \o Block(b))
  <1>1. Count[b] \in Nat /\ Len(l) \in Nat /\ Len(a) \in Nat
    BY CountAssumption
  <1>2. QED BY <1>1, AppendBatch DEF IsPrefixOf
=============================================================================
