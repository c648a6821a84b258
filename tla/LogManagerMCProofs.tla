-------------------------- MODULE LogManagerMCProofs --------------------------
(***************************************************************************)
(* The closed forms of LogManager are the loops of the source, and what    *)
(* two logs that replicate into each other keep, proved for logs and       *)
(* batches of any length.                                                  *)
(***************************************************************************)
EXTENDS LogManagerMC, LogManagerProofs

-----------------------------------------------------------------------------
(* Iterations                                                              *)

(* What n iterations have made, and two of them that step alike.           *)
Iterations(f, n) == f = [k \in 0..n |-> f[k]]
StepAlike(f, g, n) ==
  f[0] = g[0] /\ \A k \in 1..n : f[k - 1] = g[k - 1] => f[k] = g[k]

(* Two sequences of iterations that start alike and whose steps are alike  *)
(* are the same: induction on the first difference.                        *)
LEMMA SameIterations ==
  ASSUME NEW n \in Nat, NEW f, NEW g,
         Iterations(f, n), Iterations(g, n), StepAlike(f, g, n)
  PROVE  f = g
<1> USE DEF Iterations, StepAlike
<1> DEFINE B == {k \in 0..n : f[k] # g[k]}
<1>1. B = {}
  <2> SUFFICES ASSUME B # {} PROVE FALSE
    OBVIOUS
  <2>1. B \in SUBSET Nat
    OBVIOUS
  <2>2. PICK m \in B : \A q \in B : m <= q
    <3> HIDE DEF B
    <3> QED BY <2>1, SmallestExists
  <2>3. m \in 1..n /\ m - 1 \in 0..n
    OBVIOUS
  <2>4. m - 1 \notin B
    <3> HIDE DEF B
    <3> QED BY <2>1, <2>2, <2>3
  <2>5. f[m - 1] = g[m - 1]
    BY <2>3, <2>4
  <2> QED
    BY <2>3, <2>5
<1>2. \A k \in 0..n : f[k] = g[k]
  BY <1>1
<1> QED
  BY <1>2

(* push_back in a loop: what is left of the batch after k iterations is    *)
(* all that the log lacks.                                                 *)
PushesBy(f, l, es) == f = [k \in 0..Len(es) |-> IF k = 0 THEN l ELSE Append(f[k - 1], es[k])]

LEMMA PushLoopIs ==
  ASSUME NEW E, NEW l \in Seq(E), NEW es \in Seq(E)
  PROVE  PushLoop(l, es) = l \o es
<1> DEFINE n == Len(es)
           f == [k \in 0..n |-> l \o SubSeq(es, 1, k)]
           g == CHOOSE h : PushesBy(h, l, es)
<1>0. PushLoop(l, es) = g[n]
  BY DEF PushLoop, PushesBy
<1>1. n \in Nat
  OBVIOUS
<1>2. f[0] = l
  <2>1. SubSeq(es, 1, 0) = <<>>
    OBVIOUS
  <2> QED
    BY <1>1, <2>1
<1>3. ASSUME NEW k \in 1..n PROVE f[k] = Append(f[k - 1], es[k])
  <2> DEFINE s == SubSeq(es, 1, k - 1)
  <2>1. SubSeq(es, 1, k) = s \o <<es[k]>>
    BY SubSeqRecursiveSecond
  <2>2. s \in Seq(E) /\ es[k] \in E
    BY <1>1
  <2>3. f[k] = l \o SubSeq(es, 1, k) /\ f[k - 1] = l \o s
    <3>1. k \in 0..n /\ k - 1 \in 0..n
      BY <1>1
    <3> QED
      BY <3>1
  <2> HIDE DEF s, f
  <2>4. <<es[k]>> \in Seq(E) /\ l \o s \in Seq(E)
    BY <2>2
  <2>5. l \o (s \o <<es[k]>>) = (l \o s) \o <<es[k]>>
    BY <2>2, <2>4, ConcatAssociative
  <2>6. Append(l \o s, es[k]) = (l \o s) \o <<es[k]>>
    BY <2>2, <2>4, AppendIsConcat
  <2> QED
    BY <2>1, <2>3, <2>5, <2>6
<1>4. f = [k \in 0..n |-> f[k]] /\ f[n] = l \o es
  BY <1>1, SubSeqFull
<1> HIDE DEF f
<1>5. PushesBy(f, l, es)
  <2>1. \A k \in 0..n : f[k] = IF k = 0 THEN l ELSE Append(f[k - 1], es[k])
    <3> SUFFICES ASSUME NEW k \in 0..n PROVE f[k] = IF k = 0 THEN l ELSE Append(f[k - 1], es[k])
      OBVIOUS
    <3>1. k = 0 \/ k \in 1..n
      BY <1>1
    <3> QED
      BY <1>2, <1>3, <3>1
  <2>2. f = [k \in 0..n |-> IF k = 0 THEN l ELSE Append(f[k - 1], es[k])]
    <3> HIDE DEF n
    <3> QED BY <1>4, <2>1
  <2> QED
    BY <2>2 DEF PushesBy
<1>6. PushesBy(g, l, es)
  BY <1>5
<1> HIDE DEF g
<1>7. g = [k \in 0..n |-> g[k]] /\ g[0] = l /\ \A k \in 1..n : g[k] = Append(g[k - 1], es[k])
  <2>1. g = [k \in 0..n |-> IF k = 0 THEN l ELSE Append(g[k - 1], es[k])]
    BY <1>6 DEF PushesBy
  <2> HIDE DEF n
  <2>2. \A k \in 0..n : g[k] = IF k = 0 THEN l ELSE Append(g[k - 1], es[k])
    BY <2>1
  <2>3. g = [k \in 0..n |-> g[k]]
    BY <2>1, <2>2
  <2>4. 0 \in 0..n /\ \A k \in 1..n : k \in 0..n /\ k # 0
    BY <1>1
  <2> QED
    BY <2>2, <2>3, <2>4
<1> HIDE DEF n
<1>8. StepAlike(f, g, n)
  BY <1>2, <1>3, <1>7 DEF StepAlike
<1>9. f = g
  <2>1. Iterations(f, n) /\ Iterations(g, n)
    BY <1>4, <1>7 DEF Iterations
  <2> QED
    BY <1>1, <1>8, <2>1, SameIterations
<1> QED
  BY <1>0, <1>4, <1>9

(* find_if: its iterator stops at the first entry that is the same.        *)
FindsBy(f, l, e) ==
  f = [k \in 0..Len(l) |->
        IF k = 0 THEN 1
        ELSE LET it == f[k - 1] IN
             IF it > Len(l) THEN it ELSE IF SameEntry(l[it], e) THEN it ELSE it + 1]

(* Where the iterator is after k steps: none before it is the same.        *)
Reached(l, e, k) ==
  IF \E q \in SamePositions(l, e) : q <= k THEN FirstSame(l, e) ELSE k + 1

LEMMA FindFirstSameIs ==
  ASSUME NEW E, NEW l \in Seq(E), NEW e
  PROVE  FindFirstSame(l, e) = IF SamePositions(l, e) = {} THEN Len(l) + 1 ELSE FirstSame(l, e)
<1> DEFINE n == Len(l)
           P == SamePositions(l, e)
           f == [k \in 0..n |-> Reached(l, e, k)]
           g == CHOOSE h : FindsBy(h, l, e)
<1>0. FindFirstSame(l, e) = g[n]
  BY DEF FindFirstSame, FindsBy
<1>1. n \in Nat /\ P \subseteq 1..n
  BY DEF SamePositions
<1>2. \A k \in 1..n : SameEntry(l[k], e) <=> k \in P
  BY DEF SamePositions
<1>3. P # {} => FirstSame(l, e) \in P /\ \A q \in P : FirstSame(l, e) <= q
  BY <1>1, SmallestExists DEF FirstSame
<1> HIDE DEF n, P
<1>4. f[0] = 1
  <2>1. ~ \E q \in P : q <= 0
    BY <1>1
  <2> QED
    BY <1>1, <2>1 DEF Reached, P
<1>5. ASSUME NEW k \in 1..n
      PROVE  f[k] = IF f[k - 1] > n THEN f[k - 1]
                    ELSE IF SameEntry(l[f[k - 1]], e) THEN f[k - 1] ELSE f[k - 1] + 1
  <2>1. k \in 0..n /\ k - 1 \in 0..n
    BY <1>1
  <2>2. CASE \E q \in P : q <= k - 1
    <3>1. f[k - 1] = FirstSame(l, e) /\ f[k] = FirstSame(l, e)
      <4>1. \E q \in P : q <= k
        BY <1>1, <2>1, <2>2
      <4> QED
        BY <2>1, <2>2, <4>1 DEF Reached, P
    <3>2. FirstSame(l, e) \in 1..n /\ SameEntry(l[FirstSame(l, e)], e)
      BY <1>1, <1>2, <1>3, <2>2
    <3> HIDE DEF f
    <3> QED
      BY <1>1, <3>1, <3>2
  <2>3. CASE ~ \E q \in P : q <= k - 1
    <3>1. f[k - 1] = k
      BY <2>1, <2>3 DEF Reached, P
    <3>2. CASE k \in P
      <4>1. FirstSame(l, e) = k
        <5>1. FirstSame(l, e) \in P /\ FirstSame(l, e) <= k
          BY <1>3, <3>2
        <5>2. ~(FirstSame(l, e) <= k - 1)
          BY <2>3, <5>1
        <5>3. FirstSame(l, e) \in 1..n
          BY <1>1, <5>1
        <5> QED
          BY <1>1, <5>1, <5>2, <5>3
      <4>2. f[k] = k
        BY <2>1, <3>2, <4>1 DEF Reached, P
      <4> HIDE DEF f
      <4> QED
        BY <1>1, <1>2, <3>1, <3>2, <4>2
    <3>3. CASE k \notin P
      <4>1. ~ \E q \in P : q <= k
        BY <1>1, <2>1, <2>3, <3>3
      <4>2. f[k] = k + 1
        BY <2>1, <4>1 DEF Reached, P
      <4> HIDE DEF f
      <4> QED
        BY <1>1, <1>2, <3>1, <3>3, <4>2
    <3> QED
      BY <3>2, <3>3
  <2> QED
    BY <2>2, <2>3
<1>6. f = [k \in 0..n |-> f[k]]
  OBVIOUS
<1>7. f[n] = IF P = {} THEN n + 1 ELSE FirstSame(l, e)
  <2>1. (\E q \in P : q <= n) <=> P # {}
    <3>1. \A q \in P : q <= n
      BY <1>1
    <3> QED
      BY <3>1
  <2>2. f[n] = Reached(l, e, n)
    BY <1>1
  <2> HIDE DEF f
  <2> QED
    BY <2>1, <2>2 DEF Reached, P
<1> HIDE DEF f
<1>8. FindsBy(f, l, e)
  <2>1. \A k \in 0..n : f[k] = IF k = 0 THEN 1
                               ELSE IF f[k - 1] > n THEN f[k - 1]
                               ELSE IF SameEntry(l[f[k - 1]], e) THEN f[k - 1] ELSE f[k - 1] + 1
    <3> SUFFICES ASSUME NEW k \in 0..n
                 PROVE  f[k] = IF k = 0 THEN 1
                               ELSE IF f[k - 1] > n THEN f[k - 1]
                               ELSE IF SameEntry(l[f[k - 1]], e) THEN f[k - 1] ELSE f[k - 1] + 1
      OBVIOUS
    <3>1. k = 0 \/ k \in 1..n
      BY <1>1
    <3> QED
      BY <1>4, <1>5, <3>1
  <2> QED
    BY <1>6, <2>1 DEF FindsBy, n
<1>9. FindsBy(g, l, e)
  BY <1>8
<1> HIDE DEF g
<1>10. /\ g = [k \in 0..n |-> g[k]] /\ g[0] = 1
       /\ \A k \in 1..n : g[k] = IF g[k - 1] > n THEN g[k - 1]
                                 ELSE IF SameEntry(l[g[k - 1]], e) THEN g[k - 1] ELSE g[k - 1] + 1
  <2>1. g = [k \in 0..n |-> IF k = 0 THEN 1
                            ELSE IF g[k - 1] > n THEN g[k - 1]
                            ELSE IF SameEntry(l[g[k - 1]], e) THEN g[k - 1] ELSE g[k - 1] + 1]
    BY <1>9 DEF FindsBy, n
  <2>2. \A k \in 0..n : g[k] = IF k = 0 THEN 1
                               ELSE IF g[k - 1] > n THEN g[k - 1]
                               ELSE IF SameEntry(l[g[k - 1]], e) THEN g[k - 1] ELSE g[k - 1] + 1
    BY <2>1
  <2>3. g = [k \in 0..n |-> g[k]]
    BY <2>1, <2>2
  <2>4. 0 \in 0..n /\ \A k \in 1..n : k \in 0..n /\ k # 0
    BY <1>1
  <2> QED
    BY <2>2, <2>3, <2>4
<1>11. StepAlike(f, g, n)
  BY <1>4, <1>5, <1>10 DEF StepAlike
<1>12. f = g
  <2>1. Iterations(f, n) /\ Iterations(g, n)
    BY <1>6, <1>10 DEF Iterations
  <2> QED
    BY <1>1, <1>11, <2>1, SameIterations
<1> QED
  BY <1>0, <1>7, <1>12 DEF n, P

(* The for loop of Append of a batch, one iteration: past the end the      *)
(* entry is pushed and the iterator stays.                                 *)
MergeStep(m, e) ==
  IF m.it > Len(m.log) THEN [log |-> Append(m.log, e), it |-> m.it]
  ELSE IF SameEntry(m.log[m.it], e) THEN [log |-> m.log, it |-> m.it + 1]
  ELSE [log |-> [m.log EXCEPT ![m.it] = e], it |-> m.it + 1]

MergesBy(f, l, es, p) ==
  f = [k \in 0..Len(es) |-> IF k = 0 THEN [log |-> l, it |-> p] ELSE MergeStep(f[k - 1], es[k])]

(* What k iterations make.  The first room of them meet the log's own      *)
(* entries; of the others every odd one pushes and every even one is laid  *)
(* over what was just pushed.                                              *)
Room(l, p) == Len(l) - p + 1

MergedLen(l, p, k) ==
  IF k <= Room(l, p) THEN Len(l) ELSE Len(l) + (k - Room(l, p) + 1) \div 2

MergedIt(l, p, k) ==
  IF k <= Room(l, p) THEN p + k ELSE Len(l) + 1 + (k - Room(l, p)) \div 2

(* The entry of the batch that is laid over the one pushed at j.           *)
Second(l, p, j) == Room(l, p) + 2 * (j - Len(l))

MergedAt(l, es, p, k, j) ==
  IF j <= Len(l) THEN IF j < p \/ j >= p + k THEN l[j] ELSE Over(l[j], es[j - p + 1])
  ELSE IF Second(l, p, j) <= k THEN Over(es[Second(l, p, j) - 1], es[Second(l, p, j)])
  ELSE es[Second(l, p, j) - 1]

MergedLog(l, es, p, k) == [j \in 1..MergedLen(l, p, k) |-> MergedAt(l, es, p, k, j)]

Merged(l, es, p, k) == [log |-> MergedLog(l, es, p, k), it |-> MergedIt(l, p, k)]

(* The three kinds of iteration, and where each finds the iterator.        *)
LEMMA MergeCounts ==
  ASSUME NEW l, Len(l) \in Nat, NEW p \in 1..Len(l), NEW k \in Nat, k >= 1
  PROVE  /\ Room(l, p) \in Nat /\ Room(l, p) >= 1 /\ p + Room(l, p) = Len(l) + 1
         /\ MergedLen(l, p, k) \in Nat /\ MergedIt(l, p, k) \in Nat
         /\ MergedLen(l, p, k - 1) \in Nat /\ MergedIt(l, p, k - 1) \in Nat
         /\ \/ /\ k <= Room(l, p)
               /\ MergedLen(l, p, k - 1) = Len(l) /\ MergedLen(l, p, k) = Len(l)
               /\ MergedIt(l, p, k - 1) = p + k - 1 /\ MergedIt(l, p, k) = p + k
            \/ \E h \in Nat :
                 /\ k = Room(l, p) + 2 * h + 1
                 /\ MergedLen(l, p, k - 1) = Len(l) + h /\ MergedLen(l, p, k) = Len(l) + h + 1
                 /\ MergedIt(l, p, k - 1) = Len(l) + h + 1 /\ MergedIt(l, p, k) = Len(l) + h + 1
            \/ \E h \in Nat :
                 /\ k = Room(l, p) + 2 * h + 2
                 /\ MergedLen(l, p, k - 1) = Len(l) + h + 1 /\ MergedLen(l, p, k) = Len(l) + h + 1
                 /\ MergedIt(l, p, k - 1) = Len(l) + h + 1 /\ MergedIt(l, p, k) = Len(l) + h + 2
<1> DEFINE r == Room(l, p)
           n == Len(l)
<1>1. r \in Nat /\ r >= 1 /\ p + r = n + 1 /\ n \in Nat /\ p \in Nat
  BY DEF Room
<1> HIDE DEF r, n
<1>2. /\ MergedLen(l, p, k) = IF k <= r THEN n ELSE n + (k - r + 1) \div 2
      /\ MergedIt(l, p, k) = IF k <= r THEN p + k ELSE n + 1 + (k - r) \div 2
      /\ MergedLen(l, p, k - 1) = IF k - 1 <= r THEN n ELSE n + (k - 1 - r + 1) \div 2
      /\ MergedIt(l, p, k - 1) = IF k - 1 <= r THEN p + (k - 1) ELSE n + 1 + (k - 1 - r) \div 2
  BY DEF MergedLen, MergedIt, r, n
<1>3. CASE k <= r
  BY <1>1, <1>2, <1>3 DEF r, n
<1>4. CASE k > r
  <2> DEFINE d == k - r - 1
             h == d \div 2
  <2>1. d \in Nat /\ h \in Nat /\ (d = 2 * h \/ d = 2 * h + 1)
    BY <1>1, <1>4
  <2> HIDE DEF h
  <2>2. CASE d = 2 * h
    <3>1. k = r + 2 * h + 1
      BY <1>1, <2>1, <2>2
    <3> HIDE DEF d
    <3>2. (k - r + 1) \div 2 = h + 1 /\ (k - r) \div 2 = h
      BY <1>1, <2>1, <3>1
    <3>3. k - 1 > r => (k - 1 - r + 1) \div 2 = h /\ (k - 1 - r) \div 2 = h
      BY <1>1, <2>1, <3>1
    <3>4. ~(k - 1 > r) => h = 0
      BY <1>1, <2>1, <3>1
    <3>5. MergedLen(l, p, k) = n + h + 1 /\ MergedIt(l, p, k) = n + h + 1
      BY <1>1, <1>2, <1>4, <2>1, <3>2
    <3>6. MergedLen(l, p, k - 1) = n + h /\ MergedIt(l, p, k - 1) = n + h + 1
      BY <1>1, <1>2, <2>1, <3>1, <3>3, <3>4
    <3> QED
      BY <1>1, <2>1, <3>1, <3>5, <3>6 DEF r, n
  <2>3. CASE d = 2 * h + 1
    <3>1. k = r + 2 * h + 2
      BY <1>1, <2>1, <2>3
    <3> HIDE DEF d
    <3>2. (k - r + 1) \div 2 = h + 1 /\ (k - r) \div 2 = h + 1
      BY <1>1, <2>1, <3>1
    <3>3. k - 1 > r /\ (k - 1 - r + 1) \div 2 = h + 1 /\ (k - 1 - r) \div 2 = h
      BY <1>1, <2>1, <3>1
    <3>5. MergedLen(l, p, k) = n + h + 1 /\ MergedIt(l, p, k) = n + h + 2
      BY <1>1, <1>2, <1>4, <2>1, <3>2
    <3>6. MergedLen(l, p, k - 1) = n + h + 1 /\ MergedIt(l, p, k - 1) = n + h + 1
      BY <1>1, <1>2, <2>1, <3>1, <3>3
    <3> QED
      BY <1>1, <2>1, <3>1, <3>5, <3>6 DEF r, n
  <2> QED
    BY <2>1, <2>2, <2>3
<1> QED
  BY <1>1, <1>3, <1>4

(* The entries of k iterations are entries of the log or of the batch.     *)
LEMMA MergedLogType ==
  ASSUME NEW E, NEW l \in Seq(E), NEW es \in Seq(E), NEW p \in 1..Len(l), NEW k \in 0..Len(es)
  PROVE  /\ MergedLog(l, es, p, k) \in Seq(E) /\ Len(MergedLog(l, es, p, k)) = MergedLen(l, p, k)
         /\ \A j \in 1..MergedLen(l, p, k) : MergedLog(l, es, p, k)[j] = MergedAt(l, es, p, k, j)
<1> DEFINE r == Room(l, p)
           n == Len(l)
           m == MergedLen(l, p, k)
<1>1. r \in Nat /\ r >= 1 /\ p + r = n + 1 /\ n \in Nat /\ p \in Nat /\ p >= 1 /\ k \in Nat /\ Len(es) \in Nat
      /\ k <= Len(es)
  BY DEF Room
<1>2. m \in Nat /\ (m = n \/ (k > r /\ 2 * (m - n) <= k - r + 1))
  <2>1. CASE k <= r
    BY <1>1, <2>1 DEF MergedLen
  <2>2. CASE k > r
    <3> DEFINE h == (k - r + 1) \div 2
    <3>1. m = n + h
      BY <1>1, <2>2 DEF MergedLen
    <3>2. h \in Nat /\ 2 * h <= k - r + 1
      <4> HIDE DEF r
      <4> QED BY <1>1, <2>2
    <3> HIDE DEF h, m, r, n
    <3> QED
      BY <1>1, <2>2, <3>1, <3>2
  <2> QED
    <3> HIDE DEF m, r
    <3> QED BY <1>1, <2>1, <2>2
<1> HIDE DEF m
<1>3. ASSUME NEW j \in 1..m PROVE MergedAt(l, es, p, k, j) \in E
  <2>1. CASE j <= n /\ (j < p \/ j >= p + k)
    BY <1>2, <2>1 DEF MergedAt
  <2>2. CASE j <= n /\ ~(j < p \/ j >= p + k)
    <3>1. j \in 1..n /\ (j - p + 1) \in 1..Len(es)
      BY <1>1, <1>2, <2>2
    <3> QED
      BY <2>2, <3>1 DEF MergedAt, Over
  <2>3. CASE j > n
    <3> DEFINE second == r + 2 * (j - n)
    <3>1. second - 1 \in 1..Len(es) /\ (second <= k => second \in 1..Len(es))
      <4> HIDE DEF r, n
      <4> QED BY <1>1, <1>2, <2>3
    <3>2. MergedAt(l, es, p, k, j) = IF second <= k THEN Over(es[second - 1], es[second]) ELSE es[second - 1]
      BY <1>1, <1>2, <2>3 DEF MergedAt, Second
    <3> HIDE DEF second
    <3> QED
      BY <3>1, <3>2 DEF Over
  <2> QED
    BY <1>1, <1>2, <2>1, <2>2, <2>3
<1>4. MergedLog(l, es, p, k) = [j \in 1..m |-> MergedAt(l, es, p, k, j)]
  BY DEF MergedLog, m
<1>5. [j \in 1..m |-> MergedAt(l, es, p, k, j)] \in [1..m -> E]
  BY <1>3
<1>6. MergedLog(l, es, p, k) \in Seq(E)
  BY <1>2, <1>4, <1>5, SeqDef
<1>7. Len(MergedLog(l, es, p, k)) = m
  <2>1. DOMAIN MergedLog(l, es, p, k) = 1..m
    BY <1>4
  <2> QED
    BY <1>2, <1>6, <2>1
<1>8. \A j \in 1..m : MergedLog(l, es, p, k)[j] = MergedAt(l, es, p, k, j)
  BY <1>4
<1> QED
  BY <1>6, <1>7, <1>8 DEF m

LEMMA MergeSteps ==
  ASSUME NEW E, NEW l \in Seq(E), NEW es \in Seq(E), NEW p \in 1..Len(l), NEW k \in 1..Len(es)
  PROVE  MergeStep(Merged(l, es, p, k - 1), es[k]) = Merged(l, es, p, k)
<1> DEFINE r == Room(l, p)
           n == Len(l)
           a == MergedLog(l, es, p, k - 1)
           b == MergedLog(l, es, p, k)
           i == MergedIt(l, p, k - 1)
           new == MergeStep(Merged(l, es, p, k - 1), es[k])
<1>1. r \in Nat /\ r >= 1 /\ p + r = n + 1 /\ n \in Nat /\ p \in Nat /\ p >= 1 /\ k \in Nat /\ k >= 1
  BY DEF Room
<1>2. k \in 0..Len(es) /\ k - 1 \in 0..Len(es)
  BY <1>1
<1>3. /\ a \in Seq(E) /\ Len(a) = MergedLen(l, p, k - 1)
      /\ \A j \in 1..Len(a) : a[j] = MergedAt(l, es, p, k - 1, j)
  BY <1>2, MergedLogType
<1>4. /\ b \in Seq(E) /\ Len(b) = MergedLen(l, p, k)
      /\ \A j \in 1..Len(b) : b[j] = MergedAt(l, es, p, k, j)
  BY <1>2, MergedLogType
<1>5. Merged(l, es, p, k - 1) = [log |-> a, it |-> i] /\ Merged(l, es, p, k) = [log |-> b, it |-> MergedIt(l, p, k)]
  BY DEF Merged
<1>6. new = IF i > Len(a) THEN [log |-> Append(a, es[k]), it |-> i]
            ELSE IF SameEntry(a[i], es[k]) THEN [log |-> a, it |-> i + 1]
            ELSE [log |-> [a EXCEPT ![i] = es[k]], it |-> i + 1]
  <2> DEFINE m == Merged(l, es, p, k - 1)
  <2>1. m.log = a /\ m.it = i
    BY DEF Merged
  <2> HIDE DEF m, a, i
  <2> QED
    BY <2>1 DEF MergeStep, m
<1> HIDE DEF a, b, i, new, r, n
<1>7. \A j \in Nat : MergedAt(l, es, p, k, j) =
        IF j <= n THEN IF j < p \/ j >= p + k THEN l[j] ELSE Over(l[j], es[j - p + 1])
        ELSE IF Second(l, p, j) <= k THEN Over(es[Second(l, p, j) - 1], es[Second(l, p, j)])
             ELSE es[Second(l, p, j) - 1]
  BY DEF MergedAt, n
<1>8. \A j \in Nat : MergedAt(l, es, p, k - 1, j) =
        IF j <= n THEN IF j < p \/ j >= p + (k - 1) THEN l[j] ELSE Over(l[j], es[j - p + 1])
        ELSE IF Second(l, p, j) <= k - 1 THEN Over(es[Second(l, p, j) - 1], es[Second(l, p, j)])
             ELSE es[Second(l, p, j) - 1]
  BY DEF MergedAt, n
<1>0. \A j \in Nat : Second(l, p, j) = r + 2 * (j - n)
  BY DEF Second, r, n
(* An iteration that lays es[k] over the entry at the iterator.            *)
<1>9. ASSUME i \in 1..Len(a), Len(b) = Len(a), MergedIt(l, p, k) = i + 1,
             b[i] = Over(a[i], es[k]), \A j \in 1..Len(a) : j # i => b[j] = a[j]
      PROVE  new = [log |-> b, it |-> MergedIt(l, p, k)]
  <2>1. CASE SameEntry(a[i], es[k])
    <3>1. \A j \in 1..Len(a) : b[j] = a[j]
      BY <1>9, <2>1 DEF Over
    <3>2. b = a
      BY <1>3, <1>4, <1>9, <3>1, SeqEqual
    <3> QED
      BY <1>3, <1>6, <1>9, <2>1, <3>2
  <2>2. CASE ~SameEntry(a[i], es[k])
    <3> DEFINE c == [a EXCEPT ![i] = es[k]]
    <3>1. c \in Seq(E) /\ Len(c) = Len(a) /\ \A j \in 1..Len(a) : c[j] = IF j = i THEN es[k] ELSE a[j]
      BY <1>3, <1>9, ExceptSeq
    <3> HIDE DEF c
    <3>2. \A j \in 1..Len(a) : b[j] = c[j]
      BY <1>9, <2>2, <3>1 DEF Over
    <3>3. b = c
      BY <1>3, <1>4, <1>9, <3>1, <3>2, SeqEqual
    <3> QED
      BY <1>3, <1>6, <1>9, <2>2, <3>3 DEF c
  <2> QED
    BY <2>1, <2>2
<1>10. ASSUME k <= r, MergedLen(l, p, k - 1) = n, MergedLen(l, p, k) = n,
              i = p + k - 1, MergedIt(l, p, k) = p + k
       PROVE  new = [log |-> b, it |-> MergedIt(l, p, k)]
  <2>1. i \in 1..Len(a) /\ Len(b) = Len(a) /\ MergedIt(l, p, k) = i + 1 /\ Len(a) = n
    BY <1>1, <1>3, <1>4, <1>10
  <2>2. b[i] = Over(a[i], es[k])
    <3>2. i - p + 1 = k /\ ~(i < p \/ i >= p + k) /\ i >= p + (k - 1) /\ i <= n /\ i \in Nat
      BY <1>1, <1>10, <2>1
    <3>1. a[i] = l[i]
      BY <1>3, <1>8, <2>1, <3>2
    <3>3. b[i] = Over(l[i], es[k])
      BY <1>4, <1>7, <2>1, <3>2
    <3> QED
      BY <3>1, <3>3
  <2>3. ASSUME NEW j \in 1..Len(a), j # i PROVE b[j] = a[j]
    <3>1. j <= n /\ j \in Nat /\ ((j < p \/ j >= p + k) <=> (j < p \/ j >= p + (k - 1)))
      BY <1>1, <1>10, <2>1, <2>3
    <3> QED
      BY <1>3, <1>4, <1>7, <1>8, <2>1, <3>1
  <2> QED
    BY <1>9, <2>1, <2>2, <2>3
<1>11. ASSUME NEW h \in Nat, k = r + 2 * h + 1,
              MergedLen(l, p, k - 1) = n + h, MergedLen(l, p, k) = n + h + 1,
              i = n + h + 1, MergedIt(l, p, k) = n + h + 1
       PROVE  new = [log |-> b, it |-> MergedIt(l, p, k)]
  <2>1. i > Len(a) /\ Len(b) = Len(a) + 1 /\ Len(a) = n + h /\ i = Len(b)
    BY <1>1, <1>3, <1>4, <1>11
  <2> DEFINE c == Append(a, es[k])
  <2>2. c \in Seq(E) /\ Len(c) = Len(a) + 1 /\ \A j \in 1..Len(c) : c[j] = IF j = Len(a) + 1 THEN es[k] ELSE a[j]
    BY <1>3
  <2> HIDE DEF c
  <2>3. b[n + h + 1] = es[k]
    <3>1. n + h + 1 \in Nat /\ ~(n + h + 1 <= n) /\ Second(l, p, n + h + 1) - 1 = k
          /\ ~(Second(l, p, n + h + 1) <= k)
      BY <1>0, <1>1, <1>11
    <3>2. n + h + 1 \in 1..Len(b)
      BY <1>1, <2>1
    <3> QED
      BY <1>4, <1>7, <3>1, <3>2
  <2>4. ASSUME NEW j \in 1..(n + h) PROVE b[j] = a[j]
    <3>1. j \in 1..Len(a) /\ j \in 1..Len(b) /\ j \in Nat
      BY <1>1, <2>1
    <3>2. CASE j <= n
      <4>1. (j < p \/ j >= p + k) <=> (j < p \/ j >= p + (k - 1))
        BY <1>1, <1>11, <3>1, <3>2
      <4> QED
        BY <1>3, <1>4, <1>7, <1>8, <3>1, <3>2, <4>1
    <3>3. CASE ~(j <= n)
      <4>1. Second(l, p, j) <= k - 1 /\ Second(l, p, j) <= k
        <5>1. Second(l, p, j) = r + 2 * (j - n)
          BY <1>0, <3>1
        <5>2. j - n \in Int /\ j - n <= h
          BY <1>1, <3>1
        <5>3. r + 2 * (j - n) <= k - 1 /\ r + 2 * (j - n) <= k
          BY <1>1, <1>11, <5>2
        <5> QED
          BY <5>1, <5>3
      <4>2. a[j] = Over(es[Second(l, p, j) - 1], es[Second(l, p, j)])
        <5>1. a[j] = MergedAt(l, es, p, k - 1, j)
          BY <1>3, <3>1
        <5> QED
          BY <1>8, <3>1, <3>3, <4>1, <5>1
      <4>3. b[j] = Over(es[Second(l, p, j) - 1], es[Second(l, p, j)])
        <5>1. b[j] = MergedAt(l, es, p, k, j)
          BY <1>4, <3>1
        <5> QED
          BY <1>7, <3>1, <3>3, <4>1, <5>1
      <4> QED
        BY <4>2, <4>3
    <3> QED
      BY <3>2, <3>3
  <2>5. \A j \in 1..Len(b) : b[j] = c[j]
    <3> SUFFICES ASSUME NEW j \in 1..Len(b) PROVE b[j] = c[j]
      OBVIOUS
    <3>1. j = n + h + 1 \/ (j \in 1..(n + h) /\ j # n + h + 1)
      BY <1>1, <2>1
    <3>2. j \in 1..Len(c) /\ Len(a) + 1 = n + h + 1
      BY <2>1, <2>2
    <3> QED
      BY <2>2, <2>3, <2>4, <3>1, <3>2
  <2>6. b = c
    BY <1>4, <2>1, <2>2, <2>5, SeqEqual
  <2>7. new = [log |-> c, it |-> i]
    BY <1>6, <2>1 DEF c
  <2> QED
    BY <1>11, <2>6, <2>7
<1>12. ASSUME NEW h \in Nat, k = r + 2 * h + 2,
              MergedLen(l, p, k - 1) = n + h + 1, MergedLen(l, p, k) = n + h + 1,
              i = n + h + 1, MergedIt(l, p, k) = n + h + 2
       PROVE  new = [log |-> b, it |-> MergedIt(l, p, k)]
  <2>1. i \in 1..Len(a) /\ Len(b) = Len(a) /\ MergedIt(l, p, k) = i + 1 /\ Len(a) = n + h + 1
    BY <1>1, <1>3, <1>4, <1>12
  <2>2. b[i] = Over(a[i], es[k])
    <3>1. i \in Nat /\ ~(i <= n) /\ Second(l, p, i) = k /\ Second(l, p, i) <= k /\ ~(Second(l, p, i) <= k - 1)
      BY <1>0, <1>1, <1>12
    <3>2. a[i] = es[Second(l, p, i) - 1]
      BY <1>3, <1>8, <2>1, <3>1
    <3>3. b[i] = Over(es[Second(l, p, i) - 1], es[Second(l, p, i)])
      BY <1>4, <1>7, <2>1, <3>1
    <3> QED
      BY <3>1, <3>2, <3>3
  <2>3. ASSUME NEW j \in 1..Len(a), j # i PROVE b[j] = a[j]
    <3>1. j \in 1..Len(b) /\ j \in Nat
      BY <2>1
    <3>2. CASE j <= n
      <4>1. (j < p \/ j >= p + k) <=> (j < p \/ j >= p + (k - 1))
        BY <1>1, <1>12, <3>1, <3>2
      <4> QED
        BY <1>3, <1>4, <1>7, <1>8, <3>1, <3>2, <4>1
    <3>3. CASE ~(j <= n)
      <4>1. Second(l, p, j) <= k - 1 /\ Second(l, p, j) <= k
        BY <1>0, <1>1, <1>12, <2>1, <2>3, <3>1, <3>3
      <4> QED
        BY <1>3, <1>4, <1>7, <1>8, <3>1, <3>3, <4>1
    <3> QED
      BY <3>2, <3>3
  <2> QED
    BY <1>9, <2>1, <2>2, <2>3
<1>13. Len(l) \in Nat
  OBVIOUS
<1>14. \/ /\ k <= r
          /\ MergedLen(l, p, k - 1) = n /\ MergedLen(l, p, k) = n
          /\ i = p + k - 1 /\ MergedIt(l, p, k) = p + k
       \/ \E h \in Nat :
            /\ k = r + 2 * h + 1
            /\ MergedLen(l, p, k - 1) = n + h /\ MergedLen(l, p, k) = n + h + 1
            /\ i = n + h + 1 /\ MergedIt(l, p, k) = n + h + 1
       \/ \E h \in Nat :
            /\ k = r + 2 * h + 2
            /\ MergedLen(l, p, k - 1) = n + h + 1 /\ MergedLen(l, p, k) = n + h + 1
            /\ i = n + h + 1 /\ MergedIt(l, p, k) = n + h + 2
  BY <1>1, <1>13, MergeCounts DEF r, n, i
<1>15. new = [log |-> b, it |-> MergedIt(l, p, k)]
  BY <1>10, <1>11, <1>12, <1>14
<1> QED
  BY <1>5, <1>15 DEF new

(* The whole of the for loop and the erase after it are LayOver.           *)
LEMMA MergeLoopIs ==
  ASSUME NEW E, NEW l \in Seq(E), NEW es \in Seq(E), NEW p \in 1..Len(l)
  PROVE  MergeLoop(l, es, p) = LayOver(l, es, p)
<1> DEFINE n == Len(es)
           f == [k \in 0..n |-> Merged(l, es, p, k)]
           g == CHOOSE h : MergesBy(h, l, es, p)
<1>0. MergeLoop(l, es, p) = SubSeq(g[n].log, 1, g[n].it - 1)
  BY DEF MergeLoop, MergesBy, MergeStep
<1>1. n \in Nat
  OBVIOUS
<1>2. f[0] = [log |-> l, it |-> p]
  <2>1. MergedLen(l, p, 0) = Len(l) /\ MergedIt(l, p, 0) = p
    BY DEF MergedLen, MergedIt, Room
  <2>2. \A j \in 1..Len(l) : MergedAt(l, es, p, 0, j) = l[j]
    <3> SUFFICES ASSUME NEW j \in 1..Len(l) PROVE MergedAt(l, es, p, 0, j) = l[j]
      OBVIOUS
    <3>1. j <= Len(l) /\ (j < p \/ j >= p + 0)
      OBVIOUS
    <3> QED
      BY <3>1 DEF MergedAt
  <2>3. MergedLog(l, es, p, 0) = l
    <3>1. 0 \in 0..n
      BY <1>1
    <3>2. MergedLog(l, es, p, 0) \in Seq(E) /\ Len(MergedLog(l, es, p, 0)) = Len(l)
          /\ \A j \in 1..Len(l) : MergedLog(l, es, p, 0)[j] = MergedAt(l, es, p, 0, j)
      BY <2>1, <3>1, MergedLogType
    <3> DEFINE a == MergedLog(l, es, p, 0)
    <3> HIDE DEF a
    <3>3. a = l
      BY <2>2, <3>2, SeqEqual DEF a
    <3> QED
      BY <3>3 DEF a
  <2>4. 0 \in 0..n
    BY <1>1
  <2> QED
    BY <2>1, <2>3, <2>4 DEF Merged
<1>3. \A k \in 1..n : f[k] = MergeStep(f[k - 1], es[k])
  <2> SUFFICES ASSUME NEW k \in 1..n PROVE f[k] = MergeStep(f[k - 1], es[k])
    OBVIOUS
  <2>1. k \in 0..n /\ k - 1 \in 0..n
    BY <1>1
  <2> QED
    BY <2>1, MergeSteps
<1>4. f = [k \in 0..n |-> f[k]] /\ f[n] = Merged(l, es, p, n)
  BY <1>1
<1> HIDE DEF f
<1>5. MergesBy(f, l, es, p)
  <2>1. \A k \in 0..n : f[k] = IF k = 0 THEN [log |-> l, it |-> p] ELSE MergeStep(f[k - 1], es[k])
    <3> SUFFICES ASSUME NEW k \in 0..n
                 PROVE  f[k] = IF k = 0 THEN [log |-> l, it |-> p] ELSE MergeStep(f[k - 1], es[k])
      OBVIOUS
    <3>1. k = 0 \/ (k \in 1..n /\ k # 0)
      BY <1>1
    <3> QED
      BY <1>2, <1>3, <3>1
  <2> QED
    BY <1>4, <2>1 DEF MergesBy, n
<1>6. MergesBy(g, l, es, p)
  BY <1>5
<1> HIDE DEF g
<1>7. /\ g = [k \in 0..n |-> g[k]] /\ g[0] = [log |-> l, it |-> p]
      /\ \A k \in 1..n : g[k] = MergeStep(g[k - 1], es[k])
  <2>1. g = [k \in 0..n |-> IF k = 0 THEN [log |-> l, it |-> p] ELSE MergeStep(g[k - 1], es[k])]
    BY <1>6 DEF MergesBy, n
  <2> HIDE DEF n
  <2>2. \A k \in 0..n : g[k] = IF k = 0 THEN [log |-> l, it |-> p] ELSE MergeStep(g[k - 1], es[k])
    BY <2>1
  <2>3. g = [k \in 0..n |-> g[k]]
    BY <2>1, <2>2
  <2>4. 0 \in 0..n /\ \A k \in 1..n : k \in 0..n /\ k # 0
    BY <1>1
  <2> QED
    BY <2>2, <2>3, <2>4
<1> HIDE DEF n
<1>8. StepAlike(f, g, n)
  BY <1>2, <1>3, <1>7 DEF StepAlike
<1>9. f = g
  <2>1. Iterations(f, n) /\ Iterations(g, n)
    BY <1>4, <1>7 DEF Iterations
  <2> QED
    BY <1>1, <1>8, <2>1, SameIterations
<1> DEFINE r == Room(l, p)
           a == MergedLog(l, es, p, n)
           last == MergedIt(l, p, n) - 1
           b == LayOver(l, es, p)
<1>10. MergeLoop(l, es, p) = SubSeq(a, 1, last)
  <2>0. g[n] = Merged(l, es, p, n)
    BY <1>4, <1>9
  <2>1. g[n].log = a /\ g[n].it = MergedIt(l, p, n)
    BY <2>0 DEF Merged
  <2> HIDE DEF a
  <2> QED
    BY <1>0, <2>1
<1>11. /\ a \in Seq(E) /\ Len(a) = MergedLen(l, p, n)
       /\ \A j \in 1..Len(a) : a[j] = MergedAt(l, es, p, n, j)
  BY <1>1, MergedLogType DEF n
<1>12. /\ r \in Nat /\ r >= 1 /\ p + r = Len(l) + 1 /\ Len(l) \in Nat /\ p \in Nat /\ p >= 1
       /\ r = Len(l) - p + 1
  BY DEF Room
<1> DEFINE s == IF n > r THEN (n - r) \div 2 ELSE 0
           shared == IF n < r THEN n ELSE r
<1>13. /\ s \in Nat /\ shared \in Nat /\ 2 * s <= (IF n > r THEN n - r ELSE 0)
       /\ shared <= r /\ shared <= n /\ (n > r => shared = r) /\ (~(n > r) => shared = n /\ s = 0)
  BY <1>1, <1>12
<1>14. last = p - 1 + shared + s /\ last \in Nat
  <2>1. CASE n > r
    <3>1. MergedIt(l, p, n) = Len(l) + 1 + s /\ shared = r
      BY <1>1, <1>12, <2>1 DEF MergedIt
    <3> HIDE DEF s, shared, r
    <3> QED
      BY <1>12, <1>13, <3>1
  <2>2. CASE ~(n > r)
    <3>1. MergedIt(l, p, n) = p + n /\ shared = n /\ s = 0
      BY <1>1, <1>12, <1>13, <2>2 DEF MergedIt
    <3> HIDE DEF s, shared, r
    <3> QED
      BY <1>1, <1>12, <3>1
  <2> QED
    BY <2>1, <2>2
<1>15. last <= Len(a)
  <2>1. CASE n > r
    <3>0. MergedLen(l, p, n) = Len(l) + (n - r + 1) \div 2
      <4> HIDE DEF s, last, a
      <4>1. ~(n <= r)
        <5> HIDE DEF r
        <5> QED BY <1>1, <1>12, <2>1
      <4> QED
        BY <4>1 DEF MergedLen
    <3>1. MergedLen(l, p, n) = Len(l) + (n - r + 1) \div 2 /\ last = Len(l) + s
      <4> HIDE DEF s, last, a, shared, r
      <4> QED BY <1>1, <1>12, <1>13, <1>14, <2>1, <3>0
    <3>2. s <= (n - r + 1) \div 2
      <4> HIDE DEF r
      <4> QED BY <1>1, <1>12, <2>1
    <3> HIDE DEF s, r, a, last
    <3>3. (n - r + 1) \div 2 \in Nat
      BY <1>1, <1>12, <2>1
    <3> QED
      BY <1>11, <1>12, <1>13, <3>1, <3>2, <3>3
  <2>2. CASE ~(n > r)
    <3>1. MergedLen(l, p, n) = Len(l)
      BY <1>1, <1>12, <2>2 DEF MergedLen
    <3> HIDE DEF s, shared, r, a, last
    <3> QED
      BY <1>1, <1>11, <1>12, <1>13, <1>14, <2>2, <3>1
  <2> QED
    BY <2>1, <2>2
<1>16. b = [j \in 1..last |->
              IF j < p THEN l[j]
              ELSE IF j < p + shared THEN Over(l[j], es[j - p + 1])
              ELSE Over(es[Second(l, p, j) - 1], es[Second(l, p, j)])]
  <2>1. \A j \in 1..last : Second(l, p, j) = r + 2 * (j - p - r + 1)
    <3> HIDE DEF last
    <3> QED BY <1>12, <1>14 DEF Second
  <2> DEFINE second(j) == r + 2 * (j - p - r + 1)
             at(j) == IF j < p THEN l[j]
                      ELSE IF j < p + shared THEN Over(l[j], es[j - p + 1])
                      ELSE Over(es[second(j) - 1], es[second(j)])
  <2>2. b = [j \in 1..(p - 1 + shared + s) |-> at(j)]
    BY DEF LayOver, Room, n
  <2>3. \A j \in 1..last : at(j) = IF j < p THEN l[j]
                                  ELSE IF j < p + shared THEN Over(l[j], es[j - p + 1])
                                  ELSE Over(es[Second(l, p, j) - 1], es[Second(l, p, j)])
    <3> HIDE DEF shared, s, r, last
    <3> SUFFICES ASSUME NEW j \in 1..last
                 PROVE  at(j) = IF j < p THEN l[j]
                                ELSE IF j < p + shared THEN Over(l[j], es[j - p + 1])
                                ELSE Over(es[Second(l, p, j) - 1], es[Second(l, p, j)])
      OBVIOUS
    <3>1. second(j) = Second(l, p, j)
      BY <2>1
    <3> HIDE DEF second
    <3> QED
      BY <3>1
  <2> HIDE DEF b, shared, s, r, last, at
  <2> QED
    BY <1>14, <2>2, <2>3
<1>17. b \in Seq(E) /\ Len(b) = last
  <2>1. b \in Seq(E)
    BY LayOverType
  <2>2. DOMAIN b = 1..last
    <3> HIDE DEF b, last, shared
    <3> QED BY <1>16
  <2> HIDE DEF b, last
  <2> QED
    BY <1>14, <2>1, <2>2
<1> HIDE DEF a, b, last, s, shared, r
<1>18. ASSUME NEW j \in 1..last PROVE b[j] = a[j]
  <2>0. j \in Nat /\ j >= 1 /\ j \in 1..Len(a) /\ j <= last /\ Len(a) \in Nat
    BY <1>11, <1>14, <1>15
  <2>1. a[j] = IF j <= Len(l) THEN IF j < p \/ j >= p + n THEN l[j] ELSE Over(l[j], es[j - p + 1])
               ELSE IF Second(l, p, j) <= n THEN Over(es[Second(l, p, j) - 1], es[Second(l, p, j)])
               ELSE es[Second(l, p, j) - 1]
    BY <1>11, <2>0 DEF MergedAt
  <2>2. b[j] = IF j < p THEN l[j]
               ELSE IF j < p + shared THEN Over(l[j], es[j - p + 1])
               ELSE Over(es[Second(l, p, j) - 1], es[Second(l, p, j)])
    BY <1>16
  <2>3. CASE j < p
    <3>1. j <= Len(l)
      BY <1>12, <2>0, <2>3
    <3> QED
      BY <2>1, <2>2, <2>3, <3>1
  <2>4. CASE ~(j < p) /\ j < p + shared
    <3>1. j <= Len(l) /\ ~(j < p \/ j >= p + n)
      BY <1>1, <1>12, <1>13, <2>0, <2>4
    <3> QED
      BY <2>1, <2>2, <2>4, <3>1
  <2>5. CASE ~(j < p) /\ ~(j < p + shared)
    <3>1. n > r /\ shared = r
      BY <1>1, <1>12, <1>13, <1>14, <2>0, <2>5
    <3>2. ~(j <= Len(l)) /\ Second(l, p, j) = r + 2 * (j - Len(l))
      BY <1>12, <2>0, <2>5, <3>1 DEF Second, r
    <3>3. Second(l, p, j) <= n
      BY <1>1, <1>12, <1>13, <1>14, <2>0, <3>1, <3>2
    <3> QED
      BY <2>1, <2>2, <2>5, <3>2, <3>3
  <2> QED
    BY <2>3, <2>4, <2>5
<1>19. SubSeq(a, 1, last) \in Seq(E) /\ Len(SubSeq(a, 1, last)) = last
       /\ \A j \in 1..last : SubSeq(a, 1, last)[j] = a[j]
  BY <1>11, <1>14, <1>15
<1> DEFINE c == SubSeq(a, 1, last)
<1> HIDE DEF c
<1>20. c = b
  BY <1>17, <1>18, <1>19, SeqEqual DEF c
<1> QED
  BY <1>10, <1>20 DEF b, c

(* The closed form of Append of a batch is what its loops compute.         *)
LEMMA AppendLoopsAre ==
  ASSUME NEW E, NEW l \in Seq(E), NEW es \in Seq(E)
  PROVE  AppendBatch(l, es) = AppendLoops(l, es)
<1>1. CASE PushesAll(l, es)
  <2>1. l = <<>> \/ es[1].index = l[Len(l)].index + 1
    BY <1>1 DEF PushesAll, GetLastLogIndex
  <2> QED
    BY <1>1, <2>1, PushLoopIs DEF AppendBatch, AppendLoops
<1>2. CASE ~PushesAll(l, es)
  <2>1. ~(l = <<>> \/ es[1].index = l[Len(l)].index + 1)
    BY <1>2 DEF PushesAll, GetLastLogIndex
  <2> DEFINE at == FindFirstSame(l, es[1])
  <2>2. AppendLoops(l, es) = IF at > Len(l) THEN l ELSE MergeLoop(l, es, at)
    BY <2>1 DEF AppendLoops
  <2>3. at = IF SamePositions(l, es[1]) = {} THEN Len(l) + 1 ELSE FirstSame(l, es[1])
    BY FindFirstSameIs
  <2> HIDE DEF at
  <2>4. CASE SamePositions(l, es[1]) = {}
    <3>1. at > Len(l)
      BY <2>3, <2>4
    <3>2. ~Accepts(l, es)
      BY <1>2, <2>4 DEF Accepts
    <3> QED
      BY <1>2, <2>2, <3>1, <3>2 DEF AppendBatch
  <2>5. CASE SamePositions(l, es[1]) # {}
    <3>1. FirstSame(l, es[1]) \in 1..Len(l)
      BY <2>5, FirstSameType
    <3>2. at = FirstSame(l, es[1]) /\ at \in 1..Len(l)
      BY <2>3, <2>5, <3>1
    <3>3. ~(at > Len(l))
      BY <3>2
    <3>4. AppendLoops(l, es) = LayOver(l, es, at)
      BY <2>2, <3>2, <3>3, MergeLoopIs
    <3>5. Accepts(l, es)
      BY <2>5 DEF Accepts
    <3> QED
      BY <1>2, <3>2, <3>4, <3>5 DEF AppendBatch
  <2> QED
    BY <2>4, <2>5
<1> QED
  BY <1>1, <1>2

-----------------------------------------------------------------------------
(* Logs in order                                                           *)

(* Indexes that do not decrease from one entry to the next do not decrease *)
(* at all.                                                                 *)
LEMMA InOrderThroughout ==
  ASSUME NEW Cmd, NEW l \in Seq(Entries(Cmd)), InOrder(l), NEW j \in 1..Len(l), NEW k \in j..Len(l)
  PROVE  l[j].index <= l[k].index
<1> DEFINE B == {q \in Nat : q >= j /\ q <= Len(l) /\ ~(l[j].index <= l[q].index)}
<1>1. \A q \in 1..Len(l) : l[q].index \in Nat
  <2>1. \A q \in 1..Len(l) : l[q] \in Entries(Cmd)
    OBVIOUS
  <2> QED
    BY <2>1 DEF Entries
<1>2. j \in Nat /\ k \in Nat /\ Len(l) \in Nat /\ j >= 1 /\ k >= j /\ k <= Len(l)
  OBVIOUS
<1>3. B = {}
  <2> SUFFICES ASSUME B # {} PROVE FALSE
    OBVIOUS
  <2>1. B \in SUBSET Nat
    OBVIOUS
  <2>2. PICK m \in B : \A q \in B : m <= q
    <3> HIDE DEF B
    <3> QED BY <2>1, SmallestExists
  <2>3. m # j /\ m \in 1..Len(l) /\ m >= j
    BY <1>1, <1>2
  <2>4. m - 1 \notin B
    <3> HIDE DEF B
    <3> QED BY <2>1, <2>2, <2>3
  <2>5. m - 1 \in 1..Len(l) /\ m - 1 >= j /\ m \in 2..Len(l)
    BY <1>2, <2>3
  <2>6. l[j].index <= l[m - 1].index
    BY <2>4, <2>5
  <2>7. l[m - 1].index <= l[m].index
    BY <2>5 DEF InOrder
  <2>8. l[j].index <= l[m].index
    <3>1. l[j].index \in Nat /\ l[m - 1].index \in Nat /\ l[m].index \in Nat
      BY <1>1, <2>3, <2>5
    <3> QED
      BY <2>6, <2>7, <3>1
  <2> QED
    BY <2>8
<1> QED
  BY <1>2, <1>3

(* On such a log the halving search finds the first entry beyond the index *)
(* it is given.                                                            *)
LEMMA LowerBoundInOrder ==
  ASSUME NEW Cmd, NEW l \in Seq(Entries(Cmd)), InOrder(l), NEW i \in Nat
  PROVE  {k \in 1..Len(l) : l[k].index <= i} = 1..(LowerBound(l, i) - 1)
<1> DEFINE b == LowerBound(l, i)
<1>1. /\ b \in 1..(Len(l) + 1) /\ (b = 1 \/ l[b - 1].index <= i)
      /\ (b = Len(l) + 1 \/ ~(l[b].index <= i))
  BY LowerBoundEnds DEF EndsAround
<1> HIDE DEF b
<1>2. \A q \in 1..Len(l) : l[q].index \in Nat
  <2>1. \A q \in 1..Len(l) : l[q] \in Entries(Cmd)
    OBVIOUS
  <2> QED
    BY <2>1 DEF Entries
<1>3. ASSUME NEW k \in 1..Len(l) PROVE l[k].index <= i <=> k \in 1..(b - 1)
  <2>1. CASE k <= b - 1
    <3>1. b - 1 \in 1..Len(l) /\ b - 1 \in k..Len(l) /\ b # 1
      BY <1>1, <2>1
    <3>2. l[k].index <= l[b - 1].index
      BY <3>1, InOrderThroughout
    <3>3. l[b - 1].index <= i
      BY <1>1, <3>1
    <3>4. l[k].index <= i
      BY <1>2, <3>1, <3>2, <3>3
    <3> QED
      BY <1>1, <2>1, <3>4
  <2>2. CASE ~(k <= b - 1)
    <3>1. b \in 1..Len(l) /\ k \in b..Len(l) /\ b # Len(l) + 1
      BY <1>1, <2>2
    <3>2. l[b].index <= l[k].index
      BY <3>1, InOrderThroughout
    <3>3. ~(l[b].index <= i)
      BY <1>1, <3>1
    <3>4. ~(l[k].index <= i)
      BY <1>2, <3>1, <3>2, <3>3
    <3> QED
      BY <1>1, <2>2, <3>4
  <2> QED
    BY <2>1, <2>2
<1>4. 1..(b - 1) \subseteq 1..Len(l)
  BY <1>1
<1>5. {k \in 1..Len(l) : l[k].index <= i} = 1..(b - 1)
  BY <1>3, <1>4
<1> QED
  BY <1>5 DEF b

(* The entries shipped are the last ones of the log, in their order.       *)
LEMMA ShippedAre ==
  ASSUME NEW E, NEW l \in Seq(E), NEW i, NEW k \in 1..Len(GetEntriesStartAt(l, i))
  PROVE  \E q \in 1..Len(l) : GetEntriesStartAt(l, i)[k] = l[q]
<1> DEFINE b == LowerBound(l, i)
<1>1. b \in 1..(Len(l) + 1)
  BY LowerBoundEnds
<1> HIDE DEF b
<1>2. GetEntriesStartAt(l, i) = SubSeq(l, b, Len(l))
  BY DEF GetEntriesStartAt, b
<1>3. Len(SubSeq(l, b, Len(l))) = Len(l) - b + 1
  BY <1>1
<1>4. k \in 1..(Len(l) - b + 1)
  BY <1>2, <1>3
<1>5. SubSeq(l, b, Len(l))[k] = l[b + k - 1]
  BY <1>1, <1>4
<1>6. b + k - 1 \in 1..Len(l)
  BY <1>1, <1>4
<1> QED
  BY <1>2, <1>5, <1>6

-----------------------------------------------------------------------------
(* The two logs                                                            *)

(* Both are logs of numbered commands.                                     *)
LogsTypeOK == log \in [Replica -> Seq(Entries(Nat))] /\ last_op \in Nat

LEMMA LogsTypeStep ==
  ASSUME LogsTypeOK, [Next]_vars
  PROVE  LogsTypeOK'
<1>1. CASE UNCHANGED vars
  BY <1>1 DEF LogsTypeOK, vars
<1>2. ASSUME NEW r \in Replica, NEW t \in OwnTerms(r), OwnAppend(r, t) PROVE LogsTypeOK'
  <2>1. t \in Nat /\ last_op + 1 \in Nat
    BY Bounds DEF OwnTerms, LogsTypeOK
  <2>2. log[r] \in Seq(Entries(Nat))
    BY DEF LogsTypeOK
  <2>3. AppendOne(log[r], t, last_op + 1) \in Seq(Entries(Nat))
    BY <2>1, <2>2, AppendOneType
  <2> QED
    BY <1>2, <2>1, <2>3 DEF OwnAppend, LogsTypeOK
<1>3. ASSUME NEW r \in Replica, NEW s \in Replica, NEW p, Ship(r, s, p) PROVE LogsTypeOK'
  <2>1. log[r] \in Seq(Entries(Nat)) /\ log[s] \in Seq(Entries(Nat))
    BY DEF LogsTypeOK
  <2>2. GetEntriesStartAt(log[r], p) \in Seq(Entries(Nat))
    BY <2>1, GetEntriesStartAtType
  <2>3. AppendBatch(log[s], GetEntriesStartAt(log[r], p)) \in Seq(Entries(Nat))
    BY <2>1, <2>2, AppendBatchType
  <2> QED
    BY <1>3, <2>3 DEF Ship, LogsTypeOK
<1> QED
  BY <1>1, <1>2, <1>3 DEF Next

LEMMA LogsTyped == Spec => []LogsTypeOK
<1>1. Init => LogsTypeOK
  BY EmptySeq DEF Init, LogsTypeOK
<1>2. LogsTypeOK /\ [Next]_vars => LogsTypeOK'
  BY LogsTypeStep
<1> QED
  BY <1>1, <1>2, PTL DEF Spec

(* A batch that can be shipped is never empty.                             *)
LEMMA BatchShipped ==
  ASSUME LogsTypeOK, NEW r \in Replica, NEW s, NEW p \in Starts(r, s)
  PROVE  /\ p \in Nat /\ log[r] # <<>>
         /\ GetEntriesStartAt(log[r], p) \in Seq(Entries(Nat)) /\ GetEntriesStartAt(log[r], p) # <<>>
<1>1. p \in Nat /\ p < GetLastLogIndex(log[r])
  BY Bounds DEF Starts
<1>2. log[r] # <<>>
  BY <1>1 DEF GetLastLogIndex
<1>3. log[r] \in Seq(Entries(Nat))
  BY DEF LogsTypeOK
<1>4. GetLastLogIndex(log[r]) \in Nat
  BY <1>3, LastTypes
<1>5. ~(log[r][Len(log[r])].index <= p)
  <2>1. GetLastLogIndex(log[r]) = log[r][Len(log[r])].index
    BY <1>2 DEF GetLastLogIndex
  <2> QED
    BY <1>1, <1>4, <2>1
<1> QED
  BY <1>1, <1>2, <1>3, <1>5, GetEntriesStartAtType

(* The source's loops over a batch (LogManager.cpp, Append of a batch) and *)
(* the closed form of the model are one operator on every pair of logs two *)
(* replicas can build: for any bounds.                                     *)
THEOREM LoopsAreClosedForm == Spec => []AppendIsTheLoop
<1>1. LogsTypeOK => AppendIsTheLoop
  <2> SUFFICES ASSUME LogsTypeOK, NEW r \in Replica, NEW s \in Replica, NEW p \in Starts(r, s)
               PROVE  AppendBatch(log[s], GetEntriesStartAt(log[r], p))
                        = AppendLoops(log[s], GetEntriesStartAt(log[r], p))
    BY DEF AppendIsTheLoop
  <2>1. log[s] \in Seq(Entries(Nat)) /\ GetEntriesStartAt(log[r], p) \in Seq(Entries(Nat))
    BY BatchShipped DEF LogsTypeOK
  <2> QED
    BY <2>1, AppendLoopsAre
<1> QED
  BY <1>1, LogsTyped, PTL

(* GetEntriesStartAt (LogManager.cpp) leaves out no entry after its        *)
(* argument, and none before it comes along, while the indexes are in      *)
(* order: whatever the halving search meets on its way.                    *)
THEOREM EverythingAfterIsShipped == Spec => []ShipsEverythingAfter
<1>1. LogsTypeOK => ShipsEverythingAfter
  <2> SUFFICES ASSUME LogsTypeOK, NEW r \in Replica, InOrder(log[r]), NEW i \in 0..MaxOps
               PROVE  GetEntriesStartAt(log[r], i) =
                        SubSeq(log[r], 1 + Cardinality({k \in 1..Len(log[r]) : log[r][k].index <= i}), Len(log[r]))
    BY DEF ShipsEverythingAfter
  <2> DEFINE b == LowerBound(log[r], i)
  <2>1. log[r] \in Seq(Entries(Nat)) /\ i \in Nat
    BY Bounds DEF LogsTypeOK
  <2>2. {k \in 1..Len(log[r]) : log[r][k].index <= i} = 1..(b - 1)
    BY <2>1, LowerBoundInOrder
  <2>3. b \in 1..(Len(log[r]) + 1)
    BY <2>1, LowerBoundEnds
  <2> HIDE DEF b
  <2>4. Cardinality(1..(b - 1)) = b - 1
    BY <2>3, FS_Interval
  <2>5. 1 + Cardinality({k \in 1..Len(log[r]) : log[r][k].index <= i}) = b
    <3> DEFINE S == {k \in 1..Len(log[r]) : log[r][k].index <= i}
    <3>1. S = 1..(b - 1)
      BY <2>2
    <3> HIDE DEF S
    <3>2. 1 + Cardinality(S) = b
      BY <2>3, <2>4, <3>1
    <3> QED
      BY <3>2 DEF S
  <2> QED
    BY <2>5 DEF GetEntriesStartAt, b
<1> QED
  BY <1>1, LogsTyped, PTL

(* The last_log_index a follower answers after an accepted batch           *)
(* (RaftConsensus.cpp, OnAppendEntries) is not beyond the leader's own,    *)
(* so that next_index less one stays in the leader's log.                  *)
THEOREM LastIndexIsShipped == Spec => []LastIndexWithinBatch
<1>1. LogsTypeOK => LastIndexWithinBatch
  <2> SUFFICES ASSUME LogsTypeOK, NEW r \in Replica, NEW s \in Replica, InOrder(log[r]),
                      NEW p \in Starts(r, s),
                      Accepts(log[s], GetEntriesStartAt(log[r], p))
               PROVE  GetLastLogIndex(AppendBatch(log[s], GetEntriesStartAt(log[r], p)))
                        <= GetLastLogIndex(log[r])
    BY DEF LastIndexWithinBatch
  <2> DEFINE es == GetEntriesStartAt(log[r], p)
             l == log[r]
  <2>1. l \in Seq(Entries(Nat)) /\ log[s] \in Seq(Entries(Nat)) /\ l # <<>>
        /\ es \in Seq(Entries(Nat)) /\ es # <<>>
    BY BatchShipped DEF LogsTypeOK
  <2>2. PICK k \in 1..Len(es) : GetLastLogIndex(AppendBatch(log[s], es)) = es[k].index
    <3> HIDE DEF es
    <3> QED BY <2>1, AppendBatchLast DEF es
  <2>3. PICK q \in 1..Len(l) : es[k] = l[q]
    BY <2>1, ShippedAre
  <2> HIDE DEF es, l
  <2>4. Len(l) \in q..Len(l)
    BY <2>1, <2>3
  <2>5. l[q].index <= l[Len(l)].index
    <3>1. InOrder(l)
      BY DEF l
    <3> QED
      BY <2>1, <2>3, <2>4, <3>1, InOrderThroughout
  <2>6. GetLastLogIndex(l) = l[Len(l)].index
    BY <2>1 DEF GetLastLogIndex
  <2> QED
    BY <2>2, <2>3, <2>5, <2>6 DEF es, l
<1> QED
  BY <1>1, LogsTyped, PTL

-----------------------------------------------------------------------------
(* What precedes a batch                                                   *)

(* The entry where the batch begins, and everything before it, stays.      *)
LEMMA LayOverKeeps ==
  ASSUME NEW E, NEW l \in Seq(E), NEW es \in Seq(E), es # <<>>, NEW p \in 1..Len(l),
         SameEntry(l[p], es[1]), NEW k \in 1..p
  PROVE  k <= Len(LayOver(l, es, p)) /\ LayOver(l, es, p)[k] = l[k]
<1> DEFINE room    == Len(l) - p + 1
           shared  == IF Len(es) < room THEN Len(es) ELSE room
           surplus == IF Len(es) > room THEN (Len(es) - room) \div 2 ELSE 0
           n       == p - 1 + shared + surplus
           at(j)   == room + 2 * (j - p - room + 1)
           f(j) == IF j < p THEN l[j]
                   ELSE IF j < p + shared THEN Over(l[j], es[j - p + 1])
                   ELSE Over(es[at(j) - 1], es[at(j)])
           m == LayOver(l, es, p)
<1>0. Len(l) \in Nat /\ Len(es) \in Nat /\ Len(es) >= 1 /\ p \in Nat /\ p >= 1 /\ p <= Len(l)
  OBVIOUS
<1>1. room \in Nat /\ shared \in Nat /\ surplus \in Nat /\ shared >= 1
  BY <1>0
<1>2. n \in Nat /\ k \in 1..n
  <2> HIDE DEF room, shared, surplus
  <2> QED BY <1>0, <1>1
<1>3. m = [j \in 1..n |-> f(j)]
  BY DEF LayOver
<1>4. Len(m) = n /\ m[k] = f(k)
  <2> HIDE DEF n, f, m
  <2>1. DOMAIN m = 1..n /\ m[k] = f(k)
    BY <1>2, <1>3
  <2>2. m \in Seq(E)
    BY LayOverType DEF m
  <2> QED
    BY <1>2, <2>1, <2>2
<1>5. f(k) = l[k]
  <2>1. CASE k < p
    BY <2>1
  <2>2. CASE ~(k < p)
    <3>1. k = p /\ k < p + shared /\ k - p + 1 = 1
      <4> HIDE DEF shared
      <4> QED BY <1>0, <1>1, <2>2
    <3> HIDE DEF shared
    <3>2. f(k) = Over(l[k], es[1])
      BY <2>2, <3>1
    <3> HIDE DEF f
    <3> QED
      BY <3>1, <3>2 DEF Over
  <2> QED
    BY <2>1, <2>2
<1> HIDE DEF n, f
<1> QED
  BY <1>2, <1>4, <1>5

LEMMA AppendBatchKeeps ==
  ASSUME NEW E, NEW l \in Seq(E), NEW es \in Seq(E), es # <<>>, NEW k \in 1..Len(l)
  PROVE  \/ k <= Len(AppendBatch(l, es)) /\ AppendBatch(l, es)[k] = l[k]
         \/ \E q \in SamePositions(l, es[1]) : q < k
<1>1. CASE PushesAll(l, es)
  <2>1. AppendBatch(l, es) = l \o es
    BY <1>1 DEF AppendBatch
  <2>2. Len(l \o es) = Len(l) + Len(es) /\ (l \o es)[k] = l[k]
    OBVIOUS
  <2>3. k <= Len(l) + Len(es)
    OBVIOUS
  <2> QED
    BY <2>1, <2>2, <2>3
<1>2. CASE ~PushesAll(l, es) /\ ~Accepts(l, es)
  BY <1>2 DEF AppendBatch
<1>3. CASE ~PushesAll(l, es) /\ Accepts(l, es)
  <2> DEFINE q == FirstSame(l, es[1])
  <2>1. SamePositions(l, es[1]) # {}
    BY <1>3 DEF Accepts
  <2>2. q \in 1..Len(l) /\ SameEntry(l[q], es[1])
    BY <2>1, FirstSameType
  <2>3. q \in SamePositions(l, es[1])
    BY <2>2 DEF SamePositions
  <2>4. AppendBatch(l, es) = LayOver(l, es, q)
    BY <1>3 DEF AppendBatch
  <2> HIDE DEF q
  <2>5. CASE k <= q
    <3>1. k \in 1..q
      BY <2>2, <2>5
    <3> QED
      BY <2>2, <2>4, <3>1, LayOverKeeps
  <2>6. CASE ~(k <= q)
    BY <2>2, <2>3, <2>6
  <2> QED
    BY <2>5, <2>6
<1> QED
  BY <1>1, <1>2, <1>3

(* A batch received (LogManager.cpp, Append of a batch) loses nothing up   *)
(* to the entry where it begins, and nothing at all when it is refused.    *)
THEOREM WhatPrecedesIsKept == Spec => KeepsWhatPrecedes
<1> DEFINE Kept(r, k) ==
      \/ k <= Len(log'[r]) /\ log'[r][k] = log[r][k]
      \/ \E s \in Replica : \E p \in Starts(s, r) :
           LET es == GetEntriesStartAt(log[s], p) IN
           /\ log'[r] = AppendBatch(log[r], es)
           /\ \E q \in SamePositions(log[r], es[1]) : q < k
<1>1. ASSUME LogsTypeOK, [Next]_vars, NEW r \in Replica, NEW k \in 1..Len(log[r])
      PROVE  Kept(r, k)
  <2>0. log[r] \in Seq(Entries(Nat)) /\ \A q \in Replica : log[q] \in Seq(Entries(Nat))
    BY <1>1 DEF LogsTypeOK
  <2>1. CASE log'[r] = log[r]
    BY <2>0, <2>1
  <2>2. ASSUME NEW q \in Replica, NEW t \in OwnTerms(q), OwnAppend(q, t) PROVE Kept(r, k)
    <3>1. log'[r] = IF r = q THEN AppendOne(log[r], t, last_op + 1) ELSE log[r]
      BY <1>1, <2>2 DEF OwnAppend, LogsTypeOK
    <3>2. CASE r = q
      <4> DEFINE e == [index |-> Len(log[r]) + 1, term |-> t, op |-> last_op + 1]
      <4>1. log'[r] = Append(log[r], e)
        BY <3>1, <3>2 DEF AppendOne
      <4> HIDE DEF e
      <4>2. k <= Len(Append(log[r], e)) /\ Append(log[r], e)[k] = log[r][k]
        BY <2>0
      <4> QED
        BY <4>1, <4>2
    <3> QED
      BY <2>1, <3>1, <3>2
  <2>3. ASSUME NEW s \in Replica, NEW d \in Replica, NEW p \in Starts(s, d), Ship(s, d, p)
        PROVE  Kept(r, k)
    <3> DEFINE es == GetEntriesStartAt(log[s], p)
    <3>1. log'[r] = IF r = d THEN AppendBatch(log[r], es) ELSE log[r]
      BY <1>1, <2>3 DEF Ship, LogsTypeOK
    <3>2. CASE r = d
      <4>1. es \in Seq(Entries(Nat)) /\ es # <<>>
        BY <1>1, <2>3, BatchShipped
      <4>2. \/ k <= Len(AppendBatch(log[r], es)) /\ AppendBatch(log[r], es)[k] = log[r][k]
            \/ \E q \in SamePositions(log[r], es[1]) : q < k
        <5> HIDE DEF es
        <5> QED BY <1>1, <2>0, <4>1, AppendBatchKeeps
      <4>3. log'[r] = AppendBatch(log[r], es) /\ p \in Starts(s, r)
        BY <2>3, <3>1, <3>2
      <4>4. CASE k <= Len(AppendBatch(log[r], es)) /\ AppendBatch(log[r], es)[k] = log[r][k]
        <5> HIDE DEF es
        <5> QED BY <4>3, <4>4
      <4>5. CASE \E q \in SamePositions(log[r], es[1]) : q < k
        BY <2>3, <4>3, <4>5
      <4> QED
        BY <4>2, <4>4, <4>5
    <3> QED
      BY <2>1, <3>1, <3>2
  <2>4. CASE UNCHANGED vars
    BY <2>1, <2>4 DEF vars
  <2> HIDE DEF Kept
  <2> QED
    BY <1>1, <2>2, <2>3, <2>4 DEF Next
<1>2. LogsTypeOK /\ [Next]_vars
        => [\A r \in Replica : \A k \in 1..Len(log[r]) : Kept(r, k)]_log
  <2> HIDE DEF Kept
  <2> QED BY <1>1
<1> QED
  BY <1>2, LogsTyped, PTL DEF Spec, KeepsWhatPrecedes
=============================================================================
