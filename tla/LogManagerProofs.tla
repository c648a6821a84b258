--------------------------- MODULE LogManagerProofs ---------------------------
(***************************************************************************)
(* What the operators of LogManager return: an entry's log stays a         *)
(* sequence of entries through every one of them, the halving search ends  *)
(* at an entry from which on everything is shipped, and a batch that is    *)
(* laid over a log ends inside the batch or the log.                       *)
(***************************************************************************)
EXTENDS LogManager, FiniteSetTheorems, WellFoundedInduction, SequenceTheorems, TLAPS

(* The entries with commands of Cmd.                                       *)
Entries(Cmd) == [index : Nat, term : Nat, op : Cmd]

(* Every nonempty set of naturals has a smallest element: find_if has a    *)
(* first match whenever it has one.                                        *)
LEMMA SmallestExists ==
  ASSUME NEW S \in SUBSET Nat, S # {}
  PROVE  \E m \in S : \A q \in S : m <= q
<1> DEFINE R == OpToRel(<, Nat)
<1>1. IsWellFoundedOn(R, Nat)
  BY NatLessThanWellFounded
<1>2. \E m \in S : \A q \in S : ~ (<<q, m>> \in R)
  <2> HIDE DEF R
  <2> QED BY <1>1, WFMin
<1>3. \A q, m \in Nat : q < m => <<q, m>> \in R
  BY DEF OpToRel
<1> HIDE DEF R
<1>4. PICK m \in S : \A q \in S : ~ (<<q, m>> \in R)
  BY <1>2
<1>5. \A q \in S : m <= q
  <2> SUFFICES ASSUME NEW q \in S PROVE m <= q
    OBVIOUS
  <2>1. q \in Nat /\ m \in Nat
    OBVIOUS
  <2>2. ~ (q < m)
    BY <1>3, <1>4, <2>1
  <2> QED
    BY <2>1, <2>2
<1> QED
  BY <1>5

(* The largest element of a nonempty set of positions: the last entry of a *)
(* batch that a quorum holds.                                              *)
LEMMA LargestExists ==
  ASSUME NEW n \in Nat, NEW S \in SUBSET (1..n), S # {}
  PROVE  \E m \in S : \A q \in S : q <= m
<1> DEFINE T == {n - s : s \in S}
<1>1. T \in SUBSET Nat /\ T # {}
  <2>1. \A s \in S : n - s \in Nat
    OBVIOUS
  <2>2. PICK s \in S : TRUE
    OBVIOUS
  <2>3. n - s \in T
    OBVIOUS
  <2> QED
    BY <2>1, <2>3
<1>2. PICK t \in T : \A q \in T : t <= q
  <2> HIDE DEF T
  <2> QED BY <1>1, SmallestExists
<1>3. PICK m \in S : t = n - m
  BY <1>2
<1>4. \A q \in S : q <= m
  <2> SUFFICES ASSUME NEW q \in S PROVE q <= m
    OBVIOUS
  <2>1. n - q \in T /\ n - m \in T
    OBVIOUS
  <2>2. n - m <= n - q
    BY <1>2, <1>3, <2>1
  <2>3. q \in 1..n /\ m \in 1..n
    OBVIOUS
  <2> QED
    BY <2>2, <2>3
<1> QED
  BY <1>4

LEMMA LastTypes ==
  ASSUME NEW Cmd, NEW l \in Seq(Entries(Cmd))
  PROVE  GetLastLogIndex(l) \in Nat /\ GetLastLogTerm(l) \in Nat
<1>1. CASE l = <<>>
  BY <1>1 DEF GetLastLogIndex, GetLastLogTerm
<1>2. CASE l # <<>>
  <2>1. Len(l) \in 1..Len(l)
    BY <1>2
  <2>2. l[Len(l)] \in Entries(Cmd)
    BY <2>1
  <2> QED
    BY <1>2, <2>2 DEF GetLastLogIndex, GetLastLogTerm, Entries
<1> QED
  BY <1>1, <1>2

LEMMA AppendOneType ==
  ASSUME NEW Cmd, NEW l \in Seq(Entries(Cmd)), NEW t \in Nat, NEW o \in Cmd
  PROVE  AppendOne(l, t, o) \in Seq(Entries(Cmd))
<1>1. [index |-> Len(l) + 1, term |-> t, op |-> o] \in Entries(Cmd)
  BY DEF Entries
<1> QED
  BY <1>1 DEF AppendOne

(* The next four hold of the entries of any set E: no operator makes one.  *)

LEMMA FirstSameType ==
  ASSUME NEW E, NEW l \in Seq(E), NEW e, SamePositions(l, e) # {}
  PROVE  FirstSame(l, e) \in 1..Len(l) /\ SameEntry(l[FirstSame(l, e)], e)
<1>1. SamePositions(l, e) \in SUBSET Nat
  BY DEF SamePositions
<1>2. FirstSame(l, e) \in SamePositions(l, e)
  BY <1>1, SmallestExists DEF FirstSame
<1> QED
  BY <1>2 DEF SamePositions

LEMMA LayOverType ==
  ASSUME NEW E, NEW l \in Seq(E), NEW es \in Seq(E),
         NEW p \in 1..Len(l)
  PROVE  LayOver(l, es, p) \in Seq(E)
<1> DEFINE room    == Len(l) - p + 1
           shared  == IF Len(es) < room THEN Len(es) ELSE room
           surplus == IF Len(es) > room THEN (Len(es) - room) \div 2 ELSE 0
           n       == p - 1 + shared + surplus
           second(k) == room + 2 * (k - p - room + 1)
           f(k) == IF k < p THEN l[k]
                   ELSE IF k < p + shared THEN Over(l[k], es[k - p + 1])
                   ELSE Over(es[second(k) - 1], es[second(k)])
<1>0. Len(l) \in Nat /\ Len(es) \in Nat /\ p \in Nat /\ p >= 1 /\ p <= Len(l)
  OBVIOUS
<1>1. /\ room \in Nat /\ shared \in Nat /\ surplus \in Nat
      /\ 2 * surplus <= IF Len(es) > room THEN Len(es) - room ELSE 0
      /\ shared <= room /\ shared <= Len(es)
      /\ surplus > 0 => shared = room
  BY <1>0
<1>2. ASSUME NEW k \in 1..n PROVE f(k) \in E
  <2>1. CASE k < p
    <3>1. k \in 1..Len(l)
      BY <1>0, <2>1
    <3> QED
      BY <2>1, <3>1
  <2>2. CASE ~(k < p) /\ k < p + shared
    <3>1. k \in 1..Len(l) /\ (k - p + 1) \in 1..Len(es)
      BY <1>0, <1>1, <2>2
    <3> QED
      BY <2>2, <3>1 DEF Over
  <2>3. CASE ~(k < p) /\ ~(k < p + shared)
    <3> HIDE DEF room, surplus, shared
    <3>5. surplus > 0
      BY <1>0, <1>1, <2>3
    <3>1. shared = room /\ Len(es) > room /\ 2 * surplus <= Len(es) - room
      BY <1>0, <1>1, <3>5
    <3>4. k \in Nat /\ k <= p - 1 + room + surplus /\ k >= p + room
      BY <1>0, <1>1, <2>3, <3>1
    <3>2. second(k) \in 2..Len(es)
      BY <1>0, <1>1, <3>1, <3>4
    <3> HIDE DEF second
    <3>3. second(k) \in 1..Len(es) /\ (second(k) - 1) \in 1..Len(es)
      BY <1>0, <3>2
    <3> QED
      BY <2>3, <3>3 DEF Over
  <2> QED
    BY <2>1, <2>2, <2>3
<1>3. n \in Nat
  <2> HIDE DEF room, surplus, shared
  <2> QED BY <1>0, <1>1
<1>4. LayOver(l, es, p) = [k \in 1..n |-> f(k)]
  BY DEF LayOver
<1> HIDE DEF n, f
<1>5. [k \in 1..n |-> f(k)] \in [1..n -> E]
  BY <1>2
<1> QED
  BY <1>3, <1>4, <1>5, SeqDef

(* A batch received leaves a sequence of entries, whichever branch of      *)
(* Append it takes.                                                        *)
LEMMA AppendBatchType ==
  ASSUME NEW E, NEW l \in Seq(E), NEW es \in Seq(E)
  PROVE  AppendBatch(l, es) \in Seq(E)
<1>1. CASE PushesAll(l, es)
  BY <1>1 DEF AppendBatch
<1>2. CASE ~PushesAll(l, es) /\ Accepts(l, es)
  <2>1. SamePositions(l, es[1]) # {}
    BY <1>2 DEF Accepts
  <2>2. FirstSame(l, es[1]) \in 1..Len(l)
    BY <2>1, FirstSameType
  <2> QED
    BY <1>2, <2>2, LayOverType DEF AppendBatch
<1>3. CASE ~PushesAll(l, es) /\ ~Accepts(l, es)
  BY <1>3 DEF AppendBatch
<1> QED
  BY <1>1, <1>2, <1>3

-----------------------------------------------------------------------------
(* The halving search of lower_bound.                                      *)

(* One halving of the range r, where f gives the end of the search of a    *)
(* smaller one.                                                            *)
Halve(l, i, f, r) ==
  IF r[2] = 0 THEN r[1]
  ELSE IF l[r[1] + r[2] \div 2].index <= i
       THEN f[<<r[1] + r[2] \div 2 + 1, r[2] - r[2] \div 2 - 1>>]
       ELSE f[<<r[1], r[2] \div 2>>]

Search(l, i) == CHOOSE f : f = [r \in Ranges(l) |-> Halve(l, i, f, r)]

LEMMA LowerBoundIs ==
  ASSUME NEW l, NEW i
  PROVE  LowerBound(l, i) = Search(l, i)[<<1, Len(l)>>]
BY DEF LowerBound, Search, Halve

(* What halving does to a range: the next one is shorter, its ends move    *)
(* only past a position that was compared.                                 *)
LEMMA HalfOfRange ==
  ASSUME NEW n \in Nat, NEW first \in 1..(n + 1), NEW count \in 1..n, first + count <= n + 1
  PROVE  LET half == count \div 2 IN
         /\ half \in Nat /\ first + half \in 1..n
         /\ first + half + 1 \in 1..(n + 1) /\ count - half - 1 \in 0..n
         /\ first + half + 1 + (count - half - 1) <= n + 1
         /\ half \in 0..n /\ first + half <= n + 1
         /\ count - half - 1 < count /\ half < count
<1> DEFINE half == count \div 2
<1>1. half \in Nat /\ half < count
  OBVIOUS
<1> HIDE DEF half
<1> QED
  BY <1>1 DEF half

LEMMA HalvesAre ==
  ASSUME NEW E, NEW l \in Seq(E), NEW r \in Ranges(l), r[2] # 0
  PROVE  LET half == r[2] \div 2 IN
         /\ half \in Nat /\ r[1] + half \in 1..Len(l)
         /\ <<r[1] + half + 1, r[2] - half - 1>> \in Ranges(l) /\ r[2] - half - 1 < r[2]
         /\ <<r[1], half>> \in Ranges(l) /\ half < r[2]
<1> DEFINE half == r[2] \div 2
<1>1. r[1] \in 1..(Len(l) + 1) /\ r[2] \in 0..Len(l) /\ r[1] + r[2] <= Len(l) + 1 /\ Len(l) \in Nat
  BY DEF Ranges
<1>2. r[2] \in 1..Len(l)
  BY <1>1
<1>3. /\ half \in Nat /\ r[1] + half \in 1..Len(l)
      /\ r[1] + half + 1 \in 1..(Len(l) + 1) /\ r[2] - half - 1 \in 0..Len(l)
      /\ r[1] + half + 1 + (r[2] - half - 1) <= Len(l) + 1
      /\ half \in 0..Len(l) /\ r[1] + half <= Len(l) + 1
      /\ r[2] - half - 1 < r[2] /\ half < r[2]
  BY <1>1, <1>2, HalfOfRange
<1>4. \A a, b : a \in 1..(Len(l) + 1) /\ b \in 0..Len(l) /\ a + b <= Len(l) + 1 => <<a, b>> \in Ranges(l)
  BY DEF Ranges
<1> HIDE DEF half
<1> QED
  BY <1>1, <1>3, <1>4 DEF half

(* The search of the ranges up to a count, each by those before it: its    *)
(* definition has a solution.                                              *)
SearchUpTo(l, i, n, f) ==
  f = [r \in {q \in Ranges(l) : q[2] <= n} |-> Halve(l, i, f, r)]

LEMMA SearchExists ==
  ASSUME NEW E, NEW l \in Seq(E), NEW i
  PROVE  Search(l, i) = [r \in Ranges(l) |-> Halve(l, i, Search(l, i), r)]
<1> DEFINE D(n) == {q \in Ranges(l) : q[2] <= n}
           B == {n \in Nat : ~ \E f : SearchUpTo(l, i, n, f)}
<1>1. \E f : SearchUpTo(l, i, 0, f)
  <2> DEFINE f == [r \in D(0) |-> r[1]]
  <2>1. \A r \in D(0) : r[2] = 0
    BY DEF Ranges
  <2>2. f = [r \in D(0) |-> Halve(l, i, f, r)]
    BY <2>1 DEF Halve
  <2> QED
    BY <2>2 DEF SearchUpTo
<1>2. ASSUME NEW n \in Nat, NEW f, SearchUpTo(l, i, n, f)
      PROVE  \E g : SearchUpTo(l, i, n + 1, g)
  <2> DEFINE g == [r \in D(n + 1) |-> Halve(l, i, f, r)]
  <2>1. ASSUME NEW r \in D(n) PROVE g[r] = f[r]
    <3>1. r \in D(n + 1)
      BY DEF Ranges
    <3>2. f[r] = Halve(l, i, f, r)
      BY <1>2 DEF SearchUpTo
    <3> QED
      BY <3>1, <3>2
  <2>2. ASSUME NEW r \in D(n + 1) PROVE Halve(l, i, g, r) = Halve(l, i, f, r)
    <3>1. CASE r[2] = 0
      BY <3>1 DEF Halve
    <3>2. CASE r[2] # 0
      <4> DEFINE half == r[2] \div 2
                 right == <<r[1] + half + 1, r[2] - half - 1>>
                 left  == <<r[1], half>>
      <4>1. right \in Ranges(l) /\ left \in Ranges(l) /\ right[2] < r[2] /\ left[2] < r[2]
        BY <3>2, HalvesAre
      <4>2. right[2] \in Nat /\ left[2] \in Nat /\ r[2] \in Nat /\ r[2] <= n + 1
        BY <4>1 DEF Ranges
      <4>3. right \in D(n) /\ left \in D(n)
        <5> HIDE DEF right, left
        <5> QED BY <4>1, <4>2
      <4>4. g[right] = f[right] /\ g[left] = f[left]
        <5> HIDE DEF right, left, g
        <5> QED BY <2>1, <4>3
      <4> HIDE DEF g
      <4> QED
        BY <3>2, <4>4 DEF Halve
    <3> QED
      BY <3>1, <3>2
  <2>3. g = [r \in D(n + 1) |-> Halve(l, i, g, r)]
    <3> HIDE DEF D
    <3> QED BY <2>2
  <2> QED
    BY <2>3 DEF SearchUpTo
<1>3. B = {}
  <2> SUFFICES ASSUME B # {} PROVE FALSE
    OBVIOUS
  <2>1. B \in SUBSET Nat
    OBVIOUS
  <2>2. PICK m \in B : \A q \in B : m <= q
    <3> HIDE DEF B
    <3> QED BY <2>1, SmallestExists
  <2>3. m # 0 /\ m - 1 \in Nat
    BY <1>1
  <2>4. m - 1 \notin B
    <3> HIDE DEF B
    <3> QED BY <2>1, <2>2, <2>3
  <2>5. \E f : SearchUpTo(l, i, m - 1, f)
    BY <2>3, <2>4
  <2>6. \E g : SearchUpTo(l, i, (m - 1) + 1, g)
    BY <1>2, <2>3, <2>5
  <2>7. (m - 1) + 1 = m
    BY <2>3
  <2> QED
    BY <2>2, <2>6, <2>7
<1>4. Len(l) \in Nat /\ {q \in Ranges(l) : q[2] <= Len(l)} = Ranges(l)
  BY DEF Ranges
<1>5. \E f : f = [r \in Ranges(l) |-> Halve(l, i, f, r)]
  <2>1. \E f : SearchUpTo(l, i, Len(l), f)
    BY <1>3, <1>4
  <2> QED
    BY <1>4, <2>1 DEF SearchUpTo
<1> QED
  BY <1>5 DEF Search

(* Positions between which nothing is left to compare: the one before is   *)
(* too small, and the one at the end is not.                               *)
EndsAround(l, i, a, b) ==
  (a = 1 \/ l[a - 1].index <= i) /\ (b = Len(l) + 1 \/ ~(l[b].index <= i))

(* Where the search ends, whether the indexes are in order or not.         *)
LEMMA LowerBoundEnds ==
  ASSUME NEW E, NEW l \in Seq(E), NEW i
  PROVE  LowerBound(l, i) \in 1..(Len(l) + 1) /\ EndsAround(l, i, LowerBound(l, i), LowerBound(l, i))
<1> DEFINE S == Search(l, i)
           Ok(r) == EndsAround(l, i, r[1], r[1] + r[2]) =>
                      S[r] \in 1..(Len(l) + 1) /\ EndsAround(l, i, S[r], S[r])
           B == {n \in Nat : \E r \in Ranges(l) : r[2] = n /\ ~Ok(r)}
<1>1. \A r \in Ranges(l) : S[r] = Halve(l, i, S, r)
  BY SearchExists
<1> HIDE DEF S
<1>2. ASSUME NEW r \in Ranges(l), EndsAround(l, i, r[1], r[1] + r[2]),
             \A q \in Ranges(l) : q[2] < r[2] => Ok(q)
      PROVE  S[r] \in 1..(Len(l) + 1) /\ EndsAround(l, i, S[r], S[r])
  <2>1. r[1] \in 1..(Len(l) + 1) /\ r[2] \in Nat /\ Len(l) \in Nat
    BY DEF Ranges
  <2>2. CASE r[2] = 0
    <3>1. S[r] = r[1]
      BY <1>1, <2>2 DEF Halve
    <3>2. r[1] + r[2] = r[1]
      BY <2>1, <2>2
    <3> QED
      BY <1>2, <2>1, <3>1, <3>2
  <2>3. CASE r[2] # 0
    <3> DEFINE half == r[2] \div 2
               mid == r[1] + half
               right == <<mid + 1, r[2] - half - 1>>
               left  == <<r[1], half>>
    <3>1. /\ half \in Nat /\ mid \in 1..Len(l)
          /\ right \in Ranges(l) /\ left \in Ranges(l) /\ right[2] < r[2] /\ left[2] < r[2]
      BY <2>3, HalvesAre
    <3>2. S[r] = IF l[mid].index <= i THEN S[right] ELSE S[left]
      BY <1>1, <2>3 DEF Halve
    <3>3. Ok(right) /\ Ok(left)
      <4> HIDE DEF right, left, Ok
      <4> QED BY <1>2, <3>1
    <3>4. CASE l[mid].index <= i
      <4>1. right[1] = mid + 1 /\ right[1] + right[2] = r[1] + r[2] /\ (mid + 1) - 1 = mid
        <5> HIDE DEF half
        <5> QED BY <2>1, <3>1
      <4>2. EndsAround(l, i, right[1], right[1] + right[2])
        <5> HIDE DEF right, mid
        <5> QED BY <1>2, <3>4, <4>1 DEF EndsAround
      <4> QED
        BY <3>2, <3>3, <3>4, <4>2
    <3>5. CASE ~(l[mid].index <= i)
      <4>1. left[1] = r[1] /\ left[1] + left[2] = mid
        OBVIOUS
      <4>2. EndsAround(l, i, left[1], left[1] + left[2])
        <5> HIDE DEF left, mid
        <5> QED BY <1>2, <3>5, <4>1 DEF EndsAround
      <4> QED
        BY <3>2, <3>3, <3>5, <4>2
    <3> QED
      BY <3>4, <3>5
  <2> QED
    BY <2>2, <2>3
<1>3. B = {}
  <2> SUFFICES ASSUME B # {} PROVE FALSE
    OBVIOUS
  <2>1. B \in SUBSET Nat
    OBVIOUS
  <2>2. PICK m \in B : \A q \in B : m <= q
    <3> HIDE DEF B
    <3> QED BY <2>1, SmallestExists
  <2>3. PICK r \in Ranges(l) : r[2] = m /\ ~Ok(r)
    BY <2>2
  <2>4. \A q \in Ranges(l) : q[2] < m => Ok(q)
    <3> SUFFICES ASSUME NEW q \in Ranges(l), q[2] < m, ~Ok(q) PROVE FALSE
      OBVIOUS
    <3>1. q[2] \in Nat /\ m \in Nat
      BY <2>1 DEF Ranges
    <3>2. q[2] \in B
      <4> HIDE DEF Ok
      <4> QED BY <3>1
    <3> HIDE DEF B, Ok
    <3> QED
      BY <2>2, <3>1, <3>2
  <2> QED
    BY <1>2, <2>3, <2>4
<1>4. <<1, Len(l)>> \in Ranges(l) /\ EndsAround(l, i, 1, 1 + Len(l))
  BY DEF Ranges, EndsAround
<1>5. Ok(<<1, Len(l)>>)
  <2>1. <<1, Len(l)>>[2] \in Nat
    BY <1>4 DEF Ranges
  <2> HIDE DEF Ok
  <2> QED BY <1>3, <1>4, <2>1
<1>6. S[<<1, Len(l)>>] \in 1..(Len(l) + 1) /\ EndsAround(l, i, S[<<1, Len(l)>>], S[<<1, Len(l)>>])
  <2>1. EndsAround(l, i, <<1, Len(l)>>[1], <<1, Len(l)>>[1] + <<1, Len(l)>>[2])
    BY <1>4
  <2> QED
    BY <1>5, <2>1
<1> QED
  BY <1>6, LowerBoundIs DEF S

(* A log whose last index is beyond the argument always ships something.   *)
LEMMA GetEntriesStartAtType ==
  ASSUME NEW E, NEW l \in Seq(E), NEW i
  PROVE  /\ GetEntriesStartAt(l, i) \in Seq(E)
         /\ l # <<>> /\ ~(l[Len(l)].index <= i) => GetEntriesStartAt(l, i) # <<>>
<1> DEFINE from == LowerBound(l, i)
<1>1. from \in 1..(Len(l) + 1) /\ (from = 1 \/ l[from - 1].index <= i) /\ Len(l) \in Nat
  BY LowerBoundEnds DEF EndsAround
<1> HIDE DEF from
<1>2. SubSeq(l, from, Len(l)) \in Seq(E) /\ Len(SubSeq(l, from, Len(l))) = Len(l) - from + 1
  BY <1>1
<1>3. ASSUME l # <<>>, ~(l[Len(l)].index <= i) PROVE SubSeq(l, from, Len(l)) # <<>>
  <2>1. from # Len(l) + 1
    <3> SUFFICES ASSUME from = Len(l) + 1 PROVE FALSE
      OBVIOUS
    <3>1. from - 1 = Len(l) /\ from # 1
      BY <1>1, <1>3
    <3> QED
      BY <1>1, <1>3, <3>1
  <2>2. Len(SubSeq(l, from, Len(l))) # 0
    BY <1>1, <1>2, <2>1
  <2>3. Len(<<>>) = 0
    OBVIOUS
  <2> DEFINE tail == SubSeq(l, from, Len(l))
  <2> HIDE DEF tail
  <2>4. tail # <<>>
    BY <2>2, <2>3 DEF tail
  <2> QED
    BY <2>4 DEF tail
<1> QED
  BY <1>2, <1>3 DEF GetEntriesStartAt, from

-----------------------------------------------------------------------------
(* The last index of a log that has taken a batch is that of an entry of   *)
(* the batch, whichever of them were kept.                                 *)
LEMMA LayOverLast ==
  ASSUME NEW E, NEW l \in Seq(E), NEW es \in Seq(E), es # <<>>, NEW p \in 1..Len(l)
  PROVE  /\ LayOver(l, es, p) # <<>>
         /\ \E k \in 1..Len(es) : GetLastLogIndex(LayOver(l, es, p)) = es[k].index
<1> DEFINE room    == Len(l) - p + 1
           shared  == IF Len(es) < room THEN Len(es) ELSE room
           surplus == IF Len(es) > room THEN (Len(es) - room) \div 2 ELSE 0
           n       == p - 1 + shared + surplus
           at(k)   == room + 2 * (k - p - room + 1)
           second  == at(n)
           f(k) == IF k < p THEN l[k]
                   ELSE IF k < p + shared THEN Over(l[k], es[k - p + 1])
                   ELSE Over(es[at(k) - 1], es[at(k)])
           m == LayOver(l, es, p)
<1>0. Len(l) \in Nat /\ Len(es) \in Nat /\ Len(es) >= 1 /\ p \in Nat /\ p >= 1 /\ p <= Len(l)
  OBVIOUS
<1>1. /\ room \in Nat /\ shared \in Nat /\ surplus \in Nat /\ shared >= 1
      /\ shared <= room /\ shared <= Len(es)
      /\ 2 * surplus <= IF Len(es) > room THEN Len(es) - room ELSE 0
      /\ surplus > 0 => shared = room
  BY <1>0
<1>2. n \in Nat /\ n >= 1
  <2> HIDE DEF room, shared, surplus
  <2> QED BY <1>0, <1>1
<1>3. m = [k \in 1..n |-> f(k)]
  BY DEF LayOver
<1>4. m # <<>> /\ Len(m) = n /\ m[n] = f(n)
  <2> HIDE DEF n, f, m
  <2>1. DOMAIN m = 1..n /\ m[n] = f(n)
    BY <1>2, <1>3
  <2>2. m \in Seq(E)
    BY LayOverType DEF m
  <2> QED
    BY <1>2, <2>1, <2>2
<1>5. \E k \in 1..Len(es) : f(n).index = es[k].index
  <2>1. CASE surplus = 0
    <3>1. n = p - 1 + shared /\ (n - p + 1) = shared
      <4> HIDE DEF room, shared, surplus
      <4> QED BY <1>0, <1>1, <2>1
    <3>2. ~(n < p) /\ n < p + shared
      <4> HIDE DEF room, shared, surplus, n
      <4> QED BY <1>0, <1>1, <3>1
    <3>3. f(n) = Over(l[n], es[shared])
      <4> HIDE DEF room, shared, surplus, n
      <4> QED BY <3>1, <3>2
    <3>4. f(n).index = es[shared].index
      <4> HIDE DEF room, shared, surplus, n, f
      <4> QED BY <3>3 DEF Over, SameEntry
    <3>5. shared \in 1..Len(es)
      <4> HIDE DEF room, shared, surplus, n, f
      <4> QED BY <1>0, <1>1
    <3> QED
      <4> HIDE DEF room, shared, surplus, n, f
      <4> QED BY <3>4, <3>5
  <2>2. CASE surplus > 0
    <3>1. shared = room /\ Len(es) > room /\ 2 * surplus <= Len(es) - room
      BY <1>1, <2>2
    <3> HIDE DEF room, shared, surplus
    <3>2. ~(n < p) /\ ~(n < p + shared) /\ second = room + 2 * surplus
      BY <1>0, <1>1, <2>2, <3>1
    <3>3. second \in 1..Len(es) /\ (second - 1) \in 1..Len(es)
      BY <1>0, <1>1, <2>2, <3>1, <3>2
    <3>4. f(n) = Over(es[second - 1], es[second])
      <4> HIDE DEF n, at
      <4> QED BY <3>2
    <3> HIDE DEF second, n, f
    <3>5. f(n).index \in {es[second - 1].index, es[second].index}
      BY <3>4 DEF Over
    <3> QED
      BY <3>3, <3>5
  <2> QED
    <3> HIDE DEF room, shared, n, f
    <3> QED BY <1>1, <2>1, <2>2
<1> HIDE DEF n, f
<1> QED
  BY <1>4, <1>5 DEF GetLastLogIndex

(* A batch never empties a log.                                            *)
LEMMA AppendBatchLast ==
  ASSUME NEW E, NEW l \in Seq(E), NEW es \in Seq(E), es # <<>>
  PROVE  /\ l # <<>> \/ Accepts(l, es) => AppendBatch(l, es) # <<>>
         /\ Accepts(l, es) =>
              \E k \in 1..Len(es) : GetLastLogIndex(AppendBatch(l, es)) = es[k].index
<1>1. CASE PushesAll(l, es)
  <2>1. AppendBatch(l, es) = l \o es
    BY <1>1 DEF AppendBatch
  <2>2. Len(l \o es) = Len(l) + Len(es) /\ (l \o es)[Len(l) + Len(es)] = es[Len(es)]
    OBVIOUS
  <2>3. l \o es # <<>> /\ Len(es) \in 1..Len(es)
    OBVIOUS
  <2> QED
    BY <2>1, <2>2, <2>3 DEF GetLastLogIndex
<1>2. CASE ~PushesAll(l, es) /\ Accepts(l, es)
  <2>1. FirstSame(l, es[1]) \in 1..Len(l)
    BY <1>2, FirstSameType DEF Accepts
  <2> QED
    BY <1>2, <2>1, LayOverLast DEF AppendBatch
<1>3. CASE ~PushesAll(l, es) /\ ~Accepts(l, es)
  BY <1>3 DEF AppendBatch
<1> QED
  BY <1>1, <1>2, <1>3
=============================================================================
