------------------------------ MODULE LogManager ------------------------------
(***************************************************************************)
(* storage/LogManager: the in-memory Raft log of one server.               *)
(*                                                                         *)
(* A log is the sequence memory_log of entries [index, term, op].  The     *)
(* position of an entry and its index field are different things: Append   *)
(* of a batch can leave holes in the indexes, and the code addresses       *)
(* entries sometimes by position (size() + 1) and sometimes by index.      *)
(*                                                                         *)
(* The class has its own mutex and every operation here is one critical    *)
(* section of it, so each is a plain operator from the old log to the      *)
(* new one.  No operator is recursive: the proofs reach this module.       *)
(*                                                                         *)
(* A definition whose comment begins with Mutant is not part of the model: *)
(* it is the next definition with a bug that one of the properties of the  *)
(* runs must catch.                                                        *)
(***************************************************************************)
EXTENDS Integers, Sequences, FiniteSets

(* The entry at the back of the deque; the code calls it on an empty log   *)
(* in SetLastCommitIndex and in operator<<, which is undefined behaviour   *)
(* and modelled where it is called.                                        *)
GetLastLogIndex(l) == IF l = <<>> THEN 0 ELSE l[Len(l)].index

GetLastLogTerm(l) == IF l = <<>> THEN 0 ELSE l[Len(l)].term

(* An empty log hides whatever last_commited_index holds.                  *)
GetLastCommitIndex(l, last_commited_index) ==
  IF l = <<>> THEN 0 ELSE last_commited_index

(* SetLastCommitIndex on a log that is not empty: a new index beyond the   *)
(* last entry is refused.                                                  *)
SetLastCommitIndex(l, last_commited_index, new_index) ==
  IF new_index <= GetLastLogIndex(l) THEN new_index ELSE last_commited_index

SameEntry(a, b) == a.index = b.index /\ a.term = b.term

(* Append of one entry: the leader's own entry takes its index from size(). *)
AppendOne(l, term, op) == Append(l, [index |-> Len(l) + 1, term |-> term, op |-> op])

(***************************************************************************)
(* Append of a batch: the receiver's side.                                 *)
(***************************************************************************)
PushesAll(l, es) == l = <<>> \/ es[1].index = GetLastLogIndex(l) + 1

SamePositions(l, e) == {k \in 1..Len(l) : SameEntry(l[k], e)}

Accepts(l, es) == PushesAll(l, es) \/ SamePositions(l, es[1]) # {}

FirstSame(l, e) ==
  CHOOSE k \in SamePositions(l, e) : \A q \in SamePositions(l, e) : k <= q

(* An entry of the batch on an entry of the log: the one in the log stays  *)
(* if index and term agree, whatever the commands.                         *)
Over(old, new) == IF SameEntry(old, new) THEN old ELSE new

(* Mutant: the whole surplus stays.                                        *)
LayOverWithSurplus(l, es, p) == SubSeq(l, 1, p - 1) \o es

(* Mutant: nothing is erased.                                              *)
LayOverWithExtras(l, es, p) ==
  [k \in 1..Len(l) |-> IF k < p \/ k >= p + Len(es) THEN l[k] ELSE Over(l[k], es[k - p + 1])]

(* The batch is laid over the log from position p, where its first entry   *)
(* was found.  Past the old end the iterator stands on the entry just      *)
(* pushed, so the next entry of the batch is laid over it instead of       *)
(* following it: of the surplus only one of every two entries stays, and   *)
(* an odd last one is pushed and then erased as an extra.  Local entries   *)
(* beyond a shorter batch are erased.                                      *)
LayOver(l, es, p) ==
  LET room    == Len(l) - p + 1
      shared  == IF Len(es) < room THEN Len(es) ELSE room
      surplus == IF Len(es) > room THEN (Len(es) - room) \div 2 ELSE 0
  IN [k \in 1..(p - 1 + shared + surplus) |->
        IF k < p THEN l[k]
        ELSE IF k < p + shared THEN Over(l[k], es[k - p + 1])
        ELSE LET second == room + 2 * (k - p - room + 1)
             IN Over(es[second - 1], es[second])]

(* Mutant: the batch takes the place of the log.                           *)
AppendBatchInstead(l, es) == IF Accepts(l, es) THEN es ELSE l

AppendBatch(l, es) ==
  IF PushesAll(l, es) THEN l \o es
  ELSE IF Accepts(l, es) THEN LayOver(l, es, FirstSame(l, es[1]))
  ELSE l

(* The ranges a search of l may be in: a position and how many follow it.  *)
Ranges(l) ==
  {r \in (1..(Len(l) + 1)) \X (0..Len(l)) : r[1] + r[2] <= Len(l) + 1}

(* std::lower_bound over the index fields: halve count positions from      *)
(* first.  On a log whose indexes are in order this is the first entry     *)
(* with an index larger than i; on another log it is whatever the halving  *)
(* meets.                                                                  *)
LowerBound(l, i) ==
  LET search[r \in Ranges(l)] ==
        LET first == r[1]
            count == r[2]
            half  == count \div 2
        IN IF count = 0 THEN first
           ELSE IF l[first + half].index <= i THEN search[<<first + half + 1, count - half - 1>>]
           ELSE search[<<first, half>>]
  IN search[<<1, Len(l)>>]

(* Mutant: upper and lower bound confused, the entry at the index goes too. *)
GetEntriesStartingAt(l, start_index) == SubSeq(l, LowerBound(l, start_index - 1), Len(l))

(* The entries from lower_bound's position on.                             *)
GetEntriesStartAt(l, start_index) == SubSeq(l, LowerBound(l, start_index), Len(l))

=============================================================================
