----------------------------- MODULE LogManagerMC -----------------------------
(***************************************************************************)
(* Two logs that replicate into each other through the operations of       *)
(* LogManager, the way RaftConsensus drives them: a server appends its own *)
(* entries one at a time and ships the entries after some index to the     *)
(* other, which takes them only if its last index reaches that far.  Every *)
(* pair of logs the two build is an input the program can give to Append.  *)
(* The closed forms of LogManager are compared here with the loops of the  *)
(* source, translated step by step.                                        *)
(***************************************************************************)
EXTENDS LogManager

CONSTANTS Replica,     \* the two logs
          MaxTerm,     \* bound: terms of the entries
          MaxOps,      \* bound: commands appended in all
          MaxLen       \* bound: length a shipped batch may give a log

ASSUME Bounds == MaxTerm \in Nat /\ MaxOps \in Nat /\ MaxLen \in Nat

VARIABLES log,         \* [Replica -> memory_log]
          last_op      \* the name of the newest command, so that names are unique

vars == <<log, last_op>>

Init == log = [r \in Replica |-> <<>>] /\ last_op = 0

(* Terms of a log's own entries do not decrease, and a term belongs to one *)
(* of the two logs: what elections give RaftConsensus.                     *)
OwnTerms(r) == {t \in 1..MaxTerm : (t % 2 = 1) <=> (r = CHOOSE q \in Replica : TRUE)}

OwnAppend(r, t) ==
  /\ last_op < MaxOps /\ t >= GetLastLogTerm(log[r])
  /\ last_op' = last_op + 1
  /\ log' = [log EXCEPT ![r] = AppendOne(@, t, last_op + 1)]

(* The batches r can ship to s: the entries after an index s reaches.      *)
Starts(r, s) == {p \in 0..MaxOps : p < GetLastLogIndex(log[r]) /\ p <= GetLastLogIndex(log[s])}

Ship(r, s, p) ==
  /\ Len(AppendBatch(log[s], GetEntriesStartAt(log[r], p))) <= MaxLen
  /\ log' = [log EXCEPT ![s] = AppendBatch(@, GetEntriesStartAt(log[r], p))]
  /\ UNCHANGED last_op

Next ==
  \/ \E r \in Replica : \E t \in OwnTerms(r) : OwnAppend(r, t)
  \/ \E r, s \in Replica : r # s /\ \E p \in Starts(r, s) : Ship(r, s, p)

Spec == Init /\ [][Next]_vars

(***************************************************************************)
(* The loops of the source, as what they have made of their variables      *)
(* after k iterations.                                                     *)
(***************************************************************************)
(* find_if for the first entry of the batch: its iterator.                 *)
FindFirstSame(l, e) ==
  LET find[k \in 0..Len(l)] ==
        IF k = 0 THEN 1
        ELSE LET it == find[k - 1] IN
             IF it > Len(l) THEN it ELSE IF SameEntry(l[it], e) THEN it ELSE it + 1
  IN find[Len(l)]

(* The for loop of Append over the batch and the erase after it: it is the *)
(* position of first_same_it.                                              *)
MergeLoop(l, es, p) ==
  LET merge[k \in 0..Len(es)] ==
        IF k = 0 THEN [log |-> l, it |-> p]
        ELSE LET m == merge[k - 1] IN
             IF m.it > Len(m.log) THEN [log |-> Append(m.log, es[k]), it |-> m.it]
             ELSE IF SameEntry(m.log[m.it], es[k]) THEN [log |-> m.log, it |-> m.it + 1]
             ELSE [log |-> [m.log EXCEPT ![m.it] = es[k]], it |-> m.it + 1]
      end == merge[Len(es)]
  IN SubSeq(end.log, 1, end.it - 1)

PushLoop(l, es) ==
  LET push[k \in 0..Len(es)] == IF k = 0 THEN l ELSE Append(push[k - 1], es[k])
  IN push[Len(es)]

AppendLoops(l, es) ==
  IF l = <<>> \/ es[1].index = l[Len(l)].index + 1 THEN PushLoop(l, es)
  ELSE LET p == FindFirstSame(l, es[1]) IN
       IF p > Len(l) THEN l ELSE MergeLoop(l, es, p)

(* The indexes of a log do not decrease.                                   *)
InOrder(l) == \A k \in 2..Len(l) : l[k - 1].index <= l[k].index

(***************************************************************************)
(* Properties.                                                             *)
(***************************************************************************)
(* Every batch that can be shipped gives the log the source's loops give:  *)
(* find_if, the laying over with its iterator that stands on a pushed      *)
(* entry, and the final erase (LogManager.cpp, Append of a batch).         *)
AppendIsTheLoop ==
  \A r, s \in Replica : r # s => \A p \in Starts(r, s) :
    LET es == GetEntriesStartAt(log[r], p) IN
    AppendBatch(log[s], es) = AppendLoops(log[s], es)

(* lower_bound needs indexes in order.  A log with a hole gives its next   *)
(* own entry an index it already has, and a larger hole one below its      *)
(* last: while the indexes do not decrease, the halving search ships       *)
(* exactly the entries after the argument, duplicates included, so that no *)
(* entry a follower lacks is left out (LogManager.cpp, GetEntriesStartAt). *)
ShipsEverythingAfter ==
  \A r \in Replica : InOrder(log[r]) =>
    \A i \in 0..MaxOps :
      GetEntriesStartAt(log[r], i) =
        SubSeq(log[r], 1 + Cardinality({k \in 1..Len(log[r]) : log[r][k].index <= i}), Len(log[r]))

(* Append touches nothing up to the entry where the batch's first entry    *)
(* was found, and leaves the whole log alone when it answers false: only   *)
(* what follows a common entry is ever lost, so that the follower's copy   *)
(* of what precedes the batch survives.                                    *)
KeepsWhatPrecedes ==
  [][\A r \in Replica : \A k \in 1..Len(log[r]) :
       \/ k <= Len(log'[r]) /\ log'[r][k] = log[r][k]
       \/ \E s \in Replica : \E p \in Starts(s, r) :
            LET es == GetEntriesStartAt(log[s], p) IN
            /\ log'[r] = AppendBatch(log[r], es)
            /\ \E q \in SamePositions(log[r], es[1]) : q < k]_log

(* While the sender's indexes are in order, an accepted batch never leaves *)
(* a last index beyond the batch's: the last_log_index that a follower     *)
(* answers, next_index less one, is at most the sender's last.             *)
LastIndexWithinBatch ==
  \A r, s \in Replica : r # s /\ InOrder(log[r]) => \A p \in Starts(r, s) :
    LET es == GetEntriesStartAt(log[r], p) IN
    Accepts(log[s], es) =>
      GetLastLogIndex(AppendBatch(log[s], es)) <= GetLastLogIndex(log[r])

(* LogManager.cpp:78-79 "#4: Append new entries not in the log, One RPC    *)
(* can contain multiple entries": an accepted batch is in the log.         *)
BatchIsAppended ==
  \A r, s \in Replica : r # s => \A p \in Starts(r, s) :
    LET es == GetEntriesStartAt(log[r], p)
        l  == AppendBatch(log[s], es)
    IN Accepts(log[s], es) => \A j \in 1..Len(es) : \E k \in 1..Len(l) : SameEntry(l[k], es[j])
=============================================================================
