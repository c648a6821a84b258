------------------------------ MODULE CommitLog ------------------------------
(***************************************************************************)
(* What RaftConsensus promises the clients of a leader that stays, without *)
(* messages, next_index and pending_entries: the leader takes operations   *)
(* one after the other, every server knows a prefix of them committed that *)
(* only grows and is never longer than the leader's, and an operation is   *)
(* answered by what the leader has committed at that moment.               *)
(*                                                                         *)
(* The promise is about indexes.  That a server which knows an index       *)
(* committed also holds the entry is not part of it: the batch Append may  *)
(* have dropped it (BatchIsAppended).                                      *)
(***************************************************************************)
EXTENDS Naturals, Sequences

CONSTANTS Server, Op, leader

VARIABLES
  accepted,    \* the operations in the order the leader took them
  committed,   \* committed[s]: how many of them s knows committed
  answer       \* answer[o]: "none", "ok" or "timeout"

vars == <<accepted, committed, answer>>

Init ==
  /\ accepted = <<>>
  /\ committed = [s \in Server |-> 0]
  /\ answer = [o \in Op |-> "none"]

Accept(o) ==
  /\ \A k \in DOMAIN accepted : accepted[k] # o
  /\ accepted' = Append(accepted, o)
  /\ UNCHANGED <<committed, answer>>

(* The leader commits what it has taken, the others what it has committed. *)
Commit(s) ==
  /\ LET bound == IF s = leader THEN Len(accepted) ELSE committed[leader] IN
       \E k \in (committed[s] + 1)..bound : committed' = [committed EXCEPT ![s] = k]
  /\ UNCHANGED <<accepted, answer>>

Answer(o) ==
  /\ answer[o] = "none"
  /\ \E k \in DOMAIN accepted :
       /\ accepted[k] = o
       /\ answer' = [answer EXCEPT ![o] = IF k <= committed[leader] THEN "ok" ELSE "timeout"]
  /\ UNCHANGED <<accepted, committed>>

Next ==
  \/ \E o \in Op : Accept(o) \/ Answer(o)
  \/ \E s \in Server : Commit(s)

Spec == Init /\ [][Next]_vars
=============================================================================
