------------------------------- MODULE Election -------------------------------
(***************************************************************************)
(* What the election of RaftConsensus promises, without votes, pools and   *)
(* messages: in each term at most one server is ever elected, and a server *)
(* leads a term only if it was elected in it.                              *)
(***************************************************************************)
EXTENDS Naturals

CONSTANTS Server, None, Term

VARIABLES
  elected,     \* elected[t]: who won term t, or None
  leading      \* leading[s]: the term s leads now, or 0

vars == <<elected, leading>>

Init ==
  /\ elected = [t \in Term |-> None]
  /\ leading = [s \in Server |-> 0]

(* A server may give up leading at any moment.                             *)
Resigned(s) == [leading EXCEPT ![s] = 0]

(* A majority has voted for s in t.  The last of them may have given up    *)
(* leading an earlier term with its vote.                                  *)
Elect(s, t) ==
  /\ elected[t] = None
  /\ elected' = [elected EXCEPT ![t] = s]
  /\ leading' \in {leading} \cup {Resigned(v) : v \in Server}

(* s learns that it has won.                                               *)
Lead(s, t) ==
  /\ elected[t] = s /\ leading[s] = 0
  /\ leading' = [leading EXCEPT ![s] = t]
  /\ UNCHANGED elected

Resign(s) ==
  /\ leading[s] # 0
  /\ leading' = Resigned(s)
  /\ UNCHANGED elected

Next ==
  \/ \E s \in Server, t \in Term : Elect(s, t) \/ Lead(s, t)
  \/ \E s \in Server : Resign(s)

Spec == Init /\ [][Next]_vars
=============================================================================
