----------------------------- MODULE RaftElection -----------------------------
(***************************************************************************)
(* RaftConsensus implements Election.  A term is won when a quorum of      *)
(* servers has the same vote for it, whether or not the candidate knows.   *)
(***************************************************************************)
EXTENDS RaftConsensus

Voters(t, s) == {j \in Server : vote_for[j][t] = s}

Wins(t, s) == Cardinality(Voters(t, s)) >= quorum_size

Winner(t) ==
  IF \E s \in Server : Wins(t, s) THEN CHOOSE s \in Server : Wins(t, s) ELSE None

Elections == INSTANCE Election WITH
  elected <- [t \in Term |-> Winner(t)],
  leading <- [i \in Server |-> IF current_role[i] = "Leader" THEN current_term[i] ELSE 0]

(* Every step of the election maps to a step of Election or to none: a     *)
(* vote elects at most once per term and for good, and ChangeToLeader is   *)
(* only reached by the server that a quorum has voted for in its term      *)
(* (OnRequestVote, RemoteHostLoop's candidate branch).                     *)
ImplementsElection == Elections!Spec

-----------------------------------------------------------------------------
(* The inductive invariant of the election.                                *)

(* A granted answer on its way to the candidate is backed by the voter's   *)
(* vote_for of the term that was asked for.                                *)
GrantsAreBacked ==
  \A i, j \in Server : rpc[i][j].st = "voted" /\ rpc[i][j].resp.vote_granted =>
    vote_for[j][rpc[i][j].req.term] = i

(* The calls a candidate waits for were made in its round.                 *)
CallsAreOfTheRound ==
  \A i, j \in Server : current_role[i] = "Candidate" /\ rpc[i][j].st \in {"vote", "voted"} =>
    rpc[i][j].req.term = current_term[i]

(* vote_pool keeps the quorum for as long as its server leads.             *)
LeadersHaveQuorum ==
  \A i \in Server : current_role[i] = "Leader" => Cardinality(vote_pool[i]) >= quorum_size

(* What every step of an election preserves, and what ElectionSafety rests *)
(* on: whoever asks, answers or leads is covered by vote_for.              *)
ElectionInv ==
  /\ VotesInReachedTerms
  /\ PoolHoldsVotesOfRound
  /\ GrantsAreBacked
  /\ CallsAreOfTheRound
  /\ LeadersHaveQuorum
=============================================================================
