-------------------------- MODULE RaftElectionProofs --------------------------
(***************************************************************************)
(* At most one leader in a term, and with it the refinement of Election,   *)
(* proved for every number of servers, where no server restarts and no     *)
(* vote call outlives the round it was made in.                            *)
(*                                                                         *)
(* Then what follows from the leader of a term: whom a server names as it, *)
(* that it only adds to its log, that one index and term name one command, *)
(* and that no answer to it is about more than its log; for servers that   *)
(* may crash, calls that may be lost and requests that may be handled      *)
(* late.                                                                   *)
(***************************************************************************)
EXTENDS RaftElection, RaftConsensusProofs

(* A vote, once given, stays: the step behind VotesAreFinal.               *)
LEMMA VotesStay ==
  ASSUME TypeOK, Next, NoRestart, NEW i \in Server, NEW t \in Term, vote_for[i][t] # None
  PROVE  vote_for'[i][t] = vote_for[i][t]
<1>1. ASSUME NEW c \in Server, StartLeaderElection(c) PROVE vote_for'[i][t] = vote_for[i][t]
  BY <1>1 DEF StartLeaderElection, ElectionIsDue, TypeOK
<1>2. ASSUME NEW c \in Server, NEW j \in Server, NEW req \in VoteReq, OnRequestVote(j, c, req)
      PROVE  vote_for'[i][t] = vote_for[i][t]
  <2>1. req.term \in Term
    BY DEF VoteReq
  <2> QED
    BY <1>2, <2>1 DEF OnRequestVote, Grants, TypeOK
<1>3. ASSUME NEW c \in Server, NEW j \in Server, HandleRequestVote(c, j)
      PROVE  vote_for'[i][t] = vote_for[i][t]
  BY <1>2, <1>3, SlotTypes DEF HandleRequestVote
<1>4. ASSUME NEW m \in orphans, HandleOrphan(m) PROVE vote_for'[i][t] = vote_for[i][t]
  <2>1. m \in Orphan /\ m.from \in Server /\ m.to \in Server
    BY DEF TypeOK, Orphan
  <2>2. CASE m.kind = "vote" /\ OnRequestVote(m.to, m.from, m.req)
    BY <1>2, <2>1, <2>2 DEF Orphan
  <2>3. CASE m.kind = "append" /\ OnAppendEntries(m.to, m.from, m.req)
    BY <2>3 DEF OnAppendEntries
  <2> QED
    BY <1>4, <2>2, <2>3 DEF HandleOrphan
<1>5. ASSUME NEW c \in Server, Restart(c) PROVE FALSE
  BY <1>5 DEF Restart, NoRestart, TypeOK
<1>6. ASSUME NEW a \in Server, NEW b \in Server,
             \/ SendRequestVote(a, b) \/ OnVoteReply(a, b) \/ SendAppendEntries(a, b)
             \/ OnAppendReply(a, b) \/ LoseCall(a, b)
      PROVE  vote_for'[i][t] = vote_for[i][t]
  BY <1>6 DEF SendRequestVote, OnVoteReply, SendAppendEntries, OnAppendReply, LoseCall
<1>7. ASSUME NEW a \in Server, NEW b \in Server, HandleAppendEntries(a, b)
      PROVE  vote_for'[i][t] = vote_for[i][t]
  BY <1>7 DEF HandleAppendEntries, OnAppendEntries
<1>8. ASSUME NEW a \in Server, Crash(a) \/ CrashOnEmptyLog(a) PROVE vote_for'[i][t] = vote_for[i][t]
  BY <1>8 DEF Crash, CrashOnEmptyLog, Stop
<1>9. ASSUME NEW o \in Op,
             \/ \E a \in Server : CheckIsLeader(o, a)
             \/ CheckLeaderId(o) \/ StampTerm(o) \/ AppendToLog(o) \/ AnswerClient(o)
      PROVE  vote_for'[i][t] = vote_for[i][t]
  BY <1>9 DEF CheckIsLeader, CheckLeaderId, StampTerm, AppendToLog, AnswerClient
<1> QED
  BY <1>1, <1>3, <1>4, <1>5, <1>6, <1>7, <1>8, <1>9 DEF Next

(* No vote is ever changed while servers stay up: one vote per term.       *)
THEOREM VotesFinal == StableSpec => VotesAreFinal
<1>1. TypeOK /\ [Next /\ NoRestart]_vars => TypeOK'
  BY TypeStep
<1>2. TypeOK /\ [Next /\ NoRestart]_vars =>
        [\A i \in Server, t \in Term : vote_for[i][t] # None => vote_for'[i][t] = vote_for[i][t]]_vars
  BY VotesStay
<1> QED
  BY InitType, <1>1, <1>2, PTL DEF StableSpec, VotesAreFinal

-----------------------------------------------------------------------------
(* Votes that stay, in the form the steps below use: the conjuncts about   *)
(* vote_for survive every step of it.                                      *)
Stays == \A i \in Server, t \in Term : vote_for[i][t] # None => vote_for'[i][t] = vote_for[i][t]

(* rpc' has no vote call that rpc has not.                                 *)
NoNewVoteCall ==
  \A i, j \in Server : rpc'[i][j].st \in {"vote", "voted"} => rpc'[i][j] = rpc[i][j]

(* Steps that leave roles, terms, pools and votes alone.                   *)
LEMMA QuietStep ==
  ASSUME TypeOK, ElectionInv, NoNewVoteCall,
         UNCHANGED <<current_term, current_role, vote_pool, vote_for>>
  PROVE  ElectionInv'
<1>1. VotesInReachedTerms' /\ PoolHoldsVotesOfRound' /\ LeadersHaveQuorum'
  BY DEF ElectionInv, VotesInReachedTerms, PoolHoldsVotesOfRound, LeadersHaveQuorum, quorum_size
<1>2. GrantsAreBacked'
  BY DEF ElectionInv, GrantsAreBacked, NoNewVoteCall
<1>3. CallsAreOfTheRound'
  BY DEF ElectionInv, CallsAreOfTheRound, NoNewVoteCall
<1> QED
  BY <1>1, <1>2, <1>3 DEF ElectionInv

(* Steps in which a server falls back to follower.                         *)
LEMMA StepDownStep ==
  ASSUME TypeOK, ElectionInv, NoNewVoteCall, UNCHANGED vote_for,
         NEW i \in Server, NEW t \in 0..MaxTerm, NEW l, t >= current_term[i],
         ChangeToFollower(i, t, l)
  PROVE  ElectionInv'
<1>1. /\ current_role' = [current_role EXCEPT ![i] = "Follower"]
      /\ current_term' = [current_term EXCEPT ![i] = t]
      /\ \A k \in Server : k # i => vote_pool'[k] = vote_pool[k]
  BY DEF ChangeToFollower, TypeOK
<1>2. current_role'[i] = "Follower" /\ current_term'[i] = t
  BY <1>1 DEF TypeOK
<1>3. \A k \in Server : k # i => current_role'[k] = current_role[k] /\ current_term'[k] = current_term[k]
  BY <1>1 DEF TypeOK
<1>4. \A k \in Server : current_term'[k] \in Nat /\ current_term[k] \in Nat /\ current_term'[k] >= current_term[k]
  <2>1. \A k \in Server : current_term[k] \in Nat
    BY BoundAssumption DEF TypeOK
  <2>2. t \in Nat
    BY BoundAssumption
  <2> QED
    BY <1>2, <1>3, <2>1, <2>2
<1>5. VotesInReachedTerms'
  <2> SUFFICES ASSUME NEW k \in Server, NEW u \in Term, vote_for[k][u] # None
               PROVE  u <= current_term'[k]
    BY DEF VotesInReachedTerms
  <2>1. u <= current_term[k] /\ u \in Nat
    BY DEF ElectionInv, VotesInReachedTerms, Term
  <2> QED
    BY <1>4, <2>1
<1>6. PoolHoldsVotesOfRound'
  BY <1>1, <1>2, <1>3 DEF ElectionInv, PoolHoldsVotesOfRound
<1>7. LeadersHaveQuorum'
  BY <1>1, <1>2, <1>3 DEF ElectionInv, LeadersHaveQuorum, quorum_size
<1>8. GrantsAreBacked'
  BY DEF ElectionInv, GrantsAreBacked, NoNewVoteCall
<1>9. CallsAreOfTheRound'
  BY <1>2, <1>3 DEF ElectionInv, CallsAreOfTheRound, NoNewVoteCall
<1> QED
  BY <1>5, <1>6, <1>7, <1>8, <1>9 DEF ElectionInv

LEMMA StartLeaderElectionStep ==
  ASSUME TypeOK, ElectionInv, Stays, RoundsDoNotOverlap, NEW i \in Server, StartLeaderElection(i)
  PROVE  ElectionInv'
<1> DEFINE t == current_term[i] + 1
<1>1. t \in Term /\ t \in Nat /\ t > current_term[i] /\ current_term[i] \in Nat
  BY BoundAssumption DEF StartLeaderElection, ElectionIsDue, TypeOK, Term
<1>2. vote_for[i][t] = None
  <2>1. ~(t <= current_term[i])
    BY <1>1
  <2> QED
    BY <1>1, <2>1 DEF ElectionInv, VotesInReachedTerms
<1>3. /\ current_term' = [current_term EXCEPT ![i] = t]
      /\ current_role' = [current_role EXCEPT ![i] = "Candidate"]
      /\ vote_for' = [vote_for EXCEPT ![i][t] = i]
      /\ vote_pool' = [vote_pool EXCEPT ![i] = {i}]
      /\ UNCHANGED rpc
  BY <1>2 DEF StartLeaderElection, ElectionIsDue, netVars
<1> HIDE DEF t
<1>4. /\ current_term'[i] = t /\ current_role'[i] = "Candidate" /\ vote_pool'[i] = {i}
      /\ vote_for'[i][t] = i
  BY <1>1, <1>3 DEF TypeOK
<1>5. \A k \in Server : k # i => /\ current_role'[k] = current_role[k]
                                 /\ current_term'[k] = current_term[k]
                                 /\ vote_pool'[k] = vote_pool[k]
                                 /\ vote_for'[k] = vote_for[k]
  BY <1>3 DEF TypeOK
<1>6. VotesInReachedTerms'
  <2> SUFFICES ASSUME NEW k \in Server, NEW u \in Term, vote_for'[k][u] # None
               PROVE  u <= current_term'[k]
    BY DEF VotesInReachedTerms
  <2>1. CASE k # i
    BY <1>5, <2>1 DEF ElectionInv, VotesInReachedTerms
  <2>2. CASE k = i /\ u = t
    BY <1>1, <1>4, <2>2
  <2>3. CASE k = i /\ u # t
    <3>1. vote_for'[i][u] = vote_for[i][u]
      BY <1>3, <2>3 DEF TypeOK
    <3>2. u <= current_term[i] /\ u \in Nat
      BY <2>3, <3>1 DEF ElectionInv, VotesInReachedTerms, Term
    <3> QED
      BY <1>1, <1>4, <2>3, <3>2
  <2> QED
    BY <2>1, <2>2, <2>3
<1>7. PoolHoldsVotesOfRound'
  <2> SUFFICES ASSUME NEW k \in Server, current_role'[k] # "Follower", NEW j \in vote_pool'[k]
               PROVE  vote_for'[j][current_term'[k]] = k
    BY DEF PoolHoldsVotesOfRound
  <2>1. CASE k = i
    BY <1>4, <2>1
  <2>2. CASE k # i
    <3>1. /\ j \in Server /\ current_term[k] \in Term
          /\ vote_for[j][current_term[k]] = k
      BY <1>5, <2>2 DEF ElectionInv, PoolHoldsVotesOfRound, TypeOK
    <3> QED
      BY <1>5, <2>2, <3>1, ServerAssumption DEF Stays
  <2> QED
    BY <2>1, <2>2
<1>8. GrantsAreBacked'
  <2> SUFFICES ASSUME NEW k \in Server, NEW j \in Server,
                      rpc[k][j].st = "voted" /\ rpc[k][j].resp.vote_granted
               PROVE  vote_for'[j][rpc[k][j].req.term] = k
    BY <1>3 DEF GrantsAreBacked
  <2>1. vote_for[j][rpc[k][j].req.term] = k
    BY DEF ElectionInv, GrantsAreBacked
  <2>2. rpc[k][j].req.term \in Term
    BY SlotTypes DEF VoteReq
  <2> QED
    BY <2>1, <2>2, ServerAssumption DEF Stays
<1>9. CallsAreOfTheRound'
  <2>1. \A j \in Server : rpc[i][j].st \notin {"vote", "voted"}
    BY <1>1, <1>4 DEF RoundsDoNotOverlap
  <2> QED
    BY <1>3, <1>5, <2>1 DEF ElectionInv, CallsAreOfTheRound
<1>10. LeadersHaveQuorum'
  BY <1>4, <1>5 DEF ElectionInv, LeadersHaveQuorum, quorum_size
<1> QED
  BY <1>6, <1>7, <1>8, <1>9, <1>10 DEF ElectionInv

LEMMA SendRequestVoteStep ==
  ASSUME TypeOK, ElectionInv, NEW i \in Server, NEW j \in Server, SendRequestVote(i, j)
  PROVE  ElectionInv'
<1> DEFINE slot == [st |-> "vote",
      req |-> [term |-> current_term[i],
               last_log_index |-> GetLastLogIndex(log[i]),
               last_log_term |-> GetLastLogTerm(log[i])]]
<1>1. rpc' = [rpc EXCEPT ![i][j] = slot] /\ slot.st = "vote" /\ slot.req.term = current_term[i]
  BY DEF SendRequestVote
<1>2. UNCHANGED <<current_term, current_role, vote_pool, vote_for>>
  BY DEF SendRequestVote, roleVars
<1> HIDE DEF slot
<1>3. rpc'[i][j] = slot
  BY <1>1 DEF TypeOK
<1>4. \A k, q \in Server : k # i \/ q # j => rpc'[k][q] = rpc[k][q]
  BY <1>1 DEF TypeOK
<1>5. VotesInReachedTerms' /\ PoolHoldsVotesOfRound' /\ LeadersHaveQuorum'
  BY <1>2 DEF ElectionInv, VotesInReachedTerms, PoolHoldsVotesOfRound, LeadersHaveQuorum, quorum_size
<1>6. GrantsAreBacked'
  BY <1>1, <1>2, <1>3, <1>4 DEF ElectionInv, GrantsAreBacked
<1>7. CallsAreOfTheRound'
  BY <1>1, <1>2, <1>3, <1>4 DEF ElectionInv, CallsAreOfTheRound
<1> QED
  BY <1>5, <1>6, <1>7 DEF ElectionInv

(* OnRequestVote, with what becomes of the call that asked.                *)
LEMMA OnRequestVoteStep ==
  ASSUME TypeOK, ElectionInv, Stays, NEW i \in Server, NEW j \in Server, NEW req \in VoteReq,
         OnRequestVote(j, i, req),
         \A k, q \in Server : rpc'[k][q].st \in {"vote", "voted"} =>
           \/ rpc'[k][q] = rpc[k][q]
           \/ /\ k = i /\ q = j /\ rpc[i][j].st = "vote"
              /\ rpc'[i][j].req = rpc[i][j].req /\ rpc[i][j].req = req
              /\ rpc'[i][j].resp = VoteResponse(j, i, req)
  PROVE  ElectionInv'
<1>1. req.term \in Term
  BY DEF VoteReq
<1>2. vote_for' = IF Grants(j, i, req) THEN [vote_for EXCEPT ![j][req.term] = i] ELSE vote_for
  BY DEF OnRequestVote
<1>3. \A k \in Server : current_term[k] \in Nat
  BY BoundAssumption DEF TypeOK
<1>4. \A k \in Server : \/ /\ current_term'[k] = current_term[k]
                           /\ current_role'[k] = current_role[k]
                           /\ vote_pool'[k] = vote_pool[k]
                        \/ /\ k = j /\ current_role'[k] = "Follower"
                           /\ current_term'[k] = req.term /\ req.term > current_term[k]
  <2>1. CASE req.term > current_term[j]
    <3>1. /\ current_term' = [current_term EXCEPT ![j] = req.term]
          /\ current_role' = [current_role EXCEPT ![j] = "Follower"]
          /\ vote_pool' = [vote_pool EXCEPT ![j] = IF current_role[j] = "Candidate" THEN {} ELSE @]
      BY <2>1 DEF OnRequestVote, ChangeToFollower
    <3>2. \A k \in Server \ {j} : /\ current_term'[k] = current_term[k] /\ current_role'[k] = current_role[k]
                                 /\ vote_pool'[k] = vote_pool[k]
      BY <3>1 DEF TypeOK
    <3>3. current_term'[j] = req.term /\ current_role'[j] = "Follower"
      BY <3>1 DEF TypeOK
    <3> QED
      BY <2>1, <3>2, <3>3
  <2>2. CASE ~(req.term > current_term[j])
    BY <2>2 DEF OnRequestVote, roleVars
  <2> QED
    BY <2>1, <2>2
<1>5. current_term'[j] >= req.term
  <2>1. CASE req.term > current_term[j]
    BY <1>1, <2>1 DEF OnRequestVote, ChangeToFollower, TypeOK, Term
  <2>2. CASE ~(req.term > current_term[j])
    BY <1>1, <1>3, <2>2 DEF OnRequestVote, roleVars, Term
  <2> QED
    BY <2>1, <2>2
<1>6. VotesInReachedTerms'
  <2> SUFFICES ASSUME NEW k \in Server, NEW u \in Term, vote_for'[k][u] # None
               PROVE  u <= current_term'[k]
    BY DEF VotesInReachedTerms
  <2>1. CASE k = j /\ u = req.term
    BY <1>1, <1>4, <1>5, <2>1
  <2>2. CASE ~(k = j /\ u = req.term)
    <3>1. vote_for'[k][u] = vote_for[k][u]
      BY <1>1, <1>2, <2>2 DEF TypeOK
    <3>2. u <= current_term[k] /\ u \in Nat
      BY <3>1 DEF ElectionInv, VotesInReachedTerms, Term
    <3> QED
      BY <1>1, <1>3, <1>4, <3>2 DEF Term
  <2> QED
    BY <2>1, <2>2
<1>7. PoolHoldsVotesOfRound'
  <2> SUFFICES ASSUME NEW k \in Server, current_role'[k] # "Follower", NEW v \in vote_pool'[k]
               PROVE  vote_for'[v][current_term'[k]] = k
    BY DEF PoolHoldsVotesOfRound
  <2>1. /\ current_term'[k] = current_term[k] /\ current_role[k] # "Follower"
        /\ v \in vote_pool[k]
    BY <1>4
  <2>2. v \in Server /\ current_term[k] \in Term /\ vote_for[v][current_term[k]] = k
    BY <2>1 DEF ElectionInv, PoolHoldsVotesOfRound, TypeOK
  <2> QED
    BY <2>1, <2>2, ServerAssumption DEF Stays
<1>8. GrantsAreBacked'
  <2> SUFFICES ASSUME NEW k \in Server, NEW q \in Server,
                      rpc'[k][q].st = "voted", rpc'[k][q].resp.vote_granted
               PROVE  vote_for'[q][rpc'[k][q].req.term] = k
    BY DEF GrantsAreBacked
  <2>1. CASE rpc'[k][q] = rpc[k][q]
    <3>1. vote_for[q][rpc[k][q].req.term] = k
      BY <2>1 DEF ElectionInv, GrantsAreBacked
    <3>2. rpc[k][q].req.term \in Term
      BY <2>1, SlotTypes DEF VoteReq
    <3> QED
      BY <2>1, <3>1, <3>2, ServerAssumption DEF Stays
  <2>2. CASE /\ k = i /\ q = j /\ rpc'[i][j].req = req
             /\ rpc'[i][j].resp = VoteResponse(j, i, req)
    <3>1. Grants(j, i, req)
      BY <2>2 DEF VoteResponse
    <3> QED
      BY <1>1, <1>2, <2>2, <3>1 DEF TypeOK
  <2> QED
    BY <2>1, <2>2
<1>9. CallsAreOfTheRound'
  <2> SUFFICES ASSUME NEW k \in Server, NEW q \in Server, current_role'[k] = "Candidate",
                      rpc'[k][q].st \in {"vote", "voted"}
               PROVE  rpc'[k][q].req.term = current_term'[k]
    BY DEF CallsAreOfTheRound
  <2>1. current_role[k] = "Candidate" /\ current_term'[k] = current_term[k]
    BY <1>4
  <2>2. rpc[k][q].st \in {"vote", "voted"} /\ rpc'[k][q].req = rpc[k][q].req
    OBVIOUS
  <2> QED
    BY <2>1, <2>2 DEF ElectionInv, CallsAreOfTheRound
<1>10. LeadersHaveQuorum'
  BY <1>4 DEF ElectionInv, LeadersHaveQuorum, quorum_size
<1> QED
  BY <1>6, <1>7, <1>8, <1>9, <1>10 DEF ElectionInv

LEMMA OnVoteReplyStep ==
  ASSUME TypeOK, ElectionInv, NEW i \in Server, NEW j \in Server, OnVoteReply(i, j)
  PROVE  ElectionInv'
<1>1. rpc' = [rpc EXCEPT ![i][j] = Idle] /\ UNCHANGED vote_for /\ rpc[i][j].st = "voted"
  BY DEF OnVoteReply
<1>2. NoNewVoteCall
  BY <1>1 DEF NoNewVoteCall, Idle, TypeOK
<1>3. CASE ~VoteCounts(i, j)
  <2>1. UNCHANGED <<current_term, current_role, vote_pool, vote_for>>
    BY <1>1, <1>3 DEF OnVoteReply, roleVars
  <2> QED
    BY <1>2, <2>1, QuietStep
<1>4. CASE VoteCounts(i, j)
  <2> DEFINE pool == vote_pool[i] \cup {j}
  <2>1. /\ vote_pool' = [vote_pool EXCEPT ![i] = pool]
        /\ UNCHANGED current_term
        /\ IF Cardinality(pool) >= quorum_size
           THEN current_role' = [current_role EXCEPT ![i] = "Leader"]
           ELSE UNCHANGED current_role
    BY <1>4 DEF OnVoteReply, ChangeToLeader
  <2>2. vote_for[j][current_term[i]] = i
    BY <1>1, <1>4 DEF VoteCounts, ElectionInv, GrantsAreBacked, CallsAreOfTheRound
  <2>3. \A v \in pool : vote_for[v][current_term[i]] = i
    BY <1>4, <2>2 DEF VoteCounts, ElectionInv, PoolHoldsVotesOfRound
  <2> HIDE DEF pool
  <2>4. vote_pool'[i] = pool
    BY <2>1 DEF TypeOK
  <2>5. \A k \in Server : k # i => vote_pool'[k] = vote_pool[k] /\ current_role'[k] = current_role[k]
    BY <2>1 DEF TypeOK
  <2>6. VotesInReachedTerms'
    BY <1>1, <2>1 DEF ElectionInv, VotesInReachedTerms
  <2>7. PoolHoldsVotesOfRound'
    BY <1>1, <2>1, <2>3, <2>4, <2>5 DEF ElectionInv, PoolHoldsVotesOfRound
  <2>8. GrantsAreBacked'
    BY <1>1, <1>2 DEF ElectionInv, GrantsAreBacked, NoNewVoteCall
  <2>9. CallsAreOfTheRound'
    <3>1. \A k \in Server : current_role'[k] = "Candidate" => current_role[k] = "Candidate"
      BY <2>1 DEF TypeOK
    <3> QED
      BY <1>2, <2>1, <3>1 DEF ElectionInv, CallsAreOfTheRound, NoNewVoteCall
  <2>10. LeadersHaveQuorum'
    <3>1. CASE Cardinality(pool) >= quorum_size
      BY <2>4, <2>5, <3>1 DEF ElectionInv, LeadersHaveQuorum, quorum_size
    <3>2. CASE ~(Cardinality(pool) >= quorum_size)
      BY <1>4, <2>1, <2>5, <3>2 DEF VoteCounts, ElectionInv, LeadersHaveQuorum, quorum_size
    <3> QED
      BY <3>1, <3>2
  <2> QED
    BY <2>6, <2>7, <2>8, <2>9, <2>10 DEF ElectionInv
<1> QED
  BY <1>3, <1>4

LEMMA OnAppendEntriesStep ==
  ASSUME TypeOK, ElectionInv, NEW i \in Server, NEW j \in Server, NEW req \in AppendReq,
         OnAppendEntries(j, i, req), NoNewVoteCall
  PROVE  ElectionInv'
<1>1. req.term \in 0..MaxTerm /\ current_term[j] \in 0..MaxTerm
  BY DEF AppendReq, TypeOK
<1>2. UNCHANGED vote_for
  BY DEF OnAppendEntries
<1>3. CASE ~SlowTerm(j, req) /\ (req.term > current_term[j] \/ current_role[j] = "Candidate")
  <2>1. ChangeToFollower(j, req.term, i)
    BY <1>3 DEF OnAppendEntries
  <2>2. req.term >= current_term[j]
    BY <1>1, <1>3, BoundAssumption DEF SlowTerm
  <2> QED
    BY <1>1, <1>2, <2>1, <2>2, StepDownStep
<1>4. CASE SlowTerm(j, req) \/ ~(req.term > current_term[j] \/ current_role[j] = "Candidate")
  <2>1. UNCHANGED <<current_term, current_role, vote_pool, vote_for>>
    BY <1>2, <1>4 DEF OnAppendEntries, roleVars
  <2> QED
    BY <2>1, QuietStep
<1> QED
  BY <1>3, <1>4

LEMMA OnAppendReplyStep ==
  ASSUME TypeOK, ElectionInv, NEW i \in Server, NEW j \in Server, OnAppendReply(i, j)
  PROVE  ElectionInv'
<1> DEFINE resp == rpc[i][j].resp
<1>1. rpc' = [rpc EXCEPT ![i][j] = Idle] /\ UNCHANGED vote_for
  BY DEF OnAppendReply
<1>2. NoNewVoteCall
  BY <1>1 DEF NoNewVoteCall, Idle, TypeOK
<1>3. CASE UNCHANGED roleVars
  <2>1. UNCHANGED <<current_term, current_role, vote_pool, vote_for>>
    BY <1>1, <1>3 DEF roleVars
  <2> QED
    BY <1>2, <2>1, QuietStep
<1>4. CASE resp.term > current_term[i] /\ ChangeToFollower(i, resp.term, None)
  <2>1. resp \in AppendResp
    BY SlotTypes DEF OnAppendReply
  <2>2. resp.term \in 0..MaxTerm /\ current_term[i] \in 0..MaxTerm
    BY <2>1 DEF AppendResp, TypeOK
  <2> HIDE DEF resp
  <2>3. resp.term >= current_term[i]
    BY <1>4, <2>2, BoundAssumption
  <2> QED
    BY <1>1, <1>2, <1>4, <2>2, <2>3, StepDownStep
<1> QED
  BY <1>3, <1>4 DEF OnAppendReply

(* No step of a cluster whose servers do not restart and whose rounds do   *)
(* not overlap breaks the invariant of the election.                       *)
LEMMA ElectionStep ==
  ASSUME TypeOK, ElectionInv, Next, NoRestart, RoundsDoNotOverlap
  PROVE  ElectionInv'
<1>1. Stays
  BY VotesStay DEF Stays
<1>2. ASSUME NEW i \in Server, StartLeaderElection(i) PROVE ElectionInv'
  BY <1>1, <1>2, StartLeaderElectionStep
<1>3. ASSUME NEW i \in Server, Crash(i) \/ CrashOnEmptyLog(i) PROVE ElectionInv'
  <2>1. Stop(i)
    BY <1>3 DEF Crash, CrashOnEmptyLog
  <2>2. NoNewVoteCall
    BY <2>1 DEF Stop, NoNewVoteCall, Idle
  <2> QED
    BY <2>1, <2>2, QuietStep DEF Stop, roleVars
<1>4. ASSUME NEW i \in Server, Restart(i) PROVE FALSE
  BY <1>4 DEF Restart, NoRestart, TypeOK
<1>5. ASSUME NEW i \in Server, NEW j \in Server, SendRequestVote(i, j) PROVE ElectionInv'
  BY <1>5, SendRequestVoteStep
<1>6. ASSUME NEW i \in Server, NEW j \in Server, HandleRequestVote(i, j) PROVE ElectionInv'
  <2> DEFINE req == rpc[i][j].req
             slot == [st |-> "voted", req |-> req, resp |-> VoteResponse(j, i, req)]
  <2>1. req \in VoteReq /\ OnRequestVote(j, i, req) /\ rpc[i][j].st = "vote"
    BY <1>6, SlotTypes DEF HandleRequestVote
  <2>2. rpc' = [rpc EXCEPT ![i][j] = slot]
    BY <1>6 DEF HandleRequestVote
  <2>3. slot.req = req /\ slot.resp = VoteResponse(j, i, req)
    OBVIOUS
  <2> HIDE DEF slot
  <2>4. /\ rpc'[i][j] = slot
        /\ \A k, q \in Server : k # i \/ q # j => rpc'[k][q] = rpc[k][q]
    BY <2>2 DEF TypeOK
  <2> QED
    BY <1>1, <2>1, <2>3, <2>4, OnRequestVoteStep
<1>7. ASSUME NEW i \in Server, NEW j \in Server, OnVoteReply(i, j) PROVE ElectionInv'
  BY <1>7, OnVoteReplyStep
<1>8. ASSUME NEW i \in Server, NEW j \in Server, SendAppendEntries(i, j) PROVE ElectionInv'
  <2>1. UNCHANGED <<current_term, current_role, vote_pool, vote_for>>
    BY <1>8 DEF SendAppendEntries, roleVars
  <2>2. NoNewVoteCall
    BY <1>8 DEF SendAppendEntries, NoNewVoteCall, TypeOK
  <2> QED
    BY <2>1, <2>2, QuietStep
<1>9. ASSUME NEW i \in Server, NEW j \in Server, HandleAppendEntries(i, j) PROVE ElectionInv'
  <2>1. rpc[i][j].req \in AppendReq /\ OnAppendEntries(j, i, rpc[i][j].req)
    BY <1>9, SlotTypes DEF HandleAppendEntries
  <2>2. NoNewVoteCall
    BY <1>9 DEF HandleAppendEntries, NoNewVoteCall, TypeOK
  <2> QED
    BY <2>1, <2>2, OnAppendEntriesStep
<1>10. ASSUME NEW i \in Server, NEW j \in Server, OnAppendReply(i, j) PROVE ElectionInv'
  BY <1>10, OnAppendReplyStep
<1>11. ASSUME NEW i \in Server, NEW j \in Server, LoseCall(i, j) PROVE ElectionInv'
  <2>1. UNCHANGED <<current_term, current_role, vote_pool, vote_for>>
    BY <1>11 DEF LoseCall, roleVars
  <2>2. NoNewVoteCall
    BY <1>11 DEF LoseCall, NoNewVoteCall, Idle, TypeOK
  <2> QED
    BY <2>1, <2>2, QuietStep
<1>12. ASSUME NEW m \in orphans, HandleOrphan(m) PROVE ElectionInv'
  <2>1. m \in Orphan /\ m.from \in Server /\ m.to \in Server
    BY DEF TypeOK, Orphan
  <2>2. NoNewVoteCall /\ UNCHANGED rpc
    BY <1>12 DEF HandleOrphan, NoNewVoteCall
  <2>3. CASE m.kind = "vote" /\ OnRequestVote(m.to, m.from, m.req)
    <3>1. m.req \in VoteReq
      BY <2>1, <2>3 DEF Orphan
    <3> QED
      BY <1>1, <2>1, <2>2, <2>3, <3>1, OnRequestVoteStep
  <2>4. CASE m.kind = "append" /\ OnAppendEntries(m.to, m.from, m.req)
    <3>1. m.req \in AppendReq
      BY <2>1, <2>4 DEF Orphan
    <3> QED
      BY <2>1, <2>2, <2>4, <3>1, OnAppendEntriesStep
  <2> QED
    BY <1>12, <2>3, <2>4 DEF HandleOrphan
<1>13. ASSUME NEW o \in Op,
              \/ \E i \in Server : CheckIsLeader(o, i)
              \/ CheckLeaderId(o) \/ StampTerm(o) \/ AppendToLog(o) \/ AnswerClient(o)
       PROVE  ElectionInv'
  <2>1. UNCHANGED <<current_term, current_role, vote_pool, vote_for, rpc>>
    BY <1>13 DEF CheckIsLeader, CheckLeaderId, StampTerm, AppendToLog, AnswerClient, roleVars, netVars
  <2> QED
    BY <2>1, QuietStep DEF NoNewVoteCall
<1> QED
  BY <1>2, <1>3, <1>4, <1>5, <1>6, <1>7, <1>8, <1>9, <1>10, <1>11, <1>12, <1>13 DEF Next

(* Two quorums share a server, which voted only once.                      *)
LEMMA QuorumsIntersect ==
  ASSUME NEW P \in SUBSET Server, NEW Q \in SUBSET Server,
         Cardinality(P) >= quorum_size, Cardinality(Q) >= quorum_size
  PROVE  P \cap Q # {}
<1>1. Cardinality(Server) \in Nat
  BY ServerAssumption, FS_CardinalityType
<1>2. 2 * quorum_size > Cardinality(Server)
  BY <1>1 DEF quorum_size
<1>3. /\ IsFiniteSet(P) /\ Cardinality(P) \in Nat
      /\ IsFiniteSet(Q) /\ Cardinality(Q) \in Nat
  BY ServerAssumption, FS_Subset, FS_CardinalityType
<1>4. quorum_size \in Nat
  BY <1>1 DEF quorum_size
<1>5. Cardinality(P) + Cardinality(Q) > Cardinality(Server)
  BY <1>1, <1>2, <1>3, <1>4
<1> QED
  BY <1>5, ServerAssumption, FS_MajoritiesIntersect

LEMMA InvImpliesSafety == TypeOK /\ ElectionInv => ElectionSafety
<1> SUFFICES ASSUME TypeOK, ElectionInv, NEW i \in Server, NEW j \in Server,
                    current_role[i] = "Leader", current_role[j] = "Leader",
                    current_term[i] = current_term[j]
             PROVE  i = j
  BY DEF ElectionSafety
<1>1. PICK v \in Server : v \in vote_pool[i] /\ v \in vote_pool[j]
  <2>1. vote_pool[i] \in SUBSET Server /\ vote_pool[j] \in SUBSET Server
    BY DEF TypeOK
  <2>2. Cardinality(vote_pool[i]) >= quorum_size /\ Cardinality(vote_pool[j]) >= quorum_size
    BY DEF ElectionInv, LeadersHaveQuorum
  <2> QED
    BY <2>1, <2>2, QuorumsIntersect
<1>2. vote_for[v][current_term[i]] = i /\ vote_for[v][current_term[j]] = j
  BY <1>1 DEF ElectionInv, PoolHoldsVotesOfRound
<1> QED
  BY <1>2

(* The promise of RaftConsensus.h:136-146 for every cluster size: no two   *)
(* leaders in a term, in whatever order votes are asked, given and counted *)
(* and requests are lost or handled late, if rounds do not overlap.        *)
THEOREM OneLeaderPerTerm == RoundsSpec => [](ElectionInv /\ ElectionSafety)
<1>1. Init => ElectionInv
  BY DEF Init, Idle, ElectionInv, VotesInReachedTerms, PoolHoldsVotesOfRound, GrantsAreBacked,
         CallsAreOfTheRound, LeadersHaveQuorum
<1>2. TypeOK /\ [Next /\ NoRestart /\ RoundsDoNotOverlap]_vars => TypeOK'
  BY TypeStep
<1>3. TypeOK /\ ElectionInv /\ [Next /\ NoRestart /\ RoundsDoNotOverlap]_vars => ElectionInv'
  <2>1. ASSUME TypeOK, ElectionInv, UNCHANGED vars PROVE ElectionInv'
    BY <2>1, QuietStep DEF vars, roleVars, netVars, NoNewVoteCall
  <2> QED
    BY <2>1, ElectionStep
<1> QED
  BY InitType, InvImpliesSafety, <1>1, <1>2, <1>3, PTL DEF RoundsSpec

-----------------------------------------------------------------------------
(* Who has won a term, by any record vf of the votes.                      *)
Won(vf, t, s) == Cardinality({j \in Server : vf[j][t] = s}) >= quorum_size

WinnerIn(vf, t) ==
  IF \E s \in Server : Won(vf, t, s) THEN CHOOSE s \in Server : Won(vf, t, s) ELSE None

LEMMA WinnerIsIn ==
  ASSUME NEW t
  PROVE  Winner(t) = WinnerIn(vote_for, t) /\ Winner(t)' = WinnerIn(vote_for', t)
BY DEF Winner, WinnerIn, Wins, Won, Voters, quorum_size

LEMMA OneWinner ==
  ASSUME NEW vf, NEW t, NEW s \in Server, Won(vf, t, s)
  PROVE  WinnerIn(vf, t) = s
<1>1. ASSUME NEW a \in Server, Won(vf, t, a) PROVE a = s
  <2> DEFINE P == {j \in Server : vf[j][t] = a}
             Q == {j \in Server : vf[j][t] = s}
  <2>1. P \in SUBSET Server /\ Q \in SUBSET Server
    OBVIOUS
  <2>2. Cardinality(P) >= quorum_size /\ Cardinality(Q) >= quorum_size
    BY <1>1 DEF Won
  <2>3. P \cap Q # {}
    <3> HIDE DEF P, Q
    <3> QED
      BY <2>1, <2>2, QuorumsIntersect
  <2> QED
    BY <2>3
<1> HIDE DEF Won
<1> QED
  BY <1>1 DEF WinnerIn

LEMMA NoWinner ==
  ASSUME NEW vf, NEW t
  PROVE  WinnerIn(vf, t) = None \/ (WinnerIn(vf, t) \in Server /\ Won(vf, t, WinnerIn(vf, t)))
BY OneWinner DEF WinnerIn

LEMMA WonStays ==
  ASSUME NEW vf, NEW wf, NEW t, NEW s \in Server, Won(vf, t, s),
         \A j \in Server : vf[j][t] = s => wf[j][t] = s
  PROVE  Won(wf, t, s)
<1> DEFINE P == {j \in Server : vf[j][t] = s}
           Q == {j \in Server : wf[j][t] = s}
<1>1. P \subseteq Q /\ P \subseteq Server /\ Q \subseteq Server
  OBVIOUS
<1>2. Cardinality(P) >= quorum_size
  BY DEF Won
<1>3. Cardinality(Q) >= quorum_size
  <2>1. quorum_size \in Nat
    BY ServerAssumption, FS_CardinalityType DEF quorum_size
  <2> HIDE DEF P, Q
  <2>2. IsFiniteSet(P) /\ IsFiniteSet(Q)
    BY <1>1, ServerAssumption, FS_Subset
  <2>3. Cardinality(P) <= Cardinality(Q) /\ Cardinality(P) \in Nat /\ Cardinality(Q) \in Nat
    BY <1>1, <2>2, FS_Subset, FS_CardinalityType
  <2> QED
    BY <1>2, <2>1, <2>3
<1> QED
  BY <1>3 DEF Won

(* A term once won stays so, because votes stay.                           *)
LEMMA ElectedStays ==
  ASSUME TypeOK, Stays, NEW t \in Term, Winner(t) # None
  PROVE  Winner(t)' = Winner(t)
<1> DEFINE s == WinnerIn(vote_for, t)
<1>1. s \in Server /\ Won(vote_for, t, s)
  BY WinnerIsIn, NoWinner
<1>2. \A j \in Server : vote_for[j][t] = s => vote_for'[j][t] = s
  BY <1>1, ServerAssumption DEF Stays
<1> HIDE DEF s
<1>3. WinnerIn(vote_for', t) = s
  BY <1>1, <1>2, WonStays, OneWinner
<1> QED
  BY <1>3, WinnerIsIn DEF s

LEMMA SameVotesSameWinner ==
  ASSUME NEW t, \A j \in Server : vote_for'[j][t] = vote_for[j][t]
  PROVE  Winner(t)' = Winner(t)
<1>1. \A s \in Server : Won(vote_for', t, s) <=> Won(vote_for, t, s)
  <2> SUFFICES ASSUME NEW s \in Server PROVE Won(vote_for', t, s) <=> Won(vote_for, t, s)
    OBVIOUS
  <2>1. {j \in Server : vote_for'[j][t] = s} = {j \in Server : vote_for[j][t] = s}
    OBVIOUS
  <2> QED
    BY <2>1 DEF Won
<1>2. WinnerIn(vote_for', t) = WinnerIn(vote_for, t)
  <2>1. CASE \E s \in Server : Won(vote_for, t, s)
    <3>1. PICK s \in Server : Won(vote_for, t, s) /\ Won(vote_for', t, s)
      BY <1>1, <2>1
    <3> QED
      BY <3>1, OneWinner
  <2>2. CASE ~\E s \in Server : Won(vote_for, t, s)
    BY <1>1, <2>2 DEF WinnerIn
  <2> QED
    BY <2>1, <2>2
<1> QED
  BY <1>2, WinnerIsIn

-----------------------------------------------------------------------------
(* The state of Election *)

Elected == [t \in Term |-> Winner(t)]

TermLed(i) == IF current_role[i] = "Leader" THEN current_term[i] ELSE 0
Leading == [i \in Server |-> TermLed(i)]

Mapped == Elections!Next \/ UNCHANGED Elections!vars

LEMMA StutterIsMapped ==
  ASSUME Elected' = Elected, Leading' = Leading
  PROVE  Mapped
BY DEF Mapped, Elections!vars, Elected, Leading, TermLed

LEMMA ElectIsMapped ==
  ASSUME NEW s \in Server, NEW t \in Term, Elected[t] = None,
         Elected' = [Elected EXCEPT ![t] = s],
         \/ Leading' = Leading
         \/ \E v \in Server : Leading' = [Leading EXCEPT ![v] = 0]
  PROVE  Mapped
<1>1. Elections!Elect(s, t)
  BY DEF Elections!Elect, Elections!Resigned, Elected, Leading, TermLed
<1> QED
  BY <1>1 DEF Mapped, Elections!Next

LEMMA ResignIsMapped ==
  ASSUME NEW s \in Server, Leading[s] # 0, Elected' = Elected, Leading' = [Leading EXCEPT ![s] = 0]
  PROVE  Mapped
<1>1. Elections!Resign(s)
  BY DEF Elections!Resign, Elections!Resigned, Elected, Leading, TermLed
<1> QED
  BY <1>1 DEF Mapped, Elections!Next

LEMMA LeadIsMapped ==
  ASSUME NEW s \in Server, NEW t \in Term, Elected[t] = s, Leading[s] = 0,
         Elected' = Elected, Leading' = [Leading EXCEPT ![s] = t]
  PROVE  Mapped
<1>1. Elections!Lead(s, t)
  BY DEF Elections!Lead, Elected, Leading, TermLed
<1> QED
  BY <1>1 DEF Mapped, Elections!Next

-----------------------------------------------------------------------------
(* Steps *)

(* A step in which votes are given in one term at most, and one server at  *)
(* most gives up leading.                                                  *)
LEMMA VoteOrResign ==
  ASSUME TypeOK, TypeOK', Stays,
         NEW t, \A u \in Term \ {t} : \A j \in Server : vote_for'[j][u] = vote_for[j][u],
         NEW i \in Server, \A k \in Server \ {i} : TermLed(k)' = TermLed(k),
         TermLed(i)' \in {TermLed(i), 0}
  PROVE  Mapped
<1>1. \A u \in Term \ {t} : Winner(u)' = Winner(u)
  BY SameVotesSameWinner
<1>2. Leading' = Leading \/ (Leading[i] # 0 /\ Leading' = [Leading EXCEPT ![i] = 0])
  <2>1. CASE TermLed(i)' = TermLed(i)
    BY <2>1 DEF Leading
  <2>2. CASE TermLed(i)' = 0 /\ TermLed(i) # 0
    <3>1. \A k \in Server : TermLed(k)' = IF k = i THEN 0 ELSE TermLed(k)
      BY <2>2
    <3>2. Leading' = [k \in Server |-> TermLed(k)']
      BY DEF Leading
    <3>3. Leading' = [k \in Server |-> IF k = i THEN 0 ELSE Leading[k]]
      BY <3>1, <3>2 DEF Leading
    <3>4. Leading = [k \in Server |-> Leading[k]] /\ Leading[i] # 0
      BY <2>2 DEF Leading
    <3> QED
      BY <3>3, <3>4
  <2> QED
    BY <2>1, <2>2
<1>3. CASE Elected' = Elected
  BY <1>2, <1>3, StutterIsMapped, ResignIsMapped
<1>4. CASE Elected' # Elected
  <2>1. t \in Term /\ Winner(t)' # Winner(t)
    BY <1>1, <1>4 DEF Elected
  <2>2. Winner(t) = None
    BY <2>1, ElectedStays
  <2>3. Winner(t)' \in Server
    BY <2>1, <2>2, WinnerIsIn, NoWinner
  <2>4. PICK s \in Server : s = Winner(t)'
    BY <2>3
  <2>5. Elected[t] = None /\ Elected' = [Elected EXCEPT ![t] = s]
    <3>1. \A u \in Term : Winner(u)' = IF u = t THEN s ELSE Winner(u)
      BY <1>1, <2>4
    <3>2. Elected' = [u \in Term |-> Winner(u)']
      BY DEF Elected
    <3>3. Elected' = [u \in Term |-> IF u = t THEN s ELSE Elected[u]]
      BY <3>1, <3>2 DEF Elected
    <3>4. Elected = [u \in Term |-> Elected[u]]
      BY DEF Elected
    <3>5. Elected[t] = None
      BY <2>1, <2>2 DEF Elected
    <3> QED
      BY <2>1, <3>3, <3>4, <3>5
  <2> QED
    BY <1>2, <2>1, <2>5, ElectIsMapped
<1> QED
  BY <1>3, <1>4

(* Steps that leave roles, terms and votes alone.                          *)
LEMMA QuietIsMapped ==
  ASSUME UNCHANGED <<current_term, current_role, vote_for>>
  PROVE  Mapped
<1>1. \A t : Winner(t)' = Winner(t)
  BY SameVotesSameWinner
<1>2. Elected' = Elected /\ Leading' = Leading
  BY <1>1 DEF Elected, Leading, TermLed
<1> QED
  BY <1>2, StutterIsMapped

(* A server that becomes a follower, or stays one.                         *)
LEMMA StepDownTermLed ==
  ASSUME TypeOK, NEW i \in Server, NEW t, NEW l, ChangeToFollower(i, t, l)
  PROVE  TermLed(i)' = 0 /\ \A k \in Server \ {i} : TermLed(k)' = TermLed(k)
BY DEF ChangeToFollower, TermLed, TypeOK, Role

LEMMA StepDownIsMapped ==
  ASSUME TypeOK, TypeOK', Stays, UNCHANGED vote_for,
         NEW i \in Server, NEW t, NEW l, ChangeToFollower(i, t, l)
  PROVE  Mapped
BY VoteOrResign, StepDownTermLed

LEMMA StartElectionIsMapped ==
  ASSUME TypeOK, TypeOK', Stays, NEW i \in Server, StartLeaderElection(i)
  PROVE  Mapped
<1> DEFINE t == current_term[i] + 1
<1>1. \A u \in Term \ {t} : \A j \in Server : vote_for'[j][u] = vote_for[j][u]
  <2>1. vote_for' = vote_for \/ vote_for' = [vote_for EXCEPT ![i][t] = i]
    BY DEF StartLeaderElection
  <2>2. vote_for \in [Server -> [Term -> Server \cup {None}]]
    BY DEF TypeOK
  <2> HIDE DEF t
  <2> QED
    BY <2>1, <2>2
<1>2. TermLed(i)' = 0 /\ \A k \in Server \ {i} : TermLed(k)' = TermLed(k)
  BY DEF StartLeaderElection, TermLed, TypeOK, Role
<1> QED
  BY <1>1, <1>2, VoteOrResign

LEMMA OnRequestVoteIsMapped ==
  ASSUME TypeOK, TypeOK', Stays, NEW i \in Server, NEW j \in Server, NEW req \in VoteReq,
         OnRequestVote(j, i, req)
  PROVE  Mapped
<1>1. \A u \in Term \ {req.term} : \A k \in Server : vote_for'[k][u] = vote_for[k][u]
  <2>1. vote_for' = vote_for \/ vote_for' = [vote_for EXCEPT ![j][req.term] = i]
    BY DEF OnRequestVote
  <2>2. vote_for \in [Server -> [Term -> Server \cup {None}]]
    BY DEF TypeOK
  <2> QED
    BY <2>1, <2>2
<1>2. /\ TermLed(j)' \in {TermLed(j), 0}
      /\ \A k \in Server \ {j} : TermLed(k)' = TermLed(k)
  <2>1. CASE req.term > current_term[j]
    BY <2>1, StepDownTermLed DEF OnRequestVote
  <2>2. CASE ~(req.term > current_term[j])
    BY <2>2 DEF OnRequestVote, roleVars, TermLed
  <2> QED
    BY <2>1, <2>2
<1> QED
  BY <1>1, <1>2, VoteOrResign

LEMMA OnAppendEntriesIsMapped ==
  ASSUME TypeOK, TypeOK', Stays, NEW i \in Server, NEW j \in Server, NEW req \in AppendReq,
         OnAppendEntries(j, i, req)
  PROVE  Mapped
<1>1. UNCHANGED vote_for
  BY DEF OnAppendEntries
<1>2. CASE SlowTerm(j, req)
  BY <1>1, <1>2, QuietIsMapped DEF OnAppendEntries, roleVars
<1>3. CASE ~SlowTerm(j, req) /\ (req.term > current_term[j] \/ current_role[j] = "Candidate")
  BY <1>1, <1>3, StepDownIsMapped DEF OnAppendEntries
<1>4. CASE ~SlowTerm(j, req) /\ ~(req.term > current_term[j] \/ current_role[j] = "Candidate")
  BY <1>1, <1>4, QuietIsMapped DEF OnAppendEntries
<1> QED
  BY <1>2, <1>3, <1>4

(* The answer that completes the pool: its server leads the term that its  *)
(* pool elected it in.                                                     *)
LEMMA ChangeToLeaderIsMapped ==
  ASSUME TypeOK, TypeOK', ElectionInv, ElectionInv', NEW i \in Server,
         current_role[i] = "Candidate", UNCHANGED <<vote_for, current_term>>, ChangeToLeader(i)
  PROVE  Mapped
<1> DEFINE t == current_term[i]
<1>1. t \in Term /\ t # 0
  BY DEF TypeOK, Term
<1>2. current_role' = [current_role EXCEPT ![i] = "Leader"]
  BY DEF ChangeToLeader
<1>3. Winner(t) = i
  <2> DEFINE P == vote_pool'[i]
             Q == {j \in Server : vote_for[j][t] = i}
  <2>1. current_role'[i] = "Leader"
    BY <1>2 DEF TypeOK
  <2>2. P \subseteq Q /\ Q \subseteq Server
    BY <2>1 DEF ElectionInv, PoolHoldsVotesOfRound, TypeOK
  <2>3. Cardinality(P) >= quorum_size
    BY <2>1 DEF ElectionInv, LeadersHaveQuorum, quorum_size
  <2> HIDE DEF P
  <2>4. Cardinality(Q) >= quorum_size
    <3>1. quorum_size \in Nat
      BY ServerAssumption, FS_CardinalityType DEF quorum_size
    <3> HIDE DEF Q
    <3>2. IsFiniteSet(P) /\ IsFiniteSet(Q)
      BY <2>2, ServerAssumption, FS_Subset
    <3>3. Cardinality(P) <= Cardinality(Q) /\ Cardinality(P) \in Nat /\ Cardinality(Q) \in Nat
      BY <2>2, <3>2, FS_Subset, FS_CardinalityType
    <3> QED
      BY <2>3, <3>1, <3>3
  <2>5. Won(vote_for, t, i)
    BY <2>4 DEF Won
  <2> QED
    BY <2>5, OneWinner, WinnerIsIn
<1>4. Elected' = Elected
  <2>1. \A u : Winner(u)' = Winner(u)
    BY SameVotesSameWinner
  <2> QED
    BY <2>1 DEF Elected
<1>5. Leading' = [Leading EXCEPT ![i] = t]
  BY <1>2 DEF Leading, TermLed, TypeOK
<1>6. Elected[t] = i /\ Leading[i] = 0
  BY <1>1, <1>3 DEF Elected, Leading, TermLed
<1> HIDE DEF t
<1> QED
  BY <1>1, <1>4, <1>5, <1>6, LeadIsMapped

LEMMA StepIsMapped ==
  ASSUME TypeOK, TypeOK', ElectionInv, ElectionInv', [Next /\ NoRestart]_vars
  PROVE  Mapped
<1>1. CASE UNCHANGED vars
  BY <1>1, QuietIsMapped DEF vars, roleVars
<1> SUFFICES ASSUME Next, NoRestart PROVE Mapped
  BY <1>1
<1>2. Stays
  BY VotesStay DEF Stays
<1>3. ASSUME NEW i \in Server, StartLeaderElection(i) PROVE Mapped
  BY <1>2, <1>3, StartElectionIsMapped
<1>4. ASSUME NEW i \in Server, Crash(i) \/ CrashOnEmptyLog(i) PROVE Mapped
  BY <1>4, QuietIsMapped DEF Crash, CrashOnEmptyLog, Stop, roleVars
<1>5. ASSUME NEW i \in Server, Restart(i) PROVE FALSE
  BY <1>5 DEF Restart, NoRestart, TypeOK
<1>6. ASSUME NEW i \in Server, NEW j \in Server,
             SendRequestVote(i, j) \/ SendAppendEntries(i, j) \/ LoseCall(i, j)
      PROVE  Mapped
  BY <1>6, QuietIsMapped DEF SendRequestVote, SendAppendEntries, LoseCall, roleVars
<1>7. ASSUME NEW i \in Server, NEW j \in Server, HandleRequestVote(i, j) PROVE Mapped
  BY <1>2, <1>7, SlotTypes, OnRequestVoteIsMapped DEF HandleRequestVote
<1>8. ASSUME NEW i \in Server, NEW j \in Server, HandleAppendEntries(i, j) PROVE Mapped
  BY <1>2, <1>8, SlotTypes, OnAppendEntriesIsMapped DEF HandleAppendEntries
<1>9. ASSUME NEW i \in Server, NEW j \in Server, OnVoteReply(i, j) PROVE Mapped
  <2>1. UNCHANGED <<vote_for, current_term>>
    BY <1>9 DEF OnVoteReply, roleVars
  <2>2. (current_role[i] = "Candidate" /\ ChangeToLeader(i)) \/ UNCHANGED current_role
    BY <1>9 DEF OnVoteReply, VoteCounts, roleVars
  <2> QED
    BY <2>1, <2>2, ChangeToLeaderIsMapped, QuietIsMapped
<1>10. ASSUME NEW i \in Server, NEW j \in Server, OnAppendReply(i, j) PROVE Mapped
  <2>1. UNCHANGED vote_for
    BY <1>10 DEF OnAppendReply
  <2>2. UNCHANGED roleVars \/ ChangeToFollower(i, rpc[i][j].resp.term, None)
    BY <1>10 DEF OnAppendReply
  <2> QED
    BY <1>2, <2>1, <2>2, QuietIsMapped, StepDownIsMapped DEF roleVars
<1>11. ASSUME NEW m \in orphans, HandleOrphan(m) PROVE Mapped
  <2>1. m \in Orphan /\ m.from \in Server /\ m.to \in Server
    BY DEF TypeOK, Orphan
  <2>2. CASE m.kind = "vote" /\ OnRequestVote(m.to, m.from, m.req)
    <3>1. m.req \in VoteReq
      BY <2>1, <2>2 DEF Orphan
    <3> QED
      BY <1>2, <2>1, <2>2, <3>1, OnRequestVoteIsMapped
  <2>3. CASE m.kind = "append" /\ OnAppendEntries(m.to, m.from, m.req)
    <3>1. m.req \in AppendReq
      BY <2>1, <2>3 DEF Orphan
    <3> QED
      BY <1>2, <2>1, <2>3, <3>1, OnAppendEntriesIsMapped
  <2> QED
    BY <1>11, <2>2, <2>3 DEF HandleOrphan
<1>12. ASSUME NEW o \in Op,
              \/ \E i \in Server : CheckIsLeader(o, i)
              \/ CheckLeaderId(o) \/ StampTerm(o) \/ AppendToLog(o) \/ AnswerClient(o)
       PROVE  Mapped
  BY <1>12, QuietIsMapped
     DEF CheckIsLeader, CheckLeaderId, StampTerm, AppendToLog, AnswerClient, roleVars
<1> QED
  BY <1>3, <1>4, <1>5, <1>6, <1>7, <1>8, <1>9, <1>10, <1>11, <1>12 DEF Next

LEMMA InitIsMapped ==
  ASSUME Init
  PROVE  Elections!Init
<1>1. \A t \in Term : Winner(t) = None
  <2> SUFFICES ASSUME NEW t \in Term, NEW s \in Server, Won(vote_for, t, s) PROVE FALSE
    BY WinnerIsIn, NoWinner
  <2>1. {j \in Server : vote_for[j][t] = s} = {}
    BY ServerAssumption DEF Init
  <2>2. quorum_size >= 1
    BY ServerAssumption, FS_CardinalityType DEF quorum_size
  <2>3. quorum_size \in Nat
    BY ServerAssumption, FS_CardinalityType DEF quorum_size
  <2>4. 0 >= quorum_size
    BY <2>1, FS_EmptySet DEF Won
  <2> QED
    BY <2>2, <2>3, <2>4
<1>2. \A i \in Server : TermLed(i) = 0
  BY DEF Init, TermLed
<1> QED
  BY <1>1, <1>2 DEF Elections!Init, TermLed

(* RaftConsensus elects as Election says, for any number of servers and    *)
(* terms: a term is won once and for good, by the quorum of one candidate, *)
(* and ChangeToLeader is reached only by the server that has won, however  *)
(* late it learns of it and whatever requests are lost or handled late.    *)
THEOREM ElectionImplemented == RoundsSpec => ImplementsElection
<1>1. RoundsSpec => [](TypeOK /\ ElectionInv)
  <2>1. RoundsSpec => []TypeOK
    <3>1. TypeOK /\ [Next /\ NoRestart /\ RoundsDoNotOverlap]_vars => TypeOK'
      BY TypeStep
    <3> QED
      BY InitType, <3>1, PTL DEF RoundsSpec
  <2> QED
    BY <2>1, OneLeaderPerTerm, PTL
<1>2. Init => Elections!Init
  BY InitIsMapped
<1>3. ASSUME TypeOK, TypeOK', ElectionInv, ElectionInv', [Next /\ NoRestart /\ RoundsDoNotOverlap]_vars
      PROVE  [Elections!Next]_(Elections!vars)
  <2>1. [Next /\ NoRestart]_vars
    BY <1>3
  <2>2. Mapped
    BY <1>3, <2>1, StepIsMapped
  <2> QED
    BY <2>2 DEF Mapped
<1> QED
  BY <1>1, <1>2, <1>3, PTL DEF RoundsSpec, ImplementsElection, Elections!Spec

-----------------------------------------------------------------------------
(* The leader of a term                                                    *)

Leads(l, t) == current_term[l] > t \/ (current_term[l] = t /\ current_role[l] = "Leader")

(* leader_id comes from the sender of a request, so a request must carry a *)
(* term that its sender led, for as long as anyone may handle it.          *)
RequestsOfLeaders ==
  \A i, j \in Server : \A req \in Requests(i, j) : Leads(i, req.term)

LeaderInv == LeaderIdIsOfTerm /\ RequestsOfLeaders

-----------------------------------------------------------------------------
(* What a step may do to k: nobody gives up the leadership of a term it    *)
(* stays in, and a leader is named only by one of its requests.            *)
Advances(k) ==
  \/ current_term'[k] > current_term[k]
  \/ current_term'[k] = current_term[k] /\ (current_role[k] = "Leader" => current_role'[k] = "Leader")

Names(k) ==
  \/ leader_id'[k] = None
  \/ leader_id'[k] = leader_id[k] /\ current_term'[k] = current_term[k]
  \/ leader_id'[k] = k /\ current_role'[k] = "Leader"
  \/ leader_id'[k] \in Server /\ Leads(leader_id'[k], current_term'[k])

RolesAdvance == \A k \in Server : Advances(k) /\ Names(k)

LEMMA LeadsStays ==
  ASSUME TypeOK, TypeOK', NEW l \in Server, NEW t \in Nat, Leads(l, t), Advances(l)
  PROVE  current_term'[l] > t \/ (current_term'[l] = t /\ current_role'[l] = "Leader")
<1>1. current_term[l] \in Nat /\ current_term'[l] \in Nat
  BY BoundAssumption DEF TypeOK
<1> QED
  BY <1>1 DEF Leads, Advances

(* A step that leaves the roles alone.                                     *)
LEMMA QuietNames ==
  ASSUME UNCHANGED roleVars
  PROVE  RolesAdvance
BY DEF RolesAdvance, roleVars, Advances, Names

-----------------------------------------------------------------------------
(* Steps *)

LEMMA StartElectionNames ==
  ASSUME TypeOK, NEW i \in Server, StartLeaderElection(i)
  PROVE  RolesAdvance
<1>1. current_term \in [Server -> Nat] /\ leader_id \in [Server -> Server \cup {None}]
      /\ current_role \in [Server -> Role]
  BY BoundAssumption DEF TypeOK
<1>2. /\ current_term' = [current_term EXCEPT ![i] = @ + 1]
      /\ leader_id' = [leader_id EXCEPT ![i] = None]
      /\ current_role' = [current_role EXCEPT ![i] = "Candidate"]
  BY DEF StartLeaderElection
<1> QED
  BY <1>1, <1>2 DEF RolesAdvance, Advances, Names

(* Into a later term, or out of a candidacy.                               *)
LEMMA StepDownNames ==
  ASSUME TypeOK, NEW i \in Server, NEW t \in Nat, NEW l, ChangeToFollower(i, t, l),
         t > current_term[i] \/ (t = current_term[i] /\ current_role[i] = "Candidate"),
         l = None \/ (l \in Server /\ Leads(l, t))
  PROVE  RolesAdvance
<1>1. current_term \in [Server -> Nat] /\ leader_id \in [Server -> Server \cup {None}]
      /\ current_role \in [Server -> Role]
  BY BoundAssumption DEF TypeOK
<1>2. /\ current_term' = [current_term EXCEPT ![i] = t]
      /\ leader_id' = [leader_id EXCEPT ![i] = l]
      /\ current_role' = [current_role EXCEPT ![i] = "Follower"]
  BY DEF ChangeToFollower
<1> QED
  BY <1>1, <1>2 DEF RolesAdvance, Advances, Names

LEMMA OnRequestVoteNames ==
  ASSUME TypeOK, NEW i \in Server, NEW j \in Server, NEW req \in VoteReq, OnRequestVote(j, i, req)
  PROVE  RolesAdvance
<1>1. req.term \in Nat
  BY BoundAssumption DEF VoteReq, Term
<1>2. CASE req.term > current_term[j]
  BY <1>1, <1>2, StepDownNames DEF OnRequestVote
<1>3. CASE ~(req.term > current_term[j])
  BY <1>3, QuietNames DEF OnRequestVote
<1> QED
  BY <1>2, <1>3

LEMMA OnAppendEntriesNames ==
  ASSUME TypeOK, NEW i \in Server, NEW j \in Server, NEW req \in AppendReq,
         Leads(i, req.term), OnAppendEntries(j, i, req)
  PROVE  RolesAdvance
<1>1. req.term \in Nat /\ current_term[j] \in Nat
  BY BoundAssumption DEF AppendReq, TypeOK
<1>2. CASE SlowTerm(j, req)
  BY <1>2, QuietNames DEF OnAppendEntries
<1>3. CASE ~SlowTerm(j, req) /\ (req.term > current_term[j] \/ current_role[j] = "Candidate")
  <2>1. ChangeToFollower(j, req.term, i)
    BY <1>3 DEF OnAppendEntries
  <2>2. req.term > current_term[j] \/ (req.term = current_term[j] /\ current_role[j] = "Candidate")
    BY <1>1, <1>3 DEF SlowTerm
  <2> QED
    BY <1>1, <2>1, <2>2, StepDownNames
<1>4. CASE ~SlowTerm(j, req) /\ ~(req.term > current_term[j] \/ current_role[j] = "Candidate")
  <2>1. /\ leader_id' = [leader_id EXCEPT ![j] = IF @ = None THEN i ELSE @]
        /\ UNCHANGED <<current_term, current_role>>
    BY <1>4 DEF OnAppendEntries
  <2>2. req.term = current_term[j]
    BY <1>1, <1>4 DEF SlowTerm
  <2>3. leader_id \in [Server -> Server \cup {None}]
    BY DEF TypeOK
  <2> QED
    BY <2>1, <2>2, <2>3 DEF RolesAdvance, Advances, Names
<1> QED
  BY <1>2, <1>3, <1>4

LEMMA OnVoteReplyNames ==
  ASSUME TypeOK, NEW i \in Server, NEW j \in Server, OnVoteReply(i, j)
  PROVE  RolesAdvance
<1>1. current_term \in [Server -> Nat] /\ leader_id \in [Server -> Server \cup {None}]
      /\ current_role \in [Server -> Role]
  BY BoundAssumption DEF TypeOK
<1>2. UNCHANGED current_term
  BY DEF OnVoteReply, roleVars
<1>3. CASE ChangeToLeader(i)
  BY <1>1, <1>2, <1>3 DEF ChangeToLeader, RolesAdvance, Advances, Names
<1>4. CASE UNCHANGED <<current_role, leader_id>>
  BY <1>2, <1>4 DEF RolesAdvance, Advances, Names
<1> QED
  BY <1>3, <1>4 DEF OnVoteReply, roleVars

LEMMA OnAppendReplyNames ==
  ASSUME TypeOK, NEW i \in Server, NEW j \in Server, OnAppendReply(i, j)
  PROVE  RolesAdvance
<1> DEFINE t == rpc[i][j].resp.term
<1>1. t \in 0..MaxTerm
  BY SlotTypes DEF OnAppendReply, AppendResp
<1>2. UNCHANGED roleVars \/ (t > current_term[i] /\ ChangeToFollower(i, t, None))
  BY DEF OnAppendReply
<1> HIDE DEF t
<1>3. t \in Nat
  BY <1>1, BoundAssumption
<1> QED
  BY <1>2, <1>3, QuietNames, StepDownNames

LEMMA RolesStep ==
  ASSUME TypeOK, RequestsOfLeaders, [Next /\ NoRestart]_vars
  PROVE  RolesAdvance
<1>1. ASSUME NEW i \in Server, NEW j \in Server, NEW req \in Requests(i, j), OnAppendEntries(j, i, req)
      PROVE  RolesAdvance
  BY <1>1, RequestTypes, OnAppendEntriesNames DEF RequestsOfLeaders
<1>2. ASSUME NEW i \in Server, StartLeaderElection(i) PROVE RolesAdvance
  BY <1>2, StartElectionNames
<1>3. ASSUME NEW i \in Server, Crash(i) \/ CrashOnEmptyLog(i) PROVE RolesAdvance
  BY <1>3, QuietNames DEF Crash, CrashOnEmptyLog, Stop
<1>4. ASSUME NEW i \in Server, Restart(i) PROVE RolesAdvance
  BY <1>4 DEF Restart, NoRestart, TypeOK, vars, procVars
<1>5. ASSUME NEW i \in Server, NEW j \in Server,
             SendRequestVote(i, j) \/ SendAppendEntries(i, j) \/ LoseCall(i, j)
      PROVE  RolesAdvance
  BY <1>5, QuietNames DEF SendRequestVote, SendAppendEntries, LoseCall
<1>6. ASSUME NEW i \in Server, NEW j \in Server, HandleRequestVote(i, j) PROVE RolesAdvance
  BY <1>6, SlotTypes, OnRequestVoteNames DEF HandleRequestVote
<1>7. ASSUME NEW i \in Server, NEW j \in Server, HandleAppendEntries(i, j) PROVE RolesAdvance
  <2>1. rpc[i][j].req \in Requests(i, j)
    BY <1>7 DEF HandleAppendEntries, Requests
  <2> QED
    BY <1>1, <1>7, <2>1 DEF HandleAppendEntries
<1>8. ASSUME NEW i \in Server, NEW j \in Server, OnVoteReply(i, j) PROVE RolesAdvance
  BY <1>8, OnVoteReplyNames
<1>9. ASSUME NEW i \in Server, NEW j \in Server, OnAppendReply(i, j) PROVE RolesAdvance
  BY <1>9, OnAppendReplyNames
<1>10. ASSUME NEW m \in orphans, HandleOrphan(m) PROVE RolesAdvance
  <2>1. m \in Orphan /\ m.from \in Server /\ m.to \in Server
    BY DEF TypeOK, Orphan
  <2>2. CASE m.kind = "vote" /\ OnRequestVote(m.to, m.from, m.req)
    <3>1. m.req \in VoteReq
      BY <2>1, <2>2 DEF Orphan
    <3> QED
      BY <2>1, <2>2, <3>1, OnRequestVoteNames
  <2>3. CASE m.kind = "append" /\ OnAppendEntries(m.to, m.from, m.req)
    <3>1. m.req \in Requests(m.from, m.to)
      BY <2>3 DEF Requests
    <3> QED
      BY <1>1, <2>1, <2>3, <3>1
  <2> QED
    BY <1>10, <2>2, <2>3 DEF HandleOrphan
<1>11. ASSUME NEW o \in Op, ClientStep(o) PROVE RolesAdvance
  BY <1>11, QuietNames
     DEF ClientStep, CheckIsLeader, CheckLeaderId, StampTerm, AppendToLog, AnswerClient
<1>12. CASE UNCHANGED vars
  BY <1>12, QuietNames DEF vars
<1> QED
  BY <1>2, <1>3, <1>4, <1>5, <1>6, <1>7, <1>8, <1>9, <1>10, <1>11, <1>12 DEF Next, ClientStep

LEMMA LeaderStep ==
  ASSUME TypeOK, LeaderInv, [Next /\ NoRestart]_vars
  PROVE  LeaderInv'
<1>1. TypeOK' /\ RolesAdvance
  BY TypeStep, RolesStep DEF LeaderInv
<1>2. LeaderIdIsOfTerm'
  <2> SUFFICES ASSUME NEW k \in Server, leader_id'[k] # None
               PROVE  \/ current_term'[leader_id'[k]] > current_term'[k]
                      \/ /\ current_term'[leader_id'[k]] = current_term'[k]
                         /\ current_role'[leader_id'[k]] = "Leader"
    BY DEF LeaderIdIsOfTerm
  <2>1. current_term'[k] \in Nat /\ leader_id'[k] \in Server
    BY <1>1, BoundAssumption DEF TypeOK
  <2>2. CASE leader_id'[k] = leader_id[k] /\ current_term'[k] = current_term[k]
    <3>1. Leads(leader_id[k], current_term[k])
      BY <2>2 DEF LeaderInv, LeaderIdIsOfTerm, Leads
    <3> QED
      BY <1>1, <2>1, <2>2, <3>1, LeadsStays DEF RolesAdvance
  <2>3. CASE leader_id'[k] = k /\ current_role'[k] = "Leader"
    BY <2>3
  <2>4. CASE Leads(leader_id'[k], current_term'[k])
    BY <1>1, <2>1, <2>4, LeadsStays DEF RolesAdvance
  <2> QED
    BY <1>1, <2>2, <2>3, <2>4 DEF RolesAdvance, Names
<1>3. RequestsOfLeaders'
  <2> SUFFICES ASSUME NEW i \in Server, NEW j \in Server, NEW req \in Requests(i, j)'
               PROVE  Leads(i, req.term)'
    BY DEF RequestsOfLeaders
  <2>1. req.term \in Nat /\ Leads(i, req.term)
    <3>1. CASE req \in Requests(i, j)
      BY <3>1, RequestTypes DEF LeaderInv, RequestsOfLeaders
    <3>2. CASE SendAppendEntries(i, j) /\ req = AppendEntriesRequest(i, j)
      BY <3>2, BoundAssumption DEF SendAppendEntries, AppendEntriesRequest, Leads, TypeOK
    <3> QED
      BY <3>1, <3>2, RequestsStep
  <2> QED
    BY <1>1, <2>1, LeadsStays DEF RolesAdvance, Leads
<1> QED
  BY <1>2, <1>3 DEF LeaderInv

(* The leader that GetLeader answers to a client has been elected: it      *)
(* leads the term of the server that names it, or has gone on to a later   *)
(* one.  leader_id is cleared with every change of term and set only by a  *)
(* request of the term (ChangeToFollower, OnAppendEntries), be it handled  *)
(* in its call or long after; only a server that comes back without its    *)
(* term can be named wrongly.                                              *)
THEOREM LeaderNamed == StableSpec => []LeaderIdIsOfTerm
<1>1. Init => TypeOK /\ LeaderInv
  <2>1. Init => LeaderInv
    BY DEF Init, LeaderInv, LeaderIdIsOfTerm, RequestsOfLeaders, Requests, Idle
  <2> QED
    BY <2>1, InitType
<1>2. TypeOK /\ LeaderInv /\ [Next /\ NoRestart]_vars => TypeOK' /\ LeaderInv'
  BY TypeStep, LeaderStep
<1>3. LeaderInv => LeaderIdIsOfTerm
  BY DEF LeaderInv
<1> QED
  BY <1>1, <1>2, <1>3, PTL DEF StableSpec

-----------------------------------------------------------------------------
(* Leaders and their logs, where terms are won once.                       *)

(* Every request to append was made by the winner of its term.             *)
RequestsOfWinners ==
  \A i, j \in Server : \A req \in Requests(i, j) : i # j /\ req.term \in Term /\ Wins(req.term, i)

WinnersInv == TypeOK /\ ElectionInv /\ LeaderInv /\ RequestsOfWinners

LEMMA LeaderWins ==
  ASSUME TypeOK, ElectionInv, NEW i \in Server, current_role[i] = "Leader"
  PROVE  current_term[i] \in Term /\ Wins(current_term[i], i)
<1> DEFINE t == current_term[i]
           P == vote_pool[i]
           Q == Voters(t, i)
<1>1. P \subseteq Q /\ Q \subseteq Server
  BY DEF ElectionInv, PoolHoldsVotesOfRound, TypeOK, Voters
<1>2. Cardinality(P) >= quorum_size
  BY DEF ElectionInv, LeadersHaveQuorum
<1>3. Cardinality(Q) >= quorum_size
  <2>1. quorum_size \in Nat
    BY ServerAssumption, FS_CardinalityType DEF quorum_size
  <2> HIDE DEF P, Q
  <2>2. IsFiniteSet(P) /\ IsFiniteSet(Q)
    BY <1>1, ServerAssumption, FS_Subset
  <2>3. Cardinality(P) <= Cardinality(Q) /\ Cardinality(P) \in Nat /\ Cardinality(Q) \in Nat
    BY <1>1, <2>2, FS_Subset, FS_CardinalityType
  <2> QED
    BY <1>2, <2>1, <2>3
<1> QED
  BY <1>3 DEF Wins, TypeOK

LEMMA WinsIsWon ==
  ASSUME NEW t, NEW s
  PROVE  (Wins(t, s) <=> Won(vote_for, t, s)) /\ (Wins(t, s)' <=> Won(vote_for', t, s))
BY DEF Wins, Won, Voters, quorum_size

LEMMA WinsOnce ==
  ASSUME NEW t, NEW s \in Server, NEW r \in Server, Wins(t, s), Wins(t, r)
  PROVE  s = r
BY WinsIsWon, OneWinner

LEMMA WinsStays ==
  ASSUME Stays, NEW t \in Term, NEW s \in Server, Wins(t, s)
  PROVE  Wins(t, s)'
<1>1. Won(vote_for, t, s)
  BY WinsIsWon
<1>2. \A j \in Server : vote_for[j][t] = s => vote_for'[j][t] = s
  BY ServerAssumption DEF Stays
<1>3. Won(vote_for', t, s)
  BY <1>1, <1>2, WonStays
<1> QED
  BY <1>3, WinsIsWon

LEMMA StepStays ==
  ASSUME TypeOK, [Next /\ NoRestart]_vars
  PROVE  Stays
BY VotesStay DEF Stays, vars

LEMMA WinnersStep ==
  ASSUME WinnersInv, [Next /\ NoRestart /\ RoundsDoNotOverlap]_vars
  PROVE  WinnersInv'
<1>1. TypeOK' /\ LeaderInv' /\ Stays
  BY TypeStep, LeaderStep, StepStays DEF WinnersInv
<1>2. ElectionInv'
  <2>1. CASE UNCHANGED vars
    BY <2>1, QuietStep DEF WinnersInv, vars, roleVars, netVars, NoNewVoteCall
  <2> QED
    BY <2>1, ElectionStep DEF WinnersInv
<1>3. RequestsOfWinners'
  <2> SUFFICES ASSUME NEW i \in Server, NEW j \in Server, NEW req \in Requests(i, j)'
               PROVE  i # j /\ req.term \in Term /\ Wins(req.term, i)'
    BY DEF RequestsOfWinners
  <2>1. i # j /\ req.term \in Term /\ Wins(req.term, i)
    <3>1. CASE req \in Requests(i, j)
      BY <3>1 DEF WinnersInv, RequestsOfWinners
    <3>2. CASE SendAppendEntries(i, j) /\ req = AppendEntriesRequest(i, j)
      BY <3>2, LeaderWins DEF WinnersInv, SendAppendEntries, AppendEntriesRequest
    <3> QED
      BY <3>1, <3>2, RequestsStep DEF WinnersInv
  <2> QED
    BY <1>1, <2>1, WinsStays
<1> QED
  BY <1>1, <1>2, <1>3 DEF WinnersInv

LEMMA WinnersInit ==
  ASSUME Init
  PROVE  WinnersInv
<1>1. ElectionInv
  BY DEF Init, Idle, ElectionInv, VotesInReachedTerms, PoolHoldsVotesOfRound, GrantsAreBacked,
         CallsAreOfTheRound, LeadersHaveQuorum
<1>2. LeaderInv /\ RequestsOfWinners
  BY DEF Init, LeaderInv, LeaderIdIsOfTerm, RequestsOfLeaders, RequestsOfWinners, Requests, Idle
<1> QED
  BY <1>1, <1>2, InitType DEF WinnersInv

(* A request of the term that a server leads would come from another       *)
(* winner of the term, and one of a later term ends the leadership.        *)
LEMMA LeaderKeepsLog ==
  ASSUME WinnersInv, [Next /\ NoRestart]_vars, NEW i \in Server,
         current_role[i] = "Leader", current_role'[i] = "Leader"
  PROVE  log'[i] = log[i] \/ \E o \in Op : AppendToLog(o) /\ call[o].at = i
<1>1. ASSUME NEW k \in Server, NEW req \in Requests(k, i), OnAppendEntries(i, k, req)
      PROVE  log'[i] = log[i]
  <2>1. CASE SlowTerm(i, req)
    BY <1>1, <2>1 DEF OnAppendEntries, logVars
  <2>2. CASE ~SlowTerm(i, req)
    <3>1. req.term = current_term[i]
      BY <1>1, <2>2, RequestTypes, RequestRaisesTerm DEF WinnersInv
    <3>2. k # i /\ Wins(req.term, k)
      BY DEF WinnersInv, RequestsOfWinners
    <3>3. Wins(req.term, i)
      BY <3>1, LeaderWins DEF WinnersInv
    <3> QED
      BY <3>2, <3>3, WinsOnce
  <2> QED
    BY <2>1, <2>2
<1>2. ASSUME NEW k \in Server, OnAppendReply(i, k)
      PROVE  log'[i] = log[i]
  BY <1>2, ReplyFrame DEF WinnersInv
<1> QED
  BY <1>1, <1>2, LogStep DEF LogChange, WinnersInv

(* As long as a server leads, its log only grows: OnAppendEntries never    *)
(* merges into it, not even late requests, and the handlers of clients add *)
(* at its end, with the mutex or without.                                  *)
THEOREM LeadersAppend == RoundsSpec => LeaderAppendsOnly
<1>1. WinnersInv /\ [Next /\ NoRestart /\ RoundsDoNotOverlap]_vars => WinnersInv'
  BY WinnersStep
<1>2. ASSUME WinnersInv, [Next /\ NoRestart /\ RoundsDoNotOverlap]_vars
      PROVE  [crashes' = 0 => \A i \in Server :
                current_role[i] = "Leader" /\ current_role'[i] = "Leader" =>
                  Len(log'[i]) >= Len(log[i]) /\ SubSeq(log'[i], 1, Len(log[i])) = log[i]]_vars
  <2> SUFFICES ASSUME NEW i \in Server, current_role[i] = "Leader", current_role'[i] = "Leader"
               PROVE  Len(log'[i]) >= Len(log[i]) /\ SubSeq(log'[i], 1, Len(log[i])) = log[i]
    OBVIOUS
  <2>1. log[i] \in Seq(Entry)
    BY <1>2, LogTypes DEF WinnersInv
  <2>2. CASE log'[i] = log[i]
    BY <2>1, <2>2
  <2>3. ASSUME NEW o \in Op, AppendToLog(o), call[o].at = i
        PROVE  Len(log'[i]) >= Len(log[i]) /\ SubSeq(log'[i], 1, Len(log[i])) = log[i]
    <3>1. log' = [log EXCEPT ![i] = Append(@, NewEntry(o))] /\ NewEntry(o) \in Entry
      BY <1>2, <2>3, OneEntryMore DEF WinnersInv
    <3>2. log'[i] = Append(log[i], NewEntry(o))
      BY <1>2, <3>1 DEF WinnersInv, TypeOK
    <3> QED
      BY <2>1, <3>1, <3>2
  <2> QED
    BY <1>2, <2>2, <2>3, LeaderKeepsLog
<1> QED
  BY WinnersInit, <1>1, <1>2, PTL DEF RoundsSpec, LeaderAppendsOnly

-----------------------------------------------------------------------------
(* Which entries there are, where no client's handler outlives a           *)
(* leadership between its checks and its append.                           *)

Items(s) == {s[k] : k \in DOMAIN s}

(* Every entry of a log or of a request that is on its way or may yet be   *)
(* handled late.                                                           *)
Known ==
  UNION ({Items(log[i]) : i \in Server} \cup
         {Items(req.entries) : req \in UNION {Requests(i, j) : i, j \in Server}})

OneCommand == \A e, f \in Known : SameEntry(e, f) => e.op = f.op

(* An entry's maker won the entry's term and has it among its entries, or  *)
(* has gone on: a new entry of the term gets a larger index.               *)
MadeByLeader ==
  \A e \in Known : e.term \in Term /\ \E l \in Server :
    /\ Wins(e.term, l) /\ Leads(l, e.term)
    /\ current_term[l] = e.term => e.index <= Len(log[l])

HandlersOfLeaders ==
  \A o \in Op : call[o].pc \in {"leader", "known", "stamped"} =>
    /\ current_role[call[o].at] = "Leader"
    /\ call[o].pc = "stamped" => call[o].term = current_term[call[o].at]

EntriesInv == OneCommand /\ MadeByLeader /\ HandlersOfLeaders

-----------------------------------------------------------------------------
LEMMA KnownIs ==
  ASSUME NEW e
  PROVE  e \in Known <=> \/ \E i \in Server : e \in Items(log[i])
                         \/ \E i, j \in Server : \E req \in Requests(i, j) : e \in Items(req.entries)
BY DEF Known

LEMMA KnownInLogs ==
  ASSUME TypeOK
  PROVE  /\ Known \subseteq Entry
         /\ \A i \in Server : log[i] \in Seq(Known)
         /\ \A i, j \in Server : \A req \in Requests(i, j) : req.entries \in Seq(Known)
<1>1. \A i \in Server : log[i] \in Seq(Entry)
  BY LogTypes
<1>2. \A i, j \in Server : \A req \in Requests(i, j) : req.entries \in Seq(Entry)
  BY RequestTypes
<1>3. Known \subseteq Entry
  <2> SUFFICES ASSUME NEW e \in Known PROVE e \in Entry
    OBVIOUS
  <2>1. ASSUME NEW s \in Seq(Entry), e \in Items(s) PROVE e \in Entry
    BY <2>1 DEF Items
  <2> QED
    BY <1>1, <1>2, <2>1, KnownIs
<1>4. ASSUME NEW s \in Seq(Entry), Items(s) \subseteq Known PROVE s \in Seq(Known)
  BY <1>4 DEF Items
<1>5. \A i \in Server : Items(log[i]) \subseteq Known
  BY KnownIs
<1>6. \A i, j \in Server : \A req \in Requests(i, j) : Items(req.entries) \subseteq Known
  BY KnownIs
<1> QED
  BY <1>1, <1>2, <1>3, <1>4, <1>5, <1>6

LEMMA ItemsOf ==
  ASSUME NEW E, NEW s \in Seq(E)
  PROVE  Items(s) \subseteq E
BY DEF Items

(* No entry appears but by the handler of a client: Append and             *)
(* GetEntriesStartAt pass on what they were given.                         *)
LEMMA KnownStep ==
  ASSUME TypeOK, [Next /\ NoRestart]_vars, NEW e \in Known'
  PROVE  e \in Known \/ \E o \in Op : AppendToLog(o) /\ e = NewEntry(o)
<1>1. ASSUME NEW j \in Server, e \in Items(log'[j])
      PROVE  e \in Known \/ \E o \in Op : AppendToLog(o) /\ e = NewEntry(o)
  <2>1. CASE log'[j] = log[j]
    BY <1>1, <2>1, KnownIs
  <2>2. ASSUME NEW i \in Server, NEW req \in Requests(i, j), OnAppendEntries(j, i, req)
        PROVE  e \in Known
    <3>1. CASE SlowTerm(j, req)
      BY <1>1, <2>2, <3>1, KnownIs DEF OnAppendEntries, logVars
    <3>2. CASE ~SlowTerm(j, req)
      <4>1. log'[j] = LogAfter(j, req)
        BY <2>2, <3>2, RequestTypes, RequestRaisesTerm
      <4>2. log[j] \in Seq(Known) /\ req.entries \in Seq(Known)
        BY KnownInLogs
      <4>3. AppendBatch(log[j], req.entries) \in Seq(Known)
        BY <4>2, AppendBatchType
      <4>4. LogAfter(j, req) \in Seq(Known)
        BY <4>2, <4>3 DEF LogAfter
      <4> QED
        BY <1>1, <4>1, <4>4, ItemsOf
    <3> QED
      BY <3>1, <3>2
  <2>3. ASSUME NEW o \in Op, AppendToLog(o), call[o].at = j
        PROVE  e \in Known \/ e = NewEntry(o)
    <3>1. log[j] \in Seq(Known)
      BY KnownInLogs
    <3>2. log'[j] = Append(log[j], NewEntry(o))
      BY <2>3, OneEntryMore DEF TypeOK
    <3>3. Append(log[j], NewEntry(o)) \in Seq(Known \cup {NewEntry(o)})
      BY <3>1
    <3> QED
      BY <1>1, <3>2, <3>3, ItemsOf
  <2> QED
    BY <2>1, <2>2, <2>3, LogStep, ReplyFrame DEF LogChange
<1>2. ASSUME NEW i \in Server, NEW j \in Server, NEW req \in Requests(i, j)', e \in Items(req.entries)
      PROVE  e \in Known
  <2>1. CASE req \in Requests(i, j)
    BY <1>2, <2>1, KnownIs
  <2>2. CASE req = AppendEntriesRequest(i, j)
    <3>1. GetEntriesStartAt(log[i], next_index[i][j] - 1) \in Seq(Known)
      BY KnownInLogs, GetEntriesStartAtType
    <3>2. req.entries \in Seq(Known)
      BY <2>2, <3>1 DEF AppendEntriesRequest
    <3> QED
      BY <1>2, <3>2, ItemsOf
  <2> QED
    BY <2>1, <2>2, RequestsStep
<1>3. \/ \E i \in Server : e \in Items(log'[i])
      \/ \E i, j \in Server : \E req \in Requests(i, j)' : e \in Items(req.entries)
  BY DEF Known, Items
<1> QED
  BY <1>1, <1>2, <1>3

(* One client's handler appends at a time.                                 *)
LEMMA OneAppends ==
  ASSUME TypeOK, NEW o \in Op, NEW p \in Op, AppendToLog(o), AppendToLog(p)
  PROVE  o = p
<1>1. call[o].pc = "stamped" /\ call[p].pc = "stamped"
  BY DEF AppendToLog
<1>2. call'[p].pc = "waiting"
  BY <1>1, CallTypes DEF AppendToLog, TypeOK
<1>3. CASE o # p
  BY <1>1, <1>2, <1>3 DEF AppendToLog, TypeOK
<1> QED
  BY <1>3

(* Every handler between its checks and its append was there before, or    *)
(* has just found the leader.                                              *)
LEMMA HandlersStep ==
  ASSUME TypeOK, [Next /\ NoRestart]_vars, NEW o \in Op,
         call'[o].pc \in {"leader", "known", "stamped"}
  PROVE  \/ /\ call[o].pc \in {"leader", "known", "stamped"} /\ call'[o].at = call[o].at
            /\ call'[o].pc = "stamped" =>
                 \/ call[o].pc = "stamped" /\ call'[o].term = call[o].term
                 \/ call'[o].term = current_term[call[o].at]
         \/ \E i \in Server : CheckIsLeader(o, i) /\ call'[o].at = i /\ call'[o].pc = "leader"
<1>1. CASE call'[o] = call[o]
  BY <1>1
<1>0. call[o].pc # "new" => \A s : [call[o] EXCEPT !.pc = s].pc = s
  BY CallTypes
<1>2. ASSUME NEW i \in Server, NEW j \in Server, NEW req, OnAppendEntries(j, i, req)
      PROVE  call'[o] = call[o]
  <2>1. UNCHANGED call \/ call'[o] = CallAfter(o, j, LogAfter(j, req))
    BY <1>2 DEF OnAppendEntries
  <2>2. CallAfter(o, j, LogAfter(j, req)) = call[o] \/ CallAfter(o, j, LogAfter(j, req)).pc = "dangling"
    BY <1>0 DEF CallAfter
  <2> QED
    BY <2>1, <2>2
<1>3. ASSUME NEW s \in Server, StartLeaderElection(s) \/ Restart(s) PROVE call'[o] = call[o]
  BY <1>3 DEF StartLeaderElection, Restart
<1>4. ASSUME NEW s \in Server, Crash(s) \/ CrashOnEmptyLog(s) PROVE call'[o] = call[o]
  <2>1. Stop(s)
    BY <1>4 DEF Crash, CrashOnEmptyLog
  <2>2. \/ call'[o] = call[o]
        \/ call'[o] = [call[o] EXCEPT !.pc = "lost"] /\ call[o].pc # "new"
    BY <2>1 DEF Stop
  <2> QED
    BY <1>0, <2>2
<1>5. ASSUME NEW a \in Server, NEW b \in Server,
             \/ SendRequestVote(a, b) \/ HandleRequestVote(a, b) \/ OnVoteReply(a, b)
             \/ SendAppendEntries(a, b) \/ OnAppendReply(a, b) \/ LoseCall(a, b)
      PROVE  call'[o] = call[o]
  BY <1>5 DEF SendRequestVote, HandleRequestVote, OnRequestVote, OnVoteReply, SendAppendEntries,
              OnAppendReply, LoseCall
<1>6. ASSUME NEW a \in Server, NEW b \in Server, HandleAppendEntries(a, b) PROVE call'[o] = call[o]
  BY <1>2, <1>6 DEF HandleAppendEntries
<1>7. ASSUME NEW m \in orphans, HandleOrphan(m) PROVE call'[o] = call[o]
  <2>1. m.from \in Server /\ m.to \in Server
    BY DEF TypeOK, Orphan
  <2>2. CASE m.kind = "vote" /\ OnRequestVote(m.to, m.from, m.req)
    BY <2>2 DEF OnRequestVote
  <2> QED
    BY <1>2, <1>7, <2>1, <2>2 DEF HandleOrphan
<1>8. ASSUME NEW p \in Op, ClientStep(p)
      PROVE  \/ call'[o] = call[o]
             \/ /\ call[o].pc \in {"leader", "known", "stamped"} /\ call'[o].at = call[o].at
                /\ call'[o].pc = "stamped" => call'[o].term = current_term[call[o].at]
             \/ \E i \in Server : CheckIsLeader(o, i) /\ call'[o].at = i /\ call'[o].pc = "leader"
  <2>1. CASE p # o
    BY <1>8, <2>1 DEF ClientStep, CheckIsLeader, CheckLeaderId, StampTerm, AppendToLog, AnswerClient, TypeOK
  <2>2. CASE p = o /\ \E i \in Server : CheckIsLeader(o, i)
    <3>1. PICK i \in Server : CheckIsLeader(o, i)
      BY <2>2
    <3>2. call'[o].at = i /\ call'[o].pc = "leader"
      BY <3>1 DEF CheckIsLeader, TypeOK
    <3> QED
      BY <3>1, <3>2
  <2>3. CASE p = o /\ CheckLeaderId(o)
    <3>1. call[o].pc = "leader" /\ call[o].pc # "new"
      BY <2>3 DEF CheckLeaderId
    <3>2. call'[o] = IF leader_id[call[o].at] = None THEN NewCall ELSE [call[o] EXCEPT !.pc = "known"]
      BY <2>3 DEF CheckLeaderId, TypeOK
    <3>3. call'[o].pc = "known" /\ call'[o] = [call[o] EXCEPT !.pc = "known"]
      BY <1>0, <3>1, <3>2 DEF NewCall
    <3>4. call'[o].at = call[o].at
      BY <3>1, <3>3, CallTypes
    <3> QED
      BY <3>1, <3>3, <3>4
  <2>4. CASE p = o /\ StampTerm(o)
    <3>1. call[o].pc # "new"
      BY <2>4 DEF StampTerm
    <3>2. call[o] \in [pc : {"leader", "known", "stamped", "waiting", "dangling", "ok", "timeout", "lost"},
                       at : Server, term : Nat, index : Nat]
      BY <3>1, CallTypes
    <3> QED
      BY <2>4, <3>2 DEF StampTerm, TypeOK
  <2>5. CASE p = o /\ (AppendToLog(o) \/ AnswerClient(o))
    <3>1. call[o].pc # "new"
      BY <2>5 DEF AppendToLog, AnswerClient
    <3>2. call[o] \in [pc : {"leader", "known", "stamped", "waiting", "dangling", "ok", "timeout", "lost"},
                       at : Server, term : Nat, index : Nat]
      BY <3>1, CallTypes
    <3>3. call'[o].pc \in {"waiting", "ok", "timeout"}
      BY <2>5, <3>2 DEF AppendToLog, AnswerClient, TypeOK
    <3> QED
      BY <3>3
  <2> QED
    BY <1>8, <2>1, <2>2, <2>3, <2>4, <2>5 DEF ClientStep
<1>9. CASE UNCHANGED vars
  BY <1>9 DEF vars
<1> QED
  BY <1>1, <1>3, <1>4, <1>5, <1>6, <1>7, <1>8, <1>9 DEF Next, ClientStep

LEMMA HandlersOfLeadersStep ==
  ASSUME TypeOK, HandlersOfLeaders, [Next /\ NoRestart /\ HandlersAreAtomic]_vars
  PROVE  HandlersOfLeaders'
<1> SUFFICES ASSUME NEW o \in Op, call'[o].pc \in {"leader", "known", "stamped"}
             PROVE  /\ current_role'[call'[o].at] = "Leader"
                    /\ call'[o].pc = "stamped" => call'[o].term = current_term'[call'[o].at]
  BY DEF HandlersOfLeaders
<1>1. CASE UNCHANGED vars
  BY <1>1 DEF HandlersOfLeaders, vars, roleVars
<1>2. CASE ~UNCHANGED vars
  <2>1. ASSUME NEW i \in Server, CheckIsLeader(o, i), call'[o].at = i, call'[o].pc = "leader"
        PROVE  current_role'[i] = "Leader"
    BY <2>1 DEF CheckIsLeader, roleVars
  <2>2. CASE call[o].pc \in {"leader", "known", "stamped"} /\ call'[o].at = call[o].at
    <3>1. /\ current_role[call[o].at] = "Leader"
          /\ call[o].pc = "stamped" => call[o].term = current_term[call[o].at]
      BY <2>2 DEF HandlersOfLeaders
    <3>2. /\ current_role'[call[o].at] = current_role[call[o].at]
          /\ current_term'[call[o].at] = current_term[call[o].at]
      BY <1>2, <2>2 DEF HandlersAreAtomic
    <3>3. call'[o].pc = "stamped" =>
            \/ call[o].pc = "stamped" /\ call'[o].term = call[o].term
            \/ call'[o].term = current_term[call[o].at]
      <4>1. ASSUME NEW i \in Server, CheckIsLeader(o, i) PROVE FALSE
        BY <2>2, <4>1 DEF CheckIsLeader
      <4> QED
        BY <4>1, HandlersStep
    <3> QED
      BY <2>2, <3>1, <3>2, <3>3
  <2> QED
    BY <2>1, <2>2, HandlersStep
<1> QED
  BY <1>1, <1>2

(* What a handler appends is new: its server leads the term of the stamp,  *)
(* and every entry of the term is the leader's own and further down.       *)
LEMMA NewEntryIsNew ==
  ASSUME WinnersInv, EntriesInv, NEW o \in Op, AppendToLog(o), NEW e \in Known
  PROVE  ~SameEntry(e, NewEntry(o))
<1> DEFINE i == call[o].at
<1>1. /\ i \in Server /\ current_role[i] = "Leader" /\ call[o].term = current_term[i]
      /\ log[i] \in Seq(Entry)
  <2>1. call[o].pc = "stamped"
    BY DEF AppendToLog
  <2> QED
    BY <2>1, OneEntryMore DEF EntriesInv, HandlersOfLeaders, WinnersInv
<1>2. Wins(current_term[i], i)
  BY <1>1, LeaderWins DEF WinnersInv
<1>3. CASE e.term = current_term[i]
  <2>1. PICK l \in Server : Wins(e.term, l) /\ (current_term[l] = e.term => e.index <= Len(log[l]))
    BY DEF EntriesInv, MadeByLeader
  <2>2. l = i
    BY <1>1, <1>2, <1>3, <2>1, WinsOnce
  <2>3. e.index <= Len(log[i]) /\ e.index \in Nat
    <3>1. e \in Entry
      BY KnownInLogs DEF WinnersInv
    <3> QED
      BY <1>3, <2>1, <2>2, <3>1 DEF Entry
  <2>4. e.index # Len(log[i]) + 1
    BY <1>1, <2>3
  <2> QED
    BY <2>4 DEF SameEntry, NewEntry
<1>4. CASE e.term # current_term[i]
  BY <1>1, <1>4 DEF SameEntry, NewEntry
<1> QED
  BY <1>3, <1>4

LEMMA OneCommandStep ==
  ASSUME WinnersInv, EntriesInv, [Next /\ NoRestart]_vars
  PROVE  OneCommand'
<1> SUFFICES ASSUME NEW e \in Known', NEW f \in Known', SameEntry(e, f)
             PROVE  e.op = f.op
  BY DEF OneCommand, SameEntry
<1>1. CASE e \in Known /\ f \in Known
  BY <1>1 DEF EntriesInv, OneCommand
<1>2. ASSUME NEW o \in Op, AppendToLog(o), e = NewEntry(o), f \in Known PROVE FALSE
  BY <1>2, NewEntryIsNew DEF SameEntry
<1>3. ASSUME NEW o \in Op, AppendToLog(o), f = NewEntry(o), e \in Known PROVE FALSE
  BY <1>3, NewEntryIsNew
<1>4. ASSUME NEW o \in Op, AppendToLog(o), NEW p \in Op, AppendToLog(p),
             e = NewEntry(o), f = NewEntry(p)
      PROVE  e.op = f.op
  BY <1>4, OneAppends DEF WinnersInv
<1> QED
  BY <1>1, <1>2, <1>3, <1>4, KnownStep DEF WinnersInv

LEMMA MadeByLeaderStep ==
  ASSUME WinnersInv, EntriesInv, [Next /\ NoRestart]_vars
  PROVE  MadeByLeader'
<1> SUFFICES ASSUME NEW e \in Known'
             PROVE  e.term \in Term /\ \E l \in Server :
                      /\ Wins(e.term, l)' /\ Leads(l, e.term)'
                      /\ current_term'[l] = e.term => e.index <= Len(log'[l])
  BY DEF MadeByLeader
<1>1. TypeOK' /\ Stays /\ RolesAdvance /\ TypeOK
  BY TypeStep, StepStays, RolesStep DEF WinnersInv, LeaderInv
<1>2. \A t \in Term : t \in Nat
  BY DEF Term
<1>3. CASE e \in Known
  <2>1. PICK l \in Server : /\ e.term \in Term /\ Wins(e.term, l) /\ Leads(l, e.term)
                            /\ current_term[l] = e.term => e.index <= Len(log[l])
    BY <1>3 DEF EntriesInv, MadeByLeader
  <2>2. Wins(e.term, l)'
    BY <1>1, <2>1, WinsStays
  <2>3. Leads(l, e.term)'
    BY <1>1, <1>2, <2>1, LeadsStays DEF Leads, RolesAdvance
  <2>4. ASSUME current_term'[l] = e.term PROVE e.index <= Len(log'[l])
    <3>1. current_term[l] \in Nat /\ current_term'[l] \in Nat
      BY <1>1, BoundAssumption DEF TypeOK
    <3>2. current_term[l] = e.term /\ current_role[l] = "Leader"
      BY <1>1, <2>1, <2>4, <3>1 DEF Leads, RolesAdvance, Advances
    <3>3. current_role'[l] = "Leader"
      BY <1>1, <2>4, <3>1, <3>2 DEF RolesAdvance, Advances
    <3>4. e.index <= Len(log[l]) /\ log[l] \in Seq(Entry)
      BY <1>1, <2>1, <3>2, LogTypes
    <3>5. CASE log'[l] = log[l]
      BY <3>4, <3>5
    <3>6. ASSUME NEW o \in Op, AppendToLog(o), call[o].at = l PROVE e.index <= Len(log'[l])
      <4>1. log'[l] = Append(log[l], NewEntry(o))
        <5>1. log' = [log EXCEPT ![l] = Append(@, NewEntry(o))]
          BY <1>1, <3>6, OneEntryMore
        <5> QED
          BY <1>1, <5>1 DEF TypeOK
      <4>2. Len(log'[l]) = Len(log[l]) + 1 /\ Len(log[l]) \in Nat
        BY <3>4, <4>1
      <4>3. e.index \in Nat
        BY <1>1, <1>3, KnownInLogs DEF Entry
      <4> QED
        BY <3>4, <4>2, <4>3
    <3> QED
      BY <3>2, <3>3, <3>5, <3>6, LeaderKeepsLog
  <2> QED
    BY <2>1, <2>2, <2>3, <2>4
<1>4. ASSUME NEW o \in Op, AppendToLog(o), e = NewEntry(o)
      PROVE  e.term \in Term /\ \E l \in Server :
                      /\ Wins(e.term, l)' /\ Leads(l, e.term)'
                      /\ current_term'[l] = e.term => e.index <= Len(log'[l])
  <2>0. PICK i \in Server : i = call[o].at
    BY <1>1, <1>4, OneEntryMore
  <2>1. /\ current_role[i] = "Leader" /\ call[o].term = current_term[i]
        /\ log[i] \in Seq(Entry) /\ UNCHANGED roleVars
        /\ log'[i] = Append(log[i], NewEntry(o))
    <3>1. call[o].pc = "stamped"
      BY <1>4 DEF AppendToLog
    <3>2. /\ log[i] \in Seq(Entry) /\ UNCHANGED roleVars
          /\ log' = [log EXCEPT ![i] = Append(@, NewEntry(o))]
      BY <1>1, <1>4, <2>0, OneEntryMore
    <3>3. log'[i] = Append(log[i], NewEntry(o))
      BY <1>1, <3>2 DEF TypeOK
    <3> QED
      BY <2>0, <3>1, <3>2, <3>3 DEF EntriesInv, HandlersOfLeaders
  <2>2. e.term = current_term[i] /\ e.index = Len(log[i]) + 1
    BY <1>4, <2>0, <2>1 DEF NewEntry
  <2>3. e.term \in Term /\ Wins(e.term, i)
    BY <2>1, <2>2, LeaderWins DEF WinnersInv
  <2>4. Wins(e.term, i)'
    BY <1>1, <2>1, <2>3, WinsStays
  <2>5. Leads(i, e.term)'
    BY <2>1, <2>2 DEF Leads, roleVars
  <2>6. e.index <= Len(log'[i])
    BY <2>1, <2>2
  <2> QED
    BY <2>1, <2>3, <2>4, <2>5, <2>6
<1> QED
  BY <1>1, <1>3, <1>4, KnownStep

LEMMA EntriesInit ==
  ASSUME Init
  PROVE  EntriesInv
<1>1. \A i \in Server : Items(log[i]) = {}
  BY DEF Init, Items
<1>2. \A i, j \in Server : Requests(i, j) = {}
  BY DEF Init, Requests, Idle
<1>3. Known = {}
  BY <1>1, <1>2, KnownIs
<1>4. HandlersOfLeaders
  BY DEF Init, HandlersOfLeaders, NewCall
<1> QED
  BY <1>3, <1>4 DEF EntriesInv, OneCommand, MadeByLeader

(* The words of LogManager.cpp:111 for every number of servers, terms and  *)
(* operations: entries of two logs with the same index and term carry the  *)
(* same command, so that Append may keep either.  A term has one leader,   *)
(* and its log only grows while it gives out indexes.                      *)
THEOREM SameEntries == AtomicSpec => []SameEntrySameCommand
<1>1. Init => WinnersInv /\ EntriesInv
  BY WinnersInit, EntriesInit
<1>2. ASSUME WinnersInv, EntriesInv, [Next /\ NoRestart /\ RoundsDoNotOverlap /\ HandlersAreAtomic]_vars
      PROVE  WinnersInv' /\ EntriesInv'
  <2>1. WinnersInv'
    BY <1>2, WinnersStep
  <2>2. OneCommand' /\ MadeByLeader'
    BY <1>2, OneCommandStep, MadeByLeaderStep
  <2>3. HandlersOfLeaders'
    BY <1>2, HandlersOfLeadersStep DEF WinnersInv, EntriesInv
  <2> QED
    BY <2>1, <2>2, <2>3 DEF EntriesInv
<1>3. ASSUME WinnersInv, EntriesInv PROVE SameEntrySameCommand
  <2> SUFFICES ASSUME NEW i \in Server, NEW j \in Server, NEW k \in DOMAIN log[i], NEW q \in DOMAIN log[j],
                      SameEntry(log[i][k], log[j][q])
               PROVE  log[i][k].op = log[j][q].op
    BY DEF SameEntrySameCommand
  <2>1. log[i][k] \in Items(log[i]) /\ log[j][q] \in Items(log[j])
    BY DEF Items
  <2>2. log[i][k] \in Known /\ log[j][q] \in Known
    BY <2>1, KnownIs
  <2> QED
    BY <1>3, <2>2 DEF EntriesInv, OneCommand
<1> QED
  BY <1>1, <1>2, <1>3, PTL DEF AtomicSpec

-----------------------------------------------------------------------------
(* What a leader is told of its own entries.                               *)

(* What a leader ships in its term is in its log, and stays there.         *)
ShipsOwnEntries ==
  \A i, j \in Server : \A req \in Requests(i, j) :
    current_role[i] = "Leader" /\ req.term = current_term[i] =>
      Items(req.entries) \subseteq Items(log[i])

(* A success is of the term of its request at most, and the last index it  *)
(* tells is that of an entry of the request.                               *)
AnswersOwnIndex ==
  \A i, j \in Server : LET slot == rpc[i][j] IN
    slot.st = "appended" /\ slot.resp.success /\ slot.req.entries # <<>> =>
      /\ slot.resp.term <= slot.req.term
      /\ \E e \in Items(slot.req.entries) : slot.resp.last_log_index = e.index

AcksInv == ShipsOwnEntries /\ AnswersOwnIndex

LEMMA ShipsOwnEntriesStep ==
  ASSUME WinnersInv, ShipsOwnEntries, [Next /\ NoRestart]_vars
  PROVE  ShipsOwnEntries'
<1> SUFFICES ASSUME NEW i \in Server, NEW j \in Server, NEW req \in Requests(i, j)',
                    current_role'[i] = "Leader", req.term = current_term'[i]
             PROVE  Items(req.entries) \subseteq Items(log'[i])
  BY DEF ShipsOwnEntries, Items
<1>1. TypeOK' /\ RolesAdvance /\ TypeOK
  BY TypeStep, RolesStep DEF WinnersInv, LeaderInv
<1>2. log[i] \in Seq(Entry)
  BY <1>1, LogTypes
<1>3. CASE SendAppendEntries(i, j) /\ req = AppendEntriesRequest(i, j)
  <2>1. log' = log
    BY <1>3 DEF SendAppendEntries, logVars
  <2>2. log[i] \in Seq(Items(log[i]))
    BY <1>2 DEF Items
  <2>3. GetEntriesStartAt(log[i], next_index[i][j] - 1) \in Seq(Items(log[i]))
    BY <2>2, GetEntriesStartAtType
  <2>4. req.entries \in Seq(Items(log[i]))
    <3>1. req.entries \in {GetEntriesStartAt(log[i], next_index[i][j] - 1), <<>>}
      BY <1>3 DEF AppendEntriesRequest
    <3>2. <<>> \in Seq(Items(log[i]))
      OBVIOUS
    <3> QED
      BY <2>3, <3>1, <3>2
  <2>5. Items(req.entries) \subseteq Items(log[i])
    BY <2>4, ItemsOf
  <2> QED
    BY <2>1, <2>5
<1>4. CASE req \in Requests(i, j)
  <2>1. Leads(i, req.term) /\ req.term \in Nat
    BY <1>1, <1>4, RequestTypes DEF WinnersInv, LeaderInv, RequestsOfLeaders
  <2>2. current_term[i] \in Nat /\ current_term'[i] \in Nat
    BY <1>1, BoundAssumption DEF TypeOK
  <2>3. req.term = current_term[i] /\ current_role[i] = "Leader"
    <3>1. Advances(i)
      BY <1>1 DEF RolesAdvance
    <3>2. current_term'[i] >= current_term[i]
      BY <2>2, <3>1 DEF Advances
    <3>3. req.term <= current_term[i] /\ req.term = current_term'[i]
      BY <2>1, <2>2 DEF Leads
    <3>4. current_term'[i] = current_term[i]
      BY <2>2, <3>2, <3>3
    <3> QED
      BY <2>1, <2>2, <3>3, <3>4 DEF Leads
  <2>4. Items(req.entries) \subseteq Items(log[i])
    BY <1>4, <2>3 DEF ShipsOwnEntries
  <2>5. CASE log'[i] = log[i]
    BY <2>4, <2>5
  <2>6. ASSUME NEW o \in Op, AppendToLog(o), call[o].at = i
        PROVE  Items(req.entries) \subseteq Items(log'[i])
    <3>1. log' = [log EXCEPT ![i] = Append(@, NewEntry(o))]
      BY <1>1, <2>6, OneEntryMore
    <3>2. log'[i] = Append(log[i], NewEntry(o))
      BY <1>1, <3>1 DEF TypeOK
    <3>3. Items(log[i]) \subseteq Items(log'[i])
      BY <1>2, <3>2 DEF Items
    <3> QED
      BY <2>4, <3>3
  <2> QED
    BY <2>3, <2>5, <2>6, LeaderKeepsLog
<1> QED
  BY <1>1, <1>3, <1>4, RequestsStep

LEMMA AnswersOwnIndexStep ==
  ASSUME TypeOK, AnswersOwnIndex, [Next /\ NoRestart]_vars
  PROVE  AnswersOwnIndex'
<1> SUFFICES ASSUME NEW i \in Server, NEW j \in Server, rpc'[i][j].st = "appended",
                    rpc'[i][j].resp.success, rpc'[i][j].req.entries # <<>>
             PROVE  /\ rpc'[i][j].resp.term <= rpc'[i][j].req.term
                    /\ \E e \in Items(rpc'[i][j].req.entries) : rpc'[i][j].resp.last_log_index = e.index
  BY DEF AnswersOwnIndex, Items
<1>1. CASE rpc'[i][j] = rpc[i][j]
  BY <1>1 DEF AnswersOwnIndex
<1>2. CASE HandleAppendEntries(i, j)
  <2> DEFINE req == rpc[i][j].req
  <2>1. req \in AppendReq
    BY <1>2, SlotTypes DEF HandleAppendEntries
  <2>2. /\ rpc'[i][j].req = req /\ rpc'[i][j].resp = AppendEntriesResponse(j, req)
        /\ rpc'[i][j].resp.success = Success(j, req)
    BY <1>2, AnswerIs
  <2> HIDE DEF req
  <2>3. Success(j, req) /\ req.entries # <<>>
    BY <2>2
  <2>4. ~SlowTerm(j, req) /\ Reaches(j, req) /\ Accepts(log[j], req.entries)
    BY <2>3 DEF Success
  <2>5. /\ rpc'[i][j].resp.term = current_term[j]
        /\ rpc'[i][j].resp.last_log_index = GetLastLogIndex(AppendBatch(log[j], req.entries))
    BY <2>2, <2>3, <2>4 DEF AppendEntriesResponse, LogAfter
  <2>6. current_term[j] <= req.term
    <3>1. current_term[j] \in Nat /\ req.term \in Nat
      BY <2>1, BoundAssumption DEF TypeOK, AppendReq
    <3> QED
      BY <2>4, <3>1 DEF SlowTerm
  <2>7. \E e \in Items(req.entries) : GetLastLogIndex(AppendBatch(log[j], req.entries)) = e.index
    <3>1. log[j] \in Seq(Entry) /\ req.entries \in Seq(Entry)
      BY <2>1, LogTypes DEF AppendReq
    <3>2. PICK k \in 1..Len(req.entries) :
            GetLastLogIndex(AppendBatch(log[j], req.entries)) = req.entries[k].index
      BY <2>3, <2>4, <3>1, AppendBatchLast
    <3>3. req.entries[k] \in Items(req.entries)
      BY <3>1 DEF Items
    <3> QED
      BY <3>2, <3>3
  <2> QED
    BY <2>2, <2>5, <2>6, <2>7
<1> QED
  BY <1>1, <1>2, AnswersStep

(* The index that a follower answers to a batch of the leader's term is    *)
(* that of an entry the leader has, however the batch was merged into the  *)
(* follower's log: next_index is set by nothing else while a server leads. *)
(* Handlers are atomic, since one of a client that appends between the     *)
(* Append of the batch and the end of OnAppendEntries would have its own   *)
(* index answered.                                                         *)
THEOREM OwnEntriesAcknowledged == AtomicSpec => []AcknowledgesOwnEntries
<1>1. Init => WinnersInv /\ AcksInv
  <2>1. Init => AcksInv
    BY DEF Init, AcksInv, ShipsOwnEntries, AnswersOwnIndex, Requests, Idle
  <2> QED
    BY <2>1, WinnersInit
<1>2. ASSUME WinnersInv, AcksInv, [Next /\ NoRestart /\ RoundsDoNotOverlap /\ HandlersAreAtomic]_vars
      PROVE  WinnersInv' /\ AcksInv'
  BY <1>2, WinnersStep, ShipsOwnEntriesStep, AnswersOwnIndexStep DEF AcksInv, WinnersInv
<1>3. ASSUME WinnersInv, AcksInv PROVE AcknowledgesOwnEntries
  <2> SUFFICES ASSUME NEW i \in Server, NEW j \in Server, current_role[i] = "Leader",
                      rpc[i][j].st = "appended", rpc[i][j].req.entries # <<>>,
                      rpc[i][j].resp.success, rpc[i][j].resp.term = current_term[i]
               PROVE  \E k \in DOMAIN log[i] : rpc[i][j].resp.last_log_index = log[i][k].index
    BY DEF AcknowledgesOwnEntries
  <2> DEFINE req == rpc[i][j].req
             resp == rpc[i][j].resp
  <2>1. req \in Requests(i, j)
    BY DEF Requests
  <2>2. resp.term <= req.term /\ \E e \in Items(req.entries) : resp.last_log_index = e.index
    BY <1>3 DEF AcksInv, AnswersOwnIndex
  <2>3. Leads(i, req.term)
    <3> HIDE DEF req, resp
    <3> QED
      BY <1>3, <2>1 DEF WinnersInv, LeaderInv, RequestsOfLeaders
  <2>4. req.term = current_term[i]
    <3> HIDE DEF req
    <3>1. TypeOK
      BY <1>3 DEF WinnersInv
    <3>2. req.term \in Nat
      BY <2>1, <3>1, RequestTypes
    <3>3. current_term[i] \in Nat
      BY <3>1, BoundAssumption DEF TypeOK
    <3>4. current_term[i] <= req.term
      BY <2>2
    <3> QED
      BY <2>3, <3>2, <3>3, <3>4 DEF Leads
  <2>5. Items(req.entries) \subseteq Items(log[i])
    BY <1>3, <2>1, <2>4 DEF AcksInv, ShipsOwnEntries
  <2> QED
    BY <2>2, <2>5 DEF Items
<1> QED
  BY <1>1, <1>2, <1>3, PTL DEF AtomicSpec
=============================================================================
