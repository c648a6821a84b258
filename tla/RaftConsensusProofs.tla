------------------------- MODULE RaftConsensusProofs -------------------------
(***************************************************************************)
(* The types of RaftConsensus and its terms, proved for every number of    *)
(* servers, terms, operations, crashes and late requests; and what a step  *)
(* does to requests and logs, which the other proofs start from.           *)
(***************************************************************************)
EXTENDS RaftConsensus, LogManagerProofs

LEMMA EntryIsEntries == Entry = Entries(Op)
BY DEF Entry, Entries

(* What a thread finds in its call.                                        *)
LEMMA SlotTypes ==
  ASSUME TypeOK, NEW i \in Server, NEW j \in Server
  PROVE  /\ rpc[i][j] \in Slot
         /\ rpc[i][j].st = "vote" => rpc[i][j].req \in VoteReq
         /\ rpc[i][j].st = "voted" => rpc[i][j].req \in VoteReq /\ rpc[i][j].resp \in VoteResp
         /\ rpc[i][j].st = "append" => rpc[i][j].req \in AppendReq
         /\ rpc[i][j].st = "appended" => rpc[i][j].req \in AppendReq /\ rpc[i][j].resp \in AppendResp
<1>1. rpc[i][j] \in Slot
  BY DEF TypeOK
<1> QED
  BY <1>1 DEF Slot

LEMMA CallTypes ==
  ASSUME TypeOK, NEW o \in Op, call[o].pc # "new"
  PROVE  /\ call[o].at \in Server /\ call[o].term \in Nat /\ call[o].index \in Nat
         /\ call[o] \in [pc : {"leader", "known", "stamped", "waiting", "dangling", "ok", "timeout", "lost"},
                         at : Server, term : Nat, index : Nat]
<1>1. call[o] \in CallState
  BY DEF TypeOK
<1> QED
  BY <1>1 DEF CallState, NewCall

LEMMA LogTypes ==
  ASSUME TypeOK, NEW i \in Server
  PROVE  /\ log[i] \in Seq(Entry) /\ last_commited_index[i] \in Nat
         /\ GetLastLogIndex(log[i]) \in Nat /\ GetLastLogTerm(log[i]) \in Nat
         /\ CommitIndex(i) \in Nat
<1>1. log[i] \in Seq(Entry) /\ last_commited_index[i] \in Nat
  BY DEF TypeOK
<1>2. GetLastLogIndex(log[i]) \in Nat /\ GetLastLogTerm(log[i]) \in Nat
  BY <1>1, EntryIsEntries, LastTypes
<1> QED
  BY <1>1, <1>2 DEF CommitIndex, GetLastCommitIndex

LEMMA ChangeToFollowerType ==
  ASSUME TypeOK, NEW i \in Server, NEW t \in 0..MaxTerm, NEW l \in Server \cup {None},
         ChangeToFollower(i, t, l)
  PROVE  /\ current_term' \in [Server -> 0..MaxTerm]
         /\ current_role' \in [Server -> Role]
         /\ \A k \in Server : current_role'[k] # "Follower" => current_term'[k] \in Term
         /\ leader_id' \in [Server -> Server \cup {None}]
         /\ vote_pool' \in [Server -> SUBSET Server]
BY DEF TypeOK, ChangeToFollower, Role

(* A vote handled, in its call or late.                                    *)
LEMMA OnRequestVoteType ==
  ASSUME TypeOK, NEW i \in Server, NEW j \in Server, NEW req \in VoteReq,
         OnRequestVote(j, i, req)
  PROVE  /\ current_term' \in [Server -> 0..MaxTerm]
         /\ current_role' \in [Server -> Role]
         /\ \A k \in Server : current_role'[k] # "Follower" => current_term'[k] \in Term
         /\ leader_id' \in [Server -> Server \cup {None}]
         /\ vote_pool' \in [Server -> SUBSET Server]
         /\ vote_for' \in [Server -> [Term -> Server \cup {None}]]
         /\ UNCHANGED <<logVars, leaderVars, call, procVars>>
<1>1. req.term \in Term /\ req.term \in 0..MaxTerm
  BY DEF VoteReq, Term
<1>2. vote_for' \in [Server -> [Term -> Server \cup {None}]]
  BY <1>1 DEF OnRequestVote, TypeOK
<1>3. CASE req.term > current_term[j]
  BY <1>1, <1>2, <1>3, ChangeToFollowerType DEF OnRequestVote
<1>4. CASE ~(req.term > current_term[j])
  BY <1>2, <1>4 DEF OnRequestVote, TypeOK, roleVars
<1> QED
  BY <1>3, <1>4

LEMMA LogAfterType ==
  ASSUME TypeOK, NEW j \in Server, NEW req \in AppendReq
  PROVE  LogAfter(j, req) \in Seq(Entry) /\ GetLastLogIndex(LogAfter(j, req)) \in Nat
<1>1. log[j] \in Seq(Entry) /\ req.entries \in Seq(Entry)
  BY LogTypes DEF AppendReq
<1>2. AppendBatch(log[j], req.entries) \in Seq(Entry)
  BY <1>1, EntryIsEntries, AppendBatchType
<1>3. LogAfter(j, req) \in Seq(Entry)
  BY <1>1, <1>2 DEF LogAfter
<1> QED
  BY <1>3, EntryIsEntries, LastTypes

(* A request to append handled, in its call or late.                       *)
LEMMA OnAppendEntriesType ==
  ASSUME TypeOK, NEW i \in Server, NEW j \in Server, NEW req \in AppendReq,
         OnAppendEntries(j, i, req)
  PROVE  /\ current_term' \in [Server -> 0..MaxTerm]
         /\ current_role' \in [Server -> Role]
         /\ \A k \in Server : current_role'[k] # "Follower" => current_term'[k] \in Term
         /\ leader_id' \in [Server -> Server \cup {None}]
         /\ vote_pool' \in [Server -> SUBSET Server]
         /\ log' \in [Server -> Seq(Entry)]
         /\ last_commited_index' \in [Server -> Nat]
         /\ call' \in [Op -> CallState]
         /\ UNCHANGED <<vote_for, leaderVars, procVars>>
<1>1. CASE SlowTerm(j, req)
  <2>1. UNCHANGED <<roleVars, vote_for, logVars, leaderVars, call, procVars>>
    BY <1>1 DEF OnAppendEntries
  <2>2. UNCHANGED <<current_term, current_role, leader_id, vote_pool, log, last_commited_index, call>>
    BY <2>1 DEF roleVars, logVars
  <2> QED
    BY <2>1, <2>2 DEF TypeOK
<1>2. CASE ~SlowTerm(j, req)
  <2>1. UNCHANGED <<vote_for, leaderVars, procVars>>
    BY <1>2 DEF OnAppendEntries
  <2>2. log' \in [Server -> Seq(Entry)]
    <3>1. log' = [log EXCEPT ![j] = LogAfter(j, req)]
      BY <1>2 DEF OnAppendEntries
    <3> QED
      BY <3>1, LogAfterType DEF TypeOK
  <2>3. last_commited_index' \in [Server -> Nat]
    <3>1. last_commited_index[j] \in Nat /\ req.leader_commit_index \in Nat
      BY LogTypes DEF AppendReq
    <3>2. CommitsAfter(j, req) \subseteq Nat
      BY <3>1 DEF CommitsAfter, SetLastCommitIndex
    <3>3. PICK c \in CommitsAfter(j, req) :
            last_commited_index' = [last_commited_index EXCEPT ![j] = c]
      BY <1>2 DEF OnAppendEntries
    <3> QED
      BY <3>2, <3>3 DEF TypeOK
  <2>4. call' \in [Op -> CallState]
    <3>1. ASSUME NEW o \in Op PROVE CallAfter(o, j, LogAfter(j, req)) \in CallState
      <4>1. call[o] \in CallState
        BY DEF TypeOK
      <4>2. CASE call[o].pc = "waiting"
        <5>1. call[o].pc # "new"
          BY <4>2
        <5>2. [call[o] EXCEPT !.pc = "dangling"] \in CallState
          BY <5>1, CallTypes DEF CallState
        <5> QED
          BY <4>1, <5>2 DEF CallAfter
      <4>3. CASE call[o].pc # "waiting"
        BY <4>1, <4>3 DEF CallAfter
      <4> QED
        BY <4>2, <4>3
    <3> QED
      BY <1>2, <3>1 DEF OnAppendEntries
  <2>5. /\ current_term' \in [Server -> 0..MaxTerm]
        /\ current_role' \in [Server -> Role]
        /\ \A k \in Server : current_role'[k] # "Follower" => current_term'[k] \in Term
        /\ leader_id' \in [Server -> Server \cup {None}]
        /\ vote_pool' \in [Server -> SUBSET Server]
    <3>1. CASE req.term > current_term[j] \/ current_role[j] = "Candidate"
      <4>1. req.term \in 0..MaxTerm
        BY DEF AppendReq
      <4> QED
        BY <1>2, <3>1, <4>1, ChangeToFollowerType DEF OnAppendEntries
    <3>2. CASE ~(req.term > current_term[j] \/ current_role[j] = "Candidate")
      <4>1. /\ leader_id' = [leader_id EXCEPT ![j] = IF @ = None THEN i ELSE @]
            /\ UNCHANGED <<current_term, current_role, vote_pool>>
        BY <1>2, <3>2 DEF OnAppendEntries
      <4> QED
        BY <4>1 DEF TypeOK
    <3> QED
      BY <3>1, <3>2
  <2> QED
    BY <2>1, <2>2, <2>3, <2>4, <2>5
<1> QED
  BY <1>1, <1>2

(* The process of i ends.                                                  *)
LEMMA StopType ==
  ASSUME TypeOK, NEW i \in Server, Stop(i), crashes' \in Nat
  PROVE  TypeOK'
<1>1. up' \in [Server -> BOOLEAN]
  BY DEF Stop, TypeOK
<1>2. rpc' \in [Server -> [Server -> Slot]]
  <2>1. Idle \in Slot
    BY DEF Idle, Slot
  <2>2. \A k, j \in Server : rpc[k][j] \in Slot
    BY DEF TypeOK
  <2>3. rpc' = [k \in Server |-> [j \in Server |->
          IF k = i \/ (j = i /\ rpc[k][j].st \in {"vote", "append"}) THEN Idle ELSE rpc[k][j]]]
    BY DEF Stop
  <2> HIDE DEF Idle
  <2> QED
    BY <2>1, <2>2, <2>3
<1>3. orphans' \in SUBSET Orphan
  BY DEF Stop, TypeOK
<1>4. call' \in [Op -> CallState]
  <2> DEFINE stopped(o) ==
        IF call[o].at = i /\ call[o].pc \in {"leader", "known", "stamped", "waiting", "dangling"}
        THEN [call[o] EXCEPT !.pc = "lost"] ELSE call[o]
  <2>1. ASSUME NEW o \in Op PROVE stopped(o) \in CallState
    <3>1. call[o] \in CallState
      BY DEF TypeOK
    <3>2. CASE call[o].pc = "new"
      BY <3>1, <3>2
    <3>3. CASE call[o].pc # "new"
      <4>1. [call[o] EXCEPT !.pc = "lost"] \in CallState
        BY <3>3, CallTypes DEF CallState
      <4> QED
        BY <3>1, <4>1
    <3> QED
      BY <3>2, <3>3
  <2>2. call' = [o \in Op |-> stopped(o)]
    BY DEF Stop
  <2> HIDE DEF stopped
  <2> QED
    BY <2>1, <2>2
<1>5. UNCHANGED <<current_term, current_role, leader_id, vote_pool, vote_for, log,
                  last_commited_index, next_index, pending_entries>>
  BY DEF Stop, roleVars, logVars, leaderVars
<1> QED
  BY <1>1, <1>2, <1>3, <1>4, <1>5 DEF TypeOK

(* The answer of a follower, counted by the leader.                        *)
LEMMA AcknowledgeType ==
  ASSUME TypeOK, NEW i \in Server, NEW j \in Server, NEW es \in Seq(Entry),
         Acknowledge(i, j, es)
  PROVE  /\ pending_entries' \in [Server -> SUBSET (Nat \X Server)]
         /\ last_commited_index' \in [Server -> Nat]
<1>1. \A k \in 1..Len(es) : es[k].index \in Nat
  <2>1. \A k \in 1..Len(es) : es[k] \in Entry
    OBVIOUS
  <2>2. \A e \in Entry : e.index \in Nat
    BY DEF Entry
  <2> QED
    BY <2>1, <2>2
<1> DEFINE fresh   == {k \in 1..Len(es) : es[k].index > CommitIndex(i)}
           pending == pending_entries[i] \cup {<<es[k].index, j>> : k \in fresh}
           quorate == {k \in fresh : HasQuorum(pending, es[k].index)}
           last    == CHOOSE k \in quorate : \A q \in quorate : q <= k
<1>2. pending \in SUBSET (Nat \X Server)
  BY <1>1 DEF TypeOK
<1>3. pending_entries' = [pending_entries EXCEPT ![i] = pending]
  BY DEF Acknowledge
<1>4. pending_entries' \in [Server -> SUBSET (Nat \X Server)]
  <2> HIDE DEF pending
  <2> QED
    BY <1>2, <1>3 DEF TypeOK
<1>5. CASE quorate = {}
  <2>1. UNCHANGED last_commited_index
    BY <1>5 DEF Acknowledge
  <2> QED
    BY <1>4, <2>1 DEF TypeOK
<1>6. CASE quorate # {}
  <2>1. last_commited_index' = [last_commited_index EXCEPT ![i] =
          SetLastCommitIndex(log[i], @, es[last].index)]
    BY <1>6 DEF Acknowledge
  <2>2. last \in 1..Len(es)
    <3>1. quorate \in SUBSET (1..Len(es))
      OBVIOUS
    <3>2. Len(es) \in Nat
      OBVIOUS
    <3> HIDE DEF quorate
    <3>3. \E m \in quorate : \A q \in quorate : q <= m
      BY <1>6, <3>1, <3>2, LargestExists
    <3>4. last \in quorate
      BY <3>3, Zenon
    <3> QED
      BY <3>1, <3>4
  <2>3. es[last].index \in Nat
    <3> HIDE DEF last
    <3> QED
      BY <1>1, <2>2
  <2>4. SetLastCommitIndex(log[i], last_commited_index[i], es[last].index) \in Nat
    <3> HIDE DEF last
    <3> QED
      BY <2>3, LogTypes DEF SetLastCommitIndex
  <2> HIDE DEF last
  <2> QED
    BY <1>4, <2>1, <2>4 DEF TypeOK
<1> QED
  BY <1>5, <1>6

LEMMA InitType == Init => TypeOK
<1> SUFFICES ASSUME Init PROVE TypeOK
  OBVIOUS
<1>1. rpc \in [Server -> [Server -> Slot]]
  BY DEF Init, Idle, Slot
<1>2. call \in [Op -> CallState]
  BY DEF Init, CallState
<1>3. log \in [Server -> Seq(Entry)]
  BY DEF Init
<1>4. current_term \in [Server -> 0..MaxTerm] /\ current_role \in [Server -> Role]
  BY BoundAssumption DEF Init, Role
<1>5. \A i \in Server : current_role[i] = "Follower"
  BY DEF Init
<1> QED
  BY <1>1, <1>2, <1>3, <1>4, <1>5 DEF Init, TypeOK

(* The steps of the threads that call.                                     *)
LEMMA ElectionStepType ==
  ASSUME TypeOK, NEW i \in Server, StartLeaderElection(i)
  PROVE  TypeOK'
<1> DEFINE t   == current_term[i] + 1
           own == vote_for[i][t] = None
<1>1. t \in Term /\ t \in 0..MaxTerm
  BY BoundAssumption DEF StartLeaderElection, ElectionIsDue, TypeOK, Term
<1>2. current_term' = [current_term EXCEPT ![i] = t]
  BY DEF StartLeaderElection
<1>3. current_role' = [current_role EXCEPT ![i] = "Candidate"]
  BY DEF StartLeaderElection
<1>4. vote_for' = IF own THEN [vote_for EXCEPT ![i][t] = i] ELSE vote_for
  BY DEF StartLeaderElection
<1>5. vote_pool' = [vote_pool EXCEPT ![i] = IF own THEN {i} ELSE {}]
  BY DEF StartLeaderElection
<1>6. leader_id' = [leader_id EXCEPT ![i] = None]
  BY DEF StartLeaderElection
<1>7. UNCHANGED <<up, log, last_commited_index, next_index, pending_entries, rpc, orphans, call, crashes>>
  BY DEF StartLeaderElection, ElectionIsDue, logVars, leaderVars, netVars, procVars
<1> HIDE DEF t, own
<1>8. /\ current_term' \in [Server -> 0..MaxTerm]
      /\ current_role' \in [Server -> Role]
      /\ \A k \in Server : current_role'[k] # "Follower" => current_term'[k] \in Term
  BY <1>1, <1>2, <1>3 DEF TypeOK, Role
<1>9. vote_for' \in [Server -> [Term -> Server \cup {None}]]
  BY <1>1, <1>4 DEF TypeOK
<1>10. vote_pool' \in [Server -> SUBSET Server] /\ leader_id' \in [Server -> Server \cup {None}]
  BY <1>5, <1>6 DEF TypeOK
<1> QED
  BY <1>7, <1>8, <1>9, <1>10 DEF TypeOK

(* A thread's call takes a new value, and nothing else changes.            *)
LEMMA RpcType ==
  ASSUME TypeOK, NEW i \in Server, NEW j \in Server, NEW slot \in Slot,
         rpc' = [rpc EXCEPT ![i][j] = slot]
  PROVE  rpc' \in [Server -> [Server -> Slot]]
BY DEF TypeOK

LEMMA SendType ==
  ASSUME TypeOK, NEW i \in Server, NEW j \in Server,
         SendRequestVote(i, j) \/ SendAppendEntries(i, j)
  PROVE  TypeOK'
<1>1. UNCHANGED <<roleVars, vote_for, logVars, leaderVars, orphans, call, procVars>>
  BY DEF SendRequestVote, SendAppendEntries
<1>2. current_term[i] \in Term /\ current_term[i] \in 0..MaxTerm
  BY DEF SendRequestVote, SendAppendEntries, TypeOK
<1>3. CASE SendRequestVote(i, j)
  <2> DEFINE slot == [st |-> "vote",
        req |-> [term |-> current_term[i],
                 last_log_index |-> GetLastLogIndex(log[i]),
                 last_log_term |-> GetLastLogTerm(log[i])]]
  <2>1. slot \in Slot
    BY <1>2, LogTypes DEF Slot, VoteReq
  <2>2. rpc' = [rpc EXCEPT ![i][j] = slot]
    BY <1>3 DEF SendRequestVote
  <2> HIDE DEF slot
  <2> QED
    BY <2>1, <2>2, RpcType
       , <1>1 DEF TypeOK, roleVars, logVars, leaderVars, procVars
<1>4. CASE SendAppendEntries(i, j)
  <2> DEFINE slot == [st |-> "append", req |-> AppendEntriesRequest(i, j)]
  <2>1. AppendEntriesRequest(i, j) \in AppendReq
    <3>1. next_index[i][j] - 1 \in Int
      BY DEF TypeOK
    <3>2. GetEntriesStartAt(log[i], next_index[i][j] - 1) \in Seq(Entry)
      BY LogTypes, EntryIsEntries, GetEntriesStartAtType
    <3>3. <<>> \in Seq(Entry)
      OBVIOUS
    <3> QED
      BY <1>2, <3>1, <3>2, <3>3, LogTypes DEF AppendEntriesRequest, AppendReq
  <2>2. slot \in Slot
    BY <2>1 DEF Slot
  <2>3. rpc' = [rpc EXCEPT ![i][j] = slot]
    BY <1>4 DEF SendAppendEntries
  <2> HIDE DEF slot
  <2> QED
    BY <2>2, <2>3, RpcType
       , <1>1 DEF TypeOK, roleVars, logVars, leaderVars, procVars
<1> QED
  BY <1>3, <1>4

(* A request handled: its call is answered.                                *)
LEMMA HandleType ==
  ASSUME TypeOK, NEW i \in Server, NEW j \in Server,
         HandleRequestVote(i, j) \/ HandleAppendEntries(i, j)
  PROVE  TypeOK'
<1> DEFINE req == rpc[i][j].req
<1>1. CASE HandleRequestVote(i, j)
  <2> DEFINE slot == [st |-> "voted", req |-> req, resp |-> VoteResponse(j, i, req)]
  <2>1. req \in VoteReq
    BY <1>1, SlotTypes DEF HandleRequestVote
  <2>2. OnRequestVote(j, i, req) /\ UNCHANGED orphans
    BY <1>1 DEF HandleRequestVote
  <2>3. rpc' = [rpc EXCEPT ![i][j] = slot]
    BY <1>1 DEF HandleRequestVote
  <2>4. slot \in Slot
    <3>1. req.term \in 0..MaxTerm /\ current_term[j] \in 0..MaxTerm
      BY <2>1 DEF VoteReq, Term, TypeOK
    <3>2. VoteResponse(j, i, req) \in VoteResp
      BY <3>1 DEF VoteResponse, VoteResp, Grants
    <3> QED
      BY <2>1, <3>2 DEF Slot
  <2> HIDE DEF slot, req
  <2>5. rpc' \in [Server -> [Server -> Slot]]
    BY <2>3, <2>4, RpcType
  <2> QED
    BY <2>1, <2>2, <2>5, OnRequestVoteType DEF TypeOK, logVars, leaderVars, procVars
<1>2. CASE HandleAppendEntries(i, j)
  <2> DEFINE slot == [st |-> "appended", req |-> req, resp |-> AppendEntriesResponse(j, req)]
  <2>1. req \in AppendReq
    BY <1>2, SlotTypes DEF HandleAppendEntries
  <2>2. OnAppendEntries(j, i, req) /\ UNCHANGED orphans
    BY <1>2 DEF HandleAppendEntries
  <2>3. rpc' = [rpc EXCEPT ![i][j] = slot]
    BY <1>2 DEF HandleAppendEntries
  <2>4. slot \in Slot
    <3>1. AppendEntriesResponse(j, req) \in AppendResp
      <4>1. current_term[j] \in 0..MaxTerm
        BY DEF TypeOK
      <4>2. GetLastLogIndex(LogAfter(j, req)) \in Nat
        BY <2>1, LogAfterType
      <4>3. Success(j, req) \in BOOLEAN
        BY DEF Success, SlowTerm, Reaches
      <4> HIDE DEF req
      <4> QED
        BY <4>1, <4>2, <4>3 DEF AppendEntriesResponse, AppendResp
    <3> QED
      BY <2>1, <3>1 DEF Slot
  <2> HIDE DEF slot, req
  <2>5. rpc' \in [Server -> [Server -> Slot]]
    BY <2>3, <2>4, RpcType
  <2> QED
    BY <2>1, <2>2, <2>5, OnAppendEntriesType DEF TypeOK, leaderVars, procVars
<1> QED
  BY <1>1, <1>2

(* A request handled late.                                                 *)
LEMMA OrphanType ==
  ASSUME TypeOK, NEW m \in orphans, HandleOrphan(m)
  PROVE  TypeOK'
<1>1. m \in Orphan
  BY DEF TypeOK
<1>2. m.from \in Server /\ m.to \in Server
  BY <1>1 DEF Orphan
<1>3. orphans' \in SUBSET Orphan /\ UNCHANGED rpc
  BY DEF HandleOrphan, TypeOK
<1>4. CASE m.kind = "vote" /\ OnRequestVote(m.to, m.from, m.req)
  <2>1. m.req \in VoteReq
    BY <1>1, <1>4 DEF Orphan
  <2> QED
    BY <1>2, <1>3, <1>4, <2>1, OnRequestVoteType DEF TypeOK, logVars, leaderVars, procVars
<1>5. CASE m.kind = "append" /\ OnAppendEntries(m.to, m.from, m.req)
  <2>1. m.req \in AppendReq
    BY <1>1, <1>5 DEF Orphan
  <2> QED
    BY <1>2, <1>3, <1>5, <2>1, OnAppendEntriesType DEF TypeOK, leaderVars, procVars
<1> QED
  BY <1>4, <1>5 DEF HandleOrphan

(* An answer read.                                                         *)
LEMMA OnVoteReplyType ==
  ASSUME TypeOK, NEW i \in Server, NEW j \in Server, OnVoteReply(i, j)
  PROVE  TypeOK'
<1> DEFINE pool == vote_pool[i] \cup {j}
<1>1. rpc' \in [Server -> [Server -> Slot]]
  BY RpcType DEF OnVoteReply, Idle, Slot
<1>2. UNCHANGED <<up, vote_for, log, last_commited_index, pending_entries, orphans, call, crashes>>
  BY DEF OnVoteReply, logVars, procVars
<1>3. CASE VoteCounts(i, j) /\ Cardinality(pool) >= quorum_size
  <2>1. vote_pool' = [vote_pool EXCEPT ![i] = pool] /\ UNCHANGED current_term /\ ChangeToLeader(i)
    BY <1>3 DEF OnVoteReply
  <2>2. current_term[i] \in Term
    BY <1>3 DEF VoteCounts, TypeOK
  <2>3. next_index' \in [Server -> [Server -> Nat]]
    <3>1. GetLastLogIndex(log[i]) + 1 \in Nat
      BY LogTypes
    <3> QED
      BY <2>1, <3>1 DEF ChangeToLeader, TypeOK
  <2>4. /\ current_role' \in [Server -> Role]
        /\ \A k \in Server : current_role'[k] # "Follower" => current_term'[k] \in Term
        /\ leader_id' \in [Server -> Server \cup {None}]
    BY <2>1, <2>2 DEF ChangeToLeader, TypeOK, Role
  <2>5. vote_pool' \in [Server -> SUBSET Server]
    BY <2>1 DEF TypeOK
  <2> QED
    BY <1>1, <1>2, <2>1, <2>3, <2>4, <2>5 DEF TypeOK
<1>4. CASE VoteCounts(i, j) /\ ~(Cardinality(pool) >= quorum_size)
  <2>1. /\ vote_pool' = [vote_pool EXCEPT ![i] = pool]
        /\ UNCHANGED <<current_term, current_role, leader_id, next_index>>
    BY <1>4 DEF OnVoteReply
  <2> QED
    BY <1>1, <1>2, <2>1 DEF TypeOK
<1>5. CASE ~VoteCounts(i, j)
  <2>1. UNCHANGED <<current_term, current_role, leader_id, vote_pool, next_index>>
    BY <1>5 DEF OnVoteReply, roleVars
  <2> QED
    BY <1>1, <1>2, <2>1 DEF TypeOK
<1> QED
  BY <1>3, <1>4, <1>5

LEMMA OnAppendReplyType ==
  ASSUME TypeOK, NEW i \in Server, NEW j \in Server, OnAppendReply(i, j)
  PROVE  TypeOK'
<1> DEFINE req == rpc[i][j].req
           resp == rpc[i][j].resp
<1>1. rpc' \in [Server -> [Server -> Slot]]
  BY RpcType DEF OnAppendReply, Idle, Slot
<1>2. UNCHANGED <<up, vote_for, log, orphans, call, crashes>>
  BY DEF OnAppendReply, procVars
<1>3. req \in AppendReq /\ resp \in AppendResp
  BY SlotTypes DEF OnAppendReply
<1>4. CASE /\ next_index' = [next_index EXCEPT ![i][j] = resp.last_log_index + 1]
           /\ Acknowledge(i, j, req.entries)
           /\ UNCHANGED roleVars
  <2>1. resp.last_log_index + 1 \in Nat /\ req.entries \in Seq(Entry)
    BY <1>3 DEF AppendReq, AppendResp
  <2> HIDE DEF req, resp
  <2>2. next_index' \in [Server -> [Server -> Nat]]
    <3>1. next_index \in [Server -> [Server -> Nat]]
      BY DEF TypeOK
    <3> QED
      BY <1>4, <2>1, <3>1
  <2> QED
    BY <1>1, <1>2, <1>4, <2>1, <2>2, AcknowledgeType DEF TypeOK, roleVars
<1>5. CASE /\ next_index' = [next_index EXCEPT ![i][j] = BackOff(req.prev_log_index)]
           /\ UNCHANGED <<roleVars, pending_entries, last_commited_index>>
  <2>1. BackOff(req.prev_log_index) \in Nat
    BY <1>3, BoundAssumption DEF BackOff, AppendReq
  <2> HIDE DEF req, resp
  <2>2. next_index' \in [Server -> [Server -> Nat]]
    BY <1>5, <2>1 DEF TypeOK
  <2> QED
    BY <1>1, <1>2, <1>5, <2>2 DEF TypeOK, roleVars
<1>6. CASE ChangeToFollower(i, resp.term, None) /\ UNCHANGED <<leaderVars, last_commited_index>>
  <2>1. resp.term \in 0..MaxTerm
    BY <1>3 DEF AppendResp
  <2> HIDE DEF req, resp
  <2> QED
    BY <1>1, <1>2, <1>6, <2>1, ChangeToFollowerType DEF TypeOK, leaderVars
<1>7. CASE UNCHANGED <<roleVars, leaderVars, last_commited_index>>
  BY <1>1, <1>2, <1>7 DEF TypeOK, roleVars, leaderVars
<1> QED
  BY <1>4, <1>5, <1>6, <1>7 DEF OnAppendReply

LEMMA LoseCallType ==
  ASSUME TypeOK, NEW i \in Server, NEW j \in Server, LoseCall(i, j)
  PROVE  TypeOK'
<1> DEFINE m == [kind |-> rpc[i][j].st, from |-> i, to |-> j, req |-> rpc[i][j].req]
<1>1. rpc' \in [Server -> [Server -> Slot]]
  BY RpcType DEF LoseCall, Idle, Slot
<1>2. UNCHANGED <<roleVars, vote_for, logVars, leaderVars, call, procVars>>
  BY DEF LoseCall
<1>3. orphans' \in SUBSET Orphan
  <2>1. CASE UNCHANGED orphans
    BY <2>1 DEF TypeOK
  <2>2. CASE rpc[i][j].st \in {"vote", "append"} /\ orphans' = orphans \cup {m}
    <3>1. m \in Orphan
      BY <2>2, SlotTypes DEF Orphan
    <3> HIDE DEF m
    <3> QED
      BY <2>2, <3>1 DEF TypeOK
  <2> QED
    BY <2>1, <2>2 DEF LoseCall
<1> HIDE DEF m
<1> QED
  BY <1>1, <1>2, <1>3 DEF TypeOK, roleVars, logVars, leaderVars, procVars

LEMMA RestartType ==
  ASSUME TypeOK, NEW i \in Server, Restart(i)
  PROVE  TypeOK'
<1>1. UNCHANGED <<rpc, orphans, call, crashes>>
  BY DEF Restart, netVars
<1>2. /\ current_term' = [current_term EXCEPT ![i] = 0]
      /\ current_role' = [current_role EXCEPT ![i] = "Follower"]
      /\ current_term' \in [Server -> 0..MaxTerm] /\ current_role' \in [Server -> Role]
  BY BoundAssumption DEF Restart, TypeOK, Role
<1>3. \A k \in Server : current_role'[k] # "Follower" => current_term'[k] \in Term
  BY <1>2 DEF TypeOK
<1>4. /\ up' \in [Server -> BOOLEAN] /\ leader_id' \in [Server -> Server \cup {None}]
      /\ vote_for' \in [Server -> [Term -> Server \cup {None}]]
      /\ vote_pool' \in [Server -> SUBSET Server]
  BY DEF Restart, TypeOK
<1>5. /\ log' \in [Server -> Seq(Entry)] /\ last_commited_index' \in [Server -> Nat]
      /\ next_index' \in [Server -> [Server -> Nat]]
      /\ pending_entries' \in [Server -> SUBSET (Nat \X Server)]
  BY DEF Restart, TypeOK
<1> QED
  BY <1>1, <1>2, <1>3, <1>4, <1>5 DEF TypeOK

(* The steps of a client's handler.                                        *)
LEMMA ClientStepType ==
  ASSUME TypeOK, NEW o \in Op,
         \/ \E i \in Server : CheckIsLeader(o, i)
         \/ CheckLeaderId(o) \/ StampTerm(o) \/ AppendToLog(o) \/ AnswerClient(o)
  PROVE  TypeOK'
<1>1. UNCHANGED <<roleVars, vote_for, last_commited_index, leaderVars, netVars, procVars>>
  BY DEF CheckIsLeader, CheckLeaderId, StampTerm, AppendToLog, AnswerClient, logVars
<1>3. ASSUME NEW c \in CallState, call' = [call EXCEPT ![o] = c], log' \in [Server -> Seq(Entry)]
      PROVE  TypeOK'
  <2>1. call' \in [Op -> CallState]
    BY <1>3 DEF TypeOK
  <2> QED
    BY <1>1, <1>3, <2>1 DEF TypeOK, roleVars, leaderVars, netVars, procVars
<1>4. ASSUME NEW i \in Server, CheckIsLeader(o, i) PROVE TypeOK'
  <2> DEFINE c == [pc |-> "leader", at |-> i, term |-> 0, index |-> 0]
  <2>1. c \in CallState
    <3>1. c \in [pc : {"leader", "known", "stamped", "waiting", "dangling", "ok", "timeout", "lost"},
                 at : Server, term : Nat, index : Nat]
      OBVIOUS
    <3> QED
      BY <3>1, Zenon DEF CallState
  <2>2. call' = [call EXCEPT ![o] = c] /\ log' \in [Server -> Seq(Entry)]
    BY <1>4 DEF CheckIsLeader, TypeOK, logVars
  <2> HIDE DEF c
  <2> QED
    BY <1>3, <2>1, <2>2
<1>5. CASE CheckLeaderId(o)
  <2> DEFINE c == IF leader_id[call[o].at] = None THEN NewCall ELSE [call[o] EXCEPT !.pc = "known"]
  <2>1. c \in CallState
    BY <1>5, CallTypes DEF CheckLeaderId, CallState
  <2>2. call' = [call EXCEPT ![o] = c] /\ log' \in [Server -> Seq(Entry)]
    BY <1>5 DEF CheckLeaderId, TypeOK, logVars
  <2> HIDE DEF c
  <2> QED
    BY <1>3, <2>1, <2>2
<1>6. CASE StampTerm(o)
  <2> DEFINE c == [call[o] EXCEPT !.pc = "stamped", !.term = current_term[call[o].at]]
  <2>1. call[o].pc # "new"
    BY <1>6 DEF StampTerm
  <2>2. call[o].at \in Server
    BY <2>1, CallTypes
  <2>3. current_term[call[o].at] \in Nat
    BY <2>2, BoundAssumption DEF TypeOK
  <2>4. c \in CallState
    BY <2>1, <2>3, CallTypes DEF CallState
  <2>5. call' = [call EXCEPT ![o] = c] /\ log' \in [Server -> Seq(Entry)]
    BY <1>6 DEF StampTerm, TypeOK, logVars
  <2> HIDE DEF c
  <2> QED
    BY <1>3, <2>4, <2>5
<1>7. CASE AppendToLog(o)
  <2> DEFINE i == call[o].at
             c == [call[o] EXCEPT !.pc = "waiting", !.index = Len(log[i]) + 1]
             l == AppendOne(log[i], call[o].term, o)
  <2>1. call[o].pc # "new"
    BY <1>7 DEF AppendToLog
  <2>2. i \in Server /\ call[o].term \in Nat
    BY <2>1, CallTypes
  <2>3. log[i] \in Seq(Entry)
    BY <2>2, LogTypes
  <2>4. c \in CallState
    <3>1. Len(log[i]) + 1 \in Nat
      BY <2>3
    <3> QED
      BY <2>1, <3>1, CallTypes DEF CallState
  <2>5. l \in Seq(Entry)
    BY <2>2, <2>3, EntryIsEntries, AppendOneType
  <2>6. call' = [call EXCEPT ![o] = c] /\ log' = [log EXCEPT ![i] = l]
    BY <1>7 DEF AppendToLog
  <2> HIDE DEF c, l
  <2>7. log' \in [Server -> Seq(Entry)]
    BY <2>5, <2>6 DEF TypeOK
  <2> QED
    BY <1>3, <2>4, <2>6, <2>7
<1>8. CASE AnswerClient(o)
  <2>1. call[o].pc # "new"
    BY <1>8 DEF AnswerClient
  <2>2. PICK answer \in {"ok", "timeout"} : call' = [call EXCEPT ![o].pc = answer]
    BY <1>8 DEF AnswerClient
  <2> DEFINE c == [call[o] EXCEPT !.pc = answer]
  <2>3. c \in CallState
    BY <2>1, CallTypes DEF CallState
  <2>4. call' = [call EXCEPT ![o] = c] /\ log' \in [Server -> Seq(Entry)]
    BY <1>8, <2>2 DEF AnswerClient, TypeOK, logVars
  <2> HIDE DEF c
  <2> QED
    BY <1>3, <2>3, <2>4
<1> QED
  BY <1>4, <1>5, <1>6, <1>7, <1>8

(* Every variable of a server keeps its type, whatever the threads, the    *)
(* clients and the network do: late votes, requests handled after their    *)
(* connection broke, crashes and restarts included.                        *)
LEMMA TypeStep ==
  ASSUME TypeOK, [Next]_vars
  PROVE  TypeOK'
<1>1. ASSUME NEW i \in Server, StartLeaderElection(i) PROVE TypeOK'
  BY <1>1, ElectionStepType
<1>2. ASSUME NEW i \in Server, Crash(i) \/ CrashOnEmptyLog(i) PROVE TypeOK'
  <2>1. Stop(i) /\ crashes' \in Nat
    BY <1>2 DEF Crash, CrashOnEmptyLog, TypeOK
  <2> QED
    BY <2>1, StopType
<1>3. ASSUME NEW i \in Server, Restart(i) PROVE TypeOK'
  BY <1>3, RestartType
<1>4. ASSUME NEW i \in Server, NEW j \in Server, SendRequestVote(i, j) \/ SendAppendEntries(i, j)
      PROVE  TypeOK'
  BY <1>4, SendType
<1>5. ASSUME NEW i \in Server, NEW j \in Server,
             HandleRequestVote(i, j) \/ HandleAppendEntries(i, j)
      PROVE  TypeOK'
  BY <1>5, HandleType
<1>6. ASSUME NEW i \in Server, NEW j \in Server, OnVoteReply(i, j) PROVE TypeOK'
  BY <1>6, OnVoteReplyType
<1>7. ASSUME NEW i \in Server, NEW j \in Server, OnAppendReply(i, j) PROVE TypeOK'
  BY <1>7, OnAppendReplyType
<1>8. ASSUME NEW i \in Server, NEW j \in Server, LoseCall(i, j) PROVE TypeOK'
  BY <1>8, LoseCallType
<1>9. ASSUME NEW m \in orphans, HandleOrphan(m) PROVE TypeOK'
  BY <1>9, OrphanType
<1>10. ASSUME NEW o \in Op,
              \/ \E i \in Server : CheckIsLeader(o, i)
              \/ CheckLeaderId(o) \/ StampTerm(o) \/ AppendToLog(o) \/ AnswerClient(o)
       PROVE  TypeOK'
  BY <1>10, ClientStepType
<1>11. CASE UNCHANGED vars
  BY <1>11 DEF TypeOK, vars, roleVars, logVars, leaderVars, netVars, procVars
<1> QED
  BY <1>1, <1>2, <1>3, <1>4, <1>5, <1>6, <1>7, <1>8, <1>9, <1>10, <1>11 DEF Next

(* Every reachable state is well typed, RemoteHostLoop's shared variables  *)
(* and every request and response included.                                *)
THEOREM TypeCorrect == Spec => []TypeOK
<1>1. TypeOK /\ [Next]_vars => TypeOK'
  BY TypeStep
<1> QED
  BY InitType, <1>1, PTL DEF Spec

-----------------------------------------------------------------------------
(* What a step does to requests and logs, where no server restarts.        *)

(* The requests to append of i to j, answered or not, that a thread or a   *)
(* broken connection holds.                                                *)
Requests(i, j) ==
  (IF rpc[i][j].st \in {"append", "appended"} THEN {rpc[i][j].req} ELSE {})
    \cup {m.req : m \in {n \in orphans : n.kind = "append" /\ n.from = i /\ n.to = j}}

ClientStep(o) ==
  \/ \E i \in Server : CheckIsLeader(o, i)
  \/ CheckLeaderId(o) \/ StampTerm(o) \/ AppendToLog(o) \/ AnswerClient(o)

LEMMA RequestTypes ==
  ASSUME TypeOK, NEW i \in Server, NEW j \in Server, NEW req \in Requests(i, j)
  PROVE  req \in AppendReq /\ req.term \in Nat /\ req.entries \in Seq(Entry)
<1>1. req \in AppendReq
  <2>1. CASE rpc[i][j].st \in {"append", "appended"} /\ req = rpc[i][j].req
    BY <2>1, SlotTypes
  <2>2. ASSUME NEW m \in orphans, m.kind = "append", m.req = req PROVE req \in AppendReq
    BY <2>2 DEF TypeOK, Orphan
  <2> QED
    BY <2>1, <2>2 DEF Requests
<1> QED
  BY <1>1, BoundAssumption DEF AppendReq

(* A call answered, lost or left to be handled late: its request is none   *)
(* that was not held before.                                               *)
LEMMA NoNewRequest ==
  ASSUME \A i, j \in Server : rpc'[i][j].st \in {"append", "appended"} =>
           rpc[i][j].st \in {"append", "appended"} /\ rpc'[i][j].req = rpc[i][j].req,
         \A m \in orphans' : m.kind = "append" =>
           m \in orphans \/ (rpc[m.from][m.to].st = "append" /\ rpc[m.from][m.to].req = m.req)
  PROVE  \A i, j \in Server : Requests(i, j)' \subseteq Requests(i, j)
BY DEF Requests

LEMMA OtherCalls ==
  ASSUME TypeOK, NEW a \in Server, NEW b \in Server, NEW slot, rpc' = [rpc EXCEPT ![a][b] = slot],
         slot.st \in {"append", "appended"} =>
           rpc[a][b].st \in {"append", "appended"} /\ slot.req = rpc[a][b].req
  PROVE  \A i, j \in Server : rpc'[i][j].st \in {"append", "appended"} =>
           rpc[i][j].st \in {"append", "appended"} /\ rpc'[i][j].req = rpc[i][j].req
BY DEF TypeOK

(* Only SendAppendEntries makes a request.                                 *)
LEMMA RequestsStep ==
  ASSUME TypeOK, [Next /\ NoRestart]_vars, NEW i \in Server, NEW j \in Server,
         NEW req \in Requests(i, j)'
  PROVE  req \in Requests(i, j) \/ (SendAppendEntries(i, j) /\ req = AppendEntriesRequest(i, j))
<1>1. ASSUME UNCHANGED netVars PROVE req \in Requests(i, j)
  BY <1>1 DEF netVars, Requests
<1>2. ASSUME NEW a \in Server, NEW b \in Server, UNCHANGED orphans, NEW slot,
             rpc' = [rpc EXCEPT ![a][b] = slot],
             slot.st \in {"append", "appended"} =>
               rpc[a][b].st \in {"append", "appended"} /\ slot.req = rpc[a][b].req
      PROVE  req \in Requests(i, j)
  BY <1>2, OtherCalls, NoNewRequest
<1>3. ASSUME NEW s \in Server, StartLeaderElection(s) \/ Restart(s) PROVE req \in Requests(i, j)
  BY <1>1, <1>3 DEF StartLeaderElection, Restart
<1>4. ASSUME NEW s \in Server, Crash(s) \/ CrashOnEmptyLog(s) PROVE req \in Requests(i, j)
  <2>1. Stop(s)
    BY <1>4 DEF Crash, CrashOnEmptyLog
  <2>2. \A k, l \in Server : rpc'[k][l] = Idle \/ rpc'[k][l] = rpc[k][l]
    BY <2>1 DEF Stop
  <2>3. orphans' \subseteq orphans
    BY <2>1 DEF Stop
  <2>4. Idle.st = "idle"
    BY DEF Idle
  <2> HIDE DEF Idle
  <2> QED
    BY <2>2, <2>3, <2>4, NoNewRequest
<1>6. ASSUME NEW a \in Server, NEW b \in Server, SendRequestVote(a, b)
      PROVE  req \in Requests(i, j)
  BY <1>2, <1>6 DEF SendRequestVote
<1>7. ASSUME NEW a \in Server, NEW b \in Server, HandleRequestVote(a, b) \/ HandleAppendEntries(a, b)
      PROVE  req \in Requests(i, j)
  BY <1>2, <1>7 DEF HandleRequestVote, HandleAppendEntries
<1>8. ASSUME NEW a \in Server, NEW b \in Server, OnVoteReply(a, b) \/ OnAppendReply(a, b)
      PROVE  req \in Requests(i, j)
  BY <1>2, <1>8 DEF OnVoteReply, OnAppendReply, Idle
<1>9. ASSUME NEW a \in Server, NEW b \in Server, SendAppendEntries(a, b)
      PROVE  req \in Requests(i, j) \/ (SendAppendEntries(i, j) /\ req = AppendEntriesRequest(i, j))
  <2> DEFINE slot == [st |-> "append", req |-> AppendEntriesRequest(a, b)]
  <2>1. rpc' = [rpc EXCEPT ![a][b] = slot] /\ UNCHANGED orphans /\ slot.req = AppendEntriesRequest(a, b)
    BY <1>9 DEF SendAppendEntries
  <2> HIDE DEF slot
  <2>2. \A k, l \in Server : rpc'[k][l] = IF k = a /\ l = b THEN slot ELSE rpc[k][l]
    BY <2>1 DEF TypeOK
  <2>3. CASE i = a /\ j = b
    <3>1. rpc'[i][j] = slot
      BY <2>2, <2>3
    <3>2. req = slot.req \/ \E m \in orphans : m.kind = "append" /\ m.from = i /\ m.to = j /\ m.req = req
      BY <2>1, <3>1 DEF Requests
    <3> QED
      BY <1>9, <2>1, <2>3, <3>2 DEF Requests
  <2>4. CASE i # a \/ j # b
    <3>1. rpc'[i][j] = rpc[i][j]
      BY <2>2, <2>4
    <3> QED
      BY <2>1, <3>1 DEF Requests
  <2> QED
    BY <2>3, <2>4
<1>10. ASSUME NEW a \in Server, NEW b \in Server, LoseCall(a, b) PROVE req \in Requests(i, j)
  <2>1. rpc' = [rpc EXCEPT ![a][b] = Idle]
    BY <1>10 DEF LoseCall
  <2>2. \A k, l \in Server : rpc'[k][l].st \in {"append", "appended"} =>
          rpc[k][l].st \in {"append", "appended"} /\ rpc'[k][l].req = rpc[k][l].req
    BY <2>1, OtherCalls DEF Idle
  <2>3. \A m \in orphans' : m.kind = "append" =>
          m \in orphans \/ (rpc[m.from][m.to].st = "append" /\ rpc[m.from][m.to].req = m.req)
    BY <1>10 DEF LoseCall
  <2> QED
    BY <2>2, <2>3, NoNewRequest
<1>11. ASSUME NEW m \in orphans, HandleOrphan(m) PROVE req \in Requests(i, j)
  BY <1>11, NoNewRequest DEF HandleOrphan
<1>12. ASSUME NEW o \in Op, ClientStep(o) PROVE req \in Requests(i, j)
  BY <1>1, <1>12 DEF ClientStep, CheckIsLeader, CheckLeaderId, StampTerm, AppendToLog, AnswerClient
<1>13. CASE UNCHANGED vars
  BY <1>1, <1>13 DEF vars
<1> QED
  BY <1>3, <1>4, <1>6, <1>7, <1>8, <1>9, <1>10, <1>11, <1>12, <1>13 DEF Next, ClientStep

(* An answer counts for the commit index of the server that asked, and     *)
(* changes no log.                                                         *)
LEMMA ReplyFrame ==
  ASSUME TypeOK, NEW i \in Server, NEW j \in Server, OnAppendReply(i, j)
  PROVE  /\ log' = log
         /\ \/ UNCHANGED <<pending_entries, last_commited_index>>
            \/ /\ rpc[i][j].req.entries # <<>> /\ rpc[i][j].resp.success
               /\ Acknowledge(i, j, rpc[i][j].req.entries)
         /\ \A k \in Server : k # i => last_commited_index'[k] = last_commited_index[k]
<1>1. log' = log
  BY DEF OnAppendReply
<1>2. \/ UNCHANGED <<pending_entries, last_commited_index>>
      \/ /\ rpc[i][j].req.entries # <<>> /\ rpc[i][j].resp.success
         /\ Acknowledge(i, j, rpc[i][j].req.entries)
  BY DEF OnAppendReply, leaderVars
<1>3. CASE UNCHANGED <<pending_entries, last_commited_index>>
  BY <1>1, <1>3
<1>4. CASE /\ rpc[i][j].req.entries # <<>> /\ rpc[i][j].resp.success
           /\ Acknowledge(i, j, rpc[i][j].req.entries)
  <2>1. \/ UNCHANGED last_commited_index
        \/ \E c : last_commited_index' = [last_commited_index EXCEPT ![i] = c]
    BY <1>4 DEF Acknowledge
  <2>2. \A k \in Server : k # i => last_commited_index'[k] = last_commited_index[k]
    BY <2>1 DEF TypeOK
  <2> QED
    BY <1>1, <1>4, <2>2
<1> QED
  BY <1>2, <1>3, <1>4

(* A log and its commit index change by a request handled, in its call or  *)
(* late, by an answer, or by the handler of a client.                      *)
LogChange(j) ==
  \/ log'[j] = log[j] /\ last_commited_index'[j] = last_commited_index[j]
  \/ \E i \in Server : \E req \in Requests(i, j) : OnAppendEntries(j, i, req)
  \/ \E i \in Server : OnAppendReply(j, i)
  \/ \E o \in Op : AppendToLog(o) /\ call[o].at = j

LEMMA LogStep ==
  ASSUME TypeOK, [Next /\ NoRestart]_vars, NEW j \in Server
  PROVE  LogChange(j)
<1>1. ASSUME NEW i \in Server, NEW k \in Server, NEW req \in Requests(i, k), OnAppendEntries(k, i, req)
      PROVE  LogChange(j)
  <2>1. CASE k = j
    BY <1>1, <2>1 DEF LogChange
  <2>2. CASE k # j
    BY <1>1, <2>2 DEF OnAppendEntries, logVars, TypeOK, LogChange
  <2> QED
    BY <2>1, <2>2
<1>2. ASSUME NEW s \in Server, StartLeaderElection(s) \/ Crash(s) \/ CrashOnEmptyLog(s) PROVE LogChange(j)
  BY <1>2 DEF StartLeaderElection, Crash, CrashOnEmptyLog, Stop, logVars, LogChange
<1>3. ASSUME NEW s \in Server, Restart(s) PROVE LogChange(j)
  BY <1>3 DEF Restart, NoRestart, TypeOK, vars, procVars, LogChange
<1>4. ASSUME NEW a \in Server, NEW b \in Server,
             \/ SendRequestVote(a, b) \/ HandleRequestVote(a, b) \/ OnVoteReply(a, b)
             \/ SendAppendEntries(a, b) \/ LoseCall(a, b)
      PROVE  LogChange(j)
  BY <1>4 DEF SendRequestVote, HandleRequestVote, OnRequestVote, OnVoteReply, SendAppendEntries,
              LoseCall, logVars, LogChange
<1>5. ASSUME NEW a \in Server, NEW b \in Server, OnAppendReply(a, b) PROVE LogChange(j)
  BY <1>5, ReplyFrame DEF LogChange
<1>6. ASSUME NEW a \in Server, NEW b \in Server, HandleAppendEntries(a, b) PROVE LogChange(j)
  <2>1. rpc[a][b].req \in Requests(a, b)
    BY <1>6 DEF HandleAppendEntries, Requests
  <2> QED
    BY <1>1, <1>6, <2>1 DEF HandleAppendEntries
<1>7. ASSUME NEW m \in orphans, HandleOrphan(m) PROVE LogChange(j)
  <2>1. m.from \in Server /\ m.to \in Server
    BY DEF TypeOK, Orphan
  <2>2. CASE m.kind = "vote" /\ OnRequestVote(m.to, m.from, m.req)
    BY <2>2 DEF OnRequestVote, logVars, LogChange
  <2>3. CASE m.kind = "append" /\ OnAppendEntries(m.to, m.from, m.req)
    <3>1. m.req \in Requests(m.from, m.to)
      BY <2>3 DEF Requests
    <3> QED
      BY <1>1, <2>1, <2>3, <3>1
  <2> QED
    BY <1>7, <2>2, <2>3 DEF HandleOrphan
<1>8. ASSUME NEW o \in Op, ClientStep(o) PROVE LogChange(j)
  <2>1. CASE AppendToLog(o)
    <3>1. call[o].at \in Server
      BY <2>1, CallTypes DEF AppendToLog
    <3>2. CASE call[o].at = j
      BY <2>1, <3>2 DEF LogChange
    <3>3. CASE call[o].at # j
      BY <2>1, <3>1, <3>3 DEF AppendToLog, TypeOK, LogChange
    <3> QED
      BY <3>2, <3>3
  <2>2. CASE ~AppendToLog(o)
    BY <1>8, <2>2 DEF ClientStep, CheckIsLeader, CheckLeaderId, StampTerm, AnswerClient, logVars, LogChange
  <2> QED
    BY <2>1, <2>2
<1>9. CASE UNCHANGED vars
  BY <1>9 DEF vars, logVars, LogChange
<1> QED
  BY <1>2, <1>3, <1>4, <1>5, <1>6, <1>7, <1>8, <1>9 DEF Next, ClientStep

(* A request that is not refused brings its receiver into its term.        *)
LEMMA RequestRaisesTerm ==
  ASSUME TypeOK, NEW i \in Server, NEW j \in Server, NEW req \in AppendReq,
         OnAppendEntries(j, i, req), ~SlowTerm(j, req)
  PROVE  /\ current_term'[j] = req.term /\ req.term >= current_term[j]
         /\ current_role'[j] = "Leader" => current_role[j] = "Leader" /\ current_term[j] = req.term
         /\ log'[j] = LogAfter(j, req)
<1>1. req.term \in Nat /\ current_term[j] \in Nat
  BY BoundAssumption DEF AppendReq, TypeOK
<1>2. req.term >= current_term[j]
  BY <1>1 DEF SlowTerm
<1>3. log'[j] = LogAfter(j, req)
  BY DEF OnAppendEntries, TypeOK
<1>4. CASE req.term > current_term[j] \/ current_role[j] = "Candidate"
  <2>1. current_term'[j] = req.term /\ current_role'[j] = "Follower"
    BY <1>4 DEF OnAppendEntries, ChangeToFollower, TypeOK
  <2> QED
    BY <1>2, <1>3, <2>1
<1>5. CASE ~(req.term > current_term[j] \/ current_role[j] = "Candidate")
  <2>1. UNCHANGED <<current_term, current_role>> /\ current_term[j] = req.term
    BY <1>1, <1>2, <1>5 DEF OnAppendEntries
  <2> QED
    BY <1>2, <1>3, <2>1
<1> QED
  BY <1>4, <1>5

(* An answer is made by HandleAppendEntries and by nothing else.           *)
LEMMA AnswersStep ==
  ASSUME TypeOK, [Next /\ NoRestart]_vars, NEW i \in Server, NEW j \in Server,
         rpc'[i][j].st = "appended"
  PROVE  rpc'[i][j] = rpc[i][j] \/ HandleAppendEntries(i, j)
<1>1. ASSUME NEW a \in Server, NEW b \in Server, NEW slot, rpc' = [rpc EXCEPT ![a][b] = slot],
             slot.st # "appended"
      PROVE  rpc'[i][j] = rpc[i][j]
  BY <1>1 DEF TypeOK
<1>2. ASSUME NEW s \in Server, StartLeaderElection(s) \/ Restart(s) PROVE rpc'[i][j] = rpc[i][j]
  BY <1>2 DEF StartLeaderElection, Restart, netVars
<1>3. ASSUME NEW s \in Server, Crash(s) \/ CrashOnEmptyLog(s) PROVE rpc'[i][j] = rpc[i][j]
  <2>1. Stop(s)
    BY <1>3 DEF Crash, CrashOnEmptyLog
  <2>2. \A k, l \in Server : rpc'[k][l] = Idle \/ rpc'[k][l] = rpc[k][l]
    BY <2>1 DEF Stop
  <2>3. Idle.st = "idle"
    BY DEF Idle
  <2> HIDE DEF Idle
  <2> QED
    BY <2>2, <2>3
<1>4. ASSUME NEW a \in Server, NEW b \in Server, SendRequestVote(a, b) \/ SendAppendEntries(a, b)
      PROVE  rpc'[i][j] = rpc[i][j]
  <2>1. CASE SendRequestVote(a, b)
    BY <1>1, <2>1 DEF SendRequestVote
  <2>2. CASE SendAppendEntries(a, b)
    <3> DEFINE slot == [st |-> "append", req |-> AppendEntriesRequest(a, b)]
    <3>1. rpc' = [rpc EXCEPT ![a][b] = slot] /\ slot.st # "appended"
      BY <2>2 DEF SendAppendEntries
    <3> HIDE DEF slot
    <3> QED
      BY <1>1, <3>1
  <2> QED
    BY <1>4, <2>1, <2>2
<1>5. ASSUME NEW a \in Server, NEW b \in Server, HandleRequestVote(a, b) PROVE rpc'[i][j] = rpc[i][j]
  BY <1>1, <1>5 DEF HandleRequestVote
<1>6. ASSUME NEW a \in Server, NEW b \in Server, OnVoteReply(a, b) \/ OnAppendReply(a, b) \/ LoseCall(a, b)
      PROVE  rpc'[i][j] = rpc[i][j]
  BY <1>1, <1>6 DEF OnVoteReply, OnAppendReply, LoseCall, Idle
<1>7. ASSUME NEW a \in Server, NEW b \in Server, HandleAppendEntries(a, b)
      PROVE  rpc'[i][j] = rpc[i][j] \/ HandleAppendEntries(i, j)
  <2>1. CASE a = i /\ b = j
    BY <1>7, <2>1
  <2>2. CASE a # i \/ b # j
    BY <1>7, <2>2 DEF HandleAppendEntries, TypeOK
  <2> QED
    BY <2>1, <2>2
<1>8. ASSUME NEW m \in orphans, HandleOrphan(m) PROVE rpc'[i][j] = rpc[i][j]
  BY <1>8 DEF HandleOrphan
<1>9. ASSUME NEW o \in Op, ClientStep(o) PROVE rpc'[i][j] = rpc[i][j]
  BY <1>9 DEF ClientStep, CheckIsLeader, CheckLeaderId, StampTerm, AppendToLog, AnswerClient, netVars
<1>10. CASE UNCHANGED vars
  BY <1>10 DEF vars, netVars
<1> QED
  BY <1>2, <1>3, <1>4, <1>5, <1>6, <1>7, <1>8, <1>9, <1>10 DEF Next, ClientStep

LEMMA AnswerIs ==
  ASSUME TypeOK, NEW i \in Server, NEW j \in Server, HandleAppendEntries(i, j)
  PROVE  /\ rpc'[i][j].req = rpc[i][j].req
         /\ rpc'[i][j].resp = AppendEntriesResponse(j, rpc[i][j].req)
         /\ rpc'[i][j].resp.success = Success(j, rpc[i][j].req)
<1> DEFINE req == rpc[i][j].req
           resp == AppendEntriesResponse(j, req)
           slot == [st |-> "appended", req |-> req, resp |-> resp]
<1>1. rpc' = [rpc EXCEPT ![i][j] = slot]
  BY DEF HandleAppendEntries
<1>2. rpc'[i][j] = slot
  <2> HIDE DEF slot
  <2> QED
    BY <1>1 DEF TypeOK
<1>3. resp.success = Success(j, req)
  BY DEF AppendEntriesResponse
<1> HIDE DEF req, resp
<1>4. rpc'[i][j].req = req /\ rpc'[i][j].resp = resp
  BY <1>2
<1> QED
  BY <1>3, <1>4 DEF req, resp

(* The entry that the handler of o appends.                                *)
NewEntry(o) == [index |-> Len(log[call[o].at]) + 1, term |-> call[o].term, op |-> o]

LEMMA OneEntryMore ==
  ASSUME TypeOK, NEW o \in Op, AppendToLog(o)
  PROVE  /\ call[o].at \in Server /\ log[call[o].at] \in Seq(Entry) /\ NewEntry(o) \in Entry
         /\ log' = [log EXCEPT ![call[o].at] = Append(@, NewEntry(o))]
         /\ UNCHANGED <<roleVars, netVars>>
<1>1. call[o].at \in Server /\ call[o].term \in Nat
  BY CallTypes DEF AppendToLog
<1>2. log[call[o].at] \in Seq(Entry)
  BY <1>1, LogTypes
<1>3. NewEntry(o) \in Entry
  BY <1>1, <1>2 DEF NewEntry, Entry
<1> QED
  BY <1>1, <1>2, <1>3 DEF AppendToLog, AppendOne, NewEntry

-----------------------------------------------------------------------------
(* Terms: what RaftConsensus keeps although nothing is on disk, with       *)
(* crashes and restarts, late requests and unlocked client handlers.       *)

OfTerm(es, t) == \A k \in DOMAIN es : es[k].term <= t

LogsOfTerm == \A i \in Server : OfTerm(log[i], current_term[i])

RequestsOfTerm ==
  \A i, j \in Server : rpc[i][j].st \in {"append", "appended"} =>
    OfTerm(rpc[i][j].req.entries, rpc[i][j].req.term)

LateEntriesOfTerm ==
  \A m \in orphans : m.kind = "append" => OfTerm(m.req.entries, m.req.term)

(* A handler of a client ends with its process, and what it has stamped is *)
(* a term its server has reached.                                          *)
HandlersOfReachedTerms ==
  \A o \in Op :
    /\ call[o].pc \in {"leader", "known", "stamped"} => up[call[o].at]
    /\ call[o].pc = "stamped" => call[o].term <= current_term[call[o].at]

(* What every step preserves of the terms.                                 *)
TermsInv ==
  /\ VotesInReachedTerms
  /\ CandidateVotesForItself
  /\ LogsOfTerm
  /\ RequestsOfTerm
  /\ LateEntriesOfTerm
  /\ HandlersOfReachedTerms

-----------------------------------------------------------------------------
(* Entries *)

UpTo(t) == {e \in Entry : e.term <= t}

LEMMA OfTermIsUpTo ==
  ASSUME NEW es \in Seq(Entry), NEW t
  PROVE  OfTerm(es, t) <=> es \in Seq(UpTo(t))
<1>1. ASSUME OfTerm(es, t) PROVE es \in Seq(UpTo(t))
  <2>1. \A k \in 1..Len(es) : es[k] \in UpTo(t)
    BY <1>1 DEF OfTerm, UpTo
  <2> QED
    BY <2>1
<1>2. ASSUME es \in Seq(UpTo(t)) PROVE OfTerm(es, t)
  BY <1>2 DEF OfTerm, UpTo
<1> QED
  BY <1>1, <1>2

LEMMA OfLaterTerm ==
  ASSUME NEW es \in Seq(Entry), NEW t \in Nat, NEW u \in Nat, t <= u, OfTerm(es, t)
  PROVE  OfTerm(es, u)
<1> SUFFICES ASSUME NEW k \in DOMAIN es PROVE es[k].term <= u
  BY DEF OfTerm
<1>1. es[k] \in Entry /\ es[k].term <= t
  BY DEF OfTerm
<1> QED
  BY <1>1 DEF Entry

(* A batch laid over a log brings no term but theirs.                      *)
LEMMA LogAfterOfTerm ==
  ASSUME TypeOK, NEW j \in Server, NEW req \in AppendReq, NEW t,
         OfTerm(log[j], t), OfTerm(req.entries, t)
  PROVE  OfTerm(LogAfter(j, req), t)
<1>1. log[j] \in Seq(Entry) /\ req.entries \in Seq(Entry)
  BY LogTypes DEF AppendReq
<1>2. log[j] \in Seq(UpTo(t)) /\ req.entries \in Seq(UpTo(t))
  BY <1>1, OfTermIsUpTo
<1>3. LogAfter(j, req) \in Seq(UpTo(t))
  BY <1>2, AppendBatchType DEF LogAfter
<1> QED
  BY <1>3, LogAfterType, OfTermIsUpTo

LEMMA RequestOfTerm ==
  ASSUME TypeOK, NEW i \in Server, NEW j \in Server, OfTerm(log[i], current_term[i])
  PROVE  OfTerm(AppendEntriesRequest(i, j).entries, current_term[i])
<1> DEFINE prev == next_index[i][j] - 1
           es == IF prev < GetLastLogIndex(log[i]) THEN GetEntriesStartAt(log[i], prev) ELSE <<>>
           E == UpTo(current_term[i])
<1>1. log[i] \in Seq(Entry)
  BY LogTypes
<1>2. log[i] \in Seq(E)
  BY <1>1, OfTermIsUpTo
<1>3. GetEntriesStartAt(log[i], prev) \in Seq(E) /\ GetEntriesStartAt(log[i], prev) \in Seq(Entry)
  <2> HIDE DEF prev, E
  <2> QED
    BY <1>1, <1>2, GetEntriesStartAtType
<1>4. es \in Seq(E) /\ es \in Seq(Entry)
  <2>1. <<>> \in Seq(E) /\ <<>> \in Seq(Entry)
    OBVIOUS
  <2> HIDE DEF prev, E
  <2> QED
    BY <1>3, <2>1
<1>5. AppendEntriesRequest(i, j).entries = es
  BY DEF AppendEntriesRequest
<1> HIDE DEF es
<1> QED
  BY <1>4, <1>5, OfTermIsUpTo

-----------------------------------------------------------------------------
(* Steps *)

(* The calls after a step are old ones, or of the term they carry.         *)
LEMMA RequestsStay ==
  ASSUME RequestsOfTerm,
         \A i, j \in Server : rpc'[i][j].st \in {"append", "appended"} =>
           \/ rpc[i][j].st \in {"append", "appended"} /\ rpc'[i][j].req = rpc[i][j].req
           \/ OfTerm(rpc'[i][j].req.entries, rpc'[i][j].req.term)
  PROVE  RequestsOfTerm'
BY DEF RequestsOfTerm, OfTerm

(* Terms only grow, and the handlers of clients stand still.               *)
LEMMA HandlersStay ==
  ASSUME TypeOK, TypeOK', HandlersOfReachedTerms, UNCHANGED up,
         \A i \in Server : current_term'[i] >= current_term[i],
         \A o \in Op : call'[o].pc \in {"leader", "known", "stamped"} => call'[o] = call[o]
  PROVE  HandlersOfReachedTerms'
<1> SUFFICES ASSUME NEW o \in Op, call'[o].pc \in {"leader", "known", "stamped"}
             PROVE  up'[call'[o].at] /\ (call'[o].pc = "stamped" => call'[o].term <= current_term'[call'[o].at])
  BY DEF HandlersOfReachedTerms
<1>1. call'[o] = call[o] /\ call[o].pc # "new"
  OBVIOUS
<1>2. call[o].at \in Server /\ call[o].term \in Nat
  BY <1>1, CallTypes
<1>3. current_term[call[o].at] \in Nat /\ current_term'[call[o].at] \in Nat
  BY <1>2, BoundAssumption DEF TypeOK
<1>4. call[o].pc = "stamped" => call[o].term <= current_term[call[o].at]
  BY DEF HandlersOfReachedTerms
<1>5. up[call[o].at]
  BY <1>1 DEF HandlersOfReachedTerms
<1> QED
  BY <1>1, <1>2, <1>3, <1>4, <1>5

(* Logs stay, and terms only grow.                                         *)
LEMMA LogsStay ==
  ASSUME TypeOK, TypeOK', LogsOfTerm, UNCHANGED log,
         \A i \in Server : current_term'[i] >= current_term[i]
  PROVE  LogsOfTerm'
<1> SUFFICES ASSUME NEW i \in Server PROVE OfTerm(log'[i], current_term'[i])
  BY DEF LogsOfTerm, OfTerm
<1>1. current_term[i] \in Nat /\ current_term'[i] \in Nat
  BY BoundAssumption DEF TypeOK
<1> QED
  BY <1>1, LogTypes, OfLaterTerm DEF LogsOfTerm

(* A vote handled, in its call or late: the term is raised before the vote *)
(* is given.                                                               *)
LEMMA OnRequestVoteTerms ==
  ASSUME TypeOK, TermsInv, NEW i \in Server, NEW j \in Server, NEW req \in VoteReq,
         OnRequestVote(j, i, req)
  PROVE  /\ VotesInReachedTerms' /\ CandidateVotesForItself'
         /\ \A k \in Server : current_term'[k] >= current_term[k]
         /\ UNCHANGED <<log, call, up>>
<1>1. req.term \in Term
  BY DEF VoteReq
<1>2. UNCHANGED <<log, call, up>>
  BY DEF OnRequestVote, logVars, procVars
<1>3. /\ \A k \in Server : current_term'[k] >= current_term[k]
      /\ current_term'[j] >= req.term
  <2>1. req.term \in Nat /\ \A k \in Server : current_term[k] \in Nat
    BY <1>1, BoundAssumption DEF TypeOK, Term
  <2>2. CASE req.term > current_term[j]
    <3>1. current_term' = [current_term EXCEPT ![j] = req.term]
      BY <2>2 DEF OnRequestVote, ChangeToFollower
    <3>2. \A k \in Server : current_term'[k] = IF k = j THEN req.term ELSE current_term[k]
      BY <3>1 DEF TypeOK
    <3> QED
      BY <2>1, <2>2, <3>2
  <2>3. CASE ~(req.term > current_term[j])
    <3>1. UNCHANGED current_term
      BY <2>3 DEF OnRequestVote, roleVars
    <3> QED
      BY <2>1, <2>3, <3>1
  <2> QED
    BY <2>2, <2>3
<1>4. \A k \in Server, t \in Term :
        \/ vote_for'[k][t] = vote_for[k][t]
        \/ k = j /\ t = req.term /\ vote_for[k][t] \in {None, i} /\ vote_for'[k][t] = i
  BY <1>1 DEF OnRequestVote, Grants, TypeOK
<1>5. VotesInReachedTerms'
  <2> SUFFICES ASSUME NEW k \in Server, NEW t \in Term, vote_for'[k][t] # None
               PROVE  t <= current_term'[k]
    BY DEF VotesInReachedTerms
  <2>1. current_term[k] \in Nat /\ current_term'[k] \in Nat /\ t \in Nat
    <3>1. current_term' \in [Server -> 0..MaxTerm]
      BY OnRequestVoteType
    <3> QED
      BY <3>1, BoundAssumption DEF TypeOK, Term
  <2>2. CASE vote_for'[k][t] = vote_for[k][t]
    <3>1. t <= current_term[k]
      BY <2>2 DEF TermsInv, VotesInReachedTerms
    <3> QED
      BY <1>3, <2>1, <3>1
  <2>3. CASE k = j /\ t = req.term
    BY <1>3, <2>1, <2>3
  <2> QED
    BY <1>4, <2>2, <2>3
<1>6. CandidateVotesForItself'
  <2> SUFFICES ASSUME NEW k \in Server, current_role'[k] = "Candidate"
               PROVE  k \in vote_pool'[k] /\ vote_for'[k][current_term'[k]] = k
    BY DEF CandidateVotesForItself
  <2>1. /\ current_role[k] = "Candidate" /\ current_term'[k] = current_term[k]
        /\ vote_pool'[k] = vote_pool[k]
    <3>1. CASE req.term > current_term[j]
      <4>1. ChangeToFollower(j, req.term, None)
        BY <3>1 DEF OnRequestVote
      <4> QED
        BY <4>1 DEF ChangeToFollower, TypeOK
    <3>2. CASE ~(req.term > current_term[j])
      BY <3>2 DEF OnRequestVote, roleVars
    <3> QED
      BY <3>1, <3>2
  <2>2. k \in vote_pool[k] /\ vote_for[k][current_term[k]] = k /\ current_term[k] \in Term
    BY <2>1 DEF TermsInv, CandidateVotesForItself, TypeOK
  <2>3. k # None
    BY ServerAssumption
  <2> QED
    BY <1>4, <2>1, <2>2, <2>3
<1> QED
  BY <1>2, <1>3, <1>5, <1>6

(* Votes stay while terms only grow; no server becomes a candidate.        *)
LEMMA VotesStayReached ==
  ASSUME TypeOK, TypeOK', TermsInv, UNCHANGED vote_for,
         \A k \in Server : current_term'[k] >= current_term[k],
         \A k \in Server : current_role'[k] = "Candidate" =>
           /\ current_role[k] = "Candidate" /\ current_term'[k] = current_term[k]
           /\ vote_pool[k] \subseteq vote_pool'[k]
  PROVE  VotesInReachedTerms' /\ CandidateVotesForItself'
<1>1. VotesInReachedTerms'
  <2> SUFFICES ASSUME NEW k \in Server, NEW t \in Term, vote_for[k][t] # None
               PROVE  t <= current_term'[k]
    BY DEF VotesInReachedTerms
  <2>1. current_term[k] \in Nat /\ current_term'[k] \in Nat /\ t \in Nat
    BY BoundAssumption DEF TypeOK, Term
  <2>2. t <= current_term[k]
    BY DEF TermsInv, VotesInReachedTerms
  <2> QED
    BY <2>1, <2>2
<1>2. CandidateVotesForItself'
  BY DEF TermsInv, CandidateVotesForItself
<1> QED
  BY <1>1, <1>2

(* A request to append handled, in its call or late: the term is raised to *)
(* that of the request before its entries are appended.                    *)
LEMMA OnAppendEntriesTerms ==
  ASSUME TypeOK, TypeOK', TermsInv, NEW i \in Server, NEW j \in Server, NEW req \in AppendReq,
         OfTerm(req.entries, req.term), OnAppendEntries(j, i, req)
  PROVE  /\ VotesInReachedTerms' /\ CandidateVotesForItself' /\ LogsOfTerm'
         /\ \A k \in Server : current_term'[k] >= current_term[k]
         /\ UNCHANGED up
         /\ \A o \in Op : call'[o].pc \in {"leader", "known", "stamped"} => call'[o] = call[o]
<1>1. CASE SlowTerm(j, req)
  <2>1. UNCHANGED <<current_term, current_role, vote_pool, vote_for, log, call, up>>
    BY <1>1 DEF OnAppendEntries, roleVars, logVars, procVars
  <2>2. \A k \in Server : current_term'[k] >= current_term[k]
    BY <2>1, BoundAssumption DEF TypeOK
  <2> QED
    BY <2>1, <2>2, VotesStayReached, LogsStay DEF TermsInv
<1>2. CASE ~SlowTerm(j, req)
  <2>1. /\ req.term \in Nat /\ req.entries \in Seq(Entry)
        /\ \A k \in Server : current_term[k] \in Nat
    BY BoundAssumption DEF TypeOK, AppendReq
  <2>2. UNCHANGED <<vote_for, up>>
    BY <1>2 DEF OnAppendEntries, procVars
  <2>3. /\ current_term'[j] = req.term /\ req.term >= current_term[j]
        /\ \A k \in Server \ {j} : current_term'[k] = current_term[k]
        /\ \A k \in Server : current_role'[k] = "Candidate" =>
             /\ current_role[k] = "Candidate" /\ current_term'[k] = current_term[k]
             /\ vote_pool'[k] = vote_pool[k]
    <3>1. CASE req.term > current_term[j] \/ current_role[j] = "Candidate"
      <4>1. ChangeToFollower(j, req.term, i)
        BY <1>2, <3>1 DEF OnAppendEntries
      <4>2. /\ current_term' = [current_term EXCEPT ![j] = req.term]
            /\ current_role' = [current_role EXCEPT ![j] = "Follower"]
            /\ \A k \in Server \ {j} : vote_pool'[k] = vote_pool[k]
        BY <4>1 DEF ChangeToFollower, TypeOK
      <4>3. req.term >= current_term[j]
        BY <1>2, <2>1 DEF SlowTerm
      <4>4. /\ current_term \in [Server -> 0..MaxTerm]
            /\ current_role \in [Server -> Role]
        BY DEF TypeOK
      <4> QED
        BY <4>2, <4>3, <4>4
    <3>2. CASE ~(req.term > current_term[j] \/ current_role[j] = "Candidate")
      <4>1. UNCHANGED <<current_term, current_role, vote_pool>>
        BY <1>2, <3>2 DEF OnAppendEntries
      <4> QED
        BY <1>2, <2>1, <3>2, <4>1 DEF SlowTerm
    <3> QED
      BY <3>1, <3>2
  <2>4. \A k \in Server : current_term'[k] >= current_term[k]
    BY <2>1, <2>3
  <2>5. VotesInReachedTerms' /\ CandidateVotesForItself'
    BY <2>2, <2>3, <2>4, VotesStayReached
  <2>6. LogsOfTerm'
    <3> SUFFICES ASSUME NEW k \in Server PROVE OfTerm(log'[k], current_term'[k])
      BY DEF LogsOfTerm, OfTerm
    <3>1. log' = [log EXCEPT ![j] = LogAfter(j, req)]
      BY <1>2 DEF OnAppendEntries
    <3>2. OfTerm(log[k], current_term[k]) /\ log[k] \in Seq(Entry)
      BY LogTypes DEF TermsInv, LogsOfTerm
    <3>3. CASE k = j
      <4>1. OfTerm(log[j], req.term)
        BY <2>1, <2>3, <3>2, <3>3, OfLaterTerm
      <4>2. OfTerm(LogAfter(j, req), req.term)
        BY <4>1, LogAfterOfTerm
      <4> QED
        BY <2>3, <3>1, <3>3, <4>2 DEF TypeOK
    <3>4. CASE k # j
      BY <2>3, <3>1, <3>2, <3>4 DEF TypeOK
    <3> QED
      BY <3>3, <3>4
  <2>7. \A o \in Op : call'[o].pc \in {"leader", "known", "stamped"} => call'[o] = call[o]
    <3> SUFFICES ASSUME NEW o \in Op, call'[o].pc \in {"leader", "known", "stamped"}
                 PROVE  call'[o] = call[o]
      OBVIOUS
    <3>1. call'[o] = CallAfter(o, j, LogAfter(j, req))
      BY <1>2 DEF OnAppendEntries
    <3>2. CASE call[o].pc = "waiting"
      <4>0. call[o].pc # "new"
        BY <3>2
      <4>1. [call[o] EXCEPT !.pc = "dangling"].pc = "dangling"
        BY <4>0, CallTypes
      <4> QED
        BY <3>1, <3>2, <4>1 DEF CallAfter
    <3>3. CASE call[o].pc # "waiting"
      BY <3>1, <3>3 DEF CallAfter
    <3> QED
      BY <3>2, <3>3
  <2> QED
    BY <2>2, <2>4, <2>5, <2>6, <2>7
<1> QED
  BY <1>1, <1>2

LEMMA StartLeaderElectionTerms ==
  ASSUME TypeOK, TypeOK', TermsInv, NEW i \in Server, StartLeaderElection(i)
  PROVE  TermsInv'
<1> DEFINE t == current_term[i] + 1
<1>1. t \in Term /\ current_term[i] \in Nat
  BY BoundAssumption DEF StartLeaderElection, ElectionIsDue, TypeOK, Term
<1>2. vote_for[i][t] = None
  <2>1. ~(t <= current_term[i])
    BY <1>1
  <2> HIDE DEF t
  <2> QED
    BY <1>1, <2>1 DEF TermsInv, VotesInReachedTerms
<1>3. /\ current_term' = [current_term EXCEPT ![i] = t]
      /\ vote_for' = [vote_for EXCEPT ![i][t] = i]
      /\ vote_pool' = [vote_pool EXCEPT ![i] = {i}]
      /\ current_role' = [current_role EXCEPT ![i] = "Candidate"]
  BY <1>2 DEF StartLeaderElection
<1>4. UNCHANGED <<up, log, rpc, orphans, call>>
  BY DEF StartLeaderElection, logVars, netVars, procVars
<1>5. \A k \in Server : current_term[k] \in Nat /\ current_term'[k] \in Nat
  BY BoundAssumption DEF TypeOK
<1>6. current_term'[i] = t /\ t > current_term[i]
  BY <1>1, <1>3 DEF TypeOK
<1>7. \A k \in Server : current_term'[k] >= current_term[k]
  <2> SUFFICES ASSUME NEW k \in Server PROVE current_term'[k] >= current_term[k]
    OBVIOUS
  <2>1. CASE k = i
    BY <1>5, <1>6, <2>1
  <2>2. CASE k # i
    <3>1. current_term'[k] = current_term[k]
      BY <1>3, <2>2 DEF TypeOK
    <3> QED
      BY <1>5, <3>1
  <2> QED
    BY <2>1, <2>2
<1> HIDE DEF t
<1>8. VotesInReachedTerms'
  <2> SUFFICES ASSUME NEW k \in Server, NEW u \in Term, vote_for'[k][u] # None
               PROVE  u <= current_term'[k]
    BY DEF VotesInReachedTerms
  <2>1. u \in Nat
    BY DEF Term
  <2>2. CASE k = i /\ u = t
    BY <1>5, <1>6, <2>1, <2>2
  <2>3. CASE ~(k = i /\ u = t)
    <3>1. vote_for'[k][u] = vote_for[k][u]
      BY <1>1, <1>3, <2>3 DEF TypeOK
    <3>2. u <= current_term[k]
      BY <3>1 DEF TermsInv, VotesInReachedTerms
    <3> QED
      BY <1>5, <1>7, <2>1, <3>2
  <2> QED
    BY <2>2, <2>3
<1>9. CandidateVotesForItself'
  <2> SUFFICES ASSUME NEW k \in Server, current_role'[k] = "Candidate"
               PROVE  k \in vote_pool'[k] /\ vote_for'[k][current_term'[k]] = k
    BY DEF CandidateVotesForItself
  <2>1. CASE k = i
    BY <1>1, <1>3, <1>6, <2>1 DEF TypeOK
  <2>2. CASE k # i
    BY <1>3, <2>2 DEF TermsInv, CandidateVotesForItself, TypeOK
  <2> QED
    BY <2>1, <2>2
<1>10. LogsOfTerm' /\ HandlersOfReachedTerms'
  BY <1>4, <1>7, LogsStay, HandlersStay DEF TermsInv
<1>11. RequestsOfTerm' /\ LateEntriesOfTerm'
  BY <1>4 DEF TermsInv, RequestsOfTerm, LateEntriesOfTerm
<1> QED
  BY <1>8, <1>9, <1>10, <1>11 DEF TermsInv

LEMMA StopTerms ==
  ASSUME TypeOK, TypeOK', TermsInv, NEW i \in Server, Stop(i)
  PROVE  TermsInv'
<1>1. UNCHANGED <<current_term, current_role, vote_pool, vote_for, log>>
  BY DEF Stop, roleVars, logVars
<1>2. up' = [up EXCEPT ![i] = FALSE]
  BY DEF Stop
<1>3. \A k \in Server : current_term'[k] >= current_term[k]
  BY <1>1, BoundAssumption DEF TypeOK
<1>4. VotesInReachedTerms' /\ CandidateVotesForItself' /\ LogsOfTerm'
  BY <1>1, <1>3, VotesStayReached, LogsStay DEF TermsInv
<1>5. RequestsOfTerm'
  <2>1. \A k, j \in Server : rpc'[k][j] = Idle \/ rpc'[k][j] = rpc[k][j]
    BY DEF Stop
  <2>2. Idle.st = "idle"
    BY DEF Idle
  <2> HIDE DEF Idle
  <2> QED
    BY <2>1, <2>2, RequestsStay DEF TermsInv
<1>6. LateEntriesOfTerm'
  BY DEF Stop, TermsInv, LateEntriesOfTerm
<1>7. HandlersOfReachedTerms'
  <2> SUFFICES ASSUME NEW o \in Op, call'[o].pc \in {"leader", "known", "stamped"}
               PROVE  /\ up'[call'[o].at]
                      /\ call'[o].pc = "stamped" => call'[o].term <= current_term'[call'[o].at]
    BY DEF HandlersOfReachedTerms
  <2>1. call'[o] = call[o] /\ call[o].at # i
    <3>1. CASE call[o].at = i /\ call[o].pc \in {"leader", "known", "stamped", "waiting", "dangling"}
      <4>1. call'[o] = [call[o] EXCEPT !.pc = "lost"]
        BY <3>1 DEF Stop
      <4>2. call[o].pc # "new"
        BY <3>1
      <4>3. call'[o].pc = "lost"
        BY <4>1, <4>2, CallTypes
      <4> QED
        BY <4>3
    <3>2. CASE ~(call[o].at = i /\ call[o].pc \in {"leader", "known", "stamped", "waiting", "dangling"})
      BY <3>2 DEF Stop
    <3> QED
      BY <3>1, <3>2
  <2>2. call[o].at \in Server
    BY <2>1, CallTypes
  <2> QED
    BY <1>1, <1>2, <2>1, <2>2 DEF TermsInv, HandlersOfReachedTerms, TypeOK
<1> QED
  BY <1>4, <1>5, <1>6, <1>7 DEF TermsInv

(* A server that comes back has no votes and no entries, and no handler of *)
(* it is left.                                                             *)
LEMMA RestartTerms ==
  ASSUME TypeOK, TypeOK', TermsInv, NEW i \in Server, Restart(i)
  PROVE  TermsInv'
<1>1. UNCHANGED <<rpc, orphans, call>>
  BY DEF Restart, netVars
<1>2. /\ up' = [up EXCEPT ![i] = TRUE] /\ ~up[i]
      /\ current_term' = [current_term EXCEPT ![i] = 0]
      /\ current_role' = [current_role EXCEPT ![i] = "Follower"]
      /\ vote_for' = [vote_for EXCEPT ![i] = [t \in Term |-> None]]
      /\ vote_pool' = [vote_pool EXCEPT ![i] = {}]
      /\ log' = [log EXCEPT ![i] = <<>>]
  BY DEF Restart
<1>3. VotesInReachedTerms' /\ CandidateVotesForItself'
  <2>1. /\ \A k \in Server \ {i} : /\ current_term'[k] = current_term[k] /\ vote_for'[k] = vote_for[k]
                                   /\ current_role'[k] = current_role[k] /\ vote_pool'[k] = vote_pool[k]
        /\ current_term'[i] = 0 /\ current_role'[i] = "Follower"
        /\ \A t \in Term : vote_for'[i][t] = None
    BY <1>2 DEF TypeOK
  <2>2. VotesInReachedTerms'
    BY <2>1 DEF TermsInv, VotesInReachedTerms
  <2>3. CandidateVotesForItself'
    BY <2>1 DEF TermsInv, CandidateVotesForItself
  <2> QED
    BY <2>2, <2>3
<1>4. LogsOfTerm'
  BY <1>2 DEF TermsInv, LogsOfTerm, OfTerm, TypeOK
<1>5. RequestsOfTerm' /\ LateEntriesOfTerm'
  BY <1>1 DEF TermsInv, RequestsOfTerm, LateEntriesOfTerm
<1>6. HandlersOfReachedTerms'
  <2> SUFFICES ASSUME NEW o \in Op, call[o].pc \in {"leader", "known", "stamped"}
               PROVE  /\ up'[call[o].at]
                      /\ call[o].pc = "stamped" => call[o].term <= current_term'[call[o].at]
    BY <1>1 DEF HandlersOfReachedTerms
  <2>1. call[o].at \in Server
    BY CallTypes
  <2>2. up[call[o].at] /\ call[o].at # i
    BY <1>2 DEF TermsInv, HandlersOfReachedTerms
  <2>3. up'[call[o].at] = up[call[o].at] /\ current_term'[call[o].at] = current_term[call[o].at]
    <3>1. \A k \in Server \ {i} : up'[k] = up[k] /\ current_term'[k] = current_term[k]
      BY <1>2 DEF TypeOK
    <3> QED
      BY <2>1, <2>2, <3>1
  <2> QED
    BY <2>2, <2>3 DEF TermsInv, HandlersOfReachedTerms
<1> QED
  BY <1>3, <1>4, <1>5, <1>6 DEF TermsInv

(* What calls, and what is left of them, bring of new entries.             *)
LEMMA CallOfTerm ==
  ASSUME TypeOK, TermsInv, NEW i \in Server, NEW j \in Server, NEW slot,
         rpc' = [rpc EXCEPT ![i][j] = slot],
         slot.st \in {"append", "appended"} => OfTerm(slot.req.entries, slot.req.term)
  PROVE  RequestsOfTerm'
<1>1. \A k, l \in Server : rpc'[k][l] = IF k = i /\ l = j THEN slot ELSE rpc[k][l]
  BY DEF TypeOK
<1> QED
  BY <1>1, RequestsStay DEF TermsInv

LEMMA QuietTerms ==
  ASSUME TypeOK, TypeOK', TermsInv,
         UNCHANGED <<current_term, current_role, vote_for, log, call, up>>,
         \A k \in Server : vote_pool[k] \subseteq vote_pool'[k] \/ current_role[k] # "Candidate"
  PROVE  VotesInReachedTerms' /\ CandidateVotesForItself' /\ LogsOfTerm' /\ HandlersOfReachedTerms'
<1>1. \A k \in Server : current_term'[k] >= current_term[k]
  BY BoundAssumption DEF TypeOK
<1> QED
  BY <1>1, VotesStayReached, LogsStay, HandlersStay DEF TermsInv

LEMMA SendTerms ==
  ASSUME TypeOK, TypeOK', TermsInv, NEW i \in Server, NEW j \in Server,
         SendRequestVote(i, j) \/ SendAppendEntries(i, j)
  PROVE  TermsInv'
<1>1. UNCHANGED <<current_term, current_role, vote_pool, vote_for, log, call, up, orphans>>
  BY DEF SendRequestVote, SendAppendEntries, roleVars, logVars, procVars
<1>2. VotesInReachedTerms' /\ CandidateVotesForItself' /\ LogsOfTerm' /\ HandlersOfReachedTerms'
  BY <1>1, QuietTerms
<1>3. RequestsOfTerm'
  <2>1. CASE SendRequestVote(i, j)
    BY <2>1, CallOfTerm DEF SendRequestVote
  <2>2. CASE SendAppendEntries(i, j)
    <3> DEFINE slot == [st |-> "append", req |-> AppendEntriesRequest(i, j)]
    <3>1. OfTerm(AppendEntriesRequest(i, j).entries, current_term[i])
      BY RequestOfTerm DEF TermsInv, LogsOfTerm
    <3>2. AppendEntriesRequest(i, j).term = current_term[i]
      BY DEF AppendEntriesRequest
    <3>3. OfTerm(slot.req.entries, slot.req.term)
      BY <3>1, <3>2
    <3>4. rpc' = [rpc EXCEPT ![i][j] = slot]
      BY <2>2 DEF SendAppendEntries
    <3> HIDE DEF slot
    <3> QED
      BY <3>3, <3>4, CallOfTerm
  <2> QED
    BY <2>1, <2>2
<1>4. LateEntriesOfTerm'
  BY <1>1 DEF TermsInv, LateEntriesOfTerm
<1> QED
  BY <1>2, <1>3, <1>4 DEF TermsInv

LEMMA HandleTerms ==
  ASSUME TypeOK, TypeOK', TermsInv, NEW i \in Server, NEW j \in Server,
         HandleRequestVote(i, j) \/ HandleAppendEntries(i, j)
  PROVE  TermsInv'
<1> DEFINE req == rpc[i][j].req
<1>1. LateEntriesOfTerm'
  BY DEF HandleRequestVote, HandleAppendEntries, TermsInv, LateEntriesOfTerm
<1>2. CASE HandleRequestVote(i, j)
  <2>1. req \in VoteReq /\ OnRequestVote(j, i, req)
    BY <1>2, SlotTypes DEF HandleRequestVote
  <2>2. RequestsOfTerm'
    BY <1>2, CallOfTerm DEF HandleRequestVote
  <2> HIDE DEF req
  <2>3. /\ VotesInReachedTerms' /\ CandidateVotesForItself'
        /\ \A k \in Server : current_term'[k] >= current_term[k]
        /\ UNCHANGED <<log, call, up>>
    BY <2>1, OnRequestVoteTerms
  <2>4. LogsOfTerm' /\ HandlersOfReachedTerms'
    BY <2>3, LogsStay, HandlersStay DEF TermsInv
  <2> QED
    BY <1>1, <2>2, <2>3, <2>4 DEF TermsInv
<1>3. CASE HandleAppendEntries(i, j)
  <2>1. req \in AppendReq /\ OnAppendEntries(j, i, req) /\ rpc[i][j].st = "append"
    BY <1>3, SlotTypes DEF HandleAppendEntries
  <2>2. OfTerm(req.entries, req.term)
    BY <2>1 DEF TermsInv, RequestsOfTerm
  <2>3. RequestsOfTerm'
    <3> DEFINE slot == [st |-> "appended", req |-> req, resp |-> AppendEntriesResponse(j, req)]
    <3>1. rpc' = [rpc EXCEPT ![i][j] = slot]
      BY <1>3 DEF HandleAppendEntries
    <3>2. slot.req = req
      OBVIOUS
    <3> HIDE DEF slot, req
    <3> QED
      BY <2>2, <3>1, <3>2, CallOfTerm
  <2> HIDE DEF req
  <2>4. /\ VotesInReachedTerms' /\ CandidateVotesForItself' /\ LogsOfTerm'
        /\ \A k \in Server : current_term'[k] >= current_term[k]
        /\ UNCHANGED up
        /\ \A o \in Op : call'[o].pc \in {"leader", "known", "stamped"} => call'[o] = call[o]
    BY <2>1, <2>2, OnAppendEntriesTerms
  <2>5. HandlersOfReachedTerms'
    BY <2>4, HandlersStay DEF TermsInv
  <2> QED
    BY <1>1, <2>3, <2>4, <2>5 DEF TermsInv
<1> QED
  BY <1>2, <1>3

LEMMA OrphanTerms ==
  ASSUME TypeOK, TypeOK', TermsInv, NEW m \in orphans, HandleOrphan(m)
  PROVE  TermsInv'
<1>1. m \in Orphan
  BY DEF TypeOK
<1>2. m.from \in Server /\ m.to \in Server
  BY <1>1 DEF Orphan
<1>3. RequestsOfTerm' /\ LateEntriesOfTerm'
  BY DEF HandleOrphan, TermsInv, RequestsOfTerm, LateEntriesOfTerm
<1>4. CASE m.kind = "vote" /\ OnRequestVote(m.to, m.from, m.req)
  <2>1. m.req \in VoteReq
    BY <1>1, <1>4 DEF Orphan
  <2>2. /\ VotesInReachedTerms' /\ CandidateVotesForItself'
        /\ \A k \in Server : current_term'[k] >= current_term[k]
        /\ UNCHANGED <<log, call, up>>
    BY <1>2, <1>4, <2>1, OnRequestVoteTerms
  <2>3. LogsOfTerm' /\ HandlersOfReachedTerms'
    BY <2>2, LogsStay, HandlersStay DEF TermsInv
  <2> QED
    BY <1>3, <2>2, <2>3 DEF TermsInv
<1>5. CASE m.kind = "append" /\ OnAppendEntries(m.to, m.from, m.req)
  <2>1. m.req \in AppendReq
    BY <1>1, <1>5 DEF Orphan
  <2>2. OfTerm(m.req.entries, m.req.term)
    BY <1>5 DEF TermsInv, LateEntriesOfTerm
  <2>3. /\ VotesInReachedTerms' /\ CandidateVotesForItself' /\ LogsOfTerm'
        /\ \A k \in Server : current_term'[k] >= current_term[k]
        /\ UNCHANGED up
        /\ \A o \in Op : call'[o].pc \in {"leader", "known", "stamped"} => call'[o] = call[o]
    BY <1>2, <1>5, <2>1, <2>2, OnAppendEntriesTerms
  <2>4. HandlersOfReachedTerms'
    BY <2>3, HandlersStay DEF TermsInv
  <2> QED
    BY <1>3, <2>3, <2>4 DEF TermsInv
<1> QED
  BY <1>4, <1>5 DEF HandleOrphan

(* A vote counted makes the pool grow, and a candidate a leader.           *)
LEMMA OnVoteReplyTerms ==
  ASSUME TypeOK, TypeOK', TermsInv, NEW i \in Server, NEW j \in Server, OnVoteReply(i, j)
  PROVE  TermsInv'
<1>1. UNCHANGED <<vote_for, log, call, up, orphans, current_term>>
  BY DEF OnVoteReply, logVars, procVars, roleVars
<1>2. \A k \in Server : current_term'[k] >= current_term[k]
  BY <1>1, BoundAssumption DEF TypeOK
<1>3. \A k \in Server : vote_pool[k] \subseteq vote_pool'[k]
  <2>1. CASE VoteCounts(i, j)
    <3>1. vote_pool' = [vote_pool EXCEPT ![i] = @ \cup {j}]
      BY <2>1 DEF OnVoteReply
    <3> QED
      BY <3>1 DEF TypeOK
  <2>2. CASE ~VoteCounts(i, j)
    BY <2>2 DEF OnVoteReply, roleVars
  <2> QED
    BY <2>1, <2>2
<1>4. \A k \in Server : current_role'[k] = "Candidate" => current_role[k] = "Candidate"
  <2>1. UNCHANGED current_role \/ ChangeToLeader(i)
    BY DEF OnVoteReply, roleVars
  <2> QED
    BY <2>1 DEF ChangeToLeader, TypeOK
<1>5. VotesInReachedTerms' /\ CandidateVotesForItself'
  BY <1>1, <1>2, <1>3, <1>4, VotesStayReached
<1>6. LogsOfTerm' /\ HandlersOfReachedTerms'
  BY <1>1, <1>2, LogsStay, HandlersStay DEF TermsInv
<1>7. RequestsOfTerm'
  BY CallOfTerm DEF OnVoteReply, Idle
<1>8. LateEntriesOfTerm'
  BY <1>1 DEF TermsInv, LateEntriesOfTerm
<1> QED
  BY <1>5, <1>6, <1>7, <1>8 DEF TermsInv

LEMMA OnAppendReplyTerms ==
  ASSUME TypeOK, TypeOK', TermsInv, NEW i \in Server, NEW j \in Server, OnAppendReply(i, j)
  PROVE  TermsInv'
<1> DEFINE resp == rpc[i][j].resp
<1>1. UNCHANGED <<vote_for, log, call, up, orphans>>
  BY DEF OnAppendReply, procVars
<1>2. RequestsOfTerm'
  BY CallOfTerm DEF OnAppendReply, Idle
<1>3. LateEntriesOfTerm'
  BY <1>1 DEF TermsInv, LateEntriesOfTerm
<1>4. CASE UNCHANGED roleVars
  <2>1. UNCHANGED <<current_term, current_role, vote_pool>>
    BY <1>4 DEF roleVars
  <2> QED
    BY <1>1, <1>2, <1>3, <2>1, QuietTerms DEF TermsInv
<1>5. CASE resp.term > current_term[i] /\ ChangeToFollower(i, resp.term, None)
  <2>1. /\ current_term' = [current_term EXCEPT ![i] = resp.term]
        /\ current_role' = [current_role EXCEPT ![i] = "Follower"]
        /\ \A k \in Server \ {i} : vote_pool'[k] = vote_pool[k]
    BY <1>5 DEF ChangeToFollower, TypeOK
  <2>2. current_term \in [Server -> 0..MaxTerm] /\ resp.term \in 0..MaxTerm
    BY SlotTypes DEF OnAppendReply, AppendResp, TypeOK
  <2> HIDE DEF resp
  <2>3. \A k \in Server : current_term'[k] >= current_term[k]
    BY <1>5, <2>1, <2>2, BoundAssumption
  <2>4. \A k \in Server : current_role'[k] = "Candidate" =>
          /\ current_role[k] = "Candidate" /\ current_term'[k] = current_term[k]
          /\ vote_pool[k] \subseteq vote_pool'[k]
    BY <2>1 DEF TypeOK
  <2>5. VotesInReachedTerms' /\ CandidateVotesForItself'
    BY <1>1, <2>3, <2>4, VotesStayReached
  <2>6. LogsOfTerm' /\ HandlersOfReachedTerms'
    BY <1>1, <2>3, LogsStay, HandlersStay DEF TermsInv
  <2> QED
    BY <1>2, <1>3, <2>5, <2>6 DEF TermsInv
<1> QED
  BY <1>4, <1>5 DEF OnAppendReply

LEMMA LoseCallTerms ==
  ASSUME TypeOK, TypeOK', TermsInv, NEW i \in Server, NEW j \in Server, LoseCall(i, j)
  PROVE  TermsInv'
<1> DEFINE m == [kind |-> rpc[i][j].st, from |-> i, to |-> j, req |-> rpc[i][j].req]
<1>1. UNCHANGED <<current_term, current_role, vote_pool, vote_for, log, call, up>>
  BY DEF LoseCall, roleVars, logVars, procVars
<1>2. VotesInReachedTerms' /\ CandidateVotesForItself' /\ LogsOfTerm' /\ HandlersOfReachedTerms'
  BY <1>1, QuietTerms
<1>3. RequestsOfTerm'
  BY CallOfTerm DEF LoseCall, Idle
<1>4. LateEntriesOfTerm'
  <2>1. m.kind = "append" => OfTerm(m.req.entries, m.req.term)
    BY DEF TermsInv, RequestsOfTerm
  <2>2. orphans' = orphans \/ orphans' = orphans \cup {m}
    BY DEF LoseCall
  <2> HIDE DEF m
  <2> QED
    BY <2>1, <2>2 DEF TermsInv, LateEntriesOfTerm
<1> QED
  BY <1>2, <1>3, <1>4 DEF TermsInv

(* A client's handler stamps the term of its server, and appends no later  *)
(* one.                                                                    *)
LEMMA ClientStepTerms ==
  ASSUME TypeOK, TypeOK', TermsInv, NEW o \in Op,
         \/ \E i \in Server : CheckIsLeader(o, i)
         \/ CheckLeaderId(o) \/ StampTerm(o) \/ AppendToLog(o) \/ AnswerClient(o)
  PROVE  TermsInv'
<1>1. UNCHANGED <<current_term, current_role, vote_pool, vote_for, rpc, orphans, up>>
  BY DEF CheckIsLeader, CheckLeaderId, StampTerm, AppendToLog, AnswerClient, roleVars, netVars, procVars
<1>2. VotesInReachedTerms' /\ CandidateVotesForItself'
  BY <1>1 DEF TermsInv, VotesInReachedTerms, CandidateVotesForItself
<1>3. RequestsOfTerm' /\ LateEntriesOfTerm'
  BY <1>1 DEF TermsInv, RequestsOfTerm, LateEntriesOfTerm
<1>4. LogsOfTerm'
  <2>1. CASE AppendToLog(o)
    <3> DEFINE i == call[o].at
               t == call[o].term
    <3>1. call[o].pc = "stamped" /\ log' = [log EXCEPT ![i] = AppendOne(@, t, o)]
      BY <2>1 DEF AppendToLog
    <3>2. i \in Server /\ t \in Nat
      BY <3>1, CallTypes
    <3>3. t <= current_term[i]
      BY <3>1 DEF TermsInv, HandlersOfReachedTerms
    <3> HIDE DEF i, t
    <3>4. OfTerm(AppendOne(log[i], t, o), current_term[i])
      <4>1. log[i] \in Seq(Entry) /\ OfTerm(log[i], current_term[i])
        BY <3>2, LogTypes DEF TermsInv, LogsOfTerm
      <4> QED
        BY <3>3, <4>1 DEF OfTerm, AppendOne
    <3>5. \A k \in Server : log'[k] = IF k = i THEN AppendOne(log[i], t, o) ELSE log[k]
      BY <3>1, <3>2 DEF TypeOK
    <3> QED
      BY <1>1, <3>4, <3>5 DEF TermsInv, LogsOfTerm, OfTerm
  <2>2. CASE ~AppendToLog(o)
    <3>1. UNCHANGED log
      BY <2>2 DEF CheckIsLeader, CheckLeaderId, StampTerm, AnswerClient, logVars
    <3> QED
      BY <1>1, <3>1 DEF TermsInv, LogsOfTerm, OfTerm
  <2> QED
    BY <2>1, <2>2
<1>5. HandlersOfReachedTerms'
  <2>1. \A p \in Op \ {o} : call'[p] = call[p]
    BY DEF CheckIsLeader, CheckLeaderId, StampTerm, AppendToLog, AnswerClient, TypeOK
  <2>2. call'[o].pc \in {"leader", "known", "stamped"} =>
          /\ up[call'[o].at]
          /\ call'[o].pc = "stamped" => call'[o].term <= current_term[call'[o].at]
    <3>1. ASSUME NEW i \in Server, CheckIsLeader(o, i)
          PROVE  up[call'[o].at] /\ call'[o].pc = "leader"
      BY <3>1 DEF CheckIsLeader, TypeOK
    <3>2. CASE CheckLeaderId(o)
      <4>1. call[o].pc = "leader" /\ up[call[o].at]
        BY <3>2 DEF CheckLeaderId, TermsInv, HandlersOfReachedTerms
      <4>2. call'[o] = IF leader_id[call[o].at] = None THEN NewCall ELSE [call[o] EXCEPT !.pc = "known"]
        BY <3>2 DEF CheckLeaderId, TypeOK
      <4>3. CASE leader_id[call[o].at] = None
        BY <4>2, <4>3 DEF NewCall
      <4>4. CASE leader_id[call[o].at] # None
        <5>1. call'[o] = [call[o] EXCEPT !.pc = "known"]
          BY <4>2, <4>4
        <5>2. call'[o].at = call[o].at /\ call'[o].pc = "known"
          BY <4>1, <5>1, CallTypes
        <5> QED
          BY <4>1, <5>2
      <4> QED
        BY <4>3, <4>4
    <3>3. CASE StampTerm(o)
      <4>1. call[o].pc = "known" /\ up[call[o].at]
        BY <3>3 DEF StampTerm, TermsInv, HandlersOfReachedTerms
      <4>2. call'[o] = [call[o] EXCEPT !.pc = "stamped", !.term = current_term[call[o].at]]
        BY <3>3 DEF StampTerm, TypeOK
      <4>3. call[o].at \in Server
        BY <4>1, CallTypes
      <4>4. call'[o].at = call[o].at /\ call'[o].term = current_term[call[o].at]
        BY <4>1, <4>2, CallTypes
      <4>5. current_term[call[o].at] \in Nat
        BY <4>3, BoundAssumption DEF TypeOK
      <4> QED
        BY <4>1, <4>4, <4>5
    <3>4. CASE AppendToLog(o)
      <4>1. call[o].pc = "stamped" /\ call' = [call EXCEPT ![o].pc = "waiting", ![o].index = Len(log[call[o].at]) + 1]
        BY <3>4 DEF AppendToLog
      <4>2. call'[o].pc = "waiting"
        BY <4>1, CallTypes DEF TypeOK
      <4> QED
        BY <4>2
    <3>5. CASE AnswerClient(o)
      <4>1. PICK answer \in {"ok", "timeout"} : call' = [call EXCEPT ![o].pc = answer]
        BY <3>5 DEF AnswerClient
      <4>2. call[o].pc # "new"
        BY <3>5 DEF AnswerClient
      <4>3. call'[o].pc = answer
        BY <4>1, <4>2, CallTypes DEF TypeOK
      <4> QED
        BY <4>3
    <3> QED
      BY <3>1, <3>2, <3>3, <3>4, <3>5
  <2> QED
    BY <1>1, <2>1, <2>2 DEF TermsInv, HandlersOfReachedTerms
<1> QED
  BY <1>2, <1>3, <1>4, <1>5 DEF TermsInv

-----------------------------------------------------------------------------
(* The theorem *)

LEMMA TermsInit == Init => TermsInv
<1> SUFFICES ASSUME Init PROVE TermsInv
  OBVIOUS
<1>1. VotesInReachedTerms /\ CandidateVotesForItself
  BY DEF Init, VotesInReachedTerms, CandidateVotesForItself
<1>2. LogsOfTerm /\ LateEntriesOfTerm
  BY DEF Init, LogsOfTerm, LateEntriesOfTerm, OfTerm
<1>3. RequestsOfTerm
  BY DEF Init, RequestsOfTerm, Idle
<1>4. HandlersOfReachedTerms
  BY DEF Init, HandlersOfReachedTerms, NewCall
<1> QED
  BY <1>1, <1>2, <1>3, <1>4 DEF TermsInv

LEMMA TermsStep ==
  ASSUME TypeOK, TermsInv, [Next]_vars
  PROVE  TermsInv'
<1>0. TypeOK'
  BY TypeStep
<1>1. ASSUME NEW i \in Server, StartLeaderElection(i) PROVE TermsInv'
  BY <1>0, <1>1, StartLeaderElectionTerms
<1>2. ASSUME NEW i \in Server, Crash(i) \/ CrashOnEmptyLog(i) PROVE TermsInv'
  BY <1>0, <1>2, StopTerms DEF Crash, CrashOnEmptyLog
<1>3. ASSUME NEW i \in Server, Restart(i) PROVE TermsInv'
  BY <1>0, <1>3, RestartTerms
<1>4. ASSUME NEW i \in Server, NEW j \in Server, SendRequestVote(i, j) \/ SendAppendEntries(i, j)
      PROVE  TermsInv'
  BY <1>0, <1>4, SendTerms
<1>5. ASSUME NEW i \in Server, NEW j \in Server,
             HandleRequestVote(i, j) \/ HandleAppendEntries(i, j)
      PROVE  TermsInv'
  BY <1>0, <1>5, HandleTerms
<1>6. ASSUME NEW i \in Server, NEW j \in Server, OnVoteReply(i, j) PROVE TermsInv'
  BY <1>0, <1>6, OnVoteReplyTerms
<1>7. ASSUME NEW i \in Server, NEW j \in Server, OnAppendReply(i, j) PROVE TermsInv'
  BY <1>0, <1>7, OnAppendReplyTerms
<1>8. ASSUME NEW i \in Server, NEW j \in Server, LoseCall(i, j) PROVE TermsInv'
  BY <1>0, <1>8, LoseCallTerms
<1>9. ASSUME NEW m \in orphans, HandleOrphan(m) PROVE TermsInv'
  BY <1>0, <1>9, OrphanTerms
<1>10. ASSUME NEW o \in Op,
              \/ \E i \in Server : CheckIsLeader(o, i)
              \/ CheckLeaderId(o) \/ StampTerm(o) \/ AppendToLog(o) \/ AnswerClient(o)
       PROVE  TermsInv'
  BY <1>0, <1>10, ClientStepTerms
<1>11. CASE UNCHANGED vars
  BY <1>11 DEF TermsInv, VotesInReachedTerms, CandidateVotesForItself, LogsOfTerm, RequestsOfTerm,
               LateEntriesOfTerm, HandlersOfReachedTerms, OfTerm,
               vars, roleVars, logVars, leaderVars, netVars, procVars
<1> QED
  BY <1>1, <1>2, <1>3, <1>4, <1>5, <1>6, <1>7, <1>8, <1>9, <1>10, <1>11 DEF Next

(* No server votes in a term, or holds or passes on an entry of a term,    *)
(* that it has not reached, and a candidate always has its own vote: in    *)
(* any run of RaftConsensus, with servers that crash and come back without *)
(* their state, requests handled after their connection broke (LoseCall,   *)
(* HandleOrphan) and client handlers that append after their server has    *)
(* gone on to another term.                                                *)
THEOREM TermsReached ==
  Spec => [](VotesInReachedTerms /\ EntriesOfReachedTerms /\ CandidateVotesForItself)
<1>1. Init => TypeOK /\ TermsInv
  BY InitType, TermsInit
<1>2. TypeOK /\ TermsInv /\ [Next]_vars => TypeOK' /\ TermsInv'
  BY TypeStep, TermsStep
<1>3. TermsInv => VotesInReachedTerms /\ EntriesOfReachedTerms /\ CandidateVotesForItself
  BY DEF TermsInv, LogsOfTerm, RequestsOfTerm, OfTerm, EntriesOfReachedTerms
<1> QED
  BY <1>1, <1>2, <1>3, PTL DEF Spec
=============================================================================
