---------------------------- MODULE RaftConsensus ----------------------------
(***************************************************************************)
(* server/RaftConsensus: leader election and log replication between the   *)
(* servers of a cluster, and the handlers that clients call.               *)
(*                                                                         *)
(* Each server has one thread per remote (RemoteHostLoop), which makes one *)
(* synchronous call at a time without the server's mutex, a thread that    *)
(* starts elections (CheckLeaderLoop), and workers that run the Raft       *)
(* handlers under the mutex and the client handlers without it.  An action *)
(* is one critical section of the mutex, or one step of a client handler   *)
(* between the shared variables it reads.                                  *)
(*                                                                         *)
(* Time is left out: a timer may expire whenever its thread waits for it,  *)
(* so PostponeElection and the condition variable new_event have no state. *)
(*                                                                         *)
(* A definition whose comment begins with Mutant is not part of the model: *)
(* it is the next definition with a bug that one of the properties of the  *)
(* runs must catch.                                                        *)
(***************************************************************************)
EXTENDS LogManager

CONSTANTS
  Server,       \* the hosts of the configuration, remotes and self
  None,         \* the -1 of leader_id and the absent key of vote_for
  Op,           \* client operations, each a command of its own
  MaxTerm,      \* bound: terms an election may start
  Backoff,      \* how far next_index goes back when a follower refuses; 5
  MaxCrashes,   \* bound: crashes in a behaviour
  MaxOrphans    \* bound: requests of broken connections not yet handled

ASSUME ServerAssumption == IsFiniteSet(Server) /\ None \notin Server
ASSUME BoundAssumption == MaxTerm \in Nat /\ Backoff \in Nat

VARIABLES
  up,                   \* is the process running
  current_term, current_role, leader_id,
  vote_for,             \* term -> the server voted for
  vote_pool,            \* who granted a vote in this round
  log, last_commited_index,
  next_index,           \* of each RemoteHost; 0 until the first leadership
  pending_entries,      \* pairs <<index, remote>> of acknowledged entries
  rpc,                  \* rpc[i][j]: the call that i's thread for j is in
  orphans,              \* requests whose connection broke before they were handled
  call,                 \* the client handler that runs each operation
  crashes

roleVars   == <<current_term, current_role, leader_id, vote_pool>>
logVars    == <<log, last_commited_index>>
leaderVars == <<next_index, pending_entries>>
netVars    == <<rpc, orphans>>
procVars   == <<up, crashes>>
vars == <<roleVars, vote_for, logVars, leaderVars, netVars, call, procVars>>

-----------------------------------------------------------------------------
(* Data *)

Term == 1..MaxTerm
Role == {"Follower", "Candidate", "Leader"}
Entry == [index : Nat, term : Nat, op : Op]

(* Requests and responses of Raft.thrift; the sender's id is the row of    *)
(* rpc.  prev_log_term is sent and read by nobody.                         *)
VoteReq    == [term : Term, last_log_index : Nat, last_log_term : Nat]
VoteResp   == [term : 0..MaxTerm, vote_granted : BOOLEAN]
AppendReq  == [term : 0..MaxTerm, prev_log_index : Int, leader_commit_index : Nat,
               entries : Seq(Entry)]
AppendResp == [term : 0..MaxTerm, success : BOOLEAN, last_log_index : Nat]

Idle == [st |-> "idle"]
Slot ==
  [st : {"idle"}]
    \cup [st : {"vote"}, req : VoteReq]
    \cup [st : {"voted"}, req : VoteReq, resp : VoteResp]
    \cup [st : {"append"}, req : AppendReq]
    \cup [st : {"appended"}, req : AppendReq, resp : AppendResp]

Orphan ==
  [kind : {"vote"}, from : Server, to : Server, req : VoteReq]
    \cup [kind : {"append"}, from : Server, to : Server, req : AppendReq]

(* A handler of a client operation: new, past the IsLeader check, past the *)
(* leader_id check, with its term stamped, waiting for the commit, waiting *)
(* on an entry that was deleted meanwhile, and its end.                    *)
NewCall == [pc |-> "new", at |-> None, term |-> 0, index |-> 0]
CallState ==
  {NewCall} \cup
  [pc : {"leader", "known", "stamped", "waiting", "dangling", "ok", "timeout", "lost"},
   at : Server, term : Nat, index : Nat]

quorum_size == Cardinality(Server) \div 2 + 1

CommitIndex(i) == GetLastCommitIndex(log[i], last_commited_index[i])

-----------------------------------------------------------------------------
(* The constructor *)

Init ==
  /\ up = [i \in Server |-> TRUE]
  /\ current_term = [i \in Server |-> 0]
  /\ current_role = [i \in Server |-> "Follower"]
  /\ leader_id = [i \in Server |-> None]
  /\ vote_for = [i \in Server |-> [t \in Term |-> None]]
  /\ vote_pool = [i \in Server |-> {}]
  /\ log = [i \in Server |-> <<>>]
  /\ last_commited_index = [i \in Server |-> 0]
  /\ next_index = [i \in Server |-> [j \in Server |-> 0]]
  /\ pending_entries = [i \in Server |-> {}]
  /\ rpc = [i \in Server |-> [j \in Server |-> Idle]]
  /\ orphans = {}
  /\ call = [o \in Op |-> NewCall]
  /\ crashes = 0

-----------------------------------------------------------------------------
(* Roles *)

(* CheckLeaderLoop: the timer of a server that does not lead may expire    *)
(* at any time.                                                            *)
ElectionIsDue(i) == up[i] /\ current_role[i] # "Leader" /\ current_term[i] < MaxTerm

(* Mutant: the round is held in the next term, but ++ is lost.             *)
StartWithoutIncrement(i) ==
  /\ ElectionIsDue(i)
  /\ vote_for' = [vote_for EXCEPT ![i][current_term[i] + 1] = i]
  /\ vote_pool' = [vote_pool EXCEPT ![i] = {i}]
  /\ current_role' = [current_role EXCEPT ![i] = "Candidate"]
  /\ leader_id' = [leader_id EXCEPT ![i] = None]
  /\ UNCHANGED <<current_term, logVars, leaderVars, netVars, call, procVars>>

StartLeaderElection(i) ==
  /\ ElectionIsDue(i)
  /\ LET t == current_term[i] + 1
         own == vote_for[i][t] = None
     IN /\ current_term' = [current_term EXCEPT ![i] = t]
        /\ vote_for' = IF own THEN [vote_for EXCEPT ![i][t] = i] ELSE vote_for
        /\ vote_pool' = [vote_pool EXCEPT ![i] = IF own THEN {i} ELSE {}]
  /\ current_role' = [current_role EXCEPT ![i] = "Candidate"]
  /\ leader_id' = [leader_id EXCEPT ![i] = None]
  /\ UNCHANGED <<logVars, leaderVars, netVars, call, procVars>>

(* Mutant: leader_id is not cleared.                                       *)
StepsDownUnderOldLeader(i, new_term, leader) ==
  /\ vote_pool' = [vote_pool EXCEPT ![i] = IF current_role[i] = "Candidate" THEN {} ELSE @]
  /\ current_role' = [current_role EXCEPT ![i] = "Follower"]
  /\ current_term' = [current_term EXCEPT ![i] = new_term]
  /\ leader_id' = [leader_id EXCEPT ![i] = IF leader = None THEN @ ELSE leader]

(* Mutant: the term stays.                                                 *)
StepsDownInOldTerm(i, new_term, leader) ==
  /\ vote_pool' = [vote_pool EXCEPT ![i] = IF current_role[i] = "Candidate" THEN {} ELSE @]
  /\ current_role' = [current_role EXCEPT ![i] = "Follower"]
  /\ leader_id' = [leader_id EXCEPT ![i] = leader]
  /\ UNCHANGED current_term

(* ChangeToFollower clears leader_id; OnAppendEntries sets it to the       *)
(* sender right after, in the same critical section.                       *)
ChangeToFollower(i, new_term, leader) ==
  /\ vote_pool' = [vote_pool EXCEPT ![i] = IF current_role[i] = "Candidate" THEN {} ELSE @]
  /\ current_role' = [current_role EXCEPT ![i] = "Follower"]
  /\ current_term' = [current_term EXCEPT ![i] = new_term]
  /\ leader_id' = [leader_id EXCEPT ![i] = leader]

-----------------------------------------------------------------------------
(* Votes *)

SendRequestVote(i, j) ==
  /\ i # j /\ up[i] /\ up[j] /\ current_role[i] = "Candidate" /\ rpc[i][j] = Idle
  /\ rpc' = [rpc EXCEPT ![i][j] =
       [st |-> "vote",
        req |-> [term |-> current_term[i],
                 last_log_index |-> GetLastLogIndex(log[i]),
                 last_log_term |-> GetLastLogTerm(log[i])]]]
  /\ UNCHANGED <<roleVars, vote_for, logVars, leaderVars, orphans, call, procVars>>

(* Mutant: a server votes for everyone who asks.                           *)
GrantsEveryone(j, i, req) ==
  /\ GetLastLogIndex(log[j]) <= req.last_log_index
  /\ GetLastLogTerm(log[j]) <= req.last_log_term

(* Mutant: a vote of a term that is over may be given again.               *)
GrantsOldTermsAgain(j, i, req) ==
  /\ GetLastLogIndex(log[j]) <= req.last_log_index
  /\ GetLastLogTerm(log[j]) <= req.last_log_term
  /\ vote_for[j][req.term] \in {None, i} \/ req.term < current_term[j]

(* The candidate's log must reach as far as the voter's in the index and   *)
(* in the term of its last entry; the term of the request is not compared. *)
Grants(j, i, req) ==
  /\ GetLastLogIndex(log[j]) <= req.last_log_index
  /\ GetLastLogTerm(log[j]) <= req.last_log_term
  /\ vote_for[j][req.term] \in {None, i}

(* Mutant: the vote is given without a step into its term.                 *)
OnRequestVoteInOldTerm(j, i, req) ==
  /\ vote_for' = IF Grants(j, i, req) THEN [vote_for EXCEPT ![j][req.term] = i] ELSE vote_for
  /\ UNCHANGED <<roleVars, logVars, leaderVars, call, procVars>>

OnRequestVote(j, i, req) ==
  /\ IF req.term > current_term[j]
     THEN ChangeToFollower(j, req.term, None)
     ELSE UNCHANGED roleVars
  /\ vote_for' = IF Grants(j, i, req) THEN [vote_for EXCEPT ![j][req.term] = i] ELSE vote_for
  /\ UNCHANGED <<logVars, leaderVars, call, procVars>>

VoteResponse(j, i, req) ==
  [term |-> IF req.term > current_term[j] THEN req.term ELSE current_term[j],
   vote_granted |-> Grants(j, i, req)]

HandleRequestVote(i, j) ==
  /\ rpc[i][j].st = "vote" /\ up[j]
  /\ OnRequestVote(j, i, rpc[i][j].req)
  /\ rpc' = [rpc EXCEPT ![i][j] =
       [st |-> "voted", req |-> @.req, resp |-> VoteResponse(j, i, @.req)]]
  /\ UNCHANGED orphans

ChangeToLeader(i) ==
  /\ current_role' = [current_role EXCEPT ![i] = "Leader"]
  /\ leader_id' = [leader_id EXCEPT ![i] = i]
  /\ next_index' = [next_index EXCEPT ![i] = [j \in Server |-> GetLastLogIndex(log[i]) + 1]]

(* Mutant: a refusal counts as a vote.                                     *)
RefusalCounts(i, j) ==
  current_role[i] = "Candidate" /\ rpc[i][j].resp.term <= current_term[i]

(* The answer is counted for the round the candidate is in now, whichever  *)
(* round it asked in.                                                      *)
VoteCounts(i, j) ==
  /\ current_role[i] = "Candidate"
  /\ rpc[i][j].resp.vote_granted
  /\ rpc[i][j].resp.term <= current_term[i]

OnVoteReply(i, j) ==
  /\ rpc[i][j].st = "voted"
  /\ rpc' = [rpc EXCEPT ![i][j] = Idle]
  /\ LET pool == vote_pool[i] \cup {j} IN
       IF VoteCounts(i, j)
       THEN /\ vote_pool' = [vote_pool EXCEPT ![i] = pool]
            /\ UNCHANGED current_term
            /\ IF Cardinality(pool) >= quorum_size
               THEN ChangeToLeader(i)
               ELSE UNCHANGED <<current_role, leader_id, next_index>>
       ELSE UNCHANGED <<roleVars, next_index>>
  /\ UNCHANGED <<vote_for, logVars, pending_entries, orphans, call, procVars>>

-----------------------------------------------------------------------------
(* Replication *)

(* Mutant: next_index is taken for the previous index.                     *)
RequestFromNextIndex(i, j) ==
  [term |-> current_term[i],
   prev_log_index |-> next_index[i][j],
   leader_commit_index |-> CommitIndex(i),
   entries |-> GetEntriesStartAt(log[i], next_index[i][j])]

(* Heartbeat and replication are one request: the entries after            *)
(* next_index - 1, if there are any.                                       *)
AppendEntriesRequest(i, j) ==
  LET prev == next_index[i][j] - 1 IN
  [term |-> current_term[i],
   prev_log_index |-> prev,
   leader_commit_index |-> CommitIndex(i),
   entries |-> IF prev < GetLastLogIndex(log[i]) THEN GetEntriesStartAt(log[i], prev) ELSE <<>>]

SendAppendEntries(i, j) ==
  /\ i # j /\ up[i] /\ up[j] /\ current_role[i] = "Leader" /\ rpc[i][j] = Idle
  /\ rpc' = [rpc EXCEPT ![i][j] = [st |-> "append", req |-> AppendEntriesRequest(i, j)]]
  /\ UNCHANGED <<roleVars, vote_for, logVars, leaderVars, orphans, call, procVars>>

(* Mutant: requests of terms that are over are accepted.                   *)
NeverSlow(j, req) == FALSE

SlowTerm(j, req) == current_term[j] > req.term

(* The only comparison of the two logs: does the local one reach prev.     *)
Reaches(j, req) == GetLastLogIndex(log[j]) >= req.prev_log_index

LogAfter(j, req) ==
  IF Reaches(j, req) /\ req.entries # <<>> THEN AppendBatch(log[j], req.entries) ELSE log[j]

Success(j, req) ==
  ~SlowTerm(j, req) /\ Reaches(j, req) /\ (req.entries # <<>> => Accepts(log[j], req.entries))

(* The request makes an empty log read its last entry: SetLastCommitIndex  *)
(* and the debug output of the log call back() on an empty deque.          *)
CommitsOnEmptyLog(j, req) ==
  ~SlowTerm(j, req) /\ LogAfter(j, req) = <<>> /\ req.leader_commit_index > 0

PrintsEmptyLog(j, req) ==
  ~SlowTerm(j, req) /\ LogAfter(j, req) = <<>> /\ req.entries # <<>>

ReadsEmptyLog(j, req) == CommitsOnEmptyLog(j, req) \/ PrintsEmptyLog(j, req)

(* Mutant: the commit index is the request's, larger or not.               *)
CommitsAsTold(j, req) ==
  {SetLastCommitIndex(LogAfter(j, req), last_commited_index[j], req.leader_commit_index)}

(* The commit index follows the leader's even if the entries were refused. *)
(* On an empty log the comparison reads an entry that does not exist: it   *)
(* may come out either way (the third outcome is a crash).                 *)
CommitsAfter(j, req) ==
  LET l == LogAfter(j, req) IN
  IF req.leader_commit_index <= GetLastCommitIndex(l, last_commited_index[j])
  THEN {last_commited_index[j]}
  ELSE IF l = <<>> THEN {last_commited_index[j], req.leader_commit_index}
  ELSE {SetLastCommitIndex(l, last_commited_index[j], req.leader_commit_index)}

(* A handler that waits on an entry the batch has deleted goes on reading  *)
(* the freed entry.                                                        *)
CallAfter(o, j, l) ==
  IF call[o].pc = "waiting" /\ call[o].at = j /\ (\A k \in 1..Len(l) : l[k].op # o)
  THEN [call[o] EXCEPT !.pc = "dangling"]
  ELSE call[o]

(* A handler of a client whose server was deposed may append in the midst  *)
(* of it, since log.Append takes the log's mutex only. Where it does so,   *)
(* log and answer are as if it had come before or after, but for one thing:*)
(* the last index, read once more for the answer and in SetLastCommitIndex,*)
(* may be that of its entry. HandlersAreAtomic leaves no such handler.     *)
OnAppendEntries(j, i, req) ==
  IF SlowTerm(j, req)
  THEN UNCHANGED <<roleVars, vote_for, logVars, leaderVars, call, procVars>>
  ELSE
    /\ IF req.term > current_term[j] \/ current_role[j] = "Candidate"
       THEN ChangeToFollower(j, req.term, i)
       ELSE /\ leader_id' = [leader_id EXCEPT ![j] = IF @ = None THEN i ELSE @]
            /\ UNCHANGED <<current_term, current_role, vote_pool>>
    /\ log' = [log EXCEPT ![j] = LogAfter(j, req)]
    /\ \E c \in CommitsAfter(j, req) :
         last_commited_index' = [last_commited_index EXCEPT ![j] = c]
    /\ call' = [o \in Op |-> CallAfter(o, j, LogAfter(j, req))]
    /\ UNCHANGED <<vote_for, leaderVars, procVars>>

(* Mutant: the last index is read before the batch is appended.            *)
AnswersOldIndex(j, req) ==
  [term |-> current_term[j],
   success |-> Success(j, req),
   last_log_index |-> IF ~SlowTerm(j, req) /\ (Success(j, req) \/ ~Reaches(j, req))
                      THEN GetLastLogIndex(log[j]) ELSE 0]

(* resp.term is the term before the request raised it; last_log_index is   *)
(* set on success and when the log does not reach prev.                    *)
AppendEntriesResponse(j, req) ==
  [term |-> current_term[j],
   success |-> Success(j, req),
   last_log_index |-> IF ~SlowTerm(j, req) /\ (Success(j, req) \/ ~Reaches(j, req))
                      THEN GetLastLogIndex(LogAfter(j, req)) ELSE 0]

HandleAppendEntries(i, j) ==
  /\ rpc[i][j].st = "append" /\ up[j]
  /\ OnAppendEntries(j, i, rpc[i][j].req)
  /\ rpc' = [rpc EXCEPT ![i][j] =
       [st |-> "appended", req |-> @.req, resp |-> AppendEntriesResponse(j, @.req)]]
  /\ UNCHANGED orphans

(* Mutant: the leader is one of the quorum.                                *)
HasQuorumWithLeader(pending, index) ==
  Cardinality({r \in Server : <<index, r>> \in pending}) + 1 >= quorum_size

(* Mutant: one response more than a quorum.                                *)
HasMoreThanQuorum(pending, index) ==
  Cardinality({r \in Server : <<index, r>> \in pending}) > quorum_size

HasQuorum(pending, index) ==
  Cardinality({r \in Server : <<index, r>> \in pending}) >= quorum_size

(* Every entry of the batch that is not committed counts for the remote;   *)
(* the last one with a quorum of remotes is the new commit index.          *)
Acknowledge(i, j, es) ==
  LET fresh   == {k \in 1..Len(es) : es[k].index > CommitIndex(i)}
      pending == pending_entries[i] \cup {<<es[k].index, j>> : k \in fresh}
      quorate == {k \in fresh : HasQuorum(pending, es[k].index)}
  IN /\ pending_entries' = [pending_entries EXCEPT ![i] = pending]
     /\ IF quorate = {} THEN UNCHANGED last_commited_index
        ELSE LET last == CHOOSE k \in quorate : \A q \in quorate : q <= k
             IN last_commited_index' = [last_commited_index EXCEPT ![i] =
                  SetLastCommitIndex(log[i], @, es[last].index)]

(* Five entries back, or to the beginning.                                 *)
BackOff(prev) == IF prev > Backoff THEN prev - Backoff ELSE 1

OnAppendReply(i, j) ==
  /\ rpc[i][j].st = "appended"
  /\ rpc' = [rpc EXCEPT ![i][j] = Idle]
  /\ LET req == rpc[i][j].req
         resp == rpc[i][j].resp
     IN \/ /\ resp.term = current_term[i] /\ resp.success /\ req.entries # <<>>
           /\ next_index' = [next_index EXCEPT ![i][j] = resp.last_log_index + 1]
           /\ Acknowledge(i, j, req.entries)
           /\ UNCHANGED roleVars
        \/ /\ resp.term = current_term[i] /\ ~resp.success
           /\ next_index' = [next_index EXCEPT ![i][j] = BackOff(req.prev_log_index)]
           /\ UNCHANGED <<roleVars, pending_entries, last_commited_index>>
        \/ /\ resp.term > current_term[i]
           /\ ChangeToFollower(i, resp.term, None)
           /\ UNCHANGED <<leaderVars, last_commited_index>>
        \/ /\ \/ resp.term < current_term[i]
              \/ resp.term = current_term[i] /\ resp.success /\ req.entries = <<>>
           /\ UNCHANGED <<roleVars, leaderVars, last_commited_index>>
  /\ UNCHANGED <<vote_for, log, orphans, call, procVars>>

-----------------------------------------------------------------------------
(* Client operations: ClientRPCService and OnMetaOperation, without the    *)
(* mutex                                                                   *)

CheckIsLeader(o, i) ==
  /\ call[o].pc = "new" /\ up[i] /\ current_role[i] = "Leader"
  /\ call' = [call EXCEPT ![o] = [pc |-> "leader", at |-> i, term |-> 0, index |-> 0]]
  /\ UNCHANGED <<roleVars, vote_for, logVars, leaderVars, netVars, procVars>>

(* kNoLeader: the client may send the operation again.                     *)
CheckLeaderId(o) ==
  /\ call[o].pc = "leader"
  /\ call' = [call EXCEPT ![o] = IF leader_id[@.at] = None THEN NewCall ELSE [@ EXCEPT !.pc = "known"]]
  /\ UNCHANGED <<roleVars, vote_for, logVars, leaderVars, netVars, procVars>>

StampTerm(o) ==
  /\ call[o].pc = "known"
  /\ call' = [call EXCEPT ![o].pc = "stamped", ![o].term = current_term[call[o].at]]
  /\ UNCHANGED <<roleVars, vote_for, logVars, leaderVars, netVars, procVars>>

AppendToLog(o) ==
  /\ call[o].pc = "stamped"
  /\ LET i == call[o].at IN
       /\ log' = [log EXCEPT ![i] = AppendOne(@, call[o].term, o)]
       /\ call' = [call EXCEPT ![o].pc = "waiting", ![o].index = Len(log[i]) + 1]
  /\ UNCHANGED <<roleVars, vote_for, last_commited_index, leaderVars, netVars, procVars>>

(* The wait ends with the value of the predicate; the index read from a    *)
(* freed entry is any number.                                              *)
AnswerClient(o) ==
  /\ \/ /\ call[o].pc = "waiting"
        /\ call' = [call EXCEPT ![o].pc =
             IF call[o].index <= CommitIndex(call[o].at) THEN "ok" ELSE "timeout"]
     \/ /\ call[o].pc = "dangling"
        /\ \E answer \in {"ok", "timeout"} : call' = [call EXCEPT ![o].pc = answer]
  /\ UNCHANGED <<roleVars, vote_for, logVars, leaderVars, netVars, procVars>>

-----------------------------------------------------------------------------
(* Failures *)

(* The call ends in a TTransportException.  A request that was not handled *)
(* may still be read by the worker of the broken connection.               *)
LoseCall(i, j) ==
  /\ rpc[i][j] # Idle
  /\ rpc' = [rpc EXCEPT ![i][j] = Idle]
  /\ \/ UNCHANGED orphans
     \/ /\ rpc[i][j].st \in {"vote", "append"} /\ up[j]
        /\ Cardinality(orphans) < MaxOrphans
        /\ orphans' = orphans \cup
             {[kind |-> rpc[i][j].st, from |-> i, to |-> j, req |-> rpc[i][j].req]}
  /\ UNCHANGED <<roleVars, vote_for, logVars, leaderVars, call, procVars>>

HandleOrphan(m) ==
  /\ \/ m.kind = "vote" /\ OnRequestVote(m.to, m.from, m.req)
     \/ m.kind = "append" /\ OnAppendEntries(m.to, m.from, m.req)
  /\ orphans' = orphans \ {m}
  /\ UNCHANGED rpc

(* The process ends.  Its calls and the requests it has not handled end    *)
(* with their connections; answers already sent may still arrive.          *)
Stop(i) ==
  /\ up[i]
  /\ up' = [up EXCEPT ![i] = FALSE]
  /\ rpc' = [k \in Server |-> [j \in Server |->
       IF k = i \/ (j = i /\ rpc[k][j].st \in {"vote", "append"}) THEN Idle ELSE rpc[k][j]]]
  /\ orphans' = {m \in orphans : m.to # i}
  /\ call' = [o \in Op |->
       IF call[o].at = i /\ call[o].pc \in {"leader", "known", "stamped", "waiting", "dangling"}
       THEN [call[o] EXCEPT !.pc = "lost"] ELSE call[o]]
  /\ UNCHANGED <<roleVars, vote_for, logVars, leaderVars>>

Crash(i) ==
  /\ crashes < MaxCrashes
  /\ crashes' = crashes + 1
  /\ Stop(i)

(* A request that reads an empty log brings the process down.              *)
CrashOnEmptyLog(j) ==
  /\ \/ \E i \in Server : rpc[i][j].st = "append" /\ ReadsEmptyLog(j, rpc[i][j].req)
     \/ \E m \in orphans : m.to = j /\ m.kind = "append" /\ ReadsEmptyLog(j, m.req)
  /\ Stop(j)
  /\ UNCHANGED crashes

(* Nothing is on disk: the process starts from its constructor.            *)
Restart(i) ==
  /\ ~up[i]
  /\ up' = [up EXCEPT ![i] = TRUE]
  /\ current_term' = [current_term EXCEPT ![i] = 0]
  /\ current_role' = [current_role EXCEPT ![i] = "Follower"]
  /\ leader_id' = [leader_id EXCEPT ![i] = None]
  /\ vote_for' = [vote_for EXCEPT ![i] = [t \in Term |-> None]]
  /\ vote_pool' = [vote_pool EXCEPT ![i] = {}]
  /\ log' = [log EXCEPT ![i] = <<>>]
  /\ last_commited_index' = [last_commited_index EXCEPT ![i] = 0]
  /\ next_index' = [next_index EXCEPT ![i] = [j \in Server |-> 0]]
  /\ pending_entries' = [pending_entries EXCEPT ![i] = {}]
  /\ UNCHANGED <<netVars, call, crashes>>

-----------------------------------------------------------------------------
Next ==
  \/ \E i \in Server : StartLeaderElection(i) \/ Crash(i) \/ CrashOnEmptyLog(i) \/ Restart(i)
  \/ \E i, j \in Server :
       \/ SendRequestVote(i, j) \/ HandleRequestVote(i, j) \/ OnVoteReply(i, j)
       \/ SendAppendEntries(i, j) \/ HandleAppendEntries(i, j) \/ OnAppendReply(i, j)
       \/ LoseCall(i, j)
  \/ \E m \in orphans : HandleOrphan(m)
  \/ \E o \in Op :
       \/ \E i \in Server : CheckIsLeader(o, i)
       \/ CheckLeaderId(o) \/ StampTerm(o) \/ AppendToLog(o) \/ AnswerClient(o)

Spec == Init /\ [][Next]_vars

-----------------------------------------------------------------------------
(* Assumptions about the environment, under which the properties further   *)
(* down hold.  The code does not enforce them.                             *)

(* No server comes back: a server that stops stays down.                   *)
NoRestart == \A i \in Server : up'[i] => up[i]

(* A server starts an election only when its vote requests of the round    *)
(* before were answered or broken.  The election timer (0.5 to 1 s) is     *)
(* meant to outlast a call, but no receive timeout bounds the call.        *)
RoundsDoNotOverlap ==
  \A i \in Server :
    current_role'[i] = "Candidate" /\ current_term'[i] # current_term[i] =>
      \A j \in Server : rpc[i][j].st \notin {"vote", "voted"}

(* While a client handler goes from its IsLeader check to the append, its  *)
(* server keeps its role and its term: what the mutex would give.          *)
HandlersAreAtomic ==
  \A o \in Op : call[o].pc \in {"leader", "known", "stamped"} =>
    LET i == call[o].at IN
    current_role'[i] = current_role[i] /\ current_term'[i] = current_term[i]

(* Servers may crash, calls be lost and requests be handled late.          *)
StableSpec == Init /\ [][Next /\ NoRestart]_vars
RoundsSpec == Init /\ [][Next /\ NoRestart /\ RoundsDoNotOverlap]_vars
AtomicSpec == Init /\ [][Next /\ NoRestart /\ RoundsDoNotOverlap /\ HandlersAreAtomic]_vars

-----------------------------------------------------------------------------
(* Properties *)

(* The type invariant; elections are held in terms above 0.                *)
TypeOK ==
  /\ up \in [Server -> BOOLEAN]
  /\ current_term \in [Server -> 0..MaxTerm]
  /\ current_role \in [Server -> Role]
  /\ \A i \in Server : current_role[i] # "Follower" => current_term[i] \in Term
  /\ leader_id \in [Server -> Server \cup {None}]
  /\ vote_for \in [Server -> [Term -> Server \cup {None}]]
  /\ vote_pool \in [Server -> SUBSET Server]
  /\ log \in [Server -> Seq(Entry)]
  /\ last_commited_index \in [Server -> Nat]
  /\ next_index \in [Server -> [Server -> Nat]]
  /\ pending_entries \in [Server -> SUBSET (Nat \X Server)]
  /\ rpc \in [Server -> [Server -> Slot]]
  /\ orphans \in SUBSET Orphan
  /\ call \in [Op -> CallState]
  /\ crashes \in Nat

(* No server has voted in a term it has not reached: OnRequestVote raises  *)
(* the term before it grants, and an election votes for itself only after  *)
(* ++current_term.  This is why StartLeaderElection always finds its own   *)
(* vote free, restarts included.                                           *)
VotesInReachedTerms ==
  \A i \in Server, t \in Term : vote_for[i][t] # None => t <= current_term[i]

(* A candidate always holds its own vote of its term, in its pool too: the *)
(* test of vote_for in StartLeaderElection never leaves the pool empty.    *)
CandidateVotesForItself ==
  \A i \in Server : current_role[i] = "Candidate" =>
    i \in vote_pool[i] /\ vote_for[i][current_term[i]] = i

(* No entry carries a term its server has not reached, in a log or on the  *)
(* way to one: OnAppendEntries raises the term before it appends, and a    *)
(* client handler stamps the current term, with or without the mutex.      *)
EntriesOfReachedTerms ==
  /\ \A i \in Server : \A k \in DOMAIN log[i] : log[i][k].term <= current_term[i]
  /\ \A i, j \in Server : rpc[i][j].st \in {"append", "appended"} =>
       \A k \in DOMAIN rpc[i][j].req.entries :
         rpc[i][j].req.entries[k].term <= rpc[i][j].req.term

(* The leader a server names (GetLeader answers it to clients) leads the   *)
(* server's term or has gone on to a later one: leader_id is cleared with  *)
(* every change of term and set only by a request of the term.             *)
LeaderIdIsOfTerm ==
  \A i \in Server : LET l == leader_id[i] IN
    l # None => \/ current_term[l] > current_term[i]
                \/ current_term[l] = current_term[i] /\ current_role[l] = "Leader"

(* At most one leader in a term: RaftConsensus.h:136-146, a quorum of the  *)
(* votes of the round.                                                     *)
ElectionSafety ==
  \A i, j \in Server :
    current_role[i] = "Leader" /\ current_role[j] = "Leader" /\ current_term[i] = current_term[j]
      => i = j

(* A vote once given is never changed: OnRequestVote overwrites vote_for   *)
(* only with the same candidate, also when it grants for an earlier term.  *)
VotesAreFinal ==
  [][\A i \in Server, t \in Term : vote_for[i][t] # None => vote_for'[i][t] = vote_for[i][t]]_vars

(* What a server has called committed stays so in its term and after it:   *)
(* neither a request handled late nor an answer read late lowers its       *)
(* commit index (OnAppendEntries' test of leader_commit_index,             *)
(* RemoteHostLoop's loop over the acknowledged batch).                     *)
CommitNeverFalls == [][\A i \in Server : CommitIndex(i)' >= CommitIndex(i)]_vars

(* The next three hold until a server crashes and comes back without the   *)
(* log and the votes they rest on.                                         *)

(* As long as it leads, a leader only adds to its log: no request of its   *)
(* own term reaches Append, whose branches overwrite and erase.            *)
LeaderAppendsOnly ==
  [][crashes' = 0 => \A i \in Server :
       current_role[i] = "Leader" /\ current_role'[i] = "Leader" =>
         Len(log'[i]) >= Len(log[i]) /\ SubSeq(log'[i], 1, Len(log[i])) = log[i]]_vars

(* What a leader sets next_index by is in its log: the index that a        *)
(* follower answers to a batch of the leader's term is that of an entry    *)
(* the leader still has, however the batch was merged over there.  It need *)
(* not be within the last index: a log with holes takes entries whose      *)
(* index is below its last.                                                *)
AcknowledgesOwnEntries ==
  crashes = 0 => \A i, j \in Server : LET slot == rpc[i][j] IN
    /\ current_role[i] = "Leader" /\ slot.st = "appended" /\ slot.req.entries # <<>>
    /\ slot.resp.success /\ slot.resp.term = current_term[i]
    => \E k \in DOMAIN log[i] : slot.resp.last_log_index = log[i][k].index

(* LogManager.cpp:111 "if the index and term of two entires are same, then *)
(* they have the same cmd", between all logs.                              *)
SameEntrySameCommand ==
  crashes = 0 => \A i, j \in Server : \A k \in DOMAIN log[i], q \in DOMAIN log[j] :
    SameEntry(log[i][k], log[j][q]) => log[i][k].op = log[j][q].op

(* Where a quorum is all the remotes (3 or 4 servers), no request makes    *)
(* SetLastCommitIndex read the last entry of an empty log: what is         *)
(* committed was first appended everywhere.                                *)
NoCommitOnEmptyLog ==
  \A i, j \in Server : rpc[i][j].st = "append" /\ up[j] => ~CommitsOnEmptyLog(j, rpc[i][j].req)

(* Under a leader that stays, a follower whose log is empty is only sent   *)
(* what begins with the first entry, however often next_index goes back    *)
(* and forth and whatever late requests erase: the log that                *)
(* RaftConsensus.cpp:504 prints and line 494 commits in is never empty.    *)
NoReadOfEmptyLog ==
  \A i, j \in Server : rpc[i][j].st = "append" => ~ReadsEmptyLog(j, rpc[i][j].req)

(* RaftConsensus.cpp:569-571 "success", "commited!": the entry of an       *)
(* operation that is answered kOK is in the logs of a quorum.              *)
OkIsCommitted ==
  [][\A o \in Op : call[o].pc # "ok" /\ call'[o].pc = "ok" =>
       Cardinality({i \in Server : \E k \in DOMAIN log[i] : log[i][k].op = o}) >= quorum_size]_vars

(* RaftConsensus.h:136-139 "for each election round, vote_pool stores the  *)
(* remote node id who grant their votes": everyone in the pool of a        *)
(* candidate or leader has voted for it in its term.                       *)
PoolHoldsVotesOfRound ==
  \A i \in Server : current_role[i] # "Follower" =>
    \A j \in vote_pool[i] : vote_for[j][current_term[i]] = i

(* What a client's append comes to under a leader that stays: time and     *)
(* again every server has committed all that was ever appended, if the     *)
(* threads keep calling and the calls keep getting through.  Commit        *)
(* indexes do not fall, so that none waits for good.                       *)
AppendedIsCommitted ==
  []<>(\A o \in Op : call[o].index > 0 => \A i \in Server : CommitIndex(i) >= call[o].index)

(* RemoteHostLoop of a server sends again every 250 ms, and a call that is *)
(* made again and again is handled and answered again and again.           *)
RemoteHostFairness(i) ==
  \A j \in Server \ {i} :
    /\ WF_vars(SendAppendEntries(i, j))
    /\ SF_vars(HandleAppendEntries(i, j))
    /\ SF_vars(OnAppendReply(i, j))
=============================================================================
