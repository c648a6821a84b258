--------------------------- MODULE RaftCommitProofs ---------------------------
(***************************************************************************)
(* What a server calls committed, proved for every number of servers,      *)
(* terms and operations, where servers may crash and not come back, calls  *)
(* be lost, requests be handled late and elections overlap; and, of a      *)
(* leader that no election follows, that its log and its commits are what  *)
(* CommitLog promises and that it reads no empty log.                      *)
(***************************************************************************)
EXTENDS RaftConsensusProofs, RaftConsensusMC

(* A log that holds an entry never becomes empty: a batch merged into it   *)
(* erases what follows an entry that stays.                                *)
LEMMA LogStaysNonempty ==
  ASSUME TypeOK, [Next /\ NoRestart]_vars, NEW j \in Server, log[j] # <<>>
  PROVE  log'[j] # <<>>
<1>1. log[j] \in Seq(Entry)
  BY LogTypes
<1>2. ASSUME NEW i \in Server, NEW req \in Requests(i, j), OnAppendEntries(j, i, req)
      PROVE  log'[j] # <<>>
  <2>1. req \in AppendReq /\ req.entries \in Seq(Entry)
    BY RequestTypes
  <2>2. log'[j] \in {log[j], LogAfter(j, req)}
    BY <1>2, <2>1, RequestRaisesTerm DEF OnAppendEntries, logVars
  <2> QED
    BY <1>1, <2>1, <2>2, AppendBatchLast DEF LogAfter
<1>3. ASSUME NEW o \in Op, AppendToLog(o), call[o].at = j
      PROVE  log'[j] # <<>>
  <2>1. log'[j] = Append(log[j], NewEntry(o))
    BY <1>3, OneEntryMore DEF TypeOK
  <2> QED
    BY <1>1, <2>1
<1> QED
  BY <1>2, <1>3, LogStep, ReplyFrame DEF LogChange

-----------------------------------------------------------------------------
(* The commit index never falls.                                           *)

(* No request takes the commit index of a server that has entries back.    *)
LEMMA RequestKeepsCommit ==
  ASSUME TypeOK, NEW i \in Server, NEW j \in Server, NEW req \in AppendReq,
         OnAppendEntries(j, i, req), log[j] # <<>>
  PROVE  last_commited_index'[j] >= last_commited_index[j]
<1>1. last_commited_index[j] \in Nat /\ req.leader_commit_index \in Nat /\ log[j] \in Seq(Entry)
  BY LogTypes DEF AppendReq
<1>2. CASE SlowTerm(j, req)
  BY <1>1, <1>2 DEF OnAppendEntries, logVars
<1>3. CASE ~SlowTerm(j, req)
  <2>1. LogAfter(j, req) # <<>>
    BY <1>1, AppendBatchLast DEF LogAfter, AppendReq
  <2>2. GetLastCommitIndex(LogAfter(j, req), last_commited_index[j]) = last_commited_index[j]
    BY <2>1 DEF GetLastCommitIndex
  <2>3. PICK c \in CommitsAfter(j, req) : last_commited_index' = [last_commited_index EXCEPT ![j] = c]
    BY <1>3 DEF OnAppendEntries
  <2>4. last_commited_index'[j] = c
    BY <2>3 DEF TypeOK
  <2>5. c >= last_commited_index[j]
    <3>1. CASE req.leader_commit_index <= last_commited_index[j]
      BY <1>1, <2>2, <2>3, <3>1 DEF CommitsAfter
    <3>2. CASE req.leader_commit_index > last_commited_index[j]
      <4>1. c \in {last_commited_index[j], req.leader_commit_index}
        BY <1>1, <2>1, <2>2, <2>3, <3>2 DEF CommitsAfter, SetLastCommitIndex
      <4> QED
        BY <1>1, <3>2, <4>1
    <3> QED
      BY <1>1, <3>1, <3>2
  <2> QED
    BY <2>4, <2>5
<1> QED
  BY <1>2, <1>3

(* The entries of an answered batch that a quorum has are not committed    *)
(* yet, so the last of them is beyond the commit index.                    *)
LEMMA AcknowledgeRaisesCommit ==
  ASSUME TypeOK, NEW i \in Server, NEW j \in Server, NEW es \in Seq(Entry), Acknowledge(i, j, es)
  PROVE  \/ last_commited_index'[i] = last_commited_index[i]
         \/ /\ last_commited_index'[i] > CommitIndex(i)
            /\ \E x : HasQuorum(pending_entries'[i], x)
<1> DEFINE fresh   == {k \in 1..Len(es) : es[k].index > CommitIndex(i)}
           pending == pending_entries[i] \cup {<<es[k].index, j>> : k \in fresh}
           quorate == {k \in fresh : HasQuorum(pending, es[k].index)}
           last    == CHOOSE k \in quorate : \A q \in quorate : q <= k
<1>1. pending_entries'[i] = pending
  <2>1. pending_entries' = [pending_entries EXCEPT ![i] = pending]
    BY DEF Acknowledge
  <2> HIDE DEF pending
  <2> QED
    BY <2>1 DEF TypeOK
<1>2. CASE quorate = {}
  BY <1>2 DEF Acknowledge
<1>3. CASE quorate # {}
  <2>1. last_commited_index' = [last_commited_index EXCEPT ![i] =
          SetLastCommitIndex(log[i], @, es[last].index)]
    BY <1>3 DEF Acknowledge
  <2>2. last \in quorate
    <3>1. quorate \in SUBSET (1..Len(es)) /\ Len(es) \in Nat
      OBVIOUS
    <3> HIDE DEF quorate
    <3>2. \E m \in quorate : \A q \in quorate : q <= m
      BY <1>3, <3>1, LargestExists
    <3> QED
      BY <3>2, Zenon
  <2> HIDE DEF last
  <2>3. es[last].index > CommitIndex(i) /\ HasQuorum(pending, es[last].index)
    BY <2>2
  <2> HIDE DEF pending, quorate
  <2>4. last_commited_index'[i] \in {last_commited_index[i], es[last].index}
    BY <2>1 DEF TypeOK, SetLastCommitIndex
  <2> QED
    BY <1>1, <2>3, <2>4
<1> QED
  BY <1>2, <1>3

(* Whatever is lost, crashes or is handled late, the index up to which a   *)
(* server reports its log as committed never goes back.                    *)
THEOREM CommitStays == StableSpec => CommitNeverFalls
<1>1. Init => TypeOK
  BY InitType
<1>2. TypeOK /\ [Next /\ NoRestart]_vars => TypeOK'
  BY TypeStep
<1>3. ASSUME TypeOK, [Next /\ NoRestart]_vars
      PROVE  [\A i \in Server : CommitIndex(i)' >= CommitIndex(i)]_vars
  <2> SUFFICES ASSUME NEW i \in Server PROVE CommitIndex(i)' >= CommitIndex(i)
    OBVIOUS
  <2>1. CommitIndex(i) \in Nat /\ CommitIndex(i)' \in Nat /\ last_commited_index[i] \in Nat
    <3>1. TypeOK'
      BY <1>2, <1>3
    <3>2. CommitIndex(i)' \in Nat
      BY <3>1 DEF TypeOK, CommitIndex, GetLastCommitIndex
    <3> QED
      BY <1>3, <3>2, LogTypes
  <2>2. CASE log[i] = <<>>
    BY <2>1, <2>2 DEF CommitIndex, GetLastCommitIndex
  <2>3. CASE log[i] # <<>>
    <3>1. log'[i] # <<>>
      BY <1>3, <2>3, LogStaysNonempty
    <3>2. CommitIndex(i) = last_commited_index[i] /\ CommitIndex(i)' = last_commited_index'[i]
      BY <2>3, <3>1 DEF CommitIndex, GetLastCommitIndex
    <3>3. ASSUME NEW k \in Server, NEW req \in Requests(k, i), OnAppendEntries(i, k, req)
          PROVE  last_commited_index'[i] >= last_commited_index[i]
      BY <1>3, <2>3, <3>3, RequestTypes, RequestKeepsCommit
    <3>4. ASSUME NEW k \in Server, OnAppendReply(i, k)
          PROVE  last_commited_index'[i] >= last_commited_index[i]
      <4>1. CASE UNCHANGED last_commited_index
        BY <2>1, <4>1
      <4>2. CASE Acknowledge(i, k, rpc[i][k].req.entries)
        <5>1. rpc[i][k].req.entries \in Seq(Entry)
          BY <1>3, <3>4, SlotTypes DEF OnAppendReply, AppendReq
        <5> QED
          BY <1>3, <2>1, <3>2, <4>2, <5>1, AcknowledgeRaisesCommit
      <4> QED
        BY <1>3, <3>4, <4>1, <4>2, ReplyFrame
    <3>5. ASSUME NEW o \in Op, AppendToLog(o)
          PROVE  last_commited_index'[i] >= last_commited_index[i]
      BY <2>1, <3>5 DEF AppendToLog
    <3> QED
      BY <1>3, <2>1, <3>2, <3>3, <3>4, <3>5, LogStep DEF LogChange
  <2> QED
    BY <2>2, <2>3
<1> QED
  BY <1>1, <1>2, <1>3, PTL DEF StableSpec, CommitNeverFalls

-----------------------------------------------------------------------------
(* Where a quorum is all the remotes, what is committed was first appended *)
(* everywhere.                                                             *)

(* A commit index above 0, on a server or on its way to one, is only there *)
(* when no log is empty.                                                   *)
CommittedEverywhere ==
  (\/ \E i \in Server : last_commited_index[i] > 0
   \/ \E i, j \in Server : \E req \in Requests(i, j) : req.leader_commit_index > 0)
  => \A i \in Server : log[i] # <<>>

(* An acknowledged entry is another server's, and that server's log holds  *)
(* one; so does the log that a batch was taken from.                       *)
PendingAreAppended ==
  \A i \in Server : \A p \in pending_entries[i] : p[2] # i /\ log[p[2]] # <<>>

(* A batch on its way or late comes from a log that has entries.           *)
BatchesAreOfLogs ==
  \A i, j \in Server : \A req \in Requests(i, j) : i # j /\ (req.entries # <<>> => log[i] # <<>>)

(* Who has answered for a batch has entries.                               *)
AnswersAreAppended ==
  \A i, j \in Server :
    rpc[i][j].st = "appended" /\ rpc[i][j].resp.success /\ rpc[i][j].req.entries # <<>>
      => log[j] # <<>>

(* The inductive invariant, less TypeOK.                                   *)
CommitInv ==
  TypeOK /\ CommittedEverywhere /\ PendingAreAppended /\ BatchesAreOfLogs /\ AnswersAreAppended

(* The remotes of i that acknowledged an index are everyone else.          *)
LEMMA QuorumIsEveryRemote ==
  ASSUME quorum_size >= Cardinality(Server) - 1, NEW i \in Server, NEW x,
         NEW pending, HasQuorum(pending, x), \A p \in pending : p[2] # i
  PROVE  \A r \in Server \ {i} : <<x, r>> \in pending
<1> DEFINE R == {r \in Server : <<x, r>> \in pending}
           T == Server \ {i}
<1>1. R \subseteq T
  <2> SUFFICES ASSUME NEW r \in R PROVE r # i
    OBVIOUS
  <2>1. <<x, r>>[2] # i
    OBVIOUS
  <2> QED
    BY <2>1
<1>2. IsFiniteSet(T) /\ Cardinality(T) = Cardinality(Server) - 1
  BY ServerAssumption, FS_RemoveElement
<1>3. Cardinality(R) >= quorum_size
  BY DEF HasQuorum
<1>4. R = T
  <2> HIDE DEF R, T
  <2>1. IsFiniteSet(R)
    BY <1>1, <1>2, FS_Subset
  <2>2. Cardinality(R) \in Nat /\ Cardinality(T) \in Nat /\ Cardinality(R) <= Cardinality(T)
    BY <1>1, <1>2, <2>1, FS_Subset, FS_CardinalityType
  <2>3. quorum_size \in Int /\ Cardinality(Server) \in Nat
    BY ServerAssumption, FS_CardinalityType DEF quorum_size
  <2>4. Cardinality(R) = Cardinality(T)
    BY <1>2, <1>3, <2>2, <2>3
  <2> QED
    BY <1>1, <1>2, <2>4, FS_Subset
<1> QED
  BY <1>4

(* What is pending stays backed by logs.                                   *)
LEMMA PendingStep ==
  ASSUME TypeOK, PendingAreAppended, BatchesAreOfLogs, AnswersAreAppended, [Next /\ NoRestart]_vars
  PROVE  PendingAreAppended'
<1>1. \A j \in Server : log[j] # <<>> => log'[j] # <<>>
  BY LogStaysNonempty
<1>2. CASE UNCHANGED pending_entries
  BY <1>1, <1>2 DEF PendingAreAppended, TypeOK
<1>3. ASSUME NEW i \in Server, NEW j \in Server, OnAppendReply(i, j)
      PROVE  PendingAreAppended'
  <2> DEFINE es == rpc[i][j].req.entries
  <2>1. CASE UNCHANGED pending_entries
    BY <1>2, <2>1
  <2>2. CASE es # <<>> /\ rpc[i][j].resp.success /\ Acknowledge(i, j, es)
    <3>1. i # j /\ log[j] # <<>>
      <4>1. rpc[i][j].req \in Requests(i, j) /\ rpc[i][j].st = "appended"
        BY <1>3 DEF OnAppendReply, Requests
      <4> QED
        BY <2>2, <4>1 DEF BatchesAreOfLogs, AnswersAreAppended
    <3> DEFINE S == {<<es[k].index, j>> : k \in {q \in 1..Len(es) : es[q].index > CommitIndex(i)}}
    <3>2. pending_entries' = [pending_entries EXCEPT ![i] = pending_entries[i] \cup S]
      BY <2>2 DEF Acknowledge
    <3>3. \A k \in Server : \A p \in pending_entries'[k] : p \in pending_entries[k] \/ (k = i /\ p[2] = j)
      <4>1. \A p \in S : p[2] = j
        OBVIOUS
      <4> HIDE DEF S
      <4> QED
        BY <3>2, <4>1 DEF TypeOK
    <3>4. \A k \in Server : \A p \in pending_entries[k] : p[2] \in Server
      BY DEF TypeOK
    <3> QED
      BY <1>1, <3>1, <3>3, <3>4 DEF PendingAreAppended
  <2> QED
    BY <1>3, <2>1, <2>2, ReplyFrame
<1>4. CASE UNCHANGED vars
  BY <1>2, <1>4 DEF vars, leaderVars
<1>5. ASSUME NEW s \in Server, Restart(s) PROVE PendingAreAppended'
  BY <1>4, <1>5 DEF Restart, NoRestart, TypeOK
<1>6. ASSUME NEW m \in orphans, HandleOrphan(m) PROVE PendingAreAppended'
  BY <1>2, <1>6 DEF HandleOrphan, OnRequestVote, OnAppendEntries, leaderVars
<1>7. ASSUME NEW s \in Server, StartLeaderElection(s) \/ Crash(s) \/ CrashOnEmptyLog(s)
      PROVE  PendingAreAppended'
  BY <1>2, <1>7 DEF StartLeaderElection, Crash, CrashOnEmptyLog, Stop, leaderVars
<1>8. ASSUME NEW a \in Server, NEW b \in Server,
             \/ SendRequestVote(a, b) \/ HandleRequestVote(a, b) \/ OnVoteReply(a, b)
             \/ SendAppendEntries(a, b) \/ HandleAppendEntries(a, b) \/ LoseCall(a, b)
      PROVE  PendingAreAppended'
  BY <1>2, <1>8 DEF SendRequestVote, HandleRequestVote, OnRequestVote, OnVoteReply,
     SendAppendEntries, HandleAppendEntries, OnAppendEntries, LoseCall, leaderVars
<1>9. ASSUME NEW o \in Op, ClientStep(o) PROVE PendingAreAppended'
  BY <1>2, <1>9 DEF ClientStep, CheckIsLeader, CheckLeaderId, StampTerm, AppendToLog, AnswerClient,
     leaderVars
<1> QED
  BY <1>3, <1>4, <1>5, <1>6, <1>7, <1>8, <1>9 DEF Next, ClientStep

(* So do batches, and the answers to them.                                 *)
LEMMA BatchesStep ==
  ASSUME TypeOK, BatchesAreOfLogs, [Next /\ NoRestart]_vars
  PROVE  BatchesAreOfLogs'
<1> SUFFICES ASSUME NEW i \in Server, NEW j \in Server, NEW req \in Requests(i, j)'
             PROVE  i # j /\ (req.entries # <<>> => log'[i] # <<>>)
  BY DEF BatchesAreOfLogs
<1>1. i # j /\ (req.entries # <<>> => log[i] # <<>>)
  <2>1. CASE req \in Requests(i, j)
    BY <2>1 DEF BatchesAreOfLogs
  <2>2. CASE SendAppendEntries(i, j) /\ req = AppendEntriesRequest(i, j)
    <3>1. i # j
      BY <2>2 DEF SendAppendEntries
    <3>2. ASSUME log[i] = <<>> PROVE req.entries = <<>>
      <4>1. log[i] \in Seq({})
        BY <3>2
      <4>2. GetEntriesStartAt(log[i], next_index[i][j] - 1) \in Seq({})
        BY <4>1, GetEntriesStartAtType
      <4>3. GetEntriesStartAt(log[i], next_index[i][j] - 1) = <<>>
        BY <4>2
      <4> QED
        BY <2>2, <4>3 DEF AppendEntriesRequest
    <3> QED
      BY <3>1, <3>2
  <2> QED
    BY <2>1, <2>2, RequestsStep
<1> QED
  BY <1>1, LogStaysNonempty

(* Who answers for a batch has appended it.                                *)
LEMMA AnswersAreAppendedStep ==
  ASSUME TypeOK, AnswersAreAppended, [Next /\ NoRestart]_vars
  PROVE  AnswersAreAppended'
<1> SUFFICES ASSUME NEW i \in Server, NEW j \in Server, rpc'[i][j].st = "appended",
                    rpc'[i][j].resp.success, rpc'[i][j].req.entries # <<>>
             PROVE  log'[j] # <<>>
  BY DEF AnswersAreAppended
<1>1. CASE rpc'[i][j] = rpc[i][j]
  BY <1>1, LogStaysNonempty DEF AnswersAreAppended
<1>2. CASE HandleAppendEntries(i, j)
  <2> DEFINE req == rpc[i][j].req
  <2>1. req \in AppendReq /\ req.entries \in Seq(Entry) /\ log[j] \in Seq(Entry)
    BY <1>2, SlotTypes, LogTypes DEF HandleAppendEntries, AppendReq
  <2>2. req.entries # <<>> /\ Success(j, req)
    BY <1>2, AnswerIs
  <2>3. log'[j] = LogAfter(j, req)
    BY <1>2, <2>1, <2>2, RequestRaisesTerm DEF HandleAppendEntries, Success
  <2>4. LogAfter(j, req) # <<>>
    BY <2>1, <2>2, AppendBatchLast DEF Success, LogAfter
  <2> QED
    BY <2>3, <2>4
<1> QED
  BY <1>1, <1>2, AnswersStep

(* An index is committed when all have answered for its entry.             *)
LEMMA CommittedEverywhereStep ==
  ASSUME quorum_size >= Cardinality(Server) - 1, CommitInv, [Next /\ NoRestart]_vars,
         PendingAreAppended'
  PROVE  CommittedEverywhere'
<1> USE DEF CommitInv
<1>1. \A j \in Server : log[j] # <<>> => log'[j] # <<>>
  BY LogStaysNonempty
<1>2. ASSUME NEW i \in Server, last_commited_index'[i] > 0
      PROVE  \A j \in Server : log'[j] # <<>>
  <2>1. CASE last_commited_index'[i] = last_commited_index[i]
    BY <1>1, <1>2, <2>1 DEF CommittedEverywhere
  <2>2. ASSUME NEW k \in Server, NEW req \in Requests(k, i), OnAppendEntries(i, k, req),
               last_commited_index'[i] # last_commited_index[i]
        PROVE  \A j \in Server : log'[j] # <<>>
    <3>1. ~SlowTerm(i, req)
      BY <2>2 DEF OnAppendEntries, logVars
    <3>2. PICK c \in CommitsAfter(i, req) : last_commited_index' = [last_commited_index EXCEPT ![i] = c]
      BY <2>2, <3>1 DEF OnAppendEntries
    <3>3. last_commited_index'[i] = req.leader_commit_index
      BY <2>2, <3>2 DEF CommitsAfter, SetLastCommitIndex, TypeOK
    <3> QED
      BY <1>1, <1>2, <3>3 DEF CommittedEverywhere
  <2>3. ASSUME NEW k \in Server, OnAppendReply(i, k), last_commited_index'[i] # last_commited_index[i]
        PROVE  \A j \in Server : log'[j] # <<>>
    <3> DEFINE es == rpc[i][k].req.entries
    <3>1. es # <<>> /\ Acknowledge(i, k, es)
      BY <2>3, ReplyFrame
    <3>2. rpc[i][k].req \in Requests(i, k)
      BY <2>3 DEF OnAppendReply, Requests
    <3>3. log[i] # <<>> /\ es \in Seq(Entry)
      BY <3>1, <3>2, RequestTypes DEF BatchesAreOfLogs
    <3>4. PICK x : HasQuorum(pending_entries'[i], x)
      BY <2>3, <3>1, <3>3, AcknowledgeRaisesCommit
    <3>5. \A r \in Server \ {i} : <<x, r>> \in pending_entries'[i]
      BY <3>4, QuorumIsEveryRemote DEF PendingAreAppended
    <3>6. \A r \in Server \ {i} : log'[r] # <<>>
      <4> SUFFICES ASSUME NEW r \in Server \ {i} PROVE log'[r] # <<>>
        OBVIOUS
      <4>1. <<x, r>> \in pending_entries'[i] /\ <<x, r>>[2] = r
        BY <3>5
      <4> QED
        BY <4>1 DEF PendingAreAppended
    <3> QED
      BY <1>1, <3>3, <3>6
  <2>4. ASSUME NEW o \in Op, AppendToLog(o) PROVE last_commited_index'[i] = last_commited_index[i]
    BY <2>4 DEF AppendToLog
  <2> QED
    BY <2>1, <2>2, <2>3, <2>4, LogStep DEF LogChange
<1>3. ASSUME NEW i \in Server, NEW j \in Server, NEW req \in Requests(i, j)', req.leader_commit_index > 0
      PROVE  \A k \in Server : log'[k] # <<>>
  <2>1. CASE req \in Requests(i, j)
    BY <1>1, <1>3, <2>1 DEF CommittedEverywhere
  <2>2. CASE SendAppendEntries(i, j) /\ req = AppendEntriesRequest(i, j)
    <3>1. req.leader_commit_index = CommitIndex(i)
      BY <2>2 DEF AppendEntriesRequest
    <3>2. last_commited_index[i] > 0
      BY <1>3, <3>1 DEF CommitIndex, GetLastCommitIndex
    <3> QED
      BY <1>1, <3>2 DEF CommittedEverywhere
  <2> QED
    BY <2>1, <2>2, <1>3, RequestsStep
<1> QED
  BY <1>2, <1>3 DEF CommittedEverywhere

(* With 3 or 4 servers (or fewer) a request never makes SetLastCommitIndex *)
(* read the last entry of an empty log, even when elections overlap and    *)
(* requests are handled late.                                              *)
THEOREM CommitsFindEntries ==
  ASSUME quorum_size >= Cardinality(Server) - 1
  PROVE  StableSpec => []NoCommitOnEmptyLog
<1>1. Init => CommitInv
  <2> SUFFICES ASSUME Init PROVE CommitInv
    OBVIOUS
  <2>1. \A i, j \in Server : Requests(i, j) = {} /\ rpc[i][j].st = "idle"
    BY DEF Init, Requests, Idle
  <2>2. CommittedEverywhere
    BY <2>1 DEF Init, CommittedEverywhere
  <2>3. PendingAreAppended /\ BatchesAreOfLogs /\ AnswersAreAppended
    BY <2>1 DEF Init, PendingAreAppended, BatchesAreOfLogs, AnswersAreAppended
  <2> QED
    BY <2>2, <2>3, InitType DEF CommitInv
<1>2. CommitInv /\ [Next /\ NoRestart]_vars => CommitInv'
  <2> SUFFICES ASSUME CommitInv, [Next /\ NoRestart]_vars PROVE CommitInv'
    OBVIOUS
  <2>1. TypeOK' /\ PendingAreAppended' /\ BatchesAreOfLogs' /\ AnswersAreAppended'
    BY TypeStep, PendingStep, BatchesStep, AnswersAreAppendedStep DEF CommitInv
  <2> QED
    BY <2>1, CommittedEverywhereStep DEF CommitInv
<1>3. CommitInv => NoCommitOnEmptyLog
  <2> SUFFICES ASSUME CommitInv, NEW i \in Server, NEW j \in Server, rpc[i][j].st = "append"
               PROVE  ~CommitsOnEmptyLog(j, rpc[i][j].req)
    BY DEF NoCommitOnEmptyLog
  <2> DEFINE req == rpc[i][j].req
  <2>1. req \in Requests(i, j) /\ TypeOK
    BY DEF Requests, CommitInv
  <2>2. log[j] \in Seq(Entry) /\ req.entries \in Seq(Entry)
    BY <2>1, LogTypes, RequestTypes
  <2>3. SUFFICES ASSUME req.leader_commit_index > 0 PROVE LogAfter(j, req) # <<>>
    BY DEF CommitsOnEmptyLog
  <2>4. log[j] # <<>>
    BY <2>1, <2>3 DEF CommitInv, CommittedEverywhere
  <2> QED
    BY <2>2, <2>4, AppendBatchLast DEF LogAfter
<1> QED
  BY <1>1, <1>2, <1>3, PTL DEF StableSpec

-----------------------------------------------------------------------------
(* A leader that stays.                                                    *)

(* Where no election follows the first, its winner leads for good.         *)
RolesStay(l) ==
  /\ l \in Server
  /\ \A i \in Server :
       current_term[i] = 1 /\ current_role[i] = (IF i = l THEN "Leader" ELSE "Follower")
  /\ leader_id[l] = l

(* All calls are the leader's, and of its term.                            *)
CallsOfLeader(l) ==
  /\ \A i, j \in Server : rpc[i][j].st # "idle" =>
       /\ rpc[i][j].st \in {"append", "appended"} /\ i = l /\ j # l
       /\ rpc[i][j].req.term = 1
       /\ rpc[i][j].st = "appended" => rpc[i][j].resp.term = 1
  /\ \A m \in orphans : m.kind = "append" /\ m.from = l /\ m.to # l /\ m.req.term = 1

(* A handler is the leader's, and what it waits for stays in the log.      *)
HandlersAtLeader(l) ==
  \A o \in Op : call[o].pc # "new" =>
    /\ call[o].at = l /\ call[o].pc # "dangling"
    /\ call[o].pc = "waiting" => call[o].index \in DOMAIN log[l] /\ log[l][call[o].index].op = o

(* The leader's log has no holes, and each operation once.                 *)
LogOfHandlers(l) ==
  \A k \in DOMAIN log[l] :
    log[l][k].index = k /\ call[log[l][k].op].pc \in {"waiting", "ok", "timeout", "lost"}

(* The inductive invariant of a leader that stays.                         *)
StayInv(l) ==
  TypeOK /\ RolesStay(l) /\ CallsOfLeader(l) /\ HandlersAtLeader(l) /\ LogOfHandlers(l)

(* What can happen then, and to whom.                                      *)
StayStep(l) ==
  \/ \E i \in Server : Stop(i)
  \/ \E j \in Server \ {l} :
       \/ SendAppendEntries(l, j) \/ HandleAppendEntries(l, j) \/ OnAppendReply(l, j)
       \/ LoseCall(l, j)
  \/ \E m \in orphans : OnAppendEntries(m.to, l, m.req) /\ HandleOrphan(m)
  \/ \E o \in Op : ClientStep(o)
  \/ UNCHANGED vars

(* Of the steps of Next, the elections and restarts are out.               *)
LEMMA StaySteps ==
  ASSUME MaxTerm = 1, NEW l \in Server, StayInv(l), [Next /\ NoRestart]_vars
  PROVE  StayStep(l)
<1> USE DEF StayInv
<1>1. \A i, j \in Server :
        /\ rpc[i][j].st # "idle" => rpc[i][j].st \in {"append", "appended"} /\ i = l /\ j # l
        /\ rpc[i][j] # Idle => rpc[i][j].st # "idle"
  <2> SUFFICES ASSUME NEW i \in Server, NEW j \in Server, rpc[i][j].st = "idle"
               PROVE  rpc[i][j] = Idle
    BY DEF CallsOfLeader
  <2>1. rpc[i][j] \in Slot
    BY SlotTypes
  <2> QED
    BY <2>1 DEF Slot, Idle
<1>2. ASSUME NEW i \in Server, StartLeaderElection(i) \/ Crash(i) \/ CrashOnEmptyLog(i) \/ Restart(i)
      PROVE  StayStep(l)
  <2>1. ~StartLeaderElection(i)
    BY DEF StartLeaderElection, ElectionIsDue, RolesStay
  <2>2. CASE Crash(i) \/ CrashOnEmptyLog(i)
    BY <2>2 DEF Crash, CrashOnEmptyLog, StayStep
  <2>3. CASE Restart(i)
    BY <2>3 DEF Restart, NoRestart, TypeOK, vars, procVars, StayStep
  <2> QED
    BY <1>2, <2>1, <2>2, <2>3
<1>3. ASSUME NEW i \in Server, NEW j \in Server,
             \/ SendRequestVote(i, j) \/ HandleRequestVote(i, j) \/ OnVoteReply(i, j)
             \/ SendAppendEntries(i, j) \/ HandleAppendEntries(i, j) \/ OnAppendReply(i, j)
             \/ LoseCall(i, j)
      PROVE  StayStep(l)
  <2>1. ~SendRequestVote(i, j)
    BY DEF SendRequestVote, RolesStay
  <2>2. ~HandleRequestVote(i, j) /\ ~OnVoteReply(i, j)
    BY <1>1 DEF HandleRequestVote, OnVoteReply
  <2>3. SendAppendEntries(i, j) => i = l /\ j # l
    BY DEF SendAppendEntries, RolesStay
  <2>4. HandleAppendEntries(i, j) \/ OnAppendReply(i, j) \/ LoseCall(i, j) => i = l /\ j # l
    BY <1>1 DEF HandleAppendEntries, OnAppendReply, LoseCall
  <2> QED
    BY <1>3, <2>1, <2>2, <2>3, <2>4 DEF StayStep
<1>4. ASSUME NEW m \in orphans, HandleOrphan(m) PROVE StayStep(l)
  BY <1>4 DEF HandleOrphan, CallsOfLeader, StayStep
<1>5. ASSUME NEW o \in Op, ClientStep(o) PROVE StayStep(l)
  BY <1>5 DEF StayStep
<1>6. CASE UNCHANGED vars
  BY <1>6 DEF StayStep
<1> QED
  BY <1>2, <1>3, <1>4, <1>5, <1>6 DEF Next, ClientStep

(* A request of the leader that is handled: only the log of its receiver   *)
(* and the commit index there change.                                      *)
LEMMA StayHandled ==
  ASSUME NEW l \in Server, StayInv(l), NEW j \in Server, j # l, NEW req \in AppendReq,
         req.term = 1, OnAppendEntries(j, l, req)
  PROVE  /\ ~SlowTerm(j, req)
         /\ UNCHANGED <<current_term, current_role, call, leaderVars>> /\ leader_id'[l] = l
         /\ log' = [log EXCEPT ![j] = LogAfter(j, req)]
         /\ \E c \in CommitsAfter(j, req) :
              last_commited_index' = [last_commited_index EXCEPT ![j] = c]
<1> USE DEF StayInv
<1>1. current_term[j] = 1 /\ current_role[j] = "Follower"
  BY DEF RolesStay
<1>2. ~SlowTerm(j, req)
  BY <1>1 DEF SlowTerm
<1>3. /\ leader_id' = [leader_id EXCEPT ![j] = IF @ = None THEN l ELSE @]
      /\ UNCHANGED <<current_term, current_role, leaderVars>>
      /\ log' = [log EXCEPT ![j] = LogAfter(j, req)]
      /\ \E c \in CommitsAfter(j, req) :
           last_commited_index' = [last_commited_index EXCEPT ![j] = c]
      /\ call' = [o \in Op |-> CallAfter(o, j, LogAfter(j, req))]
  BY <1>1, <1>2 DEF OnAppendEntries
<1>4. leader_id'[l] = l
  BY <1>3 DEF RolesStay, TypeOK
<1>5. call' = call
  <2>1. \A o \in Op : CallAfter(o, j, LogAfter(j, req)) = call[o]
    <3> SUFFICES ASSUME NEW o \in Op PROVE ~(call[o].pc = "waiting" /\ call[o].at = j)
      BY DEF CallAfter
    <3> QED
      BY DEF HandlersAtLeader
  <2> QED
    BY <1>3, <2>1 DEF TypeOK
<1> QED
  BY <1>2, <1>3, <1>4, <1>5

(* An answer the leader reads: it keeps its role.                          *)
LEMMA StayReply ==
  ASSUME NEW l \in Server, StayInv(l), NEW j \in Server, OnAppendReply(l, j)
  PROVE  /\ UNCHANGED <<roleVars, log, call, orphans>> /\ rpc' = [rpc EXCEPT ![l][j] = Idle]
         /\ rpc[l][j].st = "appended"
         /\ \/ /\ rpc[l][j].resp.success /\ rpc[l][j].req.entries # <<>>
               /\ next_index' = [next_index EXCEPT ![l][j] = rpc[l][j].resp.last_log_index + 1]
               /\ Acknowledge(l, j, rpc[l][j].req.entries)
            \/ /\ next_index' = [next_index EXCEPT ![l][j] = BackOff(rpc[l][j].req.prev_log_index)]
               /\ UNCHANGED last_commited_index
            \/ UNCHANGED <<next_index, last_commited_index>>
<1> USE DEF StayInv
<1>1. rpc[l][j].st = "appended"
  BY DEF OnAppendReply
<1>2. rpc[l][j].resp.term = 1 /\ current_term[l] = 1
  BY <1>1 DEF CallsOfLeader, RolesStay
<1>3. ~(rpc[l][j].resp.term > current_term[l])
  BY <1>2
<1> QED
  BY <1>1, <1>3 DEF OnAppendReply, leaderVars, roleVars

(* What the handler of a client does, which is always the leader's.        *)
Handler(l, o) ==
  /\ UNCHANGED <<roleVars, last_commited_index, leaderVars, netVars>>
  /\ \A p \in Op : p # o => call'[p] = call[p]
  /\ call'[o].at = l
  /\ \/ /\ call[o].pc \in {"new", "leader", "known"} /\ call'[o].pc \in {"leader", "known", "stamped"}
        /\ log' = log
     \/ /\ call[o].pc = "stamped" /\ call'[o].pc = "waiting" /\ call'[o].index = Len(log[l]) + 1
        /\ NewEntry(o) \in Entry /\ NewEntry(o).op = o /\ NewEntry(o).index = Len(log[l]) + 1
        /\ log' = [log EXCEPT ![l] = Append(@, NewEntry(o))]
     \/ /\ call[o].pc = "waiting"
        /\ call'[o].pc = (IF call[o].index <= CommitIndex(l) THEN "ok" ELSE "timeout")
        /\ log' = log

(* The step of a client handler is one of the three of Handler.            *)
LEMMA StayHandler ==
  ASSUME NEW l \in Server, StayInv(l), NEW o \in Op, ClientStep(o)
  PROVE  Handler(l, o)
<1> USE DEF StayInv
<1>1. ASSUME NEW c, call' = [call EXCEPT ![o] = c]
      PROVE  call'[o] = c /\ \A p \in Op : p # o => call'[p] = call[p]
  BY <1>1 DEF TypeOK
<1>2. ASSUME NEW i \in Server, CheckIsLeader(o, i) PROVE Handler(l, o)
  <2> DEFINE c == [pc |-> "leader", at |-> i, term |-> 0, index |-> 0]
  <2>1. i = l
    BY <1>2 DEF CheckIsLeader, RolesStay
  <2>2. call' = [call EXCEPT ![o] = c] /\ c.pc = "leader" /\ c.at = i
    BY <1>2 DEF CheckIsLeader
  <2> HIDE DEF c
  <2>3. call'[o] = c /\ \A p \in Op : p # o => call'[p] = call[p]
    BY <1>1, <2>2
  <2> QED
    BY <1>2, <2>1, <2>2, <2>3 DEF CheckIsLeader, Handler, logVars
<1>3. CASE CheckLeaderId(o)
  <2> DEFINE c == [call[o] EXCEPT !.pc = "known"]
  <2>1. call[o].pc = "leader" /\ call[o].at = l
    BY <1>3 DEF CheckLeaderId, HandlersAtLeader
  <2>2. leader_id[call[o].at] # None
    BY <2>1, ServerAssumption DEF RolesStay
  <2>3. call' = [call EXCEPT ![o] = c]
    BY <1>3, <2>2 DEF CheckLeaderId, TypeOK
  <2>4. c.pc = "known" /\ c.at = l
    BY <2>1, CallTypes
  <2> HIDE DEF c
  <2>5. call'[o] = c /\ \A p \in Op : p # o => call'[p] = call[p]
    BY <1>1, <2>3
  <2> QED
    BY <1>3, <2>1, <2>4, <2>5 DEF CheckLeaderId, Handler, logVars
<1>4. CASE StampTerm(o)
  <2> DEFINE c == [call[o] EXCEPT !.pc = "stamped", !.term = current_term[call[o].at]]
  <2>1. call[o].pc = "known" /\ call[o].at = l
    BY <1>4 DEF StampTerm, HandlersAtLeader
  <2>3. call' = [call EXCEPT ![o] = c]
    BY <1>4 DEF StampTerm, TypeOK
  <2>4. c.pc = "stamped" /\ c.at = l
    BY <2>1, CallTypes
  <2> HIDE DEF c
  <2>5. call'[o] = c /\ \A p \in Op : p # o => call'[p] = call[p]
    BY <1>1, <2>3
  <2> QED
    BY <1>4, <2>1, <2>4, <2>5 DEF StampTerm, Handler, logVars
<1>5. CASE AppendToLog(o)
  <2> DEFINE c == [call[o] EXCEPT !.pc = "waiting", !.index = Len(log[l]) + 1]
  <2>1. call[o].pc = "stamped" /\ call[o].at = l
    BY <1>5 DEF AppendToLog, HandlersAtLeader
  <2>3. call' = [call EXCEPT ![o] = c]
    BY <1>5, <2>1 DEF AppendToLog, TypeOK
  <2>4. c.pc = "waiting" /\ c.at = l /\ c.index = Len(log[l]) + 1
    BY <2>1, CallTypes
  <2> HIDE DEF c
  <2>5. call'[o] = c /\ \A p \in Op : p # o => call'[p] = call[p]
    BY <1>1, <2>3
  <2>6. /\ NewEntry(o) \in Entry /\ NewEntry(o).op = o /\ NewEntry(o).index = Len(log[l]) + 1
        /\ log' = [log EXCEPT ![l] = Append(@, NewEntry(o))]
    BY <1>5, <2>1, OneEntryMore DEF NewEntry
  <2> HIDE DEF StayInv
  <2> QED
    BY <1>5, <2>1, <2>4, <2>5, <2>6 DEF AppendToLog, Handler
<1>6. CASE AnswerClient(o)
  <2> DEFINE c == [call[o] EXCEPT !.pc = IF call[o].index <= CommitIndex(l) THEN "ok" ELSE "timeout"]
  <2>1. call[o].pc = "waiting" /\ call[o].at = l
    BY <1>6 DEF AnswerClient, HandlersAtLeader
  <2>3. call' = [call EXCEPT ![o] = c]
    BY <1>6, <2>1 DEF AnswerClient, TypeOK
  <2>4. c.pc = (IF call[o].index <= CommitIndex(l) THEN "ok" ELSE "timeout") /\ c.at = l
    BY <2>1, CallTypes
  <2> HIDE DEF c
  <2>5. call'[o] = c /\ \A p \in Op : p # o => call'[p] = call[p]
    BY <1>1, <2>3
  <2> QED
    BY <1>6, <2>1, <2>4, <2>5 DEF AnswerClient, Handler, logVars
<1> QED
  BY <1>2, <1>3, <1>4, <1>5, <1>6 DEF ClientStep

(* A step, as far as roles, logs and calls are concerned.                  *)
Quiet ==
  /\ UNCHANGED <<roleVars, logVars, leaderVars>>
  /\ \A o \in Op : \/ call'[o] = call[o]
                   \/ /\ call[o].pc # "new" /\ call'[o].pc = "lost" /\ call'[o].at = call[o].at
                      /\ call[o].pc \notin {"ok", "timeout"}

(* A step of the system, by what it changes.                               *)
StayEffect(l) ==
  \/ Quiet
  \/ \E j \in Server \ {l} : \E req \in Requests(l, j) : req.term = 1 /\ OnAppendEntries(j, l, req)
  \/ \E j \in Server \ {l} : OnAppendReply(l, j)
  \/ \E o \in Op : Handler(l, o)

(* Every step is one of these.                                             *)
LEMMA StayEffects ==
  ASSUME NEW l \in Server, StayInv(l), StayStep(l)
  PROVE  StayEffect(l)
<1> USE DEF StayInv
<1>1. ASSUME NEW i \in Server, Stop(i) PROVE StayEffect(l)
  <2>1. UNCHANGED <<roleVars, logVars, leaderVars>>
    BY <1>1 DEF Stop
  <2>2. ASSUME NEW o \in Op, call'[o] # call[o]
        PROVE  /\ call[o].pc # "new" /\ call'[o].pc = "lost" /\ call'[o].at = call[o].at
               /\ call[o].pc \notin {"ok", "timeout"}
    <3>1. /\ call[o].pc \in {"leader", "known", "stamped", "waiting", "dangling"}
          /\ call'[o] = [call[o] EXCEPT !.pc = "lost"]
      BY <1>1, <2>2 DEF Stop
    <3> QED
      BY <3>1, CallTypes
  <2> QED
    BY <2>1, <2>2 DEF Quiet, StayEffect
<1>2. ASSUME NEW j \in Server \ {l}, SendAppendEntries(l, j) \/ LoseCall(l, j) PROVE StayEffect(l)
  BY <1>2 DEF SendAppendEntries, LoseCall, Quiet, StayEffect
<1>3. ASSUME NEW j \in Server \ {l}, HandleAppendEntries(l, j) PROVE StayEffect(l)
  <2>1. rpc[l][j].req \in Requests(l, j) /\ OnAppendEntries(j, l, rpc[l][j].req)
    BY <1>3 DEF HandleAppendEntries, Requests
  <2>2. rpc[l][j].req.term = 1
    BY <1>3 DEF HandleAppendEntries, CallsOfLeader
  <2> QED
    BY <2>1, <2>2 DEF StayEffect
<1>4. ASSUME NEW m \in orphans, OnAppendEntries(m.to, l, m.req) PROVE StayEffect(l)
  <2>1. m.to \in Server \ {l} /\ m.req \in Requests(l, m.to) /\ m.req.term = 1
    BY DEF CallsOfLeader, Requests, TypeOK, Orphan
  <2> QED
    BY <1>4, <2>1 DEF StayEffect
<1>5. ASSUME NEW j \in Server \ {l}, OnAppendReply(l, j) PROVE StayEffect(l)
  BY <1>5 DEF StayEffect
<1>6. ASSUME NEW o \in Op, ClientStep(o) PROVE StayEffect(l)
  BY <1>6, StayHandler DEF StayEffect
<1>7. CASE UNCHANGED vars
  BY <1>7 DEF vars, Quiet, StayEffect
<1> QED
  BY <1>1, <1>2, <1>3, <1>4, <1>5, <1>6, <1>7 DEF StayStep

(* No role and no term changes.                                            *)
LEMMA StayRoles ==
  ASSUME NEW l \in Server, StayInv(l), StayEffect(l)
  PROVE  RolesStay(l)'
<1>1. ASSUME UNCHANGED roleVars PROVE RolesStay(l)'
  BY <1>1 DEF StayInv, RolesStay, roleVars
<1>2. ASSUME NEW j \in Server \ {l}, NEW req \in Requests(l, j), req.term = 1, OnAppendEntries(j, l, req)
      PROVE  RolesStay(l)'
  <2>1. req \in AppendReq
    BY RequestTypes DEF StayInv
  <2>2. UNCHANGED <<current_term, current_role>> /\ leader_id'[l] = l
    BY <1>2, <2>1, StayHandled
  <2> QED
    BY <2>2 DEF StayInv, RolesStay
<1>3. ASSUME NEW j \in Server \ {l}, OnAppendReply(l, j) PROVE RolesStay(l)'
  BY <1>1, <1>3, StayReply
<1>4. ASSUME NEW o \in Op, Handler(l, o) PROVE RolesStay(l)'
  BY <1>1, <1>4 DEF Handler
<1> QED
  BY <1>1, <1>2, <1>3, <1>4 DEF StayEffect, Quiet

(* Calls stay those of the leader.                                         *)
LEMMA StayCalls ==
  ASSUME NEW l \in Server, StayInv(l), StayStep(l)
  PROVE  CallsOfLeader(l)'
<1> USE DEF StayInv
<1> DEFINE Ok(slot, i, j) ==
      slot.st # "idle" =>
        /\ slot.st \in {"append", "appended"} /\ i = l /\ j # l
        /\ slot.req.term = 1
        /\ slot.st = "appended" => slot.resp.term = 1
    Late(m) == m.kind = "append" /\ m.from = l /\ m.to # l /\ m.req.term = 1
<1>1. /\ \A i, j \in Server : Ok(rpc[i][j], i, j)
      /\ \A m \in orphans : Late(m)
  BY DEF CallsOfLeader
<1>2. ASSUME \A i, j \in Server : Ok(rpc'[i][j], i, j), \A m \in orphans' : Late(m)
      PROVE  CallsOfLeader(l)'
  BY <1>2 DEF CallsOfLeader
<1> DEFINE Slots == \A i, j \in Server : Ok(rpc'[i][j], i, j)
<1>3. ASSUME NEW j \in Server \ {l}, NEW slot, Ok(slot, l, j), rpc' = [rpc EXCEPT ![l][j] = slot]
      PROVE  Slots
  <2> SUFFICES ASSUME NEW a \in Server, NEW b \in Server PROVE Ok(rpc'[a][b], a, b)
    OBVIOUS
  <2>1. rpc'[a][b] = IF a = l /\ b = j THEN slot ELSE rpc[a][b]
    BY <1>3 DEF TypeOK
  <2> HIDE DEF Ok
  <2> QED
    BY <1>1, <1>3, <2>1
<1>4. Ok(Idle, l, l) /\ Idle.st = "idle"
  BY DEF Idle
<1>5. ASSUME NEW i \in Server, Stop(i) PROVE CallsOfLeader(l)'
  <2>1. \A a, b \in Server : rpc'[a][b] = Idle \/ rpc'[a][b] = rpc[a][b]
    BY <1>5 DEF Stop
  <2>2. \A a, b \in Server : Ok(Idle, a, b)
    BY <1>4
  <2>3. \A m \in orphans' : m \in orphans
    BY <1>5 DEF Stop
  <2>4. Slots
    <3> HIDE DEF Ok, Idle
    <3> QED
      BY <1>1, <2>1, <2>2
  <2> QED
    BY <1>1, <1>2, <2>3, <2>4
<1>6. ASSUME NEW j \in Server \ {l}, SendAppendEntries(l, j) PROVE CallsOfLeader(l)'
  <2> DEFINE req == AppendEntriesRequest(l, j)
             slot == [st |-> "append", req |-> req]
  <2>1. rpc' = [rpc EXCEPT ![l][j] = slot] /\ orphans' = orphans
    BY <1>6 DEF SendAppendEntries
  <2>2. req.term = 1
    BY DEF AppendEntriesRequest, RolesStay
  <2>3. Ok(slot, l, j)
    <3> HIDE DEF req
    <3> QED
      BY <2>2
  <2> HIDE DEF slot, Ok
  <2>4. Slots
    BY <1>3, <2>1, <2>3
  <2> QED
    BY <1>1, <1>2, <2>1, <2>4
<1>7. ASSUME NEW j \in Server \ {l}, HandleAppendEntries(l, j) PROVE CallsOfLeader(l)'
  <2> DEFINE req == rpc[l][j].req
             resp == AppendEntriesResponse(j, req)
             slot == [st |-> "appended", req |-> req, resp |-> resp]
  <2>1. rpc' = [rpc EXCEPT ![l][j] = slot] /\ orphans' = orphans
    BY <1>7 DEF HandleAppendEntries
  <2>2. req.term = 1
    BY <1>1, <1>7 DEF HandleAppendEntries
  <2>3. resp.term = 1
    BY DEF AppendEntriesResponse, RolesStay
  <2>4. Ok(slot, l, j)
    <3> HIDE DEF req, resp
    <3> QED
      BY <2>2, <2>3
  <2> HIDE DEF slot, Ok
  <2>5. Slots
    BY <1>3, <2>1, <2>4
  <2> QED
    BY <1>1, <1>2, <2>1, <2>5
<1>8. ASSUME NEW j \in Server \ {l}, OnAppendReply(l, j) \/ LoseCall(l, j) PROVE CallsOfLeader(l)'
  <2>1. rpc' = [rpc EXCEPT ![l][j] = Idle]
    BY <1>8 DEF OnAppendReply, LoseCall
  <2>2. Slots
    BY <1>3, <1>4, <2>1
  <2>3. \A m \in orphans' : Late(m)
    <3> SUFFICES ASSUME NEW m \in orphans', m \notin orphans PROVE Late(m)
      BY <1>1
    <3>1. /\ rpc[l][j].st \in {"vote", "append"}
          /\ m = [kind |-> rpc[l][j].st, from |-> l, to |-> j, req |-> rpc[l][j].req]
      BY <1>8 DEF OnAppendReply, LoseCall
    <3>2. rpc[l][j].st = "append" /\ rpc[l][j].req.term = 1
      BY <1>1, <3>1
    <3> QED
      BY <3>1, <3>2
  <2> QED
    BY <1>2, <2>2, <2>3
<1>9. ASSUME NEW m \in orphans, HandleOrphan(m) PROVE CallsOfLeader(l)'
  <2>1. rpc' = rpc /\ \A n \in orphans' : n \in orphans
    BY <1>9 DEF HandleOrphan
  <2> QED
    BY <1>1, <1>2, <2>1
<1>10. ASSUME UNCHANGED netVars PROVE CallsOfLeader(l)'
  BY <1>1, <1>2, <1>10 DEF netVars
<1>11. ASSUME NEW o \in Op, ClientStep(o) PROVE CallsOfLeader(l)'
  BY <1>10, <1>11, StayHandler DEF Handler
<1>12. CASE UNCHANGED vars
  BY <1>10, <1>12 DEF vars
<1> QED
  BY <1>5, <1>6, <1>7, <1>8, <1>9, <1>11, <1>12 DEF StayStep

(* The leader's log and the handlers.                                      *)
LEMMA StayLog ==
  ASSUME NEW l \in Server, StayInv(l), StayEffect(l)
  PROVE  HandlersAtLeader(l)' /\ LogOfHandlers(l)'
<1> DEFINE Past == {"waiting", "ok", "timeout", "lost"}
           Fits(c, ops, o) == c.pc # "new" =>
             /\ c.at = l /\ c.pc # "dangling"
             /\ c.pc = "waiting" => c.index \in DOMAIN ops /\ ops[c.index].op = o
           Whole(ops, c) == \A k \in DOMAIN ops : ops[k].index = k /\ c[ops[k].op].pc \in Past
<1>1. (\A o \in Op : Fits(call[o], log[l], o)) /\ Whole(log[l], call)
  BY DEF StayInv, HandlersAtLeader, LogOfHandlers
<1>2. ASSUME \A o \in Op : Fits(call'[o], log'[l], o), Whole(log'[l], call')
      PROVE  HandlersAtLeader(l)' /\ LogOfHandlers(l)'
  BY <1>2 DEF HandlersAtLeader, LogOfHandlers
<1>3. log[l] \in Seq(Entry) /\ \A k \in DOMAIN log[l] : log[l][k].op \in Op
  <2>1. log[l] \in Seq(Entry)
    BY LogTypes DEF StayInv
  <2>2. \A k \in DOMAIN log[l] : log[l][k] \in Entry
    BY <2>1
  <2> QED
    BY <2>1, <2>2 DEF Entry
<1>4. ASSUME log'[l] = log[l], call' = call PROVE HandlersAtLeader(l)' /\ LogOfHandlers(l)'
  BY <1>1, <1>2, <1>4
<1>5. CASE Quiet
  <2>1. log' = log
    BY <1>5 DEF Quiet, logVars
  <2>2. ASSUME NEW o \in Op PROVE Fits(call'[o], log[l], o)
    BY <1>1, <1>5, <2>2 DEF Quiet
  <2>3. Whole(log[l], call')
    BY <1>1, <1>3, <1>5 DEF Quiet
  <2> QED
    BY <1>2, <2>1, <2>2, <2>3
<1>6. ASSUME NEW j \in Server \ {l}, NEW req \in Requests(l, j), req.term = 1, OnAppendEntries(j, l, req)
      PROVE  HandlersAtLeader(l)' /\ LogOfHandlers(l)'
  <2>1. req \in AppendReq
    BY RequestTypes DEF StayInv
  <2>2. call' = call /\ log' = [log EXCEPT ![j] = LogAfter(j, req)]
    BY <1>6, <2>1, StayHandled
  <2>3. log'[l] = log[l]
    BY <2>2 DEF StayInv, TypeOK
  <2> QED
    BY <1>4, <2>2, <2>3
<1>7. ASSUME NEW j \in Server \ {l}, OnAppendReply(l, j) PROVE HandlersAtLeader(l)' /\ LogOfHandlers(l)'
  BY <1>4, <1>7, StayReply
<1>8. ASSUME NEW o \in Op, Handler(l, o) PROVE HandlersAtLeader(l)' /\ LogOfHandlers(l)'
  <2>1. (\A p \in Op : p # o => call'[p] = call[p]) /\ call'[o].at = l
    BY <1>8 DEF Handler
  <2>2. CASE /\ call[o].pc = "stamped" /\ call'[o].pc = "waiting" /\ call'[o].index = Len(log[l]) + 1
             /\ NewEntry(o) \in Entry /\ NewEntry(o).op = o /\ NewEntry(o).index = Len(log[l]) + 1
             /\ log' = [log EXCEPT ![l] = Append(@, NewEntry(o))]
    <3> DEFINE e == NewEntry(o)
               ops == Append(log[l], e)
    <3>1. log'[l] = ops
      BY <2>2 DEF StayInv, TypeOK
    <3> HIDE DEF e
    <3>2. /\ DOMAIN ops = 1..(Len(log[l]) + 1) /\ DOMAIN log[l] = 1..Len(log[l]) /\ Len(log[l]) \in Nat
          /\ \A k \in DOMAIN log[l] : ops[k] = log[l][k]
          /\ ops[Len(log[l]) + 1] = e
      BY <1>3, <2>2 DEF e
    <3> HIDE DEF ops
    <3>3. e.op = o /\ e.index = Len(log[l]) + 1
      BY <2>2 DEF e
    <3>4. ASSUME NEW p \in Op PROVE Fits(call'[p], ops, p)
      <4>1. CASE p = o
        BY <2>1, <2>2, <3>2, <3>3, <4>1
      <4>2. CASE p # o
        BY <1>1, <2>1, <3>2, <4>2
      <4> QED
        BY <4>1, <4>2
    <3>5. ASSUME NEW k \in DOMAIN ops PROVE ops[k].index = k /\ call'[ops[k].op].pc \in Past
      <4>1. CASE k = Len(log[l]) + 1
        BY <2>2, <3>2, <3>3, <4>1
      <4>2. CASE k # Len(log[l]) + 1
        <5>1. k \in DOMAIN log[l]
          BY <3>2, <4>2
        <5>2. ops[k].index = k /\ call[ops[k].op].pc \in Past /\ ops[k].op \in Op
          BY <1>1, <1>3, <3>2, <5>1
        <5>3. ops[k].op # o
          BY <2>2, <5>2
        <5> QED
          BY <2>1, <5>2, <5>3
      <4> QED
        BY <4>1, <4>2
    <3> QED
      BY <1>2, <3>1, <3>4, <3>5
  <2>3. CASE log' = log /\ \/ call[o].pc \in {"new", "leader", "known"} /\ call'[o].pc \in {"leader", "known", "stamped"}
                           \/ call[o].pc = "waiting" /\ call'[o].pc \in {"ok", "timeout"}
    <3>1. ASSUME NEW p \in Op PROVE Fits(call'[p], log[l], p)
      BY <1>1, <2>1, <2>3
    <3>2. ASSUME NEW k \in DOMAIN log[l] PROVE log[l][k].index = k /\ call'[log[l][k].op].pc \in Past
      <4>1. log[l][k].index = k /\ call[log[l][k].op].pc \in Past /\ log[l][k].op \in Op
        BY <1>1, <1>3
      <4> QED
        BY <2>1, <2>3, <4>1
    <3> QED
      BY <1>2, <2>3, <3>1, <3>2
  <2> QED
    BY <1>8, <2>2, <2>3 DEF Handler
<1> QED
  BY <1>5, <1>6, <1>7, <1>8 DEF StayEffect

(* The invariant is inductive.                                             *)
LEMMA StayInvariant ==
  ASSUME MaxTerm = 1, NEW l \in Server, StayInv(l), [Next /\ NoRestart]_vars
  PROVE  StayInv(l)'
<1>1. StayStep(l)
  BY StaySteps
<1>2. StayEffect(l)
  BY <1>1, StayEffects
<1>3. TypeOK'
  BY TypeStep DEF StayInv
<1>4. RolesStay(l)' /\ CallsOfLeader(l)' /\ HandlersAtLeader(l)' /\ LogOfHandlers(l)'
  BY <1>1, <1>2, StayRoles, StayCalls, StayLog
<1> QED
  BY <1>3, <1>4 DEF StayInv

-----------------------------------------------------------------------------
(* Commit indexes under a leader that stays: nobody's is ahead of its, and *)
(* its own is within its log.                                              *)
CommitsFollow(l) ==
  /\ last_commited_index[l] <= Len(log[l])
  /\ \A s \in Server : last_commited_index[s] <= last_commited_index[l]
  /\ \A j \in Server : \A req \in Requests(l, j) :
       req.leader_commit_index <= last_commited_index[l]

(* Under the invariant, commit indexes are numbers.                        *)
LEMMA CommitIndexes ==
  ASSUME NEW l \in Server, TypeOK, CommitsFollow(l)
  PROVE  /\ CommitIndex(l) = last_commited_index[l] /\ CommitIndex(l) <= Len(log[l])
         /\ \A s \in Server : CommitIndex(s) \in Nat /\ CommitIndex(s) <= CommitIndex(l)
         /\ Len(log[l]) \in Nat
<1>1. \A s \in Server : log[s] \in Seq(Entry) /\ last_commited_index[s] \in Nat
  BY LogTypes
<1>2. Len(log[l]) \in Nat /\ (log[l] = <<>> => Len(log[l]) = 0)
  BY <1>1
<1>3. CommitIndex(l) = last_commited_index[l]
  BY <1>1, <1>2 DEF CommitsFollow, CommitIndex, GetLastCommitIndex
<1>4. \A s \in Server : CommitIndex(s) \in Nat /\ CommitIndex(s) <= last_commited_index[s]
  BY <1>1 DEF CommitIndex, GetLastCommitIndex
<1>5. \A s \in Server : CommitIndex(s) <= CommitIndex(l)
  BY <1>1, <1>3, <1>4 DEF CommitsFollow
<1> QED
  BY <1>2, <1>3, <1>4, <1>5 DEF CommitsFollow

(* The last index of a log without holes is its length.                    *)
LEMMA LastIsLength ==
  ASSUME NEW l \in Server, StayInv(l)
  PROVE  GetLastLogIndex(log[l]) = Len(log[l]) /\ Len(log[l]) \in Nat
<1>1. log[l] \in Seq(Entry)
  BY LogTypes DEF StayInv
<1>2. log[l] # <<>> => Len(log[l]) \in DOMAIN log[l]
  BY <1>1
<1> QED
  BY <1>1, <1>2 DEF StayInv, LogOfHandlers, GetLastLogIndex

(* One commit index changes in a step, if any, and within its bound.       *)
CommitMove(l, s) ==
  /\ \A r \in Server \ {s} : last_commited_index'[r] = last_commited_index[r]
                             /\ CommitIndex(r)' = CommitIndex(r)
  /\ CommitIndex(s)' >= CommitIndex(s)
  /\ last_commited_index'[s] <= IF s = l THEN Len(log[l]) ELSE last_commited_index[l]

(* The commit index of a server whose log and index stay, stays.           *)
LEMMA SameCommit ==
  ASSUME NEW s \in Server, log'[s] = log[s], last_commited_index'[s] = last_commited_index[s]
  PROVE  CommitIndex(s)' = CommitIndex(s)
BY DEF CommitIndex

(* A follower moves its commit index to what a request says.               *)
LEMMA FollowerMoves ==
  ASSUME NEW l \in Server, StayInv(l), CommitsFollow(l), NEW j \in Server \ {l},
         NEW req \in Requests(l, j), req.term = 1, OnAppendEntries(j, l, req), TypeOK'
  PROVE  CommitMove(l, j) /\ log'[l] = log[l]
<1>1. req \in AppendReq /\ req.leader_commit_index \in Nat
  BY RequestTypes DEF StayInv, AppendReq
<1>2. PICK c \in CommitsAfter(j, req) :
        /\ log' = [log EXCEPT ![j] = LogAfter(j, req)]
        /\ last_commited_index' = [last_commited_index EXCEPT ![j] = c]
  BY <1>1, StayHandled
<1>3. \A r \in Server \ {j} : log'[r] = log[r] /\ last_commited_index'[r] = last_commited_index[r]
  BY <1>2 DEF StayInv, TypeOK
<1>4. last_commited_index'[j] = c
  BY <1>2 DEF StayInv, TypeOK
<1>5. c \in {last_commited_index[j], req.leader_commit_index}
  BY DEF CommitsAfter, SetLastCommitIndex
<1>6. c <= last_commited_index[l]
  BY <1>5 DEF CommitsFollow
<1>7. CommitIndex(j)' >= CommitIndex(j)
  <2>1. CASE log[j] = <<>>
    <3>1. CommitIndex(j) = 0
      BY <2>1 DEF CommitIndex, GetLastCommitIndex
    <3>2. CommitIndex(j)' \in {0, last_commited_index'[j]} /\ last_commited_index'[j] \in Nat
      BY DEF CommitIndex, GetLastCommitIndex, TypeOK
    <3> QED
      BY <3>1, <3>2
  <2>2. CASE log[j] # <<>>
    <3>1. last_commited_index'[j] >= last_commited_index[j]
      BY <1>1, <2>2, RequestKeepsCommit DEF StayInv
    <3>2. log'[j] # <<>>
      <4>1. log[j] \in Seq(Entry) /\ req.entries \in Seq(Entry)
        BY <1>1, LogTypes DEF StayInv, AppendReq
      <4>2. LogAfter(j, req) # <<>>
        BY <2>2, <4>1, AppendBatchLast DEF LogAfter
      <4> QED
        BY <1>2, <4>2 DEF StayInv, TypeOK
    <3> QED
      BY <2>2, <3>1, <3>2 DEF CommitIndex, GetLastCommitIndex
  <2> QED
    BY <2>1, <2>2
<1>8. \A r \in Server \ {j} : CommitIndex(r)' = CommitIndex(r)
  BY <1>3, SameCommit
<1> QED
  BY <1>3, <1>4, <1>6, <1>7, <1>8 DEF CommitMove

(* What counts makes the leader go on to an entry of its log.              *)
LEMMA LeaderMoves ==
  ASSUME NEW l \in Server, StayInv(l), CommitsFollow(l), NEW j \in Server, OnAppendReply(l, j),
         TypeOK'
  PROVE  CommitMove(l, l) /\ log' = log
<1> DEFINE C == last_commited_index[l]
<1>1. log' = log /\ \A s \in Server : s # l => last_commited_index'[s] = last_commited_index[s]
  BY ReplyFrame DEF StayInv
<1>2. \/ UNCHANGED last_commited_index
      \/ rpc[l][j].st = "appended" /\ Acknowledge(l, j, rpc[l][j].req.entries)
  BY StayReply
<1>3. CommitIndex(l) = C /\ C \in Nat /\ C <= Len(log[l])
  BY CommitIndexes DEF StayInv
<1>4. last_commited_index'[l] >= C /\ last_commited_index'[l] <= Len(log[l])
  <2>1. CASE UNCHANGED last_commited_index
    BY <1>3, <2>1, LastIsLength
  <2>2. CASE rpc[l][j].st = "appended" /\ Acknowledge(l, j, rpc[l][j].req.entries)
    <3> DEFINE es == rpc[l][j].req.entries
    <3>1. es \in Seq(Entry)
      BY <2>2, SlotTypes DEF StayInv, AppendReq
    <3>2. \/ last_commited_index'[l] = C
          \/ last_commited_index'[l] > CommitIndex(l)
      BY <2>2, <3>1, AcknowledgeRaisesCommit DEF StayInv
    <3>3. \/ UNCHANGED last_commited_index
          \/ \E x : last_commited_index' =
                      [last_commited_index EXCEPT ![l] = SetLastCommitIndex(log[l], @, x)]
      BY <2>2 DEF Acknowledge
    <3>4. last_commited_index'[l] = C \/ last_commited_index'[l] <= GetLastLogIndex(log[l])
      BY <3>3 DEF SetLastCommitIndex, StayInv, TypeOK
    <3>5. last_commited_index'[l] \in Nat
      BY DEF TypeOK
    <3> QED
      BY <1>3, <3>2, <3>4, <3>5, LastIsLength
  <2> QED
    BY <1>2, <2>1, <2>2
<1>5. CommitIndex(l)' >= CommitIndex(l)
  <2>1. log[l] = <<>> => C = 0
    BY <1>3
  <2> QED
    BY <1>1, <1>3, <1>4 DEF CommitIndex, GetLastCommitIndex
<1>6. \A r \in Server \ {l} : CommitIndex(r)' = CommitIndex(r)
  BY <1>1, SameCommit
<1> QED
  BY <1>1, <1>4, <1>5, <1>6 DEF CommitMove

(* Whose commit index moves.                                               *)
LEMMA StayMoves ==
  ASSUME NEW l \in Server, StayInv(l), CommitsFollow(l), StayEffect(l), TypeOK'
  PROVE  /\ \E s \in Server : CommitMove(l, s)
         /\ \/ log'[l] = log[l]
            \/ last_commited_index' = last_commited_index /\ \E o \in Op : Handler(l, o)
         /\ Len(log'[l]) >= Len(log[l])
<1>1. ASSUME UNCHANGED last_commited_index, \A s \in Server : CommitIndex(s)' = CommitIndex(s)
      PROVE  CommitMove(l, l)
  BY <1>1, CommitIndexes DEF CommitMove, StayInv
<1>2. ASSUME NEW j \in Server \ {l}, NEW req \in Requests(l, j), req.term = 1, OnAppendEntries(j, l, req)
      PROVE  CommitMove(l, j) /\ log'[l] = log[l]
  BY <1>2, FollowerMoves
<1>3. ASSUME NEW j \in Server \ {l}, OnAppendReply(l, j) PROVE CommitMove(l, l) /\ log'[l] = log[l]
  BY <1>3, LeaderMoves
<1>4. ASSUME Quiet PROVE CommitMove(l, l) /\ log'[l] = log[l]
  <2>1. UNCHANGED logVars
    BY <1>4 DEF Quiet
  <2>2. \A s \in Server : CommitIndex(s)' = CommitIndex(s)
    BY <2>1, SameCommit DEF logVars
  <2> QED
    BY <1>1, <2>1, <2>2 DEF logVars
<1>5. ASSUME NEW o \in Op, Handler(l, o)
      PROVE  CommitMove(l, l) /\ last_commited_index' = last_commited_index /\ Len(log'[l]) >= Len(log[l])
  <2>1. last_commited_index' = last_commited_index
    BY <1>5 DEF Handler
  <2>2. log[l] \in Seq(Entry) /\ Len(log[l]) \in Nat /\ last_commited_index[l] \in Nat
    BY LogTypes DEF StayInv
  <2>3. CASE log' = log
    <3>1. \A s \in Server : CommitIndex(s)' = CommitIndex(s)
      BY <2>1, <2>3, SameCommit
    <3> QED
      BY <1>1, <2>1, <2>2, <2>3, <3>1
  <2>4. CASE NewEntry(o) \in Entry /\ log' = [log EXCEPT ![l] = Append(@, NewEntry(o))]
    <3>1. log'[l] = Append(log[l], NewEntry(o)) /\ \A s \in Server \ {l} : log'[s] = log[s]
      BY <2>4 DEF StayInv, TypeOK
    <3>2. Len(log'[l]) = Len(log[l]) + 1 /\ log'[l] # <<>>
      BY <2>2, <2>4, <3>1
    <3>3. CommitIndex(l) = last_commited_index[l]
      BY CommitIndexes DEF StayInv
    <3>4. CommitIndex(l)' = CommitIndex(l)
      BY <2>1, <3>2, <3>3 DEF CommitIndex, GetLastCommitIndex
    <3>5. \A s \in Server : CommitIndex(s)' = CommitIndex(s)
      BY <2>1, <3>1, <3>4, SameCommit
    <3> QED
      BY <1>1, <2>1, <2>2, <3>2, <3>5
  <2> QED
    BY <1>5, <2>3, <2>4 DEF Handler
<1>6. Len(log[l]) \in Nat
  BY CommitIndexes DEF StayInv
<1> QED
  BY <1>2, <1>3, <1>4, <1>5, <1>6 DEF StayEffect

(* No server and no request gets ahead of the leader.                      *)
LEMMA CommitsFollowStep ==
  ASSUME MaxTerm = 1, NEW l \in Server, StayInv(l), CommitsFollow(l), [Next /\ NoRestart]_vars
  PROVE  CommitsFollow(l)'
<1>1. StayEffect(l) /\ TypeOK'
  BY StaySteps, StayEffects, TypeStep DEF StayInv
<1>2. PICK s \in Server : CommitMove(l, s)
  BY <1>1, StayMoves
<1>3. Len(log'[l]) >= Len(log[l]) /\ Len(log[l]) \in Nat /\ Len(log'[l]) \in Nat
  <2>1. log'[l] \in Seq(Entry)
    BY <1>1 DEF TypeOK
  <2> QED
    BY <1>1, <2>1, StayMoves, CommitIndexes DEF StayInv
<1>4. \A r \in Server : last_commited_index[r] \in Nat /\ last_commited_index'[r] \in Nat
  BY <1>1 DEF StayInv, TypeOK
<1>5. CommitIndex(l) = last_commited_index[l] /\ CommitIndex(l)' <= last_commited_index'[l]
  <2>1. CommitIndex(l)' \in {0, last_commited_index'[l]}
    BY DEF CommitIndex, GetLastCommitIndex
  <2> QED
    BY <1>4, <2>1, CommitIndexes DEF StayInv
<1>6. last_commited_index'[l] >= last_commited_index[l] /\ last_commited_index'[l] <= Len(log'[l])
  <2>0. CommitIndex(l)' \in Nat
    BY <1>4 DEF CommitIndex, GetLastCommitIndex
  <2>1. CASE s = l
    BY <1>2, <1>3, <1>4, <1>5, <2>0, <2>1 DEF CommitMove
  <2>2. CASE s # l
    BY <1>2, <1>3, <1>4, <2>2 DEF CommitMove, CommitsFollow
  <2> QED
    BY <2>1, <2>2
<1>7. \A r \in Server : last_commited_index'[r] <= last_commited_index'[l]
  BY <1>2, <1>4, <1>6 DEF CommitMove, CommitsFollow
<1>8. ASSUME NEW j \in Server, NEW req \in Requests(l, j)'
      PROVE  req.leader_commit_index <= last_commited_index'[l]
  <2>1. req.leader_commit_index <= last_commited_index[l] /\ req.leader_commit_index \in Nat
    <3>1. CASE req \in Requests(l, j)
      BY <3>1, RequestTypes DEF CommitsFollow, StayInv, AppendReq
    <3>2. CASE req = AppendEntriesRequest(l, j)
      <4>1. req.leader_commit_index = CommitIndex(l)
        BY <3>2 DEF AppendEntriesRequest
      <4> QED
        BY <1>4, <1>5, <4>1
    <3> QED
      BY <3>1, <3>2, RequestsStep DEF StayInv
  <2> QED
    BY <1>4, <1>6, <2>1
<1> QED
  BY <1>6, <1>7, <1>8 DEF CommitsFollow
-----------------------------------------------------------------------------
(* The state of CommitLog *)

Taken == [k \in DOMAIN log[Leader1] |-> log[Leader1][k].op]
Committed == [s \in Server |-> CommitIndex(s)]
AnswerOf(o) == IF call[o].pc \in {"ok", "timeout"} THEN call[o].pc ELSE "none"
Answered == [o \in Op |-> AnswerOf(o)]

(* A step that CommitLog allows, or that it does not see.                  *)
Promised == Commits!Next \/ UNCHANGED Commits!vars

(* What a commit index that moves within its bound is to CommitLog.        *)
LEMMA MoveIsPromised ==
  ASSUME StayInv(Leader1), CommitsFollow(Leader1), NEW s \in Server, CommitMove(Leader1, s),
         TypeOK', log'[Leader1] = log[Leader1], Answered' = Answered
  PROVE  Promised
<1> DEFINE l == Leader1
<1>0. l \in Server
  BY DEF StayInv, RolesStay
<1>1. Taken' = Taken
  BY <1>0 DEF Taken
<1>2. /\ CommitIndex(l) = last_commited_index[l] /\ CommitIndex(l) <= Len(log[l])
      /\ \A r \in Server : CommitIndex(r) \in Nat /\ Len(log[l]) \in Nat
  BY <1>0, CommitIndexes DEF StayInv
<1>3. \A r \in Server \ {s} : CommitIndex(r)' = CommitIndex(r)
  BY DEF CommitMove
<1>4. CASE CommitIndex(s)' = CommitIndex(s)
  <2>1. \A r \in Server : CommitIndex(r)' = CommitIndex(r)
    BY <1>3, <1>4
  <2>2. Committed' = Committed
    BY <2>1 DEF Committed
  <2> QED
    BY <1>1, <2>2 DEF Promised, Commits!vars, Taken, Committed, Answered, AnswerOf
<1>5. CASE CommitIndex(s)' # CommitIndex(s)
  <2> DEFINE k == CommitIndex(s)'
             bound == IF s = l THEN Len(Taken) ELSE Committed[l]
  <2>1. k \in Nat /\ k <= last_commited_index'[s] /\ last_commited_index'[s] \in Nat
    BY DEF CommitIndex, GetLastCommitIndex, TypeOK
  <2>2. Len(Taken) = Len(log[l]) /\ DOMAIN log[l] = 1..Len(log[l])
    <3>1. log[l] \in Seq(Entry)
      BY <1>0, LogTypes DEF StayInv
    <3>2. Taken = [i \in 1..Len(log[l]) |-> log[l][i].op]
      BY <3>1 DEF Taken
    <3> QED
      BY <1>2, <1>0, <3>1, <3>2
  <2>3. last_commited_index'[s] <= bound
    BY <1>0, <1>2, <2>2 DEF CommitMove, Committed
  <2>4. bound \in Nat
    BY <1>0, <1>2, <2>2 DEF Committed
  <2>5. k > CommitIndex(s) /\ CommitIndex(s) \in Nat
    BY <1>2, <1>5, <2>1 DEF CommitMove
  <2>6. Committed[s] = CommitIndex(s)
    BY DEF Committed
  <2>7. k \in (Committed[s] + 1)..bound
    <3> HIDE DEF k, bound
    <3> QED
      BY <2>1, <2>3, <2>4, <2>5, <2>6
  <2>8. Committed' = [Committed EXCEPT ![s] = k]
    BY <1>3 DEF Committed
  <2>9. Commits!Commit(s)
    <3>1. Taken' = Taken /\ Answered' = Answered
      BY <1>1
    <3> HIDE DEF k
    <3> QED
      BY <2>7, <2>8, <3>1 DEF Commits!Commit, Taken, Committed, Answered, AnswerOf
  <2> QED
    BY <2>9 DEF Promised, Commits!Next
<1> QED
  BY <1>4, <1>5

(* An append to the leader's log is an Accept.                             *)
LEMMA AppendIsPromised ==
  ASSUME StayInv(Leader1), NEW o \in Op, Answered' = Answered, Committed' = Committed,
         call[o].pc = "stamped", NewEntry(o) \in Entry, NewEntry(o).op = o,
         log' = [log EXCEPT ![Leader1] = Append(@, NewEntry(o))]
  PROVE  Promised
<1> DEFINE l == Leader1
           n == Len(log[l])
<1>0. l \in Server
  BY DEF StayInv, RolesStay
<1>1. log[l] \in Seq(Entry) /\ n \in Nat /\ DOMAIN log[l] = 1..n
  BY <1>0, LogTypes DEF StayInv
<1>2. log'[l] = Append(log[l], NewEntry(o))
  BY <1>0 DEF StayInv, TypeOK
<1>3. \A k \in DOMAIN log[l] : log[l][k].op # o /\ log[l][k].op \in Op
  <2>1. \A k \in DOMAIN log[l] : log[l][k] \in Entry
    BY <1>1
  <2>2. \A k \in DOMAIN log[l] : call[log[l][k].op].pc # "stamped"
    BY DEF StayInv, LogOfHandlers
  <2> QED
    BY <2>1, <2>2 DEF Entry
<1>4. Taken = [k \in 1..n |-> log[l][k].op] /\ Taken \in Seq(Op) /\ Len(Taken) = n
  <2>1. Taken = [k \in 1..n |-> log[l][k].op]
    BY <1>1 DEF Taken
  <2>2. Taken \in Seq(Op)
    BY <1>1, <1>3, <2>1
  <2> QED
    BY <1>1, <2>1, <2>2
<1>5. Taken' = Append(Taken, o)
  <2>1. DOMAIN log'[l] = 1..(n + 1)
    BY <1>1, <1>2
  <2>2. Taken' = [k \in 1..(n + 1) |-> log'[l][k].op]
    BY <2>1 DEF Taken
  <2>3. \A k \in 1..n : log'[l][k] = log[l][k]
    BY <1>1, <1>2
  <2>4. log'[l][n + 1] = NewEntry(o)
    BY <1>1, <1>2
  <2> DEFINE new == Append(Taken, o)
  <2>5. new = [k \in 1..(n + 1) |-> IF k = n + 1 THEN o ELSE Taken[k]]
    BY <1>1, <1>4
  <2>6. \A k \in 1..(n + 1) : log'[l][k].op = IF k = n + 1 THEN o ELSE Taken[k]
    BY <1>1, <1>4, <2>3, <2>4
  <2> HIDE DEF new
  <2>7. Taken' = new
    BY <2>2, <2>5, <2>6
  <2> QED
    BY <2>7 DEF new
<1>6. \A k \in DOMAIN Taken : Taken[k] # o
  BY <1>1, <1>3, <1>4
<1>7. Commits!Accept(o)
  BY <1>5, <1>6 DEF Commits!Accept, Taken, Committed, Answered, AnswerOf
<1> QED
  BY <1>7 DEF Promised, Commits!Next

(* An answer to a client is an Answer.                                     *)
LEMMA AnswerIsPromised ==
  ASSUME StayInv(Leader1), NEW o \in Op, Taken' = Taken, Committed' = Committed,
         call[o].pc = "waiting", \A p \in Op : p # o => call'[p] = call[p],
         call'[o].pc = (IF call[o].index <= CommitIndex(Leader1) THEN "ok" ELSE "timeout")
  PROVE  Promised
<1> DEFINE k == call[o].index
<1>0. Leader1 \in Server
  BY DEF StayInv, RolesStay
<1>1. k \in DOMAIN Taken /\ Taken[k] = o
  BY DEF StayInv, HandlersAtLeader, Taken
<1>2. Answered[o] = "none" /\ Committed[Leader1] = CommitIndex(Leader1)
  BY <1>0 DEF Answered, AnswerOf, Committed
<1>3. Answered' = [Answered EXCEPT ![o] = IF k <= Committed[Leader1] THEN "ok" ELSE "timeout"]
  <2>1. \A p \in Op : AnswerOf(p)' = IF p = o THEN call'[o].pc ELSE AnswerOf(p)
    BY DEF AnswerOf
  <2> QED
    BY <1>2, <2>1 DEF Answered
<1>4. Commits!Answer(o)
  BY <1>1, <1>2, <1>3 DEF Commits!Answer, Taken, Committed, Answered, AnswerOf
<1> QED
  BY <1>4 DEF Promised, Commits!Next

(* Every step is one that CommitLog allows.                                *)
LEMMA StepIsPromised ==
  ASSUME StayInv(Leader1), CommitsFollow(Leader1), StayEffect(Leader1), TypeOK'
  PROVE  Promised
<1> DEFINE l == Leader1
<1>0. l \in Server
  BY DEF StayInv, RolesStay
<1>1. PICK s \in Server : CommitMove(l, s)
  BY <1>0, StayMoves
<1>2. CASE log'[l] = log[l] /\ Answered' = Answered
  BY <1>1, <1>2, MoveIsPromised
<1>3. ASSUME NEW o \in Op, Handler(l, o), ~(log'[l] = log[l] /\ Answered' = Answered)
      PROVE  Promised
  <2>1. Committed' = Committed
    <3>1. last_commited_index' = last_commited_index /\ \A r \in Server \ {l} : log'[r] = log[r]
      BY <1>0, <1>3 DEF Handler, StayInv, TypeOK
    <3>2. \A r \in Server \ {l} : CommitIndex(r)' = CommitIndex(r)
      BY <3>1, SameCommit
    <3>3. CommitIndex(l)' = CommitIndex(l)
      <4>1. CommitIndex(l) = last_commited_index[l] /\ last_commited_index[l] \in Nat
        BY <1>0, CommitIndexes DEF StayInv, TypeOK
      <4>2. CommitIndex(l)' \in {0, last_commited_index'[l]}
        BY DEF CommitIndex, GetLastCommitIndex
      <4>3. log[l] # <<>> => CommitIndex(l)' = CommitIndex(l)
        <5>1. log[l] # <<>> => log'[l] # <<>>
          <6>1. CASE log' = log
            BY <6>1
          <6>2. CASE NewEntry(o) \in Entry /\ log' = [log EXCEPT ![l] = Append(@, NewEntry(o))]
            <7>1. log'[l] = Append(log[l], NewEntry(o)) /\ log[l] \in Seq(Entry)
              BY <1>0, <6>2, LogTypes DEF StayInv, TypeOK
            <7> QED
              BY <6>2, <7>1
          <6> QED
            BY <1>3, <6>1, <6>2 DEF Handler
        <5> QED
          BY <3>1, <4>1, <5>1 DEF CommitIndex, GetLastCommitIndex
      <4>4. log[l] = <<>> => last_commited_index[l] = 0
        BY <4>1 DEF CommitIndex, GetLastCommitIndex
      <4> QED
        BY <3>1, <4>1, <4>2, <4>3, <4>4
    <3> QED
      BY <3>2, <3>3 DEF Committed
  <2>2. \A p \in Op : p # o => call'[p] = call[p]
    BY <1>3 DEF Handler
  <2>3. CASE call[o].pc = "waiting"
    <3>1. log' = log
      BY <1>3, <2>3 DEF Handler
    <3>2. Taken' = Taken
      BY <3>1 DEF Taken
    <3> QED
      BY <1>3, <2>1, <2>2, <2>3, <3>2, AnswerIsPromised DEF Handler
  <2>4. CASE call[o].pc # "waiting"
    <3>1. Answered' = Answered
      <4>1. call[o].pc \notin {"ok", "timeout"} /\ call'[o].pc \notin {"ok", "timeout"}
        BY <1>3, <2>4 DEF Handler
      <4>2. \A p \in Op : AnswerOf(p)' = AnswerOf(p)
        BY <2>2, <4>1 DEF AnswerOf
      <4> QED
        BY <4>2 DEF Answered
    <3>2. log'[l] # log[l]
      BY <1>3, <3>1
    <3>3. /\ call[o].pc = "stamped" /\ NewEntry(o) \in Entry /\ NewEntry(o).op = o
          /\ log' = [log EXCEPT ![l] = Append(@, NewEntry(o))]
      BY <1>3, <3>2 DEF Handler
    <3> QED
      BY <2>1, <3>1, <3>3, AppendIsPromised
  <2> QED
    BY <2>3, <2>4
<1>4. ASSUME UNCHANGED log[l], \A p \in Op : AnswerOf(p)' = AnswerOf(p) PROVE Promised
  BY <1>2, <1>4 DEF Answered
<1>5. CASE Quiet
  <2>1. log' = log
    BY <1>5 DEF Quiet, logVars
  <2>2. \A p \in Op : AnswerOf(p)' = AnswerOf(p)
    BY <1>5 DEF Quiet, AnswerOf
  <2> QED
    BY <1>4, <2>1, <2>2
<1>6. ASSUME NEW j \in Server \ {l}, NEW req \in Requests(l, j), req.term = 1, OnAppendEntries(j, l, req)
      PROVE  Promised
  <2>1. req \in AppendReq
    BY <1>0, RequestTypes DEF StayInv
  <2>2. call' = call
    BY <1>0, <1>6, <2>1, StayHandled
  <2>3. log'[l] = log[l]
    BY <1>0, <1>6, FollowerMoves
  <2> QED
    BY <1>4, <2>2, <2>3 DEF AnswerOf
<1>7. ASSUME NEW j \in Server \ {l}, OnAppendReply(l, j) PROVE Promised
  <2>1. log' = log /\ call' = call
    BY <1>0, <1>7, StayReply
  <2> QED
    BY <1>4, <2>1 DEF AnswerOf
<1> QED
  BY <1>2, <1>3, <1>5, <1>6, <1>7 DEF StayEffect

(* The invariants hold when the leader has just won.                       *)
LEMMA LedInit1 ==
  ASSUME LedBy(Leader1), MaxTerm = 1
  PROVE  /\ StayInv(Leader1) /\ CommitsFollow(Leader1)
         /\ \A i, j \in Server : Requests(i, j) = {} /\ rpc[i][j].st = "idle"
<1> DEFINE l == Leader1
<1>1. l \in Server /\ vote_pool \in [Server -> SUBSET Server]
  BY DEF LedBy
<1>2. \A i, j \in Server : rpc[i][j] = Idle /\ Idle.st = "idle"
  BY DEF LedBy, Idle
<1>3. \A i, j \in Server : Requests(i, j) = {} /\ rpc[i][j].st = "idle"
  BY <1>2 DEF LedBy, Requests
<1>4. TypeOK
  <2>1. 1 \in 0..MaxTerm /\ 1 \in Term
    BY DEF Term
  <2>2. rpc \in [Server -> [Server -> Slot]]
    BY DEF LedBy, Slot, Idle
  <2>3. call \in [Op -> CallState]
    BY DEF LedBy, CallState
  <2>4. log \in [Server -> Seq(Entry)]
    BY DEF LedBy
  <2>5. /\ current_role \in [Server -> Role] /\ current_term \in [Server -> 0..MaxTerm]
        /\ \A i \in Server : current_term[i] \in Term
    BY <2>1 DEF LedBy, Role
  <2>6. /\ up \in [Server -> BOOLEAN] /\ leader_id \in [Server -> Server \cup {None}]
        /\ vote_for \in [Server -> [Term -> Server \cup {None}]]
        /\ last_commited_index \in [Server -> Nat] /\ next_index \in [Server -> [Server -> Nat]]
        /\ pending_entries \in [Server -> SUBSET (Nat \X Server)]
        /\ orphans \in SUBSET Orphan /\ crashes \in Nat
    BY <1>1 DEF LedBy
  <2> QED
    BY <1>1, <2>2, <2>3, <2>4, <2>5, <2>6 DEF TypeOK
<1>5. RolesStay(l) /\ CallsOfLeader(l)
  BY <1>1, <1>3 DEF LedBy, RolesStay, CallsOfLeader
<1>6. HandlersAtLeader(l) /\ LogOfHandlers(l)
  <2>1. \A o \in Op : call[o].pc = "new"
    BY DEF LedBy, NewCall
  <2>2. DOMAIN log[l] = {}
    BY <1>1 DEF LedBy
  <2> QED
    BY <2>1, <2>2 DEF HandlersAtLeader, LogOfHandlers
<1>7. CommitsFollow(l)
  BY <1>1, <1>3 DEF LedBy, CommitsFollow
<1> QED
  BY <1>3, <1>4, <1>5, <1>6, <1>7 DEF StayInv

(* Where no term follows the first, whoever leads it leads for good,       *)
(* whatever crashes, is lost or is handled late.                           *)
StaySpec == LedBy(Leader1) /\ [][Next /\ NoRestart]_vars

(* Under a leader that stays, what servers call committed and what clients *)
(* are answered is a log of operations taken one after the other, for any  *)
(* number of servers and operations, whatever calls are lost, repeated or  *)
(* handled late and whoever crashes.                                       *)
THEOREM CommitLogImplemented ==
  ASSUME MaxTerm = 1
  PROVE  StaySpec => ImplementsCommitLog
<1>1. LedBy(Leader1) => StayInv(Leader1) /\ CommitsFollow(Leader1)
  BY LedInit1
<1>2. StayInv(Leader1) /\ CommitsFollow(Leader1) /\ [Next /\ NoRestart]_vars
        => StayInv(Leader1)' /\ CommitsFollow(Leader1)'
  BY StayInvariant, CommitsFollowStep DEF StayInv, RolesStay
<1>3. LedBy(Leader1) => Commits!Init
  BY LedInit1 DEF LedBy, Commits!Init, CommitIndex, GetLastCommitIndex, NewCall, StayInv, RolesStay
<1>4. StayInv(Leader1) /\ CommitsFollow(Leader1) /\ [Next /\ NoRestart]_vars
        => [Commits!Next]_(Commits!vars)
  <2> SUFFICES ASSUME StayInv(Leader1), CommitsFollow(Leader1), [Next /\ NoRestart]_vars
               PROVE  [Commits!Next]_(Commits!vars)
    OBVIOUS
  <2>1. StayEffect(Leader1) /\ TypeOK'
    BY StaySteps, StayEffects, TypeStep DEF StayInv, RolesStay
  <2> QED
    BY <2>1, StepIsPromised DEF Promised
<1> QED
  BY <1>1, <1>2, <1>3, <1>4, PTL DEF StaySpec, ImplementsCommitLog, Commits!Spec
-----------------------------------------------------------------------------
(* Empty logs under a leader that stays: a next_index beyond 1 is that of  *)
(* a remote that has answered for an entry, and so is what a request asks  *)
(* for.                                                                    *)

(* The request req does not make an empty log read its last entry.         *)
ReachesLog(j, req) ==
  /\ req.prev_log_index >= 0
  /\ \/ log[j] # <<>>
     \/ req.prev_log_index = 0 /\ (req.entries # <<>> \/ req.leader_commit_index = 0)

(* What the leader knows and asks for reaches into the remote's log.       *)
NextIndexesReach(l) ==
  \A j \in Server \ {l} :
    /\ next_index[l][j] >= 1 /\ (next_index[l][j] > 1 => log[j] # <<>>)
    /\ \A req \in Requests(l, j) : ReachesLog(j, req)

(* With what answers say, this is inductive.                               *)
ReachInv == NextIndexesReach(Leader1) /\ AnswersAreAppended

(* A leader that has entries ships them to a remote it knows nothing of.   *)
LEMMA SendsFromFirst ==
  ASSUME NEW l \in Server, StayInv(l), NEW j \in Server, next_index[l][j] >= 1,
         next_index[l][j] > 1 => log[j] # <<>>
  PROVE  ReachesLog(j, AppendEntriesRequest(l, j))
<1> DEFINE req == AppendEntriesRequest(l, j)
           prev == next_index[l][j] - 1
           es == GetEntriesStartAt(log[l], prev)
<1>1. /\ req.prev_log_index = prev /\ req.leader_commit_index = CommitIndex(l)
      /\ req.entries = IF prev < GetLastLogIndex(log[l]) THEN es ELSE <<>>
  BY DEF AppendEntriesRequest
<1>2. next_index[l][j] \in Nat
  BY DEF StayInv, TypeOK
<1>3. prev >= 0 /\ (prev = 0 \/ log[j] # <<>>)
  BY <1>2
<1>4. ASSUME prev = 0, log[l] # <<>> PROVE req.entries # <<>>
  <2>1. log[l] \in Seq(Entry)
    BY LogTypes DEF StayInv
  <2>2. GetLastLogIndex(log[l]) = Len(log[l]) /\ Len(log[l]) > 0 /\ log[l][Len(log[l])].index = Len(log[l])
    <3>1. Len(log[l]) \in DOMAIN log[l] /\ Len(log[l]) > 0
      BY <1>4, <2>1
    <3> QED
      BY <3>1, LastIsLength DEF StayInv, LogOfHandlers
  <2>3. ~(log[l][Len(log[l])].index <= prev)
    BY <1>4, <2>1, <2>2
  <2>4. es # <<>>
    BY <1>4, <2>1, <2>3, GetEntriesStartAtType
  <2> HIDE DEF es
  <2> QED
    BY <1>1, <1>4, <2>1, <2>2, <2>4
<1>5. log[l] = <<>> => CommitIndex(l) = 0
  BY DEF CommitIndex, GetLastCommitIndex
<1> HIDE DEF req, es, prev
<1>6. ReachesLog(j, req)
  BY <1>1, <1>3, <1>4, <1>5 DEF ReachesLog
<1> QED
  BY <1>6 DEF req

(* The next indexes go on reaching into the logs.                          *)
LEMMA NextIndexesStep ==
  ASSUME MaxTerm = 1, NEW l \in Server, StayInv(l), NextIndexesReach(l), AnswersAreAppended,
         [Next /\ NoRestart]_vars
  PROVE  NextIndexesReach(l)'
<1>1. StayEffect(l) /\ TypeOK'
  BY StaySteps, StayEffects, TypeStep DEF StayInv
<1>2. \A j \in Server : log[j] # <<>> => log'[j] # <<>>
  BY LogStaysNonempty DEF StayInv
<1> SUFFICES ASSUME NEW j \in Server \ {l}
             PROVE  /\ next_index'[l][j] >= 1 /\ (next_index'[l][j] > 1 => log'[j] # <<>>)
                    /\ \A req \in Requests(l, j)' : ReachesLog(j, req)'
  BY DEF NextIndexesReach
<1>3. ASSUME NEW req \in Requests(l, j)' PROVE ReachesLog(j, req)'
  <2>1. ReachesLog(j, req)
    <3>1. CASE req \in Requests(l, j)
      BY <3>1 DEF NextIndexesReach
    <3>2. CASE req = AppendEntriesRequest(l, j)
      BY <3>2, SendsFromFirst DEF NextIndexesReach
    <3> QED
      BY <3>1, <3>2, RequestsStep DEF StayInv
  <2> QED
    BY <1>2, <2>1 DEF ReachesLog
<1>4. ASSUME next_index'[l][j] = next_index[l][j]
      PROVE  next_index'[l][j] >= 1 /\ (next_index'[l][j] > 1 => log'[j] # <<>>)
  BY <1>2, <1>4 DEF NextIndexesReach
<1>5. ASSUME NEW k \in Server \ {l}, OnAppendReply(l, k)
      PROVE  next_index'[l][j] >= 1 /\ (next_index'[l][j] > 1 => log'[j] # <<>>)
  <2> DEFINE req == rpc[l][k].req
             resp == rpc[l][k].resp
  <2>1. rpc[l][k].st = "appended"
    BY <1>5, StayReply
  <2>2. req \in Requests(l, k) /\ req \in AppendReq /\ resp \in AppendResp
    BY <2>1, SlotTypes DEF Requests, StayInv
  <2>3. ReachesLog(k, req)
    BY <2>2 DEF NextIndexesReach
  <2>4. CASE /\ resp.success /\ req.entries # <<>>
             /\ next_index' = [next_index EXCEPT ![l][k] = resp.last_log_index + 1]
    <3>1. log[k] # <<>>
      BY <2>1, <2>4 DEF AnswersAreAppended
    <3>2. next_index'[l][j] = IF j = k THEN resp.last_log_index + 1 ELSE next_index[l][j]
      BY <2>4 DEF StayInv, TypeOK
    <3>3. resp.last_log_index \in Nat
      BY <2>2 DEF AppendResp
    <3> HIDE DEF resp, req
    <3> QED
      BY <1>2, <1>4, <3>1, <3>2, <3>3
  <2>5. CASE next_index' = [next_index EXCEPT ![l][k] = BackOff(req.prev_log_index)]
    <3>1. next_index'[l][j] = IF j = k THEN BackOff(req.prev_log_index) ELSE next_index[l][j]
      BY <2>5 DEF StayInv, TypeOK
    <3>2. /\ BackOff(req.prev_log_index) >= 1
          /\ BackOff(req.prev_log_index) > 1 => req.prev_log_index > 0
      BY <2>2, <2>3, BoundAssumption DEF BackOff, AppendReq
    <3>3. req.prev_log_index > 0 => log[k] # <<>>
      BY <2>3 DEF ReachesLog
    <3> HIDE DEF req
    <3> QED
      BY <1>2, <1>4, <3>1, <3>2, <3>3
  <2>6. CASE UNCHANGED next_index
    BY <1>4, <2>6
  <2> HIDE DEF req, resp
  <2> QED
    BY <1>5, <2>4, <2>5, <2>6, StayReply DEF req, resp
<1>6. ASSUME UNCHANGED leaderVars
      PROVE  next_index'[l][j] >= 1 /\ (next_index'[l][j] > 1 => log'[j] # <<>>)
  BY <1>4, <1>6 DEF leaderVars
<1>7. ASSUME NEW k \in Server \ {l}, NEW req \in Requests(l, k), req.term = 1, OnAppendEntries(k, l, req)
      PROVE  UNCHANGED leaderVars
  BY <1>7, RequestTypes, StayHandled DEF StayInv
<1> QED
  BY <1>1, <1>3, <1>5, <1>6, <1>7 DEF StayEffect, Quiet, Handler

(* A request that reaches into a log makes no empty log read.              *)
LEMMA NoReadFromReach ==
  ASSUME NEW l \in Server, StayInv(l), NextIndexesReach(l)
  PROVE  NoReadOfEmptyLog
<1> SUFFICES ASSUME NEW i \in Server, NEW j \in Server, rpc[i][j].st = "append"
             PROVE  ~ReadsEmptyLog(j, rpc[i][j].req)
  BY DEF NoReadOfEmptyLog
<1> DEFINE req == rpc[i][j].req
<1>1. i = l /\ j # l
  BY DEF StayInv, CallsOfLeader
<1>2. req \in Requests(i, j) /\ req \in AppendReq /\ req.entries \in Seq(Entry)
  BY SlotTypes DEF Requests, StayInv, AppendReq
<1>3. ReachesLog(j, req)
  BY <1>1, <1>2 DEF NextIndexesReach
<1>4. log[j] \in Seq(Entry)
  BY LogTypes DEF StayInv
<1> HIDE DEF req
<1>5. CASE log[j] # <<>>
  <2>1. LogAfter(j, req) # <<>>
    BY <1>2, <1>4, <1>5, AppendBatchLast DEF LogAfter
  <2> QED
    BY <2>1 DEF ReadsEmptyLog, CommitsOnEmptyLog, PrintsEmptyLog, req
<1>6. CASE log[j] = <<>>
  <2>1. req.prev_log_index = 0 /\ (req.entries # <<>> \/ req.leader_commit_index = 0)
    BY <1>3, <1>6 DEF ReachesLog
  <2>2. CASE req.entries # <<>>
    <3>1. Reaches(j, req)
      BY <1>6, <2>1 DEF Reaches, GetLastLogIndex
    <3>2. LogAfter(j, req) = AppendBatch(log[j], req.entries)
      BY <2>2, <3>1 DEF LogAfter
    <3>3. Accepts(log[j], req.entries)
      BY <1>6 DEF Accepts, PushesAll
    <3>4. LogAfter(j, req) # <<>>
      BY <1>2, <1>4, <2>2, <3>2, <3>3, AppendBatchLast
    <3> QED
      BY <3>4 DEF ReadsEmptyLog, CommitsOnEmptyLog, PrintsEmptyLog, req
  <2>3. CASE req.entries = <<>> /\ req.leader_commit_index = 0
    BY <2>3 DEF ReadsEmptyLog, CommitsOnEmptyLog, PrintsEmptyLog, req
  <2> QED
    BY <2>1, <2>2, <2>3
<1> QED
  BY <1>5, <1>6

(* Under a leader that stays, no request makes a server print or commit in *)
(* a log that is empty, for any number of servers and any back-off.        *)
THEOREM EmptyLogsUnread ==
  ASSUME MaxTerm = 1
  PROVE  StaySpec => []NoReadOfEmptyLog
<1>1. LedBy(Leader1) => StayInv(Leader1) /\ ReachInv
  <2> SUFFICES ASSUME LedBy(Leader1) PROVE StayInv(Leader1) /\ ReachInv
    OBVIOUS
  <2>1. /\ StayInv(Leader1) /\ Leader1 \in Server
        /\ \A i, j \in Server : Requests(i, j) = {} /\ rpc[i][j].st = "idle"
    BY LedInit1 DEF StayInv, RolesStay
  <2>2. \A j \in Server : next_index[Leader1][j] = 1
    BY <2>1 DEF LedBy
  <2> QED
    BY <2>1, <2>2 DEF ReachInv, NextIndexesReach, AnswersAreAppended
<1>2. StayInv(Leader1) /\ ReachInv /\ [Next /\ NoRestart]_vars => StayInv(Leader1)' /\ ReachInv'
  BY StayInvariant, NextIndexesStep, AnswersAreAppendedStep DEF StayInv, RolesStay, ReachInv
<1>3. StayInv(Leader1) /\ ReachInv => NoReadOfEmptyLog
  BY NoReadFromReach DEF StayInv, RolesStay, ReachInv
<1> QED
  BY <1>1, <1>2, <1>3, PTL DEF StaySpec

=============================================================================
