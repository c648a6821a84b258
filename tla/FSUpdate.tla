------------------------------- MODULE FSUpdate -------------------------------
(***************************************************************************)
(* RaftConsensus::FSUpdateLoop: the thread of a server that applies its    *)
(* committed log entries to its namespace, beside the threads that change  *)
(* the server's role, log and commit index.                                *)
(*                                                                         *)
(* The loop waits on fs_commit with a mutex fs_m that nobody else takes,   *)
(* and reads role, pending_entries, commit index and log without the mutex *)
(* that guards them; one of its steps is one such read.  The other threads *)
(* are the environment of the loop.  Of the log only what GetEntry finds is*)
(* kept here: the last entry with an index, or none.  The environment may do*)
(* to it whatever the Appends of LogManager can, which leave holes in the  *)
(* indexes and erase entries that are committed (LogManager, LayOver); one *)
(* Append is several of its steps, since GetEntry does not take the mutex. *)
(* That a log has no holes and keeps what is committed is Orderly, assumed *)
(* for OkIsApplied only.                                                   *)
(***************************************************************************)
EXTENDS FSNamespace

CONSTANTS
  Entry,        \* commands that clients send, a subset of Command
  MaxLog        \* bound: length of the log

ASSUME EntryAssumption == Entry \subseteq Command /\ MaxLog \in Nat

(* GetEntry's nullptr                                                      *)
NoEntry == [op |-> "none", path |-> <<>>]

VARIABLES
  current_role,
  log,              \* [index -> the entry that GetEntry finds]
  last_commited_index,
  quorate,          \* the indexes with a quorum in pending_entries
  own,              \* the indexes after a leader's log when it took office
  committed,        \* history: what the log has had at a committed index
  tree,             \* the namespace,
  commited_index,   \* and the index it is said to have reached
  pc,               \* where the loop is
  i, entry, commited \* its local variables

raftVars  == <<current_role, log, last_commited_index, quorate, own, committed>>
fsVars    == <<tree, commited_index>>
loopVars  == <<i, entry, commited>>
vars == <<raftVars, fsVars, pc, loopVars>>

Init ==
  /\ current_role = "Follower"
  /\ log = [k \in 1..MaxLog |-> NoEntry] /\ last_commited_index = 0
  /\ quorate = {} /\ own = {} /\ committed = [k \in 1..MaxLog |-> {}]
  /\ tree = NewTree /\ commited_index = 0
  /\ pc = "test" /\ i = 0 /\ entry = NoEntry /\ commited = 0

Running == pc # "crashed"

-----------------------------------------------------------------------------
(* The loop *)

(* The predicate of fs_commit.wait, and the start of a round.  Who changes *)
(* the commit index does not hold fs_m: it may do so, and notify, between  *)
(* the test and the sleep.                                                 *)
TestCommit ==
  /\ pc = "test"
  /\ IF last_commited_index # commited_index
     THEN pc' = "scan" /\ commited' = 0 /\ i' = commited_index + 1
     ELSE pc' = "falling asleep" /\ UNCHANGED <<i, commited>>
  /\ UNCHANGED <<raftVars, fsVars, entry>>

FallAsleep ==
  /\ pc = "falling asleep"
  /\ pc' = "asleep"
  /\ UNCHANGED <<raftVars, fsVars, loopVars>>

(* Mutant: the entries up to the end of the log are applied.               *)
ScansToEnd ==
  /\ pc = "scan"
  /\ pc' = IF i \in 1..MaxLog /\ log[i] # NoEntry THEN "leader?" ELSE "end"
  /\ UNCHANGED <<raftVars, fsVars, loopVars>>

(* The condition of the for loop; the commit index is read every time.     *)
ScanNext ==
  /\ pc = "scan"
  /\ pc' = IF i <= last_commited_index THEN "leader?" ELSE "end"
  /\ UNCHANGED <<raftVars, fsVars, loopVars>>

(* A leader applies an entry only with a quorum of its own counting.       *)
TestLeader ==
  /\ pc = "leader?"
  /\ pc' = IF current_role = "Leader" /\ i \in quorate THEN "get" ELSE "follower?"
  /\ UNCHANGED <<raftVars, fsVars, loopVars>>

(* Mutant: a follower waits to be a leader.                                *)
RefusesFollower ==
  /\ pc = "follower?"
  /\ pc' = "end"
  /\ UNCHANGED <<raftVars, fsVars, loopVars>>

TestFollower ==
  /\ pc = "follower?"
  /\ pc' = IF current_role = "Follower" THEN "get" ELSE "end"
  /\ UNCHANGED <<raftVars, fsVars, loopVars>>

(* GetEntry searches the deque from its back.                              *)
GetEntry ==
  /\ pc = "get" /\ log[i] # NoEntry
  /\ entry' = log[i] /\ pc' = "apply"
  /\ UNCHANGED <<raftVars, fsVars, i, commited>>

(* It finds none: the loop reads the operation through a nullptr.          *)
CrashOnMissing ==
  /\ pc = "get" /\ log[i] = NoEntry
  /\ pc' = "crashed"
  /\ UNCHANGED <<raftVars, fsVars, loopVars>>

ApplyEntry ==
  /\ pc = "apply" /\ ~Misreads(tree, entry)
  /\ tree' = Applied(tree, entry)
  /\ commited' = i /\ i' = i + 1 /\ entry' = NoEntry /\ pc' = "scan"
  /\ UNCHANGED <<raftVars, commited_index>>

(* An Append has deleted the entry that the loop holds a pointer to: the   *)
(* loop may still find it in memory (ApplyEntry), or not.                  *)
CrashOnDeleted ==
  /\ pc = "apply" /\ log[i] # entry
  /\ pc' = "crashed"
  /\ UNCHANGED <<raftVars, fsVars, loopVars>>

(* The children of a file are whatever lies behind it in memory.  What the *)
(* build does is taken to be the end of the process.                       *)
CrashOnFile ==
  /\ pc = "apply" /\ Misreads(tree, entry)
  /\ pc' = "crashed"
  /\ UNCHANGED <<raftVars, fsVars, loopVars>>

(* Mutant: the commit index is set, which may have gone on.                *)
EndsRoundAtCommit ==
  /\ pc = "end"
  /\ commited_index' = last_commited_index
  /\ pc' = "test"
  /\ UNCHANGED <<raftVars, tree, loopVars>>

(* Mutant: the index of the next entry is set.                             *)
EndsRoundAtNext ==
  /\ pc = "end"
  /\ commited_index' = i
  /\ pc' = "test"
  /\ UNCHANGED <<raftVars, tree, loopVars>>

(* SetCommitedIndex: 0 if the round applied nothing.                       *)
EndRound ==
  /\ pc = "end"
  /\ commited_index' = commited
  /\ pc' = "test"
  /\ UNCHANGED <<raftVars, tree, loopVars>>

FSUpdateLoop ==
  \/ TestCommit \/ FallAsleep \/ ScanNext \/ TestLeader \/ TestFollower
  \/ GetEntry \/ CrashOnMissing \/ ApplyEntry \/ CrashOnDeleted \/ CrashOnFile
  \/ EndRound

-----------------------------------------------------------------------------
(* The other threads of the server *)

(* A leader's next_index starts after its log.                             *)
ChangeRole(role) ==
  /\ Running
  /\ \/ role = "Candidate" /\ current_role # "Leader"
     \/ role = "Leader" /\ current_role = "Candidate"
     \/ role = "Follower" /\ current_role # "Follower"
  /\ current_role' = role
  /\ own' = IF role = "Leader" THEN {k \in 1..MaxLog : \A q \in k..MaxLog : log[q] = NoEntry}
            ELSE {}
  /\ UNCHANGED <<log, last_commited_index, quorate, committed, fsVars, pc, loopVars>>

(* One entry is pushed, overwritten or erased: a client handler's on any   *)
(* role, since it has looked at the role before; a request's.  The entry a *)
(* batch was found at is never erased, so that no log becomes empty again. *)
ChangeLog(k, e) ==
  /\ Running
  /\ e = NoEntry => \E q \in 1..MaxLog : q # k /\ log[q] # NoEntry
  /\ log' = [log EXCEPT ![k] = e]
  /\ committed' = [committed EXCEPT ![k] =
       IF k <= last_commited_index THEN @ \cup ({e} \ {NoEntry}) ELSE @]
  /\ UNCHANGED <<current_role, last_commited_index, quorate, own, fsVars, pc, loopVars>>

(* notify_all reaches the loop only in its sleep.                          *)
Notify == pc' = IF pc = "asleep" THEN "test" ELSE pc

(* SetLastCommitIndex: not beyond the index of the last entry, which with  *)
(* holes in the log may be any that it has.                                *)
SetLastCommitIndex(new_index) ==
  /\ \E k \in new_index..MaxLog : log[k] # NoEntry
  /\ last_commited_index' = new_index
  /\ committed' = [k \in 1..MaxLog |->
       IF k <= new_index THEN committed[k] \cup ({log[k]} \ {NoEntry}) ELSE committed[k]]
  /\ Notify

(* An answer gives the indexes counted a quorum, and the last of them in   *)
(* the batch is the new commit index.  Entries of the batch that have other*)
(* answers missing are left out, and pending_entries is never cleared.     *)
CommitAsLeader(counted, last) ==
  /\ Running /\ current_role = "Leader"
  /\ last \in counted /\ \A k \in counted : k > last_commited_index
  /\ quorate' = quorate \cup counted
  /\ SetLastCommitIndex(last)
  /\ UNCHANGED <<current_role, log, own, fsVars, loopVars>>

CommitAsFollower(leader_commit_index) ==
  /\ Running /\ current_role = "Follower"
  /\ leader_commit_index > last_commited_index
  /\ SetLastCommitIndex(leader_commit_index)
  /\ UNCHANGED <<current_role, log, quorate, own, fsVars, loopVars>>

(* A handler of ListDir, beside the loop; else it changes nothing.  It     *)
(* takes the mutex of the namespace, and the children of a file are again  *)
(* what lies behind it in memory.                                          *)
CrashOnList(p) ==
  /\ Running /\ ListsFile(tree, p)
  /\ pc' = "crashed"
  /\ UNCHANGED <<raftVars, fsVars, loopVars>>

Others ==
  \/ \E e \in Entry : CrashOnList(e.path)
  \/ \E role \in {"Follower", "Candidate", "Leader"} : ChangeRole(role)
  \/ \E k \in 1..MaxLog : \E e \in Entry \cup {NoEntry} : ChangeLog(k, e)
  \/ \E last \in 1..MaxLog :
       CommitAsFollower(last) \/ \E counted \in SUBSET (1..MaxLog) : CommitAsLeader(counted, last)

Next == FSUpdateLoop \/ Others

(* The loop is a thread of its own and never waits but in its sleep.       *)
LoopRuns == WF_vars(FSUpdateLoop)

Spec == Init /\ [][Next]_vars /\ LoopRuns

-----------------------------------------------------------------------------
(* Assumptions about the environment.  The code does not enforce them: the *)
(* batch Append breaks the first two once two servers have led.            *)

(* What is committed stays in the log.                                     *)
KeepsCommitted == \A k \in 1..last_commited_index : log'[k] = log[k]

HasNoHole == \A k \in 1..MaxLog : log'[k] # NoEntry => \A q \in 1..k : log'[q] # NoEntry

(* A leader's log grows, a candidate's does not change.                    *)
RolesKeepLog ==
  /\ current_role = "Leader" => \A k \in 1..MaxLog : log[k] # NoEntry => log'[k] = log[k]
  /\ current_role = "Candidate" => UNCHANGED log

(* A leader ships every entry after its first next_index, so it has counted*)
(* its own entries up to the one it commits; what it found in its log it   *)
(* ships only to a server that refuses.                                    *)
CountsOwn ==
  current_role = "Leader" => {k \in own : k <= last_commited_index'} \subseteq quorate'

Orderly == KeepsCommitted /\ HasNoHole /\ RolesKeepLog /\ CountsOwn

OrderlySpec == Init /\ [][Next /\ Orderly]_vars /\ LoopRuns

-----------------------------------------------------------------------------
(* Properties *)

Index == 0..MaxLog

(* The type invariant; between the test of the loop and the use of an entry*)
(* i stays under the commit index.                                         *)
TypeOK ==
  /\ current_role \in {"Follower", "Candidate", "Leader"}
  /\ log \in [1..MaxLog -> Entry \cup {NoEntry}]
  /\ last_commited_index \in Index /\ quorate \subseteq 1..MaxLog /\ own \subseteq 1..MaxLog
  /\ committed \in [1..MaxLog -> SUBSET Entry]
  /\ tree \in Tree
  /\ commited_index \in Index /\ commited \in Index /\ i \in 0..(MaxLog + 1)
  /\ entry \in Entry \cup {NoEntry} /\ (pc = "apply" => entry \in Entry)
  /\ pc \in {"test", "falling asleep", "asleep", "scan", "leader?", "follower?", "get",
             "apply", "end", "crashed"}
  /\ pc \in {"scan", "leader?", "follower?", "get", "apply"} => i >= 1
  /\ pc \in {"leader?", "follower?", "get", "apply"} => i <= last_commited_index

(* Nothing a read of the namespace can show comes from an entry that this  *)
(* server's log never had at a committed index, although log and commit    *)
(* index are read one after the other and committed entries may be         *)
(* overwritten or erased in between (RaftConsensus.cpp:312-314).           *)
ShowsOnlyCommitted ==
  \A p \in Nodes(tree) \ {<<>>} :
    \E k \in 1..MaxLog : \E e \in committed[k] : Within(e.path, p)

(* The index the namespace is said to have reached is never ahead of the   *)
(* commit index: the predicate of fs_commit.wait is an inequality, and a   *)
(* round that began ahead of the commit index would reset it to 0.         *)
NeverAhead == commited_index <= last_commited_index /\ commited <= last_commited_index

(* No committed index has had two entries.                                 *)
Settled == \A k \in 1..MaxLog : \A e, f \in committed[k] : e = f

settled == [k \in 1..MaxLog |-> CHOOSE e \in committed[k] : TRUE]

(* Up to index n the log has had an entry at each committed index.         *)
Filled(n) == \A k \in 1..n : committed[k] # {}

(* What the entries of the first n indexes make of an empty namespace.     *)
Replay(n) ==
  LET made[k \in 0..n] == IF k = 0 THEN NewTree ELSE Applied(made[k - 1], settled[k]) IN made[n]

(* On a server that is never anything but a follower, and never has two    *)
(* entries at one committed index, every index up to commited_index has had*)
(* one at the end of every round, and the namespace is what these make:    *)
(* each is applied once and in order, although holes are filled and entries*)
(* erased under the loop, so that such servers agree as far as their logs. *)
FollowerReplaysLog ==
  [](current_role = "Follower" /\ Settled) =>
    [](pc \in {"test", "falling asleep", "asleep"} =>
         Filled(commited_index) /\ tree = Replay(commited_index))

(* A loop that is awake on a server that stays a follower applies every    *)
(* committed entry, whatever was left by the rounds before.                *)
FollowerCatchesUp ==
  \A n \in 1..MaxLog :
    (pc = "test" /\ last_commited_index >= n /\ [](Running /\ current_role = "Follower"))
      ~> commited_index >= n

(* PerfTest.cpp:310 "should_exist = (rtn == Status_::kOK)", PerfTest.cpp:  *)
(* 408 "Write tree status to verify server status": the leader answers kOK *)
(* for an entry of its own when that has its quorum of remotes; if it goes *)
(* on leading, and its loop is not asleep over a lost notification, it must*)
(* then apply it.                                                          *)
OkIsApplied ==
  \A n \in 1..MaxLog :
    (n \in own \cap quorate /\ [](Running /\ current_role = "Leader") /\ []<>(pc = "test"))
      ~> commited_index >= n
=============================================================================
