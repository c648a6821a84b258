---------------------------- MODULE FSUpdateProofs ----------------------------
(***************************************************************************)
(* Proofs about FSUpdate: the namespace shows nothing but what committed   *)
(* entries name, whatever the rounds of the loop, the roles and the logs do*)
(* in between; on a follower it is the replay of the committed entries.    *)
(***************************************************************************)
EXTENDS FSUpdate, WellFoundedInduction, TLAPS

-----------------------------------------------------------------------------
(* Paths *)

(* The first k names of a path are a path of length k.                     *)
LEMMA UptoType ==
  ASSUME NEW p \in Path, NEW k \in 0..Len(p)
  PROVE  Upto(p, k) \in Path /\ Len(Upto(p, k)) = k
BY DEF Upto, Path

(* The first names of a path lie on the way to it.                         *)
LEMMA UptoWithin ==
  ASSUME NEW p \in Path, NEW k \in 0..Len(p)
  PROVE  Within(p, Upto(p, k))
BY UptoType DEF Within, Path

LEMMA WholePath ==
  ASSUME NEW p \in Path
  PROVE  Upto(p, Len(p)) = p
BY DEF Upto, Path

-----------------------------------------------------------------------------
(* The operations of the namespace *)

(* Every entry that is applied leaves directories and files with paths.    *)
LEMMA AppliedType ==
  ASSUME NEW t \in Tree, NEW e \in Command
  PROVE  Applied(t, e) \in Tree
<1>1. e.path \in Path /\ e.op \in {"mkdir", "rmdir", "create", "delete"}
  BY DEF Command
<1>2. CASE e.op = "mkdir"
  <2>1. Len(e.path) \in Nat
    BY <1>1 DEF Path
  <2>2. MadeDirs(t, e.path) \subseteq Path
    BY <1>1, <2>1, UptoType DEF MadeDirs
  <2> QED
    BY <1>2, <2>2 DEF Applied, MakeDir, Tree
<1>3. CASE e.op = "create"
  BY <1>1, <1>3 DEF Applied, CreateFile, AddFile, Tree
<1>4. CASE e.op = "rmdir"
  BY <1>4 DEF Applied, DeleteDir, DeleteChild, Tree
<1>5. CASE e.op = "delete"
  BY <1>5 DEF Applied, RemoveFile, DeleteChild, Tree
<1> QED
  BY <1>1, <1>2, <1>3, <1>4, <1>5

(* What an entry adds to a tree is on the way to its path.                 *)
LEMMA AppliedAdds ==
  ASSUME NEW t \in Tree, NEW e \in Command, NEW q \in Nodes(Applied(t, e)), q \notin Nodes(t)
  PROVE  Within(e.path, q)
<1>1. e.path \in Path /\ e.op \in {"mkdir", "rmdir", "create", "delete"}
  BY DEF Command
<1>2. CASE e.op = "mkdir"
  <2>1. PICK k \in 1..Len(e.path) : q = Upto(e.path, k)
    BY <1>2 DEF Applied, MakeDir, MadeDirs, Nodes, Tree
  <2> QED
    BY <1>1, <2>1, UptoWithin DEF Path
<1>3. CASE e.op = "create"
  <2>1. q = e.path
    BY <1>3 DEF Applied, CreateFile, AddFile, Nodes, Tree
  <2> QED
    BY <1>1, <2>1, WholePath DEF Within, Path
<1>4. CASE e.op = "rmdir"
  BY <1>4 DEF Applied, DeleteDir, DeleteChild, Nodes, Tree
<1>5. CASE e.op = "delete"
  BY <1>5 DEF Applied, RemoveFile, DeleteChild, Nodes, Tree
<1> QED
  BY <1>1, <1>2, <1>3, <1>4, <1>5

-----------------------------------------------------------------------------
(* The inductive invariant: what the loop holds has been committed, because*)
(* the history has what the log has up to the commit index, and the index of*)
(* the loop stays under it (TypeOK).                                       *)
LogIsCovered == \A k \in 1..last_commited_index : log[k] \in committed[k] \cup {NoEntry}

HoldsCommitted == pc = "apply" => entry \in committed[i]

ApplyInv == TypeOK /\ ShowsOnlyCommitted /\ NeverAhead /\ LogIsCovered /\ HoldsCommitted

(* What the types say of the numbers.                                      *)
LEMMA Numbers ==
  ASSUME TypeOK
  PROVE  /\ MaxLog \in Nat
         /\ last_commited_index \in Nat /\ last_commited_index <= MaxLog
         /\ commited_index \in Nat /\ commited \in Nat /\ i \in Nat
         /\ commited_index <= MaxLog /\ commited <= MaxLog /\ i <= MaxLog + 1
         /\ pc \in {"scan", "leader?", "follower?", "get", "apply"} => i >= 1
         /\ pc \in {"leader?", "follower?", "get", "apply"} => i <= last_commited_index
<1>1. MaxLog \in Nat
  BY EntryAssumption
<1>2. /\ last_commited_index \in 0..MaxLog
      /\ commited_index \in 0..MaxLog /\ commited \in 0..MaxLog /\ i \in 0..(MaxLog + 1)
      /\ pc \in {"scan", "leader?", "follower?", "get", "apply"} => i >= 1
      /\ pc \in {"leader?", "follower?", "get", "apply"} => i <= last_commited_index
  BY Zenon DEF TypeOK, Index
<1> QED
  BY <1>1, <1>2

(* A command is not GetEntry's nullptr.                                    *)
LEMMA EntriesAreCommands ==
  Entry \subseteq Command /\ NoEntry \notin Entry
BY EntryAssumption DEF Command, NoEntry

(* A new server.                                                           *)
LEMMA InitApplyInv == Init => ApplyInv
<1> SUFFICES ASSUME Init PROVE ApplyInv
  OBVIOUS
<1>1. <<>> \in Path
  BY DEF Path
<1>2. TypeOK
  BY <1>1, EntryAssumption DEF Init, TypeOK, Index, NewTree, Tree
<1>3. ShowsOnlyCommitted
  BY DEF Init, ShowsOnlyCommitted, NewTree, Nodes
<1>4. NeverAhead /\ LogIsCovered /\ HoldsCommitted
  BY DEF Init, NeverAhead, LogIsCovered, HoldsCommitted
<1> QED
  BY <1>2, <1>3, <1>4 DEF ApplyInv

(* The steps of the loop but the one that changes the namespace.           *)
LEMMA LoopStep ==
  ASSUME ApplyInv,
         TestCommit \/ FallAsleep \/ ScanNext \/ TestLeader \/ TestFollower \/ GetEntry
           \/ CrashOnMissing \/ CrashOnDeleted \/ CrashOnFile \/ EndRound
  PROVE  ApplyInv'
<1> USE DEF ApplyInv
<1>0. UNCHANGED <<current_role, log, last_commited_index, quorate, own, committed, tree>>
  BY DEF TestCommit, FallAsleep, ScanNext, TestLeader, TestFollower, GetEntry, CrashOnMissing,
         CrashOnDeleted, CrashOnFile, EndRound, raftVars, fsVars
<1>1. ShowsOnlyCommitted' /\ LogIsCovered'
  BY <1>0 DEF ShowsOnlyCommitted, LogIsCovered
<1>2. TypeOK' /\ NeverAhead' /\ HoldsCommitted'
  <2>1. CASE TestCommit
    <3>1. /\ i' \in 0..(MaxLog + 1) /\ commited' \in Index /\ commited' <= last_commited_index
          /\ pc' \in {"scan", "falling asleep"} /\ (pc' = "scan" => i' >= 1)
      <4>1. commited <= last_commited_index
        BY DEF NeverAhead
      <4>2. CASE pc' = "scan" /\ commited' = 0 /\ i' = commited_index + 1
        BY <4>2, Numbers DEF Index
      <4>3. CASE pc' = "falling asleep" /\ i' = i /\ commited' = commited
        <5>1. i \in 0..(MaxLog + 1) /\ commited \in Index
          BY Zenon DEF TypeOK
        <5> QED
          BY <4>1, <4>3, <5>1
      <4> QED
        BY <2>1, <4>2, <4>3 DEF TestCommit
    <3> QED
      BY <1>0, <2>1, <3>1 DEF TestCommit, TypeOK, NeverAhead, HoldsCommitted, fsVars, Index
  <2>2. CASE FallAsleep
    BY <1>0, <2>2 DEF FallAsleep, TypeOK, NeverAhead, HoldsCommitted, fsVars, loopVars
  <2>3. CASE ScanNext
    BY <1>0, <2>3 DEF ScanNext, TypeOK, NeverAhead, HoldsCommitted, fsVars, loopVars
  <2>4. CASE TestLeader
    BY <1>0, <2>4 DEF TestLeader, TypeOK, NeverAhead, HoldsCommitted, fsVars, loopVars
  <2>5. CASE TestFollower
    BY <1>0, <2>5 DEF TestFollower, TypeOK, NeverAhead, HoldsCommitted, fsVars, loopVars
  <2>6. CASE GetEntry
    <3>1. i \in 1..last_commited_index /\ i \in 1..MaxLog
      BY <2>6, Numbers DEF GetEntry
    <3>2. log[i] \in Entry /\ log[i] \in committed[i]
      BY <2>6, <3>1 DEF GetEntry, TypeOK, LogIsCovered
    <3> QED
      BY <1>0, <2>6, <3>2 DEF GetEntry, TypeOK, NeverAhead, HoldsCommitted, fsVars
  <2>7. CASE CrashOnMissing \/ CrashOnDeleted \/ CrashOnFile
    <3>1. UNCHANGED <<commited_index, i, entry, commited>> /\ pc' = "crashed"
      BY <2>7 DEF CrashOnMissing, CrashOnDeleted, CrashOnFile, fsVars, loopVars
    <3> QED
      BY <1>0, <3>1 DEF TypeOK, NeverAhead, HoldsCommitted
  <2>8. CASE EndRound
    BY <1>0, <2>8 DEF EndRound, TypeOK, NeverAhead, HoldsCommitted, loopVars
  <2> QED
    BY <2>1, <2>2, <2>3, <2>4, <2>5, <2>6, <2>7, <2>8
<1> QED
  BY <1>1, <1>2

(* An entry is applied: it has been committed.                             *)
LEMMA ApplyStep ==
  ASSUME ApplyInv, ApplyEntry
  PROVE  ApplyInv'
<1> USE DEF ApplyInv
<1>1. /\ pc = "apply" /\ tree' = Applied(tree, entry)
      /\ commited' = i /\ i' = i + 1 /\ entry' = NoEntry /\ pc' = "scan"
      /\ UNCHANGED <<current_role, log, last_commited_index, quorate, own, committed>>
      /\ UNCHANGED commited_index
  BY DEF ApplyEntry, raftVars
<1>2. i \in 1..last_commited_index /\ last_commited_index \in 0..MaxLog
  BY <1>1, Numbers
<1>3. entry \in Command /\ entry \in committed[i]
  BY <1>1, EntriesAreCommands DEF TypeOK, HoldsCommitted
<1>4. tree \in Tree /\ tree' \in Tree
  BY <1>1, <1>3, AppliedType DEF TypeOK
<1>5. i' \in 0..(MaxLog + 1) /\ i' >= 1 /\ commited' \in Index /\ commited' <= last_commited_index'
  BY <1>1, <1>2, Numbers DEF Index
<1>6. TypeOK'
  BY <1>1, <1>4, <1>5 DEF TypeOK
<1>7. NeverAhead' /\ LogIsCovered' /\ HoldsCommitted'
  BY <1>1, <1>5 DEF NeverAhead, LogIsCovered, HoldsCommitted
<1>8. ASSUME NEW p \in Nodes(tree') \ {<<>>}
      PROVE  \E k \in 1..MaxLog : \E e \in committed'[k] : Within(e.path, p)
  <2>1. CASE p \in Nodes(tree)
    BY <1>1, <1>8, <2>1 DEF ShowsOnlyCommitted
  <2>2. CASE p \notin Nodes(tree)
    <3>1. Within(entry.path, p)
      BY <1>1, <1>3, <1>4, <1>8, <2>2, AppliedAdds
    <3>2. i \in 1..MaxLog
      BY <1>2, Numbers
    <3> QED
      BY <1>1, <1>3, <3>1, <3>2
  <2> QED
    BY <2>1, <2>2
<1> QED
  BY <1>6, <1>7, <1>8 DEF ShowsOnlyCommitted

(* A change of the log: what it puts at a committed index is noted.        *)
LEMMA ChangeLogStep ==
  ASSUME ApplyInv, NEW k \in 1..MaxLog, NEW e \in Entry \cup {NoEntry}, ChangeLog(k, e)
  PROVE  ApplyInv'
<1> USE DEF ApplyInv
<1>1. /\ log' = [log EXCEPT ![k] = e]
      /\ committed' = [committed EXCEPT ![k] =
           IF k <= last_commited_index THEN @ \cup ({e} \ {NoEntry}) ELSE @]
      /\ UNCHANGED <<current_role, last_commited_index, quorate, own, tree, commited_index, pc>>
      /\ UNCHANGED <<i, entry, commited>>
  BY DEF ChangeLog, fsVars, loopVars
<1>2. log' \in [1..MaxLog -> Entry \cup {NoEntry}]
  BY <1>1 DEF TypeOK
<1>3. /\ committed' \in [1..MaxLog -> SUBSET Entry]
      /\ \A n \in 1..MaxLog : committed[n] \subseteq committed'[n]
  BY <1>1 DEF TypeOK
<1>4. TypeOK' /\ NeverAhead'
  BY <1>1, <1>2, <1>3 DEF TypeOK, NeverAhead
<1>5. ShowsOnlyCommitted' /\ HoldsCommitted'
  <2>1. pc = "apply" => i \in 1..MaxLog
    BY Numbers
  <2> QED
    BY <1>1, <1>3, <2>1 DEF ShowsOnlyCommitted, HoldsCommitted
<1>6. ASSUME NEW n \in 1..last_commited_index
      PROVE  log'[n] \in committed'[n] \cup {NoEntry}
  <2>1. n \in 1..MaxLog
    BY Numbers
  <2>2. CASE n = k
    <3>1. log'[n] = e
      BY <1>1, <2>1, <2>2 DEF TypeOK
    <3>2. n <= last_commited_index
      BY <1>6, Numbers
    <3>3. committed'[k] = committed[k] \cup ({e} \ {NoEntry})
      BY <1>1, <2>2, <3>2 DEF TypeOK
    <3> QED
      BY <2>2, <3>1, <3>3
  <2>3. CASE n # k
    <3>1. log'[n] = log[n]
      BY <1>1, <2>1, <2>3 DEF TypeOK
    <3> QED
      BY <1>3, <2>1, <3>1 DEF LogIsCovered
  <2> QED
    BY <2>2, <2>3
<1> QED
  BY <1>1, <1>4, <1>5, <1>6 DEF LogIsCovered

(* A commit: what the log has up to the new index is noted.                *)
LEMMA CommitStep ==
  ASSUME ApplyInv, NEW n \in 1..MaxLog, n > last_commited_index, SetLastCommitIndex(n),
         UNCHANGED <<current_role, log, own, tree, commited_index, i, entry, commited>>,
         quorate' \subseteq 1..MaxLog
  PROVE  ApplyInv'
<1> USE DEF ApplyInv
<1>1. /\ last_commited_index' = n
      /\ committed' = [k \in 1..MaxLog |->
           IF k <= n THEN committed[k] \cup ({log[k]} \ {NoEntry}) ELSE committed[k]]
      /\ pc' = pc \/ (pc = "asleep" /\ pc' = "test")
  BY DEF SetLastCommitIndex, Notify
<1>2. /\ n \in Nat /\ n <= MaxLog /\ last_commited_index \in Nat /\ last_commited_index <= n
      /\ \A k \in 1..n : k \in 1..MaxLog
  BY Numbers
<1>3. ASSUME NEW k \in 1..n PROVE log[k] \in Entry \cup {NoEntry}
  BY <1>2, <1>3 DEF TypeOK
<1>4. /\ committed' \in [1..MaxLog -> SUBSET Entry]
      /\ \A k \in 1..MaxLog : committed[k] \subseteq committed'[k]
  BY <1>1, <1>2, <1>3 DEF TypeOK
<1>5. NeverAhead'
  BY <1>1, <1>2, Numbers DEF NeverAhead
<1>6. TypeOK'
  <2>1. last_commited_index' \in Index
    BY <1>1, <1>2 DEF Index
  <2>2. pc' \in {"leader?", "follower?", "get", "apply"} => i <= last_commited_index'
    BY <1>1, <1>2, Numbers
  <2>3. pc' \in {"test", "falling asleep", "asleep", "scan", "leader?", "follower?", "get",
                 "apply", "end", "crashed"}
    BY <1>1 DEF TypeOK
  <2>4. /\ pc' = "apply" => pc = "apply"
        /\ pc' \in {"scan", "leader?", "follower?", "get", "apply"} => pc' = pc
    BY <1>1
  <2> QED
    BY <1>4, <2>1, <2>2, <2>3, <2>4 DEF TypeOK
<1>7. ShowsOnlyCommitted' /\ HoldsCommitted'
  <2>1. pc = "apply" => i \in 1..MaxLog
    BY Numbers
  <2>2. pc' = "apply" => pc = "apply"
    BY <1>1
  <2> QED
    BY <1>4, <2>1, <2>2 DEF ShowsOnlyCommitted, HoldsCommitted
<1>8. LogIsCovered'
  BY <1>1, <1>2 DEF LogIsCovered
<1> QED
  BY <1>5, <1>6, <1>7, <1>8

(* The steps of the other threads.                                         *)
LEMMA OthersStep ==
  ASSUME ApplyInv, Others
  PROVE  ApplyInv'
<1>1. ASSUME NEW role \in {"Follower", "Candidate", "Leader"}, ChangeRole(role)
      PROVE  ApplyInv'
  <2>1. /\ UNCHANGED <<log, last_commited_index, quorate, committed, tree, commited_index, pc>>
        /\ UNCHANGED <<i, entry, commited>> /\ current_role' = role /\ own' \subseteq 1..MaxLog
    BY <1>1 DEF ChangeRole, fsVars, loopVars
  <2> QED
    BY <2>1 DEF ApplyInv, TypeOK, ShowsOnlyCommitted, NeverAhead, LogIsCovered, HoldsCommitted
<1>2. ASSUME NEW p, CrashOnList(p)
      PROVE  ApplyInv'
  <2>1. /\ UNCHANGED <<current_role, log, last_commited_index, quorate, own, committed, tree>>
        /\ UNCHANGED <<commited_index, i, entry, commited>> /\ pc' = "crashed"
    BY <1>2 DEF CrashOnList, raftVars, fsVars, loopVars
  <2> QED
    BY <2>1 DEF ApplyInv, TypeOK, ShowsOnlyCommitted, NeverAhead, LogIsCovered, HoldsCommitted
<1>3. ASSUME NEW last \in 1..MaxLog, CommitAsFollower(last)
      PROVE  ApplyInv'
  <2>1. quorate' \subseteq 1..MaxLog
    BY <1>3 DEF CommitAsFollower, ApplyInv, TypeOK
  <2> QED
    BY <1>3, <2>1, CommitStep DEF CommitAsFollower, fsVars, loopVars
<1>4. ASSUME NEW last \in 1..MaxLog, NEW counted \in SUBSET (1..MaxLog),
             CommitAsLeader(counted, last)
      PROVE  ApplyInv'
  <2>1. quorate' \subseteq 1..MaxLog
    BY <1>4 DEF CommitAsLeader, ApplyInv, TypeOK
  <2> QED
    BY <1>4, <2>1, CommitStep DEF CommitAsLeader, fsVars, loopVars
<1> QED
  BY <1>1, <1>2, <1>3, <1>4, ChangeLogStep DEF Others

-----------------------------------------------------------------------------
(* The invariant holds for any commands, paths of any length and logs of   *)
(* any length, however the other threads of the server change its role,    *)
(* log and commit index between two reads of FSUpdateLoop.                 *)
LEMMA ApplyStays == ApplyInv /\ [Next]_vars => ApplyInv'
<1> SUFFICES ASSUME ApplyInv, [Next]_vars PROVE ApplyInv'
  OBVIOUS
<1>1. CASE FSUpdateLoop
  BY <1>1, LoopStep, ApplyStep DEF FSUpdateLoop
<1>2. CASE Others
  BY <1>2, OthersStep
<1>3. CASE UNCHANGED vars
  BY <1>3 DEF vars, raftVars, fsVars, loopVars, ApplyInv, TypeOK, ShowsOnlyCommitted, NeverAhead,
              LogIsCovered, HoldsCommitted
<1> QED
  BY <1>1, <1>2, <1>3 DEF Next

(* FSUpdateLoop, beside threads that leave holes in the log and erase what *)
(* is committed, shows nothing of an entry that the log never had at a     *)
(* committed index, and never says that it is ahead of the commit index.   *)
THEOREM AppliesOnlyCommitted == Spec => [](TypeOK /\ ShowsOnlyCommitted /\ NeverAhead)
<1>1. ApplyInv => TypeOK /\ ShowsOnlyCommitted /\ NeverAhead
  BY DEF ApplyInv
<1> QED
  BY InitApplyInv, ApplyStays, <1>1, PTL DEF Spec

-----------------------------------------------------------------------------
(* Replaying a log *)

(* Every nonempty set of naturals has a smallest element.                  *)
LEMMA SmallestExists ==
  ASSUME NEW S \in SUBSET Nat, S # {}
  PROVE  \E m \in S : \A q \in S : m <= q
<1> DEFINE R == OpToRel(<, Nat)
<1>1. IsWellFoundedOn(R, Nat)
  BY NatLessThanWellFounded
<1>2. \E m \in S : \A q \in S : ~ (<<q, m>> \in R)
  <2> HIDE DEF R
  <2> QED BY <1>1, WFMin
<1>3. \A q, m \in Nat : q < m => <<q, m>> \in R
  BY DEF OpToRel
<1> HIDE DEF R
<1>4. PICK m \in S : \A q \in S : ~ (<<q, m>> \in R)
  BY <1>2
<1>5. \A q \in S : q \in Nat /\ m \in Nat /\ ~ (q < m)
  BY <1>3, <1>4
<1> QED
  BY <1>4, <1>5

(* f[k] is what the first k entries of l make of an empty namespace.       *)
Replays(f, l, n) ==
  f = [k \in 0..n |-> IF k = 0 THEN NewTree ELSE Applied(f[k - 1], l[k])]

LEMMA ReplaysAt ==
  ASSUME NEW f, NEW l, NEW n \in Nat, Replays(f, l, n)
  PROVE  f[0] = NewTree /\ \A k \in 1..n : f[k] = Applied(f[k - 1], l[k])
<1>1. f = [k \in 0..n |-> IF k = 0 THEN NewTree ELSE Applied(f[k - 1], l[k])]
  BY DEF Replays
<1>2. \A k \in 0..n : f[k] = IF k = 0 THEN NewTree ELSE Applied(f[k - 1], l[k])
  BY <1>1
<1> QED
  BY <1>2

(* A log of any length can be replayed: the first that cannot be would be  *)
(* one entry longer than one that can.                                     *)
LEMMA ReplayExists ==
  ASSUME NEW l, NEW n \in Nat
  PROVE  \E f : Replays(f, l, n)
<1> DEFINE B == {k \in Nat : ~ \E f : Replays(f, l, k)}
<1>1. SUFFICES ASSUME B # {} PROVE FALSE
  OBVIOUS
<1>2. PICK m \in B : \A q \in B : m <= q
  <2>1. B \in SUBSET Nat
    OBVIOUS
  <2> HIDE DEF B
  <2> QED
    BY <1>1, <2>1, SmallestExists
<1>3. m \in Nat /\ ~ \E f : Replays(f, l, m)
  OBVIOUS
<1>4. CASE m = 0
  <2> DEFINE f == [k \in 0..0 |-> NewTree]
  <2>1. f = [k \in 0..0 |-> IF k = 0 THEN NewTree ELSE Applied(f[k - 1], l[k])]
    OBVIOUS
  <2> HIDE DEF f
  <2> QED
    BY <1>3, <1>4, <2>1 DEF Replays
<1>5. CASE m # 0
  <2>1. m - 1 \in Nat /\ m - 1 \notin B
    <3>1. m - 1 \in Nat /\ ~ (m <= m - 1)
      BY <1>3, <1>5
    <3> HIDE DEF B
    <3> QED
      BY <1>2, <3>1
  <2>2. PICK g : Replays(g, l, m - 1)
    BY <2>1
  <2>3. g[0] = NewTree /\ \A k \in 1..(m - 1) : g[k] = Applied(g[k - 1], l[k])
    BY <2>1, <2>2, ReplaysAt
  <2> DEFINE f == [k \in 0..m |-> IF k = m THEN Applied(g[m - 1], l[m]) ELSE g[k]]
  <2>4. ASSUME NEW k \in 0..m
        PROVE  f[k] = IF k = 0 THEN NewTree ELSE Applied(f[k - 1], l[k])
    <3>1. CASE k = 0
      BY <1>3, <1>5, <2>3, <3>1
    <3>2. CASE k = m
      <4>1. f[k] = Applied(g[m - 1], l[m])
        BY <1>3, <3>2
      <4>2. f[m - 1] = g[m - 1]
        BY <1>3, <1>5
      <4> HIDE DEF f
      <4> QED
        BY <1>5, <3>2, <4>1, <4>2
    <3>3. CASE k # 0 /\ k # m
      <4>1. k \in 1..(m - 1) /\ k - 1 \in 0..m /\ k - 1 # m
        BY <1>3, <3>3
      <4>2. f[k] = g[k] /\ f[k - 1] = g[k - 1]
        BY <3>3, <4>1
      <4> HIDE DEF f
      <4> QED
        BY <2>3, <3>3, <4>1, <4>2
    <3> QED
      BY <3>1, <3>2, <3>3
  <2>5. f = [k \in 0..m |-> f[k]]
    OBVIOUS
  <2> HIDE DEF f
  <2>6. f = [k \in 0..m |-> IF k = 0 THEN NewTree ELSE Applied(f[k - 1], l[k])]
    BY <2>4, <2>5
  <2> QED
    BY <1>3, <2>6 DEF Replays
<1> QED
  BY <1>4, <1>5

(* Two logs that agree on their first m entries replay alike so far.       *)
LEMMA ReplaysAgree ==
  ASSUME NEW m \in Nat, NEW n \in Nat, NEW p \in Nat, m <= n, m <= p, NEW l1, NEW l2,
         NEW f, NEW g, Replays(f, l1, n), Replays(g, l2, p), \A k \in 1..m : l1[k] = l2[k]
  PROVE  f[m] = g[m]
<1> DEFINE B == {k \in 0..m : f[k] # g[k]}
<1>1. SUFFICES ASSUME B # {} PROVE FALSE
  OBVIOUS
<1>2. PICK j \in B : \A q \in B : j <= q
  <2>1. B \in SUBSET Nat
    OBVIOUS
  <2> HIDE DEF B
  <2> QED
    BY <1>1, <2>1, SmallestExists
<1>3. /\ f[0] = NewTree /\ \A k \in 1..n : f[k] = Applied(f[k - 1], l1[k])
      /\ g[0] = NewTree /\ \A k \in 1..p : g[k] = Applied(g[k - 1], l2[k])
  BY ReplaysAt
<1>4. j \in 0..m /\ f[j] # g[j]
  OBVIOUS
<1>5. j # 0
  BY <1>3, <1>4
<1>6. j \in 1..m /\ j \in 1..n /\ j \in 1..p /\ j - 1 \in 0..m /\ ~ (j <= j - 1)
  BY <1>4, <1>5
<1>7. f[j - 1] = g[j - 1]
  BY <1>2, <1>6
<1>8. l1[j] = l2[j]
  BY <1>6
<1> HIDE DEF B
<1> QED
  BY <1>3, <1>4, <1>6, <1>7, <1>8

ReplayOf(l, n) == (CHOOSE f : Replays(f, l, n))[n]

LEMMA ReplayIs ==
  ASSUME NEW n
  PROVE  Replay(n) = ReplayOf(settled, n)
BY DEF Replay, ReplayOf, Replays

(* An empty log leaves the namespace empty, every entry is applied to what *)
(* those before it made, and entries that are not replayed do not matter.  *)
LEMMA ReplayOfNothing ==
  ASSUME NEW l
  PROVE  ReplayOf(l, 0) = NewTree
<1> DEFINE f == CHOOSE f : Replays(f, l, 0)
<1>1. Replays(f, l, 0)
  BY ReplayExists
<1> HIDE DEF f
<1>2. f[0] = NewTree
  BY <1>1, ReplaysAt
<1> QED
  BY <1>2 DEF ReplayOf, f

LEMMA ReplayOfNext ==
  ASSUME NEW l, NEW n \in Nat
  PROVE  ReplayOf(l, n + 1) = Applied(ReplayOf(l, n), l[n + 1])
<1>1. PICK p \in Nat : p = n + 1 /\ n <= p /\ n <= n /\ p \in 1..p /\ p - 1 = n
  <2>1. n + 1 \in Nat /\ n <= n + 1 /\ n <= n /\ n + 1 \in 1..(n + 1) /\ (n + 1) - 1 = n
    OBVIOUS
  <2> QED
    BY <2>1
<1> DEFINE f == CHOOSE f : Replays(f, l, n)
           g == CHOOSE g : Replays(g, l, p)
<1>2. Replays(f, l, n) /\ Replays(g, l, p)
  <2>1. (\E h : Replays(h, l, n)) /\ \E h : Replays(h, l, p)
    BY ReplayExists
  <2> QED
    BY <2>1
<1>3. ReplayOf(l, n) = f[n] /\ ReplayOf(l, p) = g[p]
  BY DEF ReplayOf
<1> HIDE DEF f, g
<1>4. f[n] = g[n]
  BY <1>1, <1>2, ReplaysAgree
<1>5. g[p] = Applied(g[p - 1], l[p])
  BY <1>1, <1>2, ReplaysAt
<1> QED
  BY <1>1, <1>3, <1>4, <1>5

LEMMA ReplayOfSame ==
  ASSUME NEW l1, NEW l2, NEW n \in Nat, \A k \in 1..n : l1[k] = l2[k]
  PROVE  ReplayOf(l1, n) = ReplayOf(l2, n)
<1> DEFINE f == CHOOSE f : Replays(f, l1, n)
           g == CHOOSE g : Replays(g, l2, n)
<1>1. Replays(f, l1, n) /\ Replays(g, l2, n)
  <2>1. (\E h : Replays(h, l1, n)) /\ \E h : Replays(h, l2, n)
    BY ReplayExists
  <2> QED
    BY <2>1
<1>2. ReplayOf(l1, n) = f[n] /\ ReplayOf(l2, n) = g[n]
  BY DEF ReplayOf
<1> HIDE DEF f, g
<1>3. f[n] = g[n]
  BY <1>1, ReplaysAgree
<1> QED
  BY <1>2, <1>3

-----------------------------------------------------------------------------
(* A server that stays a follower *)

Scanning == {"scan", "leader?", "follower?", "get", "apply"}

(* A round leaves no entry out and applies none twice: the namespace is    *)
(* what the entries before i make, all of them committed, and a round that *)
(* has applied none has one to apply.                                      *)
ReplayInv ==
  /\ pc \in {"test", "falling asleep", "asleep"} =>
       tree = Replay(commited_index) /\ Filled(commited_index)
  /\ pc \in Scanning =>
       /\ tree = Replay(i - 1) /\ Filled(i - 1) /\ i - 1 <= last_commited_index
       /\ commited = i - 1 \/ (i = commited_index + 1 /\ commited_index < last_commited_index)
  /\ pc = "end" => commited = i - 1 /\ tree = Replay(commited) /\ Filled(commited)

Follower == current_role = "Follower"

(* What is committed stays in the history, so that an index that has had   *)
(* one entry and no other replays as before.                               *)
LEMMA ReplayStays ==
  ASSUME NEW n \in Nat, n <= MaxLog, Filled(n), Settled',
         \A k \in 1..MaxLog : committed[k] \subseteq committed'[k]
  PROVE  Replay(n)' = Replay(n) /\ Filled(n)'
<1>0. \A k \in 1..n : k \in 1..MaxLog
  BY EntryAssumption
<1>1. ASSUME NEW k \in 1..n
      PROVE  committed'[k] = committed[k] /\ committed[k] # {}
  <2>1. committed[k] # {} /\ committed[k] \subseteq committed'[k]
    BY <1>0 DEF Filled
  <2>2. \A e, f \in committed'[k] : e = f
    BY <1>0 DEF Settled
  <2> QED
    BY <2>1, <2>2
<1>2. ASSUME NEW k \in 1..n
      PROVE  settled'[k] = settled[k]
  <2>1. settled[k] = CHOOSE e \in committed[k] : TRUE
    BY <1>0 DEF settled
  <2>2. settled'[k] = CHOOSE e \in committed'[k] : TRUE
    BY <1>0 DEF settled
  <2> QED
    BY <1>1, <2>1, <2>2
<1>3. Replay(n)' = ReplayOf(settled', n) /\ Replay(n) = ReplayOf(settled, n)
  BY DEF Replay, ReplayOf, Replays
<1>4. Filled(n)'
  BY <1>1 DEF Filled
<1> QED
  BY <1>2, <1>3, <1>4, ReplayOfSame

LEMMA ReplayInit ==
  ASSUME Init
  PROVE  ReplayInv
<1>1. Replay(0) = NewTree
  BY ReplayIs, ReplayOfNothing
<1>2. Filled(0)
  BY DEF Filled
<1> QED
  BY <1>1, <1>2 DEF Init, ReplayInv, Scanning

(* A round of the loop of a follower.                                      *)
LEMMA ReplayLoop ==
  ASSUME ApplyInv, Settled, ReplayInv, Follower, FSUpdateLoop
  PROVE  ReplayInv'
<1>1. /\ UNCHANGED <<committed, last_commited_index>>
      /\ \A n : Replay(n)' = Replay(n) /\ (Filled(n)' <=> Filled(n))
  <2>1. UNCHANGED <<committed, last_commited_index>>
    BY DEF FSUpdateLoop, TestCommit, FallAsleep, ScanNext, TestLeader, TestFollower, GetEntry,
           CrashOnMissing, ApplyEntry, CrashOnDeleted, CrashOnFile, EndRound, raftVars
  <2>2. settled' = settled
    BY <2>1 DEF settled
  <2> QED
    BY <2>1, <2>2 DEF Replay, Filled
<1>2. /\ last_commited_index \in Nat /\ commited_index \in Nat /\ commited \in Nat /\ i \in Nat
      /\ commited_index <= last_commited_index /\ last_commited_index <= MaxLog /\ MaxLog \in Nat
      /\ pc \in Scanning => i >= 1
      /\ pc \in {"leader?", "follower?", "get", "apply"} => i <= last_commited_index
  BY Numbers DEF ApplyInv, NeverAhead, Scanning
<1>3. CASE TestCommit
  <2>1. UNCHANGED <<tree, commited_index>> /\ tree = Replay(commited_index) /\ Filled(commited_index)
    BY <1>3 DEF TestCommit, ReplayInv, fsVars
  <2>2. CASE pc' = "falling asleep"
    BY <1>1, <2>1, <2>2 DEF ReplayInv, Scanning
  <2>3. CASE pc' = "scan" /\ i' = commited_index + 1 /\ last_commited_index # commited_index
    <3>1. i' - 1 = commited_index /\ commited_index < last_commited_index
      BY <1>2, <2>3
    <3> QED
      BY <1>1, <1>2, <2>1, <2>3, <3>1 DEF ReplayInv, Scanning
  <2> QED
    BY <1>3, <2>2, <2>3 DEF TestCommit
<1>4. CASE FallAsleep
  BY <1>1, <1>4 DEF FallAsleep, ReplayInv, Scanning, fsVars, loopVars
<1>5. CASE ScanNext
  <2>1. /\ UNCHANGED <<tree, commited_index, i, commited>> /\ pc = "scan"
        /\ pc' = IF i <= last_commited_index THEN "leader?" ELSE "end"
    BY <1>5 DEF ScanNext, fsVars, loopVars
  <2>2. pc' = "end" => commited = i - 1
    BY <1>2, <2>1 DEF ReplayInv, Scanning
  <2> QED
    BY <1>1, <2>1, <2>2 DEF ReplayInv, Scanning
<1>6. CASE TestLeader
  BY <1>1, <1>6 DEF TestLeader, Follower, ReplayInv, Scanning, fsVars, loopVars
<1>7. CASE TestFollower
  BY <1>1, <1>7 DEF TestFollower, Follower, ReplayInv, Scanning, fsVars, loopVars
<1>8. CASE ApplyEntry
  <2>1. /\ pc = "apply" /\ pc' = "scan" /\ i' = i + 1 /\ commited' = i
        /\ tree' = Applied(tree, entry)
    BY <1>8 DEF ApplyEntry
  <2>2. PICK n \in Nat : n = i - 1 /\ n + 1 = i /\ i' - 1 = i
    <3>1. i - 1 \in Nat /\ (i - 1) + 1 = i /\ (i + 1) - 1 = i
      BY <1>2, <2>1 DEF Scanning
    <3> QED
      BY <2>1, <3>1
  <2>3. tree = Replay(n) /\ Filled(n)
    BY <2>1, <2>2 DEF ReplayInv, Scanning
  <2>4. i \in 1..MaxLog /\ entry \in committed[i]
    BY <1>2, <2>1 DEF ApplyInv, HoldsCommitted, Scanning
  <2>5. settled[i] = entry
    BY <2>4 DEF Settled, settled
  <2>6. ReplayOf(settled, n + 1) = Applied(ReplayOf(settled, n), settled[n + 1])
    BY ReplayOfNext
  <2>7. tree' = Replay(i)
    BY <2>1, <2>2, <2>3, <2>5, <2>6, ReplayIs
  <2>8. Filled(i)
    <3>1. \A k \in 1..i : k \in 1..n \/ k = i
      BY <2>2, <2>4
    <3> QED
      BY <2>3, <2>4, <3>1 DEF Filled
  <2>9. i' - 1 = i /\ i <= last_commited_index /\ commited' = i' - 1
    BY <1>2, <2>1, <2>2
  <2> QED
    BY <1>1, <2>1, <2>7, <2>8, <2>9 DEF ReplayInv, Scanning
<1>9. CASE CrashOnMissing \/ CrashOnDeleted \/ CrashOnFile
  BY <1>9 DEF CrashOnMissing, CrashOnDeleted, CrashOnFile, ReplayInv, Scanning
<1>10. CASE EndRound
  <2>1. UNCHANGED tree /\ commited_index' = commited /\ pc = "end" /\ pc' = "test"
    BY <1>10 DEF EndRound
  <2> QED
    BY <1>1, <2>1 DEF ReplayInv, Scanning
<1>11. CASE GetEntry
  BY <1>1, <1>11 DEF GetEntry, ReplayInv, Scanning, fsVars
<1> QED
  BY <1>3, <1>4, <1>5, <1>6, <1>7, <1>8, <1>9, <1>10, <1>11 DEF FSUpdateLoop

(* What the history has of an index stays there.                           *)
LEMMA HistoryStays ==
  ASSUME TypeOK, Others
  PROVE  /\ \A k \in 1..MaxLog : committed[k] \subseteq committed'[k]
         /\ last_commited_index <= last_commited_index'
<1>1. last_commited_index \in Nat
  BY Numbers
<1>2. ASSUME NEW k \in 1..MaxLog
      PROVE  committed[k] \subseteq committed'[k]
  <2>1. ASSUME NEW p, CrashOnList(p)
        PROVE  committed'[k] = committed[k]
    BY <2>1 DEF CrashOnList, raftVars
  <2>2. ASSUME NEW role, ChangeRole(role)
        PROVE  committed'[k] = committed[k]
    BY <2>2 DEF ChangeRole
  <2>3. ASSUME NEW q, NEW e, ChangeLog(q, e)
        PROVE  committed[k] \subseteq committed'[k]
    BY <2>3 DEF ChangeLog, TypeOK
  <2>4. ASSUME NEW last, SetLastCommitIndex(last)
        PROVE  committed[k] \subseteq committed'[k]
    BY <2>4 DEF SetLastCommitIndex
  <2> QED
    BY <2>1, <2>2, <2>3, <2>4 DEF Others, CommitAsFollower, CommitAsLeader
<1>3. \/ last_commited_index' = last_commited_index
      \/ last_commited_index' \in 1..MaxLog /\ last_commited_index' > last_commited_index
  BY DEF Others, CrashOnList, ChangeRole, ChangeLog, CommitAsFollower, CommitAsLeader,
         SetLastCommitIndex, raftVars
<1> QED
  BY <1>1, <1>2, <1>3

(* What the other threads do to the log and the commit index.              *)
LEMMA ReplayOthers ==
  ASSUME ApplyInv, ReplayInv, Settled', Others
  PROVE  ReplayInv'
<1>1. UNCHANGED <<tree, commited_index, i, commited>>
  BY DEF Others, CrashOnList, ChangeRole, ChangeLog, CommitAsFollower, CommitAsLeader, fsVars,
         loopVars
<1>2. pc' = pc \/ (pc = "asleep" /\ pc' = "test") \/ pc' = "crashed"
  BY DEF Others, CrashOnList, ChangeRole, ChangeLog, CommitAsFollower, CommitAsLeader,
         SetLastCommitIndex, Notify
<1>3. /\ last_commited_index \in Nat /\ commited_index \in Nat /\ commited \in Nat /\ i \in Nat
      /\ commited_index <= last_commited_index /\ commited <= last_commited_index
      /\ last_commited_index <= MaxLog /\ MaxLog \in Nat
      /\ last_commited_index' \in Nat
      /\ pc \in Scanning => i >= 1
  <2>1. TypeOK'
    BY OthersStep DEF ApplyInv
  <2>2. last_commited_index' \in 0..MaxLog
    BY <2>1 DEF TypeOK, Index
  <2> QED
    BY <2>2, Numbers DEF ApplyInv, NeverAhead, Scanning
<1>4. /\ \A k \in 1..MaxLog : committed[k] \subseteq committed'[k]
      /\ last_commited_index <= last_commited_index'
  BY HistoryStays DEF ApplyInv
<1>5. ASSUME NEW n \in Nat, n <= last_commited_index, Filled(n)
      PROVE  Replay(n)' = Replay(n) /\ Filled(n)'
  <2>1. n <= MaxLog
    BY <1>3, <1>5
  <2> QED
    BY <1>4, <1>5, <2>1, ReplayStays
<1>6. ASSUME Filled(commited_index)
      PROVE  Replay(commited_index)' = Replay(commited_index) /\ Filled(commited_index)'
  BY <1>1, <1>3, <1>5, <1>6
<1>7. ASSUME Filled(commited)
      PROVE  Replay(commited)' = Replay(commited) /\ Filled(commited)'
  BY <1>1, <1>3, <1>5, <1>7
<1>8. ASSUME pc \in Scanning
      PROVE  /\ Replay(i - 1)' = Replay(i - 1) /\ Filled(i - 1)'
             /\ i' - 1 <= last_commited_index'
  <2>1. PICK n \in Nat : n = i - 1 /\ n <= last_commited_index /\ Filled(n)
    <3>1. i - 1 <= last_commited_index /\ Filled(i - 1)
      BY <1>8 DEF ReplayInv
    <3>2. i - 1 \in Nat
      BY <1>3, <1>8
    <3> QED
      BY <3>1, <3>2
  <2>2. (i - 1)' = n
    BY <1>1, <2>1
  <2>3. i' - 1 <= last_commited_index'
    BY <1>1, <1>3, <1>4, <2>1
  <2>4. n <= MaxLog
    BY <1>3, <2>1
  <2>5. Replay(n)' = Replay(n) /\ Filled(n)'
    BY <1>4, <2>1, <2>4, ReplayStays
  <2> QED
    BY <1>1, <2>1, <2>2, <2>3, <2>5 DEF Replay, Filled
<1>9. commited_index < last_commited_index => commited_index' < last_commited_index'
  BY <1>1, <1>3, <1>4
<1> QED
  BY <1>1, <1>2, <1>6, <1>7, <1>8, <1>9 DEF ReplayInv, Scanning

(* On a server that stays a follower and has one entry only at each        *)
(* committed index the namespace is, at the end of every round, what these *)
(* entries make up to commited_index: each is applied once and in order    *)
(* (FSUpdateLoop), whatever is done to the log while it is.                *)
THEOREM FollowerAppliesLog == Spec => FollowerReplaysLog
<1>1. ReplayInv /\ ApplyInv /\ Follower /\ Settled /\ Settled' /\ [Next]_vars => ReplayInv'
  <2> SUFFICES ASSUME ReplayInv, ApplyInv, Follower, Settled, Settled', [Next]_vars
               PROVE  ReplayInv'
    OBVIOUS
  <2>1. CASE FSUpdateLoop
    BY <2>1, ReplayLoop
  <2>2. CASE Others
    BY <2>2, ReplayOthers
  <2>3. CASE UNCHANGED vars
    <3>1. UNCHANGED <<tree, commited_index, pc, i, commited, last_commited_index, committed>>
      BY <2>3 DEF vars, raftVars, fsVars, loopVars
    <3>2. /\ Replay(commited_index)' = Replay(commited_index)
          /\ Replay(commited)' = Replay(commited) /\ Replay(i - 1)' = Replay(i - 1)
          /\ Filled(commited_index)' <=> Filled(commited_index)
          /\ Filled(commited)' <=> Filled(commited)
          /\ Filled(i - 1)' <=> Filled(i - 1)
      BY <3>1 DEF Replay, settled, Filled
    <3> QED
      BY <3>1, <3>2 DEF ReplayInv
  <2> QED
    BY <2>1, <2>2, <2>3 DEF Next
<1>2. ReplayInv => (pc \in {"test", "falling asleep", "asleep"} =>
                      Filled(commited_index) /\ tree = Replay(commited_index))
  BY DEF ReplayInv
<1>3. Init => ReplayInv
  BY ReplayInit
<1>4. Spec => []ApplyInv
  BY InitApplyInv, ApplyStays, PTL DEF Spec
<1> QED
  BY <1>1, <1>2, <1>3, <1>4, PTL DEF Spec, FollowerReplaysLog, Follower
=============================================================================
