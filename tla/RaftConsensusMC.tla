--------------------------- MODULE RaftConsensusMC ---------------------------
(***************************************************************************)
(* Instances of RaftConsensus for TLC.                                     *)
(***************************************************************************)
EXTENDS RaftElection, TLC

Symmetry == Permutations(Server) \cup Permutations(Op)

(* A state Init leads to: some server has won the first election with the  *)
(* votes of all, and every call of that election is over.  The runs about  *)
(* replication start here.                                                 *)
LedBy(l) ==
  /\ up = [i \in Server |-> TRUE]
  /\ current_term = [i \in Server |-> 1]
  /\ current_role = [i \in Server |-> IF i = l THEN "Leader" ELSE "Follower"]
  /\ leader_id = [i \in Server |-> IF i = l THEN l ELSE None]
  /\ vote_for = [i \in Server |-> [t \in Term |-> IF t = 1 THEN l ELSE None]]
  /\ \E voters \in SUBSET Server :
       /\ l \in voters /\ Cardinality(voters) = quorum_size
       /\ vote_pool = [i \in Server |-> IF i = l THEN voters ELSE {}]
  /\ log = [i \in Server |-> <<>>]
  /\ last_commited_index = [i \in Server |-> 0]
  /\ next_index = [i \in Server |-> [j \in Server |-> IF i = l THEN 1 ELSE 0]]
  /\ pending_entries = [i \in Server |-> {}]
  /\ rpc = [i \in Server |-> [j \in Server |-> Idle]]
  /\ orphans = {}
  /\ call = [o \in Op |-> NewCall]
  /\ crashes = 0

LedInit == \E l \in Server : LedBy(l)

(* A state LedInit leads to, of three servers: a, the leader of term 1,    *)
(* appended the operation x and reached nobody with it; b won term 2 with  *)
(* the vote of c, appended y and shipped it to c, while a, whose log has x *)
(* at that index, refuses it for good.  All calls are over.                *)
Divided(a, b, c, x, y) ==
  /\ up = [i \in Server |-> TRUE]
  /\ current_term = [i \in Server |-> 2]
  /\ current_role = [i \in Server |-> IF i = b THEN "Leader" ELSE "Follower"]
  /\ leader_id = [i \in Server |-> b]
  /\ vote_for = [i \in Server |-> [t \in Term |->
       IF t = 1 THEN a ELSE IF t = 2 /\ i # a THEN b ELSE None]]
  /\ vote_pool = [i \in Server |-> IF i = a THEN {a, b} ELSE IF i = b THEN {b, c} ELSE {}]
  /\ log = [i \in Server |->
       IF i = a THEN AppendOne(<<>>, 1, x) ELSE AppendOne(<<>>, 2, y)]
  /\ last_commited_index = [i \in Server |-> 0]
  /\ next_index = [i \in Server |-> [j \in Server |->
       IF i = c THEN 0 ELSE IF i = b /\ j = c THEN 2 ELSE 1]]
  /\ pending_entries = [i \in Server |-> IF i = b THEN {<<1, c>>} ELSE {}]
  /\ rpc = [i \in Server |-> [j \in Server |-> Idle]]
  /\ orphans = {}
  /\ call = [o \in Op |->
       IF o = x THEN [pc |-> "waiting", at |-> a, term |-> 1, index |-> 1]
       ELSE IF o = y THEN [pc |-> "waiting", at |-> b, term |-> 2, index |-> 1]
       ELSE NewCall]
  /\ crashes = 0

DividedInit ==
  \E a, b, c \in Server : \E x, y \in Op :
    Cardinality({a, b, c}) = 3 /\ x # y /\ Divided(a, b, c, x, y)

(* What AtomicSpec assumes, and no client is answered: an answer ends the  *)
(* wait of its handler and changes nothing else.                           *)
Unanswered == \A o \in Op : call'[o].pc \notin {"ok", "timeout"}

LedAtomicSpec ==
  LedInit /\ [][Next /\ NoRestart /\ RoundsDoNotOverlap /\ HandlersAreAtomic /\ Unanswered]_vars

(* The assumptions of AtomicSpec until a server crashes.  After it there   *)
(* are none, servers come back, and terms, operations and late requests    *)
(* are bounded.                                                            *)
CarefulUntilCrash == crashes' = 0 => NoRestart /\ RoundsDoNotOverlap /\ HandlersAreAtomic

BoundAfterCrash ==
  crashes' > 0 =>
    /\ \A i \in Server : current_term'[i] <= 2
    /\ Cardinality({o \in Op : call'[o].pc # "new"}) + Cardinality(orphans') <= 2

CrashSpec == LedInit /\ [][Next /\ CarefulUntilCrash /\ BoundAfterCrash]_vars

(* No call is lost.                                                        *)
CallsAnswered == \A i, j \in Server : rpc[i][j].st \in {"vote", "append"} => rpc'[i][j].st # "idle"

(* With MaxTerm = 1 nobody but the leader calls anyone, and its role,      *)
(* leader_id and term never change, so the steps of client handlers before *)
(* their append commute with all others: the operations come one after the *)
(* other.  The remotes are alike too: one of them has voted, and late      *)
(* requests reach that one only.                                           *)
Leader1 == CHOOSE l \in Server : TRUE
Remote1 == CHOOSE r \in Server : r # Leader1
Op1 == CHOOSE o \in Op : TRUE

LedFairSpec ==
  /\ LedBy(Leader1) /\ vote_pool[Leader1] = {Leader1, Remote1}
  /\ [][/\ Next /\ NoRestart /\ RoundsDoNotOverlap /\ HandlersAreAtomic
        /\ \A m \in orphans' : m.to = Remote1
        /\ \A o \in Op \ {Op1} : call'[o].pc # "new" => call'[Op1].index > 0]_vars
  /\ RemoteHostFairness(Leader1)

Commits == INSTANCE CommitLog WITH
  leader <- Leader1,
  accepted <- [k \in DOMAIN log[Leader1] |-> log[Leader1][k].op],
  committed <- [s \in Server |-> CommitIndex(s)],
  answer <- [o \in Op |-> IF call[o].pc \in {"ok", "timeout"} THEN call[o].pc ELSE "none"]

(* Under a leader that stays, requests, acknowledgements and answers come  *)
(* to what CommitLog promises, also when they are lost and repeated or     *)
(* handled late: no server is ahead of the leader, none goes back, and a   *)
(* client gets kOK or kTimeout by the leader's commit index alone          *)
(* (OnMetaOperation's wait, OnAppendEntries, RemoteHostLoop's leader       *)
(* branch).                                                                *)
ImplementsCommitLog == Commits!Spec

DividedSpec ==
  DividedInit /\ [][Next /\ NoRestart /\ RoundsDoNotOverlap /\ HandlersAreAtomic /\ CallsAnswered]_vars
=============================================================================
