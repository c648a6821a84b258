---------------------------- MODULE PerfTestProofs ----------------------------
(***************************************************************************)
(* What a client takes for its leader, and when it gives up, proved for    *)
(* any number of hosts that go down and come up as they like, whatever its *)
(* tester calls; and what the tester expects of the servers, whatever they *)
(* answer.                                                                 *)
(***************************************************************************)
EXTENDS PerfTest, TLAPS

Known == leader_id \in Host

(* Where the client may be without a leader.                               *)
Searching == {"get leader", "connect", "retry", "not connected", "ask", "ended"}

(* How the client's place, its operation and its two records of the leader *)
(* (leader_id, and the host of leader_sock) go together.                   *)
LeaderKept ==
  /\ pc = "open leader" => Known /\ leader.host = NoLeader
  /\ pc # "open leader" => leader.host = leader_id
  /\ pc \in {"write", "move"} => Known
  /\ pc \in Searching => op \in {"FSClient"} \cup Write \cup Read
  /\ pc \in {"connect", "retry", "not connected"} /\ op \notin Read => ~Known
  /\ pc \in {"ask", "ended"} => ~Known
  /\ pc \in {"get leader", "ask", "open leader", "move", "write"} => op \notin Read
  /\ N >= 3 => TurnsToAnotherHost

(* create_test_tree has a next call as long as the tester is in it.        *)
MadeInTree == made \in Nat /\ (test \in {"new", "creating"} => made < Len(create_test_tree))

ClientInv == TypeOK /\ LeaderKept /\ MadeInTree

-----------------------------------------------------------------------------
(* Hosts *)

(* Two further on is another host, if there are three.                     *)
LEMMA RotatedType ==
  ASSUME NEW f \in Host
  PROVE  Rotated(f) \in Host /\ (N >= 3 => Rotated(f) # f)
<1>1. N \in Nat /\ N > 0 /\ f + 1 \in Nat
  BY NAssumption DEF Host
<1>2. (f + 1) % N \in 0..(N - 1)
  BY <1>1
<1>3. ASSUME N >= 3 PROVE (f + 1) % N # f - 1
  <2>1. CASE f + 1 < N
    <3>1. (f + 1) % N = f + 1
      BY <1>1, <2>1
    <3> QED
      BY <3>1 DEF Host
  <2>2. CASE f + 1 >= N
    <3>1. f + 1 = N \/ f + 1 = N + 1
      BY <1>1, <2>2 DEF Host
    <3>2. N % N = 0 /\ (N + 1) % N = 1
      BY <1>1, <1>3
    <3> QED
      BY <1>1, <1>3, <3>1, <3>2 DEF Host
  <2> QED
    BY <1>1, <2>1, <2>2
<1> QED
  BY <1>1, <1>2, <1>3 DEF Rotated, Host

(* A new socket is of its host, whether it opens or not.                   *)
LEMMA SocketType ==
  ASSUME NEW h
  PROVE  Socket(h).host = h /\ Socket(h) \in [host : {h}, st : {"open", "dead", "closed"}]
BY DEF Socket

-----------------------------------------------------------------------------
(* Steps of the client *)

LeaderSocket == [host : Host \cup {NoLeader}, st : {"open", "dead", "closed"}]
FollowerSocket == [host : Host, st : {"open", "dead", "closed"}]

(* What a step leaves of the leader, beside the invariant.                 *)
KeepsLeader ==
  leader_id # NoLeader => leader_id' = leader_id /\ leader'.host \in {leader.host, leader_id}

(* -1 is no host.                                                          *)
LEMMA NoLeaderIsNoHost == NoLeader \notin Host
BY DEF NoLeader, Host

(* Steps that change neither record of the leader.                         *)
LEMMA SearchStep ==
  ASSUME TypeOK, LeaderKept,
         \/ GetLeader \/ ConnectFollower \/ Opened \/ Refused \/ NotConnected \/ AskInVain
         \/ (op \in Read /\ \E s \in ReadAnswer[op] : ReadAnswered(s)) \/ ReadFails
  PROVE  TypeOK' /\ LeaderKept' /\ KeepsLeader
<1>1. UNCHANGED <<up, leader_id, leader, op>>
  BY DEF GetLeader, ConnectFollower, Opened, Refused, NotConnected, AskInVain, ReadAnswered,
         ReadFails, sockets
<1>2. KeepsLeader
  BY <1>1 DEF KeepsLeader
<1>3. CASE GetLeader
  BY <1>1, <1>2, <1>3, NoLeaderIsNoHost
     DEF GetLeader, TypeOK, LeaderKept, Known, Searching, sockets, TurnsToAnotherHost
<1>4. CASE ConnectFollower
  BY <1>1, <1>2, <1>4
     DEF ConnectFollower, Connected, TypeOK, LeaderKept, Known, Searching, sockets, TurnsToAnotherHost
<1>5. CASE Opened
  <2>1. follower' \in FollowerSocket
    BY <1>5, SocketType DEF Opened, TypeOK, FollowerSocket
  <2>2. TypeOK'
    BY <1>1, <1>5, <2>1, NAssumption DEF Opened, Connected, TypeOK, FollowerSocket
  <2> QED
    BY <1>1, <1>2, <1>5, <2>2 DEF Opened, Connected, LeaderKept, Known, Searching, TurnsToAnotherHost
<1>6. CASE Refused
  <2>1. follower' \in FollowerSocket
    BY <1>6, SocketType DEF Refused, TypeOK, FollowerSocket
  <2>2. follower_id' \in Host /\ retry' \in 0..N /\ refused' \subseteq Host
    <3>1. follower_id \in Host /\ retry \in 0..N /\ refused \subseteq Host
      BY DEF TypeOK
    <3>2. refused' = refused \cup {follower_id}
      BY <1>6 DEF Refused
    <3>3. CASE retry < N
      <4>1. follower_id' = Rotated(follower_id) /\ retry' = retry + 1
        BY <1>6, <3>3 DEF Refused
      <4>2. follower_id' \in Host
        BY <3>1, <4>1, RotatedType
      <4>3. retry' \in 0..N
        BY <3>1, <3>3, <4>1, NAssumption
      <4> QED
        BY <3>1, <3>2, <4>2, <4>3
    <3>4. CASE ~(retry < N)
      BY <1>6, <3>1, <3>2, <3>4 DEF Refused
    <3> QED
      BY <3>3, <3>4
  <2>3. pc' \in {"retry", "not connected"} /\ pc = "retry" /\ UNCHANGED status
    BY <1>6 DEF Refused
  <2>4. TypeOK'
    BY <1>1, <2>1, <2>2, <2>3 DEF TypeOK, FollowerSocket
  <2> QED
    BY <1>1, <1>2, <2>3, <2>4 DEF LeaderKept, Known, Searching, TurnsToAnotherHost
<1>7. CASE NotConnected
  <2>1. /\ pc' = "idle" /\ status' \in Status /\ retry' = 0 /\ refused' = {}
        /\ UNCHANGED <<follower_id, follower>> /\ pc = "not connected"
    BY <1>7 DEF NotConnected, Return, Status, sockets
  <2>2. 0 \in 0..N
    BY NAssumption
  <2>3. TypeOK'
    BY <1>1, <2>1, <2>2 DEF TypeOK
  <2> QED
    BY <1>1, <1>2, <2>1, <2>3 DEF LeaderKept, Known, Searching, TurnsToAnotherHost
<1>8. CASE AskInVain
  BY <1>1, <1>2, <1>8
     DEF AskInVain, TypeOK, LeaderKept, Known, Searching, sockets, TurnsToAnotherHost
<1>9. CASE op \in Read /\ \E s \in ReadAnswer[op] : ReadAnswered(s)
  <2>1. PICK s \in Status : ReadAnswered(s)
    BY <1>9 DEF ReadAnswer, Read, Status
  <2> QED
    BY <1>1, <1>2, <2>1
       DEF ReadAnswered, Return, TypeOK, LeaderKept, Known, Searching, sockets, TurnsToAnotherHost
<1>10. CASE ReadFails
  <2>1. follower' \in FollowerSocket
    BY <1>10 DEF ReadFails, Fails, TypeOK, FollowerSocket
  <2> QED
    BY <1>1, <1>2, <1>10, <2>1
       DEF ReadFails, Return, TypeOK, FollowerSocket, Status, LeaderKept, Known, Searching, TurnsToAnotherHost
<1> QED
  BY <1>3, <1>4, <1>5, <1>6, <1>7, <1>8, <1>9, <1>10

(* Steps that find the leader, and write to it.                            *)
LEMMA LeaderStep ==
  ASSUME TypeOK, LeaderKept,
         \/ (\E l \in Host : AskLeader(l)) \/ OpenLeader \/ MoveFollower
         \/ (\E a \in WriteAnswer : WriteAnswered(a)) \/ WriteFails
  PROVE  TypeOK' /\ LeaderKept' /\ KeepsLeader
<1>1. ASSUME NEW l \in Host, AskLeader(l) PROVE TypeOK' /\ LeaderKept' /\ KeepsLeader
  BY <1>1, NoLeaderIsNoHost
     DEF AskLeader, TypeOK, LeaderKept, Known, Searching, sockets, TurnsToAnotherHost, KeepsLeader
<1>2. CASE OpenLeader
  <2>1. /\ leader_id \in Host /\ follower_id \in Host
        /\ UNCHANGED <<up, leader_id, follower, op, retry, refused>>
        /\ pc = "open leader" /\ op \notin Read
    BY <1>2 DEF OpenLeader, TypeOK, LeaderKept, Known
  <2>2. leader' \in LeaderSocket /\ leader'.host = leader_id
    BY <1>2, <2>1, SocketType DEF OpenLeader, LeaderSocket
  <2>3. CASE leader_id = follower_id
    <3>1. follower_id' = Rotated(follower_id) /\ pc' = "move" /\ UNCHANGED status
      BY <1>2, <2>3 DEF OpenLeader
    <3>2. follower_id' \in Host /\ (N >= 3 => follower_id' # leader_id')
      BY <2>1, <2>3, <3>1, RotatedType
    <3> QED
      BY <2>1, <2>2, <3>1, <3>2
         DEF TypeOK, LeaderSocket, LeaderKept, Known, Searching, TurnsToAnotherHost, KeepsLeader
  <2>4. CASE leader_id # follower_id
    <3>1. Continue /\ UNCHANGED follower_id
      BY <1>2, <2>4 DEF OpenLeader
    <3> QED
      BY <2>1, <2>2, <3>1
         DEF Continue, Return, TypeOK, Status, LeaderSocket, LeaderKept, Known, Searching,
             TurnsToAnotherHost, KeepsLeader
  <2> QED
    BY <2>3, <2>4
<1>3. CASE MoveFollower
  <2>1. follower' \in FollowerSocket
    BY <1>3, SocketType DEF MoveFollower, TypeOK, FollowerSocket
  <2> QED
    BY <1>3, <2>1
       DEF MoveFollower, Continue, Return, TypeOK, Status, FollowerSocket, LeaderKept, Known, Searching,
           TurnsToAnotherHost, KeepsLeader
<1>4. ASSUME NEW a \in WriteAnswer, WriteAnswered(a) PROVE TypeOK' /\ LeaderKept' /\ KeepsLeader
  <2>1. a.status = "kOK" => a.leader_id = NoLeader
    BY DEF WriteAnswer
  <2>2. a.status \in Status
    BY DEF WriteAnswer, Status
  <2>3. UNCHANGED <<up, leader_id, leader, follower_id, follower, op, retry, refused>>
    BY <1>4, <2>1 DEF WriteAnswered
  <2>4. pc' = "idle" /\ status' \in Status /\ pc = "write"
    BY <1>4, <2>2 DEF WriteAnswered, Return
  <2> QED
    BY <2>3, <2>4 DEF TypeOK, LeaderKept, Known, Searching, TurnsToAnotherHost, KeepsLeader
<1>5. CASE WriteFails
  <2>1. leader' \in LeaderSocket /\ leader'.host = leader.host
    BY <1>5 DEF WriteFails, Fails, TypeOK, LeaderSocket
  <2> QED
    BY <1>5, <2>1
       DEF WriteFails, Return, TypeOK, LeaderSocket, Status, LeaderKept, Known, Searching,
           TurnsToAnotherHost, KeepsLeader
<1> QED
  BY <1>1, <1>2, <1>3, <1>4, <1>5

(* The tester calls and takes an answer, and hosts go down and come up.    *)
LEMMA CallStep ==
  ASSUME TypeOK, LeaderKept, (\E o \in Cmd : Call(o)) \/ Take
  PROVE  TypeOK' /\ LeaderKept' /\ KeepsLeader
<1>1. UNCHANGED <<up, leader_id, follower_id, leader, follower, retry, refused>> /\ pc = "idle"
  BY DEF Call, Take, sockets
<1>2. leader.host = leader_id
  BY <1>1 DEF LeaderKept
<1>3. ASSUME NEW o \in Cmd, Call(o) PROVE TypeOK' /\ LeaderKept'
  <2>1. /\ op' = o /\ UNCHANGED status
        /\ \/ o \in Write /\ o \notin Read /\ pc' = "get leader"
           \/ o \in Read /\ pc' = "connect"
    BY <1>3 DEF Call, Cmd, Write, Read
  <2>2. TypeOK'
    BY <1>1, <2>1 DEF TypeOK, Cmd
  <2> QED
    BY <1>1, <1>2, <2>1, <2>2 DEF LeaderKept, Known, Searching, TurnsToAnotherHost
<1>4. ASSUME Take PROVE TypeOK' /\ LeaderKept'
  <2>1. pc' = "idle" /\ op' = "none" /\ status' \in Status
    BY <1>1, <1>4 DEF Take, Status
  <2>2. TypeOK'
    BY <1>1, <2>1 DEF TypeOK
  <2> QED
    BY <1>1, <1>2, <2>1, <2>2 DEF LeaderKept, Known, Searching, TurnsToAnotherHost
<1> QED
  BY <1>1, <1>3, <1>4 DEF KeepsLeader

(* Hosts go down and come up: connections break, records stay.             *)
LEMMA HostStep ==
  ASSUME TypeOK, LeaderKept, NEW h \in Host, GoesDown(h) \/ ComesUp(h)
  PROVE  TypeOK' /\ LeaderKept' /\ KeepsLeader
<1>1. /\ up' \subseteq Host
      /\ UNCHANGED <<leader_id, follower_id, pc, op, retry, status, refused>>
  BY DEF GoesDown, ComesUp, TypeOK
<1>2. leader' \in LeaderSocket /\ leader'.host = leader.host /\ follower' \in FollowerSocket
  BY DEF GoesDown, ComesUp, Broken, sockets, TypeOK, LeaderSocket, FollowerSocket
<1>3. TypeOK'
  BY <1>1, <1>2 DEF TypeOK, LeaderSocket, FollowerSocket
<1> QED
  BY <1>1, <1>2, <1>3 DEF LeaderKept, Known, Searching, TurnsToAnotherHost, KeepsLeader

-----------------------------------------------------------------------------
(* Steps of the program *)

(* create_test_tree makes six calls.                                       *)
LEMMA CallsMade ==
  /\ Len(create_test_tree) = 6
  /\ \A i \in 1..6 : create_test_tree[i].op \in Cmd
BY DEF create_test_tree, Cmd, Write, Read

(* Whatever the tester does, the client knows its leader.                  *)
LEMMA TesterKeepsClient ==
  ASSUME ClientInv, TesterStep
  PROVE  ClientInv' /\ (KeepsLeader \/ UNCHANGED vars)
<1>1. UNCHANGED vars \/ (\E o \in Cmd : Call(o)) \/ Take
  <2>1. CASE Create
    <3>1. made + 1 \in 1..6
      BY <2>1, CallsMade DEF Create, Free, ClientInv, MadeInTree
    <3> QED
      BY <2>1, <3>1, CallsMade DEF Create, Begin
  <2>2. CASE NewTester \/ ForceStop \/ Finish
    BY <2>2 DEF NewTester, ForceStop, Finish
  <2>3. CASE Created \/ Executed
    BY <2>3 DEF Created, Executed, Answered
  <2>4. CASE \E c \in Write : RunWrite(c) \/ NoValidNode(c)
    BY <2>4 DEF RunWrite, NoValidNode, Begin, Cmd
  <2>5. CASE \E c \in Read : RunRead(c)
    BY <2>5 DEF RunRead, Begin, Cmd
  <2> QED
    BY <2>1, <2>2, <2>3, <2>4, <2>5 DEF TesterStep
<1>2. TypeOK' /\ LeaderKept' /\ (KeepsLeader \/ UNCHANGED vars)
  <2>1. CASE UNCHANGED vars
    <3>1. UNCHANGED <<up, leader_id, follower_id, leader, follower, pc, op, retry, status, refused>>
      BY <2>1 DEF vars, sockets
    <3>2. TypeOK'
      BY <3>1 DEF ClientInv, TypeOK
    <3>3. LeaderKept'
      BY <3>1 DEF ClientInv, LeaderKept, Known, Searching, TurnsToAnotherHost
    <3> QED
      BY <2>1, <3>2, <3>3
  <2> QED
    BY <1>1, <2>1, CallStep DEF ClientInv
<1>3. MadeInTree'
  <2>1. CASE Created
    <3>1. made' = made + 1 /\ test = "creating" /\ made < 6 /\ made \in Nat
      BY <2>1, CallsMade DEF Created, Answered, ClientInv, MadeInTree
    <3>2. test' = IF made' = 6 THEN "running" ELSE test
      BY <2>1, CallsMade DEF Created
    <3> QED
      BY <3>1, <3>2, CallsMade DEF MadeInTree
  <2>2. CASE NewTester \/ Create \/ ForceStop \/ Finish \/ Executed
    BY <2>2 DEF NewTester, Create, ForceStop, Finish, Executed, Answered, Free, ClientInv, MadeInTree
  <2>3. CASE \E c \in Write : RunWrite(c) \/ NoValidNode(c)
    BY <2>3 DEF RunWrite, NoValidNode, ClientInv, MadeInTree
  <2>4. CASE \E c \in Read : RunRead(c)
    BY <2>4 DEF RunRead, ClientInv, MadeInTree
  <2> QED
    BY <2>1, <2>2, <2>3, <2>4 DEF TesterStep
<1> QED
  BY <1>2, <1>3 DEF ClientInv

(* So it does when it is made.                                             *)
LEMMA InitKnows == ASSUME TestInit PROVE ClientInv
<1>1. follower_id \in Host /\ follower \in FollowerSocket
  BY SocketType DEF TestInit, Init, FollowerSocket
<1>2. TypeOK
  <2>1. /\ up \subseteq Host /\ leader_id = NoLeader /\ refused = {}
        /\ leader = [host |-> NoLeader, st |-> "closed"]
        /\ pc = "get leader" /\ op = "FSClient" /\ retry = 0 /\ status \in Status
    BY DEF TestInit, Init, Status
  <2>2. 0 \in 0..N
    BY NAssumption
  <2> QED
    BY <1>1, <2>1, <2>2 DEF TypeOK, FollowerSocket
<1>3. LeaderKept
  BY NoLeaderIsNoHost
     DEF TestInit, Init, LeaderKept, Known, Searching, TurnsToAnotherHost, Read, Write
<1>4. MadeInTree
  BY CallsMade DEF TestInit, MadeInTree
<1> QED
  BY <1>2, <1>3, <1>4 DEF ClientInv

(* The invariant of the client is inductive.                               *)
LEMMA StepKnows ==
  ASSUME ClientInv, [TestNext]_allVars
  PROVE  ClientInv' /\ (KeepsLeader \/ UNCHANGED vars)
<1>1. CASE ClientStep
  <2>1. TypeOK' /\ LeaderKept' /\ KeepsLeader
    BY <1>1, SearchStep, LeaderStep DEF ClientStep, Steps, ClientInv
  <2>2. MadeInTree'
    BY <1>1 DEF ClientStep, testVars, ClientInv, MadeInTree
  <2> QED
    BY <2>1, <2>2 DEF ClientInv
<1>2. CASE TesterStep
  BY <1>2, TesterKeepsClient
<1>3. CASE HostChanges
  <2>1. TypeOK' /\ LeaderKept' /\ KeepsLeader
    BY <1>3, HostStep, TestParameters DEF HostChanges, ClientInv
  <2>2. MadeInTree'
    BY <1>3 DEF HostChanges, testVars, ClientInv, MadeInTree
  <2> QED
    BY <2>1, <2>2 DEF ClientInv
<1>4. CASE UNCHANGED allVars
  <2>1. UNCHANGED vars /\ UNCHANGED <<made, test>>
    BY <1>4 DEF allVars, testVars
  <2>2. /\ UNCHANGED <<up, leader_id, follower_id, leader, follower>>
        /\ UNCHANGED <<pc, op, retry, status, refused>>
    BY <2>1 DEF vars, sockets
  <2>3. TypeOK' /\ LeaderKept'
    <3>1. TypeOK'
      BY <2>2 DEF ClientInv, TypeOK
    <3>2. LeaderKept'
      BY <2>2 DEF ClientInv, LeaderKept, Known, Searching, TurnsToAnotherHost
    <3> QED
      BY <3>1, <3>2
  <2>4. MadeInTree'
    BY <2>1 DEF ClientInv, MadeInTree
  <2> QED
    BY <2>1, <2>3, <2>4 DEF ClientInv
<1> QED
  BY <1>1, <1>2, <1>3, <1>4 DEF TestNext

-----------------------------------------------------------------------------
(* Theorems *)

(* The client's invariant holds in every program with a tester.            *)
LEMMA ClientInvariant == TestSpec => []ClientInv
<1>1. TestInit => ClientInv
  BY InitKnows
<1>2. ClientInv /\ [TestNext]_allVars => ClientInv'
  BY StepKnows
<1> QED
  BY <1>1, <1>2, PTL DEF TestSpec

(* Writes go to a connection made to the host that the client takes for    *)
(* the leader, the program ends in GetLeader only without a leader, and    *)
(* with three hosts the follower turns to another one: for every number of *)
(* hosts and every tester (RaftFS.cpp:64-92, 207, 226).                    *)
THEOREM ClientKnowsItsLeader ==
  TestSpec => [](TypeOK /\ WritesToLeader /\ EndsOnlyWithoutLeader
                  /\ (N >= 3 => TurnsToAnotherHost))
<1>1. ClientInv => /\ TypeOK /\ WritesToLeader /\ EndsOnlyWithoutLeader
                   /\ (N >= 3 => TurnsToAnotherHost)
  BY NoLeaderIsNoHost
     DEF ClientInv, TypeOK, LeaderKept, Known, WritesToLeader, EndsOnlyWithoutLeader
<1> QED
  BY <1>1, ClientInvariant, PTL

(* One leader for life: whatever servers answer and however hosts go down, *)
(* the client never leaves the first leader it was told of, also where     *)
(* there is a newer one (RaftFS.cpp:65, 231).                              *)
THEOREM LeaderForLife == TestSpec => OneLeaderForLife
<1>1. ClientInv /\ [TestNext]_allVars
        => [leader_id # NoLeader
              => leader_id' = leader_id /\ leader'.host \in {leader.host, leader_id}]_vars
  BY StepKnows DEF KeepsLeader
<1> QED
  BY <1>1, ClientInvariant, PTL DEF TestSpec, OneLeaderForLife

-----------------------------------------------------------------------------
(* ConnectFollower                                                         *)

(* The hosts that ConnectFollower was at some retries ago: two back for    *)
(* each, around the list as often as it takes.                             *)
Behind(f, k) == {f - 2 * k, f - 2 * k + N, f - 2 * k + 2 * N}

(* The retries of the present ConnectFollower have left out no host that   *)
(* they passed.                                                            *)
RetriesAreRefused ==
  /\ retry \in 0..N /\ follower_id \in Host
  /\ pc \notin {"retry", "not connected"} => retry = 0
  /\ pc = "retry" => \A k \in 1..retry : \A h \in Host \cap Behind(follower_id, k) : h \in refused
  /\ pc = "not connected" =>
       /\ retry = N /\ follower_id \in refused
       /\ \A k \in 1..N : \A h \in Host \cap Behind(follower_id, k) : h \in refused

(* One retry goes on by two, around the end of the list if need be.        *)
LEMMA RotatedIs ==
  ASSUME NEW f \in Host, N > 1
  PROVE  Rotated(f) = f + 2 \/ Rotated(f) = f + 2 - N
<1>1. N \in Nat /\ f \in 1..N
  BY NAssumption DEF Host
<1>2. CASE f + 1 < N
  <2>1. (f + 1) % N = f + 1
    BY <1>1, <1>2
  <2> QED
    BY <1>1, <2>1 DEF Rotated
<1>3. CASE f + 1 >= N
  <2>1. f + 1 = N \/ f + 1 = N + 1
    BY <1>1, <1>3
  <2>2. N % N = 0 /\ (N + 1) % N = 1
    BY <1>1
  <2>3. CASE f + 1 = N
    BY <1>1, <2>2, <2>3 DEF Rotated
  <2>4. CASE f + 1 = N + 1
    BY <1>1, <2>2, <2>4 DEF Rotated
  <2> QED
    BY <2>1, <2>3, <2>4
<1> QED
  BY <1>1, <1>2, <1>3

(* Where the next retry was before, the present one was one retry less.    *)
LEMMA BehindNext ==
  ASSUME N > 1, NEW f \in Host, NEW g, g = f + 2 \/ g = f + 2 - N,
         NEW k \in Nat, k >= 1, NEW h \in Host, h \in Behind(g, k)
  PROVE  \/ k = 1 /\ h = f
         \/ k > 1 /\ h \in Behind(f, k - 1)
<1>1. N \in Nat /\ f \in 1..N /\ h \in 1..N
  BY NAssumption DEF Host
<1>2. h = g - 2 * k \/ h = g - 2 * k + N \/ h = g - 2 * k + 2 * N
  BY DEF Behind
<1>3. CASE k = 1
  BY <1>1, <1>2, <1>3
<1>4. CASE k > 1
  <2>1. \/ h = f - 2 * (k - 1) \/ h = f - 2 * (k - 1) + N \/ h = f - 2 * (k - 1) + 2 * N
        \/ h = f - 2 * (k - 1) - N
    BY <1>1, <1>2
  <2>2. h # f - 2 * (k - 1) - N
    BY <1>1, <1>4
  <2> QED
    BY <1>4, <2>1, <2>2 DEF Behind
<1> QED
  BY <1>3, <1>4

(* Of an odd number of hosts, steps of two leave out none.                 *)
LEMMA EveryHostBehind ==
  ASSUME N % 2 = 1, NEW f \in Host, NEW h \in Host
  PROVE  h = f \/ \E k \in 1..N : h \in Behind(f, k)
<1>1. N \in Nat /\ f \in 1..N /\ h \in 1..N
  BY NAssumption DEF Host
<1> DEFINE d == f - h + N
           q == d \div 2
<1>2. d \in Nat /\ q \in Nat /\ (d = 2 * q \/ d = 2 * q + 1) /\ d <= 2 * N - 1 /\ d >= 1
  BY <1>1
<1>3. PICK m \in Nat : N = 2 * m + 1
  <2> DEFINE m == N \div 2
  <2>1. m \in Nat /\ N = 2 * m + 1
    BY <1>1
  <2> QED
    BY <2>1
<1> HIDE DEF q
<1>4. CASE d = 2 * q
  <2>1. q \in 1..N /\ h = f - 2 * q + N
    BY <1>1, <1>2, <1>4
  <2> QED
    BY <2>1 DEF Behind
<1>5. CASE d = 2 * q + 1 /\ d > N
  <2> DEFINE k == q - m
  <2>1. k \in 1..N /\ h = f - 2 * k
    BY <1>1, <1>2, <1>3, <1>5
  <2> QED
    BY <2>1 DEF Behind
<1>6. CASE d = 2 * q + 1 /\ d < N
  <2> DEFINE k == q + m + 1
  <2>1. k \in 1..N /\ h = f - 2 * k + 2 * N
    BY <1>1, <1>2, <1>3, <1>6
  <2> QED
    BY <2>1 DEF Behind
<1>7. CASE d = N
  BY <1>1, <1>7
<1> QED
  BY <1>1, <1>2, <1>4, <1>5, <1>6, <1>7

(* A refusal is counted, and its host remembered.                          *)
LEMMA RefusedKeepsCount ==
  ASSUME RetriesAreRefused, Refused
  PROVE  RetriesAreRefused'
<1>1. /\ N \in Nat /\ N > 0 /\ retry \in 0..N /\ follower_id \in Host /\ pc = "retry"
      /\ refused' = refused \cup {follower_id}
  <2>1. N \in Nat /\ N > 0
    BY NAssumption
  <2>2. retry \in 0..N /\ follower_id \in Host
    BY DEF RetriesAreRefused
  <2>3. pc = "retry" /\ refused' = refused \cup {follower_id}
    BY DEF Refused
  <2> QED
    BY <2>1, <2>2, <2>3
<1>2. CASE retry < N
  <2>1. follower_id' = Rotated(follower_id) /\ retry' = retry + 1 /\ pc' = "retry"
    BY <1>1, <1>2 DEF Refused
  <2>2. follower_id' \in Host /\ retry' \in 0..N
    BY <1>1, <1>2, <2>1, RotatedType
  <2>3. ASSUME NEW k \in 1..retry', NEW h \in Host, h \in Behind(follower_id', k) PROVE h \in refused'
    <3>1. CASE N = 1
      BY <1>1, <3>1 DEF Host
    <3>2. CASE N > 1
      <4>1. follower_id' = follower_id + 2 \/ follower_id' = follower_id + 2 - N
        BY <1>1, <2>1, <3>2, RotatedIs
      <4>2. k \in Nat /\ k >= 1 /\ k <= retry + 1
        BY <1>1, <2>1
      <4>3. \/ k = 1 /\ h = follower_id
            \/ k > 1 /\ h \in Behind(follower_id, k - 1)
        BY <1>1, <2>3, <3>2, <4>1, <4>2, BehindNext
      <4>4. CASE k > 1 /\ h \in Behind(follower_id, k - 1)
        <5>1. k - 1 \in 1..retry
          BY <1>1, <4>2, <4>4
        <5> QED
          BY <1>1, <4>4, <5>1 DEF RetriesAreRefused
      <4> QED
        BY <1>1, <4>3, <4>4
    <3> QED
      BY <1>1, <3>1, <3>2
  <2> QED
    BY <2>1, <2>2, <2>3 DEF RetriesAreRefused
<1>3. CASE ~(retry < N)
  <2>1. pc' = "not connected" /\ follower_id' = follower_id /\ retry' = retry
    BY <1>3 DEF Refused
  <2>2. retry = N
    BY <1>1, <1>3
  <2> QED
    BY <1>1, <2>1, <2>2 DEF RetriesAreRefused
<1> QED
  BY <1>2, <1>3

(* The count of refusals is right after every step.                        *)
LEMMA CountStep ==
  ASSUME RetriesAreRefused, TypeOK', [TestNext]_allVars
  PROVE  RetriesAreRefused'
<1>0. follower_id' \in Host /\ retry' \in 0..N
  BY DEF TypeOK
<1>1. CASE Refused
  BY <1>1, RefusedKeepsCount
<1>2. CASE UNCHANGED <<pc, retry, refused, follower_id>>
  BY <1>2 DEF RetriesAreRefused
<1>3. CASE retry' = 0 /\ pc' # "not connected"
  <2>1. 1..retry' = {}
    <3>1. \A k \in 1..0 : FALSE
      OBVIOUS
    <3> QED
      BY <1>3, <3>1
  <2> QED
    BY <1>0, <1>3, <2>1 DEF RetriesAreRefused
<1>4. CASE pc \notin {"retry", "not connected"} /\ retry' = retry /\ pc' # "not connected"
  BY <1>3, <1>4 DEF RetriesAreRefused
<1>5. ASSUME ClientStep PROVE RetriesAreRefused'
  <2>1. CASE Opened \/ NotConnected
    BY <1>3, <2>1 DEF Opened, Connected, NotConnected, Return
  <2>2. CASE GetLeader \/ ConnectFollower \/ AskInVain \/ OpenLeader \/ MoveFollower
             \/ WriteFails \/ ReadFails
    BY <1>4, <2>2
       DEF GetLeader, ConnectFollower, Connected, AskInVain, OpenLeader, MoveFollower, Continue,
           WriteFails, ReadFails, Return
  <2>3. CASE \/ \E l \in Host : AskLeader(l)
             \/ \E a \in WriteAnswer : WriteAnswered(a)
             \/ op \in Read /\ \E s \in ReadAnswer[op] : ReadAnswered(s)
    BY <1>4, <2>3 DEF AskLeader, WriteAnswered, ReadAnswered, Return
  <2> QED
    BY <1>1, <1>5, <2>1, <2>2, <2>3 DEF ClientStep, Steps
<1>6. ASSUME NEW o, Call(o) PROVE RetriesAreRefused'
  BY <1>4, <1>6 DEF Call
<1>7. ASSUME TesterStep PROVE RetriesAreRefused'
  <2>1. CASE NewTester \/ ForceStop \/ Finish
    BY <1>2, <2>1 DEF NewTester, ForceStop, Finish, vars
  <2>2. CASE Create
    BY <1>6, <2>2 DEF Create, Begin
  <2>3. CASE Created \/ Executed
    BY <1>2, <2>3 DEF Created, Executed, Answered, Take
  <2>4. CASE \E c \in Write : RunWrite(c)
    BY <1>6, <2>4 DEF RunWrite, Begin
  <2>5. CASE \E c \in Write : NoValidNode(c)
    BY <1>2, <2>5 DEF NoValidNode, vars
  <2>6. CASE \E c \in Read : RunRead(c)
    BY <1>6, <2>6 DEF RunRead, Begin
  <2> QED
    BY <1>7, <2>1, <2>2, <2>3, <2>4, <2>5, <2>6 DEF TesterStep
<1>8. CASE HostChanges
  BY <1>2, <1>8 DEF HostChanges, GoesDown, ComesUp
<1>9. CASE UNCHANGED allVars
  BY <1>2, <1>9 DEF allVars, vars
<1> QED
  BY <1>5, <1>7, <1>8, <1>9 DEF TestNext

(* ConnectFollower, whose next host is two further (RaftFS.cpp, where it   *)
(* rotates), gives up only after every host has refused it in this very    *)
(* search: for every odd number of hosts, which go down and come up as     *)
(* they like.  Of an even number it tries only every other one.            *)
THEOREM GivesUpLast ==
  ASSUME N % 2 = 1
  PROVE  TestSpec => []GivesUpOnlyIfAllRefused
<1>1. TestInit => RetriesAreRefused
  <2>1. N \in Nat /\ 0 \in 0..N
    BY NAssumption
  <2> QED
    BY <2>1 DEF TestInit, Init, RetriesAreRefused
<1>2. ClientInv' /\ RetriesAreRefused /\ [TestNext]_allVars => RetriesAreRefused'
  BY CountStep DEF ClientInv
<1>3. ClientInv /\ RetriesAreRefused => GivesUpOnlyIfAllRefused
  <2> SUFFICES ASSUME ClientInv, RetriesAreRefused, pc = "not connected" PROVE refused = Host
    BY DEF GivesUpOnlyIfAllRefused
  <2>1. refused \subseteq Host
    BY DEF ClientInv, TypeOK
  <2>2. ASSUME NEW h \in Host PROVE h \in refused
    BY EveryHostBehind DEF RetriesAreRefused
  <2> QED
    BY <2>1, <2>2
<1> QED
  BY <1>1, <1>2, <1>3, ClientInvariant, PTL DEF TestSpec

-----------------------------------------------------------------------------
(* What the tester believes *)

(* Files are only made of two of its nodes, directories of three.          *)
Shape(t) ==
  /\ t \in Tree /\ <<>> \in t.dirs
  /\ t.files \subseteq {write_tree[1], write_tree[2]}
  /\ t.dirs \subseteq {<<>>, write_tree[0], write_tree[4], write_tree[5]}

(* Nothing is written before "/write" is, and "/write" itself stays.       *)
TreeWritten ==
  /\ Shape(tree)
  /\ test \in {"new", "creating"} =>
       tree = NewTree /\ doubt = {} /\ should_exist = [k \in Node |-> k = 0]
  /\ test \in {"running", "finished"} => write_tree[0] \in doubt \cup tree.dirs

(* What the tester says of the other nodes, where nothing is in doubt.     *)
Believed ==
  /\ should_exist \in [Node -> BOOLEAN] /\ should_exist[0] /\ doubt \subseteq Path
  /\ \A k \in Node \ {0} : write_tree[0] \notin doubt /\ write_tree[k] \notin doubt =>
       /\ should_exist[k] => write_tree[k] \in Nodes(tree)
       /\ write_tree[k] \in tree.files => should_exist[k]

(* The tester's counts, and its place in create_test_tree.                 *)
Counted ==
  /\ cmd_limit \in [Cmd -> Int] /\ cmd_count \in [Cmd -> Nat]
  /\ \A c \in Cmd : cmd_count[c] = 0 \/ cmd_count[c] <= cmd_limit[c]
  /\ no_valid_cmd_cnt \in 0..(MaxInvalid + 1)
  /\ made \in 0..6 /\ (test \in {"new", "creating"} => made < 6)
  /\ test \in {"new", "creating", "running", "finished"}
  /\ path \in Path /\ changes \in 0..MaxChanges

TesterInv == TreeWritten /\ Believed /\ CallFits /\ Counted

(* The seven paths are different ones.                                     *)
LEMMA Seven ==
  /\ write_tree[0] = <<"write">>
  /\ \A k \in Node : k # 0 => Len(write_tree[k]) = 2 /\ write_tree[k][1] = "write"
                               /\ write_tree[k] = <<"write", write_tree[k][2]>>
  /\ \A k, n \in Node : write_tree[k] = write_tree[n] => k = n
  /\ \A k \in Node : write_tree[k] \in Path /\ write_tree[k] # <<>> /\ write_tree[k][1] = "write"
                     /\ write_tree[k][Len(write_tree[k])] # NoName
<1>1. /\ write_tree[0] = <<"write">> /\ write_tree[1] = <<"write", "file21">>
      /\ write_tree[2] = <<"write", "file22">> /\ write_tree[3] = <<"write", "file23">>
      /\ write_tree[4] = <<"write", "dir21">> /\ write_tree[5] = <<"write", "dir22">>
      /\ write_tree[6] = <<"write", "dir23">>
  BY DEF write_tree, Node
<1>2. \A k \in Node : k \in {0, 1, 2, 3, 4, 5, 6}
  BY DEF Node
<1>3. \A k \in Node : k # 0 => Len(write_tree[k]) = 2 /\ write_tree[k][1] = "write"
                               /\ write_tree[k] = <<"write", write_tree[k][2]>>
  BY <1>1, <1>2
<1>4. \A k \in Node : write_tree[k] \in Seq(Name \ {NoName}) /\ write_tree[k] # <<>>
                      /\ write_tree[k][1] = "write"
  <2> TAKE k \in Node
  <2>1. write_tree[k] \in Seq(Name \ {NoName})
    BY NamesOfTest
  <2>2. PICK x : write_tree[k] = <<"write">> \/ write_tree[k] = <<"write", x>>
    BY <1>1, <1>3
  <2>3. write_tree[k] # <<>> /\ write_tree[k][1] = "write"
    BY <2>2
  <2> QED
    BY <2>1, <2>3
<1>5. \A k \in Node : write_tree[k] \in Path /\ write_tree[k][Len(write_tree[k])] # NoName
  <2> TAKE k \in Node
  <2> DEFINE p == write_tree[k]
  <2>1. p \in Seq(Name \ {NoName}) /\ p # <<>>
    BY <1>4
  <2> HIDE DEF p
  <2>2. Len(p) \in 1..Len(p) /\ p \in Seq(Name)
    BY <2>1
  <2>3. p[Len(p)] \in Name \ {NoName}
    BY <2>1, <2>2
  <2> QED
    BY <2>2, <2>3 DEF p, Path
<1>6. \A k, n \in Node : write_tree[k] = write_tree[n] => k = n
  <2> SUFFICES ASSUME NEW k \in Node, NEW n \in Node, write_tree[k] = write_tree[n] PROVE k = n
    OBVIOUS
  <2>1. Len(<<"write">>) = 1
    OBVIOUS
  <2>2. write_tree[k][2] = write_tree[n][2] /\ Len(write_tree[k]) = Len(write_tree[n])
    OBVIOUS
  <2>3. k # 0 => write_tree[k][2] = (CASE k = 1 -> "file21" [] k = 2 -> "file22" [] k = 3 -> "file23"
                   [] k = 4 -> "dir21" [] k = 5 -> "dir22" [] k = 6 -> "dir23")
    BY <1>1, <1>2
  <2>4. n # 0 => write_tree[n][2] = (CASE n = 1 -> "file21" [] n = 2 -> "file22" [] n = 3 -> "file23"
                   [] n = 4 -> "dir21" [] n = 5 -> "dir22" [] n = 6 -> "dir23")
    BY <1>1, <1>2
  <2>5. k = 0 <=> n = 0
    BY <1>1, <1>3, <2>1, <2>2
  <2> QED
    BY <1>2, <2>2, <2>3, <2>4, <2>5
<1> QED
  BY <1>1, <1>3, <1>4, <1>5, <1>6

(* The first names of a path of two.                                       *)
LEMMA FirstNames ==
  ASSUME NEW p \in Path, Len(p) = 2, NEW q \in Path, Len(q) = 1, p[1] = q[1]
  PROVE  Upto(p, 0) = <<>> /\ Upto(p, 1) = q /\ Upto(p, 2) = p
<1>1. \A k \in 0..2 : Upto(p, k) \in Seq(Name) /\ Len(Upto(p, k)) = k
                       /\ \A n \in 1..k : Upto(p, k)[n] = p[n]
  <2> TAKE k \in 0..2
  <2>1. p \in Seq(Name) /\ k \in 0..Len(p)
    BY DEF Path
  <2>2. SubSeq(p, 1, k) \in Seq(Name) /\ Len(SubSeq(p, 1, k)) = k
    BY <2>1
  <2>3. \A n \in 1..k : SubSeq(p, 1, k)[n] = p[n]
    BY <2>1
  <2> QED
    BY <2>2, <2>3 DEF Upto
<1>2. Upto(p, 0) = <<>>
  BY DEF Upto, Path
<1>3. Upto(p, 1) = q
  <2>1. Upto(p, 1) \in Seq(Name) /\ Len(Upto(p, 1)) = 1 /\ Upto(p, 1)[1] = q[1] /\ q \in Seq(Name)
    BY <1>1 DEF Path
  <2> HIDE DEF Upto
  <2>2. \A n \in 1..1 : Upto(p, 1)[n] = q[n]
    BY <2>1
  <2> QED
    BY <2>1, <2>2
<1>4. Upto(p, 2) = p
  <2>1. Upto(p, 2) \in Seq(Name) /\ Len(Upto(p, 2)) = 2
        /\ \A n \in 1..2 : Upto(p, 2)[n] = p[n]
    BY <1>1
  <2> HIDE DEF Upto
  <2> QED
    BY <2>1 DEF Path
<1> QED
  BY <1>2, <1>3, <1>4

(* The paths above a node of the tree, and under it.                       *)
LEMMA Above ==
  ASSUME NEW k \in Node, k # 0
  PROVE  /\ Upto(write_tree[k], 0) = <<>> /\ Upto(write_tree[k], 1) = write_tree[0]
         /\ Upto(write_tree[k], 2) = write_tree[k] /\ Len(write_tree[k]) = 2
         /\ \A n \in Node : Within(write_tree[n], write_tree[k]) => n = k
         /\ ~Within(<<>>, write_tree[k])
<1>1. /\ write_tree[0] \in Path /\ Len(write_tree[0]) = 1 /\ write_tree[0][1] = "write"
      /\ \A n \in Node : n # 0 => write_tree[n] \in Path /\ Len(write_tree[n]) = 2
                                   /\ write_tree[n][1] = "write"
  <2>1. Len(<<"write">>) = 1 /\ 0 \in Node
    BY DEF Node
  <2>2. write_tree[0] \in Path /\ Len(write_tree[0]) = 1 /\ write_tree[0][1] = "write"
    BY <2>1, Seven
  <2>3. \A n \in Node : n # 0 => write_tree[n] \in Path /\ Len(write_tree[n]) = 2
                                   /\ write_tree[n][1] = "write"
    BY Seven
  <2> QED
    BY <2>2, <2>3
<1>2. \A n \in Node : n # 0 =>
        /\ Upto(write_tree[n], 0) = <<>> /\ Upto(write_tree[n], 1) = write_tree[0]
        /\ Upto(write_tree[n], 2) = write_tree[n]
  BY <1>1, FirstNames
<1>3. ASSUME NEW n \in Node, Within(write_tree[n], write_tree[k]) PROVE n = k
  <2>1. ASSUME n = 0 PROVE FALSE
    <3>1. Len(write_tree[k]) = 2 /\ Len(write_tree[n]) = 1
      BY <1>1, <2>1
    <3>2. Len(write_tree[k]) <= Len(write_tree[n])
      BY <1>3 DEF Within
    <3> QED
      BY <3>1, <3>2
  <2>2. Upto(write_tree[n], 2) = write_tree[k]
    BY <1>1, <1>3 DEF Within
  <2> QED
    BY <1>2, <2>1, <2>2, Seven
<1>4. ~Within(<<>>, write_tree[k])
  BY <1>1 DEF Within
<1> QED
  BY <1>1, <1>2, <1>3, <1>4

(* A write to a node changes no other, but may make "/write"; where that   *)
(* is, it does what the tester takes kOK for, if not always more.          *)
LEMMA WriteEffect ==
  ASSUME NEW t, Shape(t), NEW c \in Write, NEW k \in Searched(c), NEW u,
         u = Applied(t, Entry(c, write_tree[k]))
  PROVE  /\ Shape(u)
         /\ write_tree[0] \in t.dirs => write_tree[0] \in u.dirs
         /\ \A n \in Node \ {0, k} :
              /\ write_tree[n] \in Nodes(t) => write_tree[n] \in Nodes(u)
              /\ write_tree[n] \in u.files => write_tree[n] \in t.files
         /\ write_tree[0] \in t.dirs =>
              /\ ~Removes(c) => write_tree[k] \in Nodes(u)
              /\ Removes(c) => write_tree[k] \notin u.files
<1> DEFINE p == write_tree[k]
<1>1. /\ k \in 1..5 /\ k \in Node /\ k # 0 /\ 0 \in Node
      /\ \A n \in {0, 1, 2, 4, 5} : n \in Node
  BY DEF Searched, Node, Write
<1>2. /\ Upto(p, 0) = <<>> /\ Upto(p, 1) = write_tree[0] /\ Upto(p, 2) = p /\ Len(p) = 2
      /\ \A n \in Node : Within(write_tree[n], p) => n = k
      /\ ~Within(<<>>, p) /\ p \in Path /\ p[Len(p)] # NoName /\ p # <<>>
  BY <1>1, Above, Seven
<1>3. \A n, l \in Node : write_tree[n] = write_tree[l] => n = l
  BY Seven
<1>4. \A n \in Node : write_tree[n] \in Path /\ write_tree[n] # <<>>
  BY Seven
<1>5. NamesChild(p)
  BY <1>2 DEF NamesChild
<1>6. write_tree[0] \in t.dirs => FindsFolder(t, p)
  <2>1. \A i \in 0..(Len(p) - 1) : i = 0 \/ i = 1
    BY <1>2
  <2> QED
    BY <1>2, <2>1 DEF FindsFolder, Shape
<1>7. CASE c = "Mkdir"
  <2>1. k \in {4, 5} /\ ~Removes(c) /\ u = MakeDir(t, p)
    BY <1>7 DEF Searched, Removes, Applied, Entry
  <2>2. p \notin t.files /\ write_tree[0] \notin t.files
    BY <1>1, <1>3, <2>1 DEF Shape
  <2>3. \A n \in 1..Len(p) : n = 1 \/ n = 2
    BY <1>2
  <2>4. 1 \in 1..Len(p) /\ 2 \in 1..Len(p)
    BY <1>2
  <2>5. MadeDirs(t, p) = {write_tree[0], p}
    BY <1>2, <2>2, <2>3, <2>4 DEF MadeDirs
  <2>6. u = [t EXCEPT !.dirs = @ \cup {write_tree[0], p}]
    BY <2>1, <2>5 DEF MakeDir
  <2>7. u.dirs = t.dirs \cup {write_tree[0], p} /\ u.files = t.files /\ u \in Tree
    BY <1>1, <1>2, <1>4, <2>6 DEF Shape, Tree
  <2> QED
    BY <2>1, <2>7 DEF Shape, Nodes
<1>8. CASE c = "CreateFile"
  <2>1. k \in {1, 2} /\ ~Removes(c) /\ u = CreateFile(t, p)
    BY <1>8 DEF Searched, Removes, Applied, Entry
  <2>2. CASE u = t
    <3>1. FindsFolder(t, p) => p \in Nodes(t)
      <4> SUFFICES ASSUME FindsFolder(t, p), p \notin Nodes(t) PROVE FALSE
        OBVIOUS
      <4>1. u = AddFile(t, p)
        BY <1>5, <2>1 DEF CreateFile
      <4>2. u.files = t.files \cup {p}
        BY <4>1 DEF AddFile, Shape, Tree
      <4> QED
        BY <2>2, <4>2 DEF Nodes
    <3> QED
      BY <1>6, <2>1, <2>2, <3>1
  <2>3. CASE u = AddFile(t, p)
    <3>1. u.files = t.files \cup {p} /\ u.dirs = t.dirs /\ u \in Tree
      BY <1>2, <2>3 DEF AddFile, Shape, Tree
    <3> QED
      BY <1>1, <1>3, <2>1, <3>1 DEF Shape, Nodes
  <2> QED
    BY <2>1, <2>2, <2>3 DEF CreateFile
<1> DEFINE Deleted == u = DeleteChild(t, p)
<1>9. ASSUME Deleted
      PROVE  /\ Shape(u)
             /\ write_tree[0] \in t.dirs => write_tree[0] \in u.dirs
             /\ \A n \in Node \ {0, k} :
                  /\ write_tree[n] \in Nodes(t) => write_tree[n] \in Nodes(u)
                  /\ write_tree[n] \in u.files => write_tree[n] \in t.files
             /\ p \notin u.files
  <2>1. u = [dirs |-> {q \in t.dirs : ~Within(q, p)}, files |-> {q \in t.files : ~Within(q, p)}]
    BY <1>9 DEF DeleteChild
  <2>2. /\ u.dirs = {q \in t.dirs : ~Within(q, p)} /\ u.files = {q \in t.files : ~Within(q, p)}
        /\ u \in Tree
    BY <2>1 DEF Shape, Tree
  <2>3. Within(p, p)
    BY <1>2 DEF Within
  <2>4. ~Within(write_tree[0], p)
    BY <1>1, <1>2
  <2> QED
    BY <1>2, <2>2, <2>3, <2>4 DEF Shape, Nodes
<1>10. CASE c = "Rmdir"
  <2>1. k \in {4, 5} /\ Removes(c) /\ u = DeleteDir(t, p)
    BY <1>10 DEF Searched, Removes, Applied, Entry
  <2>2. p \notin t.files
    BY <1>1, <1>3, <2>1 DEF Shape
  <2>3. u = t \/ Deleted
    BY <2>1 DEF DeleteDir
  <2> QED
    BY <1>9, <2>1, <2>2, <2>3
<1>11. CASE c = "DeleteFile"
  <2>1. Removes(c) /\ u = RemoveFile(t, p)
    BY <1>11 DEF Removes, Applied, Entry
  <2>2. u = t \/ Deleted
    BY <2>1 DEF RemoveFile
  <2>3. u = t /\ ~Deleted => (FindsFolder(t, p) => p \notin t.files)
    BY <1>5, <2>1 DEF RemoveFile
  <2> QED
    BY <1>6, <1>9, <2>1, <2>2, <2>3
<1> QED
  BY <1>7, <1>8, <1>10, <1>11 DEF Write

-----------------------------------------------------------------------------
(* The tester's steps *)

(* The client works within a call, and leaves the operation as it is.      *)
LEMMA OthersKeepTester ==
  ASSUME TesterInv, ClientStep \/ HostChanges \/ UNCHANGED allVars
  PROVE  TesterInv'
<1>1. UNCHANGED testVars /\ op' = op
  <2>1. CASE ClientStep
    BY <2>1 DEF ClientStep, Steps, GetLeader, ConnectFollower, Opened, Refused, NotConnected,
         AskLeader, AskInVain, OpenLeader, MoveFollower, WriteAnswered, ReadAnswered, WriteFails,
         ReadFails
  <2>2. CASE HostChanges
    BY <2>2 DEF HostChanges, GoesDown, ComesUp
  <2> QED
    BY <2>1, <2>2 DEF allVars, vars
<1>2. changes' \in 0..MaxChanges
  BY TestParameters DEF ClientStep, HostChanges, allVars, TesterInv, Counted
<1> QED
  BY <1>1, <1>2 DEF testVars, TesterInv, TreeWritten, Shape, Believed, Nodes, CallFits, Counted

(* At first only "/write" should exist.                                    *)
LEMMA AtFirst ==
  ASSUME should_exist = [k \in Node |-> k = 0]
  PROVE  /\ should_exist \in [Node -> BOOLEAN] /\ should_exist[0]
         /\ \A k \in Node \ {0} : ~should_exist[k]
<1>1. 0 \in Node
  BY DEF Node
<1>2. should_exist[0]
  BY <1>1, Zenon
<1>3. \A k \in Node \ {0} : ~should_exist[k]
  BY Zenon
<1>4. should_exist \in [Node -> BOOLEAN]
  BY Zenon
<1> QED
  BY <1>2, <1>3, <1>4

(* The tester starts like that.                                            *)
LEMMA InitTesterInv == ASSUME TestInit PROVE TesterInv
<1>1. /\ tree = NewTree /\ doubt = {} /\ should_exist = [k \in Node |-> k = 0]
      /\ made = 0 /\ test = "new" /\ path = <<>> /\ changes = 0 /\ no_valid_cmd_cnt = 0
      /\ cmd_count = [c \in Cmd |-> 0]
  BY DEF TestInit, NoCall
<1>2. Shape(tree)
  BY <1>1 DEF Shape, NewTree, Tree, Path
<1>3. Believed
  <2>1. \A k \in Node \ {0} : ~should_exist[k] /\ write_tree[k] \notin tree.files
    BY <1>1, AtFirst DEF NewTree
  <2> QED
    BY <1>1, <2>1, AtFirst DEF Believed
<1>4. cmd_limit \in [Cmd -> Int]
  BY TestParameters DEF TestInit, LimitsOf
<1>5. Counted
  BY <1>1, <1>4, TestParameters DEF Counted, Path
<1> QED
  BY <1>1, <1>2, <1>3, <1>5 DEF TesterInv, TreeWritten, CallFits, NoCall

(* The calls of create_test_tree are about "/read", but for the last.      *)
LEMMA TreeCalls ==
  /\ \A i \in 1..6 : create_test_tree[i].path \in Path /\ create_test_tree[i].path # <<>>
  /\ \A i \in 1..5 : create_test_tree[i].path[1] = "read"
  /\ create_test_tree[6] = [op |-> "Mkdir", path |-> write_tree[0]]
<1>1. /\ Len(create_test_tree) = 6 /\ DOMAIN create_test_tree = 1..6
      /\ \A i \in 1..5 : create_test_tree[i].path[1] = "read"
      /\ create_test_tree[6] = [op |-> "Mkdir", path |-> write_tree[0]]
      /\ \A i \in 1..6 : create_test_tree[i].path # <<>>
  BY Seven DEF create_test_tree
<1>2. \A i \in 1..6 : create_test_tree[i].path \in Path
  <2> TAKE i \in 1..6
  <2>1. create_test_tree[i].path \in Seq(Name \ {NoName})
    BY <1>1, NamesOfTest
  <2> QED
    BY <2>1 DEF Path
<1> QED
  BY <1>1, <1>2

(* An answer to create_test_tree.                                          *)
LEMMA CreatedStep ==
  ASSUME TesterInv, Created
  PROVE  TesterInv'
<1>1. /\ test = "creating" /\ path # NoCall /\ path' = NoCall /\ tree' \in Outcomes
      /\ made' = made + 1 /\ test' = IF made' = 6 THEN "running" ELSE test
      /\ doubt' = IF path[1] = "write" /\ status # "kOK" THEN doubt \cup {path} ELSE doubt
      /\ UNCHANGED <<should_exist, cmd_limit, cmd_count, no_valid_cmd_cnt, changes>>
  BY CallsMade DEF Created, Answered
<1>2. /\ made \in 0..5 /\ tree = NewTree /\ doubt = {} /\ should_exist = [k \in Node |-> k = 0]
      /\ op = create_test_tree[made + 1].op /\ path = create_test_tree[made + 1].path
  BY <1>1 DEF TesterInv, TreeWritten, Counted, CallFits
<1>3. Counted'
  BY <1>1, <1>2 DEF TesterInv, Counted, NoCall, Path
<1>4. CallFits'
  BY <1>1 DEF CallFits
<1>5. CASE made < 5
  <2>1. path[1] = "read"
    BY <1>2, <1>5, TreeCalls
  <2>2. tree' = tree /\ doubt' = doubt /\ test' = test
    BY <1>1, <1>2, <1>5, <2>1 DEF Outcomes
  <2>3. TreeWritten' /\ Believed'
    BY <1>1, <2>2 DEF TesterInv, TreeWritten, Shape, Believed, Nodes
  <2> QED
    BY <1>3, <1>4, <2>3 DEF TesterInv
<1>6. CASE made = 5
  <2>1. op = "Mkdir" /\ path = write_tree[0] /\ path[1] = "write" /\ path = <<"write">> /\ 0 \in Node
    <3>1. op = create_test_tree[6].op /\ path = create_test_tree[6].path /\ 0 \in Node
      BY <1>2, <1>6 DEF Node
    <3>2. op = "Mkdir" /\ path = write_tree[0]
      BY <3>1, TreeCalls
    <3> QED
      BY <3>1, <3>2, Seven
  <2> DEFINE u == Applied(tree, Entry(op, path))
  <2>2. u = [dirs |-> {<<>>, path}, files |-> {}]
    <3>1. u = MakeDir(NewTree, path)
      BY <1>2, <2>1 DEF Applied, Entry
    <3>2. Len(path) = 1 /\ path \in Path
      BY <2>1, Seven
    <3>3. Upto(path, 1) = path
      BY <3>2 DEF Upto, Path
    <3>4. \A n \in 1..Len(path) : n = 1
      BY <3>2
    <3>5. MadeDirs(NewTree, path) = {path}
      BY <3>2, <3>3, <3>4 DEF MadeDirs, NewTree
    <3> QED
      BY <3>1, <3>5 DEF MakeDir, NewTree
  <2>3. /\ tree' = u \/ (tree' = tree /\ status # "kOK")
        /\ doubt' = IF status # "kOK" THEN {path} ELSE {}
        /\ test' = "running"
    <3>1. "Mkdir" \notin Read /\ path[1] # "read"
      BY <2>1 DEF Read
    <3>2. made + 1 \in 1..6 /\ ~(made + 1 < 6)
      BY <1>6
    <3> QED
      BY <1>1, <1>2, <1>6, <2>1, <3>1, <3>2 DEF Outcomes
  <2>4. Shape(tree')
    BY <1>2, <2>1, <2>2, <2>3, Seven DEF Shape, Tree, NewTree, TesterInv, TreeWritten
  <2>5. write_tree[0] \in doubt' \cup tree'.dirs
    BY <2>1, <2>2, <2>3
  <2>6. TreeWritten'
    BY <2>3, <2>4, <2>5 DEF TreeWritten, Shape
  <2>7. \A k \in Node \ {0} : ~should_exist[k] /\ write_tree[k] \notin tree'.files
    <3>1. tree'.files = {}
      BY <1>2, <2>2, <2>3 DEF NewTree
    <3> QED
      BY <1>2, <3>1, AtFirst
  <2>8. doubt' \subseteq Path
    BY <2>1, <2>3, Seven
  <2>9. Believed'
    BY <1>1, <2>7, <2>8 DEF Believed, TesterInv, Nodes
  <2> QED
    BY <1>3, <1>4, <2>6, <2>9 DEF TesterInv
<1> QED
  BY <1>2, <1>5, <1>6

(* An answer to run().                                                     *)
LEMMA ExecutedStep ==
  ASSUME TesterInv, Executed
  PROVE  TesterInv'
<1>1. /\ test = "running" /\ path # NoCall /\ path' = NoCall /\ tree' \in Outcomes
      /\ cmd_count' = [cmd_count EXCEPT ![op] = @ + 1]
      /\ should_exist' = IF op \in Read THEN should_exist
           ELSE [k \in Node |-> IF write_tree[k] = path THEN Expects(op, status = "kOK")
                                ELSE should_exist[k]]
      /\ doubt' = IF op \in Read THEN doubt
                  ELSE IF status = "kOK" THEN doubt \ {path}
                  ELSE IF status \in MaybeApplied THEN doubt \cup {path} ELSE doubt
      /\ UNCHANGED <<cmd_limit, no_valid_cmd_cnt, made, test, changes>>
  BY DEF Executed, Answered
<1>2. /\ op \in Cmd /\ cmd_count[op] < cmd_limit[op]
      /\ op \in Write => \E k \in Searched(op) : path = write_tree[k] /\ should_exist[k] = Removes(op)
  BY <1>1 DEF TesterInv, CallFits
<1>3. Counted'
  <2>1. cmd_count' \in [Cmd -> Nat] /\ \A c \in Cmd : cmd_count'[c] = 0 \/ cmd_count'[c] <= cmd_limit[c]
    BY <1>1, <1>2 DEF TesterInv, Counted
  <2> QED
    BY <1>1, <2>1 DEF TesterInv, Counted, NoCall, Path
<1>4. CallFits'
  BY <1>1 DEF CallFits
<1>5. CASE op \in Read
  <2>1. tree' = tree /\ UNCHANGED <<should_exist, doubt, test>>
    BY <1>1, <1>5 DEF Outcomes
  <2>2. TreeWritten' /\ Believed'
    BY <1>1, <2>1 DEF TesterInv, TreeWritten, Shape, Believed, Nodes
  <2> QED
    BY <1>3, <1>4, <2>2 DEF TesterInv
<1>6. CASE op \notin Read
  <2>1. op \in Write
    BY <1>2, <1>6 DEF Cmd
  <2>2. PICK k \in Searched(op) : path = write_tree[k] /\ should_exist[k] = Removes(op)
    BY <1>2, <2>1
  <2>3. k \in Node \ {0} /\ 0 \in Node
    BY <2>1 DEF Searched, Node, Write
  <2>4. /\ \A n \in Node : write_tree[n] = path => n = k
        /\ path \in Path /\ path[1] = "write"
    BY <2>2, <2>3, Seven
  <2> DEFINE u == Applied(tree, Entry(op, path))
             applied == tree' = u /\ status \in {"kOK"} \cup MaybeApplied
  <2>5. \/ applied
        \/ tree' = tree /\ status # "kOK"
    BY <1>1, <1>6, <2>4 DEF Outcomes
  <2> HIDE DEF u
  <2>6. /\ Shape(u)
        /\ write_tree[0] \in tree.dirs => write_tree[0] \in u.dirs
        /\ \A n \in Node \ {0, k} :
             /\ write_tree[n] \in Nodes(tree) => write_tree[n] \in Nodes(u)
             /\ write_tree[n] \in u.files => write_tree[n] \in tree.files
        /\ write_tree[0] \in tree.dirs =>
             /\ ~Removes(op) => path \in Nodes(u)
             /\ Removes(op) => path \notin u.files
    BY <2>1, <2>2, WriteEffect DEF u, TesterInv, TreeWritten
  <2>7. /\ write_tree[0] \in doubt <=> write_tree[0] \in doubt'
        /\ \A n \in Node \ {0, k} : write_tree[n] \in doubt <=> write_tree[n] \in doubt'
        /\ doubt' \subseteq Path
    BY <1>1, <1>6, <2>3, <2>4 DEF TesterInv, Believed
  <2>8. TreeWritten'
    <3>1. Shape(tree')
      BY <2>5, <2>6 DEF TesterInv, TreeWritten
    <3>2. write_tree[0] \in doubt' \cup tree'.dirs
      BY <1>1, <2>5, <2>6, <2>7 DEF TesterInv, TreeWritten
    <3> QED
      BY <1>1, <3>1, <3>2 DEF TreeWritten, Shape
  <2>9. /\ should_exist' \in [Node -> BOOLEAN] /\ should_exist'[0]
        /\ \A n \in Node \ {0, k} : should_exist'[n] = should_exist[n]
        /\ should_exist'[k] = Expects(op, status = "kOK")
    <3>1. should_exist' = [n \in Node |-> IF write_tree[n] = path THEN Expects(op, status = "kOK")
                                           ELSE should_exist[n]]
      BY <1>1, <1>6
    <3>2. Expects(op, status = "kOK") \in BOOLEAN
      BY DEF Expects, Removes
    <3>3. should_exist \in [Node -> BOOLEAN] /\ should_exist[0]
      BY DEF TesterInv, Believed
    <3>4. write_tree[0] # path /\ write_tree[k] = path
      BY <2>2, <2>3, <2>4
    <3>5. should_exist' \in [Node -> BOOLEAN]
      BY <3>1, <3>2, <3>3, Zenon
    <3>6. should_exist'[0]
      BY <2>3, <3>1, <3>3, <3>4, Zenon
    <3>7. should_exist'[k] = Expects(op, status = "kOK")
      BY <2>3, <3>1, <3>4, Zenon
    <3>8. \A n \in Node \ {0, k} : write_tree[n] # path
      BY <2>4
    <3>9. \A n \in Node \ {0, k} : should_exist'[n] = should_exist[n]
      BY <3>1, <3>8, Zenon
    <3> QED
      BY <3>5, <3>6, <3>7, <3>9
  <2>10. ASSUME NEW n \in Node \ {0}, write_tree[0] \notin doubt', write_tree[n] \notin doubt'
         PROVE  /\ should_exist'[n] => write_tree[n] \in Nodes(tree')
                /\ write_tree[n] \in tree'.files => should_exist'[n]
    <3>1. write_tree[0] \in tree.dirs
      BY <1>1, <2>7, <2>10 DEF TesterInv, TreeWritten
    <3>2. CASE n # k
      <4>1. /\ should_exist[n] => write_tree[n] \in Nodes(tree)
            /\ write_tree[n] \in tree.files => should_exist[n]
        BY <2>7, <2>10, <3>2 DEF TesterInv, Believed
      <4>2. /\ write_tree[n] \in Nodes(tree) => write_tree[n] \in Nodes(tree')
            /\ write_tree[n] \in tree'.files => write_tree[n] \in tree.files
        BY <2>5, <2>6, <3>2
      <4>3. should_exist'[n] = should_exist[n]
        BY <2>9, <3>2
      <4> QED
        BY <4>1, <4>2, <4>3
    <3>3. CASE n = k /\ status = "kOK"
      <4>1. should_exist'[k] = IF Removes(op) THEN FALSE ELSE TRUE
        BY <2>9, <3>3 DEF Expects
      <4>2. tree' = u
        BY <2>5, <3>3
      <4>3. /\ ~Removes(op) => write_tree[k] \in Nodes(tree')
            /\ Removes(op) => write_tree[k] \notin tree'.files
        BY <2>2, <2>6, <3>1, <4>2
      <4> QED
        BY <3>3, <4>1, <4>3
    <3>4. CASE n = k /\ status # "kOK"
      <4>1. status \notin MaybeApplied /\ doubt' = doubt
        BY <1>1, <1>6, <2>2, <2>10, <3>4
      <4>2. tree' = tree
        BY <2>5, <3>4, <4>1
      <4>3. should_exist'[k] = should_exist[k]
        BY <2>2, <2>9, <3>4 DEF Expects, Removes
      <4>4. /\ should_exist[k] => write_tree[k] \in Nodes(tree)
            /\ write_tree[k] \in tree.files => should_exist[k]
        BY <2>10, <3>4, <4>1 DEF TesterInv, Believed
      <4> QED
        BY <3>4, <4>2, <4>3, <4>4
    <3> QED
      BY <3>2, <3>3, <3>4
  <2>11. Believed'
    BY <2>7, <2>9, <2>10 DEF Believed, Nodes
  <2> QED
    BY <1>3, <1>4, <2>8, <2>11 DEF TesterInv
<1> QED
  BY <1>5, <1>6

(* The node that a write is about is one of those that fit.                *)
LEMMA FirstFits ==
  ASSUME NEW c \in Write, Fitting(c) # {}
  PROVE  Min(Fitting(c)) \in Fitting(c)
<1> DEFINE S == Fitting(c)
<1>1. S \subseteq 1..5 /\ S # {}
  BY DEF Fitting, Searched, Write
<1> HIDE DEF S
<1>2. \E x \in S : \A y \in S : x <= y
  <2>1. \A y \in S : y \in {1, 2, 3, 4, 5}
    BY <1>1
  <2>2. CASE 1 \in S
    BY <2>1, <2>2
  <2>3. CASE 1 \notin S /\ 2 \in S
    BY <2>1, <2>3
  <2>4. CASE 1 \notin S /\ 2 \notin S /\ 3 \in S
    BY <2>1, <2>4
  <2>5. CASE 1 \notin S /\ 2 \notin S /\ 3 \notin S /\ 4 \in S
    BY <2>1, <2>5
  <2>6. CASE 1 \notin S /\ 2 \notin S /\ 3 \notin S /\ 4 \notin S
    <3>1. \A y \in S : y = 5
      BY <2>1, <2>6
    <3>2. PICK x \in S : TRUE
      BY <1>1
    <3> QED
      BY <3>1, <3>2
  <2> QED
    BY <2>2, <2>3, <2>4, <2>5, <2>6
<1>3. Min(S) \in S
  BY <1>2 DEF Min
<1> QED
  BY <1>3 DEF S

(* The tester begins a call.                                               *)
LEMMA BeginStep ==
  ASSUME TesterInv, Create \/ (\E c \in Write : RunWrite(c)) \/ (\E c \in Read : RunRead(c))
  PROVE  TesterInv'
<1>1. UNCHANGED <<tree, should_exist, cmd_limit, cmd_count, made, test, doubt, changes>>
  BY DEF Create, RunWrite, RunRead
<1>2. TreeWritten' /\ Believed'
  BY <1>1 DEF TesterInv, TreeWritten, Shape, Believed, Nodes
<1>3. no_valid_cmd_cnt' \in 0..(MaxInvalid + 1)
  BY TestParameters DEF Create, RunWrite, RunRead, TesterInv, Counted
<1>4. ASSUME path' \in Path PROVE Counted'
  BY <1>1, <1>3, <1>4 DEF TesterInv, Counted
<1>5. CASE Create
  <2>1. /\ test = "creating" /\ made \in 0..5
        /\ op' = create_test_tree[made + 1].op /\ path' = create_test_tree[made + 1].path
    <3>1. test = "creating" /\ Begin(create_test_tree[made + 1].op, create_test_tree[made + 1].path)
      BY <1>5 DEF Create, Free
    <3>2. made \in 0..5
      BY <3>1 DEF TesterInv, Counted
    <3> QED
      BY <3>1, <3>2 DEF Begin, Call
  <2>2. path' \in Path
    BY <2>1, TreeCalls
  <2> QED
    BY <1>1, <1>2, <1>4, <2>1, <2>2 DEF TesterInv, CallFits
<1>6. ASSUME NEW c \in Write, RunWrite(c) PROVE TesterInv'
  <2> DEFINE k == Min(Fitting(c))
  <2>1. /\ test = "running" /\ cmd_count[c] < cmd_limit[c] /\ Fitting(c) # {}
        /\ op' = c /\ path' = write_tree[k]
    BY <1>6 DEF RunWrite, Draws, Free, MayDraw, Begin, Call
  <2>2. k \in Fitting(c)
    BY <2>1, FirstFits
  <2> HIDE DEF k
  <2>3. k \in Searched(c) /\ should_exist[k] = Removes(c) /\ k \in Node
    BY <2>2 DEF Fitting, Searched, Node, Write
  <2>4. path' \in Path
    BY <2>1, <2>3, Seven
  <2> QED
    BY <1>1, <1>2, <1>4, <2>1, <2>3, <2>4 DEF TesterInv, CallFits, Cmd
<1>7. ASSUME NEW c \in Read, RunRead(c) PROVE TesterInv'
  <2>1. /\ test = "running" /\ cmd_count[c] < cmd_limit[c]
        /\ op' = c /\ path' = IF c = "ListDir" THEN <<"read">> ELSE <<"read", "file11">>
    BY <1>7 DEF RunRead, Draws, Free, MayDraw, Begin, Call
  <2>2. path' \in Path
    <3>1. path' = create_test_tree[1].path \/ path' = create_test_tree[2].path
      BY <2>1 DEF create_test_tree
    <3>2. create_test_tree[1].path \in Path /\ create_test_tree[2].path \in Path
      BY TreeCalls
    <3> QED
      BY <3>1, <3>2
  <2>3. op' \in Cmd /\ op' \notin Write
    BY <2>1 DEF Cmd, Read, Write
  <2> QED
    BY <1>1, <1>2, <1>4, <2>1, <2>2, <2>3 DEF TesterInv, CallFits
<1> QED
  BY <1>5, <1>6, <1>7

(* The tester gives up a command, or the test; or it begins.               *)
LEMMA NoCallStep ==
  ASSUME TesterInv, NewTester \/ ForceStop \/ Finish \/ (\E c \in Write : NoValidNode(c))
  PROVE  TesterInv'
<1>1. /\ UNCHANGED <<tree, should_exist, cmd_limit, cmd_count, made, path, doubt, changes>>
      /\ path = NoCall
      /\ \/ test = "new" /\ test' = "creating"
         \/ test = "running" /\ test' \in {"running", "finished"}
  BY DEF NewTester, ForceStop, Finish, NoValidNode, Draws, Free
<1>2. no_valid_cmd_cnt' \in 0..(MaxInvalid + 1)
  BY TestParameters DEF NewTester, ForceStop, Finish, NoValidNode, TesterInv, Counted
<1>3. TreeWritten' /\ Believed'
  BY <1>1 DEF TesterInv, TreeWritten, Shape, Believed, Nodes
<1>4. Counted'
  BY <1>1, <1>2 DEF TesterInv, Counted
<1> QED
  BY <1>1, <1>3, <1>4 DEF TesterInv, CallFits

(* What the tester keeps is inductive.                                     *)
LEMMA TesterInvariant == TestSpec => []TesterInv
<1>1. TesterInv /\ [TestNext]_allVars => TesterInv'
  BY OthersKeepTester, CreatedStep, ExecutedStep, BeginStep, NoCallStep DEF TestNext, TesterStep
<1> QED
  BY <1>1, InitTesterInv, PTL DEF TestSpec

(* Through any sequence of commands, whatever is refused, lost or answered *)
(* kOK without effect: what the tester says should exist does, and of a    *)
(* file also the other way round, unless a write of it is in doubt; and no *)
(* command runs more often than its limit.                                 *)
THEOREM TesterExpectsTruly == TestSpec => [](TesterTypeOK /\ WhatShouldExistDoes)
<1>1. TesterInv => TesterTypeOK
  <2> SUFFICES ASSUME TesterInv PROVE TesterTypeOK
    OBVIOUS
  <2>1. \A c \in Cmd : cmd_count[c] = 0 \/ cmd_count[c] \in 1..cmd_limit[c]
    BY DEF TesterInv, Counted
  <2>2. tree \in Tree /\ should_exist \in [Node -> BOOLEAN] /\ doubt \subseteq Path
    BY DEF TesterInv, TreeWritten, Shape, Believed
  <2>3. made \in 0..Len(create_test_tree)
    BY CallsMade DEF TesterInv, Counted
  <2> QED
    BY <2>1, <2>2, <2>3 DEF TesterInv, Counted, TesterTypeOK
<1>2. TesterInv => WhatShouldExistDoes
  <2> SUFFICES ASSUME TesterInv, test \in {"running", "finished"}, NEW k \in Node, Sure(write_tree[k])
               PROVE  /\ should_exist[k] => write_tree[k] \in Nodes(tree)
                      /\ write_tree[k] \in tree.files => should_exist[k]
    BY DEF WhatShouldExistDoes
  <2>1. CASE k = 0
    <3>1. write_tree[0] \in Path /\ Len(write_tree[0]) = 1
      <4>1. Len(<<"write">>) = 1 /\ 0 \in Node
        BY DEF Node
      <4> QED
        BY <4>1, Seven
    <3>2. Upto(write_tree[0], 1) = write_tree[0]
      BY <3>1 DEF Upto, Path
    <3>3. write_tree[0] \notin doubt
      BY <2>1, <3>1, <3>2 DEF Sure
    <3> QED
      BY <2>1, <3>3 DEF TesterInv, TreeWritten, Believed, Nodes
  <2>2. CASE k # 0
    <3>1. 1 \in 1..Len(write_tree[k]) /\ 2 \in 1..Len(write_tree[k])
      BY <2>2, Above
    <3>2. write_tree[0] \notin doubt /\ write_tree[k] \notin doubt
      BY <2>2, <3>1, Above DEF Sure
    <3> QED
      BY <2>2, <3>2 DEF TesterInv, Believed
  <2> QED
    BY <2>1, <2>2
<1> QED
  BY <1>1, <1>2, TesterInvariant, PTL

=============================================================================
