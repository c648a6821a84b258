------------------------------ MODULE WorkerPool ------------------------------
(***************************************************************************)
(* server/RaftMetaServer and those who connect to it: the other servers    *)
(* (RaftConsensus::RemoteHostLoop) and the clients of one client_main.     *)
(*                                                                         *)
(* Each server has a TThreadPoolServer with a fixed number of workers.  A  *)
(* worker takes the connection that has waited longest and serves nothing  *)
(* else until the other side closes it; whoever makes a call on a          *)
(* connection that no worker has taken waits, without a timeout.  A client *)
(* has two connections, one to its leader and one to another host.         *)
(*                                                                         *)
(* Hosts do not fail here, and what a call does is left out but for the    *)
(* connection that it needs.  A definition whose comment begins with       *)
(* Mutant is not part of the model: it is the next definition with a bug.  *)
(***************************************************************************)
EXTENDS Integers, Sequences, FiniteSets

CONSTANTS
  N,            \* the servers are 1..N
  worker,       \* workers of each server; 10
  Tester,       \* the threads test_thread; 3
  Main,         \* the client of main()
  Rivals,       \* bound: the servers that ever ask for votes
  Leaders,      \* bound: the servers that lead while the clients come
  Plans         \* bound: calls that run() may make, "leader" or "follower"

Host == 1..N
Client == {Main} \cup Tester

(* hosts.txt lists three servers.  Of one or two the next host of a client *)
(* that moves is where it was, and its two connections would be one here.  *)
ASSUME PoolAssumption ==
  /\ N \in Nat /\ N >= 3 /\ worker \in Nat \ {0}
  /\ Main \notin Tester
  /\ Rivals \subseteq Host /\ Leaders \subseteq Host
  /\ Plans \subseteq Seq({"leader", "follower"})

(* By whom it was opened, for what, and to which host.                     *)
Conn ==
  [by : Client, for : {"leader", "follower"}, to : Host] \cup [by : Host, for : {"Raft"}, to : Host]

Nowhere == 0
Nobody == "nobody"

VARIABLES
  opened,               \* connections open on the side that opened them
  queue,                \* of each server: accepted and not taken
  serving,              \* of each server: taken, one by each busy worker
  pc,                   \* of each client
  leader_id, follower_id,
  todo,                 \* the calls still to be made, by their connections
  m,                    \* the mutex of client_main
  init                  \* nobody has made the test tree yet

poolVars == <<queue, serving>>
clientVars == <<pc, leader_id, follower_id, todo, m, init>>
vars == <<opened, poolVars, clientVars>>

Init ==
  /\ opened = {}
  /\ queue = [h \in Host |-> <<>>] /\ serving = [h \in Host |-> {}]
  /\ pc = [c \in Client |-> "start"]
  /\ leader_id = [c \in Client |-> Nowhere] /\ follower_id = [c \in Client |-> Nowhere]
  /\ todo = [c \in Client |-> <<>>]
  /\ m = Nobody /\ init = TRUE

-----------------------------------------------------------------------------
(* TThreadPoolServer *)

(* Mutant: there is always a worker.                                       *)
AcceptsAll(x) ==
  serving' = [serving EXCEPT ![x.to] = @ \cup {x}] /\ UNCHANGED queue

(* An accepted connection is a task of the thread manager, which an idle   *)
(* worker takes at once.                                                   *)
Accept(x) ==
  IF Cardinality(serving[x.to]) < worker
  THEN serving' = [serving EXCEPT ![x.to] = @ \cup {x}] /\ UNCHANGED queue
  ELSE queue' = [queue EXCEPT ![x.to] = Append(@, x)] /\ UNCHANGED serving

(* Mutant: the worker ends with its task.                                  *)
EndsWorker(h, x) == UNCHANGED poolVars

(* The task ends, and its worker takes the next one.                       *)
NextTask(h, x) ==
  IF queue[h] = <<>>
  THEN serving' = [serving EXCEPT ![h] = @ \ {x}] /\ UNCHANGED queue
  ELSE /\ serving' = [serving EXCEPT ![h] = (@ \ {x}) \cup {Head(queue[h])}]
       /\ queue' = [queue EXCEPT ![h] = Tail(@)]

(* The worker reads the end of the stream.                                 *)
LeaveConnection(h, x) ==
  /\ x \in serving[h] /\ x \notin opened
  /\ NextTask(h, x)
  /\ UNCHANGED <<opened, clientVars>>

-----------------------------------------------------------------------------
(* Servers: RemoteHost::Connected opens the connection for the first call  *)
(* of a candidate or leader, and nobody closes it.                         *)

RaftConnection(i, j) == [by |-> i, for |-> "Raft", to |-> j]

ConnectRemote(i, j) ==
  /\ i # j /\ RaftConnection(i, j) \notin opened
  /\ opened' = opened \cup {RaftConnection(i, j)}
  /\ Accept(RaftConnection(i, j))
  /\ UNCHANGED clientVars

-----------------------------------------------------------------------------
(* Clients: the constructor of FSClient *)

Connection(c, for, h) == [by |-> c, for |-> for, to |-> h]

Follower(c) == Connection(c, "follower", follower_id[c])
Leader(c)   == Connection(c, "leader", leader_id[c])

Served(x) == x \in serving[x.to]

(* main() has its client before it starts the testers.                     *)
StartClient(c, f) ==
  /\ pc[c] = "start" /\ (c # Main => pc[Main] = "joining")
  /\ follower_id' = [follower_id EXCEPT ![c] = f]
  /\ opened' = opened \cup {Connection(c, "follower", f)}
  /\ Accept(Connection(c, "follower", f))
  /\ pc' = [pc EXCEPT ![c] = "ask"]
  /\ UNCHANGED <<leader_id, todo, m, init>>

AskLeader(c, l) ==
  /\ pc[c] = "ask" /\ Served(Follower(c))
  /\ leader_id' = [leader_id EXCEPT ![c] = l]
  /\ pc' = [pc EXCEPT ![c] = "open leader"]
  /\ UNCHANGED <<opened, poolVars, follower_id, todo, m, init>>

(* The host knows no leader: the program is taken to end, as in FSClient,  *)
(* and its connections with it.                                            *)
AskInVain(c) ==
  /\ pc[c] = "ask" /\ Served(Follower(c))
  /\ pc' = [k \in Client |-> "done"]
  /\ opened' = {x \in opened : x.for = "Raft"}
  /\ UNCHANGED <<poolVars, leader_id, follower_id, todo, m, init>>

Constructed(c) == IF c = Main THEN "joining" ELSE "lock"

OpenLeader(c) ==
  /\ pc[c] = "open leader"
  /\ opened' = opened \cup {Leader(c)}
  /\ Accept(Leader(c))
  /\ pc' = [pc EXCEPT ![c] = IF leader_id[c] = follower_id[c] THEN "move" ELSE Constructed(c)]
  /\ UNCHANGED <<leader_id, follower_id, todo, m, init>>

(* ConnectFollower and GetLeader: the next host is two further on.         *)
Rotated(f) == ((f + 1) % N) + 1

(* Mutant: the old connection is not closed.                               *)
MovesWithoutClose(c) ==
  /\ pc[c] = "move"
  /\ LET new == Connection(c, "follower", Rotated(follower_id[c])) IN
       /\ follower_id' = [follower_id EXCEPT ![c] = new.to]
       /\ opened' = opened \cup {new}
       /\ Accept(new)
  /\ pc' = [pc EXCEPT ![c] = Constructed(c)]
  /\ UNCHANGED <<leader_id, todo, m, init>>

MoveFollower(c) ==
  /\ pc[c] = "move"
  /\ LET new == Connection(c, "follower", Rotated(follower_id[c])) IN
       /\ follower_id' = [follower_id EXCEPT ![c] = new.to]
       /\ opened' = (opened \ {Follower(c)}) \cup {new}
       /\ Accept(new)
  /\ pc' = [pc EXCEPT ![c] = Constructed(c)]
  /\ UNCHANGED <<leader_id, todo, m, init>>

-----------------------------------------------------------------------------
(* test_thread *)

(* create_test_tree under the mutex: only the first tester makes the tree, *)
(* each lists it.                                                          *)
LockTree(c) ==
  /\ pc[c] = "lock" /\ m = Nobody
  /\ m' = c
  /\ todo' = [todo EXCEPT ![c] = IF init THEN <<"leader", "follower", "leader">> ELSE <<"follower">>]
  /\ pc' = [pc EXCEPT ![c] = "creating"]
  /\ UNCHANGED <<opened, poolVars, leader_id, follower_id, init>>

(* A call is answered by the worker of its connection, whatever it says.   *)
CallAnswered(c) ==
  /\ pc[c] \in {"creating", "running"} /\ todo[c] # <<>>
  /\ Served(IF Head(todo[c]) = "leader" THEN Leader(c) ELSE Follower(c))
  /\ todo' = [todo EXCEPT ![c] = Tail(@)]
  /\ UNCHANGED <<opened, poolVars, pc, leader_id, follower_id, m, init>>

UnlockTree(c, plan) ==
  /\ pc[c] = "creating" /\ todo[c] = <<>>
  /\ m' = Nobody /\ init' = FALSE
  /\ todo' = [todo EXCEPT ![c] = plan]
  /\ pc' = [pc EXCEPT ![c] = "running"]
  /\ UNCHANGED <<opened, poolVars, leader_id, follower_id>>

(* Mutant: the leader's connection is left open.                           *)
ClosesFollowerOnly(c) == opened \ {Follower(c)}

(* ~FSClient                                                               *)
Closes(c) == opened \ {Follower(c), Leader(c)}

EndTester(c) ==
  /\ pc[c] = "running" /\ todo[c] = <<>>
  /\ opened' = Closes(c)
  /\ pc' = [pc EXCEPT ![c] = "done"]
  /\ UNCHANGED <<poolVars, leader_id, follower_id, todo, m, init>>

(* main() joins the testers with its own client still connected.           *)
EndMain ==
  /\ pc[Main] = "joining" /\ \A t \in Tester : pc[t] = "done"
  /\ opened' = Closes(Main)
  /\ pc' = [pc EXCEPT ![Main] = "done"]
  /\ UNCHANGED <<poolVars, leader_id, follower_id, todo, m, init>>

ClientStep(c) ==
  \/ (\E f \in Host : StartClient(c, f)) \/ (\E l \in Leaders : AskLeader(c, l))
  \/ AskInVain(c) \/ OpenLeader(c) \/ MoveFollower(c)
  \/ LockTree(c) \/ CallAnswered(c) \/ (\E plan \in Plans : UnlockTree(c, plan))
  \/ EndTester(c)

Steps ==
  \/ \E h \in Host : \E x \in serving[h] : LeaveConnection(h, x)
  \/ \E c \in Client : ClientStep(c)
  \/ EndMain

Next == Steps \/ \E i \in Rivals, j \in Host : ConnectRemote(i, j)

(* Every thread goes on as long as it can.  None of them takes a step for  *)
(* ever, so that one condition serves for all.  That a server connects to  *)
(* another is not assumed.                                                 *)
Spec == Init /\ [][Next]_vars /\ WF_vars(Steps)

-----------------------------------------------------------------------------
(* Properties *)

Place == {"start", "ask", "open leader", "move", "joining", "lock", "creating", "running", "done"}

InQueue(h) == {queue[h][k] : k \in 1..Len(queue[h])}

(* The type invariant; no connection is taken twice, and none is taken     *)
(* from another server's queue.                                            *)
TypeOK ==
  /\ opened \subseteq Conn
  /\ \A h \in Host :
       /\ \A x \in InQueue(h) \cup serving[h] : x \in Conn /\ x.to = h
       /\ InQueue(h) \cap serving[h] = {}
       /\ Cardinality(InQueue(h)) = Len(queue[h])
       /\ Cardinality(serving[h]) <= worker
  /\ pc \in [Client -> Place]
  /\ leader_id \in [Client -> Host \cup {Nowhere}]
  /\ follower_id \in [Client -> Host \cup {Nowhere}]
  /\ m \in Tester \cup {Nobody} /\ init \in BOOLEAN

(* Whoever connects, in whatever order: no client waits for ever for a     *)
(* worker that is held by one that waits for another worker or for the     *)
(* mutex of client_main, and the program ends.                             *)
ProgramEnds == <>(\A c \in Client : pc[c] = "done")

(* A server that calls another, to be elected or to keep its followers, is *)
(* served in the end, however many clients came before it: time and again  *)
(* every server that ever connected is served.  It never disconnects, so   *)
(* that one left waiting would wait for good.                              *)
ServersAreServed ==
  []<>(\A i \in Rivals, j \in Host : RaftConnection(i, j) \in opened => Served(RaftConnection(i, j)))

(* After the program no worker is held by a connection of it.              *)
WorkersComeFree == <>[](\A h \in Host : \A x \in serving[h] : x.for = "Raft")
=============================================================================
