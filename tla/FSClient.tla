------------------------------- MODULE FSClient -------------------------------
(***************************************************************************)
(* client/RaftFS: one client, which sends its writes to the leader and its *)
(* reads to another host, and the hosts it connects to, which go down and  *)
(* come back as they like.                                                 *)
(*                                                                         *)
(* A step of the client is one attempt to open a connection or one call;   *)
(* the hosts may change between two of them.  CheckLeaders, "only for test *)
(* purpose", has no caller.  The program that has the client, and with it  *)
(* the specification of the whole, is in PerfTest.                         *)
(*                                                                         *)
(* A definition whose comment begins with Mutant is not part of the model: *)
(* it is the next definition with a bug that one of the properties of the  *)
(* runs must catch.                                                        *)
(***************************************************************************)
EXTENDS Integers

CONSTANT N      \* hosts.size()

ASSUME NAssumption == N \in Nat \ {0}

NoLeader == -1

Host == 1..N

VARIABLES
  up,               \* the hosts that accept connections
  leader_id, follower_id,
  leader,           \* leader_sock and leader_rpc: host and state of the socket
  follower,         \* follower_sock and follower_rpc
  pc, op,           \* where the client is, in which operation ("none" if in none)
  retry,            \* local to ConnectFollower
  status,           \* what the operation returned
  refused           \* history: the hosts that refused in the present ConnectFollower

sockets == <<leader, follower>>
vars == <<up, leader_id, follower_id, sockets, pc, op, retry, status, refused>>

(* ResetRPCClient: the old socket is closed, a new one opened if it can be.*)
Socket(host) == [host |-> host, st |-> IF host \in up THEN "open" ELSE "closed"]

(* isOpen says what this side did, not what became of the other one.       *)
IsOpen(sock) == sock.st # "closed"

(* A call on a dead connection throws; the socket may close itself.        *)
Fails(sock) == {[sock EXCEPT !.st = s] : s \in {sock.st, "closed"}}

Write == {"Mkdir", "Rmdir", "CreateFile", "DeleteFile"}
Read  == {"ListDir", "GetFileInfo"}

(* What a server answers; ClientRPCService names a leader only when it     *)
(* refuses.                                                                *)
WriteAnswer ==
  [status : {"kOK", "kTimeout", "kNoLeader", "kPathError"}, leader_id : {NoLeader}]
    \cup [status : {"kNotLeader"}, leader_id : Host \cup {NoLeader}]

ReadAnswer == [ListDir     |-> {"kOK", "kPathError"},
               GetFileInfo |-> {"kOK", "kNotFound", "kPathError"}]

(* The constructor: a follower at random, no leader, and GetLeader.        *)
Init ==
  /\ up \in SUBSET Host
  /\ leader_id = NoLeader /\ follower_id \in Host
  /\ leader = [host |-> NoLeader, st |-> "closed"]
  /\ follower = Socket(follower_id)
  /\ pc = "get leader" /\ op = "FSClient"
  /\ retry = 0 /\ status = "none" /\ refused = {}

-----------------------------------------------------------------------------

Return(s) == status' = s /\ pc' = "idle"

(* The program that has the client calls an operation, and takes what it   *)
(* returned.                                                               *)
Call(o) ==
  /\ pc = "idle"
  /\ op' = o
  /\ pc' = IF o \in Write THEN "get leader" ELSE "connect"
  /\ UNCHANGED <<up, leader_id, follower_id, sockets, retry, status, refused>>

Take ==
  /\ pc = "idle"
  /\ op' = "none" /\ status' = "none"
  /\ UNCHANGED <<up, leader_id, follower_id, sockets, pc, retry, refused>>

(* Mutant: the leader is asked for every time.                             *)
AsksAlways ==
  /\ pc = "get leader"
  /\ pc' = "connect"
  /\ UNCHANGED <<up, leader_id, follower_id, sockets, op, retry, status, refused>>

(* GetLeader asks for the leader only once in the life of a client.        *)
GetLeader ==
  /\ pc = "get leader"
  /\ pc' = IF leader_id = NoLeader THEN "connect" ELSE "write"
  /\ UNCHANGED <<up, leader_id, follower_id, sockets, op, retry, status, refused>>

Connected == pc' = IF op \in Read THEN "read" ELSE "ask"

ConnectFollower ==
  /\ pc = "connect"
  /\ IF IsOpen(follower) THEN Connected ELSE pc' = "retry"
  /\ UNCHANGED <<up, leader_id, follower_id, sockets, op, retry, status, refused>>

(* Mutant: the last host has a next one.                                   *)
NoWrap(f) == f + 1

(* The next host to try: two further than f, if there are so many.         *)
Rotated(f) == ((f + 1) % N) + 1

Opened ==
  /\ pc = "retry" /\ follower_id \in up
  /\ follower' = Socket(follower_id)
  /\ Connected
  /\ retry' = 0 /\ refused' = {}
  /\ UNCHANGED <<up, leader_id, follower_id, leader, op, status>>

(* Mutant: retries are not counted.                                        *)
RefusedForever ==
  /\ pc = "retry" /\ follower_id \notin up
  /\ follower' = Socket(follower_id)
  /\ refused' = refused \cup {follower_id}
  /\ follower_id' = Rotated(follower_id)
  /\ UNCHANGED <<up, leader_id, leader, pc, op, retry, status>>

(* Mutant: hosts.size() is reached too early.                              *)
RefusedEarly ==
  /\ pc = "retry" /\ follower_id \notin up
  /\ follower' = Socket(follower_id)
  /\ refused' = refused \cup {follower_id}
  /\ IF retry < N - 2
     THEN follower_id' = Rotated(follower_id) /\ retry' = retry + 1 /\ UNCHANGED pc
     ELSE pc' = "not connected" /\ UNCHANGED <<follower_id, retry>>
  /\ UNCHANGED <<up, leader_id, leader, op, status>>

Refused ==
  /\ pc = "retry" /\ follower_id \notin up
  /\ follower' = Socket(follower_id)
  /\ refused' = refused \cup {follower_id}
  /\ IF retry < N
     THEN follower_id' = Rotated(follower_id) /\ retry' = retry + 1 /\ UNCHANGED pc
     ELSE pc' = "not connected" /\ UNCHANGED <<follower_id, retry>>
  /\ UNCHANGED <<up, leader_id, leader, op, status>>

NotConnected ==
  /\ pc = "not connected"
  /\ Return(IF op \in Read THEN "kCommError" ELSE "kNoLeader")
  /\ retry' = 0 /\ refused' = {}
  /\ UNCHANGED <<up, leader_id, follower_id, sockets, op>>

(* The follower names a leader.                                            *)
AskLeader(l) ==
  /\ pc = "ask" /\ follower.st = "open" /\ l \in Host
  /\ leader_id' = l
  /\ pc' = "open leader"
  /\ UNCHANGED <<up, follower_id, sockets, op, retry, status, refused>>

(* The follower knows no leader and says kOK and -1: hosts[-2] is read.    *)
(* Or the call throws, and nobody catches it.  In both cases the program   *)
(* is taken to end.                                                        *)
AskInVain ==
  /\ pc = "ask"
  /\ pc' = "ended"
  /\ UNCHANGED <<up, leader_id, follower_id, sockets, op, retry, status, refused>>

Continue == IF op = "FSClient" THEN Return("none") ELSE pc' = "write" /\ UNCHANGED status

(* Mutant: the connection of the follower becomes that of the leader.      *)
KeepsLeaderSocket ==
  /\ pc = "open leader"
  /\ IF leader_id = follower_id
     THEN follower_id' = Rotated(follower_id) /\ pc' = "move" /\ UNCHANGED <<leader, status>>
     ELSE leader' = follower /\ Continue /\ UNCHANGED follower_id
  /\ UNCHANGED <<up, leader_id, follower, op, retry, refused>>

OpenLeader ==
  /\ pc = "open leader"
  /\ leader' = Socket(leader_id)
  /\ IF leader_id = follower_id
     THEN follower_id' = Rotated(follower_id) /\ pc' = "move" /\ UNCHANGED status
     ELSE Continue /\ UNCHANGED follower_id
  /\ UNCHANGED <<up, leader_id, follower, op, retry, refused>>

MoveFollower ==
  /\ pc = "move"
  /\ follower' = Socket(follower_id)
  /\ Continue
  /\ UNCHANGED <<up, leader_id, follower_id, leader, op, retry, refused>>

(* Mutant: DeleteFile follows the server that refuses, and only by number. *)
FollowsRefusal(a) ==
  /\ pc = "write" /\ leader.st = "open"
  /\ IF op = "DeleteFile" /\ a.leader_id \notin {NoLeader, leader_id}
     THEN leader_id' = a.leader_id ELSE UNCHANGED leader_id
  /\ Return(a.status)
  /\ UNCHANGED <<up, follower_id, sockets, op, retry, refused>>

(* The leader answers.  DeleteFile would follow a leader that is named     *)
(* with kOK, which no server does; other writes do not look.               *)
WriteAnswered(a) ==
  /\ pc = "write" /\ leader.st = "open"
  /\ IF op = "DeleteFile" /\ a.status = "kOK" /\ a.leader_id \notin {NoLeader, leader_id}
     THEN leader_id' = a.leader_id /\ leader' = Socket(a.leader_id)
     ELSE UNCHANGED <<leader_id, leader>>
  /\ Return(a.status)
  /\ UNCHANGED <<up, follower_id, follower, op, retry, refused>>

(* The connection is dead or was never opened.  Nothing opens it again.    *)
WriteFails ==
  /\ pc = "write" /\ leader.st # "open"
  /\ leader' \in Fails(leader)
  /\ Return("kCommError")
  /\ UNCHANGED <<up, leader_id, follower_id, follower, op, retry, refused>>

ReadAnswered(s) ==
  /\ pc = "read" /\ follower.st = "open"
  /\ Return(s)
  /\ UNCHANGED <<up, leader_id, follower_id, sockets, op, retry, refused>>

ReadFails ==
  /\ pc = "read" /\ follower.st # "open"
  /\ follower' \in Fails(follower)
  /\ Return("kCommError")
  /\ UNCHANGED <<up, leader_id, follower_id, leader, op, retry, refused>>

Steps ==
  \/ GetLeader \/ ConnectFollower \/ Opened \/ Refused \/ NotConnected
  \/ \E l \in Host : AskLeader(l)
  \/ AskInVain \/ OpenLeader \/ MoveFollower
  \/ \E a \in WriteAnswer : WriteAnswered(a)
  \/ op \in Read /\ \E s \in ReadAnswer[op] : ReadAnswered(s)
  \/ WriteFails \/ ReadFails

-----------------------------------------------------------------------------

Broken(sock, h) == IF sock.host = h /\ sock.st = "open" THEN [sock EXCEPT !.st = "dead"] ELSE sock

GoesDown(h) ==
  /\ h \in up
  /\ up' = up \ {h}
  /\ leader' = Broken(leader, h) /\ follower' = Broken(follower, h)
  /\ UNCHANGED <<leader_id, follower_id, pc, op, retry, status, refused>>

ComesUp(h) ==
  /\ h \notin up
  /\ up' = up \cup {h}
  /\ UNCHANGED <<leader_id, follower_id, sockets, pc, op, retry, status, refused>>

-----------------------------------------------------------------------------

Status == {"none", "kOK", "kTimeout", "kNoLeader", "kNotLeader", "kNotFound", "kPathError",
           "kCommError"}

TypeOK ==
  /\ up \subseteq Host /\ refused \subseteq Host
  /\ leader_id \in Host \cup {NoLeader} /\ follower_id \in Host
  /\ leader \in [host : Host \cup {NoLeader}, st : {"open", "dead", "closed"}]
  /\ follower \in [host : Host, st : {"open", "dead", "closed"}]
  /\ pc \in {"idle", "get leader", "connect", "retry", "not connected", "ask", "open leader",
             "move", "write", "read", "ended"}
  /\ op \in {"FSClient", "none"} \cup Write \cup Read
  /\ retry \in 0..N /\ status \in Status

(* A write is sent on a connection made to the host that the client takes  *)
(* for the leader: CreateFile and DeleteFile call through leader_rpc with  *)
(* no look at it (RaftFS.cpp:207, 226).                                    *)
WritesToLeader == pc = "write" => leader_id \in Host /\ leader.host = leader_id

(* Reads leave the leader alone if GetLeader can help it: where the client *)
(* turns away from the leader, it turns to another host (RaftFS.cpp:77-82, *)
(* with three hosts or more).                                              *)
TurnsToAnotherHost == pc = "move" => follower_id # leader_id

(* ConnectFollower gives up only if every host has refused it, however     *)
(* the hosts went down and came up meanwhile: its steps of two reach every *)
(* host of an odd number, and it makes enough of them.                     *)
GivesUpOnlyIfAllRefused == pc = "not connected" => refused = Host

(* The program ends in GetLeader only if the client never had a leader:    *)
(* neither the read of hosts[-2] nor the exception that nobody catches can *)
(* meet a client that has one, whatever fails later.                       *)
EndsOnlyWithoutLeader == pc = "ended" => leader_id = NoLeader /\ leader.host = NoLeader

(* One leader for life: nothing that a server answers makes the client     *)
(* write anywhere but to the first leader it was told (RaftFS.cpp:65 asks  *)
(* once, and 231 looks at what no answer says).                            *)
OneLeaderForLife ==
  [][leader_id # NoLeader => leader_id' = leader_id /\ leader'.host \in {leader.host, leader_id}]_vars

(* Every operation returns or ends the program, with every host down too.  *)
CallsReturn == pc # "idle" ~> pc \in {"idle", "ended"}
=============================================================================
