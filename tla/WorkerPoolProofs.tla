-------------------------- MODULE WorkerPoolProofs --------------------------
(***************************************************************************)
(* The types of WorkerPool: no connection is taken twice and no server has *)
(* more workers than it was given, however many hosts, testers and         *)
(* connections there are.                                                  *)
(***************************************************************************)
EXTENDS WorkerPool, FiniteSetTheorems, TLAPS

(* The connections that a server knows.                                    *)
At(h) == InQueue(h) \cup serving[h]

(* A client's connections are those of the places it has passed, and one   *)
(* that a server has opened is never closed: none is opened again.         *)
Explained(x) ==
  /\ x.for = "Raft" => x \in opened
  /\ x.for = "follower" =>
       /\ pc[x.by] # "start"
       /\ pc[x.by] \in {"ask", "open leader", "move"} => x.to = follower_id[x.by]
  /\ x.for = "leader" => pc[x.by] \notin {"start", "ask", "open leader"}

Known(x) == x \in opened \/ \E h \in Host : x \in At(h)

OpenedOnce == \A x \in Conn : Known(x) => Explained(x)

(* What TypeOK says of one server, with a queue that holds nothing twice   *)
(* instead of one that is as long as its set is large.                     *)
PoolOf(h) ==
  /\ queue[h] \in Seq(Conn) /\ serving[h] \subseteq Conn
  /\ \A x \in At(h) : x.to = h
  /\ InQueue(h) \cap serving[h] = {}
  /\ \A k, n \in 1..Len(queue[h]) : queue[h][k] = queue[h][n] => k = n
  /\ IsFiniteSet(serving[h]) /\ Cardinality(serving[h]) <= worker

PoolOK ==
  /\ queue \in [Host -> Seq(Conn)] /\ serving \in [Host -> SUBSET Conn]
  /\ \A h \in Host : PoolOf(h)

ClientsOK ==
  /\ opened \subseteq Conn
  /\ pc \in [Client -> Place]
  /\ leader_id \in [Client -> Host \cup {Nowhere}]
  /\ follower_id \in [Client -> Host \cup {Nowhere}]
  /\ m \in Tester \cup {Nobody} /\ init \in BOOLEAN
  /\ pc[Main] \notin {"lock", "creating", "running"}
  /\ \A c \in Client : pc[c] = "open leader" => leader_id[c] \in Host
  /\ \A c \in Client : pc[c] \in {"ask", "open leader", "move"} => follower_id[c] \in Host

PoolInv == PoolOK /\ ClientsOK /\ OpenedOnce

-----------------------------------------------------------------------------
(* Queues *)

(* A sequence that holds nothing twice is as long as its set is large.     *)
LEMMA QueueSize ==
  ASSUME NEW S, NEW q \in Seq(S), \A k, n \in 1..Len(q) : q[k] = q[n] => k = n
  PROVE  Cardinality({q[k] : k \in 1..Len(q)}) = Len(q)
<1>1. Len(q) \in Nat
  OBVIOUS
<1>2. IsFiniteSet(1..Len(q)) /\ Cardinality(1..Len(q)) = Len(q)
  <2>1. 1 \in Int /\ Len(q) \in Int /\ (1 > Len(q) => Len(q) = 0) /\ Len(q) - 1 + 1 = Len(q)
    BY <1>1
  <2>2. /\ IsFiniteSet(1..Len(q))
        /\ Cardinality(1..Len(q)) = IF 1 > Len(q) THEN 0 ELSE Len(q) - 1 + 1
    BY <2>1, FS_Interval
  <2> QED
    BY <2>1, <2>2
<1> DEFINE T == {q[k] : k \in 1..Len(q)}
           f == [k \in 1..Len(q) |-> q[k]]
<1>3. f \in Bijection(1..Len(q), T)
  BY DEF Bijection, Injection, Surjection, IsInjective
<1>4. ExistsBijection(1..Len(q), T)
  BY <1>3 DEF ExistsBijection
<1> QED
  BY <1>2, <1>4, FS_Bijection

LEMMA EmptyQueue ==
  ASSUME NEW S
  PROVE  <<>> \in Seq(S) /\ Len(<<>>) = 0
OBVIOUS

(* What a queue holds after another came to it, and after its first left.  *)
LEMMA AppendHolds ==
  ASSUME NEW S, NEW q \in Seq(S), NEW x \in S
  PROVE  /\ Append(q, x) \in Seq(S)
         /\ {Append(q, x)[k] : k \in 1..Len(Append(q, x))} = {q[k] : k \in 1..Len(q)} \cup {x}
<1>1. /\ Append(q, x) \in Seq(S) /\ Len(Append(q, x)) = Len(q) + 1 /\ Len(q) \in Nat
      /\ Append(q, x)[Len(q) + 1] = x
      /\ \A k \in 1..Len(q) : Append(q, x)[k] = q[k]
  OBVIOUS
<1>2. 1..(Len(q) + 1) = 1..Len(q) \cup {Len(q) + 1}
  BY <1>1
<1>3. \A y : y \in {Append(q, x)[k] : k \in 1..Len(Append(q, x))} <=> y \in {q[k] : k \in 1..Len(q)} \cup {x}
  <2> TAKE y
  <2>1. ASSUME NEW k \in 1..(Len(q) + 1), y = Append(q, x)[k]
        PROVE  y \in {q[n] : n \in 1..Len(q)} \cup {x}
    BY <1>1, <1>2, <2>1
  <2>2. ASSUME y \in {q[n] : n \in 1..Len(q)} \cup {x}
        PROVE  \E k \in 1..(Len(q) + 1) : y = Append(q, x)[k]
    BY <1>1, <1>2, <2>2
  <2> QED
    BY <1>1, <2>1, <2>2
<1> QED
  BY <1>1, <1>3

LEMMA AppendFresh ==
  ASSUME NEW S, NEW q \in Seq(S), NEW x \in S, x \notin {q[k] : k \in 1..Len(q)},
         \A k, n \in 1..Len(q) : q[k] = q[n] => k = n
  PROVE  \A k, n \in 1..Len(Append(q, x)) : Append(q, x)[k] = Append(q, x)[n] => k = n
<1>1. /\ Len(Append(q, x)) = Len(q) + 1 /\ Len(q) \in Nat
      /\ Append(q, x)[Len(q) + 1] = x
      /\ \A k \in 1..Len(q) : Append(q, x)[k] = q[k]
  OBVIOUS
<1> TAKE k, n \in 1..Len(Append(q, x))
<1>2. k \in 1..Len(q) \/ k = Len(q) + 1
  BY <1>1
<1>3. n \in 1..Len(q) \/ n = Len(q) + 1
  BY <1>1
<1> QED
  BY <1>1, <1>2, <1>3

LEMMA TailHolds ==
  ASSUME NEW S, NEW q \in Seq(S), q # <<>>, \A k, n \in 1..Len(q) : q[k] = q[n] => k = n
  PROVE  /\ Head(q) \in S /\ Tail(q) \in Seq(S)
         /\ Head(q) \in {q[k] : k \in 1..Len(q)}
         /\ {Tail(q)[k] : k \in 1..Len(Tail(q))} = {q[k] : k \in 1..Len(q)} \ {Head(q)}
         /\ \A k, n \in 1..Len(Tail(q)) : Tail(q)[k] = Tail(q)[n] => k = n
<1>1. /\ Len(q) \in Nat \ {0} /\ Tail(q) \in Seq(S) /\ Len(Tail(q)) = Len(q) - 1
      /\ Head(q) = q[1] /\ Head(q) \in S
      /\ \A k \in 1..(Len(q) - 1) : Tail(q)[k] = q[k + 1]
  OBVIOUS
<1>2. ASSUME NEW k \in 1..(Len(q) - 1) PROVE k + 1 \in 1..Len(q) /\ k + 1 # 1
  BY <1>1
<1>3. \A k, n \in 1..Len(Tail(q)) : Tail(q)[k] = Tail(q)[n] => k = n
  BY <1>1, <1>2
<1>4. \A y : y \in {Tail(q)[k] : k \in 1..Len(Tail(q))} <=> y \in {q[k] : k \in 1..Len(q)} \ {Head(q)}
  <2> TAKE y
  <2>1. ASSUME NEW k \in 1..(Len(q) - 1), y = Tail(q)[k]
        PROVE  y \in {q[n] : n \in 1..Len(q)} \ {Head(q)}
    <3>1. y = q[k + 1] /\ k + 1 \in 1..Len(q) /\ k + 1 # 1 /\ 1 \in 1..Len(q)
      BY <1>1, <1>2, <2>1
    <3> QED
      BY <1>1, <3>1
  <2>2. ASSUME NEW n \in 1..Len(q), y = q[n], y # Head(q)
        PROVE  \E k \in 1..(Len(q) - 1) : y = Tail(q)[k]
    <3>1. n - 1 \in 1..(Len(q) - 1) /\ (n - 1) + 1 = n
      BY <1>1, <2>2
    <3>2. Tail(q)[n - 1] = y
      BY <1>1, <2>2, <3>1
    <3> QED
      BY <3>1, <3>2
  <2> QED
    BY <1>1, <2>1, <2>2
<1> QED
  BY <1>1, <1>3, <1>4

-----------------------------------------------------------------------------
(* Workers *)

(* A connection that is new to the server it goes to is served or waits,   *)
(* and the server knows nothing else that it did not know.                 *)
LEMMA AcceptKeeps ==
  ASSUME PoolOK, NEW x \in Conn, x.to \in Host, x \notin At(x.to), Accept(x)
  PROVE  PoolOK' /\ \A h \in Host : At(h)' \subseteq At(h) \cup {x}
<1> DEFINE g == x.to
<1>1. worker \in Nat
  BY PoolAssumption
<1>2. CASE Cardinality(serving[g]) < worker
  <2>1. /\ serving' = [serving EXCEPT ![g] = @ \cup {x}] /\ queue' = queue
        /\ serving' \in [Host -> SUBSET Conn]
    BY <1>2 DEF Accept, PoolOK
  <2>2. ASSUME NEW h \in Host, h # g PROVE PoolOf(h)' /\ At(h)' = At(h)
    <3>1. serving'[h] = serving[h]
      BY <2>1, <2>2 DEF PoolOK
    <3> QED
      BY <2>1, <3>1 DEF PoolOK, PoolOf, At, InQueue
  <2>3. serving'[g] = serving[g] \cup {x}
    BY <2>1 DEF PoolOK
  <2>4. InQueue(g)' = InQueue(g) /\ x \notin InQueue(g) /\ x \notin serving[g]
    BY <2>1 DEF At, InQueue
  <2>5. /\ IsFiniteSet(serving'[g])
        /\ Cardinality(serving'[g]) = Cardinality(serving[g]) + 1
        /\ Cardinality(serving[g]) \in Nat
    <3>1. IsFiniteSet(serving[g])
      BY DEF PoolOK, PoolOf
    <3>2. /\ IsFiniteSet(serving[g] \cup {x})
          /\ Cardinality(serving[g] \cup {x}) = Cardinality(serving[g]) + 1
      BY <2>4, <3>1, FS_AddElement
    <3> QED
      BY <2>3, <3>1, <3>2, FS_CardinalityType
  <2>6. Cardinality(serving'[g]) <= worker
    BY <1>1, <1>2, <2>5
  <2>7. At(g)' = At(g) \cup {x}
    BY <2>3, <2>4 DEF At
  <2>8. PoolOf(g)'
    BY <2>1, <2>3, <2>4, <2>5, <2>6, <2>7 DEF PoolOK, PoolOf
  <2> QED
    BY <2>1, <2>2, <2>7, <2>8 DEF PoolOK
<1>3. CASE ~(Cardinality(serving[g]) < worker)
  <2>1. /\ queue' = [queue EXCEPT ![g] = Append(@, x)] /\ serving' = serving
        /\ queue[g] \in Seq(Conn)
    BY <1>3 DEF Accept, PoolOK
  <2>2. ASSUME NEW h \in Host, h # g PROVE PoolOf(h)' /\ At(h)' = At(h)
    <3>1. queue'[h] = queue[h]
      BY <2>1, <2>2 DEF PoolOK
    <3> QED
      BY <2>1, <3>1 DEF PoolOK, PoolOf, At, InQueue
  <2>3. queue'[g] = Append(queue[g], x)
    BY <2>1 DEF PoolOK
  <2>4. Append(queue[g], x) \in Seq(Conn) /\ InQueue(g)' = InQueue(g) \cup {x}
    BY <2>1, <2>3, AppendHolds DEF InQueue
  <2>5. x \notin InQueue(g) /\ x \notin serving[g]
    BY DEF At
  <2>6. \A k, n \in 1..Len(queue'[g]) : queue'[g][k] = queue'[g][n] => k = n
    BY <2>1, <2>3, <2>5, AppendFresh DEF InQueue, PoolOK, PoolOf
  <2>7. At(g)' = At(g) \cup {x}
    BY <2>1, <2>4 DEF At
  <2>8. PoolOf(g)'
    BY <2>1, <2>3, <2>4, <2>5, <2>6, <2>7 DEF PoolOK, PoolOf
  <2>9. queue' \in [Host -> Seq(Conn)]
    BY <2>1, <2>4 DEF PoolOK
  <2> QED
    BY <2>1, <2>2, <2>7, <2>8, <2>9 DEF PoolOK
<1> QED
  BY <1>2, <1>3

(* A worker that comes free has the first that waited or nothing.          *)
LEMMA NextTaskKeeps ==
  ASSUME PoolOK, NEW g \in Host, NEW x \in serving[g], NextTask(g, x)
  PROVE  PoolOK' /\ \A h \in Host : At(h)' \subseteq At(h)
<1>1. worker \in Nat /\ queue[g] \in Seq(Conn) /\ serving[g] \subseteq Conn
  BY PoolAssumption DEF PoolOK
<1>2. /\ IsFiniteSet(serving[g] \ {x})
      /\ Cardinality(serving[g] \ {x}) = Cardinality(serving[g]) - 1
      /\ Cardinality(serving[g]) \in Nat /\ Cardinality(serving[g]) <= worker
  BY FS_RemoveElement, FS_CardinalityType DEF PoolOK, PoolOf
<1>3. CASE queue[g] = <<>>
  <2>1. /\ serving' = [serving EXCEPT ![g] = @ \ {x}] /\ queue' = queue
        /\ serving' \in [Host -> SUBSET Conn]
    BY <1>3 DEF NextTask, PoolOK
  <2>2. ASSUME NEW h \in Host, h # g PROVE PoolOf(h)' /\ At(h)' = At(h)
    <3>1. serving'[h] = serving[h]
      BY <2>1, <2>2 DEF PoolOK
    <3> QED
      BY <2>1, <3>1 DEF PoolOK, PoolOf, At, InQueue
  <2>3. serving'[g] = serving[g] \ {x} /\ InQueue(g)' = InQueue(g)
    BY <2>1 DEF PoolOK, InQueue
  <2>4. At(g)' \subseteq At(g)
    BY <2>3 DEF At
  <2>5. PoolOf(g)'
    BY <1>1, <1>2, <2>1, <2>3, <2>4 DEF PoolOK, PoolOf
  <2> QED
    BY <2>1, <2>2, <2>4, <2>5 DEF PoolOK
<1>4. CASE queue[g] # <<>>
  <2> DEFINE y == Head(queue[g])
  <2>1. /\ serving' = [serving EXCEPT ![g] = (@ \ {x}) \cup {y}]
        /\ queue' = [queue EXCEPT ![g] = Tail(@)]
    BY <1>4 DEF NextTask
  <2>2. ASSUME NEW h \in Host, h # g PROVE PoolOf(h)' /\ At(h)' = At(h)
    <3>1. serving'[h] = serving[h] /\ queue'[h] = queue[h]
      BY <2>1, <2>2 DEF PoolOK
    <3> QED
      BY <3>1 DEF PoolOK, PoolOf, At, InQueue
  <2>3. serving'[g] = (serving[g] \ {x}) \cup {y} /\ queue'[g] = Tail(queue[g])
    BY <2>1 DEF PoolOK
  <2>4. /\ y \in Conn /\ Tail(queue[g]) \in Seq(Conn) /\ y \in InQueue(g)
        /\ InQueue(g)' = InQueue(g) \ {y}
        /\ \A k, n \in 1..Len(queue'[g]) : queue'[g][k] = queue'[g][n] => k = n
    <3> DEFINE q == queue[g]
    <3>1. q \in Seq(Conn) /\ q # <<>> /\ \A k, n \in 1..Len(q) : q[k] = q[n] => k = n
      BY <1>1, <1>4 DEF PoolOK, PoolOf
    <3> HIDE DEF q
    <3>2. /\ Head(q) \in Conn /\ Tail(q) \in Seq(Conn)
          /\ Head(q) \in {q[k] : k \in 1..Len(q)}
          /\ {Tail(q)[k] : k \in 1..Len(Tail(q))} = {q[k] : k \in 1..Len(q)} \ {Head(q)}
          /\ \A k, n \in 1..Len(Tail(q)) : Tail(q)[k] = Tail(q)[n] => k = n
      BY <3>1, TailHolds
    <3>3. queue'[g] = Tail(q) /\ y = Head(q) /\ q = queue[g]
      BY <2>3 DEF q
    <3> HIDE DEF y
    <3>4. InQueue(g) = {q[k] : k \in 1..Len(q)}
      BY <3>3 DEF InQueue
    <3>5. InQueue(g)' = {Tail(q)[k] : k \in 1..Len(Tail(q))}
      BY <3>3 DEF InQueue
    <3>6. \A k, n \in 1..Len(queue'[g]) : queue'[g][k] = queue'[g][n] => k = n
      BY <3>2, <3>3
    <3> QED
      BY <3>2, <3>3, <3>4, <3>5, <3>6
  <2>5. y \notin serving[g] \ {x} /\ InQueue(g) \cap serving[g] = {}
    BY <2>4 DEF PoolOK, PoolOf
  <2>6. IsFiniteSet(serving'[g]) /\ Cardinality(serving'[g]) = Cardinality(serving[g] \ {x}) + 1
    <3> DEFINE rest == serving[g] \ {x}
    <3>1. IsFiniteSet(rest) /\ y \notin rest
      BY <1>2, <2>5
    <3>2. IsFiniteSet(rest \cup {y}) /\ Cardinality(rest \cup {y}) = Cardinality(rest) + 1
      <4> HIDE DEF rest, y
      <4> QED
        BY <3>1, FS_AddElement
    <3> QED
      BY <2>3, <3>2
  <2>7. Cardinality(serving'[g]) <= worker
    BY <1>1, <1>2, <2>6
  <2>8. At(g)' \subseteq At(g)
    BY <2>3, <2>4 DEF At
  <2>9. PoolOf(g)'
    BY <1>1, <2>3, <2>4, <2>5, <2>6, <2>7, <2>8 DEF PoolOK, PoolOf
  <2>10. queue' \in [Host -> Seq(Conn)] /\ serving' \in [Host -> SUBSET Conn]
    BY <1>1, <2>1, <2>4 DEF PoolOK
  <2> QED
    BY <2>2, <2>8, <2>9, <2>10 DEF PoolOK
<1> QED
  BY <1>3, <1>4

-----------------------------------------------------------------------------
(* Connections *)

LEMMA ConnectionType ==
  ASSUME NEW c \in Client, NEW for \in {"leader", "follower"}, NEW h \in Host
  PROVE  /\ Connection(c, for, h) \in Conn
         /\ Connection(c, for, h).by = c /\ Connection(c, for, h).for = for
         /\ Connection(c, for, h).to = h
BY DEF Connection, Conn

LEMMA RaftConnectionType ==
  ASSUME NEW i \in Host, NEW j \in Host
  PROVE  /\ RaftConnection(i, j) \in Conn
         /\ RaftConnection(i, j).for = "Raft" /\ RaftConnection(i, j).to = j
BY DEF RaftConnection, Conn

LEMMA OpenerType ==
  ASSUME NEW x \in Conn
  PROVE  /\ x.for \in {"leader", "follower", "Raft"} /\ x.to \in Host
         /\ x.for # "Raft" => x.by \in Client
BY DEF Conn

(* Two steps further is another host.                                      *)
LEMMA RotatedIsOther ==
  ASSUME NEW f \in Host
  PROVE  Rotated(f) \in Host /\ Rotated(f) # f
<1>1. N \in Nat /\ N >= 3 /\ f \in 1..N
  BY PoolAssumption DEF Host
<1>2. CASE f + 1 < N
  <2>1. (f + 1) % N = f + 1
    BY <1>1, <1>2
  <2> QED
    BY <1>1, <1>2, <2>1 DEF Rotated, Host
<1>3. CASE f + 1 = N
  <2>1. (f + 1) % N = 0
    BY <1>1, <1>3
  <2> QED
    BY <1>1, <1>3, <2>1 DEF Rotated, Host
<1>4. CASE f = N
  <2>1. (f + 1) % N = 1
    BY <1>1, <1>4
  <2> QED
    BY <1>1, <1>4, <2>1 DEF Rotated, Host
<1> QED
  BY <1>1, <1>2, <1>3, <1>4

(* What a client's step may do to its place: no place is taken twice, and  *)
(* its follower is another one only after the constructor.                 *)
Progress(c) ==
  /\ pc[c] # "start" => pc'[c] # "start"
  /\ pc[c] \notin {"start", "ask", "open leader"} => pc'[c] \notin {"start", "ask", "open leader"}
  /\ pc'[c] \in {"ask", "open leader", "move"} =>
       \/ pc[c] = "start"
       \/ pc[c] \in {"ask", "open leader", "move"} /\ follower_id'[c] = follower_id[c]

RaftStays == \A x \in opened : x.for = "Raft" => x \in opened'

LEMMA StaysExplained ==
  ASSUME NEW y \in Conn, Explained(y), RaftStays, \A c \in Client : Progress(c)
  PROVE  Explained(y)'
<1>1. /\ y.for \in {"leader", "follower", "Raft"}
      /\ y.for # "Raft" => y.by \in Client
  BY OpenerType
<1>2. CASE y.for = "Raft"
  BY <1>2 DEF Explained, RaftStays
<1>3. CASE y.for = "follower"
  BY <1>1, <1>3 DEF Explained, Progress
<1>4. CASE y.for = "leader"
  BY <1>1, <1>4 DEF Explained, Progress
<1> QED
  BY <1>1, <1>2, <1>3, <1>4

(* A step that opens nothing, and one that opens x.                        *)
LEMMA OpensNothing ==
  ASSUME OpenedOnce, opened' \subseteq opened, RaftStays, \A c \in Client : Progress(c),
         \A h \in Host : At(h)' \subseteq At(h)
  PROVE  OpenedOnce'
<1> SUFFICES ASSUME NEW y \in Conn, Known(y)' PROVE Explained(y)'
  BY DEF OpenedOnce
<1>1. Known(y)
  BY DEF Known
<1> QED
  BY <1>1, StaysExplained DEF OpenedOnce

LEMMA OpensOne ==
  ASSUME OpenedOnce, RaftStays, \A c \in Client : Progress(c), NEW x \in Conn, Explained(x)',
         opened' \subseteq opened \cup {x}, \A h \in Host : At(h)' \subseteq At(h) \cup {x}
  PROVE  OpenedOnce'
<1> SUFFICES ASSUME NEW y \in Conn, Known(y)', y # x PROVE Explained(y)'
  BY DEF OpenedOnce
<1>1. Known(y)
  BY DEF Known
<1> QED
  BY <1>1, StaysExplained DEF OpenedOnce

(* A step that leaves the servers alone.                                   *)
LEMMA QuietPool ==
  ASSUME PoolOK, UNCHANGED poolVars
  PROVE  PoolOK' /\ \A h \in Host : At(h)' \subseteq At(h)
BY DEF PoolOK, PoolOf, At, InQueue, poolVars

(* What is new to its opener's side is new to the server.                  *)
LEMMA UnknownIsNew ==
  ASSUME NEW x \in Conn, ~Known(x)
  PROVE  x.to \in Host /\ x \notin At(x.to)
BY OpenerType DEF Known

-----------------------------------------------------------------------------
(* Steps: what each leaves of the servers, the clients, and of OpenedOnce. *)

LEMMA LeaveStep ==
  ASSUME PoolInv, NEW h \in Host, NEW x \in serving[h], LeaveConnection(h, x)
  PROVE  PoolInv'
<1>1. PoolOK' /\ \A g \in Host : At(g)' \subseteq At(g)
  BY NextTaskKeeps DEF LeaveConnection, PoolInv
<1>2. UNCHANGED <<opened, pc, leader_id, follower_id, m, init>>
  BY DEF LeaveConnection, clientVars
<1>3. ClientsOK'
  BY <1>2 DEF ClientsOK, PoolInv
<1>4. RaftStays /\ \A c \in Client : Progress(c)
  BY <1>2 DEF RaftStays, Progress
<1> QED
  BY <1>1, <1>2, <1>3, <1>4, OpensNothing DEF PoolInv

LEMMA ConnectRemoteStep ==
  ASSUME PoolInv, NEW i \in Rivals, NEW j \in Host, ConnectRemote(i, j)
  PROVE  PoolInv'
<1> DEFINE x == RaftConnection(i, j)
<1>1. x \in Conn /\ x.for = "Raft" /\ x.to = j
  BY RaftConnectionType, PoolAssumption
<1>2. /\ x \notin opened /\ opened' = opened \cup {x} /\ Accept(x)
      /\ UNCHANGED <<pc, leader_id, follower_id, m, init>>
  BY DEF ConnectRemote, clientVars
<1> HIDE DEF x
<1>3. ~Known(x)
  BY <1>1, <1>2 DEF PoolInv, OpenedOnce, Explained
<1>4. PoolOK' /\ \A h \in Host : At(h)' \subseteq At(h) \cup {x}
  BY <1>1, <1>2, <1>3, UnknownIsNew, AcceptKeeps DEF PoolInv
<1>5. ClientsOK'
  BY <1>1, <1>2 DEF ClientsOK, PoolInv
<1>6. RaftStays /\ \A c \in Client : Progress(c)
  BY <1>2 DEF RaftStays, Progress
<1>7. Explained(x)'
  BY <1>1, <1>2 DEF Explained
<1> QED
  BY <1>1, <1>2, <1>4, <1>5, <1>6, <1>7, OpensOne DEF PoolInv

LEMMA StartClientStep ==
  ASSUME PoolInv, NEW c \in Client, NEW f \in Host, StartClient(c, f)
  PROVE  PoolInv'
<1> DEFINE x == Connection(c, "follower", f)
<1>1. x \in Conn /\ x.by = c /\ x.for = "follower" /\ x.to = f
  BY ConnectionType
<1>2. /\ pc[c] = "start" /\ opened' = opened \cup {x} /\ Accept(x)
      /\ pc' = [pc EXCEPT ![c] = "ask"] /\ follower_id' = [follower_id EXCEPT ![c] = f]
      /\ UNCHANGED <<leader_id, m, init>>
  BY DEF StartClient
<1> HIDE DEF x
<1>3. pc \in [Client -> Place] /\ follower_id \in [Client -> Host \cup {Nowhere}]
  BY DEF PoolInv, ClientsOK
<1>4. ~Known(x)
  BY <1>1, <1>2 DEF PoolInv, OpenedOnce, Explained
<1>5. PoolOK' /\ \A h \in Host : At(h)' \subseteq At(h) \cup {x}
  BY <1>1, <1>2, <1>4, UnknownIsNew, AcceptKeeps DEF PoolInv
<1>6. ClientsOK'
  <2>1. pc' \in [Client -> Place] /\ follower_id' \in [Client -> Host \cup {Nowhere}]
    BY <1>2, <1>3 DEF Place
  <2>2. ASSUME NEW k \in Client
        PROVE  /\ pc'[k] = "open leader" => leader_id'[k] \in Host
               /\ pc'[k] \in {"ask", "open leader", "move"} => follower_id'[k] \in Host
               /\ k = Main => pc'[k] \notin {"lock", "creating", "running"}
    BY <1>2, <1>3 DEF PoolInv, ClientsOK
  <2> QED
    BY <1>1, <1>2, <2>1, <2>2 DEF PoolInv, ClientsOK, Client
<1>7. RaftStays /\ \A k \in Client : Progress(k)
  BY <1>2, <1>3 DEF RaftStays, Progress
<1>8. Explained(x)'
  BY <1>1, <1>2, <1>3 DEF Explained
<1> QED
  BY <1>1, <1>2, <1>5, <1>6, <1>7, <1>8, OpensOne DEF PoolInv

LEMMA OpenLeaderStep ==
  ASSUME PoolInv, NEW c \in Client, OpenLeader(c)
  PROVE  PoolInv'
<1>1. /\ pc \in [Client -> Place] /\ follower_id \in [Client -> Host \cup {Nowhere}]
      /\ leader_id[c] \in Host /\ follower_id[c] \in Host
  BY DEF PoolInv, ClientsOK, OpenLeader
<1>2. PICK x \in Conn : /\ x = Leader(c)
                        /\ x.by = c /\ x.for = "leader" /\ x.to = leader_id[c]
  BY <1>1, ConnectionType DEF Leader
<1>3. PICK next \in {"move", "joining", "lock"} :
        /\ pc' = [pc EXCEPT ![c] = next]
        /\ c = Main => next # "lock"
  BY DEF OpenLeader, Constructed
<1>4. /\ pc[c] = "open leader" /\ opened' = opened \cup {x} /\ Accept(x)
      /\ UNCHANGED <<leader_id, follower_id, m, init>>
  BY <1>2 DEF OpenLeader
<1>5. ~Known(x)
  BY <1>2, <1>4 DEF PoolInv, OpenedOnce, Explained
<1>6. PoolOK' /\ \A h \in Host : At(h)' \subseteq At(h) \cup {x}
  BY <1>1, <1>2, <1>4, <1>5, UnknownIsNew, AcceptKeeps DEF PoolInv
<1>7. ClientsOK'
  <2>1. pc' \in [Client -> Place]
    BY <1>1, <1>3 DEF Place
  <2>2. ASSUME NEW k \in Client
        PROVE  /\ pc'[k] = "open leader" => leader_id'[k] \in Host
               /\ pc'[k] \in {"ask", "open leader", "move"} => follower_id'[k] \in Host
               /\ k = Main => pc'[k] \notin {"lock", "creating", "running"}
    BY <1>1, <1>3, <1>4 DEF PoolInv, ClientsOK
  <2> QED
    BY <1>4, <2>1, <2>2 DEF PoolInv, ClientsOK, Client
<1>8. RaftStays /\ \A k \in Client : Progress(k)
  BY <1>1, <1>3, <1>4 DEF RaftStays, Progress
<1>9. Explained(x)'
  BY <1>1, <1>2, <1>3 DEF Explained
<1> QED
  BY <1>4, <1>6, <1>7, <1>8, <1>9, OpensOne DEF PoolInv

LEMMA MoveFollowerStep ==
  ASSUME PoolInv, NEW c \in Client, MoveFollower(c)
  PROVE  PoolInv'
<1>1. /\ pc \in [Client -> Place] /\ follower_id \in [Client -> Host \cup {Nowhere}]
      /\ follower_id[c] \in Host
  BY DEF PoolInv, ClientsOK, MoveFollower
<1>2. Rotated(follower_id[c]) \in Host /\ Rotated(follower_id[c]) # follower_id[c]
  BY <1>1, RotatedIsOther
<1>3. PICK x \in Conn : /\ x = Connection(c, "follower", Rotated(follower_id[c]))
                        /\ x.by = c /\ x.for = "follower" /\ x.to = Rotated(follower_id[c])
  BY <1>2, ConnectionType
<1>4. PICK old : old = Follower(c) /\ old.for = "follower"
  BY <1>1, ConnectionType DEF Follower
<1>5. PICK next \in {"joining", "lock"} :
        /\ pc' = [pc EXCEPT ![c] = next]
        /\ c = Main => next # "lock"
  BY DEF MoveFollower, Constructed
<1>6. /\ pc[c] = "move" /\ opened' = (opened \ {old}) \cup {x} /\ Accept(x)
      /\ follower_id' = [follower_id EXCEPT ![c] = x.to]
      /\ UNCHANGED <<leader_id, m, init>>
  BY <1>3, <1>4 DEF MoveFollower
<1>7. ~Known(x)
  BY <1>2, <1>3, <1>6 DEF PoolInv, OpenedOnce, Explained
<1>8. PoolOK' /\ \A h \in Host : At(h)' \subseteq At(h) \cup {x}
  BY <1>6, <1>7, UnknownIsNew, AcceptKeeps DEF PoolInv
<1>9. ClientsOK'
  <2>1. pc' \in [Client -> Place] /\ follower_id' \in [Client -> Host \cup {Nowhere}]
    BY <1>1, <1>2, <1>3, <1>5, <1>6 DEF Place
  <2>2. ASSUME NEW k \in Client
        PROVE  /\ pc'[k] = "open leader" => leader_id'[k] \in Host
               /\ pc'[k] \in {"ask", "open leader", "move"} => follower_id'[k] \in Host
               /\ k = Main => pc'[k] \notin {"lock", "creating", "running"}
    BY <1>1, <1>5, <1>6 DEF PoolInv, ClientsOK
  <2> QED
    BY <1>6, <2>1, <2>2 DEF PoolInv, ClientsOK, Client
<1>10. RaftStays /\ \A k \in Client : Progress(k)
  BY <1>1, <1>4, <1>5, <1>6 DEF RaftStays, Progress
<1>11. Explained(x)'
  BY <1>1, <1>3, <1>5 DEF Explained
<1> QED
  BY <1>6, <1>8, <1>9, <1>10, <1>11, OpensOne DEF PoolInv

(* A step of a client that opens nothing.                                  *)
LEMMA QuietStep ==
  ASSUME PoolInv, ClientsOK', UNCHANGED poolVars, opened' \subseteq opened, RaftStays,
         \A k \in Client : Progress(k)
  PROVE  PoolInv'
BY QuietPool, OpensNothing DEF PoolInv

LEMMA AskLeaderStep ==
  ASSUME PoolInv, NEW c \in Client, NEW l \in Leaders, AskLeader(c, l)
  PROVE  PoolInv'
<1>1. /\ pc[c] = "ask" /\ l \in Host
      /\ pc' = [pc EXCEPT ![c] = "open leader"] /\ leader_id' = [leader_id EXCEPT ![c] = l]
      /\ UNCHANGED <<opened, poolVars, follower_id, m, init>>
  BY PoolAssumption DEF AskLeader
<1>2. pc \in [Client -> Place] /\ leader_id \in [Client -> Host \cup {Nowhere}]
  BY DEF PoolInv, ClientsOK
<1>3. ClientsOK'
  <2>1. pc' \in [Client -> Place] /\ leader_id' \in [Client -> Host \cup {Nowhere}]
    BY <1>1, <1>2 DEF Place
  <2>2. ASSUME NEW k \in Client
        PROVE  /\ pc'[k] = "open leader" => leader_id'[k] \in Host
               /\ pc'[k] \in {"ask", "open leader", "move"} => follower_id'[k] \in Host
               /\ k = Main => pc'[k] \notin {"lock", "creating", "running"}
    BY <1>1, <1>2 DEF PoolInv, ClientsOK
  <2> QED
    BY <1>1, <2>1, <2>2 DEF PoolInv, ClientsOK, Client
<1>4. RaftStays /\ \A k \in Client : Progress(k)
  BY <1>1, <1>2 DEF RaftStays, Progress
<1> QED
  BY <1>1, <1>3, <1>4, QuietStep

LEMMA AskInVainStep ==
  ASSUME PoolInv, NEW c \in Client, AskInVain(c)
  PROVE  PoolInv'
<1>1. /\ pc' = [k \in Client |-> "done"] /\ opened' = {x \in opened : x.for = "Raft"}
      /\ UNCHANGED <<poolVars, leader_id, follower_id, m, init>>
  BY DEF AskInVain
<1>2. ClientsOK'
  BY <1>1 DEF PoolInv, ClientsOK, Client, Place
<1>3. RaftStays /\ \A k \in Client : Progress(k)
  BY <1>1 DEF RaftStays, Progress
<1> QED
  BY <1>1, <1>2, <1>3, QuietStep

(* ~FSClient closes nothing that a server opened.                          *)
LEMMA ClosesOwn ==
  ASSUME NEW c
  PROVE  Closes(c) \subseteq opened /\ \A x \in opened : x.for = "Raft" => x \in Closes(c)
BY DEF Closes, Follower, Leader, Connection

(* A client that comes from one place of its life after the constructor to *)
(* another.                                                                *)
Goes(c, from, to) == pc[c] = from /\ pc' = [pc EXCEPT ![c] = to]

LEMMA WorksOn ==
  ASSUME PoolInv, NEW c \in Client, NEW from \in {"joining", "lock", "creating", "running"},
         NEW to \in {"joining", "creating", "running", "done"}, c = Main => to = "done",
         Goes(c, from, to), UNCHANGED <<poolVars, leader_id, follower_id>>,
         opened' \subseteq opened, RaftStays, m' \in Tester \cup {Nobody}, init' \in BOOLEAN
  PROVE  PoolInv'
<1>1. pc \in [Client -> Place]
  BY DEF PoolInv, ClientsOK
<1>2. ClientsOK'
  <2>1. pc' \in [Client -> Place]
    BY <1>1 DEF Goes, Place
  <2>2. ASSUME NEW k \in Client
        PROVE  /\ pc'[k] = "open leader" => leader_id'[k] \in Host
               /\ pc'[k] \in {"ask", "open leader", "move"} => follower_id'[k] \in Host
               /\ k = Main => pc'[k] \notin {"lock", "creating", "running"}
    BY <1>1 DEF PoolInv, ClientsOK, Goes
  <2> QED
    BY <2>1, <2>2 DEF PoolInv, ClientsOK, Client
<1>3. \A k \in Client : Progress(k)
  BY <1>1 DEF Progress, Goes
<1> QED
  BY <1>2, <1>3, QuietStep

(* The tester's own part: never main's client, which only joins.           *)
LEMMA TesterStep ==
  ASSUME PoolInv, NEW c \in Client,
         \/ LockTree(c) \/ CallAnswered(c) \/ \E plan \in Plans : UnlockTree(c, plan)
         \/ EndTester(c)
  PROVE  PoolInv'
<1>1. /\ c # Main \/ pc[c] \notin {"lock", "creating", "running"}
      /\ m \in Tester \cup {Nobody} /\ init \in BOOLEAN /\ pc \in [Client -> Place]
  BY DEF PoolInv, ClientsOK
<1>2. CASE LockTree(c)
  <2>1. /\ Goes(c, "lock", "creating") /\ UNCHANGED <<opened, poolVars, leader_id, follower_id, init>>
        /\ c # Main /\ m' = c
    BY <1>1, <1>2 DEF LockTree, Goes
  <2> QED
    BY <1>1, <2>1, WorksOn DEF RaftStays, Client
<1>3. CASE CallAnswered(c)
  <2>1. /\ UNCHANGED <<opened, poolVars, pc, leader_id, follower_id, m, init>>
    BY <1>3 DEF CallAnswered
  <2>2. ClientsOK' /\ RaftStays /\ \A k \in Client : Progress(k)
    BY <2>1 DEF PoolInv, ClientsOK, RaftStays, Progress
  <2> QED
    BY <2>1, <2>2, QuietStep
<1>4. ASSUME NEW plan \in Plans, UnlockTree(c, plan) PROVE PoolInv'
  <2>1. /\ Goes(c, "creating", "running") /\ UNCHANGED <<opened, poolVars, leader_id, follower_id>>
        /\ c # Main /\ m' = Nobody /\ init' = FALSE
    BY <1>1, <1>4 DEF UnlockTree, Goes
  <2> QED
    BY <1>1, <2>1, WorksOn DEF RaftStays
<1>5. CASE EndTester(c)
  <2>1. /\ Goes(c, "running", "done") /\ UNCHANGED <<poolVars, leader_id, follower_id, m, init>>
        /\ opened' = Closes(c)
    BY <1>5 DEF EndTester, Goes
  <2> QED
    BY <1>1, <2>1, ClosesOwn, WorksOn DEF RaftStays
<1> QED
  BY <1>2, <1>3, <1>4, <1>5

LEMMA EndMainStep ==
  ASSUME PoolInv, EndMain
  PROVE  PoolInv'
<1>1. /\ Goes(Main, "joining", "done") /\ UNCHANGED <<poolVars, leader_id, follower_id, m, init>>
      /\ opened' = Closes(Main) /\ Main \in Client
  BY DEF EndMain, Goes, Client
<1>2. m \in Tester \cup {Nobody} /\ init \in BOOLEAN
  BY DEF PoolInv, ClientsOK
<1> QED
  BY <1>1, <1>2, ClosesOwn, WorksOn DEF RaftStays

-----------------------------------------------------------------------------
(* The theorem *)

LEMMA PoolInit ==
  ASSUME Init
  PROVE  PoolInv
<1>1. opened = {} /\ m = Nobody /\ init = TRUE
  BY DEF Init
<1>2. ASSUME NEW h \in Host PROVE queue[h] = <<>> /\ serving[h] = {} /\ At(h) = {} /\ InQueue(h) = {}
  BY DEF Init, At, InQueue
<1>3. PoolOK
  <2>1. ASSUME NEW h \in Host PROVE PoolOf(h)
    <3>1. IsFiniteSet(serving[h]) /\ Cardinality(serving[h]) = 0
      BY <1>2, FS_EmptySet
    <3> QED
      <4>1. worker \in Nat
        BY PoolAssumption
      <4>2. queue[h] \in Seq(Conn) /\ Len(queue[h]) = 0
        BY <1>2, EmptyQueue
      <4>3. \A k, n \in 1..Len(queue[h]) : queue[h][k] = queue[h][n] => k = n
        BY <4>2
      <4>4. Cardinality(serving[h]) <= worker
        BY <3>1, <4>1
      <4> QED
        BY <1>2, <3>1, <4>2, <4>3, <4>4 DEF PoolOf
  <2> QED
    BY <2>1 DEF Init, PoolOK
<1>4. ClientsOK
  <2>1. Main \in Client
    BY DEF Client
  <2> QED
    BY <2>1 DEF Init, ClientsOK, Place
<1>5. OpenedOnce
  BY <1>1, <1>2 DEF OpenedOnce, Known
<1> QED
  BY <1>3, <1>4, <1>5 DEF PoolInv

LEMMA PoolStep ==
  ASSUME PoolInv, [Next]_vars
  PROVE  PoolInv'
<1>1. ASSUME NEW c \in Client, ClientStep(c) PROVE PoolInv'
  BY <1>1, StartClientStep, AskLeaderStep, AskInVainStep, OpenLeaderStep, MoveFollowerStep,
     TesterStep DEF ClientStep
<1>2. CASE UNCHANGED vars
  <2>1. UNCHANGED <<opened, poolVars, pc, leader_id, follower_id, m, init>>
    BY <1>2 DEF vars, clientVars
  <2>2. ClientsOK' /\ RaftStays /\ \A k \in Client : Progress(k)
    BY <2>1 DEF PoolInv, ClientsOK, RaftStays, Progress
  <2> QED
    BY <2>1, <2>2, QuietStep
<1> QED
  BY <1>1, <1>2, LeaveStep, EndMainStep, ConnectRemoteStep DEF Next, Steps

LEMMA PoolTypes ==
  ASSUME PoolInv
  PROVE  TypeOK
<1>1. ASSUME NEW h \in Host
      PROVE  /\ \A x \in InQueue(h) \cup serving[h] : x \in Conn /\ x.to = h
             /\ InQueue(h) \cap serving[h] = {}
             /\ Cardinality(InQueue(h)) = Len(queue[h])
             /\ Cardinality(serving[h]) <= worker
  <2>1. PoolOf(h)
    BY DEF PoolInv, PoolOK
  <2>2. \A x \in InQueue(h) \cup serving[h] : x \in Conn
    BY <2>1 DEF PoolOf, InQueue
  <2>3. Cardinality(InQueue(h)) = Len(queue[h])
    BY <2>1, QueueSize DEF PoolOf, InQueue
  <2> QED
    BY <2>1, <2>2, <2>3 DEF PoolOf, At
<1> QED
  BY <1>1 DEF PoolInv, ClientsOK, TypeOK, Place

(* The types of WorkerPool, and that no connection is served by two        *)
(* workers, waits while it is served or waits twice, and that no server    *)
(* has more than its workers: whatever the number of servers from three    *)
(* on, of workers, testers, and the order in which they connect and leave. *)
THEOREM PoolTypeCorrect == Spec => []TypeOK
<1>1. Init => PoolInv
  BY PoolInit
<1>2. PoolInv /\ [Next]_vars => PoolInv'
  BY PoolStep
<1>3. PoolInv => TypeOK
  BY PoolTypes
<1> QED
  BY <1>1, <1>2, <1>3, PTL DEF Spec
=============================================================================
