# raftfs: specification, model checking and proofs

raftfs is a small replicated file-system namespace: a few servers keep the same
tree of directories and files by agreeing on a log of operations with their own
version of Raft, and clients send writes to the leader and reads to another
server. This directory holds TLA+ modules translated from its source, the
configurations TLC checks them with, and proofs that TLAPS checks.

The reference is the code. Where the code departs from the Raft paper, from its
comments or from its tests, the modules follow the code; the disagreements that
matter are listed below and four of them are runs in which TLC finds the
counterexample.

## The system

| Part | Source | State | Operations |
|---|---|---|---|
| Log | `storage/LogManager` | `memory_log` (a deque of entries), `last_commited_index` | append one entry; lay a batch over the log; entries after an index; last and commit index |
| Consensus | `server/RaftConsensus` | role, term, `leader_id`, `vote_for`, `vote_pool`, `next_index` per remote, `pending_entries` | `CheckLeaderLoop`, one `RemoteHostLoop` per remote, `OnRequestVote`, `OnAppendEntries`, `OnMetaOperation` |
| Apply thread | `RaftConsensus::FSUpdateLoop` | `commited_index` of the namespace | apply committed entries to the namespace |
| Namespace | `filesystem/FSNamespace`, `INode` | the tree | MakeDir, DeleteDir, CreateFile, RemoveFile, ListDir, GetFileInfo |
| Client handlers | `server/ClientRPCService` | none | check leadership, pass the operation to consensus, read the namespace |
| RPC services, server | `server/RaftRPCService`, `RaftMetaServer` | a pool of 10 workers | forward calls |
| Client library | `client/RaftFS` | `leader_id`, `follower_id`, two connections | connect, find the leader, four writes, two reads |
| Load generator | `client/PerfTest`, `client_main` | `write_tree` with what should exist, commands run and their limits; a mutex | make the test tree, draw and run a command, give up, end |
| Options, tests, scripts | `utils`, `test`, `docker` | | |

### How the parts interact

* A server has one thread per remote. Each makes one synchronous call at a time
  *without* holding the server's mutex `m`, and takes the mutex again to read
  the answer. The election thread and the Raft handlers run under `m`.
* A worker that handles a client's write does not take `m`: it reads role,
  `leader_id` and `current_term`, appends to the log (which has its own mutex)
  and waits up to two seconds for the commit index to reach its entry's index.
* The apply thread waits on a condition variable with a mutex `fs_m` that nobody
  else takes, and reads role, `pending_entries` and commit index unlocked.
* Connections have no receive timeout (`RaftConsensus.cpp:34` is commented
  out). When a connection breaks, its request may still be read and handled by
  the other side's worker: an *orphan*, which may be handled late.
* Nothing is stored: a server that restarts begins as a new one.
* Each server has ten workers. A worker takes a connection and keeps it until the
  other side closes it: the connections of the other servers for life, those of
  a client as long as the client lives. A connection without a worker is
  accepted, and whoever calls on it waits without a timeout.
* `client_main` has a client of its own and three testers, each with its client
  of two connections; a mutex covers the making of the test tree.

### What is hard here, and what makes each part correct

| Part | Hard behaviour | Correct means |
|---|---|---|
| Log | batches that overlap, stop short, leave holes or conflict | what precedes the batch survives, what is shipped is exactly what follows an index |
| Elections | late answers, votes for past terms, overlapping rounds, restarts | one leader per term, votes never change, a server names only servers that led as leader |
| Replication | late requests, changes of leader, next_index reset from old answers | leaders only append, commit never falls, an answer moves next_index by an entry the leader has, a stable leader commits everything |
| Client handlers | unlocked steps between role, term and append | one index and term name one command; kOK means committed (it does not) |
| Apply thread | unlocked reads, rounds cut short and restarted, entries missing or deleted in its hands | only committed entries show; a follower's namespace is the replay of its log |
| Namespace | entries applied twice, recursive delete, files where directories are expected | nothing in it but what committed entries name |
| Client | hosts going down between calls, stale leader | every call returns; gives up only if everybody refused |
| Load generator | beliefs carried from answer to answer, a loop of draws without exit, answers nobody looks at | it ends, and what it says should exist does |
| Workers | connections that hold a worker while they wait for another one or for a mutex | everybody is served in the end, the program ends and gives back its workers |

`PROJECT.json` lists every hazard at its line with the properties that cover it.

## The modules

| Module | Models | Notes |
|---|---|---|
| `LogManager` | the log operations, as operators on sequences of entries | closed forms of the loops; `LowerBound` is a recursive function, the halving search of `std::lower_bound` |
| `LogManagerMC` | two logs that ship to each other; the loops of the source one iteration at a time, as recursive functions | the instance for `log_operations` and `batch_is_appended` |
| `RaftConsensus` | elections, replication, client handlers, crashes, restarts, lost and late calls | extends `LogManager`; the core |
| `Election` | what an election promises: per term one winner, and only it leads | abstract specification |
| `RaftElection` | the refinement mapping to `Election` and the inductive invariant | |
| `RaftConsensusMC` | initial states after an election, symmetry, assumptions on calls | instances for TLC |
| `FSNamespace` | the tree operations the servers call, as operators on trees | |
| `FSUpdate` | the apply thread, with the other threads of its server as environment | extends `FSNamespace` |
| `FSUpdateMC` | the commands of the instance | |
| `CommitLog` | what a leader that stays promises: operations accepted, committed, answered | abstract specification; the mapping is in `RaftConsensusMC` |
| `FSClient` | one client and the hosts it connects to | has no specification of its own |
| `PerfTest` | the load generator that owns the client, and one namespace it writes to | extends `FSClient` and `FSNamespace` |
| `PerfTestMC` | ratios of commands | the instance for `client` |
| `WorkerPool` | the workers of the servers, the connections of servers and of `client_main`'s clients | |
| `WorkerPoolMC` | the calls of the testers | the instance for `worker_pool` |
| `LogManagerProofs` | what the log operators return | the lemmas the others cite |
| `LogManagerMCProofs` | the closed forms are the loops; what shipping keeps | |
| `RaftConsensusProofs` | types; terms of votes and entries; what a step does to logs and requests | |
| `RaftElectionProofs` | one leader per term, the refinement of `Election`, and what follows from the leader of a term | |
| `RaftCommitProofs` | commit indexes; a leader that stays: refinement of `CommitLog`, empty logs | |
| `FSUpdateProofs` | apply thread and namespace; what a follower's namespace is | |
| `PerfTestProofs` | the client's leader, when it gives up; what the tester expects | |
| `WorkerPoolProofs` | who is served and who waits | |

### How state and actions correspond to the code

`RaftConsensus` keeps the fields of the class under their names, one value per
server. `rpc[i][j]` is what server *i*'s thread for *j* is in: idle, a call
sent, an answer there to be read; so a pair of servers has at most one call
under way in each direction, as in the code. One action is one critical section
of `m` (`StartLeaderElection`, `HandleRequestVote`, `OnVoteReply`,
`SendAppendEntries`, `HandleAppendEntries`, `OnAppendReply`), or one step of a
client handler between two shared reads (`CheckIsLeader`, `CheckLeaderId`,
`StampTerm`, `AppendToLog`, `AnswerClient`). `OnAppendEntries` is the whole
handler: role change, log, commit index, answer. `LoseCall` breaks a connection
and may leave an orphan; `Crash`, `CrashOnEmptyLog` and `Restart` are the ends
and beginnings of processes. `pending_entries` is the set of pairs (index,
remote).

Details of the code that are kept because properties depend on them: the vote
test that grants for terms that are over (`RaftConsensus.cpp:525-535`), the vote
that is counted without a look at the round it was asked in (280), the answer
that carries the term from before the request was handled (426), the missing
test of `prev_log_term` (463), the commit index that moves also when the entries
are refused (493), the count of remotes against a quorum that includes the
leader (63, 200), and the merge loop whose iterator stands on a pushed entry
(`LogManager.cpp:126`).

`FSUpdate` has a program counter for the loop, one step per unlocked read. Of the
log it keeps what `GetEntry` finds under each index, if anything. Its environment
lists directories, changes the role, moves the commit index (`CommitAsLeader`,
`CommitAsFollower`) and pushes, overwrites and erases entries one at a time
(`ChangeLog`), which is what the Appends of `LogManager` come to, holes and erased
suffixes included. A hole makes `GetEntry` return a null pointer that the loop
dereferences (`CrashOnMissing`), an erased entry may be read after it was freed
(`CrashOnDeleted`); both end the process. `committed` is history: what the log had
at committed indexes. `OrderlySpec` adds `Orderly`: no holes, what is committed
stays, a leader's log only grows, and a leader that commits has counted its own
entries up to there; only `ok_is_applied` uses it. The code guarantees the last two
while one server leads (`LeaderAppendsOnly`; the loop of lines 195-203 over a batch
that is shipped from `next_index`), the first two not (see below).

`FSClient` has one step per attempt to open a connection and per call; the hosts
go down and come up between any two. What servers answer is what
`ClientRPCService` can answer: a leader's id only together with `kNotLeader`, and
`kOK` with `-1` from `GetLeader` when there is none. A variable `refused` records
history for one property and influences nothing.

`PerfTest` puts a tester around that client. The tester calls (`Call`) when the
client is idle and takes what it returned (`Take`), so the two are one thread, as
in `test_thread`. `NewTester` is the constructor with its limits (the
assertion of `PerfTest.cpp:58` is not compiled, `CMakeLists.txt:5`), `Create` and `Created` the calls of `create_test_tree(2, true)`,
`RunWrite`, `RunRead`, `NoValidNode`, `ForceStop` and `Executed` the rounds of
`run()`. The servers are one namespace of `FSNamespace` that answers truly: what is
answered kOK is applied, what times out or breaks is applied or not, what is
refused is not (`Outcomes`). That is more than the servers keep (`ok_is_committed`,
`ok_is_applied`); the property is about the tester's own bookkeeping.
`Searched` has the nodes that each search can end with, which leaves out the last
file and the last directory. `doubt` is history for one property.

`WorkerPool` has the connections as records of who opened them, for what and to
which host. A server's `queue` holds those accepted, `serving` those with a
worker; `opened` is what their openers have not closed. A client goes through the
constructor of `FSClient` (two or three connections), the mutex, its calls and
the destructor; what a call does is left out, only the worker it needs is not.
`PoolAssumption` takes at least three servers, as `hosts.txt` lists: of one or two,
a client that moves on would come back to the same host, and its two connections
would be one record here.

Data is abstracted to what the properties distinguish: a command in
`RaftConsensus` is its client operation; owners, sizes and times are left out
(every entry is applied as user "unknown", for whom each owner test succeeds); a
path is the sequence of its names, the empty name included, since a trailing
slash makes a directory without a name.

Undefined behaviour: `back()` of an empty log and the children of a file are
taken to end the process; `last_commited_index` of an emptied log is what is left
in the log's field; the deque's iterator after `push_back` behaves as libstdc++
does while its map is not reallocated. Only `TTransportException` is modelled as
a failure of a call. `GetEntriesStartAt` and `GetEntry`, which race with a
client's append, are one step each.

Operators whose comment begins with *Mutant* are not part of the model: they are
the bugs against which the properties were tested, each one breaking the
property that `PROJECT.json` names for it.

## The runs

| Run | Instance | Shows |
|---|---|---|
| `log_operations` | 2 logs, 3 terms, 6 commands, length 6 | the closed form of the batch append equals the source's loops on every log two servers can build; `lower_bound` ships all that follows; appends keep what precedes the batch, and an accepted batch never moves the last index past the sender's |
| `election` | 3 servers, 2 terms, calls lost, no crashes | the inductive invariant, one leader per term, `leader_id` names a leader of the term, candidates hold their own vote, votes are final, refinement of `Election` |
| `two_servers` | 2 servers, 3 terms, 2 operations, 1 crash and restart, 1 orphan | types, votes and entries only of terms reached, and, until the crash, one index and term name one command, what moves `next_index` is the index of an entry the leader has, leaders only append |
| `next_leader` | 3 servers, led in term 1, a second term, 1 operation, no answers to clients | no commit on an empty log, commit index never falls |
| `commit_liveness` | 3 servers, 1 term, 2 operations, calls lost, 1 orphan | every appended entry is committed everywhere; refinement of `CommitLog`; no read of an empty log |
| `apply_loop` | log of 2 indexes that may have holes and change at any time, 3 commands | until the process ends over a missing or deleted entry, the namespace shows nothing the log never had at a committed index, and is never said to be ahead of it; on a lasting follower with one entry per committed index it is the replay of these; an awake loop catches up while the process lasts |
| `client` | 3 hosts, one of which goes down and comes up (2 changes), 4 commands, 3 lists of ratios | where a client writes and reads, when it gives up or ends; limits are kept, what should exist does; calls and the run end |
| `worker_pool` | 3 servers of 4 workers, main and 2 testers, one server that asks for votes, leaders 1 and 2 | the program ends, servers are served, workers come free |
| `batch_is_appended` | violation | of the entries of an accepted batch beyond the local log every second one is lost, an only one and an odd last one too |
| `late_vote` | violation | a vote answered after its round is counted in the next |
| `ok_is_committed` | violation | kOK for an entry no majority has |
| `ok_is_applied` | violation, orderly log of 2 entries | a follower with its leader's entry wins the election, appends an entry, counts a quorum for it and commits both; it breaks at the older one in every round and applies nothing as long as it leads |

Bounds and why they are enough to be interesting. Two terms give each server a
chance to lead after or against another; three are needed for a server to lead,
lose and meet entries of its own, and are used with two servers; two operations
are enough for entries of two leaders to meet. Three servers
are the smallest cluster with a majority that is not everybody, and what
`hosts.txt` lists. With `Backoff = 1` a leader steps back through a short log as
the code's 5 does through a long one. One orphan is enough for a request to be
overtaken by its successors; one crash for a server to forget a vote. In
`two_servers` the state space is cut after the crash (`BoundAfterCrash`): no third
term, and two operations or late requests in all.
`log_operations` reaches logs with holes, duplicates and conflicts. In
`apply_loop` two indexes are enough for a hole, an overwritten and an erased entry,
and for a round that is cut short after one entry or overtaken by a commit; the log
may change between any two reads. Of its three commands one fails where another
was applied, and one reads the children of a file. Symmetry is used
only in runs without liveness properties. Runs of replication begin right after
a first election that everybody answered (`LedBy`), a state the elections reach;
`DividedInit`, in `ok_is_committed`, is a state that a search from there reached,
after a second election in which the old leader's entry was refused.
In `commit_liveness` what commutes is put in an order (`LedFairSpec`): operations
come one after the other, late requests reach one of the two remotes, which are
alike. `client` has the ratios `client_main` is built with, for both signs of the
one it leaves unset, and a list that calls every write; two changes let the host
that is `Flaky` go down and come back between any two calls, whether it is the
follower, the leader or the one in between, and one invalid draw in a row stands
for the code's thousand. In `next_leader` no client is answered: an answer only
ends the wait of its handler. `worker_pool` has two testers for the code's three
and four workers for its ten: six connections of clients and one of a server
meet four workers at a host, so that connections do wait. It is enough of them
that is the question: with three workers TLC finds a circle (below).
`CHECK_DEADLOCK FALSE` is set where the bounds on terms, operations and log
length, or the end of processes and programs, stop the system.

### Assumptions, and what happens without them

The specifications named in the cfg files add assumptions about the environment
to `Next`; the code enforces none of them.

* `NoRestart` (all but `two_servers` after its crash): no server comes back. With
  restarts a server votes twice in a term.
* `RoundsDoNotOverlap` (all but `late_vote` and `two_servers` after its crash): a server starts an
  election only after its vote requests of the round before are over. The timer
  of 0.5 to 1 s usually sees to it; `late_vote` is what happens otherwise.
* `HandlersAreAtomic` (replication, in `two_servers` up to its crash): a client handler's server keeps role and
  term from the `IsLeader` test to the append. Without it a deposed server
  stamps its successor's term on its own entry, and `SameEntrySameCommand`, a
  comment at `LogManager.cpp:111`, is false. It also excludes the one place where
  `OnAppendEntries` cannot be taken for a single step: the handler of a client of a
  deposed server takes only the log's mutex for its append, which may fall between
  the batch's Append (`RaftConsensus.cpp:470`) and the last index that is answered
  (509). `AcknowledgesOwnEntries` need not hold then.
* `Orderly` (`ok_is_applied` only): the log of the server has no holes, keeps what
  is committed, and grows only while the server leads. Without it the loop may end
  the process over an entry that is missing, and the counterexample would show
  less.
* `CallsAnswered` (`ok_is_committed`): no call is lost; it only makes the
  counterexample smaller.

Fairness. `RemoteHostLoop` of a leader calls every remote again at the latest
after 250 ms: weak fairness of sending. A call that is made again and again is
handled and answered again and again: strong fairness of handling and reading,
since any one call may be lost. `FSUpdateLoop` is a thread that waits only in its
sleep: weak fairness of its steps, which says nothing of being woken. A tester and
its client are one thread whose attempts and calls end: weak fairness of their
steps; of `rand()` it is only assumed that it draws a command below its limit if
there is one. In `WorkerPool` every thread goes on as long as it can and none has
a loop, so that weak fairness of their disjunction serves for all; that a server
connects to another is not assumed. Elections
get no fairness: nothing is claimed to be elected eventually.

### Further disagreements met

Observed with TLC or by reading while the modules were written; not runs:

* `LogManager.cpp:77` "Delete existing entry if they conflict": if the *first*
  entry of the batch conflicts, the batch is refused and the entry stays, for
  good. `LogManager.cpp:129` "delete extra conflict entries": entries beyond a
  short batch are erased without any conflict.
* `RaftConsensus.h:142-145` has N responses commit with 2N+1 servers; with three
  servers both remotes must answer, with two nothing is ever committed.
* `RaftConsensus.cpp:462` "if local last == leader prev, no conflict": terms are
  not compared, so logs can differ below a common last index.
* `RaftConsensus.h:171`: a remote is counted for entries it dropped.
* `RaftConsensus.cpp:487` rejects a request that leaves a gap; on an empty log
  the debug output reads `back()` first. Under the first leader this does not
  happen (`NoReadOfEmptyLog`); the first request of a later leader whose log is
  longer does it to a server that has none.
* `LogManager.cpp:130` with a late request: what it erases is not sent again while
  the leader's `next_index` is beyond it, so that not every request that the
  leader makes leaves its entries in the follower's log. `CommitLog` therefore
  promises indexes and not entries.
* `RaftConsensus.cpp:227` sets `next_index` by what a follower answers; that it
  stays within the leader's log is not so. A batch whose surplus was dropped
  leaves a log with a hole; a server that then becomes leader starts from its last
  index plus one, gives its own next entry an index below that, and sends
  heartbeats only until the entries have caught up. What is so is
  `AcknowledgesOwnEntries`.
* That what is committed on two servers agrees holds under one leader and fails
  in the three-server state of `ok_is_committed`; hence `KeepsCommitted`, a part of
  `Orderly`, is an assumption.
* `RaftConsensus.cpp:314-319` takes it that `GetEntry` finds the entry. After a batch
  that left a hole (`batch_is_appended`), or erased what was committed, it returns a
  null pointer.
* `FSUpdateLoop` can miss a notification between its test and its sleep; a
  candidate's round applies nothing and resets `commited_index`, after which
  entries are applied twice and a create that had failed may succeed, so that
  namespaces differ. `FollowerReplaysLog` is therefore about servers that stay
  followers, `FollowerCatchesUp` about a loop that is awake. Since batches overwrite
  committed entries, `FollowerReplaysLog` is also only about servers whose log never
  had two entries at a committed index (`Settled`).
* `RaftFS.cpp:56`: with an even number of hosts the client tries only half of
  them; with two it cannot turn away from the leader as line 77 says.
  `FSClient` is checked with three.
* `RaftMetaServer.cpp:36`: with three workers in the instance of `worker_pool` the
  program hangs: clients hold the workers that others wait for. The mutex of
  `client_main` does not prevent it. Ten workers are enough for
  `client_main`'s four clients, not for several such programs at once.
* `create_test_tree` looks at no answer (`PerfTest.cpp:125-146`).
* The load generator draws for ever when limits cut to whole commands
  (`PerfTest.cpp:55`) add up to less than the total; line 58 would only assert
  that they are not more, and is not compiled. Its search for a node to delete (line 262) goes on through
  the directories, whose `DeleteFile` is answered kOK and changes nothing, so the
  list of line 408 can call a directory gone that is there; the last file and the
  last directory are never used. `client_main.cpp:103-111` leaves the ratio of
  `perf_rmdir` unset.
* `ListDir` of a file (`FSNamespace.cpp:198`) lists the children of a file.

## The proofs

All for any set of servers, any commands and any bounds; what a theorem assumes
beyond the types of the constants is in the last column.

| Theorem | Statement | Assumptions |
|---|---|---|
| `LoopsAreClosedForm` (`LogManagerMCProofs`) | `Spec => []AppendIsTheLoop` | none |
| `EverythingAfterIsShipped` (`LogManagerMCProofs`) | `Spec => []ShipsEverythingAfter` | none |
| `LastIndexIsShipped` (`LogManagerMCProofs`) | `Spec => []LastIndexWithinBatch` | none |
| `WhatPrecedesIsKept` (`LogManagerMCProofs`) | `Spec => KeepsWhatPrecedes` | none |
| `TypeCorrect` (`RaftConsensusProofs`) | `Spec => []TypeOK` | none: crashes, restarts, late requests included |
| `TermsReached` (`RaftConsensusProofs`) | `Spec => [](VotesInReachedTerms /\ EntriesOfReachedTerms /\ CandidateVotesForItself)` | none either |
| `VotesFinal` (`RaftElectionProofs`) | `StableSpec => VotesAreFinal` | `NoRestart` |
| `OneLeaderPerTerm` (`RaftElectionProofs`) | `RoundsSpec => [](ElectionInv /\ ElectionSafety)` | `NoRestart`, `RoundsDoNotOverlap` |
| `ElectionImplemented` (`RaftElectionProofs`) | `RoundsSpec => ImplementsElection` | `NoRestart`, `RoundsDoNotOverlap` |
| `LeaderNamed` (`RaftElectionProofs`) | `StableSpec => []LeaderIdIsOfTerm` | `NoRestart` |
| `LeadersAppend` (`RaftElectionProofs`) | `RoundsSpec => LeaderAppendsOnly` | `NoRestart`, `RoundsDoNotOverlap` |
| `OwnEntriesAcknowledged` (`RaftElectionProofs`) | `AtomicSpec => []AcknowledgesOwnEntries` | `NoRestart`, `RoundsDoNotOverlap`, `HandlersAreAtomic` |
| `SameEntries` (`RaftElectionProofs`) | `AtomicSpec => []SameEntrySameCommand` | `NoRestart`, `RoundsDoNotOverlap`, `HandlersAreAtomic` |
| `CommitStays` (`RaftCommitProofs`) | `StableSpec => CommitNeverFalls` | `NoRestart` |
| `CommitsFindEntries` (`RaftCommitProofs`) | `StableSpec => []NoCommitOnEmptyLog` | `NoRestart`; `quorum_size >= Cardinality(Server) - 1`, which is so for up to 4 servers |
| `CommitLogImplemented` (`RaftCommitProofs`) | `StaySpec => ImplementsCommitLog` | `NoRestart`, `MaxTerm = 1` |
| `EmptyLogsUnread` (`RaftCommitProofs`) | `StaySpec => []NoReadOfEmptyLog` | `NoRestart`, `MaxTerm = 1` |
| `AppliesOnlyCommitted` (`FSUpdateProofs`) | `Spec => [](TypeOK /\ ShowsOnlyCommitted /\ NeverAhead)` | none: the log may have holes and change at any time |
| `FollowerAppliesLog` (`FSUpdateProofs`) | `Spec => FollowerReplaysLog` | none; the property is about servers that stay followers and have one entry at each committed index |
| `ClientKnowsItsLeader` (`PerfTestProofs`) | `TestSpec => [](TypeOK /\ WritesToLeader /\ EndsOnlyWithoutLeader /\ (N >= 3 => TurnsToAnotherHost))` | none |
| `LeaderForLife` (`PerfTestProofs`) | `TestSpec => OneLeaderForLife` | none |
| `GivesUpLast` (`PerfTestProofs`) | `TestSpec => []GivesUpOnlyIfAllRefused` | `N` odd; for even `N` it is false |
| `TesterExpectsTruly` (`PerfTestProofs`) | `TestSpec => [](TesterTypeOK /\ WhatShouldExistDoes)` | `NamesOfTest`: the names of the test trees are not empty |
| `PoolTypeCorrect` (`WorkerPoolProofs`) | `Spec => []TypeOK` | at least three servers (`PoolAssumption`) |

**Logs.** `LogManagerProofs` has what the operators return: types, the position
`find_if` stops at, that `lower_bound` ends at a position from which on everything
is shipped, and that the last entry of a log that took a batch is one of the
batch or was there before (`AppendBatchLast`). The loops of the source are
recursive functions over the number of iterations (`LogManagerMC`), and a closed
form is shown equal to its loop by induction: of all iterations at which the two
differ there would be a first (`SmallestExists`, from the library's well-founded
order on the naturals), and there one step of the loop makes them agree
(`SameIterations`). `MergeCounts` is the arithmetic of the merge loop: how many
entries it has pushed after *k* iterations when the iterator stands on the entry
just pushed. `LowerBoundInOrder` goes the same way over the ranges of the halving
search, by their length.

**Types and terms.** `TypeCorrect` goes action by action. `TermsReached` holds with
crashes and restarts because a restarted server has forgotten its log and its
votes together with its term. The induction carries the terms of entries along
their way: in a log, in a request and its answer, in a late request, in the hand
of a client handler, whose stamp may be older than the term of its server but
never newer (`TermsInv`).

**Elections.** That two leaders of a term are equal is not inductive.
`ElectionInv` adds where each vote is while it travels: nobody has voted in a
term it has not reached; everybody in the pool of a candidate or leader has
`vote_for` set to it in its term; a granted answer on its way is backed by
`vote_for` of the term that was asked for; the calls a candidate waits for are of
its round (this is where `RoundsDoNotOverlap` is needed, and exactly what
`late_vote` breaks); a leader keeps a quorum in its pool. Two leaders of a term
then have two quorums of voters, `QuorumsIntersect` gives a server in both, and
its `vote_for` has one value. `ElectionImplemented` needs the same invariant. A
term is elected in the abstract specification when a quorum has voted for one
server in it, which can be long before that server reads the answer; so the step
that elects is a vote (`HandleRequestVote`, or the candidate's own in
`StartLeaderElection`), while `ChangeToLeader` maps to taking office and every
change to a later term to resigning.

**Leaders.** `LeaderInv` adds to `LeaderIdIsOfTerm` that every request to append,
the late ones too, carries a term its sender leads or has left. `WinnersInv` has
it that the sender *won* that term, by votes that stay (`WinsStays`, `WinsOnce`).
A request of the term that a server leads would then come from that server, and
nobody calls itself: so no batch reaches a leader's log (`LeadersAppend`). From
there, what a leader shipped in its term is still in its log when the answer is
read (`ShipsOwnEntries`), and the index of an answer is that of an entry of its
request, whatever of the batch the follower kept (`AnswersOwnIndex`, from
`AppendBatchLast`): `OwnEntriesAcknowledged`, for atomic handlers, since only then
is the answer read from the log the batch was laid over. `SameEntries` is an induction over
all entries there are, in logs, in requests and in late ones (`Known`): the
server that won an entry's term either has gone on to a later term or has all
entries of it below its next index (`MadeByLeader`), so a new entry cannot meet
another of its index and term. A client handler must not stamp a term its server
does not lead, which is what `HandlersAreAtomic` is for (`HandlersOfLeaders`).

**Commits.** `CommitStays` is one step, not an induction: a follower's index moves
only up, and a leader's only to an entry that was not committed when it was
counted (`AcknowledgeRaisesCommit`). What could take it back is an emptied log, so
`LogStaysNonempty` is the lemma it needs. `CommitsFindEntries` needs `CommitInv`:
what is pending from a remote was in a batch that the remote took (the answer on
its way included), such a remote's log is not empty, and a commit index above zero
anywhere, also in a request, means that no log is empty. With a quorum smaller
than all the remotes that is false, hence the assumption.

**A leader that stays.** `MaxTerm = 1` says that no election follows the one that
was won: with elections neither statement is true, as the hazards say. `StaySpec`
is `LedFairSpec` of `commit_liveness` without its fairness and without what that
run restricts to be finite, so that handlers interleave, rounds overlap and every
remote has late requests. `StayInv` is the inductive invariant: every call is the
leader's and of its term, every handler is at the leader, and the leader's log has
no holes and each operation once, at the place its handler waits for. `StayEffects`
sorts the steps by what they change. `CommitsFollow` has the rest of the
refinement: no commit index, of a server or in a request, is ahead of the
leader's, and the leader's is within its log. A moved commit index is then a
`Commit` of `CommitLog` (`MoveIsPromised`), an append to the log an `Accept`, and the end
of a handler's wait an `Answer`, since the index it compares is that of its own
entry. `NextIndexesReach` is what empty logs need: `next_index` is above 1 only for a
remote that has an entry, so that a request to one that has none starts at the
first entry and ships it, or commits nothing.

**Apply thread.** What an operation adds to the tree lies on the path of its command
(`AppliedAdds`). That a shown node comes from an entry the log had at a committed
index is then a matter of when the entry was read: `ApplyInv` adds to the three
invariants that `committed` covers the log up to the commit index (`LogIsCovered`),
whoever moves one or the other, and that the entry the loop holds is one of it
(`HoldsCommitted`), which needs its index under the commit index, as `TypeOK` says
for the program points between the test of the loop and the application. The entry
may be overwritten or gone by the time it is applied.

**A follower's namespace.** `FollowerReplaysLog` speaks of `Replay(n)`, a recursive
function over the entries. That such a function exists for every *n*, and that two
logs that agree so far replay alike, are again inductions on the first
counterexample (`ReplayExists`, `ReplaysAgree`); so the next entry is applied to
what those before it made (`ReplayOfNext`). What is replayed is `committed`, which only
grows (`HistoryStays`): an index that has one entry, and by `Settled` gets no
second, replays as before whatever becomes of the log (`ReplayStays`). `ReplayInv`
says what the namespace is within a round: the replay of the entries before *i*,
each of which the log has had (`Filled`). It holds as long as the server is a
follower, because then no round ends before it has applied an entry; a round cut
short by a candidacy is what breaks it.

**Client.** `LeaderKept` says for each place of the client whether it knows a
leader and to which host its connection was made. That a client without a leader
never writes, and that one with a leader never asks again, are two sides of it;
the tester matters only in that it calls when the client is idle. That two steps
further is another host is arithmetic modulo the number of hosts (`RotatedType`).
`GivesUpLast` counts the same steps: `RetriesAreRefused` says that every host some
retries back has refused, and with an odd number of hosts, *N* steps of two back
are all of them (`EveryHostBehind`).

**Load generator.** `TesterInv` says what the tree can look like (`Shape`: files only
where `CreateFile` looks, directories only where `Mkdir` does), that `/write` is there
unless its making is in doubt, what the tester believes of the other nodes, and of
the call under way that it still fits `should_exist` (`CallFits`), without which a
refusal would make it say the contrary of what it said. `WriteEffect` has what each
write does to its node and to the others; that a `DeleteFile` of a directory is
answered `kOK` and does nothing is why the converse is about files only.

**Workers.** `TypeOK` counts the queue against the set of what is in it, so that
nothing waits twice. That is not inductive by itself: it needs that whoever connects
is new to the server. `OpenedOnce` is the reason: a client passes each place of its
constructor once, its follower's second connection goes to another host
(`RotatedIsOther`), and what a server opened is never closed. `AcceptKeeps` and
`NextTaskKeeps` are the two things that happen to a pool.

Only model-checked: liveness (`AppendedIsCommitted`, `FollowerCatchesUp`,
`CallsReturn`, `TestEnds`, and what `worker_pool` shows of ends), since TLAPS does
not reason about fairness here. The four violations are of course not theorems.

## Not modelled

What the reads of the namespace (`ListDir`, `GetFileInfo`) return, beyond their
status and a `ListDir` that takes a file for a directory; owners, sizes and times;
`MakeDir` without `make_parents`; operations of the log and the client that
nothing calls (`RemoveEntryAfter`, `GetEntryLoc`, `CheckLeaders`) and the first
test tree; `InjectTestCase`, which prints; the measurements of the load generator
and its files; building and tearing down the Thrift objects; command line, list
of hosts and scripts; real time. The race of `GetEntriesStartAt` and `GetEntry`
with a client's append (`LogManager.cpp:160`) is one step: what a deque yields while
it is appended to is undefined, and any outcome would do.

Not composed: the testers of `client_main` share the servers' namespace but not
their part of it as the first tester sees it, since all of them write below
`/write`; with more than one tester `WhatShouldExistDoes` is not to be expected, and
`PerfTest` has one.

## Plan

Built, in this order: the log and its operations; elections and their abstract
specification; replication and client handlers; the apply thread and the
namespace; the client; the worker pool; the load generator; the abstract log of a
leader that stays; the proofs of refinement, of terms, of `leader_id`, of the
leader's log, of the log's loops, of commit indexes, of the client, of a follower's
namespace and of the workers.

Next:

1. The reads of the namespace in `FSNamespace`, casts and missing folders
   included (`FSNamespace.cpp:198-221`), and two namespaces side by side with
   re-application after a candidacy.
2. An abstract log over changes of leader: what is left of it, given that
   followers with a conflict are never served again.
