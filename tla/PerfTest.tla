------------------------------- MODULE PerfTest -------------------------------
(***************************************************************************)
(* client/PerfTest and client_main: a tester and the FSClient it owns, one *)
(* thread, against the servers of the repository.  The tester draws its    *)
(* commands at random, picks for each write a node that it believes to be  *)
(* there or not, and keeps from the answers what should exist, to be       *)
(* compared with the servers at the end.                                   *)
(*                                                                         *)
(* The servers are here one namespace that answers truly: what is answered *)
(* kOK is applied, whatever comes of it, what times out or breaks is       *)
(* applied or not, and a refusal is not.  There is one tester, which also  *)
(* makes the tree.  A definition whose comment begins with Mutant is not   *)
(* part of the model: it is the next definition with a bug.                *)
(***************************************************************************)
EXTENDS FSClient, FSNamespace, FiniteSetsExt, Functions

CONSTANTS
  cmd_total_to_run,
  Ratios,           \* what cmd_ratio may be: client_main leaves Rmdir's unset
  MaxInvalid,       \* bound: 1000 in the code
  Flaky,            \* bound: the hosts that go down and come up in a run
  MaxChanges        \* bound: how often one of them does

Cmd == Write \cup Read

ASSUME TestParameters ==
  /\ cmd_total_to_run \in Nat /\ MaxInvalid \in Nat /\ MaxChanges \in Nat
  /\ Flaky \subseteq Host
  /\ \A r \in Ratios : r \in [Cmd -> Int]

Total(f) == FoldFunction(LAMBDA m, n : m + n, 0, f)

(* Whole parts of the products of doubles, for ratios where they are exact.*)
LimitsOf(cmd_ratio) == [c \in Cmd |-> (cmd_total_to_run * cmd_ratio[c]) \div 100]

(* write_tree, numbered from 0.                                            *)
Node == 0..6
write_tree == [k \in Node |->
  CASE k = 0 -> <<"write">>
    [] k = 1 -> <<"write", "file21">>
    [] k = 2 -> <<"write", "file22">>
    [] k = 3 -> <<"write", "file23">>
    [] k = 4 -> <<"write", "dir21">>
    [] k = 5 -> <<"write", "dir22">>
    [] k = 6 -> <<"write", "dir23">>]

(* The calls of create_test_tree(2, true).                                 *)
create_test_tree ==
  << [op |-> "Mkdir", path |-> <<"read">>],
     [op |-> "CreateFile", path |-> <<"read", "file11">>],
     [op |-> "CreateFile", path |-> <<"read", "file12">>],
     [op |-> "CreateFile", path |-> <<"read", "file13">>],
     [op |-> "ListDir", path |-> <<"read">>],
     [op |-> "Mkdir", path |-> write_tree[0]] >>

(* The names of both trees are not empty.                                  *)
ASSUME NamesOfTest ==
  /\ \A k \in Node : write_tree[k] \in Seq(Name \ {NoName})
  /\ \A k \in DOMAIN create_test_tree : create_test_tree[k].path \in Seq(Name \ {NoName})

NoCall == <<>>

VARIABLES
  tree,             \* the namespace of the servers
  should_exist,
  cmd_limit, cmd_count, no_valid_cmd_cnt,
  made,             \* calls of create_test_tree that returned
  test,             \* "new", "creating", "running", "finished"
  path,             \* that the call under way is about, or NoCall
  doubt,            \* history: paths whose write may have come to nothing,
                    \* or to something although it was not answered kOK
  changes

testVars == <<tree, should_exist, cmd_limit, cmd_count, no_valid_cmd_cnt, made, test, path, doubt>>
allVars == <<vars, testVars, changes>>

(* Every command that was executed has been counted once.                  *)
cmd_executed == Total(cmd_count)

TestInit ==
  /\ Init
  /\ tree = NewTree
  /\ should_exist = [k \in Node |-> k = 0]
  /\ \E r \in Ratios : cmd_limit = LimitsOf(r)
  /\ cmd_count = [c \in Cmd |-> 0]
  /\ no_valid_cmd_cnt = 0
  /\ made = 0
  /\ test = "new"
  /\ path = NoCall /\ doubt = {}
  /\ changes = 0

-----------------------------------------------------------------------------
(* Calls and what they do to the servers *)

Free(t) == test = t /\ pc = "idle" /\ path = NoCall

Begin(o, p) == Call(o) /\ path' = p

Entry(o, p) ==
  [op |-> CASE o = "Mkdir" -> "mkdir" [] o = "Rmdir" -> "rmdir"
            [] o = "CreateFile" -> "create" [] o = "DeleteFile" -> "delete",
   path |-> p]

MaybeApplied == {"kTimeout", "kCommError"}

(* The namespaces that the call may leave.                                 *)
Outcomes ==
  IF op \in Read \/ path[1] = "read" THEN {tree}
  ELSE LET applied == Applied(tree, Entry(op, path)) IN
       IF status = "kOK" THEN {applied}
       ELSE IF status \in MaybeApplied THEN {tree, applied} ELSE {tree}

Answered(t) == test = t /\ path # NoCall /\ Take /\ path' = NoCall /\ tree' \in Outcomes

-----------------------------------------------------------------------------
(* The constructor, after the client's.  CMakeLists.txt:5 builds with NDEBUG:*)
(* the assertion that the limits fit in the total is not compiled.         *)

NewTester ==
  /\ Free("new")
  /\ test' = "creating"
  /\ UNCHANGED <<vars, tree, should_exist, cmd_limit, cmd_count, no_valid_cmd_cnt, made, path,
                 doubt, changes>>

-----------------------------------------------------------------------------
(* create_test_tree: no answer is looked at *)

Create ==
  /\ Free("creating")
  /\ LET next == create_test_tree[made + 1] IN Begin(next.op, next.path)
  /\ UNCHANGED <<tree, should_exist, cmd_limit, cmd_count, no_valid_cmd_cnt, made, test, doubt,
                 changes>>

Created ==
  /\ Answered("creating")
  /\ made' = made + 1
  /\ test' = IF made' = Len(create_test_tree) THEN "running" ELSE test
  /\ doubt' = IF path[1] = "write" /\ status # "kOK" THEN doubt \cup {path} ELSE doubt
  /\ UNCHANGED <<should_exist, cmd_limit, cmd_count, no_valid_cmd_cnt, changes>>

-----------------------------------------------------------------------------
(* run *)

(* Mutant: a command is drawn once more than its limit.                    *)
MayDrawAtLimit(c) == cmd_count[c] <= cmd_limit[c]

MayDraw(c) == cmd_count[c] < cmd_limit[c]

(* The loop of draws ends with a command below its limit.  When there is   *)
(* none it goes on for ever: run() takes no step.                          *)
Draws(c) == Free("running") /\ cmd_executed < cmd_total_to_run /\ MayDraw(c)

(* The part of write_tree that a command looks through.  The search gives  *)
(* up when it has read the last node of its part, also if that one fits.   *)
(* DeleteFile looks through the directories too.                           *)
Searched(c) ==
  CASE c = "CreateFile" -> 1..2
    [] c = "DeleteFile" -> 1..5
    [] c \in {"Mkdir", "Rmdir"} -> 4..5

Removes(c) == c \in {"Rmdir", "DeleteFile"}

Fitting(c) == {k \in Searched(c) : should_exist[k] = Removes(c)}

RunWrite(c) ==
  /\ Draws(c) /\ no_valid_cmd_cnt <= MaxInvalid
  /\ Fitting(c) # {}
  /\ no_valid_cmd_cnt' = 0
  /\ Begin(c, write_tree[Min(Fitting(c))])
  /\ UNCHANGED <<tree, should_exist, cmd_limit, cmd_count, made, test, doubt, changes>>

(* Reads are of "/read", where run() writes nothing.                       *)
RunRead(c) ==
  /\ Draws(c) /\ no_valid_cmd_cnt <= MaxInvalid
  /\ no_valid_cmd_cnt' = 0
  /\ Begin(c, IF c = "ListDir" THEN <<"read">> ELSE <<"read", "file11">>)
  /\ UNCHANGED <<tree, should_exist, cmd_limit, cmd_count, made, test, doubt, changes>>

(* Mutant: the command without a node is not counted.                      *)
ForgetsInvalid(c) ==
  /\ Draws(c) /\ no_valid_cmd_cnt <= MaxInvalid
  /\ Fitting(c) = {}
  /\ UNCHANGED allVars

NoValidNode(c) ==
  /\ Draws(c) /\ no_valid_cmd_cnt <= MaxInvalid
  /\ Fitting(c) = {}
  /\ no_valid_cmd_cnt' = no_valid_cmd_cnt + 1
  /\ UNCHANGED <<vars, tree, should_exist, cmd_limit, cmd_count, made, test, path, doubt, changes>>

(* Mutant: a deleted file should exist.                                    *)
ExpectsDeleted(c, ok) == IF c = "Rmdir" THEN ~ok ELSE ok

(* What is expected of the node after the answer.                          *)
Expects(c, ok) == IF Removes(c) THEN ~ok ELSE ok

Executed ==
  /\ Answered("running")
  /\ cmd_count' = [cmd_count EXCEPT ![op] = @ + 1]
  /\ should_exist' = IF op \in Read THEN should_exist
       ELSE [k \in Node |-> IF write_tree[k] = path THEN Expects(op, status = "kOK")
                            ELSE should_exist[k]]
  /\ doubt' = IF op \in Read THEN doubt
              ELSE IF status = "kOK" THEN doubt \ {path}
              ELSE IF status \in MaybeApplied THEN doubt \cup {path} ELSE doubt
  /\ UNCHANGED <<cmd_limit, no_valid_cmd_cnt, made, test, changes>>

(* "Force the test to stop here!!", whatever command was drawn.            *)
ForceStop ==
  /\ \E c \in Cmd : Draws(c)
  /\ no_valid_cmd_cnt > MaxInvalid
  /\ test' = "finished"
  /\ UNCHANGED <<vars, tree, should_exist, cmd_limit, cmd_count, no_valid_cmd_cnt, made, path,
                 doubt, changes>>

Finish ==
  /\ Free("running") /\ cmd_executed >= cmd_total_to_run
  /\ test' = "finished"
  /\ UNCHANGED <<vars, tree, should_exist, cmd_limit, cmd_count, no_valid_cmd_cnt, made, path,
                 doubt, changes>>

-----------------------------------------------------------------------------

(* The client runs within a call of the tester, its constructor before all.*)
ClientStep == Steps /\ UNCHANGED <<testVars, changes>>

TesterStep ==
  \/ NewTester \/ Create \/ Created \/ Executed
  \/ \E c \in Write : RunWrite(c) \/ NoValidNode(c)
  \/ \E c \in Read : RunRead(c)
  \/ ForceStop \/ Finish

HostChanges ==
  /\ changes < MaxChanges /\ changes' = changes + 1
  /\ \E h \in Flaky : GoesDown(h) \/ ComesUp(h)
  /\ UNCHANGED testVars

TestNext == ClientStep \/ TesterStep \/ HostChanges

(* Tester and client are one thread whose attempts and calls end: a host   *)
(* that is down refuses, one that goes down during a call breaks it.       *)
(* Nothing is assumed of rand() but that it draws a command below its      *)
(* limit if there is one.                                                  *)
TestSpec == TestInit /\ [][TestNext]_allVars /\ WF_allVars(ClientStep \/ TesterStep)

-----------------------------------------------------------------------------
(* Properties *)

Sure(p) == \A k \in 1..Len(p) : Upto(p, k) \notin doubt

(* The call under way is the next of create_test_tree, or one that run()   *)
(* has drawn and that fits what should exist.                              *)
CallFits ==
  path # NoCall =>
    \/ /\ test = "creating"
       /\ op = create_test_tree[made + 1].op /\ path = create_test_tree[made + 1].path
    \/ /\ test = "running" /\ op \in Cmd /\ cmd_count[op] < cmd_limit[op]
       /\ op \in Write => \E k \in Searched(op) : path = write_tree[k] /\ should_exist[k] = Removes(op)

(* The type invariant of the tester; no command runs more often than its   *)
(* limit, and the path that was looked up fits the command under way and   *)
(* what should exist of it.                                                *)
TesterTypeOK ==
  /\ tree \in Tree
  /\ should_exist \in [Node -> BOOLEAN]
  /\ \A c \in Cmd : cmd_count[c] = 0 \/ cmd_count[c] \in 1..cmd_limit[c]
  /\ no_valid_cmd_cnt \in 0..(MaxInvalid + 1)
  /\ made \in 0..Len(create_test_tree)
  /\ test \in {"new", "creating", "running", "finished"}
  /\ CallFits
  /\ path \in Path /\ doubt \subseteq Path
  /\ changes \in 0..MaxChanges

(* What the tester says should exist does, and of a file also the other    *)
(* way round, unless a write of it or of its directory has come to nothing *)
(* or was never answered: through any sequence of commands, whatever is    *)
(* refused, and though kOK says nothing of what the namespace did          *)
(* (PerfTest.cpp:310, 327, 363, 381 against FSNamespace's operations).     *)
WhatShouldExistDoes ==
  test \in {"running", "finished"} =>
    \A k \in Node : Sure(write_tree[k]) =>
      /\ should_exist[k] => write_tree[k] \in Nodes(tree)
      /\ write_tree[k] \in tree.files => should_exist[k]

(* The run ends, by its last command, for want of commands that can        *)
(* succeed or with its client (PerfTest.cpp:192, 202), whatever rand() draws*)
(* and with all hosts down too, if the limits reach the total; they may    *)
(* exceed it.                                                              *)
TestEnds ==
  Total([c \in Cmd |-> Max({0, cmd_limit[c]})]) >= cmd_total_to_run
    => <>(test = "finished" \/ pc = "ended")
=============================================================================
