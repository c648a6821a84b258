----------------------------- MODULE FSNamespace -----------------------------
(***************************************************************************)
(* filesystem/FSNamespace and INode: the tree of directories and files     *)
(* that a server builds from its committed log entries.                    *)
(*                                                                         *)
(* A path is the sequence of names that SplitPath gives: "/a/b" is         *)
(* <<a, b>>, "/a/" is <<a, "">> and "/" is <<"">>; the root directory      *)
(* itself is <<>>.  A tree is the set of its directories and the set of    *)
(* its files.  Owners, sizes and times are left out: the log carries none, *)
(* every node is owned by "unknown" and the owner tests always succeed.    *)
(* Every operation holds the namespace's mutex from its first look at the  *)
(* tree to its last change, so each is an operator from tree to tree.      *)
(***************************************************************************)
EXTENDS Naturals, Sequences

CONSTANTS
  Name,         \* names of files and directories, the empty one among them
  NoName        \* the empty name

ASSUME NameAssumption == NoName \in Name

Path == Seq(Name)

Upto(p, k) == SubSeq(p, 1, k)

Folder(p) == Upto(p, Len(p) - 1)

(* p is q or lies under it.                                                *)
Within(p, q) == Len(q) <= Len(p) /\ Upto(p, Len(q)) = q

NewTree == [dirs |-> {<<>>}, files |-> {}]

Tree == [dirs : SUBSET Path, files : SUBSET Path]

Nodes(t) == t.dirs \cup t.files

(* GetParentFolderAndChild: every folder on the way is a directory.        *)
FindsFolder(t, p) == \A k \in 0..(Len(p) - 1) : Upto(p, k) \in t.dirs

NamesChild(p) == p[Len(p)] # NoName

(* MakeDir casts every node on the way to a directory without a look at    *)
(* its type: with a file on the way the children of a file are read.       *)
WalksThroughFile(t, p) == \E k \in 1..(Len(p) - 1) : Upto(p, k) \in t.files

(* CreateDir makes a child only where there is none.                       *)
MadeDirs(t, p) == {Upto(p, k) : k \in {n \in 1..Len(p) : Upto(p, n) \notin t.files}}

(* INodeDirectory::CreateFile: a child is added where there is none.       *)
AddFile(t, p) == [t EXCEPT !.files = @ \cup {p}]

(* INodeDirectory::DeleteChild: the child goes with all that is under it.  *)
DeleteChild(t, p) ==
  [dirs  |-> {q \in t.dirs : ~Within(q, p)},
   files |-> {q \in t.files : ~Within(q, p)}]

(* MakeDir with make_parents: every missing directory of the path is made, *)
(* one without a name too; what exists stays, be it a file.                *)
MakeDir(t, p) == [t EXCEPT !.dirs = @ \cup MadeDirs(t, p)]

(* DeleteDir, recursive                                                    *)
DeleteDir(t, p) ==
  IF FindsFolder(t, p) /\ NamesChild(p) /\ p \in t.dirs THEN DeleteChild(t, p) ELSE t

CreateFile(t, p) ==
  IF FindsFolder(t, p) /\ NamesChild(p) /\ p \notin Nodes(t) THEN AddFile(t, p) ELSE t

RemoveFile(t, p) ==
  IF FindsFolder(t, p) /\ NamesChild(p) /\ p \in t.files THEN DeleteChild(t, p) ELSE t

(* ListDir casts what it finds to a directory without a look at its type:  *)
(* with a file, the children of a file are listed (ListDirName).           *)
ListsFile(t, p) == FindsFolder(t, p) /\ NamesChild(p) /\ p \in t.files

(* The switch of FSUpdateLoop over the operation of an entry.  Its result  *)
(* is printed and goes nowhere else.                                       *)
Applied(t, e) ==
  CASE e.op = "mkdir"  -> MakeDir(t, e.path)
    [] e.op = "rmdir"  -> DeleteDir(t, e.path)
    [] e.op = "create" -> CreateFile(t, e.path)
    [] e.op = "delete" -> RemoveFile(t, e.path)

(* The operation reads a file as a directory.                              *)
Misreads(t, e) == e.op = "mkdir" /\ WalksThroughFile(t, e.path)

Command == [op : {"mkdir", "rmdir", "create", "delete"}, path : Path \ {<<>>}]
=============================================================================
