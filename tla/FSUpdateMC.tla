------------------------------ MODULE FSUpdateMC ------------------------------
(***************************************************************************)
(* An instance of FSUpdate for TLC: commands on one directory and what is  *)
(* in it, with the paths of a file, of a directory in it and of a          *)
(* directory without a name.                                               *)
(***************************************************************************)
EXTENDS FSUpdate

CONSTANTS a, b

C(op, path) == [op |-> op, path |-> path]

Commands ==
  {C("mkdir", <<a>>), C("rmdir", <<a>>), C("create", <<a, b>>), C("delete", <<a, b>>),
   C("mkdir", <<a, NoName>>), C("create", <<a>>)}

(* For logs that change at any time, of which there are more.              *)
FewCommands == {C("rmdir", <<a>>), C("mkdir", <<a, b>>), C("create", <<a>>)}
=============================================================================
