------------------------------ MODULE PerfTestMC ------------------------------
(***************************************************************************)
(* Ratios of PerfTest for TLC, in quarters, for four commands in all.      *)
(***************************************************************************)
EXTENDS PerfTest

(* As built (client_main.cpp:102-110): reads only, and whatever the stack  *)
(* holds for Rmdir.                                                        *)
AsBuilt(rmdir) ==
  [c \in Cmd |-> CASE c \in Read -> 50 [] c = "Rmdir" -> rmdir
                   [] OTHER -> 0]

(* Each write once, and one read.                                          *)
Writes == [c \in Cmd |-> IF c \in Write THEN 25 ELSE 0]

TestRatios == {Writes} \cup {AsBuilt(r) : r \in {-25, 25}}
=============================================================================
