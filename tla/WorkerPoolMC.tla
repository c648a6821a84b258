----------------------------- MODULE WorkerPoolMC -----------------------------
(***************************************************************************)
(* Instance of WorkerPool for TLC.                                         *)
(***************************************************************************)
EXTENDS WorkerPool

ShortPlans == {<<"leader", "follower">>, <<"follower">>}
=============================================================================
