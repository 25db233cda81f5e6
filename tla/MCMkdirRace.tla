----------------------------- MODULE MCMkdirRace -----------------------------
(***************************************************************************)
(* Model values for MkdirRace: two processes that both use the name "b".   *)
(***************************************************************************)
EXTENDS MkdirRace

MCPath == [abs : {FALSE}, dir : {<<>>}, name : {"a", "b"}]
=============================================================================
