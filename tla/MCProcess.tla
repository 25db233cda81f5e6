----------------------------- MODULE MCProcess ------------------------------
(***************************************************************************)
(* Process for TLC.  A cfg file cannot write -1.                           *)
(***************************************************************************)
EXTENDS Process

MCExitStatus == {-1}
=============================================================================
