--------------------------- MODULE MCSupervision ---------------------------
(***************************************************************************)
(* TLC instances of Supervision: with the private channel, or with an      *)
(* operator who runs the watchdog beside the loop.                         *)
(***************************************************************************)
EXTENDS Supervision

MCSetups == {{"socket"}, {"operator"}}
=============================================================================
