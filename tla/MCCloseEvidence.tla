-------------------------- MODULE MCCloseEvidence --------------------------
(***************************************************************************)
(* TLC instances of CloseEvidence: trades of two lots, of which a target   *)
(* may close one.                                                          *)
(***************************************************************************)
EXTENDS CloseEvidence
=============================================================================
