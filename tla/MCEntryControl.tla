--------------------------- MODULE MCEntryControl ---------------------------
(***************************************************************************)
(* TLC instance of EntryControl: each way to an order on its own, beside   *)
(* the scanner loop and the operator's controls.                           *)
(***************************************************************************)
EXTENDS EntryControl

MCSetups == {{"worker"}, {"start"}, {"operator"}}
=============================================================================
