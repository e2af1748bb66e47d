---- MODULE MCTransmitter ----
(***************************************************************************)
(* The transmitter against producers that never stop: one kind of item     *)
(* (nothing in Transmitter looks at an item), a batch that fills in two    *)
(* steps and two concurrent Shutdown calls.                                *)
(***************************************************************************)
EXTENDS Transmitter
==============================
