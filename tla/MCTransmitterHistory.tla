---- MODULE MCTransmitterHistory ----
(***************************************************************************)
(* Two distinct items so that reordering shows, a channel and a batch that *)
(* both fill, and one item more than the two hold together, so that items  *)
(* are posted, dropped and left behind in the same behaviour.              *)
(***************************************************************************)
EXTENDS TransmitterHistory
=====================================
