---- MODULE MCUserAttribution ----
(***************************************************************************)
(* Two goroutines and two users on one trace (traces share only the buffer *)
(* and the timer); one timer goroutine, which can be late and meet the     *)
(* timer of a later event when an explicit flush came first.               *)
(***************************************************************************)
EXTENDS UserAttribution
==================================
