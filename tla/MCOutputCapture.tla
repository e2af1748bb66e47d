--------------------------- MODULE MCOutputCapture ---------------------------
(***************************************************************************)
(* Two goroutines, one of them main; a pipe that one line fills; calls     *)
(* enough for a line in the pipe, one at the scanner and one that waits.   *)
(***************************************************************************)
EXTENDS OutputCapture
=============================================================================
