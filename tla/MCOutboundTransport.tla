------------------------- MODULE MCOutboundTransport -------------------------
(***************************************************************************)
(* Two transports around the base transport and two calls, the second of   *)
(* which may use the request object of the first; answers that are empty,  *)
(* at the limit, one byte above it and beyond.                             *)
(***************************************************************************)
EXTENDS OutboundTransport
=============================================================================
