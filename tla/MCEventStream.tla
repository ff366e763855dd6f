---------------------------- MODULE MCEventStream ----------------------------
(* The event stream, with the values of stream_general.cfg. *)
EXTENDS EventStream
==============================================================================
