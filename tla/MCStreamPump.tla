---------------------------- MODULE MCStreamPump ----------------------------
(* A provider that sends up to five chunks through channels of one.         *)
EXTENDS StreamPump
=============================================================================
