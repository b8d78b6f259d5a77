--------------------------- MODULE MCUsageWriter ---------------------------
(* Three rows of awaited requests and one of a pump, a channel of two, *)
(* batches of two.                                                      *)
EXTENDS UsageWriter
CONSTANTS h1, h2, h3, pump
============================================================================
