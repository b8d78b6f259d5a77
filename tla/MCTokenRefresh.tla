--------------------------- MODULE MCTokenRefresh ---------------------------
(* A planned request, the keepalive pass and one account test.              *)
EXTENDS TokenRefresh
CONSTANTS request, keepalive, test
=============================================================================
