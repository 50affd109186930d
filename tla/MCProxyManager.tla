--------------------------- MODULE MCProxyManager ---------------------------
(* Three calls, of which two are served at most.                             *)
EXTENDS ProxyManager

CONSTANTS c1, c2, c3
=============================================================================
