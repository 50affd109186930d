---------------------------- MODULE MCSsipProxy -----------------------------
(***************************************************************************)
(* SsipProxy with codec lists of one node at most.                         *)
(***************************************************************************)
EXTENDS SsipProxy

CONSTANTS gsm, speex, m1          \* payload types; what g_malloc left in ms

Node(p) == [payload |-> p, ms |-> m1]

MCCallerLists == {<<>>, <<Node(gsm)>>}
MCCalleeLists == {<<Node(gsm)>>, <<Node(speex)>>}
=============================================================================
