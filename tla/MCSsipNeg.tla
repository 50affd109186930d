----------------------------- MODULE MCSsipNeg ------------------------------
(***************************************************************************)
(* SsipNeg with two payload types, codec lists of at most two nodes and    *)
(* two values for the unassigned field ms.                                 *)
(***************************************************************************)
EXTENDS SsipNeg

CONSTANTS gsm, speex,             \* payload types
          m1, m2                  \* what g_malloc left in ms

Node(p, m) == [payload |-> p, ms |-> m]

\* The node lists of a program: every payload type once, in any order.
Lists(mss) ==
  {<<Node(gsm, m), Node(speex, n)>> : m \in mss, n \in mss}
    \cup {<<Node(speex, m), Node(gsm, n)>> : m \in mss, n \in mss}

MCCodecLists == {<<>>} \cup {<<Node(gsm, m)>> : m \in Ms} \cup Lists(Ms)
MCCalleeLists == {<<>>, <<Node(gsm, m1)>>, <<Node(speex, m2)>>} \cup Lists({m1})
=============================================================================
