---------------------------- MODULE MCRtpSources ----------------------------
(* Our source and two others in one chain, in a table of two.  Packets come   *)
(* from us and one other, and name all three.                                *)
EXTENDS RtpSources
=============================================================================
