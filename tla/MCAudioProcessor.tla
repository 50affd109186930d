-------------------------- MODULE MCAudioProcessor --------------------------
(* Two sessions, of which either may be the test of the noise.               *)
EXTENDS AudioProcessor

CONSTANTS a, b
=============================================================================
