-------------------------------- MODULE Mcm ---------------------------------
(***************************************************************************)
(* mcm (audio_buffer.c): the length of an audio buffer, from the size of   *)
(* the blocks written to it and of those read from it.  The function is a  *)
(* module of its own because both directions of the audio path start with  *)
(* it, and because what it returns decides whether a buffer overflows.     *)
(***************************************************************************)
EXTENDS Integers

CONSTANT Sizes          \* the block sizes, in bytes

ASSUME SizesAssumption == Sizes \subseteq Nat \ {0}

VARIABLES
  in,             \* audio_blksize_in, the first argument
  out,            \* audio_blksize_out, the second one
  a, b,           \* the variables of the function
  mpc,            \* where it is
  buffer_length   \* what it returned, 0 before

mcmVars == <<in, out, a, b, mpc, buffer_length>>

McmTypeOK ==
  /\ in \in Sizes
  /\ out \in Sizes
  /\ a \in Nat
  /\ b \in Nat
  /\ mpc \in {"entry", "loop", "done"}
  /\ buffer_length \in Nat

McmInit ==
  /\ in \in Sizes
  /\ out \in Sizes
  /\ a = in
  /\ b = out
  /\ mpc = "entry"
  /\ buffer_length = 0

\* Equal sizes need no search; the larger one goes to a.
Enter ==
  /\ mpc = "entry"
  /\ IF a = b
     THEN mpc' = "done" /\ buffer_length' = a /\ UNCHANGED <<a, b>>
     ELSE /\ mpc' = "loop"
          /\ a' = IF b > a THEN b ELSE a
          /\ b' = IF b > a THEN a ELSE b
          /\ UNCHANGED buffer_length
  /\ UNCHANGED <<in, out>>

\* One turn of Euclid's loop.
Turn ==
  /\ mpc = "loop"
  /\ b # 0
  /\ a' = b
  /\ b' = a % b
  /\ UNCHANGED <<in, out, mpc, buffer_length>>

Return ==
  /\ mpc = "loop"
  /\ b = 0
  /\ mpc' = "done"
  /\ buffer_length' = (in * out) \div a
  /\ UNCHANGED <<in, out, a, b>>

McmNext == Enter \/ Turn \/ Return

-----------------------------------------------------------------------------
Divides(d, n) == \E k \in 0 .. n : n = d * k

\* What the buffers rely on: the length is a multiple of both sizes.
CommonMultiple ==
  mpc = "done" =>
    buffer_length > 0 /\ Divides(in, buffer_length) /\ Divides(out, buffer_length)

\* The inductive invariant of the loop: what divides a and b divides the two
\* sizes, so that the last a does.
EuclidInv ==
  /\ McmTypeOK
  /\ a > 0
  /\ mpc = "entry" => a = in /\ b = out
  /\ \A d \in 1 .. a : Divides(d, a) /\ Divides(d, b) => Divides(d, in) /\ Divides(d, out)
  /\ CommonMultiple
=============================================================================
