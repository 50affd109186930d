---------------------------- MODULE AudioRegroup ----------------------------
(***************************************************************************)
(* What the play direction of an audio buffer promises, without a buffer:  *)
(* bytes come in frames of one size and leave, in order and each of them   *)
(* once, in blocks of a larger size; the oldest block leaves as soon as it *)
(* is complete, and is dropped instead if the session is muted.  Bytes are *)
(* numbered from 1 in the order they come.                                 *)
(***************************************************************************)
EXTENDS Integers, Sequences

VARIABLES
  in, out,        \* the two sizes
  mute,           \* 1 when the session's volume is muted
  fed,            \* bytes that have come
  cut,            \* bytes that have left or have been dropped
  blocks          \* blocks that have left and have not been played

regroupVars == <<in, out, mute, fed, cut, blocks>>

Oldest == [k \in 1 .. out |-> cut + k]

RegroupInit == fed = 0 /\ cut = 0 /\ blocks = <<>>

Feed ==
  /\ fed' = fed + in
  /\ IF fed' - cut >= out
     THEN /\ cut' = cut + out
          /\ blocks' = IF mute = 1 THEN blocks ELSE Append(blocks, Oldest)
     ELSE UNCHANGED <<cut, blocks>>
  /\ UNCHANGED <<in, out, mute>>

Play ==
  /\ blocks # <<>>
  /\ blocks' = Tail(blocks)
  /\ UNCHANGED <<in, out, mute, fed, cut>>

SwitchMute == mute' \in {0, 1} /\ UNCHANGED <<in, out, fed, cut, blocks>>

RegroupSpec == RegroupInit /\ [][Feed \/ Play \/ SwitchMute]_regroupVars
=============================================================================
