------------------------------ MODULE SsipCall ------------------------------
(***************************************************************************)
(* What a call negotiated with SSIP promises to the two user interfaces    *)
(* that asked for it, without packets, sockets or timeouts: ssip_connect   *)
(* and ssip_accept (ssip_neg.c) each end once, either with a session to    *)
(* open ("up") or without one ("down").                                    *)
(*                                                                         *)
(* The called side opens a session only after its user said yes and after  *)
(* it has fixed one codec; the calling side opens one only when the called *)
(* side already has.  The converse is not promised: the last packet of the *)
(* exchange may be lost, or the caller may hang up while it is on its way. *)
(***************************************************************************)
CONSTANTS
  Codec,          \* the codecs a session can use
  NoCodec         \* no codec has been chosen yet

VARIABLES
  answer,         \* the called user's answer
  codec,          \* the codec fixed by the called side
  callee,         \* how the called side ended
  caller          \* how the calling side ended

callVars == <<answer, codec, callee, caller>>

Ending == {"open", "up", "down"}

CallTypeOK ==
  /\ answer \in {"none", "yes", "no"}
  /\ codec \in Codec \cup {NoCodec}
  /\ callee \in Ending
  /\ caller \in Ending

CallInit ==
  /\ answer = "none"
  /\ codec = NoCodec
  /\ callee = "open"
  /\ caller = "open"

\* The called user picks up, or refuses (or the address book refuses).
Answer(a) ==
  /\ callee = "open"
  /\ answer = "none"
  /\ answer' = a
  /\ UNCHANGED <<codec, callee, caller>>

\* The called side fixes the codec of the session.
FixCodec(c) ==
  /\ callee = "open"
  /\ answer = "yes"
  /\ codec = NoCodec
  /\ codec' = c
  /\ UNCHANGED <<answer, callee, caller>>

CalleeUp ==
  /\ callee = "open"
  /\ codec # NoCodec
  /\ callee' = "up"
  /\ UNCHANGED <<answer, codec, caller>>

CallerUp ==
  /\ caller = "open"
  /\ callee = "up"
  /\ caller' = "up"
  /\ UNCHANGED <<answer, codec, callee>>

\* A called side that ends without a session keeps no codec.
CalleeDown ==
  /\ callee = "open"
  /\ callee' = "down"
  /\ codec' = NoCodec
  /\ UNCHANGED <<answer, caller>>

CallerDown ==
  /\ caller = "open"
  /\ caller' = "down"
  /\ UNCHANGED <<answer, codec, callee>>

CallNext ==
  \/ \E a \in {"yes", "no"} : Answer(a)
  \/ \E c \in Codec : FixCodec(c)
  \/ CalleeUp
  \/ CallerUp
  \/ CalleeDown
  \/ CallerDown

CallSpec == CallInit /\ [][CallNext]_callVars
=============================================================================
