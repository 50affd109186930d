------------------------------ MODULE CallSlot ------------------------------
(***************************************************************************)
(* What the hand-off of negotiated calls to the interface promises: a slot *)
(* for one call.  A call is put into it when it is empty, stays there      *)
(* until the interface has made a session of it or has refused it, and is  *)
(* never seen again.                                                       *)
(***************************************************************************)
CONSTANTS Calls, NoCall

VARIABLES
  slot,           \* the call in the slot, or NoCall
  fate            \* what became of each call

slotVars == <<slot, fate>>

SlotInit == slot = NoCall /\ fate = [c \in Calls |-> "unseen"]

Put(c) ==
  /\ slot = NoCall /\ fate[c] = "unseen"
  /\ slot' = c
  /\ fate' = [fate EXCEPT ![c] = "put"]

Settle(f) ==
  /\ slot # NoCall /\ fate[slot] = "put"
  /\ slot' = NoCall
  /\ fate' = [fate EXCEPT ![slot] = f]

SlotSpec ==
  /\ SlotInit
  /\ [][\/ \E c \in Calls : Put(c)
        \/ Settle("session") \/ Settle("failed") \/ Settle("refused")]_slotVars
=============================================================================
