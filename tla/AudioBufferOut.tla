--------------------------- MODULE AudioBufferOut ---------------------------
(***************************************************************************)
(* The play direction of a session's audio (audio_buffer_out.c): the RTP   *)
(* thread writes decoded frames of `in' bytes, write_audio_buffer regroups *)
(* them into blocks of `out' bytes, the size the sound card works with,    *)
(* and queues them for the audio processor.  The volume and the effect     *)
(* plugins change a block in place and are left out.                       *)
(*                                                                         *)
(* The buffer has the length mcm gives and no wrap-around: both pointers   *)
(* only grow, until they meet.  Bytes are numbered in the order they come. *)
(***************************************************************************)
EXTENDS Mcm, Sequences

CONSTANT MaxBytes       \* bound of the model: bytes written in a run
ASSUME MaxBytesAssumption == MaxBytes \in Nat

VARIABLES
  ptr_write_buffer,
  ptr_read_buffer,
  buffer,         \* the number of the byte at each offset; 0 is garbage
  fed,            \* bytes written so far
  mute,           \* *mute, switched by the interface
  aqueue          \* the blocks queued for the audio processor

bufVars == <<ptr_write_buffer, ptr_read_buffer, buffer, fed, mute, aqueue>>
vars == <<mcmVars, bufVars>>

Block == [1 .. out -> Nat]

\* The buffer has exactly the bytes its length says, and a block its size.
TypeOK ==
  /\ McmTypeOK
  /\ ptr_write_buffer \in Nat
  /\ ptr_read_buffer \in Nat
  /\ buffer \in [0 .. buffer_length - 1 -> Nat]
  /\ fed \in Nat
  /\ mute \in {0, 1}
  /\ aqueue \in Seq(Block)

\* init_write_audio_buffer refuses other sizes.
Init ==
  /\ McmInit
  /\ in <= out /\ out % 2 = 0
  /\ ptr_write_buffer = 0 /\ ptr_read_buffer = 0
  /\ buffer = [i \in {} |-> 0]
  /\ fed = 0
  /\ mute \in {0, 1}
  /\ aqueue = <<>>

\* The buffer is allocated with the length mcm returned.
Allocate ==
  /\ McmNext
  /\ buffer' = [i \in 0 .. buffer_length' - 1 |-> 0]
  /\ UNCHANGED <<ptr_write_buffer, ptr_read_buffer, fed, mute, aqueue>>

\* The buffer with the frame copied into it.  A byte past the end is not there.
Filled ==
  [i \in DOMAIN buffer |->
     IF i \in ptr_write_buffer .. ptr_write_buffer + in - 1
     THEN fed + 1 + i - ptr_write_buffer ELSE buffer[i]]

\* The block at the read pointer.
Oldest == [k \in 1 .. out |-> Filled[ptr_read_buffer + k - 1]]

\* Mutant of QueueBlock: the pointers never return to the beginning.
QueueBlockNoReset ==
  /\ aqueue' = IF mute # 1 THEN Append(aqueue, Oldest) ELSE aqueue
  /\ ptr_write_buffer' = ptr_write_buffer + in
  /\ ptr_read_buffer' = ptr_read_buffer + out

\* Mutant of QueueBlock: they return whatever is left behind.
QueueBlockReset ==
  /\ aqueue' = IF mute # 1 THEN Append(aqueue, Oldest) ELSE aqueue
  /\ ptr_write_buffer' = 0 /\ ptr_read_buffer' = 0

\* Mutant of QueueBlock: a muted session queues its blocks too.
QueueBlockMuted ==
  /\ aqueue' = Append(aqueue, Oldest)
  /\ IF ptr_write_buffer + in = ptr_read_buffer + out
     THEN ptr_write_buffer' = 0 /\ ptr_read_buffer' = 0
     ELSE /\ ptr_write_buffer' = ptr_write_buffer + in
          /\ ptr_read_buffer' = ptr_read_buffer + out

\* There is enough for a block: it is queued, unless the session is muted, and
\* the pointers return to the beginning if they meet.
QueueBlock ==
  /\ aqueue' = IF mute # 1 THEN Append(aqueue, Oldest) ELSE aqueue
  /\ IF ptr_write_buffer + in = ptr_read_buffer + out
     THEN ptr_write_buffer' = 0 /\ ptr_read_buffer' = 0
     ELSE /\ ptr_write_buffer' = ptr_write_buffer + in
          /\ ptr_read_buffer' = ptr_read_buffer + out

\* write_audio_buffer.
Write ==
  /\ mpc = "done"
  /\ fed < MaxBytes
  /\ buffer' = Filled
  /\ IF ptr_write_buffer + in - ptr_read_buffer >= out
     THEN QueueBlock
     ELSE /\ ptr_write_buffer' = ptr_write_buffer + in
          /\ UNCHANGED <<ptr_read_buffer, aqueue>>
  /\ fed' = fed + in
  /\ UNCHANGED <<mcmVars, mute>>

\* The audio processor takes a block, if there is one, to play it.
Pop ==
  /\ aqueue # <<>>
  /\ aqueue' = Tail(aqueue)
  /\ UNCHANGED <<mcmVars, ptr_write_buffer, ptr_read_buffer, buffer, fed, mute>>

\* The mute button of the session.
ToggleMute ==
  /\ mpc = "done"
  /\ mute' = 1 - mute
  /\ UNCHANGED <<mcmVars, ptr_write_buffer, ptr_read_buffer, buffer, fed, aqueue>>

Next == Allocate \/ Write \/ Pop \/ ToggleMute

Spec == Init /\ [][Next]_vars

-----------------------------------------------------------------------------
\* Bytes that are in the buffer.
Held == ptr_write_buffer - ptr_read_buffer

\* The next frame fits into the buffer, whatever the two sizes: without a
\* wrap-around the pointers must meet exactly at the end, if not before.
NoOverflow == mpc = "done" => ptr_write_buffer + in <= buffer_length

\* Every byte that came is in its place until it leaves: no frame overwrites
\* one that has not been queued, and when the pointers return to the beginning
\* none stays behind: what is gone is whole blocks.
Kept ==
  /\ Held \in 0 .. out - 1
  /\ Divides(out, fed - Held)
  /\ \A i \in ptr_read_buffer .. ptr_write_buffer - 1 :
       i \in DOMAIN buffer /\ buffer[i] = fed - (ptr_write_buffer - 1 - i)

\* The bytes held are those between the two pointers.
Regroup == INSTANCE AudioRegroup WITH cut <- fed - Held, blocks <- aqueue
\* The buffer does what AudioRegroup says, as if it had no end.
RegroupSpec == Regroup!RegroupSpec

\* The inductive invariant: the pointers are at multiples of the two sizes.
Pointers ==
  /\ mpc # "done" => ptr_write_buffer = 0 /\ ptr_read_buffer = 0
  /\ mpc = "done" => ptr_write_buffer < buffer_length
  /\ Divides(in, ptr_write_buffer) /\ Divides(out, ptr_read_buffer)
  /\ Held >= 0 /\ Held < out
  /\ Held <= fed

\* With the invariant of mcm, on whose result the reset of the pointers rests.
IndInv == EuclidInv /\ TypeOK /\ in <= out /\ Pointers /\ Kept
=============================================================================
