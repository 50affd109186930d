--------------------------- MODULE AudioBufferIn ----------------------------
(***************************************************************************)
(* The record direction of a session's audio (audio_buffer_in.c): the      *)
(* audio processor queues blocks of `in' bytes from the microphone, and    *)
(* read_audio_buffer, called by the sending thread, cuts them into frames  *)
(* of `out' bytes, the size the codec works with.  While the microphone is *)
(* muted the thread stays in the call and throws the blocks away.  The     *)
(* effect plugins change a block in place and are left out.                *)
(*                                                                         *)
(* Bytes are numbered in the order they are captured.                      *)
(***************************************************************************)
EXTENDS Mcm, Sequences

CONSTANT MaxBytes       \* bound of the model: bytes captured in a run
ASSUME MaxBytesAssumption == MaxBytes \in Nat

VARIABLES
  ptr_write_buffer,
  ptr_read_buffer,
  buffer,         \* the number of the byte at each offset; 0 is garbage
  mute,           \* *mute, switched by the interface
  aqueue,         \* blocks queued by the audio processor
  captured,       \* bytes captured so far
  tpc,            \* where the sending thread is in read_audio_buffer
  frame           \* the last frame it got

bufVars == <<ptr_write_buffer, ptr_read_buffer, buffer, mute, aqueue, captured, tpc, frame>>
vars == <<mcmVars, bufVars>>

\* The buffer has exactly the bytes its length says, and a block its size.
TypeOK ==
  /\ McmTypeOK
  /\ ptr_write_buffer \in Nat
  /\ ptr_read_buffer \in Nat
  /\ buffer \in [0 .. buffer_length - 1 -> Nat]
  /\ mute \in {0, 1}
  /\ aqueue \in Seq([1 .. in -> Nat])
  /\ captured \in Nat
  /\ tpc \in {"out", "pop", "check"}
  /\ frame \in Seq(Nat)

\* init_read_audio_buffer refuses other sizes.
Init ==
  /\ McmInit
  /\ in >= out /\ in % 2 = 0
  /\ ptr_write_buffer = 0 /\ ptr_read_buffer = 0
  /\ buffer = [i \in {} |-> 0]
  /\ mute \in {0, 1}
  /\ aqueue = <<>>
  /\ captured = 0
  /\ tpc = "out"
  /\ frame = <<>>

\* The buffer is allocated with the length mcm returned.
Allocate ==
  /\ McmNext
  /\ buffer' = [i \in 0 .. buffer_length' - 1 |-> 0]
  /\ UNCHANGED <<ptr_write_buffer, ptr_read_buffer, mute, aqueue, captured, tpc, frame>>

\* The frame at offset r of what is then in the buffer.
Deliver(w) ==
  /\ frame' = [k \in 1 .. out |-> buffer[ptr_read_buffer + k - 1]]
  /\ ptr_write_buffer' = w
  /\ ptr_read_buffer' = ptr_read_buffer + out

\* read_audio_buffer is called and there is a frame in the buffer.
ReadHeld ==
  /\ mpc = "done" /\ tpc = "out"
  /\ ptr_write_buffer - ptr_read_buffer >= out
  /\ Deliver(ptr_write_buffer)
  /\ UNCHANGED <<mcmVars, buffer, mute, aqueue, captured, tpc>>

\* Mutant of ReadEmpty: the pointers never return to the beginning.
ReadEmptyNoReset ==
  /\ mpc = "done" /\ tpc = "out"
  /\ ptr_write_buffer - ptr_read_buffer < out
  /\ tpc' = "pop"
  /\ UNCHANGED <<mcmVars, ptr_write_buffer, ptr_read_buffer, buffer, mute, aqueue,
                 captured, frame>>

\* It is called and there is none: the pointers return to the beginning if
\* they have met, and the thread waits for a block.
ReadEmpty ==
  /\ mpc = "done" /\ tpc = "out"
  /\ ptr_write_buffer - ptr_read_buffer < out
  /\ IF ptr_write_buffer = ptr_read_buffer
     THEN ptr_write_buffer' = 0 /\ ptr_read_buffer' = 0
     ELSE UNCHANGED <<ptr_write_buffer, ptr_read_buffer>>
  /\ tpc' = "pop"
  /\ UNCHANGED <<mcmVars, buffer, mute, aqueue, captured, frame>>

\* A block is taken and copied.  A byte past the end is not in the buffer.
Pop ==
  /\ tpc = "pop"
  /\ aqueue # <<>>
  /\ buffer' = [i \in DOMAIN buffer |->
                  IF i \in ptr_write_buffer .. ptr_write_buffer + in - 1
                  THEN Head(aqueue)[i - ptr_write_buffer + 1] ELSE buffer[i]]
  /\ aqueue' = Tail(aqueue)
  /\ tpc' = "check"
  /\ UNCHANGED <<mcmVars, ptr_write_buffer, ptr_read_buffer, mute, captured, frame>>

\* The condition of the do-while: the next block overwrites this one if the
\* microphone is muted now.
Discard ==
  /\ tpc = "check"
  /\ mute = 1
  /\ tpc' = "pop"
  /\ UNCHANGED <<mcmVars, ptr_write_buffer, ptr_read_buffer, buffer, mute, aqueue,
                 captured, frame>>

\* Mutant of Keep: the write pointer does not move.
KeepNoAdvance ==
  /\ tpc = "check"
  /\ mute # 1
  /\ Deliver(ptr_write_buffer)
  /\ tpc' = "out"
  /\ UNCHANGED <<mcmVars, buffer, mute, aqueue, captured>>

\* Mutant of Keep: it moves by the wrong size.
KeepOut ==
  /\ tpc = "check"
  /\ mute # 1
  /\ Deliver(ptr_write_buffer + out)
  /\ tpc' = "out"
  /\ UNCHANGED <<mcmVars, buffer, mute, aqueue, captured>>

Keep ==
  /\ tpc = "check"
  /\ mute # 1
  /\ Deliver(ptr_write_buffer + in)
  /\ tpc' = "out"
  /\ UNCHANGED <<mcmVars, buffer, mute, aqueue, captured>>

\* The audio processor queues a block.
Push ==
  /\ mpc = "done"
  /\ captured < MaxBytes
  /\ aqueue' = Append(aqueue, [k \in 1 .. in |-> captured + k])
  /\ captured' = captured + in
  /\ UNCHANGED <<mcmVars, ptr_write_buffer, ptr_read_buffer, buffer, mute, tpc, frame>>

\* The mute button of the microphone.
ToggleMute ==
  /\ mpc = "done"
  /\ mute' = 1 - mute
  /\ UNCHANGED <<mcmVars, ptr_write_buffer, ptr_read_buffer, buffer, aqueue, captured,
                 tpc, frame>>

Next ==
  Allocate \/ ReadHeld \/ ReadEmpty \/ Pop \/ Discard \/ Keep \/ Push \/ ToggleMute

Spec == Init /\ [][Next]_vars

-----------------------------------------------------------------------------
Held == ptr_write_buffer - ptr_read_buffer

\* The block the thread waits for fits into the buffer, whatever the sizes.
NoOverflow == tpc = "pop" => ptr_write_buffer + in <= buffer_length

\* y can follow x in what is sent: it is the next byte, or whole blocks were
\* thrown away between them.
Follows(x, y) == y = x + 1 \/ (y > x /\ x % in = 0 /\ y % in = 1 % in)

\* What is held follows what was sent, byte after byte, up to the last block
\* that was kept.
Kept ==
  /\ Held >= 0
  /\ \A i \in ptr_read_buffer .. ptr_write_buffer - 1 : i \in DOMAIN buffer /\ buffer[i] > 0
  /\ \A i \in ptr_read_buffer + 1 .. ptr_write_buffer - 1 : Follows(buffer[i - 1], buffer[i])
  /\ Held > 0 /\ frame # <<>> => Follows(frame[Len(frame)], buffer[ptr_read_buffer])

\* Frames go out in the order of capture, no byte twice and none that was never
\* captured; muting removes whole blocks and tears none.
WholeBlocks ==
  [][frame' # frame =>
       /\ \A k \in 1 .. out : frame'[k] \in 1 .. captured
       /\ \A k \in 2 .. out : Follows(frame'[k - 1], frame'[k])
       /\ frame # <<>> => Follows(frame[Len(frame)], frame'[1])]_vars

\* The inductive invariant of the pointers.
Pointers ==
  /\ mpc # "done" => /\ ptr_write_buffer = 0 /\ ptr_read_buffer = 0
                     /\ tpc = "out" /\ frame = <<>> /\ aqueue = <<>>
  /\ ptr_write_buffer <= buffer_length
  /\ Divides(in, ptr_write_buffer) /\ Divides(out, ptr_read_buffer)
  /\ Held >= 0
  /\ tpc # "out" => Held < out /\ ptr_write_buffer < buffer_length

\* With the invariant of mcm, on whose result the reset of the pointers rests.
IndInv == EuclidInv /\ TypeOK /\ out <= in /\ Pointers
=============================================================================
