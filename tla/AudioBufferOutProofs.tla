------------------------ MODULE AudioBufferOutProofs ------------------------
(***************************************************************************)
(* Proofs about AudioBufferOut, for every pair of block sizes: the buffer  *)
(* mcm sizes is never overrun, although its pointers never wrap, and what  *)
(* leaves it is what AudioRegroup says.                                    *)
(***************************************************************************)
EXTENDS AudioBufferOut, McmProofs

\* The initial states satisfy the inductive invariant.
LEMMA InitIndInv == Init => IndInv
<1> SUFFICES ASSUME Init PROVE IndInv
  OBVIOUS
<1>1. EuclidInv
  BY EuclidInit DEF Init
<1>2. in \in Nat /\ in > 0 /\ out \in Nat /\ out > 0
  BY SizesAssumption DEF Init, McmInit
<1>3. TypeOK
  BY <1>1 DEF EuclidInv, TypeOK, Init, McmInit
<1>4. Divides(in, 0) /\ Divides(out, 0)
  BY <1>2, ZeroMultiple
<1>5. Pointers /\ Kept
  BY <1>2, <1>4 DEF Init, McmInit, Pointers, Kept, Held
<1> QED
  BY <1>1, <1>3, <1>5 DEF IndInv, Init

\* What write_audio_buffer finds when it is called: there is room for the frame,
\* and the pointers cannot meet the end of the buffer apart.
LEMMA Room ==
  ASSUME IndInv, mpc = "done"
  PROVE  /\ in \in Nat /\ in > 0 /\ out \in Nat /\ out > 0 /\ in <= out
         /\ buffer_length \in Nat /\ buffer_length > 0
         /\ ptr_write_buffer \in Nat /\ ptr_read_buffer \in Nat /\ fed \in Nat
         /\ ptr_read_buffer <= ptr_write_buffer
         /\ ptr_write_buffer + in <= buffer_length
         /\ \A r \in Nat : /\ Divides(out, r)
                           /\ r <= buffer_length /\ buffer_length < r + out
                           => r = buffer_length
<1>1. /\ in \in Nat /\ in > 0 /\ out \in Nat /\ out > 0 /\ in <= out
      /\ buffer_length \in Nat /\ buffer_length > 0
      /\ ptr_write_buffer \in Nat /\ ptr_read_buffer \in Nat /\ fed \in Nat
      /\ Divides(in, buffer_length) /\ Divides(out, buffer_length)
  BY SizesAssumption DEF IndInv, TypeOK, McmTypeOK, EuclidInv, CommonMultiple
<1>2. ptr_write_buffer + in <= buffer_length
  BY <1>1, RoomForOne DEF IndInv, Pointers
<1>3. ptr_read_buffer <= ptr_write_buffer
  BY <1>1 DEF IndInv, Pointers, Held
<1>4. ASSUME NEW r \in Nat, Divides(out, r), r <= buffer_length, buffer_length < r + out
      PROVE  r = buffer_length
  BY <1>1, <1>4, LastMultiple
<1> QED
  BY <1>1, <1>2, <1>3, <1>4

\* The no-overflow invariant follows.
LEMMA Fits == IndInv => NoOverflow
BY Room DEF NoOverflow

\* The frame goes to its place, behind the bytes that are held.
LEMMA FilledHolds ==
  ASSUME IndInv, mpc = "done"
  PROVE  /\ Filled \in [0 .. buffer_length - 1 -> Nat]
         /\ \A i \in ptr_read_buffer .. ptr_write_buffer + in - 1 :
              i \in DOMAIN Filled /\ Filled[i] = fed + in - (ptr_write_buffer + in - 1 - i)
<1>1. /\ in \in Nat /\ in > 0 /\ buffer_length \in Nat
      /\ ptr_write_buffer \in Nat /\ ptr_read_buffer \in Nat /\ fed \in Nat
      /\ ptr_read_buffer <= ptr_write_buffer /\ ptr_write_buffer + in <= buffer_length
  BY Room
<1>2. buffer \in [0 .. buffer_length - 1 -> Nat]
  BY DEF IndInv, TypeOK
<1>3. Filled \in [0 .. buffer_length - 1 -> Nat]
  BY <1>1, <1>2 DEF Filled
<1>4. ASSUME NEW i \in ptr_read_buffer .. ptr_write_buffer + in - 1
      PROVE  i \in DOMAIN Filled /\ Filled[i] = fed + in - (ptr_write_buffer + in - 1 - i)
  <2>1. i \in 0 .. buffer_length - 1 /\ i \in DOMAIN buffer
    BY <1>1, <1>2
  <2>2. CASE i < ptr_write_buffer
    <3>1. buffer[i] = fed - (ptr_write_buffer - 1 - i)
      BY <1>1, <2>2 DEF IndInv, Kept
    <3> QED
      BY <1>1, <2>1, <2>2, <3>1 DEF Filled
  <2>3. CASE i >= ptr_write_buffer
    BY <1>1, <2>1, <2>3 DEF Filled
  <2> QED
    BY <1>1, <2>2, <2>3
<1> QED
  BY <1>3, <1>4

\* The block at the read pointer holds the oldest bytes.
LEMMA OldestHolds ==
  ASSUME IndInv, mpc = "done", Held + in >= out
  PROVE  Oldest = [k \in 1 .. out |-> fed - Held + k]
<1>1. /\ in \in Nat /\ out \in Nat /\ ptr_write_buffer \in Nat /\ ptr_read_buffer \in Nat
      /\ fed \in Nat
  BY Room
<1>2. ASSUME NEW k \in 1 .. out
      PROVE  Filled[ptr_read_buffer + k - 1] = fed - Held + k
  <2>1. ptr_read_buffer + k - 1 \in ptr_read_buffer .. ptr_write_buffer + in - 1
    BY <1>1 DEF Held
  <2> QED
    BY <1>1, <2>1, FilledHolds DEF Held
<1> QED
  BY <1>2 DEF Oldest

\* A frame that completes no block stays in the buffer.
LEMMA WriteHolds ==
  ASSUME IndInv, Write, Held + in < out
  PROVE  ptr_write_buffer' = ptr_write_buffer + in /\ UNCHANGED <<ptr_read_buffer, aqueue>>
<1>1. in \in Nat /\ out \in Nat /\ ptr_write_buffer \in Nat /\ ptr_read_buffer \in Nat
  BY Room DEF Write
<1> QED
  BY <1>1 DEF Write, Held

\* A frame that completes a block moves the pointers and queues the oldest bytes.
LEMMA WriteQueues ==
  ASSUME IndInv, Write, Held + in >= out
  PROVE  /\ aqueue' = IF mute = 1 THEN aqueue
                      ELSE Append(aqueue, [k \in 1 .. out |-> fed - Held + k])
         /\ Held + in = out => ptr_write_buffer' = 0 /\ ptr_read_buffer' = 0
         /\ Held + in # out => /\ ptr_write_buffer' = ptr_write_buffer + in
                               /\ ptr_read_buffer' = ptr_read_buffer + out
<1>1. in \in Nat /\ out \in Nat /\ ptr_write_buffer \in Nat /\ ptr_read_buffer \in Nat
  BY Room DEF Write
<1>2. QueueBlock
  BY <1>1 DEF Write, Held
<1>3. Oldest = [k \in 1 .. out |-> fed - Held + k]
  BY OldestHolds DEF Write
<1>4. aqueue' = IF mute = 1 THEN aqueue
                ELSE Append(aqueue, [k \in 1 .. out |-> fed - Held + k])
  BY <1>2, <1>3 DEF QueueBlock
<1>5. /\ Held + in = out => ptr_write_buffer' = 0 /\ ptr_read_buffer' = 0
      /\ Held + in # out => /\ ptr_write_buffer' = ptr_write_buffer + in
                            /\ ptr_read_buffer' = ptr_read_buffer + out
  BY <1>1, <1>2 DEF QueueBlock, Held
<1> QED
  BY <1>4, <1>5

\* Every step keeps the inductive invariant.
LEMMA IndInvStep == IndInv /\ [Next]_vars => IndInv'
<1> SUFFICES ASSUME IndInv, [Next]_vars PROVE IndInv'
  OBVIOUS
<1>0. EuclidInv'
  <2>1. [McmNext]_mcmVars
    BY DEF Next, vars, Allocate, Write, Pop, ToggleMute
  <2> QED
    BY <2>1, EuclidStep DEF IndInv
<1>1. CASE Allocate
  <2>1. mpc # "done" /\ in' = in /\ out' = out
    BY <1>1 DEF Allocate, McmNext, Enter, Turn, Return
  <2>2. /\ ptr_write_buffer' = 0 /\ ptr_read_buffer' = 0 /\ fed' \in Nat
        /\ mute' \in {0, 1} /\ aqueue' \in Seq(Block')
    BY <1>1, <2>1 DEF Allocate, IndInv, TypeOK, Pointers, Block
  <2>3. buffer' \in [0 .. buffer_length' - 1 -> Nat]
    BY <1>1 DEF Allocate
  <2>4. TypeOK'
    BY <1>0, <2>2, <2>3 DEF EuclidInv, TypeOK
  <2>5. in \in Nat /\ out \in Nat /\ out > 0
    BY SizesAssumption DEF IndInv, TypeOK, McmTypeOK
  <2>6. Divides(in, 0) /\ Divides(out, 0)
    BY <2>5, ZeroMultiple
  <2>7. mpc' = "done" => buffer_length' > 0
    BY <1>0 DEF EuclidInv, CommonMultiple
  <2>8. Divides(out, fed - Held)' /\ Held' = 0
    <3>1. Held = 0 /\ Held' = 0 /\ fed' = fed
      BY <1>1, <2>1, <2>2 DEF Allocate, IndInv, Pointers, Held
    <3>2. Divides(out, fed - Held)
      BY DEF IndInv, Kept
    <3> QED
      BY <2>1, <3>1, <3>2
  <2>9. Pointers'
    BY <2>1, <2>2, <2>5, <2>6, <2>7 DEF Pointers, Held, TypeOK
  <2>10. Kept'
    BY <2>1, <2>2, <2>5, <2>8 DEF Kept, TypeOK
  <2> QED
    BY <1>0, <2>1, <2>4, <2>9, <2>10 DEF IndInv
<1>2. CASE Write
  <2>1. /\ mpc = "done" /\ UNCHANGED <<in, out, mpc, buffer_length, mute>>
        /\ fed' = fed + in /\ buffer' = Filled
    BY <1>2 DEF Write, mcmVars
  <2>2. /\ in \in Nat /\ in > 0 /\ out \in Nat /\ out > 0 /\ in <= out
        /\ buffer_length \in Nat /\ buffer_length > 0
        /\ ptr_write_buffer \in Nat /\ ptr_read_buffer \in Nat /\ fed \in Nat
        /\ ptr_read_buffer <= ptr_write_buffer
        /\ ptr_write_buffer + in <= buffer_length
    BY <2>1, Room
  <2>3. /\ Divides(in, ptr_write_buffer + in) /\ Divides(out, ptr_read_buffer + out)
        /\ Divides(in, 0) /\ Divides(out, 0)
    BY <2>2, NextMultiple, ZeroMultiple DEF IndInv, Pointers
  <2>4. Held \in 0 .. out - 1 /\ Held <= fed
    BY <2>2 DEF IndInv, Pointers, Held
  <2>5. /\ ptr_write_buffer' \in Nat /\ ptr_read_buffer' \in Nat
        /\ Divides(in, ptr_write_buffer') /\ Divides(out, ptr_read_buffer')
        /\ Held' \in 0 .. out - 1 /\ Held' <= fed'
        /\ ptr_read_buffer' <= ptr_write_buffer' /\ ptr_write_buffer' < ptr_read_buffer' + out
    <3>1. CASE Held + in < out
      <4>1. ptr_write_buffer' = ptr_write_buffer + in /\ ptr_read_buffer' = ptr_read_buffer
        BY <1>2, <2>2, <2>4, <3>1, WriteHolds
      <4> QED
        BY <2>1, <2>2, <2>3, <2>4, <3>1, <4>1 DEF Held, IndInv, Pointers
    <3>2. CASE Held + in = out
      <4>1. ptr_write_buffer' = 0 /\ ptr_read_buffer' = 0
        BY <1>2, <2>2, <2>4, <3>2, WriteQueues
      <4> QED
        BY <2>1, <2>2, <2>3, <2>4, <3>2, <4>1 DEF Held
    <3>3. CASE Held + in > out
      <4>1. /\ ptr_write_buffer' = ptr_write_buffer + in
            /\ ptr_read_buffer' = ptr_read_buffer + out
        BY <1>2, <2>2, <2>4, <3>3, WriteQueues
      <4> QED
        BY <2>1, <2>2, <2>3, <2>4, <3>3, <4>1 DEF Held
    <3> QED
      BY <2>2, <2>4, <3>1, <3>2, <3>3
  <2>6. ptr_write_buffer' < buffer_length
    <3>1. ptr_write_buffer' <= buffer_length
      BY <1>2, <2>2, <2>4, WriteHolds, WriteQueues
    <3>2. ASSUME ptr_write_buffer' = buffer_length PROVE ptr_read_buffer' = buffer_length
      <4>1. /\ ptr_read_buffer' \in Nat /\ ptr_read_buffer' <= buffer_length
            /\ buffer_length < ptr_read_buffer' + out
        BY <2>2, <2>5, <3>2
      <4>2. Divides(out, ptr_read_buffer')
        BY <2>5
      <4> QED
        BY <2>1, <4>1, <4>2, Room
    <3>3. ptr_write_buffer' = buffer_length => ptr_write_buffer' # ptr_read_buffer'
      <4>1. CASE Held + in < out
        BY <1>2, <2>2, <2>4, <4>1, WriteHolds DEF Held
      <4>2. CASE Held + in >= out
        BY <1>2, <2>2, <2>4, <4>2, WriteQueues DEF Held
      <4> QED
        BY <2>2, <2>4, <4>1, <4>2
    <3> QED
      BY <2>2, <2>5, <3>1, <3>2, <3>3
  <2>7. aqueue' \in Seq(Block)
    <3>1. [k \in 1 .. out |-> fed - Held + k] \in Block
      BY <2>2, <2>4 DEF Block
    <3>2. aqueue \in Seq(Block)
      BY DEF IndInv, TypeOK
    <3>3. CASE Held + in < out
      BY <1>2, <3>2, <3>3, WriteHolds
    <3>4. CASE Held + in >= out
      <4>1. Append(aqueue, [k \in 1 .. out |-> fed - Held + k]) \in Seq(Block)
        BY <3>1, <3>2
      <4> QED
        BY <1>2, <3>2, <3>4, <4>1, WriteQueues
    <3> QED
      BY <2>2, <2>4, <3>3, <3>4
  <2>8. TypeOK'
    <3>1. McmTypeOK'
      BY <1>0 DEF EuclidInv
    <3>2. buffer' \in [0 .. buffer_length' - 1 -> Nat]
      BY <2>1, FilledHolds
    <3>3. fed' \in Nat /\ mute' \in {0, 1}
      BY <2>1, <2>2 DEF IndInv, TypeOK
    <3>4. aqueue' \in Seq(Block')
      BY <2>1, <2>7 DEF Block
    <3> QED
      BY <2>5, <3>1, <3>2, <3>3, <3>4 DEF TypeOK
  <2>9. Pointers'
    BY <2>1, <2>2, <2>5, <2>6 DEF Pointers
  <2>10. Kept'
    <3>1. ptr_read_buffer' .. ptr_write_buffer' - 1
            \subseteq ptr_read_buffer .. ptr_write_buffer + in - 1
      <4>1. CASE Held + in < out
        BY <1>2, <2>2, <4>1, WriteHolds
      <4>2. CASE Held + in >= out
        BY <1>2, <2>2, <2>4, <4>2, WriteQueues
      <4> QED
        BY <2>2, <2>4, <4>1, <4>2
    <3>2. ptr_write_buffer' # 0 => ptr_write_buffer' = ptr_write_buffer + in
      BY <1>2, <2>2, <2>4, WriteHolds, WriteQueues
    <3>3. ASSUME NEW i \in ptr_read_buffer' .. ptr_write_buffer' - 1
          PROVE  i \in DOMAIN buffer' /\ buffer'[i] = fed' - (ptr_write_buffer' - 1 - i)
      <4>1. i \in ptr_read_buffer .. ptr_write_buffer + in - 1
        BY <3>1
      <4>2. i \in DOMAIN Filled /\ Filled[i] = fed + in - (ptr_write_buffer + in - 1 - i)
        BY <2>1, <4>1, FilledHolds
      <4>3. ptr_write_buffer' = ptr_write_buffer + in
        <5>1. CASE ptr_write_buffer' = 0
          BY <2>5, <3>3, <5>1
        <5> QED
          BY <3>2, <5>1
      <4>4. i \in DOMAIN buffer' /\ buffer'[i] = Filled[i]
        BY <2>1, <4>2, Zenon
      <4> QED
        BY <2>1, <2>2, <4>2, <4>3, <4>4
    <3>4. (Held \in 0 .. out - 1)'
      BY <2>1, <2>2, <2>5
    <3>5. Divides(out, fed - Held)'
      <4>1. Divides(out, fed - Held) /\ fed - Held \in Nat
        BY <2>2, <2>4 DEF IndInv, Kept
      <4>2. CASE Held + in < out
        <5>1. fed' - Held' = fed - Held
          BY <1>2, <2>1, <2>2, <4>2, WriteHolds DEF Held
        <5> QED
          BY <2>1, <4>1, <5>1
      <4>3. CASE Held + in >= out
        <5>1. fed' - Held' = (fed - Held) + out
          BY <1>2, <2>1, <2>2, <4>3, WriteQueues DEF Held
        <5>2. Divides(out, (fed - Held) + out)
          BY <2>2, <4>1, NextMultiple
        <5> QED
          BY <2>1, <5>1, <5>2
      <4> QED
        BY <2>2, <2>4, <4>2, <4>3
    <3> QED
      BY <3>3, <3>4, <3>5 DEF Kept
  <2> QED
    BY <1>0, <2>1, <2>2, <2>8, <2>9, <2>10 DEF IndInv
<1>3. CASE Pop
  <2>1. aqueue' \in Seq(Block)
    BY <1>3 DEF Pop, IndInv, TypeOK
  <2> QED
    BY <1>0, <1>3, <2>1 DEF Pop, IndInv, TypeOK, McmTypeOK, EuclidInv, Pointers, Kept, Held,
         mcmVars, Block
<1>4. CASE ToggleMute
  BY <1>0, <1>4 DEF ToggleMute, IndInv, TypeOK, McmTypeOK, EuclidInv, Pointers, Kept, Held,
       mcmVars, Block
<1>5. CASE UNCHANGED vars
  BY <1>0, <1>5 DEF vars, bufVars, IndInv, TypeOK, McmTypeOK, EuclidInv, Pointers, Kept,
       Held, mcmVars, Block
<1> QED
  BY <1>1, <1>2, <1>3, <1>4, <1>5 DEF Next

-----------------------------------------------------------------------------
\* IndInv holds throughout.
THEOREM Inductive == Spec => []IndInv
BY InitIndInv, IndInvStep, PTL DEF Spec

\* write_audio_buffer never copies a frame past the end of the buffer.
THEOREM NeverOverflows == Spec => []NoOverflow
BY Inductive, Fits, PTL

\* No byte is overwritten before it has been queued, and none stays behind.
THEOREM NothingLost == Spec => []Kept
<1>1. IndInv => Kept
  BY DEF IndInv
<1> QED
  BY <1>1, Inductive, PTL

\* The length mcm gives is a common multiple of the two sizes.
THEOREM LengthIsMultiple == Spec => []CommonMultiple
<1>1. IndInv => CommonMultiple
  BY DEF IndInv, EuclidInv
<1> QED
  BY <1>1, Inductive, PTL

-----------------------------------------------------------------------------
\* Every step is one of AudioRegroup, or none.
LEMMA RegroupStep ==
  ASSUME IndInv, [Next]_vars
  PROVE  [Regroup!Feed \/ Regroup!Play \/ Regroup!SwitchMute]_Regroup!regroupVars
<1>1. CASE Allocate
  BY <1>1 DEF Allocate, McmNext, Enter, Turn, Return, Regroup!regroupVars, Held
<1>2. CASE Write
  <2>1. /\ Held \in Int /\ fed \in Int /\ in \in Int /\ out \in Int
        /\ ptr_write_buffer \in Nat /\ ptr_read_buffer \in Nat
    BY <1>2, Room DEF Write, Held
  <2>2. UNCHANGED <<in, out, mute>> /\ fed' = fed + in
    BY <1>2 DEF Write, mcmVars
  <2>3. CASE Held + in < out
    <3>1. UNCHANGED aqueue /\ Held' = Held + in
      BY <1>2, <2>1, <2>3, WriteHolds DEF Held
    <3> QED
      BY <2>1, <2>2, <2>3, <3>1 DEF Regroup!Feed
  <2>4. CASE Held + in >= out
    <3>1. aqueue' = IF mute = 1 THEN aqueue
                    ELSE Append(aqueue, [k \in 1 .. out |-> fed - Held + k])
      BY <1>2, <2>4, WriteQueues
    <3>2. Held' = Held + in - out
      BY <1>2, <2>1, <2>4, WriteQueues DEF Held
    <3>3. fed' - Held' = fed - Held + out /\ fed' - (fed - Held) >= out
      BY <2>1, <2>2, <2>4, <3>2
    <3> QED
      BY <2>2, <3>1, <3>3 DEF Regroup!Feed, Regroup!Oldest
  <2> QED
    BY <2>1, <2>3, <2>4
<1>3. CASE Pop
  BY <1>3 DEF Pop, Regroup!Play, Held, mcmVars
<1>4. CASE ToggleMute
  BY <1>4 DEF ToggleMute, Regroup!SwitchMute, Held, mcmVars, IndInv, TypeOK
<1>5. CASE UNCHANGED vars
  BY <1>5 DEF vars, bufVars, mcmVars, Regroup!regroupVars, Held
<1> QED
  BY <1>1, <1>2, <1>3, <1>4, <1>5 DEF Next

\* It starts where AudioRegroup starts.
LEMMA RegroupInitially == Init => Regroup!RegroupInit
BY DEF Init, Regroup!RegroupInit, Held

\* What write_audio_buffer queues is what came, in order, each byte once, in
\* blocks of the size of the card: the buffer behaves as if it had no end.
THEOREM Regrouped == Spec => RegroupSpec
<1>1. IndInv /\ [Next]_vars =>
        [Regroup!Feed \/ Regroup!Play \/ Regroup!SwitchMute]_Regroup!regroupVars
  BY RegroupStep
<1> QED
  BY <1>1, RegroupInitially, Inductive, PTL DEF Spec, RegroupSpec, Regroup!RegroupSpec
=============================================================================
