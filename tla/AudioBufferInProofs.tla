------------------------ MODULE AudioBufferInProofs -------------------------
(***************************************************************************)
(* Proofs about AudioBufferIn, for every pair of block sizes: the block    *)
(* read_audio_buffer takes from the queue always fits into the buffer, the *)
(* frames it gives are the captured bytes in order, and the mute button    *)
(* takes whole blocks out of them.                                         *)
(***************************************************************************)
EXTENDS AudioBufferIn, McmProofs

\* The initial states satisfy the inductive invariant.
LEMMA InitIndInv == Init => IndInv
<1> SUFFICES ASSUME Init PROVE IndInv
  OBVIOUS
<1>1. EuclidInv
  BY EuclidInit DEF Init
<1>2. in \in Nat /\ in > 0 /\ out \in Nat /\ out > 0
  BY SizesAssumption DEF Init, McmInit
<1>3. TypeOK
  BY <1>1 DEF EuclidInv, TypeOK, Init, McmInit
<1>4. Divides(in, 0) /\ Divides(out, 0)
  BY <1>2, ZeroMultiple
<1>5. Pointers
  BY <1>2, <1>4 DEF Init, McmInit, Pointers, Held
<1> QED
  BY <1>1, <1>2, <1>3, <1>5 DEF IndInv, Init

\* The types and orders a call of read_audio_buffer starts from.
LEMMA Bounds ==
  ASSUME IndInv, mpc = "done"
  PROVE  /\ in \in Nat /\ in > 0 /\ out \in Nat /\ out > 0 /\ out <= in
         /\ buffer_length \in Nat /\ buffer_length > 0
         /\ ptr_write_buffer \in Nat /\ ptr_read_buffer \in Nat
         /\ ptr_read_buffer <= ptr_write_buffer /\ ptr_write_buffer <= buffer_length
         /\ Divides(in, buffer_length) /\ Divides(out, buffer_length)
<1>1. /\ in \in Nat /\ in > 0 /\ out \in Nat /\ out > 0 /\ out <= in
      /\ buffer_length \in Nat /\ buffer_length > 0
      /\ ptr_write_buffer \in Nat /\ ptr_read_buffer \in Nat
      /\ ptr_write_buffer <= buffer_length
      /\ Divides(in, buffer_length) /\ Divides(out, buffer_length)
  BY SizesAssumption DEF IndInv, TypeOK, McmTypeOK, EuclidInv, CommonMultiple, Pointers
<1>2. ptr_read_buffer <= ptr_write_buffer
  BY <1>1 DEF IndInv, Pointers, Held
<1> QED
  BY <1>1, <1>2

\* While the thread is in the call, mcm has returned and a block has room.
LEMMA RoomInCall ==
  ASSUME IndInv, tpc # "out"
  PROVE  mpc = "done" /\ ptr_write_buffer + in <= buffer_length
<1>1. mpc = "done"
  BY DEF IndInv, Pointers
<1>2. Divides(in, ptr_write_buffer) /\ ptr_write_buffer < buffer_length
  BY DEF IndInv, Pointers
<1> QED
  BY <1>1, <1>2, Bounds, RoomForOne

\* The no-overflow invariant follows.
LEMMA Fits == IndInv => NoOverflow
BY RoomInCall DEF NoOverflow

\* A frame that ends within the buffer is made of its bytes.
LEMMA FrameType ==
  ASSUME IndInv, mpc = "done", ptr_read_buffer + out <= buffer_length
  PROVE  [k \in 1 .. out |-> buffer[ptr_read_buffer + k - 1]] \in Seq(Nat)
<1>1. out \in Nat /\ ptr_read_buffer \in Nat /\ buffer_length \in Nat
  BY Bounds
<1>2. buffer \in [0 .. buffer_length - 1 -> Nat]
  BY DEF IndInv, TypeOK
<1>3. ASSUME NEW k \in 1 .. out PROVE buffer[ptr_read_buffer + k - 1] \in Nat
  <2>1. ptr_read_buffer + k - 1 \in 0 .. buffer_length - 1
    BY <1>1
  <2> QED
    BY <1>2, <2>1
<1> QED
  BY <1>1, <1>3

\* Every step keeps the inductive invariant.
LEMMA IndInvStep == IndInv /\ [Next]_vars => IndInv'
<1> SUFFICES ASSUME IndInv, [Next]_vars PROVE IndInv'
  OBVIOUS
<1>0. EuclidInv'
  <2>1. [McmNext]_mcmVars
    BY DEF Next, vars, Allocate, ReadHeld, ReadEmpty, Pop, Discard, Keep, Push, ToggleMute
  <2> QED
    BY <2>1, EuclidStep DEF IndInv
<1>1. CASE Allocate
  <2>1. mpc # "done" /\ in' = in /\ out' = out
    BY <1>1 DEF Allocate, McmNext, Enter, Turn, Return
  <2>2. /\ ptr_write_buffer' = 0 /\ ptr_read_buffer' = 0 /\ tpc' = "out"
        /\ frame' = <<>> /\ aqueue' = <<>> /\ mute' \in {0, 1} /\ captured' \in Nat
    BY <1>1, <2>1 DEF Allocate, IndInv, TypeOK, Pointers
  <2>3. buffer' \in [0 .. buffer_length' - 1 -> Nat]
    BY <1>1 DEF Allocate
  <2>4. TypeOK'
    BY <1>0, <2>2, <2>3 DEF EuclidInv, TypeOK
  <2>5. in \in Nat /\ out \in Nat /\ buffer_length' \in Nat
    BY <1>0, SizesAssumption DEF IndInv, TypeOK, McmTypeOK, EuclidInv
  <2>6. Divides(in, 0) /\ Divides(out, 0)
    BY <2>5, ZeroMultiple
  <2>7. Pointers'
    BY <2>1, <2>2, <2>5, <2>6 DEF Pointers, Held
  <2> QED
    BY <1>0, <2>1, <2>4, <2>7 DEF IndInv
<1>2. CASE ReadHeld
  <2>1. mpc = "done"
    BY <1>2 DEF ReadHeld
  <2>2. ptr_read_buffer + out <= ptr_write_buffer
    BY <1>2, <2>1, Bounds DEF ReadHeld
  <2>3. frame' \in Seq(Nat)
    BY <1>2, <2>1, <2>2, Bounds, FrameType DEF ReadHeld, Deliver
  <2>4. TypeOK'
    <3>1. ptr_write_buffer' \in Nat /\ ptr_read_buffer' \in Nat
      BY <1>2, <2>1, Bounds DEF ReadHeld, Deliver
    <3>2. UNCHANGED <<buffer, buffer_length, in, mute, aqueue, captured, tpc>> /\ McmTypeOK'
      BY <1>0, <1>2 DEF ReadHeld, EuclidInv, mcmVars
    <3> QED
      BY <2>3, <3>1, <3>2 DEF IndInv, TypeOK
  <2>5. Divides(out, ptr_read_buffer + out)
    BY <2>1, Bounds, NextMultiple DEF IndInv, Pointers
  <2>6. Held' >= 0
    BY <1>2, <2>1, <2>2, Bounds DEF ReadHeld, Deliver, Held
  <2>7. Pointers'
    BY <1>2, <2>1, <2>5, <2>6 DEF ReadHeld, Deliver, IndInv, Pointers, mcmVars
  <2> QED
    BY <1>0, <1>2, <2>4, <2>7 DEF ReadHeld, IndInv, mcmVars
<1>3. CASE ReadEmpty
  <2>1. mpc = "done" /\ tpc' = "pop"
    BY <1>3 DEF ReadEmpty
  <2>2. TypeOK'
    BY <1>0, <1>3 DEF ReadEmpty, IndInv, TypeOK, EuclidInv, mcmVars
  <2>3. CASE ptr_write_buffer = ptr_read_buffer
    <3>1. ptr_write_buffer' = 0 /\ ptr_read_buffer' = 0 /\ UNCHANGED mcmVars
      BY <1>3, <2>3 DEF ReadEmpty
    <3>2. Divides(in, 0) /\ Divides(out, 0)
      BY <2>1, Bounds, ZeroMultiple
    <3> QED
      BY <1>0, <2>1, <2>2, <3>1, <3>2, Bounds DEF IndInv, Pointers, Held, mcmVars
  <2>4. CASE ptr_write_buffer # ptr_read_buffer
    <3>1. UNCHANGED <<ptr_write_buffer, ptr_read_buffer, mcmVars>>
      BY <1>3, <2>4 DEF ReadEmpty
    <3>2. ptr_write_buffer < ptr_read_buffer + out
      BY <1>3, <2>1, Bounds DEF ReadEmpty
    <3>3. ptr_write_buffer < buffer_length
      <4>1. Divides(out, ptr_read_buffer)
        BY DEF IndInv, Pointers
      <4>2. ptr_write_buffer = buffer_length => ptr_read_buffer = buffer_length
        BY <2>1, <3>2, <4>1, Bounds, LastMultiple
      <4> QED
        BY <2>1, <2>4, <4>2, Bounds
    <3>4. Held < out
      BY <2>1, <3>2, Bounds DEF Held
    <3> QED
      BY <1>0, <2>1, <2>2, <3>1, <3>3, <3>4 DEF IndInv, Pointers, Held, mcmVars
  <2> QED
    BY <2>3, <2>4
<1>4. CASE Pop
  <2>1. mpc = "done" /\ ptr_write_buffer + in <= buffer_length
    BY <1>4, RoomInCall DEF Pop
  <2>2. Head(aqueue) \in [1 .. in -> Nat] /\ Tail(aqueue) \in Seq([1 .. in -> Nat])
    BY <1>4 DEF Pop, IndInv, TypeOK
  <2>3. buffer' \in [0 .. buffer_length - 1 -> Nat]
    <3>1. buffer \in [0 .. buffer_length - 1 -> Nat]
      BY DEF IndInv, TypeOK
    <3>2. ASSUME NEW i \in ptr_write_buffer .. ptr_write_buffer + in - 1
          PROVE  Head(aqueue)[i - ptr_write_buffer + 1] \in Nat
      <4>1. i - ptr_write_buffer + 1 \in 1 .. in
        BY <2>1, Bounds
      <4> QED
        BY <2>2, <4>1
    <3> QED
      BY <1>4, <3>1, <3>2 DEF Pop
  <2>4. TypeOK'
    BY <1>0, <1>4, <2>2, <2>3 DEF Pop, IndInv, TypeOK, EuclidInv, mcmVars
  <2> QED
    BY <1>0, <1>4, <2>1, <2>4 DEF Pop, IndInv, Pointers, Held, mcmVars
<1>5. CASE Discard
  BY <1>0, <1>5 DEF Discard, IndInv, TypeOK, EuclidInv, Pointers, Held, mcmVars
<1>6. CASE Keep
  <2>1. mpc = "done" /\ ptr_write_buffer + in <= buffer_length
    BY <1>6, RoomInCall DEF Keep
  <2>2. frame' \in Seq(Nat)
    BY <1>6, <2>1, Bounds, FrameType DEF Keep, Deliver
  <2>3. TypeOK'
    <3>1. ptr_write_buffer' \in Nat /\ ptr_read_buffer' \in Nat
      BY <1>6, <2>1, Bounds DEF Keep, Deliver
    <3> QED
      BY <1>0, <1>6, <2>2, <3>1 DEF Keep, IndInv, TypeOK, EuclidInv, mcmVars
  <2>4. Divides(in, ptr_write_buffer + in) /\ Divides(out, ptr_read_buffer + out)
    BY <2>1, Bounds, NextMultiple DEF IndInv, Pointers
  <2>5. Held' >= 0
    BY <1>6, <2>1, Bounds DEF Keep, Deliver, Held
  <2>6. Pointers'
    BY <1>6, <2>1, <2>4, <2>5 DEF Keep, Deliver, Pointers, mcmVars
  <2> QED
    BY <1>0, <1>6, <2>3, <2>6 DEF Keep, IndInv, mcmVars
<1>7. CASE Push
  <2>1. mpc = "done" /\ captured' \in Nat
    BY <1>7, Bounds DEF Push, IndInv, TypeOK
  <2>2. aqueue' \in Seq([1 .. in -> Nat])
    <3>1. [k \in 1 .. in |-> captured + k] \in [1 .. in -> Nat]
      BY DEF IndInv, TypeOK
    <3> QED
      BY <1>7, <3>1 DEF Push, IndInv, TypeOK
  <2>3. TypeOK'
    BY <1>0, <1>7, <2>1, <2>2 DEF Push, IndInv, TypeOK, EuclidInv, mcmVars
  <2> QED
    BY <1>0, <1>7, <2>1, <2>3 DEF Push, IndInv, Pointers, Held, mcmVars
<1>8. CASE ToggleMute
  BY <1>0, <1>8 DEF ToggleMute, IndInv, TypeOK, EuclidInv, Pointers, Held, mcmVars
<1>9. CASE UNCHANGED vars
  BY <1>0, <1>9 DEF vars, bufVars, IndInv, TypeOK, EuclidInv, Pointers, Held, mcmVars
<1> QED
  BY <1>1, <1>2, <1>3, <1>4, <1>5, <1>6, <1>7, <1>8, <1>9 DEF Next

-----------------------------------------------------------------------------
\* A block of the audio processor, and the queue of them.
Captured(s) == \E n \in 0 .. captured : Divides(in, n) /\ s = [k \in 1 .. in |-> n + k]
QueueInv ==
  /\ Divides(in, captured)
  /\ \A i \in DOMAIN aqueue : Captured(aqueue[i]) /\ aqueue[i][in] <= captured
  /\ \A i, j \in DOMAIN aqueue : i < j => aqueue[i][in] < aqueue[j][1]

\* x is one of the c bytes captured, from before those in the queue q.
Before(x, c, q) == x \in 1 .. c /\ \A i \in DOMAIN q : x < q[i][1]

\* The end of what is in the buffer, the block that may be thrown away included.
End == IF tpc = "check" THEN ptr_write_buffer + in ELSE ptr_write_buffer

\* What is held is in the order of capture, and ends with the end of a block.
StreamInv ==
  /\ \A i \in ptr_read_buffer .. End - 1 : i \in DOMAIN buffer /\ Before(buffer[i], captured, aqueue)
  /\ \A i \in ptr_read_buffer + 1 .. End - 1 : Follows(buffer[i - 1], buffer[i])
  /\ End > ptr_read_buffer => Divides(in, buffer[End - 1])
  /\ Held > 0 => Divides(in, buffer[ptr_write_buffer - 1])

\* It goes on where the last frame ended.
SentInv ==
  frame # <<>> =>
    /\ Len(frame) = out /\ Before(frame[out], captured, aqueue)
    /\ Held = 0 => Divides(in, frame[out])
    /\ End > ptr_read_buffer => Follows(frame[out], buffer[ptr_read_buffer])

ContentInv == QueueInv /\ StreamInv /\ SentInv

\* The remainder is what a number has more than the multiple below it.
LEMMA Remainder ==
  ASSUME NEW d \in Nat, d > 0, NEW m \in Nat, NEW n \in Nat,
         Divides(d, n), n <= m, m < n + d
  PROVE  m % d = m - n
<1>0. d # 0
  OBVIOUS
<1>1. m % d \in 0 .. d - 1 /\ m \div d \in Nat /\ m % d = m - d * (m \div d)
  BY <1>0, DivMod, Zenon
<1>2. PICK r \in Nat : r = d * (m \div d)
  BY <1>1
<1>3. Divides(d, r)
  BY <1>1, <1>2, Multiple
<1>4. r = m - (m % d) /\ r <= m /\ m < r + d
  BY <1>1, <1>2
<1>5. r = n
  <2>1. CASE r <= n
    BY <1>3, <1>4, <2>1, LastMultiple
  <2>2. CASE n <= r
    BY <1>3, <1>4, <2>2, LastMultiple
  <2> QED
    BY <2>1, <2>2
<1> QED
  BY <1>1, <1>4, <1>5

\* The first byte of a block may follow the last one of any earlier block.
LEMMA BlockFollows ==
  ASSUME in \in Nat, in > 0, NEW x \in Nat, Divides(in, x),
         NEW n \in Nat, Divides(in, n), x <= n
  PROVE  Follows(x, n + 1)
<1>1. x % in = 0
  BY Remainder
<1>2. (n + 1) % in = 1 % in
  <2>1. CASE in = 1
    <3>1. Divides(in, n + 1) /\ Divides(in, 0 + 1)
      BY <2>1, NextMultiple, ZeroMultiple
    <3>2. (n + 1) % in = 0 /\ 1 % in = 0
      BY <2>1, <3>1, Remainder
    <3> QED
      BY <3>2
  <2>2. CASE in > 1
    <3>1. Divides(in, 0)
      BY ZeroMultiple
    <3>2. (n + 1) % in = (n + 1) - n /\ 1 % in = 1 - 0
      BY <2>2, <3>1, Remainder
    <3> QED
      BY <3>2
  <2> QED
    BY <2>1, <2>2
<1> QED
  BY <1>1, <1>2 DEF Follows

\* Nothing has been captured.
LEMMA ContentInit == Init => ContentInv
<1> SUFFICES ASSUME Init PROVE ContentInv
  OBVIOUS
<1>1. in \in Nat
  BY SizesAssumption DEF Init, McmInit
<1>2. Divides(in, 0)
  BY <1>1, ZeroMultiple
<1> QED
  BY <1>1, <1>2 DEF Init, ContentInv, QueueInv, StreamInv, SentInv, End, Held

\* The audio processor queues what it has captured since.
LEMMA PushStep == ASSUME IndInv, ContentInv, Push PROVE ContentInv'
<1>0. /\ in \in Nat /\ in > 0 /\ captured \in Nat /\ in' = in
      /\ aqueue \in Seq([1 .. in -> Nat])
  BY Bounds DEF Push, IndInv, TypeOK, mcmVars
<1> DEFINE block == [k \in 1 .. in |-> captured + k]
<1>1. /\ aqueue' = Append(aqueue, block) /\ captured' = captured + in
      /\ block \in [1 .. in -> Nat] /\ block[1] = captured + 1 /\ block[in] = captured + in
  BY <1>0 DEF Push
<1>2. Captured(block)
  BY <1>0 DEF ContentInv, QueueInv, Captured
<1> HIDE DEF block
<1>3. /\ Len(aqueue') = Len(aqueue) + 1 /\ DOMAIN aqueue' = 1 .. Len(aqueue) + 1
      /\ DOMAIN aqueue = 1 .. Len(aqueue) /\ Len(aqueue) \in Nat
      /\ \A i \in DOMAIN aqueue : aqueue'[i] = aqueue[i]
      /\ aqueue'[Len(aqueue) + 1] = block
  BY <1>0, <1>1
<1>4. \A i \in DOMAIN aqueue : aqueue[i] \in [1 .. in -> Nat] /\ aqueue[i][in] \in Nat
  BY <1>0
<1>5. QueueInv'
  <2>1. Divides(in, captured + in)
    BY <1>0, NextMultiple DEF ContentInv, QueueInv
  <2>2. \A i \in DOMAIN aqueue' : Captured(aqueue'[i]) /\ aqueue'[i][in] <= captured'
    BY <1>0, <1>1, <1>2, <1>3, <1>4 DEF ContentInv, QueueInv
  <2>3. \A i, j \in DOMAIN aqueue' : i < j => aqueue'[i][in] < aqueue'[j][1]
    <3> SUFFICES ASSUME NEW i \in DOMAIN aqueue', NEW j \in DOMAIN aqueue', i < j
                 PROVE  aqueue'[i][in] < aqueue'[j][1]
      OBVIOUS
    <3>1. i \in DOMAIN aqueue /\ aqueue'[i] = aqueue[i]
      BY <1>3
    <3>2. CASE j \in DOMAIN aqueue
      BY <1>3, <3>1, <3>2 DEF ContentInv, QueueInv
    <3>3. CASE j = Len(aqueue) + 1
      BY <1>0, <1>1, <1>3, <1>4, <3>1, <3>3 DEF ContentInv, QueueInv
    <3> QED
      BY <1>3, <3>2, <3>3
  <2>4. ASSUME NEW i \in DOMAIN aqueue'
        PROVE  \E n \in 0 .. captured' : Divides(in', n) /\ aqueue'[i] = [k \in 1 .. in' |-> n + k]
    <3>1. PICK n \in 0 .. captured : Divides(in, n) /\ aqueue'[i] = [k \in 1 .. in |-> n + k]
      BY <2>2, <2>4 DEF Captured
    <3>2. n \in 0 .. captured'
      BY <1>0, <1>1
    <3> QED
      BY <1>0, <3>1, <3>2
  <2> QED
    BY <1>0, <1>1, <2>1, <2>2, <2>3, <2>4 DEF QueueInv, Captured
<1>6. ASSUME NEW x, Before(x, captured, aqueue) PROVE Before(x, captured', aqueue')
  BY <1>0, <1>1, <1>3, <1>6 DEF Before
<1>7. /\ UNCHANGED <<ptr_write_buffer, ptr_read_buffer, buffer, tpc, frame, in, out>>
      /\ End' = End /\ Held' = Held
  BY DEF Push, mcmVars, End, Held
<1>8. StreamInv'
  BY <1>6, <1>7 DEF ContentInv, StreamInv, Follows
<1>9. SentInv'
  BY <1>6, <1>7 DEF ContentInv, SentInv, Follows
<1> QED
  BY <1>5, <1>8, <1>9 DEF ContentInv

\* A block is taken from the queue and copied behind what is held.
LEMMA PopStep == ASSUME IndInv, ContentInv, Pop PROVE ContentInv'
<1>0. /\ in \in Nat /\ in > 0 /\ out \in Nat /\ out > 0 /\ captured \in Nat /\ buffer_length \in Nat
      /\ ptr_write_buffer \in Nat /\ ptr_read_buffer \in Nat
      /\ ptr_read_buffer <= ptr_write_buffer /\ ptr_write_buffer + in <= buffer_length
      /\ buffer \in [0 .. buffer_length - 1 -> Nat]
      /\ aqueue \in Seq([1 .. in -> Nat]) /\ aqueue # <<>> /\ frame \in Seq(Nat)
      /\ tpc = "pop"
  BY RoomInCall, Bounds DEF Pop, IndInv, TypeOK
<1>1. /\ UNCHANGED <<in, out, ptr_write_buffer, ptr_read_buffer, captured, frame>>
      /\ tpc' = "check" /\ aqueue' = Tail(aqueue)
      /\ End = ptr_write_buffer /\ End' = ptr_write_buffer + in /\ Held' = Held
  BY <1>0 DEF Pop, mcmVars, End, Held
<1>2. /\ DOMAIN aqueue = 1 .. Len(aqueue) /\ Len(aqueue) \in Nat /\ Len(aqueue) > 0
      /\ DOMAIN aqueue' = 1 .. Len(aqueue) - 1
      /\ \A i \in DOMAIN aqueue' : i + 1 \in DOMAIN aqueue /\ aqueue'[i] = aqueue[i + 1]
      /\ Head(aqueue) = aqueue[1]
  BY <1>0, <1>1
<1>3. PICK n \in 0 .. captured : Divides(in, n) /\ aqueue[1] = [k \in 1 .. in |-> n + k]
  <2>1. 1 \in DOMAIN aqueue
    BY <1>2
  <2>2. Captured(aqueue[1])
    BY <2>1 DEF ContentInv, QueueInv
  <2> QED
    BY <2>2 DEF Captured
<1>4. aqueue[1][1] = n + 1 /\ aqueue[1][in] = n + in /\ n + in <= captured
  <2>1. 1 \in DOMAIN aqueue /\ 1 \in 1 .. in /\ in \in 1 .. in
    BY <1>0, <1>2
  <2>2. aqueue[1][1] = n + 1 /\ aqueue[1][in] = n + in
    BY <1>3, <2>1
  <2>3. aqueue[1][in] <= captured
    BY <2>1 DEF ContentInv, QueueInv
  <2> QED
    BY <2>2, <2>3
<1>5. QueueInv'
  <2>1. Divides(in', captured')
    BY <1>1 DEF ContentInv, QueueInv
  <2>2. ASSUME NEW i \in DOMAIN aqueue'
        PROVE  /\ \E m \in 0 .. captured' : Divides(in', m) /\ aqueue'[i] = [k \in 1 .. in' |-> m + k]
               /\ aqueue'[i][in'] <= captured'
    <3>1. i + 1 \in DOMAIN aqueue /\ aqueue'[i] = aqueue[i + 1]
      BY <1>2, <2>2
    <3>2. Captured(aqueue[i + 1]) /\ aqueue[i + 1][in] <= captured
      BY <3>1 DEF ContentInv, QueueInv
    <3> QED
      BY <1>1, <3>1, <3>2 DEF Captured
  <2>3. ASSUME NEW i \in DOMAIN aqueue', NEW j \in DOMAIN aqueue', i < j
        PROVE  aqueue'[i][in'] < aqueue'[j][1]
    <3>1. /\ i + 1 \in DOMAIN aqueue /\ aqueue'[i] = aqueue[i + 1]
          /\ j + 1 \in DOMAIN aqueue /\ aqueue'[j] = aqueue[j + 1]
      BY <1>2
    <3>2. i + 1 < j + 1
      BY <1>2, <2>3
    <3>3. aqueue[i + 1][in] < aqueue[j + 1][1]
      BY <3>1, <3>2 DEF ContentInv, QueueInv
    <3> QED
      BY <1>1, <3>1, <3>3
  <2> QED
    BY <2>1, <2>2, <2>3 DEF QueueInv, Captured
<1>6. ASSUME NEW x, Before(x, captured, aqueue) PROVE Before(x, captured', aqueue') /\ x \in Nat /\ x <= n
  <2>1. x \in 1 .. captured /\ x < n + 1
    BY <1>2, <1>4, <1>6 DEF Before
  <2>2. \A i \in DOMAIN aqueue' : x < aqueue'[i][1]
    BY <1>2, <1>6 DEF Before
  <2> QED
    BY <1>0, <1>1, <2>1, <2>2 DEF Before
<1>7. ASSUME NEW k \in 1 .. in PROVE Before(n + k, captured', aqueue')
  <2>1. n + k \in 1 .. captured'
    BY <1>0, <1>1, <1>3, <1>4, <1>7
  <2>2. ASSUME NEW i \in DOMAIN aqueue' PROVE n + k < aqueue'[i][1]
    <3>1. i + 1 \in DOMAIN aqueue /\ aqueue'[i] = aqueue[i + 1] /\ 1 \in DOMAIN aqueue /\ 1 < i + 1
      BY <1>2, <2>2
    <3>2. aqueue[1][in] < aqueue[i + 1][1]
      BY <3>1 DEF ContentInv, QueueInv
    <3>3. aqueue[i + 1] \in [1 .. in -> Nat]
      BY <1>0, <3>1
    <3>4. aqueue[i + 1][1] \in Nat
      BY <1>0, <3>3
    <3> QED
      BY <1>0, <1>3, <1>4, <1>7, <3>1, <3>2, <3>4, SMTT(30)
  <2> QED
    BY <2>1, <2>2 DEF Before
<1>8. /\ DOMAIN buffer' = 0 .. buffer_length - 1
      /\ \A i \in ptr_read_buffer .. ptr_write_buffer - 1 : buffer'[i] = buffer[i]
      /\ \A i \in ptr_write_buffer .. ptr_write_buffer + in - 1 :
           buffer'[i] = n + (i - ptr_write_buffer + 1)
  <2>1. DOMAIN buffer = 0 .. buffer_length - 1
    BY <1>0
  <2>2. buffer' = [i \in 0 .. buffer_length - 1 |->
                     IF i \in ptr_write_buffer .. ptr_write_buffer + in - 1
                     THEN aqueue[1][i - ptr_write_buffer + 1] ELSE buffer[i]]
    BY <1>2, <2>1 DEF Pop
  <2>3. ASSUME NEW i \in ptr_write_buffer .. ptr_write_buffer + in - 1
        PROVE  buffer'[i] = n + (i - ptr_write_buffer + 1)
    <3>1. i \in 0 .. buffer_length - 1 /\ i - ptr_write_buffer + 1 \in 1 .. in
      BY <1>0
    <3> QED
      BY <1>3, <2>2, <3>1
  <2>4. ASSUME NEW i \in ptr_read_buffer .. ptr_write_buffer - 1 PROVE buffer'[i] = buffer[i]
    <3>1. i \in 0 .. buffer_length - 1 /\ i \notin ptr_write_buffer .. ptr_write_buffer + in - 1
      BY <1>0
    <3> QED
      BY <2>2, <3>1
  <2> QED
    BY <2>2, <2>3, <2>4
<1>9. ASSUME NEW i \in ptr_read_buffer .. ptr_write_buffer - 1
      PROVE  Before(buffer[i], captured, aqueue)
  BY <1>1, <1>9 DEF ContentInv, StreamInv
<1>10. StreamInv'
  <2>1. ASSUME NEW i \in ptr_read_buffer .. ptr_write_buffer + in - 1
        PROVE  i \in DOMAIN buffer' /\ Before(buffer'[i], captured', aqueue')
    <3>1. i \in DOMAIN buffer'
      BY <1>0, <1>8
    <3>2. CASE i < ptr_write_buffer
      <4>1. i \in ptr_read_buffer .. ptr_write_buffer - 1
        BY <1>0, <3>2
      <4> QED
        BY <1>6, <1>8, <1>9, <3>1, <4>1
    <3>3. CASE i >= ptr_write_buffer
      <4>1. i \in ptr_write_buffer .. ptr_write_buffer + in - 1 /\ i - ptr_write_buffer + 1 \in 1 .. in
        BY <1>0, <3>3
      <4> QED
        BY <1>7, <1>8, <3>1, <4>1
    <3> QED
      BY <1>0, <3>2, <3>3
  <2>2. ASSUME NEW i \in ptr_read_buffer + 1 .. ptr_write_buffer + in - 1
        PROVE  Follows(buffer'[i - 1], buffer'[i])
    <3>1. CASE i < ptr_write_buffer
      <4>1. /\ i \in ptr_read_buffer + 1 .. ptr_write_buffer - 1
            /\ i \in ptr_read_buffer .. ptr_write_buffer - 1
            /\ i - 1 \in ptr_read_buffer .. ptr_write_buffer - 1
        BY <1>0, <3>1
      <4>2. Follows(buffer[i - 1], buffer[i])
        BY <1>1, <4>1 DEF ContentInv, StreamInv
      <4> QED
        BY <1>8, <4>1, <4>2
    <3>2. CASE i = ptr_write_buffer
      <4>1. /\ i - 1 \in ptr_read_buffer .. ptr_write_buffer - 1
            /\ i \in ptr_write_buffer .. ptr_write_buffer + in - 1
            /\ Held > 0
        BY <1>0, <3>2 DEF Held
      <4>2. Divides(in, buffer[i - 1])
        BY <3>2, <4>1 DEF ContentInv, StreamInv
      <4>3. buffer[i - 1] \in Nat /\ buffer[i - 1] <= n
        BY <1>6, <1>9, <4>1
      <4>4. Follows(buffer[i - 1], n + 1)
        BY <1>0, <1>3, <4>2, <4>3, BlockFollows
      <4>5. buffer'[i - 1] = buffer[i - 1] /\ buffer'[i] = n + 1
        BY <1>0, <1>3, <1>8, <3>2, <4>1, SMTT(30)
      <4> QED
        BY <4>4, <4>5
    <3>3. CASE i > ptr_write_buffer
      <4>1. /\ i - 1 \in ptr_write_buffer .. ptr_write_buffer + in - 1
            /\ i \in ptr_write_buffer .. ptr_write_buffer + in - 1
        BY <1>0, <3>3
      <4>2. buffer'[i] = buffer'[i - 1] + 1
        BY <1>0, <1>3, <1>8, <4>1
      <4> QED
        BY <4>2 DEF Follows
    <3> QED
      BY <1>0, <3>1, <3>2, <3>3
  <2>3. Divides(in, buffer'[ptr_write_buffer + in - 1])
    <3>1. buffer'[ptr_write_buffer + in - 1] = n + in
      BY <1>0, <1>3, <1>8
    <3> QED
      BY <1>0, <1>3, <3>1, NextMultiple
  <2>4. Held > 0 => Divides(in, buffer'[ptr_write_buffer - 1])
    <3>1. Held > 0 => ptr_write_buffer - 1 \in ptr_read_buffer .. ptr_write_buffer - 1
      BY <1>0 DEF Held
    <3> QED
      BY <1>8, <3>1 DEF ContentInv, StreamInv
  <2>5. UNCHANGED <<in, ptr_write_buffer, ptr_read_buffer>> /\ Held' = Held /\ End' = ptr_write_buffer + in
    BY <1>1
  <2>6. (End > ptr_read_buffer => Divides(in, buffer[End - 1]))'
    BY <1>0, <2>3, <2>5
  <2>7. (Held > 0 => Divides(in, buffer[ptr_write_buffer - 1]))'
    BY <2>4, <2>5
  <2>8. (\A i \in ptr_read_buffer .. End - 1 : i \in DOMAIN buffer /\ Before(buffer[i], captured, aqueue))'
    BY <1>0, <2>1, <2>5
  <2>9. (\A i \in ptr_read_buffer + 1 .. End - 1 : Follows(buffer[i - 1], buffer[i]))'
    BY <1>0, <2>2, <2>5 DEF Follows
  <2> QED
    BY <2>6, <2>7, <2>8, <2>9 DEF StreamInv
<1>11. SentInv'
  <2> SUFFICES ASSUME frame # <<>>
               PROVE  /\ Len(frame) = out /\ Before(frame[out], captured', aqueue')
                      /\ Held = 0 => Divides(in, frame[out])
                      /\ Follows(frame[out], buffer'[ptr_read_buffer])
    BY <1>1 DEF SentInv, Follows
  <2>1. /\ Len(frame) = out /\ Before(frame[out], captured, aqueue)
        /\ Held = 0 => Divides(in, frame[out])
    BY DEF ContentInv, SentInv
  <2>2. Before(frame[out], captured', aqueue') /\ frame[out] \in Nat /\ frame[out] <= n
    BY <1>6, <2>1
  <2>3. Follows(frame[out], buffer'[ptr_read_buffer])
    <3>1. CASE Held = 0
      <4>1. ptr_read_buffer = ptr_write_buffer
        BY <1>0, <3>1 DEF Held
      <4>2. buffer'[ptr_read_buffer] = n + 1
        BY <1>0, <1>3, <1>8, <4>1
      <4>3. Follows(frame[out], n + 1)
        BY <1>0, <1>3, <2>1, <2>2, <3>1, BlockFollows
      <4> QED
        BY <4>2, <4>3
    <3>2. CASE Held # 0
      <4>1. ptr_read_buffer < ptr_write_buffer
        BY <1>0, <3>2 DEF Held
      <4>2. ptr_read_buffer \in ptr_read_buffer .. ptr_write_buffer - 1
        BY <1>0, <4>1
      <4> QED
        BY <1>1, <1>8, <4>1, <4>2 DEF ContentInv, SentInv
    <3> QED
      BY <3>1, <3>2
  <2> QED
    BY <2>1, <2>2, <2>3
<1> QED
  BY <1>5, <1>10, <1>11 DEF ContentInv

\* A frame that ends within what is held is the next one of the stream.
LEMMA DeliverStep ==
  ASSUME IndInv, ContentInv, mpc = "done", Deliver(End), End' = End,
         ptr_read_buffer + out <= End, End <= buffer_length,
         UNCHANGED <<mcmVars, buffer, captured, aqueue>>
  PROVE  /\ ContentInv'
         /\ \A k \in 1 .. out : frame'[k] \in 1 .. captured
         /\ \A k \in 2 .. out : Follows(frame'[k - 1], frame'[k])
         /\ frame # <<>> => Follows(frame[Len(frame)], frame'[1])
<1>0. /\ in \in Nat /\ in > 0 /\ out \in Nat /\ out > 0 /\ buffer_length \in Nat
      /\ ptr_read_buffer \in Nat /\ End \in Nat
      /\ UNCHANGED <<in, out, buffer, captured, aqueue>>
  BY Bounds DEF mcmVars, End
<1>1. /\ frame' = [k \in 1 .. out |-> buffer[ptr_read_buffer + k - 1]]
      /\ ptr_write_buffer' = End /\ ptr_read_buffer' = ptr_read_buffer + out
      /\ Held' = End - (ptr_read_buffer + out)
  BY DEF Deliver, Held
<1>2. frame' \in Seq(Nat) /\ Len(frame') = out /\ frame' # <<>>
  <2>1. frame' \in Seq(Nat)
    <3>1. ptr_read_buffer + out <= buffer_length
      BY <1>0
    <3> QED
      BY <1>1, <3>1, FrameType
  <2>2. DOMAIN frame' = 1 .. out
    BY <1>1
  <2> QED
    BY <1>0, <2>1, <2>2
<1>3. ASSUME NEW i \in ptr_read_buffer .. End - 1 PROVE i \in DOMAIN buffer /\ Before(buffer[i], captured, aqueue)
  BY <1>3 DEF ContentInv, StreamInv
<1>4. ASSUME NEW i \in ptr_read_buffer + 1 .. End - 1 PROVE Follows(buffer[i - 1], buffer[i])
  BY <1>4 DEF ContentInv, StreamInv
<1>5. ASSUME NEW k \in 1 .. out
      PROVE  /\ ptr_read_buffer + k - 1 \in ptr_read_buffer .. End - 1
             /\ frame'[k] = buffer[ptr_read_buffer + k - 1] /\ Before(frame'[k], captured, aqueue)
  <2>1. ptr_read_buffer + k - 1 \in ptr_read_buffer .. End - 1
    BY <1>0
  <2> QED
    BY <1>1, <1>3, <2>1
<1>6. \A k \in 1 .. out : frame'[k] \in 1 .. captured
  BY <1>5 DEF Before
<1>7. ASSUME NEW k \in 2 .. out PROVE Follows(frame'[k - 1], frame'[k])
  <2>1. /\ k \in 1 .. out /\ k - 1 \in 1 .. out
        /\ ptr_read_buffer + k - 1 \in ptr_read_buffer + 1 .. End - 1
        /\ ptr_read_buffer + (k - 1) - 1 = (ptr_read_buffer + k - 1) - 1
    BY <1>0
  <2>2. Follows(buffer[(ptr_read_buffer + k - 1) - 1], buffer[ptr_read_buffer + k - 1])
    BY <1>4, <2>1
  <2>3. /\ frame'[k] = buffer[ptr_read_buffer + k - 1]
        /\ frame'[k - 1] = buffer[(ptr_read_buffer + k - 1) - 1]
    BY <1>5, <2>1
  <2> QED
    BY <2>2, <2>3
<1>8. frame # <<>> => Follows(frame[Len(frame)], frame'[1])
  <2>1. End > ptr_read_buffer
    BY <1>0
  <2>2. frame'[1] = buffer[ptr_read_buffer]
    BY <1>0, <1>1
  <2> QED
    BY <2>1, <2>2 DEF ContentInv, SentInv
<1>9. frame'[out] = buffer[ptr_read_buffer + out - 1] /\ Before(frame'[out], captured, aqueue)
  BY <1>0, <1>5
<1>10. QueueInv'
  BY <1>0 DEF ContentInv, QueueInv, Captured
<1>11. \A x : Before(x, captured', aqueue') <=> Before(x, captured, aqueue)
  BY <1>0 DEF Before
<1>12. StreamInv'
  <2>1. ASSUME NEW i \in ptr_read_buffer' .. End' - 1 PROVE i \in DOMAIN buffer' /\ Before(buffer'[i], captured', aqueue')
    <3>1. i \in ptr_read_buffer .. End - 1
      BY <1>0, <1>1
    <3> QED
      BY <1>0, <1>3, <1>11, <3>1
  <2>2. ASSUME NEW i \in ptr_read_buffer' + 1 .. End' - 1 PROVE Follows(buffer'[i - 1], buffer'[i])
    <3>1. i \in ptr_read_buffer + 1 .. End - 1
      BY <1>0, <1>1
    <3> QED
      BY <1>0, <1>4, <3>1
  <2>3. Divides(in, buffer[End - 1])
    BY <1>0 DEF ContentInv, StreamInv
  <2> QED
    BY <1>0, <1>1, <2>1, <2>2, <2>3 DEF StreamInv, Follows
<1>13. SentInv'
  <2>1. Held' = 0 => Divides(in, frame'[out])
    <3>1. Held' = 0 => ptr_read_buffer + out - 1 = End - 1
      BY <1>0, <1>1
    <3>2. Divides(in, buffer[End - 1])
      BY <1>0 DEF ContentInv, StreamInv
    <3> QED
      BY <1>9, <3>1, <3>2
  <2>2. End' > ptr_read_buffer' => Follows(frame'[out], buffer'[ptr_read_buffer'])
    <3> SUFFICES ASSUME End' > ptr_read_buffer'
                 PROVE  Follows(frame'[out], buffer'[ptr_read_buffer'])
      OBVIOUS
    <3>1. /\ ptr_read_buffer + out \in ptr_read_buffer + 1 .. End - 1
      BY <1>0, <1>1
    <3> QED
      BY <1>0, <1>1, <1>4, <1>9, <3>1
  <2> QED
    BY <1>0, <1>2, <1>9, <1>11, <2>1, <2>2 DEF SentInv, Follows
<1> QED
  BY <1>6, <1>7, <1>8, <1>10, <1>12, <1>13 DEF ContentInv

\* Steps that move nothing that is held.
LEMMA ContentKept ==
  ASSUME IndInv, ContentInv,
         UNCHANGED <<ptr_write_buffer, ptr_read_buffer, buffer, captured, aqueue, frame, in, out>>,
         tpc' = tpc \/ (tpc # "check" /\ tpc' # "check")
  PROVE  ContentInv'
<1>1. End' = End /\ Held' = Held
  BY DEF End, Held
<1> QED
  BY <1>1 DEF ContentInv, QueueInv, StreamInv, SentInv, Before, Captured, Follows

\* A muted block is thrown away: what was held before it is as it was.
LEMMA DiscardStep == ASSUME IndInv, ContentInv, Discard PROVE ContentInv'
<1>0. /\ in \in Nat /\ in > 0 /\ ptr_write_buffer \in Nat /\ ptr_read_buffer \in Nat
      /\ ptr_read_buffer <= ptr_write_buffer /\ tpc = "check" /\ tpc' = "pop"
  BY RoomInCall, Bounds DEF Discard
<1>1. /\ UNCHANGED <<ptr_write_buffer, ptr_read_buffer, buffer, captured, aqueue, frame, in, out>>
      /\ End = ptr_write_buffer + in /\ End' = ptr_write_buffer /\ Held' = Held
  BY <1>0 DEF Discard, mcmVars, End, Held
<1>2. End' - 1 <= End - 1 /\ (End' > ptr_read_buffer => Held > 0 /\ End > ptr_read_buffer)
  BY <1>0, <1>1 DEF Held
<1>3. \A x : Before(x, captured', aqueue') <=> Before(x, captured, aqueue)
  BY <1>1 DEF Before
<1>4. StreamInv'
  <2>1. /\ \A i \in ptr_read_buffer .. ptr_write_buffer - 1 : i \in ptr_read_buffer .. End - 1
        /\ \A i \in ptr_read_buffer + 1 .. ptr_write_buffer - 1 : i \in ptr_read_buffer + 1 .. End - 1
    BY <1>0, <1>1
  <2>2. \A i \in ptr_read_buffer .. ptr_write_buffer - 1 : i \in DOMAIN buffer /\ Before(buffer[i], captured, aqueue)
    BY <2>1 DEF ContentInv, StreamInv
  <2>3. \A i \in ptr_read_buffer + 1 .. ptr_write_buffer - 1 : Follows(buffer[i - 1], buffer[i])
    BY <2>1 DEF ContentInv, StreamInv
  <2>4. Held > 0 => Divides(in, buffer[ptr_write_buffer - 1])
    BY DEF ContentInv, StreamInv
  <2> QED
    BY <1>1, <1>2, <1>3, <2>2, <2>3, <2>4 DEF StreamInv, Follows
<1>5. SentInv'
  BY <1>1, <1>2, <1>3 DEF ContentInv, SentInv, Follows
<1>6. QueueInv'
  BY <1>1 DEF ContentInv, QueueInv, Captured
<1> QED
  BY <1>4, <1>5, <1>6 DEF ContentInv

\* The pointers return to the beginning with nothing held.
LEMMA ReadEmptyStep == ASSUME IndInv, ContentInv, ReadEmpty PROVE ContentInv'
<1>1. CASE ptr_write_buffer # ptr_read_buffer
  BY <1>1, ContentKept DEF ReadEmpty, mcmVars
<1>2. CASE ptr_write_buffer = ptr_read_buffer
  <2>1. /\ UNCHANGED <<buffer, captured, aqueue, frame, in, out>>
        /\ ptr_write_buffer' = 0 /\ ptr_read_buffer' = 0 /\ End' = 0 /\ Held' = 0 /\ Held = 0
    BY <1>2, Bounds DEF ReadEmpty, mcmVars, End, Held
  <2>2. \A x : Before(x, captured', aqueue') <=> Before(x, captured, aqueue)
    BY <2>1 DEF Before
  <2>3. StreamInv'
    BY <2>1 DEF StreamInv
  <2>4. SentInv'
    BY <2>1, <2>2 DEF ContentInv, SentInv
  <2>5. QueueInv'
    BY <2>1 DEF ContentInv, QueueInv, Captured
  <2> QED
    BY <2>3, <2>4, <2>5 DEF ContentInv
<1> QED
  BY <1>1, <1>2

\* What the call gives, whether it had a frame or kept a block.
LEMMA FrameStep ==
  ASSUME IndInv, ContentInv, ReadHeld \/ Keep
  PROVE  /\ ContentInv'
         /\ \A k \in 1 .. out : frame'[k] \in 1 .. captured
         /\ \A k \in 2 .. out : Follows(frame'[k - 1], frame'[k])
         /\ frame # <<>> => Follows(frame[Len(frame)], frame'[1])
<1>1. CASE ReadHeld
  <2>1. /\ mpc = "done" /\ End = ptr_write_buffer /\ Deliver(End) /\ End' = End
        /\ UNCHANGED <<mcmVars, buffer, captured, aqueue>>
    BY <1>1 DEF ReadHeld, Deliver, End
  <2>2. ptr_read_buffer + out <= End /\ End <= buffer_length
    BY <1>1, <2>1, Bounds DEF ReadHeld
  <2> QED
    BY <2>1, <2>2, DeliverStep
<1>2. CASE Keep
  <2>1. /\ mpc = "done" /\ End = ptr_write_buffer + in /\ Deliver(End) /\ End' = End
        /\ UNCHANGED <<mcmVars, buffer, captured, aqueue>>
    BY <1>2, RoomInCall DEF Keep, Deliver, End
  <2>2. ptr_read_buffer + out <= End /\ End <= buffer_length
    BY <1>2, <2>1, RoomInCall, Bounds DEF Keep
  <2> QED
    BY <2>1, <2>2, DeliverStep
<1> QED
  BY <1>1, <1>2

\* Every step keeps what is in the buffer.
LEMMA ContentStep == ASSUME IndInv, ContentInv, [Next]_vars PROVE ContentInv'
<1>1. CASE Allocate
  <2>1. /\ UNCHANGED <<ptr_write_buffer, ptr_read_buffer, captured, aqueue, frame, tpc, in, out>>
        /\ ptr_write_buffer = 0 /\ ptr_read_buffer = 0 /\ tpc = "out" /\ frame = <<>>
    BY <1>1 DEF Allocate, McmNext, Enter, Turn, Return, IndInv, Pointers
  <2>2. StreamInv' /\ SentInv'
    BY <2>1 DEF StreamInv, SentInv, End, Held
  <2>3. QueueInv'
    BY <2>1 DEF ContentInv, QueueInv, Captured
  <2> QED
    BY <2>2, <2>3 DEF ContentInv
<1>2. CASE ReadHeld \/ Keep
  BY <1>2, FrameStep
<1>3. CASE ToggleMute \/ UNCHANGED vars
  BY <1>3, ContentKept DEF ToggleMute, vars, bufVars, mcmVars
<1> QED
  BY <1>1, <1>2, <1>3, PushStep, PopStep, DiscardStep, ReadEmptyStep DEF Next

-----------------------------------------------------------------------------
\* IndInv holds throughout.
THEOREM Inductive == Spec => []IndInv
BY InitIndInv, IndInvStep, PTL DEF Spec

\* read_audio_buffer never lets a block run past the end of the buffer.
THEOREM NeverOverflows == Spec => []NoOverflow
BY Inductive, Fits, PTL

\* What the buffer and the queue hold is what was captured, in order.
THEOREM ContentHolds == Spec => []ContentInv
BY ContentInit, ContentStep, Inductive, PTL DEF Spec

\* No byte that is held is overwritten, repeated or out of order.
THEOREM NothingLost == Spec => []Kept
<1>1. ASSUME IndInv, ContentInv PROVE Kept
  <2>1. CASE mpc # "done"
    BY <1>1, <2>1 DEF IndInv, Pointers, Kept, Held
  <2>2. CASE mpc = "done"
    <3>1. /\ ptr_read_buffer \in Nat /\ ptr_write_buffer \in Nat /\ in \in Nat
          /\ ptr_read_buffer <= ptr_write_buffer
      BY <1>1, <2>2, Bounds
    <3>2. End \in Nat /\ ptr_write_buffer <= End
      BY <3>1 DEF End
    <3>3. /\ \A i \in ptr_read_buffer .. ptr_write_buffer - 1 : i \in ptr_read_buffer .. End - 1
          /\ \A i \in ptr_read_buffer + 1 .. ptr_write_buffer - 1 :
               i \in ptr_read_buffer + 1 .. End - 1
          /\ Held >= 0 /\ (Held > 0 => End > ptr_read_buffer)
      BY <3>1, <3>2 DEF Held
    <3>4. \A i \in ptr_read_buffer .. ptr_write_buffer - 1 : i \in DOMAIN buffer /\ buffer[i] > 0
      <4>1. \A x : Before(x, captured, aqueue) => x > 0
        BY DEF Before
      <4> QED
        BY <1>1, <3>3, <4>1 DEF ContentInv, StreamInv
    <3>5. \A i \in ptr_read_buffer + 1 .. ptr_write_buffer - 1 : Follows(buffer[i - 1], buffer[i])
      BY <1>1, <3>3 DEF ContentInv, StreamInv
    <3> QED
      BY <1>1, <3>3, <3>4, <3>5 DEF Kept, ContentInv, SentInv
  <2> QED
    BY <2>1, <2>2
<1> QED
  BY <1>1, Inductive, ContentHolds, PTL

\* Frames go out in the order of capture, and the mute button, pressed at any
\* point of the call, takes whole blocks out of them.
THEOREM MutingTearsNothing == Spec => WholeBlocks
<1> DEFINE Whole == frame' # frame =>
       /\ \A k \in 1 .. out : frame'[k] \in 1 .. captured
       /\ \A k \in 2 .. out : Follows(frame'[k - 1], frame'[k])
       /\ frame # <<>> => Follows(frame[Len(frame)], frame'[1])
<1>1. ASSUME IndInv, ContentInv, [Next]_vars PROVE Whole
  <2>1. CASE ReadHeld \/ Keep
    BY <1>1, <2>1, FrameStep
  <2>2. CASE ~(ReadHeld \/ Keep)
    BY <1>1, <2>2 DEF Next, Allocate, ReadEmpty, Pop, Discard, Push, ToggleMute, vars, bufVars
  <2> QED
    BY <2>1, <2>2
<1> QED
  BY <1>1, Inductive, ContentHolds, PTL DEF Spec, WholeBlocks
=============================================================================
