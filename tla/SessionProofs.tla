--------------------------- MODULE SessionProofs ----------------------------
(***************************************************************************)
(* Proofs about a session: its threads (SessionIo), and the database of    *)
(* sources that they call rtp.c with (RtpSources).                         *)
(*                                                                         *)
(* For any number of remotes, events and changes of codec, nothing is used *)
(* after it is freed, every BYE has a reason, the user's is not forgotten, *)
(* and the microphone stays as it was.  For any SSRCs, size of the table   *)
(* and of a packet, the chains are what is kept, counted and told, the     *)
(* reports are of sources that are kept, and each sender is reported on.   *)
(***************************************************************************)
EXTENDS SessionIo, RtpSources, SequenceTheorems, FiniteSetTheorems, WellFoundedInduction, TLAPS

-----------------------------------------------------------------------------
(* The threads of a session                                                *)
\* The initial states satisfy the inductive invariant.
LEMMA InitInv == Init => IndInv
<1> SUFFICES ASSUME Init PROVE IndInv
  OBVIOUS
<1>1. TypeOK
  <2>1. <<>> \in Seq(Events) /\ Len(<<>>) = 0
    OBVIOUS
  <2>2. qrtcp \in Seq(Events) /\ Len(qrtcp) \leq MaxEvents
    BY <2>1, BoundsAssumption DEF Init
  <2>3. num \in Int /\ changes \in 0..MaxChanges
    BY BoundsAssumption DEF Init
  <2> QED BY <2>2, <2>3, ZenonT(150) DEF Init, TypeOK
<1>2. Ended /\ ByeHasReason /\ ByeJustified /\ StopsByItself /\ HangUpIsKept /\ MuteIsSaved
  BY DEF Init, Ended, ByeHasReason, ByeJustified, StopsByItself, HangUpIsKept, MuteIsSaved, Starting
<1> QED BY <1>1, <1>2 DEF IndInv

\* An event put into the queue is an event, and there is room for it.
LEMMA PushType ==
  ASSUME TypeOK, NEW e \in Events, Push(e), Len(qrtcp) < MaxEvents
  PROVE  qrtcp' \in Seq(Events) /\ Len(qrtcp') \leq MaxEvents
<1>1. qrtcp \in Seq(Events) /\ MaxEvents \in Nat
  BY BoundsAssumption DEF TypeOK
<1>2. qrtcp' = Append(qrtcp, e)
  BY DEF Push
<1>3. qrtcp' \in Seq(Events) /\ Len(qrtcp') = Len(qrtcp) + 1 /\ Len(qrtcp) \in Nat
  BY <1>1, <1>2
<1> QED BY <1>1, <1>3

\* What a BYE puts into the queue.
LEMMA ByeEvents ==
  ASSUME TypeOK, NEW r \in Remotes, RxBye(r)
  PROVE  qrtcp' \in Seq(Events) /\ Len(qrtcp') \leq MaxEvents
<1>1. qrtcp \in Seq(Events) /\ MaxEvents \in Nat /\ Len(qrtcp) \in Nat
  BY BoundsAssumption DEF TypeOK
<1>2. Event("CREATED", r) \in Events /\ Event("BYE", r) \in Events
  BY DEF Event, Events
<1>3. CASE r \in known
  <2>1. qrtcp' = qrtcp \o <<>> \o <<Event("BYE", r)>>
    BY <1>3 DEF RxBye
  <2>2. qrtcp' \in Seq(Events) /\ Len(qrtcp') = Len(qrtcp) + 1
    BY <2>1, <1>1, <1>2
  <2>3. Len(qrtcp) + 1 < MaxEvents
    BY DEF RxBye
  <2> QED BY <2>2, <2>3, <1>1
<1>4. CASE r \notin known
  <2>1. qrtcp' = qrtcp \o <<Event("CREATED", r)>> \o <<Event("BYE", r)>>
    BY <1>4 DEF RxBye
  <2>2. qrtcp' \in Seq(Events) /\ Len(qrtcp') = Len(qrtcp) + 2
    BY <2>1, <1>1, <1>2
  <2>3. Len(qrtcp) + 1 < MaxEvents
    BY DEF RxBye
  <2> QED BY <2>2, <2>3, <1>1
<1> QED BY <1>3, <1>4

\* What is left of the queue when an event is taken.
LEMMA PopType ==
  ASSUME TypeOK, NEW type, Popped(type)
  PROVE  qrtcp' \in Seq(Events) /\ Len(qrtcp') \leq MaxEvents
<1>1. qrtcp \in Seq(Events) /\ qrtcp # <<>> /\ MaxEvents \in Nat /\ Len(qrtcp) \leq MaxEvents
  BY BoundsAssumption DEF TypeOK, Popped
<1>2. qrtcp' = Tail(qrtcp)
  BY DEF Popped
<1>3. qrtcp' \in Seq(Events) /\ Len(qrtcp') = Len(qrtcp) - 1 /\ Len(qrtcp) \in Nat
  BY <1>1, <1>2
<1> QED BY <1>1, <1>3

-----------------------------------------------------------------------------
(* The types, in parts: the flags, the places of the threads, and the rest.  *)

Flags ==
  /\ txProcess \in BOOLEAN /\ rxProcess \in BOOLEAN
  /\ process \in BOOLEAN /\ bye \in BOOLEAN /\ mute \in BOOLEAN
  /\ block \in BOOLEAN
  /\ heardBye \in BOOLEAN /\ timedOut \in BOOLEAN /\ change \in BOOLEAN /\ show \in BOOLEAN
  /\ button \in BOOLEAN /\ saved \in BOOLEAN
  /\ sent \in BOOLEAN /\ reason \in BOOLEAN /\ early \in BOOLEAN
  /\ stale \in BOOLEAN

Places ==
  /\ ctl \in {"setup", "starting", "first", "loop", "pop", "ctrl", "joinTx", "joinRx", "free", "end"}
  /\ tx \in {"off", "test", "read", "send", "end"}
  /\ rx \in {"off", "test", "recv", "end"}
  /\ gui \in {"idle", "hangFlags", "hangJoin", "codecJoin", "codecUnmute", "gone"}
  /\ failed \in {"no", "setup", "tx"}

Data ==
  /\ live \subseteq Remotes /\ known \subseteq Remotes
  /\ qrtcp \in Seq(Events) /\ Len(qrtcp) \leq MaxEvents
  /\ num \in Int
  /\ changes \in 0..MaxChanges

\* The parts make the whole, before and after a step.
LEMMA Parts == (TypeOK <=> Flags /\ Places /\ Data) /\ (TypeOK' <=> Flags' /\ Places' /\ Data')
BY Zenon DEF TypeOK, Flags, Places, Data

\* Every step keeps the flags.
LEMMA FlagsStep == TypeOK /\ [Next]_vars => Flags'
<1> SUFFICES ASSUME TypeOK, Flags, Places, Data, [Next]_vars PROVE Flags'
  BY Parts
<1> USE DEF threadVars, flagVars, rtpVars, infoVars, guiVars, pastVars, faultVars
<1>1. CASE Setup
  BY <1>1 DEF Setup, Flags
<1>2. CASE ClearBye
  BY <1>2, ZenonT(150) DEF ClearBye, Flags
<1>3. CASE Test
  BY <1>3 DEF Test, Flags
<1>4. CASE PopNothing
  BY <1>4 DEF PopNothing, Flags
<1>5. CASE HandleBye
  BY <1>5 DEF HandleBye, Popped, Flags
<1>6. CASE HandleCreated
  BY <1>6 DEF HandleCreated, Popped, Flags
<1>7. CASE HandleDeleted
  BY <1>7 DEF HandleDeleted, Popped, Flags
<1>8. CASE HandlePayload
  BY <1>8 DEF HandlePayload, Popped, Flags
<1>9. ASSUME NEW r \in Remotes, Expire(r) PROVE Flags'
  BY <1>9 DEF Expire, Flags
<1>10. CASE Updated
  BY <1>10 DEF Updated, Flags
<1>11. CASE JoinTx
  BY <1>11, ZenonT(150) DEF JoinTx, Flags
<1>12. CASE JoinRx
  BY <1>12 DEF JoinRx, Flags
<1>13. CASE Free
  BY <1>13, ZenonT(150) DEF Free, Flags
<1>14. CASE TxTest
  BY <1>14 DEF TxTest, Flags
<1>15. CASE TxRead
  BY <1>15, ZenonT(150) DEF TxRead, Flags
<1>16. CASE TxSend
  BY <1>16 DEF TxSend, Flags
<1>17. CASE RxTest
  BY <1>17 DEF RxTest, Flags
<1>18. CASE RxNothing
  BY <1>18 DEF RxNothing, Receiving, Flags
<1>19. ASSUME NEW r \in Remotes, RxFirst(r) PROVE Flags'
  BY <1>19 DEF RxFirst, Receiving, Flags
<1>20. ASSUME NEW r \in Remotes, RxPayload(r) PROVE Flags'
  BY <1>20 DEF RxPayload, Receiving, Flags
<1>21. ASSUME NEW r \in Remotes, RxBye(r) PROVE Flags'
  BY <1>21 DEF RxBye, Receiving, Flags
<1>22. ASSUME NEW r \in Remotes, Vanish(r) PROVE Flags'
  BY <1>22 DEF Vanish, Flags
<1>23. CASE Capture
  BY <1>23 DEF Capture, Flags
<1>24. CASE ToggleMute
  BY <1>24 DEF ToggleMute, Flags
<1>25. CASE Notify
  BY <1>25 DEF Notify, Flags
<1>26. CASE Cancel
  BY <1>26, ZenonT(150) DEF Cancel, Flags
<1>27. CASE HangUp
  BY <1>27 DEF HangUp, Flags
<1>28. CASE HangFlags
  BY <1>28, ZenonT(150) DEF HangFlags, Flags
<1>29. CASE HangJoin
  BY <1>29 DEF HangJoin, RtpDone, Flags
<1>30. CASE StopThreads
  BY <1>30, ZenonT(150) DEF StopThreads, Flags
<1>31. CASE Restart
  BY <1>31, ZenonT(150) DEF Restart, Flags
<1>32. CASE RestartFails
  BY <1>32 DEF RestartFails, RtpDone, Flags
<1>33. CASE CodecUnmute
  BY <1>33, ZenonT(150) DEF CodecUnmute, Flags
<1>34. CASE UNCHANGED vars
  BY <1>34 DEF vars, Flags
<1>35. CASE SetupFails
  BY <1>35, ZenonT(150) DEF SetupFails, Flags
<1>36. CASE StartTx
  BY <1>36 DEF StartTx, Flags
<1>37. CASE TxFails
  BY <1>37, ZenonT(150) DEF TxFails, Flags
<1>38. CASE RxCrash
  BY <1>38 DEF RxCrash, Flags
<1> QED
  BY <1>1, <1>2, <1>3, <1>4, <1>5, <1>6, <1>7, <1>8, <1>9, <1>10, <1>11, <1>12, <1>13,
     <1>14, <1>15, <1>16, <1>17, <1>18, <1>19, <1>20, <1>21, <1>22, <1>23, <1>24, <1>25,
     <1>26, <1>27, <1>28, <1>29, <1>30, <1>31, <1>32, <1>33, <1>34,
     <1>35, <1>36, <1>37, <1>38
  DEF Next, ControlStep, Handle, TxStep, RxStep, GuiGoesOn, ChooseCodec, RemoteCodec

\* Every step keeps the places.
LEMMA PlacesStep == TypeOK /\ [Next]_vars => Places'
<1> SUFFICES ASSUME TypeOK, Flags, Places, Data, [Next]_vars PROVE Places'
  BY Parts
<1> USE DEF threadVars, flagVars, rtpVars, infoVars, guiVars, pastVars, faultVars
<1>1. CASE Setup
  BY <1>1 DEF Setup, Places
<1>2. CASE ClearBye
  BY <1>2 DEF ClearBye, Places
<1>3. CASE Test
  BY <1>3 DEF Test, Places
<1>4. CASE PopNothing
  BY <1>4 DEF PopNothing, Places
<1>5. CASE HandleBye
  BY <1>5 DEF HandleBye, Popped, Places
<1>6. CASE HandleCreated
  BY <1>6 DEF HandleCreated, Popped, Places
<1>7. CASE HandleDeleted
  BY <1>7 DEF HandleDeleted, Popped, Places
<1>8. CASE HandlePayload
  BY <1>8 DEF HandlePayload, Popped, Places
<1>9. ASSUME NEW r \in Remotes, Expire(r) PROVE Places'
  BY <1>9 DEF Expire, Places
<1>10. CASE Updated
  BY <1>10 DEF Updated, Places
<1>11. CASE JoinTx
  BY <1>11 DEF JoinTx, Places
<1>12. CASE JoinRx
  BY <1>12 DEF JoinRx, Places
<1>13. CASE Free
  BY <1>13 DEF Free, Places
<1>14. CASE TxTest
  BY <1>14 DEF TxTest, Places
<1>15. CASE TxRead
  BY <1>15 DEF TxRead, Places
<1>16. CASE TxSend
  BY <1>16 DEF TxSend, Places
<1>17. CASE RxTest
  BY <1>17 DEF RxTest, Places
<1>18. CASE RxNothing
  BY <1>18 DEF RxNothing, Receiving, Places
<1>19. ASSUME NEW r \in Remotes, RxFirst(r) PROVE Places'
  BY <1>19 DEF RxFirst, Receiving, Places
<1>20. ASSUME NEW r \in Remotes, RxPayload(r) PROVE Places'
  BY <1>20 DEF RxPayload, Receiving, Places
<1>21. ASSUME NEW r \in Remotes, RxBye(r) PROVE Places'
  BY <1>21 DEF RxBye, Receiving, Places
<1>22. ASSUME NEW r \in Remotes, Vanish(r) PROVE Places'
  BY <1>22 DEF Vanish, Places
<1>23. CASE Capture
  BY <1>23 DEF Capture, Places
<1>24. CASE ToggleMute
  BY <1>24 DEF ToggleMute, Places
<1>25. CASE Notify
  BY <1>25 DEF Notify, Places
<1>26. CASE Cancel
  BY <1>26 DEF Cancel, Places
<1>27. CASE HangUp
  BY <1>27 DEF HangUp, Places
<1>28. CASE HangFlags
  BY <1>28 DEF HangFlags, Places
<1>29. CASE HangJoin
  BY <1>29 DEF HangJoin, RtpDone, Places
<1>30. CASE StopThreads
  BY <1>30 DEF StopThreads, Places
<1>31. CASE Restart
  BY <1>31 DEF Restart, Places
<1>32. CASE RestartFails
  BY <1>32 DEF RestartFails, RtpDone, Places
<1>33. CASE CodecUnmute
  BY <1>33 DEF CodecUnmute, Places
<1>34. CASE UNCHANGED vars
  BY <1>34 DEF vars, Places
<1>35. CASE SetupFails
  BY <1>35 DEF SetupFails, Places
<1>36. CASE StartTx
  BY <1>36 DEF StartTx, Places
<1>37. CASE TxFails
  BY <1>37 DEF TxFails, Places
<1>38. CASE RxCrash
  BY <1>38 DEF RxCrash, Places
<1> QED
  BY <1>1, <1>2, <1>3, <1>4, <1>5, <1>6, <1>7, <1>8, <1>9, <1>10, <1>11, <1>12, <1>13,
     <1>14, <1>15, <1>16, <1>17, <1>18, <1>19, <1>20, <1>21, <1>22, <1>23, <1>24, <1>25,
     <1>26, <1>27, <1>28, <1>29, <1>30, <1>31, <1>32, <1>33, <1>34,
     <1>35, <1>36, <1>37, <1>38
  DEF Next, ControlStep, Handle, TxStep, RxStep, GuiGoesOn, ChooseCodec, RemoteCodec

\* Every step keeps the data.
LEMMA DataStep == TypeOK /\ [Next]_vars => Data'
<1> SUFFICES ASSUME TypeOK, Flags, Places, Data, [Next]_vars PROVE Data'
  BY Parts
<1> USE DEF threadVars, flagVars, rtpVars, infoVars, guiVars, pastVars, faultVars
<1>1. CASE Setup
  <2>1. qrtcp' \in Seq(Events) /\ Len(qrtcp') \leq MaxEvents
    BY <1>1, BoundsAssumption DEF Setup
  <2> QED BY <2>1, <1>1 DEF Setup, Data
<1>2. CASE ClearBye
  BY <1>2 DEF ClearBye, Data
<1>3. CASE Test
  BY <1>3 DEF Test, Data
<1>4. CASE PopNothing
  BY <1>4 DEF PopNothing, Data
<1>5. CASE HandleBye
  <2>1. qrtcp' \in Seq(Events) /\ Len(qrtcp') \leq MaxEvents
    BY <1>5, PopType DEF HandleBye
  <2> QED BY <2>1, <1>5 DEF HandleBye, Popped, Data
<1>6. CASE HandleCreated
  <2>1. qrtcp' \in Seq(Events) /\ Len(qrtcp') \leq MaxEvents
    BY <1>6, PopType DEF HandleCreated
  <2> QED BY <2>1, <1>6 DEF HandleCreated, Popped, Data
<1>7. CASE HandleDeleted
  <2>1. qrtcp' \in Seq(Events) /\ Len(qrtcp') \leq MaxEvents
    BY <1>7, PopType DEF HandleDeleted
  <2> QED BY <2>1, <1>7 DEF HandleDeleted, Popped, Data
<1>8. CASE HandlePayload
  <2>1. qrtcp' \in Seq(Events) /\ Len(qrtcp') \leq MaxEvents
    BY <1>8, PopType DEF HandlePayload
  <2> QED BY <2>1, <1>8 DEF HandlePayload, Popped, Data
<1>9. ASSUME NEW r \in Remotes, Expire(r) PROVE Data'
  <2>1. Event("DELETED", r) \in Events
    BY DEF Event, Events
  <2>2. qrtcp' \in Seq(Events) /\ Len(qrtcp') \leq MaxEvents
    BY <2>1, <1>9, PushType DEF Expire
  <2> QED BY <2>2, <1>9 DEF Expire, Data
<1>10. CASE Updated
  BY <1>10 DEF Updated, Data
<1>11. CASE JoinTx
  BY <1>11 DEF JoinTx, Data
<1>12. CASE JoinRx
  BY <1>12 DEF JoinRx, Data
<1>13. CASE Free
  <2>1. qrtcp' \in Seq(Events) /\ Len(qrtcp') \leq MaxEvents
    BY <1>13, BoundsAssumption DEF Free
  <2> QED BY <2>1, <1>13 DEF Free, Data
<1>14. CASE TxTest
  BY <1>14 DEF TxTest, Data
<1>15. CASE TxRead
  BY <1>15 DEF TxRead, Data
<1>16. CASE TxSend
  BY <1>16 DEF TxSend, Data
<1>17. CASE RxTest
  BY <1>17 DEF RxTest, Data
<1>18. CASE RxNothing
  BY <1>18 DEF RxNothing, Receiving, Data
<1>19. ASSUME NEW r \in Remotes, RxFirst(r) PROVE Data'
  <2>1. Event("CREATED", r) \in Events
    BY DEF Event, Events
  <2>2. qrtcp' \in Seq(Events) /\ Len(qrtcp') \leq MaxEvents
    BY <2>1, <1>19, PushType DEF RxFirst
  <2> QED BY <2>2, <1>19 DEF RxFirst, Receiving, Data
<1>20. ASSUME NEW r \in Remotes, RxPayload(r) PROVE Data'
  <2>1. Event("PAYLOAD", r) \in Events
    BY DEF Event, Events
  <2>2. qrtcp' \in Seq(Events) /\ Len(qrtcp') \leq MaxEvents
    BY <2>1, <1>20, PushType DEF RxPayload
  <2> QED BY <2>2, <1>20 DEF RxPayload, Receiving, Data
<1>21. ASSUME NEW r \in Remotes, RxBye(r) PROVE Data'
  <2>1. qrtcp' \in Seq(Events) /\ Len(qrtcp') \leq MaxEvents
    BY <1>21, ByeEvents
  <2> QED BY <2>1, <1>21 DEF RxBye, Receiving, Data
<1>22. ASSUME NEW r \in Remotes, Vanish(r) PROVE Data'
  BY <1>22 DEF Vanish, Data
<1>23. CASE Capture
  BY <1>23 DEF Capture, Data
<1>24. CASE ToggleMute
  BY <1>24 DEF ToggleMute, Data
<1>25. CASE Notify
  BY <1>25 DEF Notify, Data
<1>26. CASE Cancel
  BY <1>26 DEF Cancel, Data
<1>27. CASE HangUp
  BY <1>27 DEF HangUp, Data
<1>28. CASE HangFlags
  BY <1>28 DEF HangFlags, Data
<1>29. CASE HangJoin
  BY <1>29 DEF HangJoin, RtpDone, Data
<1>30. CASE StopThreads
  <2>1. changes' \in 0..MaxChanges
    BY <1>30, BoundsAssumption DEF StopThreads, Data
  <2>2. UNCHANGED <<live, known, qrtcp, num>>
    BY <1>30 DEF StopThreads
  <2> QED BY <2>1, <2>2 DEF Data
<1>31. CASE Restart
  BY <1>31 DEF Restart, Data
<1>32. CASE RestartFails
  BY <1>32 DEF RestartFails, RtpDone, Data
<1>33. CASE CodecUnmute
  BY <1>33 DEF CodecUnmute, Data
<1>34. CASE UNCHANGED vars
  BY <1>34 DEF vars, Data
<1>35. CASE SetupFails
  BY <1>35 DEF SetupFails, Data
<1>36. CASE StartTx
  BY <1>36 DEF StartTx, Data
<1>37. CASE TxFails
  <2>1. qrtcp' \in Seq(Events) /\ Len(qrtcp') \leq MaxEvents
    BY <1>37, BoundsAssumption DEF TxFails
  <2> QED BY <2>1, <1>37 DEF TxFails, Data
<1>38. CASE RxCrash
  BY <1>38 DEF RxCrash, Data
<1> QED
  BY <1>1, <1>2, <1>3, <1>4, <1>5, <1>6, <1>7, <1>8, <1>9, <1>10, <1>11, <1>12, <1>13,
     <1>14, <1>15, <1>16, <1>17, <1>18, <1>19, <1>20, <1>21, <1>22, <1>23, <1>24, <1>25,
     <1>26, <1>27, <1>28, <1>29, <1>30, <1>31, <1>32, <1>33, <1>34,
     <1>35, <1>36, <1>37, <1>38
  DEF Next, ControlStep, Handle, TxStep, RxStep, GuiGoesOn, ChooseCodec, RemoteCodec

\* Every step keeps the types.
LEMMA TypeStep == TypeOK /\ [Next]_vars => TypeOK'
BY Parts, FlagsStep, PlacesStep, DataStep
-----------------------------------------------------------------------------
(* The parts of the invariant, one by one.                                  *)

\* The threads end before what they use is freed.
LEMMA EndedStep ==
  ASSUME TypeOK, Ended, [Next]_vars
  PROVE  Ended'
<1>0. failed \in {"no", "setup", "tx"}
  BY DEF TypeOK
<1> USE <1>0 DEF threadVars, flagVars, rtpVars, infoVars, guiVars, pastVars, faultVars
<1>1. CASE Setup
  BY <1>1 DEF Setup, Ended
<1>2. CASE ClearBye
  BY <1>2 DEF ClearBye, Ended
<1>3. CASE Test
  BY <1>3 DEF Test, Ended
<1>4. CASE PopNothing
  BY <1>4 DEF PopNothing, Ended
<1>5. CASE HandleBye
  BY <1>5 DEF HandleBye, Popped, Ended
<1>6. CASE HandleCreated
  BY <1>6 DEF HandleCreated, Popped, Ended
<1>7. CASE HandleDeleted
  BY <1>7 DEF HandleDeleted, Popped, Ended
<1>8. CASE HandlePayload
  BY <1>8 DEF HandlePayload, Popped, Ended
<1>9. CASE Updated
  BY <1>9 DEF Updated, Ended
<1>10. CASE JoinTx
  BY <1>10 DEF JoinTx, Ended
<1>11. CASE JoinRx
  BY <1>11 DEF JoinRx, Ended
<1>12. CASE Free
  BY <1>12 DEF Free, Ended
<1>13. CASE TxTest
  BY <1>13 DEF TxTest, Ended
<1>14. CASE TxRead
  BY <1>14 DEF TxRead, Ended
<1>15. CASE TxSend
  BY <1>15 DEF TxSend, Ended
<1>16. CASE RxTest
  BY <1>16 DEF RxTest, Ended
<1>17. CASE RxNothing
  BY <1>17 DEF RxNothing, Receiving, Ended
<1>18. ASSUME NEW r \in Remotes, RxFirst(r) PROVE Ended'
  BY <1>18 DEF RxFirst, Receiving, Ended
<1>19. ASSUME NEW r \in Remotes, RxPayload(r) PROVE Ended'
  BY <1>19 DEF RxPayload, Receiving, Ended
<1>20. ASSUME NEW r \in Remotes, RxBye(r) PROVE Ended'
  BY <1>20 DEF RxBye, Receiving, Ended
<1>21. CASE HangUp
  BY <1>21 DEF HangUp, Ended
<1>22. CASE HangFlags
  BY <1>22 DEF HangFlags, Ended
<1>23. CASE HangJoin
  BY <1>23 DEF HangJoin, RtpDone, Ended
<1>24. CASE StopThreads
  BY <1>24 DEF StopThreads, Ended
<1>25. CASE Restart
  BY <1>25 DEF Restart, Ended
<1>26. CASE RestartFails
  BY <1>26 DEF RestartFails, RtpDone, Ended
<1>27. CASE CodecUnmute
  BY <1>27 DEF CodecUnmute, Ended
<1>28. ASSUME UNCHANGED <<ctl, tx, rx, gui, faultVars>> PROVE Ended'
  BY <1>28 DEF Ended
<1>29. ASSUME NEW r \in Remotes, Expire(r) \/ Vanish(r) PROVE Ended'
  BY <1>29, <1>28 DEF Expire, Vanish
<1>30. CASE Capture
  BY <1>30, <1>28 DEF Capture
<1>31. CASE ToggleMute \/ Notify \/ Cancel
  BY <1>31, <1>28 DEF ToggleMute, Notify, Cancel
<1>32. CASE UNCHANGED vars
  BY <1>32, <1>28 DEF vars
<1>33. CASE SetupFails
  BY <1>33 DEF SetupFails, Ended
<1>34. CASE StartTx
  BY <1>34 DEF StartTx, Ended
<1>35. CASE TxFails
  BY <1>35 DEF TxFails, Ended
<1>36. CASE RxCrash
  BY <1>36 DEF RxCrash, Ended
<1> QED
  BY <1>1, <1>2, <1>3, <1>4, <1>5, <1>6, <1>7, <1>8, <1>9, <1>10, <1>11, <1>12, <1>13,
     <1>14, <1>15, <1>16, <1>17, <1>18, <1>19, <1>20, <1>21, <1>22, <1>23, <1>24, <1>25,
     <1>26, <1>27, <1>28, <1>29, <1>30, <1>31, <1>32,
     <1>33, <1>34, <1>35, <1>36
  DEF Next, ControlStep, Handle, TxStep, RxStep, GuiGoesOn, ChooseCodec, RemoteCodec

\* asession->bye is only set for a reason.
LEMMA ByeHasReasonStep ==
  ASSUME TypeOK, ByeHasReason, [Next]_vars
  PROVE  ByeHasReason'
<1> USE DEF threadVars, flagVars, rtpVars, infoVars, guiVars, pastVars, faultVars
<1>1. CASE Setup
  BY <1>1 DEF Setup, ByeHasReason, Starting
<1>2. CASE ClearBye
  BY <1>2 DEF ClearBye, ByeHasReason, Starting
<1>3. CASE Test
  BY <1>3 DEF Test, ByeHasReason, Starting
<1>4. CASE PopNothing
  BY <1>4 DEF PopNothing, ByeHasReason, Starting
<1>5. CASE HandleBye
  BY <1>5 DEF HandleBye, Popped, ByeHasReason, Starting
<1>6. CASE HandleCreated
  BY <1>6 DEF HandleCreated, Popped, ByeHasReason, Starting
<1>7. CASE HandleDeleted
  BY <1>7 DEF HandleDeleted, Popped, ByeHasReason, Starting
<1>8. CASE HandlePayload
  BY <1>8 DEF HandlePayload, Popped, ByeHasReason, Starting
<1>9. CASE Updated
  BY <1>9 DEF Updated, ByeHasReason, Starting
<1>10. CASE JoinTx
  BY <1>10 DEF JoinTx, ByeHasReason, Starting
<1>11. CASE JoinRx
  BY <1>11 DEF JoinRx, ByeHasReason, Starting
<1>12. CASE Free
  BY <1>12 DEF Free, ByeHasReason, Starting
<1>13. CASE HangUp
  BY <1>13 DEF HangUp, ByeHasReason, Starting
<1>14. CASE Restart
  BY <1>14 DEF Restart, ByeHasReason, Starting
<1>15. ASSUME UNCHANGED <<bye, ctl, reason, failed>> PROVE ByeHasReason'
  BY <1>15 DEF ByeHasReason, Starting
<1>16. ASSUME NEW r \in Remotes, Expire(r) \/ Vanish(r) \/ RxFirst(r) \/ RxPayload(r) \/
           RxBye(r) PROVE ByeHasReason'
  BY <1>16, <1>15 DEF Expire, Vanish, RxFirst, RxPayload, RxBye, Receiving
<1>17. CASE TxTest \/ TxRead \/ TxSend \/ RxTest \/ RxNothing \/ Capture
  BY <1>17, <1>15 DEF TxTest, TxRead, TxSend, RxTest, RxNothing, Capture, Receiving
<1>18. CASE ToggleMute \/ Notify \/ Cancel \/ HangFlags \/ HangJoin \/ StopThreads \/
           RestartFails \/ CodecUnmute
  BY <1>18, <1>15 DEF ToggleMute, Notify, Cancel, HangFlags, HangJoin, StopThreads,
     RestartFails, RtpDone, CodecUnmute
<1>19. CASE UNCHANGED vars
  BY <1>19, <1>15 DEF vars
<1>20. CASE SetupFails
  BY <1>20 DEF SetupFails, ByeHasReason, Starting
<1>21. CASE StartTx
  BY <1>21 DEF StartTx, ByeHasReason, Starting
<1>22. CASE TxFails
  BY <1>22 DEF TxFails, ByeHasReason, Starting
<1>23. CASE RxCrash
  BY <1>23 DEF RxCrash, ByeHasReason, Starting
<1> QED
  BY <1>1, <1>2, <1>3, <1>4, <1>5, <1>6, <1>7, <1>8, <1>9, <1>10, <1>11, <1>12, <1>13,
     <1>14, <1>15, <1>16, <1>17, <1>18, <1>19,
     <1>20, <1>21, <1>22, <1>23
  DEF Next, ControlStep, Handle, TxStep, RxStep, GuiGoesOn, ChooseCodec, RemoteCodec

\* A BYE that was sent had a reason.
LEMMA ByeJustifiedStep ==
  ASSUME TypeOK, ByeJustified, ByeHasReason, Ended, [Next]_vars
  PROVE  ByeJustified'
<1> USE DEF threadVars, flagVars, rtpVars, infoVars, guiVars, pastVars, faultVars
<1>1. CASE Setup
  BY <1>1 DEF Setup, ByeJustified, ByeHasReason
<1>2. CASE HandleBye
  BY <1>2 DEF HandleBye, Popped, ByeJustified, ByeHasReason
<1>3. CASE JoinRx
  BY <1>3 DEF JoinRx, ByeJustified, ByeHasReason, Ended, Starting
<1>4. CASE HangUp
  BY <1>4 DEF HangUp, ByeJustified, ByeHasReason
<1>5. ASSUME UNCHANGED <<sent, reason>> PROVE ByeJustified'
  BY <1>5 DEF ByeJustified
<1>6. CASE ClearBye \/ Test \/ PopNothing \/ HandleCreated \/ HandleDeleted \/ HandlePayload \/
           Updated \/ JoinTx \/ Free
  BY <1>6, <1>5 DEF ClearBye, Test, PopNothing, HandleCreated, HandleDeleted, HandlePayload,
     Updated, JoinTx, Free, Popped
<1>7. ASSUME NEW r \in Remotes, Expire(r) \/ Vanish(r) \/ RxFirst(r) \/ RxPayload(r) \/ RxBye(r)
           PROVE ByeJustified'
  BY <1>7, <1>5 DEF Expire, Vanish, RxFirst, RxPayload, RxBye, Receiving
<1>8. CASE TxTest \/ TxRead \/ TxSend \/ RxTest \/ RxNothing \/ Capture
  BY <1>8, <1>5 DEF TxTest, TxRead, TxSend, RxTest, RxNothing, Capture, Receiving
<1>9. CASE ToggleMute \/ Notify \/ Cancel \/ HangFlags \/ HangJoin \/ StopThreads \/ Restart \/
           RestartFails \/ CodecUnmute
  BY <1>9, <1>5 DEF ToggleMute, Notify, Cancel, HangFlags, HangJoin, StopThreads, Restart,
     RestartFails, RtpDone, CodecUnmute
<1>10. CASE UNCHANGED vars
  BY <1>10, <1>5 DEF vars
<1>11. CASE SetupFails
  BY <1>11 DEF SetupFails, ByeJustified
<1>12. CASE StartTx
  BY <1>12 DEF StartTx, ByeJustified
<1>13. CASE TxFails
  BY <1>13 DEF TxFails, ByeJustified
<1>14. CASE RxCrash
  BY <1>14 DEF RxCrash, ByeJustified
<1> QED
  BY <1>1, <1>2, <1>3, <1>4, <1>5, <1>6, <1>7, <1>8, <1>9, <1>10,
     <1>11, <1>12, <1>13, <1>14
  DEF Next, ControlStep, Handle, TxStep, RxStep, GuiGoesOn, ChooseCodec, RemoteCodec

\* A thread that stops by itself stops because of a BYE.
LEMMA StopsByItselfStep ==
  ASSUME TypeOK, StopsByItself, Ended, [Next]_vars
  PROVE  StopsByItself'
<1> USE DEF threadVars, flagVars, rtpVars, infoVars, guiVars, pastVars, faultVars
<1>1. CASE Setup
  BY <1>1 DEF Setup, StopsByItself, Ended, Starting
<1>2. CASE ClearBye
  BY <1>2 DEF ClearBye, StopsByItself, Ended, Starting
<1>3. CASE Test
  BY <1>3 DEF Test, StopsByItself, Ended, Starting
<1>4. CASE PopNothing
  BY <1>4 DEF PopNothing, StopsByItself, Ended, Starting
<1>5. CASE HandleBye
  BY <1>5 DEF HandleBye, Popped, StopsByItself, Ended, Starting
<1>6. CASE HandleCreated
  BY <1>6 DEF HandleCreated, Popped, StopsByItself, Ended, Starting
<1>7. CASE HandleDeleted
  BY <1>7 DEF HandleDeleted, Popped, StopsByItself, Ended, Starting
<1>8. CASE HandlePayload
  BY <1>8 DEF HandlePayload, Popped, StopsByItself, Ended, Starting
<1>9. CASE Updated
  BY <1>9 DEF Updated, StopsByItself, Ended, Starting
<1>10. CASE JoinTx
  BY <1>10 DEF JoinTx, StopsByItself, Ended, Starting
<1>11. CASE JoinRx
  BY <1>11 DEF JoinRx, StopsByItself, Ended, Starting
<1>12. CASE Free
  BY <1>12 DEF Free, StopsByItself, Ended, Starting
<1>13. CASE HangUp
  BY <1>13 DEF HangUp, StopsByItself, Ended, Starting
<1>14. CASE HangFlags
  BY <1>14 DEF HangFlags, StopsByItself, Ended, Starting
<1>15. CASE HangJoin
  BY <1>15 DEF HangJoin, RtpDone, StopsByItself, Ended, Starting
<1>16. CASE StopThreads
  BY <1>16 DEF StopThreads, StopsByItself, Ended, Starting
<1>17. CASE Restart
  BY <1>17 DEF Restart, StopsByItself, Ended, Starting
<1>18. CASE RestartFails
  BY <1>18 DEF RestartFails, RtpDone, StopsByItself, Ended, Starting
<1>19. CASE CodecUnmute
  BY <1>19 DEF CodecUnmute, StopsByItself, Ended, Starting
<1>20. ASSUME UNCHANGED <<gui, process, bye, ctl, sent, failed>> PROVE StopsByItself'
  BY <1>20 DEF StopsByItself
<1>21. ASSUME NEW r \in Remotes, Expire(r) \/ Vanish(r) \/ RxFirst(r) \/ RxPayload(r) \/
           RxBye(r) PROVE StopsByItself'
  BY <1>21, <1>20 DEF Expire, Vanish, RxFirst, RxPayload, RxBye, Receiving
<1>22. CASE TxTest \/ TxRead \/ TxSend \/ RxTest \/ RxNothing \/ Capture
  BY <1>22, <1>20 DEF TxTest, TxRead, TxSend, RxTest, RxNothing, Capture, Receiving
<1>23. CASE ToggleMute \/ Notify \/ Cancel
  BY <1>23, <1>20 DEF ToggleMute, Notify, Cancel
<1>24. CASE UNCHANGED vars
  BY <1>24, <1>20 DEF vars
<1>25. CASE SetupFails
  BY <1>25 DEF SetupFails, StopsByItself, Ended, Starting
<1>26. CASE StartTx
  BY <1>26 DEF StartTx, StopsByItself, Ended, Starting
<1>27. CASE TxFails
  BY <1>27 DEF TxFails, StopsByItself, Ended, Starting
<1>28. CASE RxCrash
  BY <1>28 DEF RxCrash, StopsByItself, Ended, Starting
<1> QED
  BY <1>1, <1>2, <1>3, <1>4, <1>5, <1>6, <1>7, <1>8, <1>9, <1>10, <1>11, <1>12, <1>13,
     <1>14, <1>15, <1>16, <1>17, <1>18, <1>19, <1>20, <1>21, <1>22, <1>23, <1>24,
     <1>25, <1>26, <1>27, <1>28
  DEF Next, ControlStep, Handle, TxStep, RxStep, GuiGoesOn, ChooseCodec, RemoteCodec

\* The user's BYE is not forgotten.
LEMMA HangUpIsKeptStep ==
  ASSUME TypeOK, HangUpIsKept, StopsByItself, Ended, [Next]_vars
  PROVE  HangUpIsKept'
<1> USE DEF threadVars, flagVars, rtpVars, infoVars, guiVars, pastVars, faultVars
<1>1. CASE Setup
  BY <1>1 DEF Setup, HangUpIsKept, StopsByItself, Ended, Starting
<1>2. CASE ClearBye
  BY <1>2 DEF ClearBye, HangUpIsKept, StopsByItself, Ended, Starting
<1>3. CASE Test
  BY <1>3 DEF Test, HangUpIsKept, StopsByItself, Ended, Starting
<1>4. CASE PopNothing
  BY <1>4 DEF PopNothing, HangUpIsKept, StopsByItself, Ended, Starting
<1>5. CASE HandleBye
  BY <1>5 DEF HandleBye, Popped, HangUpIsKept, StopsByItself, Ended, Starting
<1>6. CASE HandleCreated
  BY <1>6 DEF HandleCreated, Popped, HangUpIsKept, StopsByItself, Ended, Starting
<1>7. CASE HandleDeleted
  BY <1>7 DEF HandleDeleted, Popped, HangUpIsKept, StopsByItself, Ended, Starting
<1>8. CASE HandlePayload
  BY <1>8 DEF HandlePayload, Popped, HangUpIsKept, StopsByItself, Ended, Starting
<1>9. CASE Updated
  BY <1>9 DEF Updated, HangUpIsKept, StopsByItself, Ended, Starting
<1>10. CASE JoinTx
  BY <1>10 DEF JoinTx, HangUpIsKept, StopsByItself, Ended, Starting
<1>11. CASE JoinRx
  BY <1>11 DEF JoinRx, HangUpIsKept, StopsByItself, Ended, Starting
<1>12. CASE Free
  BY <1>12 DEF Free, HangUpIsKept, StopsByItself, Ended, Starting
<1>13. CASE HangUp
  BY <1>13 DEF HangUp, HangUpIsKept, StopsByItself, Ended, Starting
<1>14. CASE HangFlags
  BY <1>14 DEF HangFlags, HangUpIsKept, StopsByItself, Ended, Starting
<1>15. CASE HangJoin
  BY <1>15 DEF HangJoin, RtpDone, HangUpIsKept, StopsByItself, Ended, Starting
<1>16. CASE StopThreads
  BY <1>16 DEF StopThreads, HangUpIsKept, StopsByItself, Ended, Starting
<1>17. CASE Restart
  BY <1>17 DEF Restart, HangUpIsKept, StopsByItself, Ended, Starting
<1>18. CASE RestartFails
  BY <1>18 DEF RestartFails, RtpDone, HangUpIsKept, StopsByItself, Ended, Starting
<1>19. CASE CodecUnmute
  BY <1>19 DEF CodecUnmute, HangUpIsKept, StopsByItself, Ended, Starting
<1>20. ASSUME UNCHANGED <<gui, early, bye, ctl, sent, failed>> PROVE HangUpIsKept'
  BY <1>20 DEF HangUpIsKept
<1>21. ASSUME NEW r \in Remotes, Expire(r) \/ Vanish(r) \/ RxFirst(r) \/ RxPayload(r) \/
           RxBye(r) PROVE HangUpIsKept'
  BY <1>21, <1>20 DEF Expire, Vanish, RxFirst, RxPayload, RxBye, Receiving
<1>22. CASE TxTest \/ TxRead \/ TxSend \/ RxTest \/ RxNothing \/ Capture
  BY <1>22, <1>20 DEF TxTest, TxRead, TxSend, RxTest, RxNothing, Capture, Receiving
<1>23. CASE ToggleMute \/ Notify \/ Cancel
  BY <1>23, <1>20 DEF ToggleMute, Notify, Cancel
<1>24. CASE UNCHANGED vars
  BY <1>24, <1>20 DEF vars
<1>25. CASE SetupFails
  BY <1>25 DEF SetupFails, HangUpIsKept, StopsByItself, Ended, Starting
<1>26. CASE StartTx
  BY <1>26 DEF StartTx, HangUpIsKept, StopsByItself, Ended, Starting
<1>27. CASE TxFails
  BY <1>27 DEF TxFails, HangUpIsKept, StopsByItself, Ended, Starting
<1>28. CASE RxCrash
  BY <1>28 DEF RxCrash, HangUpIsKept, StopsByItself, Ended, Starting
<1> QED
  BY <1>1, <1>2, <1>3, <1>4, <1>5, <1>6, <1>7, <1>8, <1>9, <1>10, <1>11, <1>12, <1>13,
     <1>14, <1>15, <1>16, <1>17, <1>18, <1>19, <1>20, <1>21, <1>22, <1>23, <1>24,
     <1>25, <1>26, <1>27, <1>28
  DEF Next, ControlStep, Handle, TxStep, RxStep, GuiGoesOn, ChooseCodec, RemoteCodec

\* The mute button is remembered.
LEMMA MuteIsSavedStep ==
  ASSUME TypeOK, MuteIsSaved, [Next]_vars
  PROVE  MuteIsSaved'
<1> USE DEF threadVars, flagVars, rtpVars, infoVars, guiVars, pastVars, faultVars
<1>1. CASE ToggleMute
  BY <1>1 DEF ToggleMute, MuteIsSaved
<1>2. CASE HangUp
  BY <1>2 DEF HangUp, MuteIsSaved
<1>3. CASE HangFlags
  BY <1>3 DEF HangFlags, MuteIsSaved
<1>4. CASE HangJoin
  BY <1>4 DEF HangJoin, RtpDone, MuteIsSaved
<1>5. CASE StopThreads
  BY <1>5 DEF StopThreads, MuteIsSaved
<1>6. CASE Restart
  BY <1>6 DEF Restart, MuteIsSaved
<1>7. CASE RestartFails
  BY <1>7 DEF RestartFails, RtpDone, MuteIsSaved
<1>8. CASE CodecUnmute
  BY <1>8 DEF CodecUnmute, MuteIsSaved
<1>9. ASSUME UNCHANGED <<gui, mute, button, saved>> PROVE MuteIsSaved'
  BY <1>9 DEF MuteIsSaved
<1>10. CASE Setup \/ ClearBye \/ Test \/ PopNothing \/ HandleBye \/ HandleCreated \/
           HandleDeleted \/ HandlePayload \/ Updated \/ JoinTx \/ JoinRx \/ Free
  BY <1>10, <1>9 DEF Setup, ClearBye, Test, PopNothing, HandleBye, HandleCreated, HandleDeleted,
     HandlePayload, Updated, JoinTx, JoinRx, Free, Popped
<1>11. ASSUME NEW r \in Remotes, Expire(r) \/ Vanish(r) \/ RxFirst(r) \/ RxPayload(r) \/
           RxBye(r) PROVE MuteIsSaved'
  BY <1>11, <1>9 DEF Expire, Vanish, RxFirst, RxPayload, RxBye, Receiving
<1>12. CASE TxTest \/ TxRead \/ TxSend \/ RxTest \/ RxNothing \/ Capture
  BY <1>12, <1>9 DEF TxTest, TxRead, TxSend, RxTest, RxNothing, Capture, Receiving
<1>13. CASE Notify \/ Cancel
  BY <1>13, <1>9 DEF Notify, Cancel
<1>14. CASE UNCHANGED vars
  BY <1>14, <1>9 DEF vars
<1>15. CASE SetupFails
  BY <1>15 DEF SetupFails, MuteIsSaved
<1>16. CASE StartTx
  BY <1>16 DEF StartTx, MuteIsSaved
<1>17. CASE TxFails
  BY <1>17 DEF TxFails, MuteIsSaved
<1>18. CASE RxCrash
  BY <1>18 DEF RxCrash, MuteIsSaved
<1> QED
  BY <1>1, <1>2, <1>3, <1>4, <1>5, <1>6, <1>7, <1>8, <1>9, <1>10, <1>11, <1>12, <1>13,
     <1>14,
     <1>15, <1>16, <1>17, <1>18
  DEF Next, ControlStep, Handle, TxStep, RxStep, GuiGoesOn, ChooseCodec, RemoteCodec

-----------------------------------------------------------------------------
(* The theorems.                                                             *)

\* The invariant holds in every state of the session, for any number of remotes,
\* events and changes of codec.
THEOREM Inductive == Spec => []IndInv
<1>1. IndInv /\ [Next]_vars => IndInv'
  <2> SUFFICES ASSUME IndInv, [Next]_vars PROVE IndInv'
    OBVIOUS
  <2>1. TypeOK'
    BY TypeStep DEF IndInv
  <2>2. Ended' /\ ByeHasReason' /\ ByeJustified'
    BY EndedStep, ByeHasReasonStep, ByeJustifiedStep DEF IndInv
  <2>3. StopsByItself' /\ HangUpIsKept' /\ MuteIsSaved'
    BY StopsByItselfStep, HangUpIsKeptStep, MuteIsSavedStep DEF IndInv
  <2> QED BY <2>1, <2>2, <2>3 DEF IndInv
<1> QED BY InitInv, <1>1, PTL DEF Spec

\* The buffers are freed when both threads have ended, the session when
\* session_io_loop has, and the frame of that function is used later by rtp_done
\* only, or by a thread that a failed start left behind.
THEOREM NothingUsedAfterFree == Spec => []Quiescent
<1>1. IndInv => Quiescent
  BY DEF IndInv, Ended, Quiescent
<1> QED BY Inductive, <1>1, PTL

\* A session sends a BYE only if the user or the last remote has ended it: a
\* change of codec, which stops the same threads, sends none.
THEOREM ByesHaveReasons == Spec => []ByeJustified
<1>1. IndInv => ByeJustified
  BY DEF IndInv
<1> QED BY Inductive, <1>1, PTL

\* A user who ends the session after the thread is under way is not forgotten.
THEOREM HangUpHeard == Spec => []HangUpSaysBye
<1>1. IndInv => HangUpSaysBye
  BY DEF IndInv, HangUpIsKept, HangUpSaysBye
<1> QED BY Inductive, <1>1, PTL

\* The microphone the user muted is muted after a change of codec too.
THEOREM MuteStays == Spec => []MuteKept
<1>1. IndInv => MuteKept
  BY DEF IndInv, MuteIsSaved, MuteKept
<1> QED BY Inductive, <1>1, PTL

-----------------------------------------------------------------------------
(* Recursion over the places of a list                                       *)

\* What holds of 0, and of k + 1 when it holds of k, holds up to n.
LEMMA UpTo ==
  ASSUME NEW n \in Nat, NEW I, 0 \in I, \A k \in 0 .. n - 1 : k \in I => k + 1 \in I
  PROVE  \A k \in 0 .. n : k \in I
<1> SUFFICES ASSUME \E k \in 0 .. n : k \notin I PROVE FALSE
  OBVIOUS
<1> DEFINE Out == {k \in 0 .. n : k \notin I}
<1>1. Out \subseteq Nat /\ Out # {}
  OBVIOUS
<1>2. PICK k \in Out : \A j \in Out : ~ (<<j, k>> \in OpToRel(<, Nat))
  BY <1>1, NatLessThanWellFounded, WFMin
<1>3. k \in 0 .. n /\ k \notin I /\ k # 0
  BY <1>2
<1>4. k - 1 \in 0 .. n - 1 /\ k - 1 < k
  BY <1>3
<1>5. k - 1 \in I
  <2>1. \A j \in Out : ~ (j < k)
    <3> HIDE DEF Out
    <3>1. k \in Nat /\ \A j \in Out : j \in Nat
      BY <1>1
    <3> QED BY <1>2, <3>1 DEF OpToRel
  <2>2. k - 1 \notin Out
    BY <2>1, <1>4
  <2> QED BY <2>2, <1>4
<1>6. k - 1 + 1 \in I
  BY <1>4, <1>5
<1> QED BY <1>6, <1>3

\* f is d at 0, and what G makes of the value before at the other places.
Recursive(f, n, d, G) == f = [k \in 0 .. n |-> IF k = 0 THEN d ELSE G[<<k, f[k - 1]>>]]

\* A function is defined by recursion over 0 .. n, and what its steps keep of
\* each place holds of it.
LEMMA Recursion ==
  ASSUME NEW n \in Nat, NEW d, NEW E, NEW G, d \in E[0],
         \A k \in 1 .. n : \A x \in E[k - 1] : G[<<k, x>>] \in E[k]
  PROVE  \E f : Recursive(f, n, d, G) /\ \A k \in 0 .. n : f[k] \in E[k]
<1> DEFINE Good(f, m) ==
      /\ f = [k \in 0 .. m |-> IF k = 0 THEN d ELSE G[<<k, f[k - 1]>>]]
      /\ \A k \in 0 .. m : f[k] \in E[k]
    I == {m \in 0 .. n : \E f : Good(f, m)}
<1>1. 0 \in I
  <2> DEFINE f == [k \in 0 .. 0 |-> d]
  <2>1. Good(f, 0)
    OBVIOUS
  <2> HIDE DEF f
  <2>2. 0 \in 0 .. n /\ \E g : Good(g, 0)
    BY <2>1
  <2> QED BY <2>2, Zenon
<1>2. ASSUME NEW m \in 0 .. n - 1, m \in I PROVE m + 1 \in I
  <2>1. PICK f : Good(f, m)
    BY <1>2
  <2> HIDE DEF I
  <2> DEFINE g == [k \in 0 .. m + 1 |-> IF k = m + 1 THEN G[<<m + 1, f[m]>>] ELSE f[k]]
  <2>2. \A k \in 0 .. m : g[k] = f[k]
    OBVIOUS
  <2>3. \A k \in 0 .. m : f[k] = IF k = 0 THEN d ELSE G[<<k, f[k - 1]>>]
    BY <2>1
  <2>4. \A k \in 0 .. m + 1 : g[k] = IF k = 0 THEN d ELSE G[<<k, g[k - 1]>>]
    <3> SUFFICES ASSUME NEW k \in 0 .. m + 1 PROVE g[k] = IF k = 0 THEN d ELSE G[<<k, g[k - 1]>>]
      OBVIOUS
    <3>1. CASE k = m + 1
      <4>1. k # 0 /\ k - 1 = m /\ g[k - 1] = f[m]
        BY <3>1, <2>2
      <4>2. g[k] = G[<<m + 1, f[m]>>]
        BY <3>1
      <4> QED BY <4>1, <4>2, <3>1
    <3>2. CASE k # m + 1 /\ k # 0
      <4>1. k \in 0 .. m /\ k - 1 \in 0 .. m
        BY <3>2
      <4>2. g[k] = f[k] /\ g[k - 1] = f[k - 1]
        BY <4>1, <2>2
      <4>3. f[k] = G[<<k, f[k - 1]>>]
        BY <4>1, <2>3, <3>2
      <4> QED BY <4>2, <4>3, <3>2
    <3>3. CASE k = 0
      <4>1. k \in 0 .. m
        BY <3>3
      <4>2. g[k] = f[k] /\ f[k] = d
        BY <3>3, <4>1, <2>2, <2>3
      <4> QED BY <4>2, <3>3
    <3> QED BY <3>1, <3>2, <3>3
  <2>5. g = [k \in 0 .. m + 1 |-> IF k = 0 THEN d ELSE G[<<k, g[k - 1]>>]]
    <3> DEFINE h == [k \in 0 .. m + 1 |-> IF k = 0 THEN d ELSE G[<<k, g[k - 1]>>]]
    <3>1. \A k \in 0 .. m + 1 : h[k] = g[k]
      BY <2>4
    <3>2. g = [k \in 0 .. m + 1 |-> g[k]] /\ h = [k \in 0 .. m + 1 |-> h[k]]
      OBVIOUS
    <3> HIDE DEF g, h
    <3>3. g = h
      BY <3>1, <3>2
    <3> QED BY <3>3 DEF h
  <2>6. \A k \in 0 .. m + 1 : g[k] \in E[k]
    <3> SUFFICES ASSUME NEW k \in 0 .. m + 1 PROVE g[k] \in E[k]
      OBVIOUS
    <3>1. CASE k = m + 1
      <4>1. k \in 1 .. n /\ k - 1 = m /\ f[m] \in E[m]
        BY <3>1, <2>1
      <4>2. G[<<k, f[m]>>] \in E[k]
        BY <4>1
      <4> QED BY <4>2, <3>1
    <3>2. CASE k # m + 1
      BY <3>2, <2>1, <2>2
    <3> QED BY <3>1, <3>2
  <2> HIDE DEF g
  <2>7. m + 1 \in 0 .. n
    OBVIOUS
  <2>8. Good(g, m + 1)
    BY <2>5, <2>6
  <2>9. \E e : Good(e, m + 1)
    <3> HIDE DEF Good
    <3> QED BY <2>8
  <2> HIDE DEF Good
  <2> QED BY <2>7, <2>9 DEF I
<1> HIDE DEF I
<1>3. n \in I
  BY <1>1, <1>2, UpTo
<1> QED BY <1>3 DEF I, Recursive

\* What the steps of a recursion keep holds of each of its places.
LEMMA Follows ==
  ASSUME NEW n \in Nat, NEW E, NEW at, at[0] \in E[0],
         \A k \in 1 .. n : at[k - 1] \in E[k - 1] => at[k] \in E[k]
  PROVE  \A k \in 0 .. n : at[k] \in E[k]
<1> DEFINE I == {k \in 0 .. n : at[k] \in E[k]}
<1>1. 0 \in I
  OBVIOUS
<1>2. \A k \in 0 .. n - 1 : k \in I => k + 1 \in I
  <2> SUFFICES ASSUME NEW k \in 0 .. n - 1, k \in I PROVE k + 1 \in I
    OBVIOUS
  <2>1. k + 1 \in 1 .. n /\ k + 1 \in 0 .. n /\ k + 1 - 1 = k
    OBVIOUS
  <2>2. at[k + 1 - 1] \in E[k + 1 - 1]
    BY <2>1
  <2>3. at[k + 1] \in E[k + 1]
    BY <2>1, <2>2
  <2> QED BY <2>1, <2>3
<1> HIDE DEF I
<1>3. \A k \in 0 .. n : k \in I
  BY <1>1, <1>2, UpTo
<1> QED BY <1>3 DEF I

-----------------------------------------------------------------------------
(* The chains                                                                *)

\* Every source has a bucket, and the null link is no source.
LEMMA HashType == /\ \A s \in Ssrcs \cup {Null} : SsrcHash(s) \in Buckets
                  /\ Null \notin Ssrcs /\ DbSize \in Nat /\ DbSize > 0
  BY SsrcAssumption, SizeAssumption DEF SsrcHash, Buckets, Null

\* A chain visited from its start: its sources, each once, in the order of the links.
IsChain(c, t, h) ==
  /\ c \in Seq(Ssrcs)
  /\ \A i \in 1 .. Len(c) :
       /\ c[i] \in t.kept /\ SsrcHash(c[i]) = h
       /\ t.prev[c[i]] = IF i = 1 THEN Null ELSE c[i - 1]
       /\ t.next[c[i]] = IF i = Len(c) THEN Null ELSE c[i + 1]
  /\ \A i, j \in 1 .. Len(c) : i # j => c[i] # c[j]
  /\ \A s \in t.kept : SsrcHash(s) = h => \E i \in 1 .. Len(c) : c[i] = s

\* What next leads to from the start of a chain, until there is no more.
Walk(at, t, h) ==
  /\ at = [n \in 0 .. Cardinality(Ssrcs) |->
             IF n = 0 THEN t.db[h] ELSE LET s == at[n - 1] IN IF s = Null THEN Null ELSE t.next[s]]
  /\ \A n \in 0 .. Cardinality(Ssrcs) : at[n] \in {s \in t.kept : SsrcHash(s) = h} \cup {Null}

\* There is such a walk along every chain: its links lead to sources of the chain.
LEMMA WalkExists ==
  ASSUME NEW t \in Links, Linked(t), NEW h \in Buckets
  PROVE  \E at : Walk(at, t, h)
<1> DEFINE N == Cardinality(Ssrcs)
    B == {s \in t.kept : SsrcHash(s) = h} \cup {Null}
    E == [n \in 0 .. N |-> B]
    G == [p \in (1 .. N) \X B |-> IF p[2] = Null THEN Null ELSE t.next[p[2]]]
<1>1. N \in Nat
  BY SsrcAssumption, FS_CardinalityType
<1>2. t.db[h] \in B
  BY DEF Linked, Links
<1>3. \A x \in B : (IF x = Null THEN Null ELSE t.next[x]) \in B
  BY DEF Linked
<1>4. \A n \in 0 .. N : E[n] = B
  OBVIOUS
<1>5. \A n \in 1 .. N, x \in B : G[<<n, x>>] = IF x = Null THEN Null ELSE t.next[x]
  OBVIOUS
<1> HIDE DEF N, B, E, G
<1>6. t.db[h] \in E[0] /\ \A n \in 1 .. N : \A x \in E[n - 1] : G[<<n, x>>] \in E[n]
  <2>1. E[0] = B
    BY <1>1, <1>4
  <2>2. \A n \in 1 .. N : E[n] = B /\ E[n - 1] = B
    BY <1>1, <1>4
  <2> QED BY <1>2, <1>3, <1>5, <2>1, <2>2
<1>7. PICK f : Recursive(f, N, t.db[h], G) /\ \A n \in 0 .. N : f[n] \in E[n]
  BY <1>1, <1>6, Recursion
<1>8. \A n \in 0 .. N : f[n] \in B
  BY <1>4, <1>7
<1>9. \A n \in 1 .. N : G[<<n, f[n - 1]>>] = IF f[n - 1] = Null THEN Null ELSE t.next[f[n - 1]]
  <2>1. \A n \in 1 .. N : n - 1 \in 0 .. N
    BY <1>1
  <2> QED BY <1>5, <1>8, <2>1
<1>10. f = [n \in 0 .. N |-> IF n = 0 THEN t.db[h] ELSE IF f[n - 1] = Null THEN Null ELSE t.next[f[n - 1]]]
  <2>1. \A n \in 0 .. N : n = 0 \/ n \in 1 .. N
    BY <1>1
  <2> QED BY <1>7, <1>9, <2>1 DEF Recursive
<1> QED BY <1>8, <1>10 DEF Walk, N, B

\* The steps of a walk: no source twice, and an end before all have been visited.
LEMMA WalkSteps ==
  ASSUME NEW t \in Links, Linked(t), NEW h \in Buckets, NEW at, Walk(at, t, h)
  PROVE  /\ Cardinality(Ssrcs) \in Nat
         /\ DOMAIN at = 0 .. Cardinality(Ssrcs)
         /\ at[0] = t.db[h]
         /\ \A n \in 0 .. Cardinality(Ssrcs) : at[n] # Null => at[n] \in t.kept /\ SsrcHash(at[n]) = h
         /\ \A n \in 1 .. Cardinality(Ssrcs) : at[n - 1] = Null => at[n] = Null
         /\ \A n \in 1 .. Cardinality(Ssrcs) : at[n - 1] # Null => at[n] = t.next[at[n - 1]]
         /\ \A n \in 1 .. Cardinality(Ssrcs) : at[n] # Null => at[n - 1] # Null /\ t.prev[at[n]] = at[n - 1]
<1> DEFINE N == Cardinality(Ssrcs)
<1>1. N \in Nat
  BY SsrcAssumption, FS_CardinalityType
<1> HIDE DEF N
<1>2. at = [n \in 0 .. N |-> IF n = 0 THEN t.db[h] ELSE IF at[n - 1] = Null THEN Null ELSE t.next[at[n - 1]]]
  BY DEF Walk, N
<1>3. \A n \in 0 .. N : at[n] # Null => at[n] \in t.kept /\ SsrcHash(at[n]) = h
  BY DEF Walk, N
<1>4. DOMAIN at = 0 .. N /\ at[0] = t.db[h]
  BY <1>1, <1>2
<1>5. \A n \in 1 .. N : /\ n - 1 \in 0 .. N
                        /\ at[n] = IF at[n - 1] = Null THEN Null ELSE t.next[at[n - 1]]
  <2>1. \A n \in 1 .. N : n \in 0 .. N /\ n - 1 \in 0 .. N /\ n # 0
    BY <1>1
  <2>2. \A n \in 0 .. N : at[n] = IF n = 0 THEN t.db[h] ELSE IF at[n - 1] = Null THEN Null ELSE t.next[at[n - 1]]
    BY <1>2
  <2> QED BY <2>1, <2>2
<1>6. \A n \in 1 .. N : at[n] # Null => at[n - 1] # Null /\ t.prev[at[n]] = at[n - 1]
  BY <1>3, <1>5 DEF Linked
<1> QED BY <1>1, <1>3, <1>4, <1>5, <1>6 DEF N

\* No source is visited twice: going back from it would have no end.
LEMMA WalkInjective ==
  ASSUME NEW t \in Links, Linked(t), NEW h \in Buckets, NEW at, Walk(at, t, h),
         NEW i \in 0 .. Cardinality(Ssrcs), NEW j \in 0 .. Cardinality(Ssrcs), i < j, at[j] # Null
  PROVE  at[i] # at[j]
<1> DEFINE N == Cardinality(Ssrcs)
    I == {k \in 0 .. j : at[j - k] # Null}
    S == {at[k] : k \in i .. j - 1}
<1>1. /\ N \in Nat
      /\ \A n \in 0 .. N : at[n] # Null => at[n] \in t.kept
      /\ \A n \in 1 .. N : at[n] # Null => at[n - 1] # Null /\ t.prev[at[n]] = at[n - 1]
  BY WalkSteps
<1> HIDE DEF N
<1>2. \A n \in 0 .. j : at[n] # Null
  <2>1. 0 \in I
    OBVIOUS
  <2>2. \A k \in 0 .. j - 1 : k \in I => k + 1 \in I
    <3> SUFFICES ASSUME NEW k \in 0 .. j - 1, k \in I PROVE k + 1 \in I
      OBVIOUS
    <3>1. j - k \in 1 .. N /\ j - (k + 1) = j - k - 1 /\ k + 1 \in 0 .. j
      BY <1>1 DEF N
    <3>2. at[j - k] # Null
      OBVIOUS
    <3>3. at[j - k - 1] # Null
      BY <1>1, <3>1, <3>2
    <3> QED BY <3>1, <3>3
  <2> HIDE DEF I
  <2>3. \A k \in 0 .. j : k \in I
    BY <2>1, <2>2, UpTo, j \in Nat
  <2>4. \A n \in 0 .. j : j - n \in 0 .. j /\ j - (j - n) = n
    BY <1>1 DEF N
  <2>5. \A n \in 0 .. j : j - n \in I
    BY <2>3, <2>4
  <2> QED BY <2>4, <2>5 DEF I
<1>3. SUFFICES ASSUME at[i] = at[j] PROVE FALSE
  OBVIOUS
<1>4. S \subseteq t.kept /\ S # {}
  <2>1. \A k \in i .. j - 1 : k \in 0 .. j /\ k \in 0 .. N
    BY <1>1 DEF N
  <2>2. i \in i .. j - 1
    BY <1>1 DEF N
  <2> QED BY <1>1, <1>2, <2>1, <2>2
<1>5. \A s \in S : t.prev[s] \in S
  <2> SUFFICES ASSUME NEW k \in i .. j - 1 PROVE t.prev[at[k]] \in S
    OBVIOUS
  <2>1. CASE k = i
    <3>1. j \in 1 .. N /\ j - 1 \in i .. j - 1
      BY <1>1 DEF N
    <3>2. t.prev[at[j]] = at[j - 1]
      BY <1>1, <3>1
    <3> QED BY <1>3, <2>1, <3>1, <3>2
  <2>2. CASE k # i
    <3>1. k \in 1 .. N /\ k \in 0 .. j /\ k - 1 \in i .. j - 1
      BY <1>1, <2>2 DEF N
    <3>2. t.prev[at[k]] = at[k - 1]
      BY <1>1, <1>2, <3>1
    <3> QED BY <3>1, <3>2
  <2> QED BY <2>1, <2>2
<1> HIDE DEF S
<1>6. S \in SUBSET t.kept
  BY <1>4
<1> QED BY <1>4, <1>5, <1>6 DEF Linked

\* The walk ends, at the same place for good.
LEMMA WalkEnds ==
  ASSUME NEW t \in Links, Linked(t), NEW h \in Buckets, NEW at, Walk(at, t, h)
  PROVE  \E l \in 0 .. Cardinality(Ssrcs) :
            /\ at[l] = Null
            /\ \A n \in 0 .. Cardinality(Ssrcs) : at[n] # Null <=> n < l
<1> DEFINE N == Cardinality(Ssrcs)
    Ends == {n \in 0 .. N : at[n] = Null}
<1>1. /\ N \in Nat
      /\ \A n \in 0 .. N : at[n] # Null => at[n] \in t.kept
      /\ \A n \in 1 .. N : at[n - 1] = Null => at[n] = Null
      /\ DOMAIN at = 0 .. N
  BY WalkSteps
<1>1a. at = [n \in 0 .. N |-> at[n]]
  BY DEF Walk
<1> HIDE DEF N
<1>2. Ends # {}
  <2> SUFFICES ASSUME \A n \in 0 .. N : at[n] # Null PROVE FALSE
    OBVIOUS
  <2>1. at \in [0 .. N -> Ssrcs]
    <3>1. t.kept \subseteq Ssrcs
      BY DEF Links
    <3>2. \A n \in 0 .. N : at[n] \in Ssrcs
      BY <1>1, <3>1
    <3> QED BY <1>1a, <3>2
  <2>2. IsFiniteSet(0 .. N) /\ Cardinality(0 .. N) = N + 1
    <3>1. 0 \in Int /\ N \in Int /\ ~ (0 > N) /\ N - 0 + 1 = N + 1
      BY <1>1
    <3> QED BY <3>1, FS_Interval
  <2>3. IsFiniteSet(Ssrcs) /\ Cardinality(Ssrcs) < Cardinality(0 .. N)
    BY <1>1, <2>2, SsrcAssumption DEF N
  <2>4. PICK x, y \in 0 .. N : x # y /\ at[x] = at[y]
    BY <2>1, <2>2, <2>3, FS_PigeonHole
  <2>5. CASE x < y
    BY <2>4, <2>5, WalkInjective DEF N
  <2>6. CASE y < x
    BY <2>4, <2>6, WalkInjective DEF N
  <2> QED BY <1>1, <2>4, <2>5, <2>6
<1>3. Ends \subseteq Nat
  OBVIOUS
<1>4. PICK l \in Ends : \A j \in Ends : ~ (<<j, l>> \in OpToRel(<, Nat))
  BY <1>2, <1>3, NatLessThanWellFounded, WFMin
<1>5. \A j \in Ends : ~ (j < l)
  <2> HIDE DEF Ends
  <2>1. l \in Nat /\ \A j \in Ends : j \in Nat
    BY <1>3
  <2> QED BY <1>4, <2>1 DEF OpToRel
<1>6. l \in 0 .. N /\ at[l] = Null
  OBVIOUS
<1>7. \A n \in 0 .. N : n < l => at[n] # Null
  BY <1>5
<1> DEFINE I == {k \in 0 .. N - l : at[l + k] = Null}
<1>8. \A k \in 0 .. N - l : k \in I
  <2>1. N - l \in Nat /\ 0 \in I
    BY <1>1, <1>6
  <2>2. ASSUME NEW k \in 0 .. N - l - 1, k \in I PROVE k + 1 \in I
    <3>1. l + (k + 1) \in 1 .. N /\ l + (k + 1) - 1 = l + k /\ k + 1 \in 0 .. N - l
      BY <1>1, <1>6
    <3>2. at[l + (k + 1) - 1] = Null
      BY <2>2, <3>1
    <3> QED BY <1>1, <3>1, <3>2
  <2> HIDE DEF I
  <2> QED BY <2>1, <2>2, UpTo
<1>9. \A n \in 0 .. N : ~ (n < l) => at[n] = Null
  <2> SUFFICES ASSUME NEW n \in 0 .. N, ~ (n < l) PROVE at[n] = Null
    OBVIOUS
  <2>1. n - l \in 0 .. N - l /\ l + (n - l) = n
    BY <1>1, <1>6
  <2>2. n - l \in I
    BY <1>8, <2>1
  <2> QED BY <2>1, <2>2
<1> QED BY <1>6, <1>7, <1>9 DEF N

\* A chain is what the links say.
LEMMA ChainIs ==
  ASSUME NEW t \in Links, Linked(t), NEW h \in Buckets
  PROVE  IsChain(Chain(t, h), t, h)
<1> DEFINE N == Cardinality(Ssrcs)
    at == CHOOSE g : g = [n \in 0 .. N |->
            IF n = 0 THEN t.db[h] ELSE LET s == g[n - 1] IN IF s = Null THEN Null ELSE t.next[s]]
    c == [i \in 1 .. Cardinality({n \in DOMAIN at : at[n] # Null}) |-> at[i - 1]]
<1>1. Chain(t, h) = c
  BY Zenon DEF Chain
<1>2. Walk(at, t, h)
  <2>1. PICK g : Walk(g, t, h)
    BY WalkExists
  <2>2. at = [n \in 0 .. N |->
            IF n = 0 THEN t.db[h] ELSE LET s == at[n - 1] IN IF s = Null THEN Null ELSE t.next[s]]
    BY <2>1 DEF Walk
  <2> HIDE DEF at
  <2>3. N \in Nat
    BY SsrcAssumption, FS_CardinalityType
  <2>2a. \A k \in 0 .. N : at[k] = IF k = 0 THEN t.db[h] ELSE IF at[k - 1] = Null THEN Null ELSE t.next[at[k - 1]]
    BY <2>2
  <2>1a. \A k \in 0 .. N : g[k] = IF k = 0 THEN t.db[h] ELSE IF g[k - 1] = Null THEN Null ELSE t.next[g[k - 1]]
    BY <2>1 DEF Walk
  <2> DEFINE I == {n \in 0 .. N : at[n] = g[n]}
  <2>4. 0 \in I
    BY <2>1a, <2>2a, <2>3
  <2>5. ASSUME NEW n \in 0 .. N - 1, n \in I PROVE n + 1 \in I
    <3>1. n + 1 \in 0 .. N /\ n + 1 # 0 /\ n + 1 - 1 = n /\ at[n] = g[n]
      BY <2>3, <2>5
    <3>2. at[n + 1] = IF at[n] = Null THEN Null ELSE t.next[at[n]]
      BY <2>2a, <3>1
    <3>3. g[n + 1] = IF g[n] = Null THEN Null ELSE t.next[g[n]]
      BY <2>1a, <3>1
    <3> QED BY <3>1, <3>2, <3>3
  <2> HIDE DEF I
  <2>6. \A n \in 0 .. N : n \in I
    BY <2>3, <2>4, <2>5, UpTo
  <2>7. \A n \in 0 .. N : at[n] = g[n]
    BY <2>6 DEF I
  <2> QED BY <2>1, <2>2, <2>7 DEF Walk
<1> HIDE DEF at
<1>3. PICK l \in 0 .. N : at[l] = Null /\ \A n \in 0 .. N : at[n] # Null <=> n < l
  BY <1>2, WalkEnds
<1>4. /\ N \in Nat /\ DOMAIN at = 0 .. N /\ at[0] = t.db[h]
      /\ \A n \in 0 .. N : at[n] # Null => at[n] \in t.kept /\ SsrcHash(at[n]) = h
      /\ \A n \in 1 .. N : at[n - 1] # Null => at[n] = t.next[at[n - 1]]
      /\ \A n \in 1 .. N : at[n] # Null => t.prev[at[n]] = at[n - 1]
  BY <1>2, WalkSteps
<1>5. \A i, j \in 0 .. N : i < j /\ at[j] # Null => at[i] # at[j]
  BY <1>2, WalkInjective
<1> HIDE DEF N
<1>6. Cardinality({n \in DOMAIN at : at[n] # Null}) = l
  <2>1. {n \in DOMAIN at : at[n] # Null} = 0 .. l - 1
    BY <1>3, <1>4
  <2>2. Cardinality(0 .. l - 1) = l
    BY <1>3, <1>4, FS_Interval
  <2> QED BY <2>1, <2>2
<1>7. c = [i \in 1 .. l |-> at[i - 1]]
  BY <1>6
<1> HIDE DEF c
<1>8. \A i \in 1 .. l : i - 1 \in 0 .. N /\ c[i] = at[i - 1] /\ at[i - 1] # Null
  BY <1>3, <1>4, <1>7
<1>9. c \in Seq(Ssrcs) /\ Len(c) = l
  <2>1. t.kept \subseteq Ssrcs
    BY DEF Links
  <2>2. \A i \in 1 .. l : at[i - 1] \in Ssrcs
    BY <1>4, <1>8, <2>1
  <2> QED BY <1>3, <1>4, <1>7, <2>2
<1>10. \A i \in 1 .. l : c[i] \in t.kept /\ SsrcHash(c[i]) = h
  BY <1>4, <1>8
<1>11. \A i \in 1 .. l : t.prev[c[i]] = IF i = 1 THEN Null ELSE c[i - 1]
  <2> SUFFICES ASSUME NEW i \in 1 .. l PROVE t.prev[c[i]] = IF i = 1 THEN Null ELSE c[i - 1]
    OBVIOUS
  <2>1. CASE i = 1
    <3>1. c[i] = t.db[h] /\ t.db[h] # Null
      BY <1>4, <1>8, <2>1
    <3> QED BY <2>1, <3>1 DEF Linked
  <2>2. CASE i # 1
    <3>1. i - 1 \in 1 .. N /\ i - 1 \in 1 .. l /\ c[i] = at[i - 1] /\ at[i - 1] # Null
      BY <1>3, <1>4, <1>8, <2>2
    <3>2. c[i - 1] = at[i - 1 - 1]
      BY <1>8, <3>1
    <3> QED BY <1>4, <2>2, <3>1, <3>2
  <2> QED BY <2>1, <2>2
<1>12. \A i \in 1 .. l : t.next[c[i]] = IF i = l THEN Null ELSE c[i + 1]
  <2> SUFFICES ASSUME NEW i \in 1 .. l PROVE t.next[c[i]] = IF i = l THEN Null ELSE c[i + 1]
    OBVIOUS
  <2>1. i \in 1 .. N /\ c[i] = at[i - 1] /\ at[i - 1] # Null
    BY <1>3, <1>4, <1>8
  <2>2. t.next[c[i]] = at[i]
    BY <1>4, <2>1
  <2>3. CASE i = l
    BY <1>3, <2>2, <2>3
  <2>4. CASE i # l
    <3>1. i + 1 \in 1 .. l /\ i + 1 - 1 = i
      BY <1>3, <1>4, <2>4
    <3> QED BY <1>8, <2>2, <2>4, <3>1
  <2> QED BY <2>3, <2>4
<1>13. \A i, j \in 1 .. l : i # j => c[i] # c[j]
  <2> SUFFICES ASSUME NEW i \in 1 .. l, NEW j \in 1 .. l, i < j PROVE c[i] # c[j]
    BY <1>3, <1>4
  <2> QED BY <1>3, <1>4, <1>5, <1>8
<1>14. \A s \in t.kept : SsrcHash(s) = h => \E i \in 1 .. l : c[i] = s
  <2> DEFINE S == {s \in t.kept : SsrcHash(s) = h /\ \A i \in 1 .. l : c[i] # s}
  <2> SUFFICES ASSUME S # {} PROVE FALSE
    OBVIOUS
  <2>1. PICK s \in S : t.prev[s] \notin S
    <3>1. S \in SUBSET t.kept
      OBVIOUS
    <3> HIDE DEF S
    <3> QED BY <3>1 DEF Linked
  <2>2. s \in t.kept /\ SsrcHash(s) = h /\ \A i \in 1 .. l : c[i] # s
    BY <2>1
  <2>3. s # Null
    BY <2>2, HashType DEF Links
  <2>4. CASE t.prev[s] = Null
    <3>1. t.db[h] = s
      BY <2>2, <2>4 DEF Linked
    <3>2. 1 \in 1 .. l /\ 0 \in 0 .. N
      BY <1>3, <1>4, <2>3, <3>1
    <3>3. c[1] = at[0]
      BY <1>7, <3>2
    <3> QED BY <1>4, <2>2, <3>1, <3>2, <3>3
  <2>5. CASE t.prev[s] # Null
    <3>1. t.prev[s] \in t.kept /\ t.next[t.prev[s]] = s
      BY <2>2, <2>5 DEF Linked
    <3>2. SsrcHash(t.prev[s]) = h
      BY <2>2, <2>3, <3>1 DEF Linked
    <3>3. PICK i \in 1 .. l : c[i] = t.prev[s]
      BY <2>1, <3>1, <3>2
    <3>4. IF i = l THEN s = Null ELSE s = c[i + 1]
      BY <1>12, <3>1, <3>3
    <3>5. i # l /\ i + 1 \in 1 .. l
      BY <1>3, <1>4, <2>3, <3>4
    <3> QED BY <2>2, <3>4, <3>5
  <2> QED BY <2>4, <2>5
<1>15. \A i \in 1 .. Len(c) :
          /\ c[i] \in t.kept /\ SsrcHash(c[i]) = h
          /\ t.prev[c[i]] = IF i = 1 THEN Null ELSE c[i - 1]
          /\ t.next[c[i]] = IF i = Len(c) THEN Null ELSE c[i + 1]
  BY <1>9, <1>10, <1>11, <1>12
<1>16. /\ \A i, j \in 1 .. Len(c) : i # j => c[i] # c[j]
       /\ \A s \in t.kept : SsrcHash(s) = h => \E i \in 1 .. Len(c) : c[i] = s
  BY <1>9, <1>13, <1>14
<1>17. IsChain(c, t, h)
  BY <1>9, <1>15, <1>16 DEF IsChain
<1> QED BY <1>1, <1>17

\* A source is found in its chain when it is kept.
LEMMA KnownIsKept ==
  ASSUME NEW t \in Links, Linked(t), NEW s \in Ssrcs \cup {Null}
  PROVE  Known(t, s) <=> s \in t.kept
<1>1. SsrcHash(s) \in Buckets
  BY HashType
<1>2. IsChain(Chain(t, SsrcHash(s)), t, SsrcHash(s))
  BY <1>1, ChainIs
<1> DEFINE c == Chain(t, SsrcHash(s))
<1>3. DOMAIN c = 1 .. Len(c)
  BY <1>2 DEF IsChain
<1>2a. IsChain(c, t, SsrcHash(s))
  BY <1>2
<1> HIDE DEF c
<1>4. s \in ToSet(c) <=> s \in t.kept
  <2>1. ASSUME s \in t.kept PROVE s \in ToSet(c)
    <3>1. \E i \in 1 .. Len(c) : c[i] = s
      BY <1>2a, <2>1 DEF IsChain
    <3> QED BY <1>3, <3>1 DEF ToSet
  <2>2. ASSUME NEW i \in 1 .. Len(c) PROVE c[i] \in t.kept
    BY <1>2a DEF IsChain
  <2> QED BY <1>3, <2>1, <2>2 DEF ToSet
<1> QED BY <1>4 DEF Known, c

-----------------------------------------------------------------------------
(* A source enters a chain, or leaves it                                     *)

\* The table when a new source has become the first of its chain.
Linking(t, s) ==
  [db   |-> [t.db EXCEPT ![SsrcHash(s)] = s],
   next |-> [t.next EXCEPT ![s] = t.db[SsrcHash(s)]],
   prev |-> [x \in Ssrcs |-> IF x = s THEN Null ELSE IF x = t.db[SsrcHash(s)] THEN s ELSE t.prev[x]],
   kept |-> t.kept \cup {s}]

\* The links one by one.
LEMMA LinkingFields ==
  ASSUME NEW t \in Links, NEW s \in Ssrcs
  PROVE  LET u == Linking(t, s)
             old == t.db[SsrcHash(s)]
         IN  /\ u \in Links /\ old \in Ssrcs \cup {Null}
             /\ u.kept = t.kept \cup {s}
             /\ \A h \in Buckets : u.db[h] = IF h = SsrcHash(s) THEN s ELSE t.db[h]
             /\ \A x \in Ssrcs : u.next[x] = IF x = s THEN old ELSE t.next[x]
             /\ \A x \in Ssrcs : u.prev[x] = IF x = s THEN Null ELSE IF x = old THEN s ELSE t.prev[x]
<1>1. SsrcHash(s) \in Buckets /\ s # Null
  BY HashType
<1> DEFINE u == Linking(t, s)
    old == t.db[SsrcHash(s)]
<1>2. old \in Ssrcs \cup {Null} /\ t.kept \in SUBSET Ssrcs
  BY <1>1 DEF Links
<1>3. u.db \in [Buckets -> Ssrcs \cup {Null}] /\ \A h \in Buckets : u.db[h] = IF h = SsrcHash(s) THEN s ELSE t.db[h]
  BY <1>1 DEF Linking, Links
<1>4. u.next \in [Ssrcs -> Ssrcs \cup {Null}] /\ \A x \in Ssrcs : u.next[x] = IF x = s THEN old ELSE t.next[x]
  BY <1>1, <1>2 DEF Linking, Links
<1>5. u.prev \in [Ssrcs -> Ssrcs \cup {Null}] /\ \A x \in Ssrcs : u.prev[x] = IF x = s THEN Null ELSE IF x = old THEN s ELSE t.prev[x]
  BY <1>1, <1>2 DEF Linking, Links
<1>6. u.kept = t.kept \cup {s} /\ u.kept \in SUBSET Ssrcs
  BY <1>2 DEF Linking
<1>7. u = [db |-> u.db, next |-> u.next, prev |-> u.prev, kept |-> u.kept]
  BY DEF Linking
<1>8. u \in Links
  <2> HIDE DEF u
  <2> QED BY <1>3, <1>4, <1>5, <1>6, <1>7 DEF Links
<1> QED BY <1>2, <1>3, <1>4, <1>5, <1>6, <1>8

\* A source that is new to a chain leaves it linked, and ours the last if it was.
LEMMA LinkingLinked ==
  ASSUME NEW t \in Links, Linked(t), NEW s \in Ssrcs, s \notin t.kept
  PROVE  LET u == Linking(t, s)
         IN  /\ u \in Links /\ Linked(u) /\ u.kept = t.kept \cup {s}
             /\ MeIsLast(t) => MeIsLast(u)
<1> DEFINE h0 == SsrcHash(s)
    old == t.db[h0]
    u == Linking(t, s)
<1>1. /\ u \in Links /\ old \in Ssrcs \cup {Null}
      /\ u.kept = t.kept \cup {s}
      /\ \A h \in Buckets : u.db[h] = IF h = h0 THEN s ELSE t.db[h]
      /\ \A x \in Ssrcs : u.next[x] = IF x = s THEN old ELSE t.next[x]
      /\ \A x \in Ssrcs : u.prev[x] = IF x = s THEN Null ELSE IF x = old THEN s ELSE t.prev[x]
  BY LinkingFields
<1>2. h0 \in Buckets /\ s # Null /\ (\A x \in Ssrcs : x # Null /\ SsrcHash(x) \in Buckets) /\ t.kept \subseteq Ssrcs
  BY HashType DEF Links
<1>3. old # Null => old \in t.kept /\ SsrcHash(old) = h0 /\ t.prev[old] = Null /\ old # s
  BY <1>2 DEF Linked
<1>4. \A x \in t.kept : t.next[x] # s /\ t.prev[x] # s
  BY <1>2 DEF Linked
<1>5. \A x \in t.kept : x = old => t.prev[x] = Null
  BY <1>2, <1>3
<1>6. \A x \in t.kept : t.next[x] # old \/ old = Null
  BY <1>2, <1>3 DEF Linked
<1>7. \A x \in t.kept : x # s /\ x \in Ssrcs
  BY <1>2
<1> HIDE DEF h0, old, u
<1>8. \A h \in Buckets : u.db[h] # Null => u.db[h] \in u.kept /\ SsrcHash(u.db[h]) = h /\ u.prev[u.db[h]] = Null
  <2> SUFFICES ASSUME NEW h \in Buckets, u.db[h] # Null
               PROVE  u.db[h] \in u.kept /\ SsrcHash(u.db[h]) = h /\ u.prev[u.db[h]] = Null
    OBVIOUS
  <2>1. CASE h = h0
    BY <1>1, <1>2, <2>1 DEF h0
  <2>2. CASE h # h0
    <3>1. u.db[h] = t.db[h] /\ t.db[h] \in t.kept /\ SsrcHash(t.db[h]) = h /\ t.prev[t.db[h]] = Null
      BY <1>1, <2>2 DEF Linked
    <3>2. t.db[h] # old
      BY <1>2, <1>3, <2>2, <3>1
    <3> QED BY <1>1, <1>7, <3>1, <3>2
  <2> QED BY <2>1, <2>2
<1>9. \A x \in u.kept : u.prev[x] = Null => u.db[SsrcHash(x)] = x
  <2> SUFFICES ASSUME NEW x \in u.kept, u.prev[x] = Null PROVE u.db[SsrcHash(x)] = x
    OBVIOUS
  <2>1. CASE x = s
    BY <1>1, <1>2, <2>1 DEF h0
  <2>2. CASE x # s
    <3>1. x \in t.kept /\ x # old /\ t.prev[x] = Null
      BY <1>1, <1>2, <2>2
    <3>2. t.db[SsrcHash(x)] = x /\ SsrcHash(x) \in Buckets
      BY <1>2, <3>1 DEF Linked
    <3>3. SsrcHash(x) # h0
      BY <3>1, <3>2 DEF old
    <3> QED BY <1>1, <3>2, <3>3
  <2> QED BY <2>1, <2>2
<1>10. \A x \in u.kept : u.prev[x] # Null => u.prev[x] \in u.kept /\ u.next[u.prev[x]] = x
  <2> SUFFICES ASSUME NEW x \in u.kept, u.prev[x] # Null PROVE u.prev[x] \in u.kept /\ u.next[u.prev[x]] = x
    OBVIOUS
  <2>1. x \in t.kept /\ x # s
    BY <1>1, <1>2
  <2>2. CASE x = old
    BY <1>1, <1>2, <2>1, <2>2
  <2>3. CASE x # old
    <3>1. u.prev[x] = t.prev[x] /\ t.prev[x] \in t.kept /\ t.next[t.prev[x]] = x
      BY <1>1, <1>2, <2>1, <2>3 DEF Linked
    <3> QED BY <1>1, <1>7, <3>1
  <2> QED BY <2>2, <2>3
<1>11. \A x \in u.kept : u.next[x] # Null =>
          u.next[x] \in u.kept /\ SsrcHash(u.next[x]) = SsrcHash(x) /\ u.prev[u.next[x]] = x
  <2> SUFFICES ASSUME NEW x \in u.kept, u.next[x] # Null
               PROVE  u.next[x] \in u.kept /\ SsrcHash(u.next[x]) = SsrcHash(x) /\ u.prev[u.next[x]] = x
    OBVIOUS
  <2>1. CASE x = s
    BY <1>1, <1>2, <1>3, <2>1 DEF h0
  <2>2. CASE x # s
    <3>1. x \in t.kept /\ u.next[x] = t.next[x]
      BY <1>1, <1>2, <2>2
    <3>2. t.next[x] \in t.kept /\ SsrcHash(t.next[x]) = SsrcHash(x) /\ t.prev[t.next[x]] = x
      BY <3>1 DEF Linked
    <3>3. t.next[x] # old
      BY <1>6, <3>1
    <3> QED BY <1>1, <1>7, <3>1, <3>2, <3>3
  <2> QED BY <2>1, <2>2
<1>12. \A S \in SUBSET u.kept : S # {} => \E x \in S : u.prev[x] \notin S
  <2> SUFFICES ASSUME NEW S \in SUBSET u.kept, S # {} PROVE \E x \in S : u.prev[x] \notin S
    OBVIOUS
  <2>1. Null \notin S
    BY <1>1, <1>2
  <2>2. CASE s \in S
    BY <1>1, <2>1, <2>2
  <2>3. CASE s \notin S
    <3>1. S \in SUBSET t.kept
      BY <1>1, <2>3
    <3>2. PICK x \in S : t.prev[x] \notin S
      BY <3>1 DEF Linked
    <3>3. u.prev[x] = t.prev[x] \/ u.prev[x] = s
      BY <1>1, <1>2, <2>3, <3>1
    <3> QED BY <2>3, <3>2, <3>3
  <2> QED BY <2>2, <2>3
<1>13. MeIsLast(t) => MeIsLast(u)
  BY <1>1, <1>7 DEF MeIsLast
<1>14. Linked(u)
  BY <1>8, <1>9, <1>10, <1>11, <1>12 DEF Linked
<1> QED BY <1>1, <1>13, <1>14 DEF u

\* The links that are left, one by one.
LEMMA UnlinkFields ==
  ASSUME NEW t \in Links, Linked(t), NEW s \in t.kept
  PROVE  LET u == Unlink(t, s)
         IN  /\ u \in Links
             /\ u.kept = t.kept \ {s}
             /\ t.prev[s] = Null <=> t.db[SsrcHash(s)] = s
             /\ \A h \in Buckets : u.db[h] = IF t.prev[s] = Null /\ h = SsrcHash(s) THEN t.next[s] ELSE t.db[h]
             /\ \A x \in Ssrcs : u.next[x] = IF t.prev[s] # Null /\ x = t.prev[s] THEN t.next[s] ELSE t.next[x]
             /\ \A x \in Ssrcs : u.prev[x] = IF x = t.next[s] THEN t.prev[s] ELSE t.prev[x]
<1>1. SsrcHash(s) \in Buckets /\ s # Null /\ s \in Ssrcs
  BY HashType DEF Links
<1> DEFINE u == Unlink(t, s)
    first == t.db[SsrcHash(s)] = s
<1>2. /\ t.prev[s] \in Ssrcs \cup {Null} /\ t.next[s] \in Ssrcs \cup {Null} /\ t.kept \in SUBSET Ssrcs
      /\ t.db \in [Buckets -> Ssrcs \cup {Null}] /\ t.next \in [Ssrcs -> Ssrcs \cup {Null}]
      /\ t.prev \in [Ssrcs -> Ssrcs \cup {Null}]
  BY <1>1 DEF Links
<1>3. t.prev[s] = Null <=> first
  BY <1>1 DEF Linked
<1>4. t.prev[s] # Null => t.prev[s] \in Ssrcs
  BY <1>2
<1>5. u.db = IF first THEN [t.db EXCEPT ![SsrcHash(s)] = t.next[s]] ELSE t.db
  BY DEF Unlink
<1>6. u.next = IF first THEN t.next ELSE [t.next EXCEPT ![t.prev[s]] = t.next[s]]
  BY DEF Unlink
<1>7. u.prev = [x \in Ssrcs |-> IF x = t.next[s] THEN (IF first THEN Null ELSE t.prev[s]) ELSE t.prev[x]]
  BY DEF Unlink
<1>8. u.kept = t.kept \ {s}
  BY DEF Unlink
<1>9. u = [db |-> u.db, next |-> u.next, prev |-> u.prev, kept |-> u.kept]
  BY DEF Unlink
<1> HIDE DEF u, first
<1>10. u.db \in [Buckets -> Ssrcs \cup {Null}] /\ \A h \in Buckets : u.db[h] = IF t.prev[s] = Null /\ h = SsrcHash(s) THEN t.next[s] ELSE t.db[h]
  BY <1>1, <1>2, <1>3, <1>5
<1>11. u.next \in [Ssrcs -> Ssrcs \cup {Null}] /\ \A x \in Ssrcs : u.next[x] = IF t.prev[s] # Null /\ x = t.prev[s] THEN t.next[s] ELSE t.next[x]
  BY <1>2, <1>3, <1>4, <1>6
<1>12. u.prev \in [Ssrcs -> Ssrcs \cup {Null}] /\ \A x \in Ssrcs : u.prev[x] = IF x = t.next[s] THEN t.prev[s] ELSE t.prev[x]
  BY <1>2, <1>3, <1>7
<1>13. u \in Links
  BY <1>2, <1>8, <1>9, <1>10, <1>11, <1>12 DEF Links
<1> QED BY <1>3, <1>8, <1>10, <1>11, <1>12, <1>13 DEF u, first

\* A source that leaves its chain, the first of it or not, leaves it linked.
LEMMA UnlinkLinked ==
  ASSUME NEW t \in Links, Linked(t), NEW s \in t.kept
  PROVE  LET u == Unlink(t, s)
         IN  /\ u \in Links /\ Linked(u) /\ u.kept = t.kept \ {s}
             /\ MeIsLast(t) /\ s # Me => MeIsLast(u)
             /\ \A x \in u.kept : u.prev[x] = IF x = t.next[s] THEN t.prev[s] ELSE t.prev[x]
<1> DEFINE u == Unlink(t, s)
    p == t.prev[s]
    n == t.next[s]
<1>1. /\ u \in Links
      /\ u.kept = t.kept \ {s}
      /\ p = Null <=> t.db[SsrcHash(s)] = s
      /\ \A h \in Buckets : u.db[h] = IF p = Null /\ h = SsrcHash(s) THEN n ELSE t.db[h]
      /\ \A x \in Ssrcs : u.next[x] = IF p # Null /\ x = p THEN n ELSE t.next[x]
      /\ \A x \in Ssrcs : u.prev[x] = IF x = n THEN p ELSE t.prev[x]
  BY UnlinkFields
<1>2. /\ SsrcHash(s) \in Buckets /\ s # Null /\ s \in Ssrcs
      /\ \A x \in t.kept : x # Null /\ x \in Ssrcs /\ SsrcHash(x) \in Buckets
      /\ t.kept \subseteq Ssrcs
  BY HashType DEF Links
<1>3. p # Null => p \in t.kept /\ t.next[p] = s /\ SsrcHash(p) = SsrcHash(s)
  BY <1>2 DEF Linked
<1>4. n # Null => n \in t.kept /\ t.prev[n] = s /\ SsrcHash(n) = SsrcHash(s)
  BY DEF Linked
<1>5. p # s /\ n # s
  <2>1. {s} \in SUBSET t.kept /\ {s} # {}
    OBVIOUS
  <2>2. p # s
    <3>1. PICK x \in {s} : t.prev[x] \notin {s}
      BY <2>1 DEF Linked
    <3> QED BY <3>1
  <2>3. ASSUME n = s PROVE FALSE
    <3>1. t.prev[n] = s /\ t.prev[s] = s
      BY <1>2, <1>4, <2>3
    <3> QED BY <2>2, <3>1
  <2> QED BY <2>2, <2>3
<1>6. \A x \in t.kept : x # n /\ x # s => t.prev[x] # s
  BY <1>2 DEF Linked
<1>7. \A x \in t.kept : x # p /\ x # s => t.next[x] # s
  BY <1>2 DEF Linked
<1>8. \A h \in Buckets : t.db[h] # Null => t.db[h] \in t.kept /\ SsrcHash(t.db[h]) = h /\ t.prev[t.db[h]] = Null
  BY DEF Linked
<1>9. \A x \in t.kept : t.prev[x] = Null => t.db[SsrcHash(x)] = x
  BY DEF Linked
<1>10. \A x \in t.kept : t.prev[x] # Null => t.prev[x] \in t.kept /\ t.next[t.prev[x]] = x
  BY DEF Linked
<1>11. \A x \in t.kept : t.next[x] # Null => t.next[x] \in t.kept /\ SsrcHash(t.next[x]) = SsrcHash(x) /\ t.prev[t.next[x]] = x
  BY DEF Linked
<1> HIDE DEF u, p, n
<1>12. \A h \in Buckets : u.db[h] # Null => u.db[h] \in u.kept /\ SsrcHash(u.db[h]) = h /\ u.prev[u.db[h]] = Null
  <2> SUFFICES ASSUME NEW h \in Buckets, u.db[h] # Null
               PROVE  u.db[h] \in u.kept /\ SsrcHash(u.db[h]) = h /\ u.prev[u.db[h]] = Null
    OBVIOUS
  <2>1. CASE p = Null /\ h = SsrcHash(s)
    BY <1>1, <1>2, <1>4, <1>5, <2>1
  <2>2. CASE ~ (p = Null /\ h = SsrcHash(s))
    <3>1. u.db[h] = t.db[h]
      BY <1>1, <2>2
    <3>2. t.db[h] \in t.kept /\ SsrcHash(t.db[h]) = h /\ t.prev[t.db[h]] = Null
      BY <1>8, <3>1
    <3>3. t.db[h] # s
      BY <1>1, <2>2, <3>2
    <3>4. t.db[h] # n
      BY <1>2, <1>4, <3>2
    <3> QED BY <1>1, <1>2, <3>1, <3>2, <3>3, <3>4
  <2> QED BY <2>1, <2>2
<1>13. \A x \in u.kept : u.prev[x] = Null => u.db[SsrcHash(x)] = x
  <2> SUFFICES ASSUME NEW x \in u.kept, u.prev[x] = Null PROVE u.db[SsrcHash(x)] = x
    OBVIOUS
  <2>1. x \in t.kept /\ x # s /\ x \in Ssrcs /\ x # Null /\ SsrcHash(x) \in Buckets
    BY <1>1, <1>2
  <2>2. CASE x = n
    <3>1. p = Null /\ SsrcHash(x) = SsrcHash(s)
      BY <1>1, <1>4, <2>1, <2>2
    <3> QED BY <1>1, <2>1, <2>2, <3>1
  <2>3. CASE x # n
    <3>1. t.prev[x] = Null /\ t.db[SsrcHash(x)] = x
      BY <1>1, <1>9, <2>1, <2>3
    <3>2. ~ (p = Null /\ SsrcHash(x) = SsrcHash(s))
      BY <1>1, <2>1, <3>1
    <3> QED BY <1>1, <2>1, <3>1, <3>2
  <2> QED BY <2>2, <2>3
<1>14. \A x \in u.kept : u.prev[x] # Null => u.prev[x] \in u.kept /\ u.next[u.prev[x]] = x
  <2> SUFFICES ASSUME NEW x \in u.kept, u.prev[x] # Null PROVE u.prev[x] \in u.kept /\ u.next[u.prev[x]] = x
    OBVIOUS
  <2>1. x \in t.kept /\ x # s /\ x \in Ssrcs
    BY <1>1, <1>2
  <2>2. CASE x = n
    <3>1. u.prev[x] = p /\ p # Null
      BY <1>1, <2>1, <2>2
    <3> QED BY <1>1, <1>2, <1>3, <1>5, <2>2, <3>1
  <2>3. CASE x # n
    <3>1. u.prev[x] = t.prev[x]
      BY <1>1, <2>1, <2>3
    <3>2. t.prev[x] \in t.kept /\ t.next[t.prev[x]] = x /\ t.prev[x] # s
      BY <1>6, <1>10, <2>1, <2>3, <3>1
    <3>3. ~ (p # Null /\ t.prev[x] = p)
      BY <1>3, <2>1, <3>2
    <3> QED BY <1>1, <1>2, <3>1, <3>2, <3>3
  <2> QED BY <2>2, <2>3
<1>15. \A x \in u.kept : u.next[x] # Null =>
          u.next[x] \in u.kept /\ SsrcHash(u.next[x]) = SsrcHash(x) /\ u.prev[u.next[x]] = x
  <2> SUFFICES ASSUME NEW x \in u.kept, u.next[x] # Null
               PROVE  u.next[x] \in u.kept /\ SsrcHash(u.next[x]) = SsrcHash(x) /\ u.prev[u.next[x]] = x
    OBVIOUS
  <2>1. x \in t.kept /\ x # s /\ x \in Ssrcs /\ x # Null
    BY <1>1, <1>2
  <2>2. CASE p # Null /\ x = p
    <3>1. u.next[x] = n /\ n # Null
      BY <1>1, <2>1, <2>2
    <3> QED BY <1>1, <1>2, <1>3, <1>4, <1>5, <2>2, <3>1
  <2>3. CASE ~ (p # Null /\ x = p)
    <3>1. u.next[x] = t.next[x]
      BY <1>1, <2>1, <2>3
    <3>2. t.next[x] \in t.kept /\ SsrcHash(t.next[x]) = SsrcHash(x) /\ t.prev[t.next[x]] = x /\ t.next[x] # s
      BY <1>7, <1>11, <2>1, <2>3, <3>1
    <3>3. t.next[x] # n
      BY <1>2, <1>4, <2>1, <3>2
    <3> QED BY <1>1, <1>2, <3>1, <3>2, <3>3
  <2> QED BY <2>2, <2>3
<1>16. \A S \in SUBSET u.kept : S # {} => \E x \in S : u.prev[x] \notin S
  <2> SUFFICES ASSUME NEW S \in SUBSET u.kept, S # {} PROVE \E x \in S : u.prev[x] \notin S
    OBVIOUS
  <2>1. /\ S \in SUBSET t.kept /\ s \notin S /\ Null \notin S
        /\ \A x \in S : x \in Ssrcs
    BY <1>1, <1>2
  <2>2. CASE n \notin S
    <3>1. PICK x \in S : t.prev[x] \notin S
      BY <2>1 DEF Linked
    <3> QED BY <1>1, <2>1, <2>2, <3>1
  <2>3. CASE n \in S
    <3>1. S \cup {s} \in SUBSET t.kept
      BY <2>1
    <3>2. PICK x \in S \cup {s} : t.prev[x] \notin S \cup {s}
      BY <3>1 DEF Linked
    <3>3. CASE x = s
      <4>1. u.prev[n] = p /\ p \notin S
        BY <1>1, <2>1, <2>3, <3>2, <3>3 DEF p
      <4> QED BY <2>3, <4>1
    <3>4. CASE x # s
      <4>1. x \in S /\ x # n
        BY <1>4, <2>1, <2>3, <3>2, <3>4
      <4> QED BY <1>1, <2>1, <3>2, <4>1
    <3> QED BY <3>3, <3>4
  <2> QED BY <2>2, <2>3
<1>17. MeIsLast(t) /\ s # Me => MeIsLast(u)
  <2> SUFFICES ASSUME MeIsLast(t), s # Me PROVE MeIsLast(u)
    OBVIOUS
  <2>1. Me \in u.kept /\ Me \in Ssrcs /\ t.next[Me] = Null
    BY <1>1, SsrcAssumption DEF MeIsLast
  <2>2. ~ (p # Null /\ Me = p)
    BY <1>2, <1>3, <2>1
  <2> QED BY <1>1, <2>1, <2>2 DEF MeIsLast
<1>18. Linked(u)
  BY <1>12, <1>13, <1>14, <1>15, <1>16 DEF Linked
<1>19. \A x \in u.kept : u.prev[x] = IF x = n THEN p ELSE t.prev[x]
  BY <1>1, <1>2
<1> QED BY <1>1, <1>17, <1>18, <1>19 DEF u, p, n

-----------------------------------------------------------------------------
(* The database                                                              *)

Dbs ==
  [table : Links, count : Int, rr : SUBSET (Ssrcs \X Ssrcs), sender : SUBSET Ssrcs,
   senders : Int, gotBye : SUBSET Ssrcs, told : SUBSET Ssrcs]

\* What the invariant says of the database, but for the flags of the sources.
Sound(d) ==
  /\ d \in Dbs /\ Linked(d.table)
  /\ d.count = Cardinality(d.table.kept) /\ d.told = d.table.kept \ {Me}
  /\ d.rr \subseteq d.table.kept \X d.table.kept

\* Our source is the last of its chain, unless it was lost, and the flags are of
\* sources that are kept.
Whole(d) == /\ Sound(d) /\ (~lost => MeIsLast(d.table))
            /\ d.sender \subseteq d.table.kept /\ d.gotBye \subseteq d.table.kept

\* The types of the fields.
LEMMA DbFields ==
  ASSUME NEW d \in Dbs
  PROVE  /\ d.table \in Links /\ d.count \in Int /\ d.rr \in SUBSET (Ssrcs \X Ssrcs)
         /\ d.sender \in SUBSET Ssrcs /\ d.senders \in Int /\ d.gotBye \in SUBSET Ssrcs
         /\ d.told \in SUBSET Ssrcs /\ d.table.kept \in SUBSET Ssrcs
  BY DEF Dbs, Links

\* Counted sets of sources.
LEMMA KeptCount ==
  ASSUME NEW S \in SUBSET Ssrcs
  PROVE  /\ IsFiniteSet(S) /\ Cardinality(S) \in Nat
         /\ \A s : s \notin S => Cardinality(S \cup {s}) = Cardinality(S) + 1
         /\ \A s : s \in S => Cardinality(S \ {s}) = Cardinality(S) - 1
<1>1. IsFiniteSet(S)
  BY SsrcAssumption, FS_Subset
<1> QED BY <1>1, FS_CardinalityType, FS_AddElement, FS_RemoveElement

\* A source that is not known is made the first of its chain; one that is, is found.
LEMMA CreateSourceSound ==
  ASSUME NEW d, Sound(d), NEW s \in Ssrcs
  PROVE  LET e == CreateSource(d, s)
         IN  /\ Sound(e) /\ e.table.kept = d.table.kept \cup {s}
             /\ MeIsLast(d.table) => MeIsLast(e.table)
             /\ e.rr = d.rr /\ e.sender = d.sender /\ e.senders = d.senders /\ e.gotBye = d.gotBye
<1> DEFINE e == CreateSource(d, s)
    t == d.table
<1>1. d \in Dbs /\ t \in Links /\ Linked(t) /\ s \in Ssrcs \cup {Null}
  BY DbFields DEF Sound
<1>2. Known(t, s) <=> s \in t.kept
  BY <1>1, KnownIsKept
<1>3. CASE s \in t.kept
  <2>1. e = d
    BY <1>2, <1>3 DEF CreateSource
  <2>2. t.kept \cup {s} = t.kept
    BY <1>3
  <2> QED BY <2>1, <2>2
<1>4. CASE s \notin t.kept
  <2>1. e = [d EXCEPT !.table = Linking(t, s), !.count = @ + 1, !.told = @ \cup ({s} \ {Me})]
    BY <1>2, <1>4 DEF CreateSource, Linking
  <2>2. /\ Linking(t, s) \in Links /\ Linked(Linking(t, s)) /\ Linking(t, s).kept = t.kept \cup {s}
        /\ MeIsLast(t) => MeIsLast(Linking(t, s))
    BY <1>1, <1>4, LinkingLinked
  <2> HIDE DEF e
  <2>3a. e = [table |-> Linking(t, s), count |-> d.count + 1, rr |-> d.rr, sender |-> d.sender,
              senders |-> d.senders, gotBye |-> d.gotBye, told |-> d.told \cup ({s} \ {Me})]
    BY <1>1, <2>1 DEF Dbs
  <2>3b. d.told \cup ({s} \ {Me}) \in SUBSET Ssrcs /\ d.count + 1 \in Int
    BY <1>1, DbFields
  <2>3. /\ e.table = Linking(t, s) /\ e.count = d.count + 1 /\ e.told = d.told \cup ({s} \ {Me})
        /\ e.rr = d.rr /\ e.sender = d.sender /\ e.senders = d.senders /\ e.gotBye = d.gotBye
        /\ e \in Dbs
    BY <1>1, <2>2, <2>3a, <2>3b, DbFields DEF Dbs
  <2>4. Cardinality(t.kept \cup {s}) = Cardinality(t.kept) + 1
    BY <1>1, <1>4, DbFields, KeptCount
  <2>5. e.count = Cardinality(e.table.kept)
    BY <2>2, <2>3, <2>4 DEF Sound
  <2>6. e.told = e.table.kept \ {Me} /\ e.rr \subseteq e.table.kept \X e.table.kept
    BY <2>2, <2>3 DEF Sound
  <2>7. Sound(e)
    BY <2>2, <2>3, <2>5, <2>6 DEF Sound
  <2> QED BY <2>2, <2>3, <2>7 DEF e
<1> QED BY <1>3, <1>4

\* A source that is found leaves its chain, the count, the application and the reports.
LEMMA DeleteSourceSound ==
  ASSUME NEW d, Sound(d), NEW s \in Ssrcs \cup {Null}
  PROVE  LET e == DeleteSource(d, s)
         IN  /\ Sound(e) /\ e.table.kept = d.table.kept \ {s}
             /\ MeIsLast(d.table) /\ s # Me => MeIsLast(e.table)
             /\ e.sender = d.sender /\ e.senders = d.senders /\ e.gotBye = d.gotBye
             /\ s \in d.table.kept => \A x \in e.table.kept :
                  e.table.prev[x] = IF x = d.table.next[s] THEN d.table.prev[s] ELSE d.table.prev[x]
<1> DEFINE e == DeleteSource(d, s)
    t == d.table
<1>1. d \in Dbs /\ t \in Links /\ Linked(t)
  BY DbFields DEF Sound
<1>2. Known(t, s) <=> s \in t.kept
  BY <1>1, KnownIsKept
<1>3. CASE s \notin t.kept
  <2>1. e = d
    BY <1>2, <1>3 DEF DeleteSource
  <2>2. t.kept \ {s} = t.kept
    BY <1>3
  <2> QED BY <1>3, <2>1, <2>2
<1>4. CASE s \in t.kept
  <2>1. e = [d EXCEPT !.table = Unlink(t, s), !.count = @ - 1, !.rr = RemoveRr(@, s), !.told = @ \ {s}]
    BY <1>2, <1>4 DEF DeleteSource
  <2>2. /\ Unlink(t, s) \in Links /\ Linked(Unlink(t, s)) /\ Unlink(t, s).kept = t.kept \ {s}
        /\ MeIsLast(t) /\ s # Me => MeIsLast(Unlink(t, s))
        /\ \A x \in Unlink(t, s).kept : Unlink(t, s).prev[x] = IF x = t.next[s] THEN t.prev[s] ELSE t.prev[x]
    BY <1>1, <1>4, UnlinkLinked
  <2> HIDE DEF e
  <2>3. RemoveRr(d.rr, s) \in SUBSET (Ssrcs \X Ssrcs)
    BY <1>1, DbFields DEF RemoveRr
  <2>4a. e = [table |-> Unlink(t, s), count |-> d.count - 1, rr |-> RemoveRr(d.rr, s), sender |-> d.sender,
              senders |-> d.senders, gotBye |-> d.gotBye, told |-> d.told \ {s}]
    BY <1>1, <2>1 DEF Dbs
  <2>4b. d.told \ {s} \in SUBSET Ssrcs /\ d.count - 1 \in Int
    BY <1>1, DbFields
  <2>4. /\ e.table = Unlink(t, s) /\ e.count = d.count - 1 /\ e.told = d.told \ {s}
        /\ e.rr = RemoveRr(d.rr, s) /\ e.sender = d.sender /\ e.senders = d.senders /\ e.gotBye = d.gotBye
        /\ e \in Dbs
    BY <1>1, <2>2, <2>3, <2>4a, <2>4b, DbFields DEF Dbs
  <2>5. Cardinality(t.kept \ {s}) = Cardinality(t.kept) - 1
    BY <1>1, <1>4, DbFields, KeptCount
  <2>6. e.count = Cardinality(e.table.kept)
    BY <2>2, <2>4, <2>5 DEF Sound
  <2>7. e.told = e.table.kept \ {Me}
    BY <2>2, <2>4 DEF Sound
  <2>8. e.rr \subseteq e.table.kept \X e.table.kept
    BY <2>2, <2>4 DEF Sound, RemoveRr
  <2>9. Sound(e)
    BY <2>2, <2>4, <2>6, <2>7, <2>8 DEF Sound
  <2> QED BY <2>2, <2>4, <2>9 DEF e
<1> QED BY <1>3, <1>4

\* What is forgotten of the sources that were freed is not in any chain.
LEMMA ForgetSound ==
  ASSUME NEW d, Sound(d)
  PROVE  LET e == Forget(d)
         IN  /\ Sound(e) /\ e.table.kept = d.table.kept
             /\ MeIsLast(d.table) => MeIsLast(e.table)
             /\ e.sender = d.sender \cap d.table.kept /\ e.gotBye = d.gotBye \cap d.table.kept
             /\ e.senders = d.senders /\ e.rr = d.rr
<1> DEFINE t == d.table
    Of(links) == [s \in Ssrcs |-> IF s \in t.kept THEN links[s] ELSE Null]
    u == [db |-> t.db, next |-> Of(t.next), prev |-> Of(t.prev), kept |-> t.kept]
    e == Forget(d)
<1>1. d \in Dbs /\ t \in Links /\ Linked(t)
  BY DbFields DEF Sound
<1>2. /\ u.kept = t.kept /\ u.db = t.db /\ u \in Links
      /\ \A s \in t.kept : u.next[s] = t.next[s] /\ u.prev[s] = t.prev[s]
  BY <1>1 DEF Links
<1>3. e = [table |-> u, count |-> d.count, rr |-> d.rr, sender |-> d.sender \cap t.kept,
           senders |-> d.senders, gotBye |-> d.gotBye \cap t.kept, told |-> d.told]
  <2>1. e = [d EXCEPT !.sender = d.sender \cap t.kept, !.gotBye = d.gotBye \cap t.kept, !.table = u]
    BY Zenon DEF Forget
  <2> HIDE DEF u, e, t
  <2> QED BY <1>1, <2>1 DEF Dbs
<1> HIDE DEF u, e
<1>4. /\ e.table = u /\ e.count = d.count /\ e.told = d.told /\ e.rr = d.rr /\ e.senders = d.senders
      /\ e.sender = d.sender \cap t.kept /\ e.gotBye = d.gotBye \cap t.kept /\ e \in Dbs
  BY <1>1, <1>2, <1>3 DEF Dbs
<1>5. Linked(u)
  <2>1. /\ \A h \in Buckets : u.db[h] # Null =>
             /\ u.db[h] \in u.kept /\ SsrcHash(u.db[h]) = h
             /\ u.prev[u.db[h]] = Null
        /\ \A s \in u.kept : u.prev[s] = Null => u.db[SsrcHash(s)] = s
    BY <1>1, <1>2 DEF Linked
  <2>2. \A s \in u.kept : u.prev[s] # Null => u.prev[s] \in u.kept /\ u.next[u.prev[s]] = s
    BY <1>1, <1>2 DEF Linked
  <2>3. \A s \in u.kept : u.next[s] # Null =>
          /\ u.next[s] \in u.kept /\ SsrcHash(u.next[s]) = SsrcHash(s)
          /\ u.prev[u.next[s]] = s
    BY <1>1, <1>2 DEF Linked
  <2>4. \A S \in SUBSET u.kept : S # {} => \E s \in S : u.prev[s] \notin S
    <3> SUFFICES ASSUME NEW S \in SUBSET u.kept, S # {} PROVE \E s \in S : u.prev[s] \notin S
      OBVIOUS
    <3>1. S \in SUBSET t.kept
      BY <1>2
    <3>2. PICK s \in S : t.prev[s] \notin S
      BY <1>1, <3>1 DEF Linked
    <3> QED BY <1>2, <3>1, <3>2
  <2> QED BY <2>1, <2>2, <2>3, <2>4 DEF Linked
<1>6. MeIsLast(t) => MeIsLast(u)
  BY <1>2 DEF MeIsLast
<1>7. Sound(e)
  BY <1>2, <1>4, <1>5 DEF Sound
<1> QED BY <1>2, <1>4, <1>6, <1>7 DEF e

-----------------------------------------------------------------------------
(* Packets                                                                   *)

\* Sources made one after the other are all kept in the end.
LEMMA CreateAllSound ==
  ASSUME NEW d, Sound(d), NEW list \in Seq(Ssrcs)
  PROVE  LET e == CreateAll(d, list)
         IN  /\ Sound(e) /\ (MeIsLast(d.table) => MeIsLast(e.table))
             /\ e.table.kept = d.table.kept \cup ToSet(list)
             /\ e.rr = d.rr /\ e.sender = d.sender /\ e.senders = d.senders /\ e.gotBye = d.gotBye
<1> DEFINE n == Len(list)
    Step(k, x) == CreateSource(x, list[k])
    Same(e) == e.rr = d.rr /\ e.sender = d.sender /\ e.senders = d.senders /\ e.gotBye = d.gotBye
    Upto(k) == {list[j] : j \in 1 .. k}
    Ours(e) == MeIsLast(d.table) => MeIsLast(e.table)
    E == [k \in 0 .. n |-> {e \in Dbs : Sound(e) /\ Ours(e) /\ e.table.kept = d.table.kept \cup Upto(k) /\ Same(e)}]
    at == CHOOSE g : g = [k \in 0 .. n |-> IF k = 0 THEN d ELSE Step(k, g[k - 1])]
    G == [p \in (1 .. n) \X Dbs |-> Step(p[1], p[2])]
<1>1. n \in Nat
  OBVIOUS
<1>2. d \in E[0]
  <2>1. d \in Dbs
    BY DEF Sound
  <2>2. Upto(0) = {}
    OBVIOUS
  <2> QED BY <1>1, <2>1, <2>2
<1>3. \A k \in 1 .. n : \A x \in E[k - 1] : Step(k, x) \in E[k]
  <2> SUFFICES ASSUME NEW k \in 1 .. n, NEW x \in E[k - 1] PROVE Step(k, x) \in E[k]
    OBVIOUS
  <2>1. k \in 0 .. n /\ k - 1 \in 0 .. n /\ list[k] \in Ssrcs
    BY <1>1
  <2>2. Sound(x) /\ Ours(x) /\ x.table.kept = d.table.kept \cup Upto(k - 1) /\ Same(x)
    BY <2>1
  <2>3. /\ Sound(Step(k, x)) /\ Step(k, x).table.kept = x.table.kept \cup {list[k]}
        /\ Ours(Step(k, x)) /\ Same(Step(k, x))
    BY <2>1, <2>2, CreateSourceSound
  <2>4. Upto(k) = Upto(k - 1) \cup {list[k]}
    <3>1. 1 .. k = (1 .. k - 1) \cup {k}
      BY <2>1
    <3> QED BY <3>1
  <2>5. Step(k, x) \in Dbs
    BY <2>3 DEF Sound
  <2> HIDE DEF Step, Upto, Same, Ours
  <2> QED BY <2>1, <2>2, <2>3, <2>4, <2>5
<1>4. \A k \in 1 .. n : \A x \in E[k - 1] : x \in Dbs /\ G[<<k, x>>] = Step(k, x)
  <2> HIDE DEF Step
  <2> SUFFICES ASSUME NEW k \in 1 .. n, NEW x \in E[k - 1] PROVE x \in Dbs /\ G[<<k, x>>] = Step(k, x)
    OBVIOUS
  <2>1. k - 1 \in 0 .. n /\ x \in Dbs
    BY <1>1
  <2>2. <<k, x>> \in (1 .. n) \X Dbs
    BY <2>1
  <2> HIDE DEF E
  <2> QED BY <2>1, <2>2
<1>5. CreateAll(d, list) = at[n]
  BY Zenon DEF CreateAll
<1> HIDE DEF n, E, Step, G
<1>6. PICK f : Recursive(f, n, d, G) /\ \A k \in 0 .. n : f[k] \in E[k]
  <2>1. \A k \in 1 .. n : \A x \in E[k - 1] : G[<<k, x>>] \in E[k]
    BY <1>3, <1>4
  <2> QED BY <1>1, <1>2, <2>1, Recursion
<1>7. f = [k \in 0 .. n |-> IF k = 0 THEN d ELSE Step(k, f[k - 1])]
  <2>1. \A k \in 0 .. n : k # 0 => k \in 1 .. n /\ k - 1 \in 0 .. n
    BY <1>1
  <2>2. \A k \in 0 .. n : k # 0 => G[<<k, f[k - 1]>>] = Step(k, f[k - 1])
    BY <1>4, <1>6, <2>1
  <2> QED BY <1>6, <2>2 DEF Recursive
<1>8. at = [k \in 0 .. n |-> IF k = 0 THEN d ELSE Step(k, at[k - 1])]
  BY <1>7
<1> HIDE DEF at
<1>9. \A k \in 0 .. n : at[k] \in E[k]
  <2>1. at[0] \in E[0]
    BY <1>1, <1>2, <1>8
  <2>2. \A k \in 1 .. n : at[k] = Step(k, at[k - 1])
    BY <1>1, <1>8
  <2>3. \A k \in 1 .. n : at[k - 1] \in E[k - 1] => at[k] \in E[k]
    BY <1>3, <2>2
  <2> QED BY <1>1, <2>1, <2>3, Follows
<1>10. at[n] \in E[n]
  BY <1>1, <1>9
<1>11. Upto(n) = ToSet(list)
  BY DEF n, ToSet
<1> QED BY <1>1, <1>5, <1>10, <1>11 DEF E

\* The fields of a database of which some others are changed.
LEMMA MarkSenderSound ==
  ASSUME NEW d, Whole(d), NEW s \in d.table.kept
  PROVE  LET e == MarkSender(d, s)
         IN  /\ Whole(e) /\ e.table = d.table /\ e.rr = d.rr
             /\ Cardinality(d.sender) <= d.senders => Cardinality(e.sender) <= e.senders
<1> DEFINE e == MarkSender(d, s)
<1>1. d \in Dbs /\ Sound(d)
  BY DEF Whole, Sound
<1>2. e = [table |-> d.table, count |-> d.count, rr |-> d.rr, sender |-> d.sender \cup {s},
           senders |-> IF s \in d.sender THEN d.senders ELSE d.senders + 1, gotBye |-> d.gotBye, told |-> d.told]
  <2> DEFINE more == IF s \in d.sender THEN d.senders ELSE d.senders + 1
  <2>1. e = [d EXCEPT !.sender = d.sender \cup {s}, !.senders = more]
    BY Zenon DEF MarkSender
  <2> HIDE DEF e, more
  <2>2. e = [table |-> d.table, count |-> d.count, rr |-> d.rr, sender |-> d.sender \cup {s},
             senders |-> more, gotBye |-> d.gotBye, told |-> d.told]
    BY <1>1, <2>1 DEF Dbs
  <2> QED BY <2>2 DEF more
<1>3. d.sender \cup {s} \in SUBSET Ssrcs /\ (IF s \in d.sender THEN d.senders ELSE d.senders + 1) \in Int
  BY <1>1, DbFields
<1> HIDE DEF e
<1>4. /\ e.table = d.table /\ e.count = d.count /\ e.rr = d.rr /\ e.told = d.told /\ e.gotBye = d.gotBye
      /\ e.sender = d.sender \cup {s} /\ e.senders = IF s \in d.sender THEN d.senders ELSE d.senders + 1
  BY <1>2
<1>5. e \in Dbs
  BY <1>1, <1>2, <1>3, DbFields DEF Dbs
<1>6. Whole(e)
  BY <1>4, <1>5 DEF Whole, Sound
<1>7. Cardinality(d.sender) <= d.senders => Cardinality(e.sender) <= e.senders
  <2>1. CASE s \in d.sender
    <3>1. e.sender = d.sender /\ e.senders = d.senders
      BY <1>4, <2>1
    <3> QED BY <3>1
  <2>2. CASE s \notin d.sender
    <3>1. Cardinality(d.sender) \in Nat /\ Cardinality(e.sender) = Cardinality(d.sender) + 1
      BY <1>1, <1>4, <2>2, DbFields, KeptCount
    <3> QED BY <1>1, <1>4, <2>2, <3>1, DbFields
  <2> QED BY <2>1, <2>2
<1> QED BY <1>4, <1>6, <1>7 DEF e

\* A database is whole after the sources of a list have been made.
LEMMA CreateAllWhole ==
  ASSUME NEW d, Whole(d), NEW list \in Seq(Ssrcs)
  PROVE  LET e == CreateAll(d, list)
         IN  /\ Whole(e) /\ e.table.kept = d.table.kept \cup ToSet(list)
             /\ e.rr = d.rr /\ e.sender = d.sender /\ e.senders = d.senders
  BY CreateAllSound DEF Whole

\* The same of a single source.
LEMMA CreateSourceWhole ==
  ASSUME NEW d, Whole(d), NEW s \in Ssrcs
  PROVE  LET e == CreateSource(d, s)
         IN  /\ Whole(e) /\ e.table.kept = d.table.kept \cup {s}
             /\ e.rr = d.rr /\ e.sender = d.sender /\ e.senders = d.senders
  BY CreateSourceSound DEF Whole

\* The sources of the blocks are made before what is reported of them is kept.
LEMMA ReportBlocksWhole ==
  ASSUME NEW d, Whole(d), NEW s \in d.table.kept, NEW blocks \in Seq(Ssrcs)
  PROVE  LET e == ReportBlocks(d, s, blocks)
         IN  /\ Whole(e) /\ d.table.kept \subseteq e.table.kept
             /\ e.rr = d.rr \cup {<<s, b>> : b \in ToSet(blocks)}
             /\ e.sender = d.sender /\ e.senders = d.senders
<1> DEFINE c == CreateAll(d, blocks)
    e == ReportBlocks(d, s, blocks)
    new == {<<s, b>> : b \in ToSet(blocks)}
<1>1. /\ Whole(c) /\ c.table.kept = d.table.kept \cup ToSet(blocks)
      /\ c.rr = d.rr /\ c.sender = d.sender /\ c.senders = d.senders
  BY CreateAllWhole
<1>2. c \in Dbs /\ Sound(c)
  BY <1>1 DEF Whole, Sound
<1>3. e = [c EXCEPT !.rr = @ \cup new]
  BY Zenon DEF ReportBlocks
<1>4. new \subseteq c.table.kept \X c.table.kept
  BY <1>1
<1> HIDE DEF c, e, new
<1>5. c.rr \cup new \in SUBSET (Ssrcs \X Ssrcs)
  BY <1>2, <1>4, DbFields
<1>6. e = [table |-> c.table, count |-> c.count, rr |-> c.rr \cup new, sender |-> c.sender,
           senders |-> c.senders, gotBye |-> c.gotBye, told |-> c.told]
  BY <1>2, <1>3 DEF Dbs
<1>7. e \in Dbs
  BY <1>2, <1>5, <1>6, DbFields DEF Dbs
<1>8. /\ e.table = c.table /\ e.count = c.count /\ e.rr = c.rr \cup new /\ e.told = c.told
      /\ e.sender = c.sender /\ e.senders = c.senders /\ e.gotBye = c.gotBye
  BY <1>6
<1>9. Whole(e)
  BY <1>1, <1>4, <1>7, <1>8 DEF Whole, Sound
<1> QED BY <1>1, <1>8, <1>9 DEF e, new

\* A report makes its source and those of its blocks.
LEMMA ProcessReportWhole ==
  ASSUME NEW d, Whole(d), NEW s \in Ssrcs, NEW type, NEW blocks \in Seq(Ssrcs)
  PROVE  LET e == ProcessReport(d, s, type, blocks)
         IN  /\ Whole(e)
             /\ {<<s, b>> : b \in ToSet(blocks)} \subseteq e.rr
             /\ Cardinality(d.sender) <= d.senders => Cardinality(e.sender) <= e.senders
<1> DEFINE c == CreateSource(d, s)
    m == IF type = "SR" THEN MarkSender(c, s) ELSE c
<1>1. Whole(c) /\ s \in c.table.kept /\ c.sender = d.sender /\ c.senders = d.senders
  BY CreateSourceWhole
<1>2. /\ Whole(m) /\ s \in m.table.kept
      /\ Cardinality(d.sender) <= d.senders => Cardinality(m.sender) <= m.senders
  <2> HIDE DEF c
  <2> QED BY <1>1, MarkSenderSound
<1>3. ProcessReport(d, s, type, blocks) = ReportBlocks(m, s, blocks)
  BY DEF ProcessReport
<1> HIDE DEF m
<1> QED BY <1>2, <1>3, ReportBlocksWhole

\* Goodbyes mark the sources that they make.
LEMMA ProcessByeWhole ==
  ASSUME NEW d, Whole(d), NEW list \in Seq(Ssrcs)
  PROVE  LET e == ProcessBye(d, list)
         IN  /\ Whole(e) /\ e.sender = d.sender /\ e.senders = d.senders
<1> DEFINE c == CreateAll(d, list)
    e == ProcessBye(d, list)
<1>1. /\ Whole(c) /\ c.table.kept = d.table.kept \cup ToSet(list)
      /\ c.sender = d.sender /\ c.senders = d.senders
  BY CreateAllWhole
<1>2. c \in Dbs /\ Sound(c)
  BY <1>1 DEF Whole, Sound
<1>3. e = [c EXCEPT !.gotBye = @ \cup ToSet(list)]
  BY Zenon DEF ProcessBye
<1>4. ToSet(list) \subseteq c.table.kept
  BY <1>1
<1> HIDE DEF c, e
<1>5. c.gotBye \cup ToSet(list) \in SUBSET Ssrcs
  BY <1>2, <1>4, DbFields
<1>6. e = [table |-> c.table, count |-> c.count, rr |-> c.rr, sender |-> c.sender,
           senders |-> c.senders, gotBye |-> c.gotBye \cup ToSet(list), told |-> c.told]
  BY <1>2, <1>3 DEF Dbs
<1>7. e \in Dbs
  BY <1>2, <1>5, <1>6, DbFields DEF Dbs
<1>8. /\ e.table = c.table /\ e.count = c.count /\ e.rr = c.rr /\ e.told = c.told
      /\ e.sender = c.sender /\ e.senders = c.senders /\ e.gotBye = c.gotBye \cup ToSet(list)
  BY <1>6
<1>9. Whole(e)
  BY <1>1, <1>4, <1>7, <1>8 DEF Whole, Sound
<1> QED BY <1>1, <1>8, <1>9 DEF e

\* The parts of a packet of RTCP one after the other.
LEMMA ProcessCtrlWhole ==
  ASSUME NEW d, Whole(d), NEW s \in Ssrcs, NEW type, NEW blocks \in Seq(Ssrcs),
         NEW about \in Seq(Ssrcs), NEW byes \in Seq(Ssrcs)
  PROVE  LET e == ProcessCtrl(d, s, type, blocks, about, byes)
         IN  /\ Whole(e)
             /\ Cardinality(d.sender) <= d.senders => Cardinality(e.sender) <= e.senders
<1> DEFINE p == ProcessReport(d, s, type, blocks)
    c == CreateAll(p, about)
<1>1. Whole(p) /\ (Cardinality(d.sender) <= d.senders => Cardinality(p.sender) <= p.senders)
  BY ProcessReportWhole
<1>2. Whole(c) /\ c.sender = p.sender /\ c.senders = p.senders
  <2> HIDE DEF p
  <2> QED BY <1>1, CreateAllWhole
<1>3. ProcessCtrl(d, s, type, blocks, about, byes) = ProcessBye(c, byes)
  BY DEF ProcessCtrl
<1> HIDE DEF c
<1>4. /\ Whole(ProcessBye(c, byes))
      /\ ProcessBye(c, byes).sender = c.sender /\ ProcessBye(c, byes).senders = c.senders
  BY <1>2, ProcessByeWhole
<1> QED BY <1>1, <1>2, <1>3, <1>4

-----------------------------------------------------------------------------
(* The list of all sources, and the housekeeping                             *)

\* A list of the sources of the first m chains, each once, that is in the order of the links.
IsListing(l, t, m) ==
  /\ l \in Seq(Ssrcs)
  /\ \A i \in 1 .. Len(l) : l[i] \in t.kept /\ SsrcHash(l[i]) < m
  /\ \A i \in 1 .. Len(l) : t.prev[l[i]] # Null => \E j \in 1 .. i - 1 : l[j] = t.prev[l[i]]
  /\ \A i, j \in 1 .. Len(l) : i # j => l[i] # l[j]
  /\ \A s \in t.kept : SsrcHash(s) < m => \E i \in 1 .. Len(l) : l[i] = s

\* The first chain is the list of itself.
LEMMA FirstListing ==
  ASSUME NEW t \in Links, NEW c, IsChain(c, t, 0)
  PROVE  IsListing(c, t, 1)
<1>1. \A s \in t.kept : SsrcHash(s) \in Nat
  BY HashType DEF Links, Buckets
<1>2. \A i \in 1 .. Len(c) : c[i] \in t.kept /\ SsrcHash(c[i]) < 1
  BY DEF IsChain
<1>3. \A i \in 1 .. Len(c) : t.prev[c[i]] # Null => \E j \in 1 .. i - 1 : c[j] = t.prev[c[i]]
  <2> SUFFICES ASSUME NEW i \in 1 .. Len(c), t.prev[c[i]] # Null PROVE \E j \in 1 .. i - 1 : c[j] = t.prev[c[i]]
    OBVIOUS
  <2>1. i # 1 /\ t.prev[c[i]] = c[i - 1] /\ i - 1 \in 1 .. i - 1
    BY DEF IsChain
  <2> QED BY <2>1
<1>4. \A s \in t.kept : SsrcHash(s) < 1 => SsrcHash(s) = 0
  BY <1>1
<1> QED BY <1>2, <1>3, <1>4 DEF IsChain, IsListing

\* A chain after the list of those before it makes the list of them all.
LEMMA NextListing ==
  ASSUME NEW t \in Links, NEW m \in Buckets, NEW l, NEW c, IsListing(l, t, m), IsChain(c, t, m)
  PROVE  IsListing(l \o c, t, m + 1)
<1> DEFINE z == l \o c
<1>1. \A s \in t.kept : SsrcHash(s) \in Nat
  BY HashType DEF Links, Buckets
<1>2. l \in Seq(Ssrcs) /\ c \in Seq(Ssrcs) /\ m \in Nat
  BY DEF IsListing, IsChain, Buckets
<1>3. /\ z \in Seq(Ssrcs) /\ Len(z) = Len(l) + Len(c)
      /\ \A i \in 1 .. Len(l) : i \in 1 .. Len(z) /\ z[i] = l[i]
      /\ \A i \in 1 .. Len(c) : Len(l) + i \in 1 .. Len(z) /\ z[Len(l) + i] = c[i]
      /\ \A i \in 1 .. Len(z) : i > Len(l) => i - Len(l) \in 1 .. Len(c) /\ z[i] = c[i - Len(l)]
      /\ Len(l) \in Nat /\ Len(c) \in Nat
  BY <1>2
<1> HIDE DEF z
<1>4. \A i \in 1 .. Len(z) : /\ z[i] \in t.kept
                             /\ IF i <= Len(l) THEN SsrcHash(z[i]) < m ELSE SsrcHash(z[i]) = m
  <2> SUFFICES ASSUME NEW i \in 1 .. Len(z)
               PROVE  z[i] \in t.kept /\ IF i <= Len(l) THEN SsrcHash(z[i]) < m ELSE SsrcHash(z[i]) = m
    OBVIOUS
  <2>1. CASE i <= Len(l)
    BY <1>3, <2>1 DEF IsListing
  <2>2. CASE ~ (i <= Len(l))
    <3>1. i > Len(l)
      BY <1>3, <2>2
    <3> QED BY <1>3, <2>2, <3>1 DEF IsChain
  <2> QED BY <2>1, <2>2
<1>5. \A i \in 1 .. Len(z) : z[i] \in t.kept /\ SsrcHash(z[i]) < m + 1
  BY <1>1, <1>2, <1>4
<1>6. \A i \in 1 .. Len(z) : t.prev[z[i]] # Null => \E j \in 1 .. i - 1 : z[j] = t.prev[z[i]]
  <2> SUFFICES ASSUME NEW i \in 1 .. Len(z), t.prev[z[i]] # Null PROVE \E j \in 1 .. i - 1 : z[j] = t.prev[z[i]]
    OBVIOUS
  <2>1. CASE i <= Len(l)
    <3>1. i \in 1 .. Len(l) /\ z[i] = l[i]
      BY <1>3, <2>1
    <3>2. PICK j \in 1 .. i - 1 : l[j] = t.prev[l[i]]
      BY <3>1 DEF IsListing
    <3>3. j \in 1 .. Len(l)
      BY <1>3, <3>1
    <3> QED BY <1>3, <3>1, <3>2, <3>3
  <2>2. CASE ~ (i <= Len(l))
    <3>1. i - Len(l) \in 1 .. Len(c) /\ z[i] = c[i - Len(l)]
      BY <1>3, <2>2
    <3>2. i - Len(l) # 1 /\ t.prev[z[i]] = c[i - Len(l) - 1]
      BY <3>1 DEF IsChain
    <3>3. i - Len(l) - 1 \in 1 .. Len(c) /\ Len(l) + (i - Len(l) - 1) = i - 1 /\ i - 1 \in 1 .. i - 1
      BY <1>3, <3>1, <3>2
    <3> QED BY <1>3, <3>2, <3>3
  <2> QED BY <2>1, <2>2
<1>7. \A i, j \in 1 .. Len(z) : i # j => z[i] # z[j]
  <2>1. ASSUME NEW i \in 1 .. Len(z), NEW j \in 1 .. Len(z), i < j PROVE z[i] # z[j]
    <3>1. CASE j <= Len(l)
      <4>1. i \in 1 .. Len(l) /\ j \in 1 .. Len(l) /\ i # j
        BY <1>3, <2>1, <3>1
      <4> QED BY <1>3, <4>1 DEF IsListing
    <3>2. CASE i <= Len(l) /\ ~ (j <= Len(l))
      <4>1. SsrcHash(z[i]) < m /\ SsrcHash(z[j]) = m
        BY <1>4, <3>2
      <4> QED BY <1>2, <4>1
    <3>3. CASE ~ (i <= Len(l))
      <4>1. /\ i - Len(l) \in 1 .. Len(c) /\ z[i] = c[i - Len(l)]
            /\ j - Len(l) \in 1 .. Len(c) /\ z[j] = c[j - Len(l)]
            /\ i - Len(l) # j - Len(l)
        BY <1>3, <2>1, <3>3
      <4> QED BY <4>1 DEF IsChain
    <3> QED BY <1>3, <3>1, <3>2, <3>3
  <2>2. \A i, j \in 1 .. Len(z) : i # j => i < j \/ j < i
    BY <1>3
  <2> QED BY <2>1, <2>2
<1>8. \A s \in t.kept : SsrcHash(s) < m + 1 => \E i \in 1 .. Len(z) : z[i] = s
  <2> SUFFICES ASSUME NEW s \in t.kept, SsrcHash(s) < m + 1 PROVE \E i \in 1 .. Len(z) : z[i] = s
    OBVIOUS
  <2>1. SsrcHash(s) < m \/ SsrcHash(s) = m
    BY <1>1, <1>2
  <2>2. CASE SsrcHash(s) < m
    <3>1. PICK i \in 1 .. Len(l) : l[i] = s
      BY <2>2 DEF IsListing
    <3> QED BY <1>3, <3>1
  <2>3. CASE SsrcHash(s) = m
    <3>1. PICK i \in 1 .. Len(c) : c[i] = s
      BY <2>3 DEF IsChain
    <3> QED BY <1>3, <3>1
  <2> QED BY <2>1, <2>2, <2>3
<1>9. IsListing(z, t, m + 1)
  BY <1>3, <1>5, <1>6, <1>7, <1>8 DEF IsListing
<1> QED BY <1>9 DEF z

\* The list of all sources has each that is kept, once, in the order of the links.
LEMMA ListedIs ==
  ASSUME NEW t \in Links, Linked(t)
  PROVE  IsListing(Listed(t), t, DbSize)
<1> DEFINE seqs == [i \in 1 .. DbSize |-> Chain(t, i - 1)]
    flatten == CHOOSE g : g = [i \in 1 .. Len(seqs) |-> IF i = 1 THEN seqs[i] ELSE g[i - 1] \o seqs[i]]
    n == DbSize - 1
    Good(m) == {l \in Seq(Ssrcs) : IsListing(l, t, m)}
    E == [k \in 0 .. n |-> Good(k + 1)]
    G == [p \in (1 .. n) \X Seq(Ssrcs) |-> p[2] \o Chain(t, p[1])]
<1>1. DbSize \in Nat /\ n \in Nat /\ Buckets = 0 .. n /\ DbSize = n + 1
  BY HashType DEF Buckets
<1>2. \A h \in 0 .. n : IsChain(Chain(t, h), t, h) /\ Chain(t, h) \in Seq(Ssrcs)
  BY <1>1, ChainIs DEF IsChain
<1>3. \A i \in 1 .. DbSize : seqs[i] = Chain(t, i - 1) /\ i - 1 \in 0 .. n
  BY <1>1
<1>4. Len(seqs) = DbSize /\ DbSize # 0
  <2>1. \A i \in 1 .. DbSize : Chain(t, i - 1) \in Seq(Ssrcs)
    BY <1>2, <1>3
  <2>2. seqs \in Seq(Seq(Ssrcs))
    BY <1>1, <2>1
  <2> QED BY <1>1, HashType
<1>5. Listed(t) = flatten[Len(seqs)]
  <2>1. Listed(t) = FlattenSeq(seqs)
    BY DEF Listed
  <2> HIDE DEF seqs
  <2>2. FlattenSeq(seqs) = flatten[Len(seqs)]
    BY <1>4, Zenon DEF FlattenSeq
  <2> QED BY <2>1, <2>2
<1> HIDE DEF seqs
<1>6. Chain(t, 0) \in E[0] /\ \A k \in 1 .. n : \A x \in E[k - 1] : G[<<k, x>>] \in E[k]
  <2>1. Chain(t, 0) \in Good(1)
    BY <1>1, <1>2, FirstListing
  <2>2. ASSUME NEW k \in 1 .. n, NEW x \in Good(k) PROVE x \o Chain(t, k) \in Good(k + 1)
    <3>1. k \in Buckets /\ IsChain(Chain(t, k), t, k) /\ IsListing(x, t, k)
      BY <1>1, <1>2
    <3>2. IsListing(x \o Chain(t, k), t, k + 1)
      BY <3>1, NextListing
    <3> QED BY <3>2 DEF IsListing
  <2>3. \A k \in 0 .. n : E[k] = Good(k + 1)
    OBVIOUS
  <2>4. \A k \in 1 .. n : E[k - 1] = Good(k) /\ E[k] = Good(k + 1) /\ Good(k) \subseteq Seq(Ssrcs)
    <3>1. \A k \in 1 .. n : k - 1 \in 0 .. n /\ k \in 0 .. n /\ k - 1 + 1 = k
      BY <1>1
    <3> HIDE DEF E
    <3> QED BY <2>3, <3>1
  <2>5. \A k \in 1 .. n, x \in Seq(Ssrcs) : G[<<k, x>>] = x \o Chain(t, k)
    OBVIOUS
  <2>6. E[0] = Good(1)
    BY <1>1, <2>3
  <2> HIDE DEF E, G, Good
  <2>7. ASSUME NEW k \in 1 .. n, NEW x \in E[k - 1] PROVE G[<<k, x>>] \in E[k]
    <3>1. x \in Good(k) /\ x \in Seq(Ssrcs)
      BY <2>4
    <3>2. G[<<k, x>>] = x \o Chain(t, k)
      BY <2>5, <3>1
    <3>3. x \o Chain(t, k) \in Good(k + 1)
      BY <2>2, <3>1
    <3>4. E[k] = Good(k + 1)
      BY <2>4
    <3> QED BY <3>2, <3>3, <3>4
  <2> QED BY <2>1, <2>6, <2>7
<1> HIDE DEF G
<1>7. PICK f : Recursive(f, n, Chain(t, 0), G) /\ \A k \in 0 .. n : f[k] \in E[k]
  <2> HIDE DEF E, n
  <2> QED BY <1>1, <1>6, Recursion
<1>8. \A k \in 0 .. n : f[k] \in Good(k + 1)
  BY <1>7
<1> HIDE DEF E, Good, n
<1>9. f[0] = Chain(t, 0)
  BY <1>1, <1>7 DEF Recursive
<1>10. \A k \in 1 .. n : f[k] = f[k - 1] \o Chain(t, k)
  <2> SUFFICES ASSUME NEW k \in 1 .. n PROVE f[k] = f[k - 1] \o Chain(t, k)
    OBVIOUS
  <2>1. k \in 0 .. n /\ k - 1 \in 0 .. n /\ k # 0
    BY <1>1
  <2>2. f[k] = G[<<k, f[k - 1]>>] /\ f[k - 1] \in Seq(Ssrcs)
    BY <1>7, <1>8, <2>1 DEF Recursive, Good
  <2> QED BY <2>2 DEF G
<1> DEFINE g == [i \in 1 .. Len(seqs) |-> f[i - 1]]
<1>11. g = [i \in 1 .. Len(seqs) |-> IF i = 1 THEN seqs[i] ELSE g[i - 1] \o seqs[i]]
  <2>1. ASSUME NEW i \in 1 .. DbSize PROVE f[i - 1] = IF i = 1 THEN seqs[i] ELSE g[i - 1] \o seqs[i]
    <3>1. CASE i = 1
      BY <1>3, <1>9, <3>1
    <3>2. CASE i # 1
      <4>1. i - 1 \in 1 .. n /\ i - 1 \in 1 .. DbSize
        BY <1>1, <3>2
      <4> QED BY <1>3, <1>4, <1>10, <3>2, <4>1
    <3> QED BY <3>1, <3>2
  <2> QED BY <1>4, <2>1
<1> HIDE DEF g
<1>12. flatten = [i \in 1 .. Len(seqs) |-> IF i = 1 THEN seqs[i] ELSE flatten[i - 1] \o seqs[i]]
  BY <1>11
<1> HIDE DEF flatten
<1> DEFINE at == [k \in 0 .. n |-> flatten[k + 1]]
<1>13. \A k \in 0 .. n : k + 1 \in 1 .. Len(seqs) /\ at[k] = flatten[k + 1]
  BY <1>1, <1>4
<1> HIDE DEF at
<1>14. at[0] = f[0]
  BY <1>1, <1>3, <1>4, <1>9, <1>12, <1>13
<1>15. \A k \in 1 .. n : at[k] = at[k - 1] \o Chain(t, k)
  <2> SUFFICES ASSUME NEW k \in 1 .. n PROVE at[k] = at[k - 1] \o Chain(t, k)
    OBVIOUS
  <2>1. k \in 0 .. n /\ k - 1 \in 0 .. n /\ k + 1 \in 1 .. Len(seqs) /\ k + 1 # 1 /\ k + 1 - 1 = k /\ k - 1 + 1 = k
    BY <1>1, <1>4
  <2>2. PICK i \in 1 .. Len(seqs) : i = k + 1
    BY <2>1
  <2>3. flatten[i] = flatten[i - 1] \o seqs[i]
    BY <1>12, <2>1, <2>2
  <2>4. seqs[i] = Chain(t, i - 1) /\ i - 1 = k
    BY <1>3, <1>4, <2>1, <2>2
  <2>5. at[k] = flatten[i] /\ at[k - 1] = flatten[k]
    BY <1>13, <2>1, <2>2
  <2> QED BY <2>3, <2>4, <2>5
<1>16. \A k \in 0 .. n : at[k] = f[k]
  <2> DEFINE Same == [k \in 0 .. n |-> {f[k]}]
  <2>1. \A k \in 0 .. n : Same[k] = {f[k]}
    OBVIOUS
  <2> HIDE DEF Same
  <2>2. at[0] \in Same[0]
    BY <1>1, <1>14, <2>1
  <2>3. ASSUME NEW k \in 1 .. n, at[k - 1] \in Same[k - 1] PROVE at[k] \in Same[k]
    <3>1. k \in 0 .. n /\ k - 1 \in 0 .. n
      BY <1>1
    <3>2. at[k - 1] = f[k - 1]
      BY <2>1, <2>3, <3>1
    <3>3. at[k] = f[k]
      BY <1>10, <1>15, <3>2
    <3> QED BY <2>1, <3>1, <3>3
  <2>4. \A k \in 0 .. n : at[k] \in Same[k]
    BY <1>1, <2>2, <2>3, Follows
  <2> QED BY <2>1, <2>4
<1>17. Listed(t) = f[n]
  BY <1>1, <1>4, <1>5, <1>13, <1>16
<1>18. f[n] \in Good(DbSize)
  BY <1>1, <1>8
<1> QED BY <1>17, <1>18 DEF Good

\* The same of the list of a database, for the proofs about what visits it.
LEMMA ListedAll ==
  ASSUME NEW d, Sound(d)
  PROVE  LET l == Listed(d.table)
         IN  /\ l \in Seq(Ssrcs) /\ Len(l) \in Nat /\ DOMAIN l = 1 .. Len(l)
             /\ \A i \in 1 .. Len(l) : l[i] \in d.table.kept
             /\ \A i \in 1 .. Len(l) : d.table.prev[l[i]] # Null => \E j \in 1 .. i - 1 : l[j] = d.table.prev[l[i]]
             /\ \A i, j \in 1 .. Len(l) : i # j => l[i] # l[j]
             /\ \A s \in d.table.kept : \E i \in 1 .. Len(l) : l[i] = s
<1> DEFINE t == d.table
    l == Listed(t)
<1>1. t \in Links /\ Linked(t)
  BY DbFields DEF Sound
<1>2. IsListing(l, t, DbSize)
  BY <1>1, ListedIs
<1>3. \A s \in t.kept : SsrcHash(s) < DbSize
  BY <1>1, HashType DEF Links, Buckets
<1> HIDE DEF l
<1>4. l \in Seq(Ssrcs) /\ Len(l) \in Nat /\ DOMAIN l = 1 .. Len(l)
  BY <1>2 DEF IsListing
<1> QED BY <1>2, <1>3, <1>4 DEF IsListing, l

\* What rtp_update does about a source deletes no other, leaves ours where it is
\* or deletes it, and leaves no sender uncounted.
LEMMA UpdateSourceSound ==
  ASSUME NEW d, Sound(d), NEW s \in Ssrcs, NEW silence
  PROVE  LET e == UpdateSource(d, s, silence)
         IN  /\ Sound(e) /\ e.table.kept \subseteq d.table.kept
             /\ MeIsLast(d.table) /\ Me \in e.table.kept => MeIsLast(e.table)
             /\ Cardinality(d.sender) <= d.senders => Cardinality(e.sender) <= e.senders
<1> DEFINE left == IF s \in d.gotBye /\ silence > 0 THEN DeleteSource(d, s) ELSE d
    less == [left EXCEPT !.sender = @ \ {s}, !.senders = @ - 1]
    quiet == IF s # Me /\ silence > 1 /\ s \in left.sender THEN less ELSE left
    Ours(e) == MeIsLast(d.table) /\ Me \in e.table.kept => MeIsLast(e.table)
<1>1. /\ Sound(left) /\ left.table.kept \subseteq d.table.kept /\ Ours(left)
      /\ left.sender = d.sender /\ left.senders = d.senders
  BY DeleteSourceSound
<1>2. UpdateSource(d, s, silence) = IF s # Me /\ silence > 2 THEN DeleteSource(quiet, s) ELSE quiet
  BY Zenon DEF UpdateSource
<1> HIDE DEF left
<1>3. left \in Dbs
  BY <1>1 DEF Sound
<1>4. s \in left.sender => /\ Sound(less) /\ less.table = left.table
                           /\ Cardinality(left.sender) <= left.senders => Cardinality(less.sender) <= less.senders
  <2> SUFFICES ASSUME s \in left.sender
               PROVE  /\ Sound(less) /\ less.table = left.table
                      /\ Cardinality(left.sender) <= left.senders => Cardinality(less.sender) <= less.senders
    OBVIOUS
  <2>1. less = [table |-> left.table, count |-> left.count, rr |-> left.rr, sender |-> left.sender \ {s},
                senders |-> left.senders - 1, gotBye |-> left.gotBye, told |-> left.told]
    <3> DEFINE fewer == left.senders - 1
    <3>1. less = [left EXCEPT !.sender = left.sender \ {s}, !.senders = fewer]
      BY Zenon
    <3> HIDE DEF less, fewer
    <3>2. less = [table |-> left.table, count |-> left.count, rr |-> left.rr, sender |-> left.sender \ {s},
                  senders |-> fewer, gotBye |-> left.gotBye, told |-> left.told]
      BY <1>3, <3>1 DEF Dbs
    <3> QED BY <3>2 DEF fewer
  <2> HIDE DEF less
  <2>2. left.sender \ {s} \in SUBSET Ssrcs /\ left.senders - 1 \in Int /\ left.sender \in SUBSET Ssrcs /\ left.senders \in Int
    BY <1>3, DbFields
  <2>3. less \in Dbs
    BY <1>3, <2>1, <2>2, DbFields DEF Dbs
  <2>4. /\ less.table = left.table /\ less.count = left.count /\ less.rr = left.rr /\ less.told = left.told
        /\ less.sender = left.sender \ {s} /\ less.senders = left.senders - 1
    BY <2>1
  <2>5. Cardinality(less.sender) = Cardinality(left.sender) - 1 /\ Cardinality(left.sender) \in Nat
    BY <2>2, <2>4, KeptCount
  <2>6. Sound(less)
    BY <1>1, <2>3, <2>4 DEF Sound
  <2> QED BY <2>2, <2>4, <2>5, <2>6
<1> HIDE DEF less
<1>5. /\ Sound(quiet) /\ quiet.table.kept \subseteq d.table.kept /\ Ours(quiet)
      /\ Cardinality(d.sender) <= d.senders => Cardinality(quiet.sender) <= quiet.senders
  BY <1>1, <1>4
<1> HIDE DEF quiet
<1>6. /\ Sound(DeleteSource(quiet, s)) /\ Ours(DeleteSource(quiet, s))
      /\ DeleteSource(quiet, s).table.kept \subseteq d.table.kept
      /\ DeleteSource(quiet, s).sender = quiet.sender /\ DeleteSource(quiet, s).senders = quiet.senders
  BY <1>5, DeleteSourceSound
<1> QED BY <1>2, <1>5, <1>6

\* So does a whole pass of housekeeping.
LEMMA UpdateAllSound ==
  ASSUME NEW d, Sound(d), NEW silence
  PROVE  LET e == UpdateAll(d, silence)
         IN  /\ Sound(e)
             /\ MeIsLast(d.table) /\ Me \in e.table.kept => MeIsLast(e.table)
             /\ Cardinality(d.sender) <= d.senders => Cardinality(e.sender) <= e.senders
<1> DEFINE list == Listed(d.table)
    n == Len(list)
    Step(k, x) == UpdateSource(x, list[k], silence[list[k]])
    Good(e) == /\ Sound(e)
               /\ MeIsLast(d.table) /\ Me \in e.table.kept => MeIsLast(e.table)
               /\ Cardinality(d.sender) <= d.senders => Cardinality(e.sender) <= e.senders
    E == [k \in 0 .. n |-> {e \in Dbs : Good(e)}]
    at == CHOOSE g : g = [k \in 0 .. n |-> IF k = 0 THEN d ELSE Step(k, g[k - 1])]
    G == [p \in (1 .. n) \X Dbs |-> Step(p[1], p[2])]
<1>1. n \in Nat /\ \A k \in 1 .. n : list[k] \in Ssrcs
  BY ListedAll
<1>2. d \in E[0]
  <2>1. d \in Dbs
    BY DEF Sound
  <2> QED BY <1>1, <2>1
<1>3. \A k \in 1 .. n : \A x \in E[k - 1] : Step(k, x) \in E[k]
  <2> SUFFICES ASSUME NEW k \in 1 .. n, NEW x \in E[k - 1] PROVE Step(k, x) \in E[k]
    OBVIOUS
  <2>1. k \in 0 .. n /\ k - 1 \in 0 .. n /\ list[k] \in Ssrcs
    BY <1>1
  <2>2. Good(x) /\ x \in Dbs
    BY <2>1
  <2>3. /\ Sound(Step(k, x)) /\ Step(k, x).table.kept \subseteq x.table.kept
        /\ MeIsLast(x.table) /\ Me \in Step(k, x).table.kept => MeIsLast(Step(k, x).table)
        /\ Cardinality(x.sender) <= x.senders => Cardinality(Step(k, x).sender) <= Step(k, x).senders
    <3> HIDE DEF list
    <3> QED BY <2>1, <2>2, UpdateSourceSound
  <2>4. Good(Step(k, x))
    <3> HIDE DEF Step
    <3> QED BY <2>2, <2>3
  <2>5. Step(k, x) \in Dbs
    BY <2>4 DEF Sound
  <2> HIDE DEF Step, Good
  <2> QED BY <2>1, <2>4, <2>5
<1>4. \A k \in 1 .. n : \A x \in E[k - 1] : x \in Dbs /\ G[<<k, x>>] = Step(k, x)
  <2> HIDE DEF Step
  <2> SUFFICES ASSUME NEW k \in 1 .. n, NEW x \in E[k - 1] PROVE x \in Dbs /\ G[<<k, x>>] = Step(k, x)
    OBVIOUS
  <2>1. k - 1 \in 0 .. n /\ x \in Dbs
    BY <1>1
  <2>2. <<k, x>> \in (1 .. n) \X Dbs
    BY <2>1
  <2> HIDE DEF E
  <2> QED BY <2>1, <2>2
<1>5. UpdateAll(d, silence) = at[n]
  BY Zenon DEF UpdateAll
<1> HIDE DEF n, list, E, Step, G
<1>6. PICK f : Recursive(f, n, d, G) /\ \A k \in 0 .. n : f[k] \in E[k]
  <2>1. \A k \in 1 .. n : \A x \in E[k - 1] : G[<<k, x>>] \in E[k]
    BY <1>3, <1>4
  <2> QED BY <1>1, <1>2, <2>1, Recursion
<1>7. f = [k \in 0 .. n |-> IF k = 0 THEN d ELSE Step(k, f[k - 1])]
  <2>1. \A k \in 0 .. n : k # 0 => k \in 1 .. n /\ k - 1 \in 0 .. n
    BY <1>1
  <2>2. \A k \in 0 .. n : k # 0 => G[<<k, f[k - 1]>>] = Step(k, f[k - 1])
    BY <1>4, <1>6, <2>1
  <2> QED BY <1>6, <2>2 DEF Recursive
<1>8. at = [k \in 0 .. n |-> IF k = 0 THEN d ELSE Step(k, at[k - 1])]
  BY <1>7
<1> HIDE DEF at
<1>9. \A k \in 0 .. n : at[k] \in E[k]
  <2>1. at[0] \in E[0]
    BY <1>1, <1>2, <1>8
  <2>2. \A k \in 1 .. n : at[k] = Step(k, at[k - 1])
    BY <1>1, <1>8
  <2>3. \A k \in 1 .. n : at[k - 1] \in E[k - 1] => at[k] \in E[k]
    BY <1>3, <2>2
  <2> QED BY <1>1, <2>1, <2>3, Follows
<1>10. at[n] \in E[n]
  BY <1>1, <1>9
<1> QED BY <1>1, <1>5, <1>10 DEF E

-----------------------------------------------------------------------------
(* Reports                                                                   *)

\* The sources of two lists together, and of a list with one more.
LEMMA ToSetOfLists ==
  ASSUME NEW a \in Seq(Ssrcs), NEW b \in Seq(Ssrcs), NEW s \in Ssrcs
  PROVE  /\ ToSet(a \o b) = ToSet(a) \cup ToSet(b)
         /\ ToSet(Append(a, s)) = ToSet(a) \cup {s}
         /\ ToSet(a) \subseteq Ssrcs /\ ToSet(<<>>) = {}
<1>1. ToSet(a \o b) = ToSet(a) \cup ToSet(b)
  <2> DEFINE z == a \o b
  <2>1. /\ z \in Seq(Ssrcs) /\ Len(z) = Len(a) + Len(b) /\ Len(a) \in Nat /\ Len(b) \in Nat
        /\ DOMAIN z = 1 .. Len(z) /\ DOMAIN a = 1 .. Len(a) /\ DOMAIN b = 1 .. Len(b)
        /\ \A i \in 1 .. Len(a) : i \in 1 .. Len(z) /\ z[i] = a[i]
        /\ \A i \in 1 .. Len(b) : Len(a) + i \in 1 .. Len(z) /\ z[Len(a) + i] = b[i]
        /\ \A i \in 1 .. Len(z) : IF i <= Len(a) THEN i \in 1 .. Len(a) /\ z[i] = a[i]
                                  ELSE i - Len(a) \in 1 .. Len(b) /\ z[i] = b[i - Len(a)]
    OBVIOUS
  <2> HIDE DEF z
  <2>2. ToSet(z) \subseteq ToSet(a) \cup ToSet(b)
    <3> SUFFICES ASSUME NEW i \in 1 .. Len(z) PROVE z[i] \in ToSet(a) \cup ToSet(b)
      BY <2>1 DEF ToSet
    <3>1. CASE i <= Len(a)
      BY <2>1, <3>1 DEF ToSet
    <3>2. CASE ~ (i <= Len(a))
      BY <2>1, <3>2 DEF ToSet
    <3> QED BY <3>1, <3>2
  <2>3. ToSet(a) \subseteq ToSet(z)
    BY <2>1 DEF ToSet
  <2>4. ToSet(b) \subseteq ToSet(z)
    BY <2>1 DEF ToSet
  <2> QED BY <2>2, <2>3, <2>4 DEF z
<1>2. ToSet(Append(a, s)) = ToSet(a) \cup {s}
  <2> DEFINE z == Append(a, s)
  <2>1. /\ z \in Seq(Ssrcs) /\ Len(z) = Len(a) + 1 /\ Len(a) \in Nat
        /\ DOMAIN z = 1 .. Len(z) /\ DOMAIN a = 1 .. Len(a)
        /\ \A i \in 1 .. Len(a) : i \in 1 .. Len(z) /\ z[i] = a[i]
        /\ z[Len(z)] = s
        /\ \A i \in 1 .. Len(z) : i \in 1 .. Len(a) \/ i = Len(z)
    OBVIOUS
  <2> HIDE DEF z
  <2>2. ToSet(z) \subseteq ToSet(a) \cup {s}
    BY <2>1 DEF ToSet
  <2>3. ToSet(a) \subseteq ToSet(z)
    BY <2>1 DEF ToSet
  <2>4. s \in ToSet(z)
    BY <2>1 DEF ToSet
  <2> QED BY <2>2, <2>3, <2>4 DEF z
<1>3. ToSet(a) \subseteq Ssrcs
  BY DEF ToSet
<1>4. ToSet(<<>>) = {}
  BY DEF ToSet
<1> QED BY <1>1, <1>2, <1>3, <1>4

\* Where the search of a packet has come to.
Accs == [d : Dbs, blocks : Seq(Ssrcs), ended : Int]

\* What is true of it whatever the count of senders is ...
Searching(d, acc) ==
  /\ acc \in Accs /\ Whole(acc.d) /\ acc.d.table = d.table /\ acc.d.rr = d.rr
  /\ d.sender = acc.d.sender \cup ToSet(acc.blocks)
  /\ Len(acc.blocks) <= MaxBlocks
  /\ Cardinality(acc.d.sender) + Len(acc.blocks) = Cardinality(d.sender)
  /\ acc.d.senders + Len(acc.blocks) = d.senders

\* ... and when no sender is missing in it: what was passed by had nothing to report.
Searched(d, acc, passed) ==
  /\ acc.ended # Null => acc.d.sender = {}
  /\ Len(acc.blocks) < MaxBlocks => \A s \in passed : s \notin acc.d.sender

\* A source that is looked at is reported on, or passed by for one of these reasons.
LEMMA ReportOnStep ==
  ASSUME NEW d \in Dbs, NEW acc, Searching(d, acc), NEW s \in Ssrcs
  PROVE  LET b == ReportOn(acc, s)
         IN  /\ Searching(d, b)
             /\ \A passed : Cardinality(d.sender) <= d.senders /\ Searched(d, acc, passed)
                              => Searched(d, b, passed \cup {s})
<1> DEFINE b == ReportOn(acc, s)
    skip == Len(acc.blocks) = MaxBlocks \/ SsrcHash(s) = acc.ended \/ s \notin acc.d.sender
    left == [acc.d EXCEPT !.sender = @ \ {s}, !.senders = @ - 1]
<1>0. /\ acc.d \in Dbs /\ acc.blocks \in Seq(Ssrcs) /\ acc.ended \in Int /\ Len(acc.blocks) \in Nat
      /\ MaxBlocks \in Nat /\ SsrcHash(s) \in Int /\ SsrcHash(s) # Null
  <2>1. SsrcHash(s) \in Buckets
    BY HashType
  <2> QED BY <2>1, SizeAssumption DEF Searching, Accs, Buckets, Null
<1>0a. /\ acc.d.sender \in SUBSET Ssrcs /\ acc.d.senders \in Int /\ d.sender \in SUBSET Ssrcs /\ d.senders \in Int
  BY <1>0, DbFields
<1>0b. Cardinality(acc.d.sender) \in Nat
  BY <1>0a, KeptCount
<1>1. CASE skip
  <2>1. b = acc
    BY <1>1, Zenon DEF ReportOn
  <2>2. ASSUME NEW passed, Cardinality(d.sender) <= d.senders, Searched(d, acc, passed)
        PROVE  Searched(d, acc, passed \cup {s})
    <3>1. CASE Len(acc.blocks) = MaxBlocks
      BY <1>0, <2>2, <3>1 DEF Searched
    <3>2. CASE SsrcHash(s) = acc.ended
      BY <1>0, <2>2, <3>2 DEF Searched
    <3>3. CASE s \notin acc.d.sender
      BY <2>2, <3>3 DEF Searched
    <3> QED BY <1>1, <3>1, <3>2, <3>3
  <2> QED BY <2>1, <2>2
<1>2. CASE ~ skip
  <2> DEFINE ended == IF acc.d.senders = 1 THEN SsrcHash(s) ELSE acc.ended
  <2>1. b = [d |-> left, blocks |-> Append(acc.blocks, s), ended |-> ended]
    BY <1>2, Zenon DEF ReportOn
  <2>2. left = [table |-> acc.d.table, count |-> acc.d.count, rr |-> acc.d.rr, sender |-> acc.d.sender \ {s},
                senders |-> acc.d.senders - 1, gotBye |-> acc.d.gotBye, told |-> acc.d.told]
    <3> DEFINE fewer == acc.d.senders - 1
    <3>1. left = [acc.d EXCEPT !.sender = acc.d.sender \ {s}, !.senders = fewer]
      BY Zenon
    <3> HIDE DEF left, fewer
    <3>2. left = [table |-> acc.d.table, count |-> acc.d.count, rr |-> acc.d.rr, sender |-> acc.d.sender \ {s},
                  senders |-> fewer, gotBye |-> acc.d.gotBye, told |-> acc.d.told]
      BY <1>0, <3>1 DEF Dbs
    <3> QED BY <3>2 DEF fewer
  <2> HIDE DEF left, b
  <2>3. left \in Dbs
    <3>1. acc.d.sender \ {s} \in SUBSET Ssrcs /\ acc.d.senders - 1 \in Int
      BY <1>0a
    <3> QED BY <1>0, <2>2, <3>1, DbFields DEF Dbs
  <2>4. /\ left.table = acc.d.table /\ left.count = acc.d.count /\ left.rr = acc.d.rr /\ left.told = acc.d.told
        /\ left.sender = acc.d.sender \ {s} /\ left.senders = acc.d.senders - 1 /\ left.gotBye = acc.d.gotBye
    BY <2>2
  <2>5. Whole(left)
    <3>1. Whole(acc.d)
      BY DEF Searching
    <3> QED BY <2>3, <2>4, <3>1 DEF Whole, Sound
  <2>6. b.d = left /\ b.blocks = Append(acc.blocks, s) /\ b.ended = ended
    BY <2>1
  <2>7. /\ Append(acc.blocks, s) \in Seq(Ssrcs) /\ Len(Append(acc.blocks, s)) = Len(acc.blocks) + 1
        /\ ToSet(Append(acc.blocks, s)) = ToSet(acc.blocks) \cup {s}
    BY <1>0, ToSetOfLists
  <2>8. b \in Accs
    <3>1. ended \in Int
      BY <1>0
    <3> HIDE DEF ended
    <3> QED BY <2>1, <2>3, <2>7, <3>1 DEF Accs
  <2>9. s \in acc.d.sender /\ Len(acc.blocks) # MaxBlocks
    BY <1>2
  <2>10. Cardinality(left.sender) = Cardinality(acc.d.sender) - 1
    BY <1>0a, <2>4, <2>9, KeptCount
  <2>11. Searching(d, b)
    <3>1. d.sender = left.sender \cup ToSet(Append(acc.blocks, s))
      BY <2>4, <2>7, <2>9 DEF Searching
    <3>2. Len(Append(acc.blocks, s)) <= MaxBlocks
      BY <1>0, <2>7, <2>9 DEF Searching
    <3>3. /\ Cardinality(left.sender) + Len(Append(acc.blocks, s)) = Cardinality(d.sender)
          /\ left.senders + Len(Append(acc.blocks, s)) = d.senders
      <4> DEFINE c == Cardinality(acc.d.sender)
                 g == Len(acc.blocks)
                 c2 == Cardinality(left.sender)
                 g2 == Len(Append(acc.blocks, s))
                 v == acc.d.senders
                 v2 == left.senders
      <4>1. c + g = Cardinality(d.sender) /\ v + g = d.senders
        BY DEF Searching
      <4>2. c \in Nat /\ g \in Nat /\ v \in Int
        BY <1>0, <1>0a, <1>0b
      <4>3. c2 = c - 1 /\ g2 = g + 1 /\ v2 = v - 1
        BY <2>4, <2>7, <2>10
      <4> HIDE DEF c, g, c2, g2, v, v2
      <4>4. c2 + g2 = Cardinality(d.sender) /\ v2 + g2 = d.senders
        BY <4>1, <4>2, <4>3
      <4> QED BY <4>4 DEF c2, g2, v2
    <3>4. left.table = d.table /\ left.rr = d.rr
      BY <2>4 DEF Searching
    <3> QED BY <2>5, <2>6, <2>8, <3>1, <3>2, <3>3, <3>4 DEF Searching
  <2>12. ASSUME NEW passed, Cardinality(d.sender) <= d.senders, Searched(d, acc, passed)
         PROVE  Searched(d, b, passed \cup {s})
    <3>1. b.ended # Null => b.d.sender = {}
      <4>1. CASE acc.d.senders = 1
        <5>1. Cardinality(acc.d.sender) <= 1
          BY <1>0, <1>0a, <1>0b, <2>12, <4>1 DEF Searching
        <5>2. Cardinality(left.sender) = 0
          <6>1. Cardinality(left.sender) \in Nat
            BY <1>0a, <2>4, KeptCount
          <6> QED BY <1>0b, <2>10, <5>1, <6>1
        <5>3. left.sender = {}
          <6>1. IsFiniteSet(left.sender)
            BY <1>0a, <2>4, KeptCount
          <6> QED BY <5>2, <6>1, FS_EmptySet
        <5> QED BY <2>6, <5>3
      <4>2. CASE acc.d.senders # 1
        <5>1. b.ended = acc.ended
          BY <2>6, <4>2
        <5> QED BY <2>4, <2>6, <2>12, <5>1 DEF Searched
      <4> QED BY <4>1, <4>2
    <3>2. Len(b.blocks) < MaxBlocks => \A x \in passed \cup {s} : x \notin b.d.sender
      <4>1. Len(b.blocks) < MaxBlocks => Len(acc.blocks) < MaxBlocks
        BY <1>0, <2>6, <2>7
      <4> QED BY <2>4, <2>6, <2>12, <4>1 DEF Searched
    <3> QED BY <3>1, <3>2 DEF Searched
  <2> QED BY <2>11, <2>12 DEF b
<1> QED BY <1>1, <1>2

\* A packet reports on senders, and on all of them or on one at least.
LEMMA FormatReportBlocksSound ==
  ASSUME NEW d, Whole(d)
  PROVE  LET e == FormatReportBlocks(d)
         IN  /\ Searching(d, e)
             /\ Cardinality(d.sender) <= d.senders => e.d.sender = {} \/ Len(e.blocks) >= 1
<1> DEFINE list == Listed(d.table)
    n == Len(list)
    start == [d |-> d, blocks |-> <<>>, ended |-> Null]
    Step(k, x) == ReportOn(x, list[k])
    Upto(k) == {list[j] : j \in 1 .. k}
    Good(e, k) == Searching(d, e) /\ (Cardinality(d.sender) <= d.senders => Searched(d, e, Upto(k)))
    E == [k \in 0 .. n |-> {e \in Accs : Good(e, k)}]
    at == CHOOSE g : g = [k \in 0 .. n |-> IF k = 0 THEN start ELSE Step(k, g[k - 1])]
    G == [p \in (1 .. n) \X Accs |-> Step(p[1], p[2])]
<1>0. d \in Dbs /\ Sound(d) /\ MaxBlocks \in Nat \ {0}
  BY SizeAssumption DEF Whole, Sound
<1>1. n \in Nat /\ \A k \in 1 .. n : list[k] \in Ssrcs
  BY <1>0, ListedAll
<1>2. start \in E[0]
  <2>1. start \in Accs /\ start.d = d /\ start.blocks = <<>> /\ start.ended = Null
    BY <1>0 DEF Accs, Null
  <2> HIDE DEF start
  <2>2. Len(<<>>) = 0 /\ ToSet(<<>>) = {}
    BY DEF ToSet
  <2>3. Cardinality(d.sender) \in Nat /\ d.senders \in Int
    BY <1>0, DbFields, KeptCount
  <2>4. Searching(d, start)
    BY <1>0, <2>1, <2>2, <2>3 DEF Searching
  <2>5. Upto(0) = {}
    OBVIOUS
  <2>6. Searched(d, start, Upto(0))
    BY <2>1, <2>5 DEF Searched
  <2> QED BY <1>1, <2>1, <2>4, <2>6
<1>3. \A k \in 1 .. n : \A x \in E[k - 1] : Step(k, x) \in E[k]
  <2> SUFFICES ASSUME NEW k \in 1 .. n, NEW x \in E[k - 1] PROVE Step(k, x) \in E[k]
    OBVIOUS
  <2>1. k \in 0 .. n /\ k - 1 \in 0 .. n /\ list[k] \in Ssrcs
    BY <1>1
  <2>2. Good(x, k - 1) /\ x \in Accs
    BY <2>1
  <2>3. Upto(k) = Upto(k - 1) \cup {list[k]}
    <3>1. 1 .. k = (1 .. k - 1) \cup {k}
      BY <2>1
    <3> QED BY <3>1
  <2>4. /\ Searching(d, Step(k, x))
        /\ Cardinality(d.sender) <= d.senders => Searched(d, Step(k, x), Upto(k - 1) \cup {list[k]})
    <3> HIDE DEF list, Upto
    <3> QED BY <1>0, <2>1, <2>2, ReportOnStep
  <2>5. Step(k, x) \in Accs
    BY <2>4 DEF Searching
  <2> HIDE DEF Step, Upto
  <2> QED BY <2>1, <2>3, <2>4, <2>5
<1>4. \A k \in 1 .. n : \A x \in E[k - 1] : x \in Accs /\ G[<<k, x>>] = Step(k, x)
  <2> HIDE DEF Step
  <2> SUFFICES ASSUME NEW k \in 1 .. n, NEW x \in E[k - 1] PROVE x \in Accs /\ G[<<k, x>>] = Step(k, x)
    OBVIOUS
  <2>1. k - 1 \in 0 .. n /\ x \in Accs
    BY <1>1
  <2>2. <<k, x>> \in (1 .. n) \X Accs
    BY <2>1
  <2> HIDE DEF E
  <2> QED BY <2>1, <2>2
<1>5. FormatReportBlocks(d) = at[n]
  BY Zenon DEF FormatReportBlocks
<1> HIDE DEF n, start, list, E, Step, G
<1>6. PICK f : Recursive(f, n, start, G) /\ \A k \in 0 .. n : f[k] \in E[k]
  <2>1. \A k \in 1 .. n : \A x \in E[k - 1] : G[<<k, x>>] \in E[k]
    BY <1>3, <1>4
  <2> QED BY <1>1, <1>2, <2>1, Recursion
<1>7. f = [k \in 0 .. n |-> IF k = 0 THEN start ELSE Step(k, f[k - 1])]
  <2>1. \A k \in 0 .. n : k # 0 => k \in 1 .. n /\ k - 1 \in 0 .. n
    BY <1>1
  <2>2. \A k \in 0 .. n : k # 0 => G[<<k, f[k - 1]>>] = Step(k, f[k - 1])
    BY <1>4, <1>6, <2>1
  <2> QED BY <1>6, <2>2 DEF Recursive
<1>8. at = [k \in 0 .. n |-> IF k = 0 THEN start ELSE Step(k, at[k - 1])]
  BY <1>7
<1> HIDE DEF at
<1>9. \A k \in 0 .. n : at[k] \in E[k]
  <2>1. at[0] \in E[0]
    BY <1>1, <1>2, <1>8
  <2>2. \A k \in 1 .. n : at[k] = Step(k, at[k - 1])
    BY <1>1, <1>8
  <2>3. \A k \in 1 .. n : at[k - 1] \in E[k - 1] => at[k] \in E[k]
    BY <1>3, <2>2
  <2> QED BY <1>1, <2>1, <2>3, Follows
<1>10. at[n] \in E[n]
  BY <1>1, <1>9
<1>11. Good(at[n], n)
  BY <1>1, <1>10 DEF E
<1>12. Cardinality(d.sender) <= d.senders => at[n].d.sender = {} \/ Len(at[n].blocks) >= 1
  <2> SUFFICES ASSUME Cardinality(d.sender) <= d.senders, ~ (Len(at[n].blocks) >= 1)
               PROVE  at[n].d.sender = {}
    OBVIOUS
  <2>1. Len(at[n].blocks) < MaxBlocks
    <3>1. Len(at[n].blocks) \in Nat
      BY <1>11 DEF Searching, Accs
    <3> QED BY <1>0, <3>1
  <2>2. \A s \in Upto(n) : s \notin at[n].d.sender
    BY <1>11, <2>1 DEF Searched
  <2>3. \A s \in d.table.kept : s \in Upto(n)
    BY <1>0, ListedAll DEF n, list
  <2>4. at[n].d.sender \subseteq d.table.kept
    BY <1>11 DEF Searching, Whole
  <2> QED BY <2>2, <2>3, <2>4
<1> QED BY <1>5, <1>11, <1>12

\* Where the packets have come to: the senders that are left are fewer with each.
Packets == [d : Dbs, blocks : Seq(Ssrcs)]

Sending(d, acc) ==
  /\ acc \in Packets /\ Whole(acc.d) /\ acc.d.table = d.table
  /\ d.sender = acc.d.sender \cup ToSet(acc.blocks)

Sent(d, acc, k) ==
  /\ Cardinality(acc.d.sender) <= acc.d.senders
  /\ acc.d.sender = {} \/ Cardinality(acc.d.sender) + k <= Cardinality(d.sender)

\* A packet more leaves a sender less, when any is left.
LEMMA AddPacketStep ==
  ASSUME NEW d \in Dbs, NEW acc, Sending(d, acc), NEW k \in Nat
  PROVE  LET b == AddPacket(acc)
         IN  /\ Sending(d, b)
             /\ Sent(d, acc, k) => Sent(d, b, k + 1)
<1> DEFINE b == AddPacket(acc)
    new == FormatReportBlocks(acc.d)
<1>0. acc.d \in Dbs /\ acc.blocks \in Seq(Ssrcs) /\ Whole(acc.d)
  BY DEF Sending, Packets
<1>0a. /\ acc.d.sender \in SUBSET Ssrcs /\ acc.d.senders \in Int
       /\ IsFiniteSet(acc.d.sender) /\ Cardinality(acc.d.sender) \in Nat /\ Cardinality(d.sender) \in Nat
  BY <1>0, DbFields, KeptCount
<1>1. CASE acc.d.senders <= 0
  <2>1. b = acc
    BY <1>1, Zenon DEF AddPacket
  <2>2. Sent(d, acc, k) => Sent(d, acc, k + 1)
    <3> SUFFICES ASSUME Sent(d, acc, k) PROVE Sent(d, acc, k + 1)
      OBVIOUS
    <3>1. Cardinality(acc.d.sender) = 0
      BY <1>0a, <1>1 DEF Sent
    <3>2. acc.d.sender = {}
      BY <1>0a, <3>1, FS_EmptySet
    <3> QED BY <3>2 DEF Sent
  <2> QED BY <2>1, <2>2
<1>2. CASE ~ (acc.d.senders <= 0)
  <2>1. b = [d |-> new.d, blocks |-> acc.blocks \o new.blocks]
    BY <1>2, Zenon DEF AddPacket
  <2>2. /\ Searching(acc.d, new)
        /\ Cardinality(acc.d.sender) <= acc.d.senders => new.d.sender = {} \/ Len(new.blocks) >= 1
    BY <1>0, FormatReportBlocksSound
  <2> HIDE DEF new, b
  <2>3. /\ new.d \in Dbs /\ new.blocks \in Seq(Ssrcs) /\ Whole(new.d) /\ new.d.table = acc.d.table
        /\ acc.d.sender = new.d.sender \cup ToSet(new.blocks)
        /\ Cardinality(new.d.sender) + Len(new.blocks) = Cardinality(acc.d.sender)
        /\ new.d.senders + Len(new.blocks) = acc.d.senders
    BY <2>2 DEF Searching, Accs
  <2>4. acc.blocks \o new.blocks \in Seq(Ssrcs) /\ ToSet(acc.blocks \o new.blocks) = ToSet(acc.blocks) \cup ToSet(new.blocks)
    BY <1>0, <2>3, SsrcAssumption, ToSetOfLists
  <2>5. b.d = new.d /\ b.blocks = acc.blocks \o new.blocks /\ b \in Packets
    BY <2>1, <2>3, <2>4 DEF Packets
  <2>6. Sending(d, b)
    <3>1. d.sender = acc.d.sender \cup ToSet(acc.blocks) /\ acc.d.table = d.table
      BY DEF Sending
    <3>2. d.sender = b.d.sender \cup ToSet(b.blocks)
      BY <2>3, <2>4, <2>5, <3>1
    <3> QED BY <2>3, <2>5, <3>1, <3>2 DEF Sending
  <2>7. Sent(d, acc, k) => Sent(d, b, k + 1)
    <3> SUFFICES ASSUME Sent(d, acc, k) PROVE Sent(d, b, k + 1)
      OBVIOUS
    <3>1. Cardinality(acc.d.sender) <= acc.d.senders
      BY DEF Sent
    <3>2. Len(new.blocks) \in Nat /\ Cardinality(new.d.sender) \in Nat /\ new.d.senders \in Int
      BY <2>3, DbFields, KeptCount
    <3>3. Cardinality(b.d.sender) <= b.d.senders
      BY <1>0a, <2>3, <2>5, <3>1, <3>2
    <3>4. b.d.sender = {} \/ Cardinality(b.d.sender) + (k + 1) <= Cardinality(d.sender)
      <4>1. CASE acc.d.sender = {}
        BY <2>3, <2>5, <4>1
      <4>2. CASE acc.d.sender # {}
        <5>1. Cardinality(acc.d.sender) + k <= Cardinality(d.sender)
          BY <4>2 DEF Sent
        <5>2. new.d.sender = {} \/ Len(new.blocks) >= 1
          BY <2>2, <3>1
        <5> QED BY <1>0a, <2>3, <2>5, <3>2, <5>1, <5>2
      <4> QED BY <4>1, <4>2
    <3> QED BY <3>3, <3>4 DEF Sent
  <2> QED BY <2>6, <2>7 DEF b
<1> QED BY <1>1, <1>2

\* The packets report on every sender when none is missing in the count.
LEMMA ReportsSound ==
  ASSUME NEW d, Whole(d)
  PROVE  LET e == Reports(d)
         IN  /\ Sending(d, e)
             /\ Cardinality(d.sender) <= d.senders => ToSet(e.blocks) = d.sender
<1> DEFINE n == Cardinality(Ssrcs)
    first == FormatReportBlocks(d)
    start == [d |-> first.d, blocks |-> first.blocks]
    Step(k, x) == AddPacket(x)
    Good(e, k) == Sending(d, e) /\ (Cardinality(d.sender) <= d.senders => Sent(d, e, k))
    E == [k \in 0 .. n |-> {e \in Packets : Good(e, k)}]
    at == CHOOSE g : g = [k \in 0 .. n |-> IF k = 0 THEN start ELSE Step(k, g[k - 1])]
    G == [p \in (1 .. n) \X Packets |-> Step(p[1], p[2])]
<1>0. d \in Dbs /\ d.sender \in SUBSET Ssrcs /\ Cardinality(d.sender) \in Nat /\ d.senders \in Int
  <2>1. d \in Dbs
    BY DEF Whole, Sound
  <2> QED BY <2>1, DbFields, KeptCount
<1>1. n \in Nat
  BY SsrcAssumption, FS_CardinalityType
<1>2. start \in E[0]
  <2>1. Searching(d, first)
    BY FormatReportBlocksSound
  <2> HIDE DEF first
  <2>2. start \in Packets /\ start.d = first.d /\ start.blocks = first.blocks
    BY <2>1 DEF Searching, Accs, Packets
  <2> HIDE DEF start
  <2>3. Sending(d, start)
    BY <2>1, <2>2 DEF Searching, Sending
  <2>4. Cardinality(d.sender) <= d.senders => Sent(d, start, 0)
    <3>1. /\ Len(first.blocks) \in Nat /\ Cardinality(first.d.sender) \in Nat /\ first.d.senders \in Int
      <4>1. first.d \in Dbs /\ first.blocks \in Seq(Ssrcs)
        BY <2>1 DEF Searching, Accs
      <4> QED BY <4>1, DbFields, KeptCount
    <3> QED BY <1>0, <2>1, <2>2, <3>1 DEF Searching, Sent
  <2> QED BY <1>1, <2>2, <2>3, <2>4
<1>3. \A k \in 1 .. n : \A x \in E[k - 1] : Step(k, x) \in E[k]
  <2> SUFFICES ASSUME NEW k \in 1 .. n, NEW x \in E[k - 1] PROVE Step(k, x) \in E[k]
    OBVIOUS
  <2>1. k \in 0 .. n /\ k - 1 \in 0 .. n /\ k - 1 \in Nat /\ k - 1 + 1 = k
    BY <1>1
  <2>2. Good(x, k - 1) /\ x \in Packets
    BY <2>1
  <2>3. Good(Step(k, x), k)
    <3>1. /\ Sending(d, AddPacket(x))
          /\ Sent(d, x, k - 1) => Sent(d, AddPacket(x), k - 1 + 1)
      BY <1>0, <2>1, <2>2, AddPacketStep
    <3> QED BY <2>1, <2>2, <3>1
  <2>4. Step(k, x) \in Packets
    BY <2>3 DEF Sending
  <2> HIDE DEF Step, Good
  <2> QED BY <2>1, <2>3, <2>4
<1>4. \A k \in 1 .. n : \A x \in E[k - 1] : x \in Packets /\ G[<<k, x>>] = Step(k, x)
  <2> HIDE DEF Step
  <2> SUFFICES ASSUME NEW k \in 1 .. n, NEW x \in E[k - 1] PROVE x \in Packets /\ G[<<k, x>>] = Step(k, x)
    OBVIOUS
  <2>1. k - 1 \in 0 .. n /\ x \in Packets
    BY <1>1
  <2>2. <<k, x>> \in (1 .. n) \X Packets
    BY <2>1
  <2> HIDE DEF E
  <2> QED BY <2>1, <2>2
<1>5. Reports(d) = at[n]
  BY Zenon DEF Reports
<1> HIDE DEF n, start, first, E, Step, G
<1>6. PICK f : Recursive(f, n, start, G) /\ \A k \in 0 .. n : f[k] \in E[k]
  <2>1. \A k \in 1 .. n : \A x \in E[k - 1] : G[<<k, x>>] \in E[k]
    BY <1>3, <1>4
  <2> QED BY <1>1, <1>2, <2>1, Recursion
<1>7. f = [k \in 0 .. n |-> IF k = 0 THEN start ELSE Step(k, f[k - 1])]
  <2>1. \A k \in 0 .. n : k # 0 => k \in 1 .. n /\ k - 1 \in 0 .. n
    BY <1>1
  <2>2. \A k \in 0 .. n : k # 0 => G[<<k, f[k - 1]>>] = Step(k, f[k - 1])
    BY <1>4, <1>6, <2>1
  <2> QED BY <1>6, <2>2 DEF Recursive
<1>8. at = [k \in 0 .. n |-> IF k = 0 THEN start ELSE Step(k, at[k - 1])]
  BY <1>7
<1> HIDE DEF at
<1>9. \A k \in 0 .. n : at[k] \in E[k]
  <2>1. at[0] \in E[0]
    BY <1>1, <1>2, <1>8
  <2>2. \A k \in 1 .. n : at[k] = Step(k, at[k - 1])
    BY <1>1, <1>8
  <2>3. \A k \in 1 .. n : at[k - 1] \in E[k - 1] => at[k] \in E[k]
    BY <1>3, <2>2
  <2> QED BY <1>1, <2>1, <2>3, Follows
<1>10. at[n] \in E[n]
  BY <1>1, <1>9
<1>11. Good(at[n], n)
  BY <1>1, <1>10 DEF E
<1>12. Cardinality(d.sender) <= d.senders => ToSet(at[n].blocks) = d.sender
  <2> SUFFICES ASSUME Cardinality(d.sender) <= d.senders PROVE ToSet(at[n].blocks) = d.sender
    OBVIOUS
  <2>1. at[n].d.sender \in SUBSET Ssrcs /\ d.sender = at[n].d.sender \cup ToSet(at[n].blocks)
    BY <1>11, DbFields DEF Sending, Packets
  <2>2. IsFiniteSet(at[n].d.sender) /\ Cardinality(at[n].d.sender) \in Nat
    BY <2>1, KeptCount
  <2>3. Cardinality(d.sender) <= n
    BY <1>0, SsrcAssumption, FS_Subset DEF n
  <2>4. at[n].d.sender = {} \/ Cardinality(at[n].d.sender) + n <= Cardinality(d.sender)
    BY <1>11 DEF Sent
  <2>5. at[n].d.sender = {} \/ Cardinality(at[n].d.sender) = 0
    BY <1>0, <1>1, <2>2, <2>3, <2>4
  <2>6. at[n].d.sender = {}
    BY <2>2, <2>5, FS_EmptySet
  <2> QED BY <2>1, <2>6
<1> QED BY <1>5, <1>11, <1>12

\* A report and a goodbye of ours leave the database whole, and no sender uncounted.
LEMMA ByeNowWhole ==
  ASSUME NEW d, Whole(d)
  PROVE  LET e == ByeNow(d)
         IN  /\ Whole(e)
             /\ Cardinality(d.sender) <= d.senders => Cardinality(e.sender) <= e.senders
<1> DEFINE reports == FormatReportBlocks(d)
    back == ProcessReport(reports.d, Me, "RR", reports.blocks)
<1>1. /\ Whole(reports.d) /\ reports.blocks \in Seq(Ssrcs)
      /\ Cardinality(d.sender) <= d.senders => Cardinality(reports.d.sender) <= reports.d.senders
  <2>1. Searching(d, reports)
    BY FormatReportBlocksSound
  <2> HIDE DEF reports
  <2>2. reports.d \in Dbs /\ reports.blocks \in Seq(Ssrcs) /\ Whole(reports.d) /\ d \in Dbs
    BY <2>1 DEF Searching, Accs, Whole, Sound
  <2>3. /\ Cardinality(reports.d.sender) \in Nat /\ Cardinality(d.sender) \in Nat
        /\ reports.d.senders \in Int /\ d.senders \in Int /\ Len(reports.blocks) \in Nat
    BY <2>2, DbFields, KeptCount
  <2> QED BY <2>1, <2>2, <2>3 DEF Searching
<1>2. ByeNow(d) = ProcessBye(back, <<Me>>)
  BY DEF ByeNow
<1> HIDE DEF reports
<1>3. Whole(back) /\ (Cardinality(d.sender) <= d.senders => Cardinality(back.sender) <= back.senders)
  BY <1>1, SsrcAssumption, ProcessReportWhole
<1> HIDE DEF back
<1>4. <<Me>> \in Seq(Ssrcs)
  BY SsrcAssumption
<1> QED BY <1>2, <1>3, <1>4, ProcessByeWhole

-----------------------------------------------------------------------------
(* The end                                                                   *)

\* The sources before a place are those that precede it in the list.
Ordered(t, l) ==
  \A j \in 1 .. Len(l) : l[j] \in t.kept /\ t.prev[l[j]] # Null =>
    \E i \in 1 .. j - 1 : l[i] = t.prev[l[j]]

\* The first of the chain of a source that is kept has no later place than it.
LEMMA FirstIsBefore ==
  ASSUME NEW t, t \in Links, Linked(t), NEW l \in Seq(Ssrcs), Ordered(t, l),
         NEW k \in 1 .. Len(l), l[k] \in t.kept
  PROVE  \E j \in 1 .. k : l[j] \in t.kept /\ t.prev[l[j]] = Null /\ t.db[SsrcHash(l[k])] = l[j]
<1> DEFINE S == {s \in t.kept : SsrcHash(s) = SsrcHash(l[k]) /\ \E j \in 1 .. k : l[j] = s}
<1>1. S \in SUBSET t.kept /\ l[k] \in S /\ t.kept \in SUBSET Ssrcs /\ Len(l) \in Nat
  BY DEF Links
<1>2. PICK s \in S : t.prev[s] \notin S
  BY <1>1 DEF Linked
<1>3. PICK j \in 1 .. k : l[j] = s
  BY <1>2
<1>4. s \in t.kept /\ SsrcHash(s) = SsrcHash(l[k]) /\ j \in 1 .. Len(l)
  BY <1>1, <1>2
<1>5. t.prev[s] = Null
  <2> SUFFICES ASSUME t.prev[s] # Null PROVE FALSE
    OBVIOUS
  <2>1. PICK i \in 1 .. j - 1 : l[i] = t.prev[s]
    BY <1>3, <1>4 DEF Ordered
  <2>2. t.prev[s] \in t.kept /\ t.next[t.prev[s]] = s
    BY <1>4 DEF Linked
  <2>3. s # Null
    BY <1>1, <1>4, HashType
  <2>4. SsrcHash(t.prev[s]) = SsrcHash(s)
    BY <2>2, <2>3 DEF Linked
  <2>5. i \in 1 .. k
    OBVIOUS
  <2>6. t.prev[s] \in S
    BY <1>4, <2>1, <2>2, <2>4, <2>5
  <2> QED BY <1>2, <2>6
<1>6. t.db[SsrcHash(s)] = s
  BY <1>4, <1>5 DEF Linked
<1> QED BY <1>3, <1>4, <1>5, <1>6

\* The first of a chain with a source of another is not ours, when ours is the last.
LEMMA FirstIsNotOurs ==
  ASSUME NEW t, t \in Links, Linked(t), MeIsLast(t), NEW s \in t.kept, s # Me
  PROVE  t.db[SsrcHash(s)] # Me
<1> DEFINE S == {x \in t.kept : SsrcHash(x) = SsrcHash(s) /\ x # Me}
<1>1. S \in SUBSET t.kept /\ s \in S /\ t.kept \in SUBSET Ssrcs
  BY DEF Links
<1>2. PICK x \in S : t.prev[x] \notin S
  BY <1>1 DEF Linked
<1>3. t.prev[x] = Null
  <2> SUFFICES ASSUME t.prev[x] # Null PROVE FALSE
    OBVIOUS
  <2>1. t.prev[x] \in t.kept /\ t.next[t.prev[x]] = x
    BY <1>2 DEF Linked
  <2>2. x # Null
    BY <1>1, <1>2, HashType
  <2>3. SsrcHash(t.prev[x]) = SsrcHash(x)
    BY <2>1, <2>2 DEF Linked
  <2>4. t.prev[x] # Me
    BY <2>1, <2>2 DEF MeIsLast
  <2> QED BY <1>2, <2>1, <2>3, <2>4
<1> QED BY <1>2, <1>3 DEF Linked

\* Where the loop of rtp_done deletes a source, it has not come to its place or just has.
LEMMA DeleteFirstSound ==
  ASSUME NEW x, Sound(x), NEW l \in Seq(Ssrcs), Ordered(x.table, l),
         NEW k \in 1 .. Len(l), l[k] # Me, l[k] \in x.table.kept
  PROVE  LET e == DeleteFirst(x, l[k])
         IN  /\ Sound(e) /\ Ordered(e.table, l)
             /\ MeIsLast(x.table) => MeIsLast(e.table)
             /\ \E j \in 1 .. k : l[j] \in x.table.kept /\ e.table.kept = x.table.kept \ {l[j]}
<1> DEFINE t == x.table
    e == DeleteFirst(x, l[k])
<1>1. x \in Dbs /\ t \in Links /\ Linked(t) /\ t.kept \in SUBSET Ssrcs
  BY DbFields DEF Sound
<1>2. PICK j \in 1 .. k : l[j] \in t.kept /\ t.prev[l[j]] = Null /\ t.db[SsrcHash(l[k])] = l[j]
  BY <1>1, FirstIsBefore
<1>3. e = DeleteSource(x, l[j])
  BY <1>2 DEF DeleteFirst
<1>4. /\ Sound(e) /\ e.table.kept = t.kept \ {l[j]}
      /\ MeIsLast(t) /\ l[j] # Me => MeIsLast(e.table)
      /\ \A y \in e.table.kept : e.table.prev[y] = IF y = t.next[l[j]] THEN t.prev[l[j]] ELSE t.prev[y]
  <2> DEFINE s == l[j]
  <2>1. s \in Ssrcs \cup {Null} /\ s \in x.table.kept /\ e = DeleteSource(x, s)
    BY <1>1, <1>2, <1>3
  <2> HIDE DEF e, s
  <2>2. /\ Sound(e) /\ e.table.kept = x.table.kept \ {s}
        /\ MeIsLast(x.table) /\ s # Me => MeIsLast(e.table)
        /\ \A y \in e.table.kept : e.table.prev[y] = IF y = x.table.next[s] THEN x.table.prev[s] ELSE x.table.prev[y]
    BY <2>1, DeleteSourceSound
  <2> QED BY <2>2 DEF s
<1> HIDE DEF e
<1>5. MeIsLast(t) => MeIsLast(e.table)
  BY <1>1, <1>2, <1>4, FirstIsNotOurs
<1>6. Ordered(e.table, l)
  <2> SUFFICES ASSUME NEW i \in 1 .. Len(l), l[i] \in e.table.kept, e.table.prev[l[i]] # Null
               PROVE  \E g \in 1 .. i - 1 : l[g] = e.table.prev[l[i]]
    BY DEF Ordered
  <2>1. e.table.prev[l[i]] = t.prev[l[i]] /\ l[i] \in t.kept
    BY <1>2, <1>4
  <2> QED BY <2>1 DEF Ordered
<1> QED BY <1>2, <1>4, <1>5, <1>6 DEF e

\* As many sources are deleted as there are of others: theirs, when ours is the last
\* of its chain.
LEMMA DeleteFirstsSound ==
  ASSUME NEW d, Sound(d)
  PROVE  LET e == DeleteFirsts(d)
         IN  /\ Sound(e) /\ Cardinality(e.table.kept) <= 1
             /\ MeIsLast(d.table) => MeIsLast(e.table)
<1> DEFINE list == Listed(d.table)
    n == Len(list)
    Step(k, x) == IF list[k] = Me THEN x ELSE DeleteFirst(x, list[k])
    Others(k) == {list[j] : j \in 1 .. k} \ {Me}
    Good(e, k) == /\ Sound(e) /\ Ordered(e.table, list)
                  /\ MeIsLast(d.table) => MeIsLast(e.table)
                  /\ \A j \in k + 1 .. n : list[j] \in e.table.kept
                  /\ Cardinality(e.table.kept) + Cardinality(Others(k)) = Cardinality(d.table.kept)
    E == [k \in 0 .. n |-> {e \in Dbs : Good(e, k)}]
    at == CHOOSE g : g = [k \in 0 .. n |-> IF k = 0 THEN d ELSE Step(k, g[k - 1])]
    G == [p \in (1 .. n) \X Dbs |-> Step(p[1], p[2])]
<1>1. /\ list \in Seq(Ssrcs) /\ n \in Nat /\ \A k \in 1 .. n : list[k] \in Ssrcs /\ list[k] \in d.table.kept
      /\ \A i, j \in 1 .. n : i # j => list[i] # list[j]
  BY ListedAll
<1>2. d \in E[0]
  <2>1. d \in Dbs
    BY DEF Sound
  <2>2. Others(0) = {} /\ Cardinality({}) = 0 /\ Cardinality(d.table.kept) \in Nat
    BY <2>1, DbFields, KeptCount, FS_EmptySet
  <2>3. Ordered(d.table, list)
    BY ListedAll DEF Ordered
  <2>4. \A j \in 0 + 1 .. n : list[j] \in d.table.kept
    BY <1>1
  <2>5. Good(d, 0)
    <3>1. Cardinality(d.table.kept) + Cardinality(Others(0)) = Cardinality(d.table.kept)
      <4> HIDE DEF Others
      <4> QED BY <2>2
    <3> HIDE DEF list, Others
    <3> QED BY <2>3, <2>4, <3>1
  <2> HIDE DEF Good
  <2> QED BY <1>1, <2>1, <2>5
<1>3. \A k \in 1 .. n : \A x \in E[k - 1] : Step(k, x) \in E[k]
  <2> SUFFICES ASSUME NEW k \in 1 .. n, NEW x \in E[k - 1] PROVE Step(k, x) \in E[k]
    OBVIOUS
  <2>1. k \in 0 .. n /\ k - 1 \in 0 .. n
    BY <1>1
  <2>2. Good(x, k - 1) /\ x \in Dbs
    BY <2>1
  <2>3. list[k] \in x.table.kept /\ \A j \in k + 1 .. n : list[j] \in x.table.kept
    BY <1>1, <2>2
  <2>4. Others(k) = (Others(k - 1) \cup {list[k]}) \ {Me} /\ Others(k - 1) \in SUBSET Ssrcs
    <3>1. 1 .. k = (1 .. k - 1) \cup {k}
      BY <2>1
    <3>2. \A j \in 1 .. k - 1 : list[j] \in Ssrcs
      BY <1>1, <2>1
    <3> QED BY <3>1, <3>2
  <2>5. list[k] \notin Others(k - 1)
    <3>1. \A j \in 1 .. k - 1 : j \in 1 .. n /\ j # k
      BY <2>1
    <3>2. \A j \in 1 .. k - 1 : list[j] # list[k]
      BY <1>1, <3>1
    <3> QED BY <3>2
  <2>6. CASE list[k] = Me
    <3>1. Others(k) = Others(k - 1)
      BY <2>4, <2>6
    <3>2. Good(x, k)
      <4> HIDE DEF Others
      <4> QED BY <2>2, <2>3, <3>1
    <3>3. Step(k, x) = x
      BY <2>6
    <3> HIDE DEF Step, Good
    <3> QED BY <2>1, <2>2, <3>2, <3>3
  <2>7. CASE list[k] # Me
    <3> DEFINE e == DeleteFirst(x, list[k])
    <3>1. Step(k, x) = e
      BY <2>7
    <3>2. /\ Sound(e) /\ Ordered(e.table, list)
          /\ MeIsLast(x.table) => MeIsLast(e.table)
          /\ \E j \in 1 .. k : list[j] \in x.table.kept /\ e.table.kept = x.table.kept \ {list[j]}
      <4> HIDE DEF list
      <4> QED BY <1>1, <2>2, <2>3, <2>7, DeleteFirstSound
    <3> HIDE DEF e
    <3>3. PICK j \in 1 .. k : list[j] \in x.table.kept /\ e.table.kept = x.table.kept \ {list[j]}
      BY <3>2
    <3>4. \A i \in k + 1 .. n : list[i] \in e.table.kept
      <4>1. \A i \in k + 1 .. n : list[i] # list[j]
        <5>1. j \in 1 .. n /\ \A i \in k + 1 .. n : i \in 1 .. n /\ i # j
          BY <2>1
        <5> QED BY <1>1, <5>1
      <4> QED BY <2>3, <3>3, <4>1
    <3>5. Cardinality(e.table.kept) = Cardinality(x.table.kept) - 1 /\ Cardinality(x.table.kept) \in Nat
      <4>1. x.table.kept \in SUBSET Ssrcs
        BY <2>2, DbFields
      <4> HIDE DEF list
      <4> QED BY <3>3, <4>1, KeptCount
    <3>6. Cardinality(Others(k)) = Cardinality(Others(k - 1)) + 1 /\ Cardinality(Others(k - 1)) \in Nat
      <4>1. Others(k) = Others(k - 1) \cup {list[k]}
        BY <2>4, <2>7
      <4> HIDE DEF Others, list
      <4> QED BY <2>4, <2>5, <4>1, KeptCount
    <3>7. Good(e, k)
      <4> HIDE DEF Others
      <4> QED BY <2>2, <3>2, <3>4, <3>5, <3>6
    <3>8. e \in Dbs
      BY <3>2 DEF Sound
    <3> HIDE DEF Step, Good
    <3> QED BY <2>1, <3>1, <3>7, <3>8
  <2> QED BY <2>6, <2>7
<1>4. \A k \in 1 .. n : \A x \in E[k - 1] : x \in Dbs /\ G[<<k, x>>] = Step(k, x)
  <2> HIDE DEF Step
  <2> SUFFICES ASSUME NEW k \in 1 .. n, NEW x \in E[k - 1] PROVE x \in Dbs /\ G[<<k, x>>] = Step(k, x)
    OBVIOUS
  <2>1. k - 1 \in 0 .. n /\ x \in Dbs
    BY <1>1
  <2>2. <<k, x>> \in (1 .. n) \X Dbs
    BY <2>1
  <2> HIDE DEF E
  <2> QED BY <2>1, <2>2
<1>5. DeleteFirsts(d) = at[n]
  BY Zenon DEF DeleteFirsts
<1> HIDE DEF n, list, E, Step, G
<1>6. PICK f : Recursive(f, n, d, G) /\ \A k \in 0 .. n : f[k] \in E[k]
  <2>1. \A k \in 1 .. n : \A x \in E[k - 1] : G[<<k, x>>] \in E[k]
    BY <1>3, <1>4
  <2> QED BY <1>1, <1>2, <2>1, Recursion
<1>7. f = [k \in 0 .. n |-> IF k = 0 THEN d ELSE Step(k, f[k - 1])]
  <2>1. \A k \in 0 .. n : k # 0 => k \in 1 .. n /\ k - 1 \in 0 .. n
    BY <1>1
  <2>2. \A k \in 0 .. n : k # 0 => G[<<k, f[k - 1]>>] = Step(k, f[k - 1])
    BY <1>4, <1>6, <2>1
  <2> QED BY <1>6, <2>2 DEF Recursive
<1>8. at = [k \in 0 .. n |-> IF k = 0 THEN d ELSE Step(k, at[k - 1])]
  BY <1>7
<1> HIDE DEF at
<1>9. \A k \in 0 .. n : at[k] \in E[k]
  <2>1. at[0] \in E[0]
    BY <1>1, <1>2, <1>8
  <2>2. \A k \in 1 .. n : at[k] = Step(k, at[k - 1])
    BY <1>1, <1>8
  <2>3. \A k \in 1 .. n : at[k - 1] \in E[k - 1] => at[k] \in E[k]
    BY <1>3, <2>2
  <2> QED BY <1>1, <2>1, <2>3, Follows
<1>10. at[n] \in E[n]
  BY <1>1, <1>9
<1>11. Good(at[n], n)
  BY <1>1, <1>10 DEF E
<1>12. Others(n) = d.table.kept \ {Me}
  <2> DEFINE all == {list[j] : j \in 1 .. n}
  <2>1. \A s \in d.table.kept : \E j \in 1 .. n : list[j] = s
    BY ListedAll DEF n, list
  <2>2. \A j \in 1 .. n : list[j] \in d.table.kept
    BY <1>1
  <2>3. all = d.table.kept
    BY <2>1, <2>2
  <2> HIDE DEF all
  <2>4. Others(n) = all \ {Me}
    BY DEF all
  <2> QED BY <2>3, <2>4
<1>13. Cardinality(at[n].table.kept) <= 1
  <2>1. d.table.kept \in SUBSET Ssrcs /\ at[n].table.kept \in SUBSET Ssrcs
    BY <1>11, DbFields DEF Sound
  <2>2. /\ Cardinality(d.table.kept) \in Nat /\ Cardinality(at[n].table.kept) \in Nat
        /\ Cardinality(d.table.kept \ {Me}) >= Cardinality(d.table.kept) - 1
    <3>1. CASE Me \in d.table.kept
      BY <2>1, <3>1, KeptCount
    <3>2. CASE Me \notin d.table.kept
      <4>1. d.table.kept \ {Me} = d.table.kept
        BY <3>2
      <4>2. Cardinality(d.table.kept \ {Me}) = Cardinality(d.table.kept)
        BY <4>1
      <4>3. Cardinality(d.table.kept) \in Nat /\ Cardinality(at[n].table.kept) \in Nat
        BY <2>1, KeptCount
      <4> QED BY <4>2, <4>3
    <3> QED BY <3>1, <3>2
  <2>3. d.table.kept \ {Me} \in SUBSET Ssrcs
    BY <2>1
  <2>4. Cardinality(d.table.kept \ {Me}) \in Nat
    BY <2>3, KeptCount
  <2>5. Cardinality(at[n].table.kept) + Cardinality(d.table.kept \ {Me}) = Cardinality(d.table.kept)
    BY <1>11, <1>12
  <2> QED BY <2>2, <2>4, <2>5
<1> QED BY <1>5, <1>11, <1>13

-----------------------------------------------------------------------------
(* The steps of the session                                                  *)

\* The invariant says that the database of the session is sound, and whole
\* until rtp_done.
LEMMA StateWhole ==
  ASSUME RtpInv
  PROVE  Sound(State) /\ (stage # "done" => Whole(State))
<1> DEFINE d == State
<1>1. /\ d.table = table /\ d.count = count /\ d.rr = rr /\ d.sender = sender
      /\ d.senders = senders /\ d.gotBye = gotBye /\ d.told = told
  BY DEF State
<1>2. d \in Dbs
  <2>1. /\ table \in Links /\ table.kept \in SUBSET Ssrcs /\ count \in Int /\ rr \in SUBSET (Ssrcs \X Ssrcs)
        /\ sender \in SUBSET Ssrcs /\ senders \in Int /\ gotBye \in SUBSET Ssrcs /\ told \in SUBSET Ssrcs
    BY DEF RtpInv, RtpTypeOK, Links, OtherSources
  <2> QED BY <2>1 DEF State, Dbs
<1> HIDE DEF d
<1>3. Sound(d)
  BY <1>1, <1>2 DEF RtpInv, ReportsOfKnown, Sound
<1>4. stage # "done" => Whole(d)
  BY <1>1, <1>3 DEF RtpInv, RtpTypeOK, Whole
<1> QED BY <1>3, <1>4 DEF d

\* What the functions leave sound in the database, the variables have after the step.
LEMMA BecomesInv ==
  ASSUME NEW d, Becomes(d), Sound(d), d.sender \subseteq d.table.kept, d.gotBye \subseteq d.table.kept,
         weSent' \in BOOLEAN, initial' \in BOOLEAN, sendingBye' \in BOOLEAN, lost' \in BOOLEAN,
         stage' \in {"open", "bye", "left", "done"},
         stage' = "done" => Cardinality(d.table.kept) <= IF lost' THEN 1 ELSE 0,
         stage' # "done" /\ ~lost' => MeIsLast(d.table),
         stage' # "done" /\ ~sendingBye' => Cardinality(d.sender) <= d.senders
  PROVE  RtpInv'
<1>1. /\ table' = d.table /\ count' = d.count /\ rr' = d.rr /\ sender' = d.sender
      /\ senders' = d.senders /\ gotBye' = d.gotBye /\ told' = d.told
  BY DEF Becomes
<1>2. /\ d.table \in Links /\ d.count \in Nat /\ d.rr \in SUBSET (Ssrcs \X Ssrcs) /\ d.senders \in Int
      /\ d.told \subseteq OtherSources
  <2>1. d \in Dbs /\ d.count = Cardinality(d.table.kept) /\ d.told = d.table.kept \ {Me}
    BY DEF Sound
  <2>2. /\ d.table \in Links /\ d.rr \in SUBSET (Ssrcs \X Ssrcs) /\ d.senders \in Int
        /\ d.table.kept \in SUBSET Ssrcs
    BY <2>1, DbFields
  <2>3. Cardinality(d.table.kept) \in Nat
    BY <2>2, KeptCount
  <2> QED BY <2>1, <2>2, <2>3 DEF OtherSources
<1>3. RtpTypeOK'
  BY <1>1, <1>2 DEF RtpTypeOK
<1>4. Linked(table') /\ count' = Cardinality(table'.kept) /\ told' = table'.kept \ {Me}
  BY <1>1 DEF Sound
<1>5. ReportsOfKnown'
  BY <1>1 DEF Sound, ReportsOfKnown
<1>6. /\ stage' = "done" => Cardinality(table'.kept) <= IF lost' THEN 1 ELSE 0
      /\ stage' # "done" /\ ~lost' => MeIsLast(table')
  BY <1>1
<1>7. stage' # "done" /\ ~sendingBye' => Cardinality(sender') <= senders'
  BY <1>1
<1> QED BY <1>3, <1>4, <1>5, <1>6, <1>7 DEF RtpInv

\* The same while the session is not over.
LEMMA BecomesWhole ==
  ASSUME NEW d, Becomes(d), Whole(d), weSent' \in BOOLEAN, initial' \in BOOLEAN,
         sendingBye' \in BOOLEAN, lost' \in BOOLEAN, lost => lost',
         stage' \in {"open", "bye", "left"},
         ~sendingBye' => Cardinality(d.sender) <= d.senders
  PROVE  RtpInv'
<1>1. /\ Sound(d) /\ d.sender \subseteq d.table.kept /\ d.gotBye \subseteq d.table.kept
      /\ ~lost' => MeIsLast(d.table)
  BY DEF Whole
<1>2. stage' \in {"open", "bye", "left", "done"} /\ stage' # "done"
  OBVIOUS
<1> QED BY <1>1, <1>2, BecomesInv

\* The fields of the database of the session are its variables.
LEMMA StateFields ==
  /\ State.table = table /\ State.rr = rr /\ State.sender = sender /\ State.senders = senders
  /\ State.count = count /\ State.gotBye = gotBye /\ State.told = told
  BY DEF State

\* A list of one source or none is a list of sources.
LEMMA AtMostOneLists ==
  ASSUME NEW S \in SUBSET Ssrcs, NEW l \in AtMostOne(S)
  PROVE  l \in Seq(Ssrcs)
<1>1. <<>> \in Seq(Ssrcs) /\ \A s \in S : <<s>> \in Seq(Ssrcs)
  OBVIOUS
<1>2. CASE l = <<>>
  BY <1>1, <1>2
<1>3. CASE l \in {<<s>> : s \in S}
  <2>1. PICK s \in S : l = <<s>>
    BY <1>3
  <2> QED BY <1>1, <2>1
<1> QED BY <1>2, <1>3 DEF AtMostOne

\* Removing the reports that are old.
LEMMA LessSound ==
  ASSUME NEW d, Sound(d), NEW old
  PROVE  LET a == [d EXCEPT !.rr = @ \ old]
         IN  /\ Sound(a) /\ a.table = d.table /\ a.sender = d.sender /\ a.senders = d.senders
             /\ a.gotBye = d.gotBye
<1> DEFINE a == [d EXCEPT !.rr = d.rr \ old]
<1>1. d \in Dbs
  BY DEF Sound
<1>2. d.rr \ old \in SUBSET (Ssrcs \X Ssrcs)
  BY <1>1, DbFields
<1>3. a = [table |-> d.table, count |-> d.count, rr |-> d.rr \ old, sender |-> d.sender,
           senders |-> d.senders, gotBye |-> d.gotBye, told |-> d.told]
  BY <1>1 DEF Dbs
<1> HIDE DEF a
<1>4. /\ a \in Dbs /\ a.table = d.table /\ a.count = d.count /\ a.rr = d.rr \ old /\ a.told = d.told
      /\ a.sender = d.sender /\ a.senders = d.senders /\ a.gotBye = d.gotBye
  BY <1>1, <1>2, <1>3, DbFields DEF Dbs
<1>5. Sound(a)
  BY <1>4 DEF Sound
<1> QED BY <1>4, <1>5 DEF a

\* Starting the count of senders again.
LEMMA LessWhole ==
  ASSUME NEW d, Whole(d)
  PROVE  LET b == [d EXCEPT !.sender = {}, !.senders = 0]
         IN  Whole(b) /\ b.sender = {} /\ b.senders = 0 /\ b.rr = d.rr
<1> DEFINE b == [d EXCEPT !.sender = {}, !.senders = 0]
<1>1. d \in Dbs
  BY DEF Whole, Sound
<1>2. b = [table |-> d.table, count |-> d.count, rr |-> d.rr, sender |-> {},
           senders |-> 0, gotBye |-> d.gotBye, told |-> d.told]
  <2> DEFINE nobody == {}
  <2>1. b = [d EXCEPT !.sender = nobody, !.senders = 0]
    OBVIOUS
  <2> HIDE DEF b, nobody
  <2>2. b = [table |-> d.table, count |-> d.count, rr |-> d.rr, sender |-> nobody,
             senders |-> 0, gotBye |-> d.gotBye, told |-> d.told]
    BY <1>1, <2>1 DEF Dbs
  <2> QED BY <2>2 DEF nobody
<1> HIDE DEF b
<1>3. /\ b \in Dbs /\ b.table = d.table /\ b.count = d.count /\ b.rr = d.rr /\ b.told = d.told
      /\ b.sender = {} /\ b.senders = 0 /\ b.gotBye = d.gotBye
  BY <1>1, <1>2, DbFields DEF Dbs
<1>4. Whole(b)
  BY <1>3 DEF Whole, Sound
<1> QED BY <1>3, <1>4 DEF b

\* rtp_init makes our own source, the only one of its chain.
LEMMA RtpInitInv == ASSUME RtpInit PROVE RtpInv
<1> DEFINE t == [db   |-> [h \in Buckets |-> Null], next |-> [s \in Ssrcs |-> Null],
                 prev |-> [s \in Ssrcs |-> Null], kept |-> {}]
    none == [table |-> t, count |-> 0, rr |-> {}, sender |-> {}, senders |-> 0, gotBye |-> {}, told |-> {}]
    first == CreateSource(none, Me)
<1>1. /\ table = first.table /\ count = first.count /\ rr = first.rr
      /\ sender = first.sender /\ senders = first.senders
      /\ gotBye = first.gotBye /\ told = first.told
      /\ weSent = FALSE /\ initial = TRUE /\ sendingBye = FALSE /\ stage = "open" /\ lost = FALSE
  BY Zenon DEF RtpInit
<1>2. /\ t \in Links /\ t.kept = {} /\ \A h \in Buckets : t.db[h] = Null
  BY DEF Links
<1> HIDE DEF t
<1>3. Linked(t)
  BY <1>2 DEF Linked
<1>4. /\ none.table = t /\ none.count = 0 /\ none.rr = {} /\ none.sender = {} /\ none.senders = 0
      /\ none.gotBye = {} /\ none.told = {} /\ none \in Dbs
  BY <1>2 DEF Dbs
<1> HIDE DEF none
<1>5. Cardinality({}) = 0
  BY FS_EmptySet
<1>6. Sound(none)
  BY <1>2, <1>3, <1>4, <1>5 DEF Sound
<1>7. /\ Sound(first) /\ first.table.kept = {Me} /\ first.rr = {} /\ first.sender = {}
      /\ first.senders = 0 /\ first.gotBye = {}
  <2>1. /\ Sound(first) /\ first.table.kept = none.table.kept \cup {Me} /\ first.rr = none.rr
        /\ first.sender = none.sender /\ first.senders = none.senders /\ first.gotBye = none.gotBye
    <3> HIDE DEF first
    <3>1. Me \in Ssrcs
      BY SsrcAssumption
    <3> QED BY <1>6, <3>1, CreateSourceSound DEF first
  <2> QED BY <1>2, <1>4, <2>1
<1>8. first.table.next[Me] = Null
  <2>1. ~ Known(t, Me)
    BY <1>2, <1>3, KnownIsKept, SsrcAssumption
  <2>2. first = [none EXCEPT !.table = Linking(t, Me), !.count = @ + 1, !.told = @ \cup ({Me} \ {Me})]
    BY <1>4, <2>1 DEF CreateSource, Linking
  <2>3. first.table = Linking(t, Me)
    <3> HIDE DEF first
    <3> QED BY <1>4, <2>2 DEF Dbs
  <2>4. Linking(t, Me).next[Me] = t.db[SsrcHash(Me)]
    BY <1>2, SsrcAssumption DEF Linking, Links
  <2>5. SsrcHash(Me) \in Buckets
    BY HashType, SsrcAssumption
  <2> QED BY <1>2, <2>3, <2>4, <2>5
<1> HIDE DEF first
<1>9. State = first
  <2>1. first \in Dbs
    BY <1>7 DEF Sound
  <2> QED BY <1>1, <2>1 DEF State, Dbs
<1>10. table \in Links /\ count \in Nat /\ senders \in Int /\ rr \in SUBSET (Ssrcs \X Ssrcs)
  <2>1. first \in Dbs /\ count = Cardinality(first.table.kept)
    BY <1>1, <1>7 DEF Sound
  <2>2. first.table.kept \in SUBSET Ssrcs
    BY <2>1, DbFields
  <2>3. count \in Nat
    BY <2>1, <2>2, KeptCount
  <2> QED BY <1>1, <2>1, <2>3, DbFields
<1>11. table.kept = {Me} /\ sender = {} /\ gotBye = {} /\ rr = {} /\ senders = 0 /\ told = {}
  BY <1>1, <1>7 DEF Sound
<1>12. RtpTypeOK
  BY <1>1, <1>10, <1>11 DEF RtpTypeOK
<1>13. Linked(table) /\ count = Cardinality(table.kept) /\ told = table.kept \ {Me}
  BY <1>1, <1>7 DEF Sound
<1>14. ReportsOfKnown /\ MeIsLast(table)
  BY <1>1, <1>8, <1>11 DEF ReportsOfKnown, MeIsLast
<1> QED BY <1>1, <1>5, <1>11, <1>12, <1>13, <1>14 DEF RtpInv

\* Any packet of RTCP leaves the invariant true.
LEMMA RecvCtrlInv == ASSUME RtpInv, RecvCtrl PROVE RtpInv'
<1>1. /\ Whole(State) /\ stage' = stage /\ stage \in {"open", "bye"} /\ weSent' \in BOOLEAN /\ initial' \in BOOLEAN
      /\ sendingBye' = sendingBye /\ sendingBye \in BOOLEAN /\ lost' = lost /\ lost \in BOOLEAN
      /\ ~sendingBye => Cardinality(State.sender) <= State.senders
  BY StateWhole, StateFields DEF RecvCtrl, RtpInv, RtpTypeOK
<1> DEFINE Blocks(s) == IF Cardinality(rr) < MaxReports THEN Ssrcs \ {s} ELSE {}
<1>2. PICK s \in Speakers, type \in {"SR", "RR"} :
        \E blocks \in AtMostOne(Blocks(s)), about \in AtMostOne(Unknown), byes \in AtMostOne({s, Me}) :
          Becomes(ProcessCtrl(State, s, type, blocks, about, byes))
  BY DEF RecvCtrl
<1>3. PICK blocks \in AtMostOne(Blocks(s)), about \in AtMostOne(Unknown), byes \in AtMostOne({s, Me}) :
        Becomes(ProcessCtrl(State, s, type, blocks, about, byes))
  BY <1>2
<1>4. s \in Ssrcs /\ blocks \in Seq(Ssrcs) /\ about \in Seq(Ssrcs) /\ byes \in Seq(Ssrcs)
  <2>1. s \in Ssrcs /\ Unknown \in SUBSET Ssrcs /\ Blocks(s) \in SUBSET Ssrcs /\ {s, Me} \in SUBSET Ssrcs
    BY BoundAssumption, SsrcAssumption DEF Unknown
  <2> HIDE DEF Blocks
  <2> QED BY <2>1, AtMostOneLists
<1> DEFINE d == State
           e == ProcessCtrl(d, s, type, blocks, about, byes)
<1>5. Whole(d) /\ (~sendingBye => Cardinality(d.sender) <= d.senders)
  BY <1>1
<1>6. Becomes(e)
  BY <1>3
<1> HIDE DEF d
<1>7. Whole(e) /\ (Cardinality(d.sender) <= d.senders => Cardinality(e.sender) <= e.senders)
  BY <1>4, <1>5, ProcessCtrlWhole
<1> HIDE DEF e
<1> QED BY <1>1, <1>5, <1>6, <1>7, BecomesWhole

\* A packet of RTP of a known source leaves it true.
LEMMA RecvDataInv == ASSUME RtpInv, RecvData PROVE RtpInv'
<1>1. /\ Whole(State) /\ stage' = stage /\ stage = "open" /\ weSent' \in BOOLEAN /\ initial' \in BOOLEAN
      /\ sendingBye' = sendingBye /\ sendingBye \in BOOLEAN /\ lost' = lost /\ lost \in BOOLEAN
      /\ ~sendingBye => Cardinality(State.sender) <= State.senders
  BY StateWhole, StateFields DEF RecvData, RtpInv, RtpTypeOK
<1>2. PICK s \in Speakers, csrcs \in AtMostOne(Unknown) :
        Known(table, s) /\ Becomes(MarkSender(CreateAll(State, csrcs), s))
  BY DEF RecvData
<1> DEFINE d == State
           c == CreateAll(d, csrcs)
           e == MarkSender(c, s)
<1>3. csrcs \in Seq(Ssrcs) /\ s \in Ssrcs
  <2>1. s \in Ssrcs /\ Unknown \in SUBSET Ssrcs
    BY BoundAssumption DEF Unknown
  <2> QED BY <2>1, AtMostOneLists
<1>4. s \in d.table.kept
  <2>1. table \in Links /\ Linked(table) /\ d.table = table
    BY StateFields DEF RtpInv, RtpTypeOK
  <2> QED BY <1>2, <1>3, <2>1, KnownIsKept
<1>5. Whole(d) /\ (~sendingBye => Cardinality(d.sender) <= d.senders)
  BY <1>1
<1>6. Becomes(e)
  BY <1>2
<1> HIDE DEF d
<1>7. /\ Whole(c) /\ s \in c.table.kept /\ (~sendingBye => Cardinality(c.sender) <= c.senders)
  BY <1>3, <1>4, <1>5, CreateAllWhole
<1> HIDE DEF c
<1>8. Whole(e) /\ (~sendingBye => Cardinality(e.sender) <= e.senders)
  BY <1>7, MarkSenderSound
<1> HIDE DEF e
<1> QED BY <1>1, <1>6, <1>8, BecomesWhole

\* The reports leave it true, and have a block on every source that has
\* sent, unless the count of them was reset.
LEMMA SendCtrlInv ==
  ASSUME RtpInv, SendCtrl
  PROVE  RtpInv' /\ (~sendingBye => \A s \in sender : <<Me, s>> \in rr')
<1> DEFINE d == State
           reports == Reports(d)
           type == IF weSent THEN "SR" ELSE "RR"
           back == ProcessReport(reports.d, Me, type, reports.blocks)
           e == [back EXCEPT !.sender = {}, !.senders = 0]
<1>1. /\ Whole(d) /\ stage' = stage /\ stage = "open" /\ weSent' \in BOOLEAN /\ initial' \in BOOLEAN
      /\ sendingBye' = sendingBye /\ sendingBye \in BOOLEAN /\ lost' = lost /\ lost \in BOOLEAN
      /\ (~sendingBye => Cardinality(d.sender) <= d.senders) /\ d.sender = sender
  BY StateWhole, StateFields DEF SendCtrl, RtpInv, RtpTypeOK
<1>2. Becomes(e)
  BY Zenon DEF SendCtrl
<1> HIDE DEF d, type
<1>3. Sending(d, reports) /\ (~sendingBye => ToSet(reports.blocks) = d.sender)
  BY <1>1, ReportsSound
<1> HIDE DEF reports
<1>4. Whole(reports.d) /\ reports.blocks \in Seq(Ssrcs) /\ Me \in Ssrcs
  BY <1>3, SsrcAssumption DEF Sending, Packets
<1>5. Whole(back) /\ {<<Me, b>> : b \in ToSet(reports.blocks)} \subseteq back.rr
  BY <1>4, ProcessReportWhole
<1> HIDE DEF back
<1>6. Whole(e) /\ e.sender = {} /\ e.senders = 0 /\ e.rr = back.rr
  BY <1>5, LessWhole
<1> HIDE DEF e
<1>7. Cardinality(e.sender) <= e.senders
  BY <1>6, FS_EmptySet
<1>8. RtpInv'
  BY <1>1, <1>2, <1>6, <1>7, BecomesWhole
<1>9. rr' = e.rr
  BY <1>2 DEF Becomes
<1> QED BY <1>1, <1>3, <1>5, <1>6, <1>8, <1>9

\* Housekeeping leaves it true, whatever the silence of the sources.
LEMMA UpdateInv == ASSUME RtpInv, Update PROVE RtpInv'
<1>1. /\ Whole(State) /\ stage' = stage /\ stage \in {"open", "bye"} /\ initial' \in BOOLEAN
      /\ sendingBye' = sendingBye /\ sendingBye \in BOOLEAN /\ lost \in BOOLEAN
      /\ lost' = (lost \/ Me \notin table'.kept)
      /\ ~sendingBye => Cardinality(State.sender) <= State.senders
  BY StateWhole, StateFields DEF Update, RtpInv, RtpTypeOK
<1>2. PICK silence \in Silences, still \in {FALSE, weSent} :
        \E old \in {{}} \cup {{p} : p \in Forget(UpdateAll(State, silence)).rr} :
          /\ Becomes([Forget(UpdateAll(State, silence)) EXCEPT !.rr = @ \ old])
          /\ weSent' = still
  BY Zenon DEF Update
<1> DEFINE d == State
           all == UpdateAll(d, silence)
           after == Forget(all)
<1>3. PICK old : Becomes([after EXCEPT !.rr = @ \ old]) /\ weSent' = still
  BY <1>2
<1> DEFINE e == [after EXCEPT !.rr = @ \ old]
<1>4. weSent' \in BOOLEAN
  BY <1>3 DEF RtpInv, RtpTypeOK
<1>5. Whole(d) /\ (~sendingBye => Cardinality(d.sender) <= d.senders) /\ Becomes(e)
  BY <1>1, <1>3
<1> HIDE DEF d
<1>6. /\ Sound(all) /\ (~lost /\ Me \in all.table.kept => MeIsLast(all.table))
      /\ (~sendingBye => Cardinality(all.sender) <= all.senders)
  BY <1>5, UpdateAllSound DEF Whole
<1> HIDE DEF all
<1>7. /\ Sound(after) /\ (MeIsLast(all.table) => MeIsLast(after.table)) /\ after.table.kept = all.table.kept
      /\ after.sender = all.sender \cap all.table.kept /\ after.gotBye = all.gotBye \cap all.table.kept
      /\ after.senders = all.senders
  BY <1>6, ForgetSound
<1> HIDE DEF after
<1>9. ~sendingBye => Cardinality(after.sender) <= after.senders
  <2>1. all.sender \in SUBSET Ssrcs /\ all.senders \in Int
    BY <1>6, DbFields DEF Sound
  <2>2. /\ IsFiniteSet(all.sender) /\ Cardinality(all.sender) \in Nat
        /\ after.sender \in SUBSET Ssrcs /\ after.sender \subseteq all.sender
    BY <1>7, <2>1, KeptCount
  <2>3. Cardinality(after.sender) <= Cardinality(all.sender) /\ Cardinality(after.sender) \in Nat
    BY <2>2, FS_Subset, KeptCount
  <2> QED BY <1>6, <1>7, <2>1, <2>2, <2>3
<1>10. /\ Sound(e) /\ e.table = after.table /\ e.sender = after.sender /\ e.senders = after.senders
       /\ e.gotBye = after.gotBye
  BY <1>7, LessSound
<1> HIDE DEF e
<1>11. lost' \in BOOLEAN /\ (~lost' => MeIsLast(e.table))
  <2>1. table' = e.table
    BY <1>5 DEF Becomes
  <2> QED BY <1>1, <1>6, <1>7, <1>10, <2>1
<1>12. e.sender \subseteq e.table.kept /\ e.gotBye \subseteq e.table.kept
  BY <1>7, <1>10
<1>13. stage' \in {"open", "bye", "left", "done"} /\ stage' # "done"
  BY <1>1
<1> QED BY <1>1, <1>4, <1>5, <1>9, <1>10, <1>11, <1>12, <1>13, BecomesInv

\* A goodbye, at once or after a wait, leaves it true.
LEMMA ByeInv == ASSUME RtpInv, SendBye \/ WaitedToBye PROVE RtpInv'
<1> DEFINE d == State
           e == ByeNow(d)
<1>1. /\ Whole(d) /\ Becomes(e) /\ stage' = "left" /\ weSent' \in BOOLEAN /\ initial' \in BOOLEAN
      /\ sendingBye' = sendingBye /\ sendingBye \in BOOLEAN /\ lost' = lost /\ lost \in BOOLEAN
      /\ ~sendingBye => Cardinality(d.sender) <= d.senders
  BY StateWhole, StateFields DEF SendBye, WaitedToBye, RtpInv, RtpTypeOK
<1> HIDE DEF d
<1>2. Whole(e) /\ (Cardinality(d.sender) <= d.senders => Cardinality(e.sender) <= e.senders)
  BY <1>1, ByeNowWhole
<1> HIDE DEF e
<1> QED BY <1>1, <1>2, BecomesWhole

\* Nothing of the database changes but the count of the senders, which no
\* longer matters when rtp_send_bye has reset it.
LEMMA QuietInv ==
  ASSUME RtpInv, SendData \/ LeaveSilently \/ WaitToBye \/ GoOn \/ UNCHANGED sourceVars
  PROVE  RtpInv'
<1>1. /\ table' = table /\ count' = count /\ rr' = rr /\ sender' = sender /\ gotBye' = gotBye /\ told' = told
      /\ (senders' = senders \/ senders' = 0) /\ (~sendingBye' => senders' = senders /\ ~sendingBye)
      /\ weSent' \in BOOLEAN /\ initial' \in BOOLEAN /\ sendingBye' \in BOOLEAN
      /\ stage' \in {"open", "bye", "left", "done"} /\ (stage' = "done" <=> stage = "done")
      /\ lost' = lost
  BY DEF SendData, LeaveSilently, WaitToBye, GoOn, sourceVars, RtpInv, RtpTypeOK
<1>2. RtpTypeOK'
  BY <1>1 DEF RtpInv, RtpTypeOK
<1>3. Linked(table') /\ count' = Cardinality(table'.kept) /\ told' = table'.kept \ {Me}
  BY <1>1 DEF RtpInv
<1>4. /\ ReportsOfKnown'
      /\ stage' = "done" => Cardinality(table'.kept) <= IF lost' THEN 1 ELSE 0
      /\ stage' # "done" /\ ~lost' => MeIsLast(table')
  BY <1>1 DEF RtpInv, ReportsOfKnown
<1>5. stage' # "done" /\ ~sendingBye' => Cardinality(sender') <= senders'
  BY <1>1 DEF RtpInv
<1> QED BY <1>2, <1>3, <1>4, <1>5 DEF RtpInv

\* The end of the session frees every source, or all but one when ours was lost.
LEMMA DoneInv == ASSUME RtpInv, Done PROVE RtpInv'
<1> DEFINE d == State
           others == DeleteFirsts(d)
           none == DeleteSource(others, Me)
           e == Forget(none)
<1>1. /\ Whole(d) /\ Becomes(e) /\ stage' = "done" /\ weSent' \in BOOLEAN /\ initial' \in BOOLEAN
      /\ sendingBye' \in BOOLEAN /\ lost' = lost /\ lost \in BOOLEAN
  BY StateWhole DEF Done, RtpInv, RtpTypeOK
<1> HIDE DEF d
<1>2. /\ Sound(others) /\ Cardinality(others.table.kept) <= 1 /\ (~lost => MeIsLast(others.table))
  BY <1>1, DeleteFirstsSound DEF Whole
<1> HIDE DEF others
<1>3. Sound(none) /\ none.table.kept = others.table.kept \ {Me}
  BY <1>2, SsrcAssumption, DeleteSourceSound
<1> HIDE DEF none
<1>4. Cardinality(none.table.kept) <= IF lost THEN 1 ELSE 0
  <2>1. others.table.kept \in SUBSET Ssrcs
    BY <1>2, DbFields DEF Sound
  <2>2. CASE Me \in others.table.kept
    <3>1. Cardinality(none.table.kept) = Cardinality(others.table.kept) - 1 /\ Cardinality(others.table.kept) \in Nat
      BY <1>3, <2>1, <2>2, KeptCount
    <3> QED BY <1>2, <3>1
  <2>3. CASE Me \notin others.table.kept
    <3>1. none.table.kept = others.table.kept
      BY <1>3, <2>3
    <3>2. lost
      BY <1>1, <1>2, <2>3 DEF MeIsLast
    <3> QED BY <1>2, <3>1, <3>2
  <2> QED BY <2>2, <2>3
<1>5. Sound(e) /\ e.table.kept = none.table.kept /\ e.sender \subseteq e.table.kept /\ e.gotBye \subseteq e.table.kept
  BY <1>3, ForgetSound
<1> HIDE DEF e
<1>6. stage' = "done" => Cardinality(e.table.kept) <= IF lost' THEN 1 ELSE 0
  BY <1>1, <1>4, <1>5
<1>7. stage' \in {"open", "bye", "left", "done"} /\ ~(stage' # "done")
  BY <1>1
<1> QED BY <1>1, <1>5, <1>6, <1>7, BecomesInv

\* Every step of the session leaves it true.
LEMMA RtpNextInv == ASSUME RtpInv, [RtpNext]_sourceVars PROVE RtpInv'
  BY RecvCtrlInv, RecvDataInv, SendCtrlInv, UpdateInv, ByeInv, QuietInv, DoneInv DEF RtpNext

\* The inductive invariant of the database of sources, through every packet of
\* RTP and RTCP, our own SSRC in them too, rtp_update, rtp_send_ctrl, rtp_send_bye,
\* the session that goes on after it, and rtp_done.
THEOREM SourcesInductive == RtpSpec => []RtpInv
<1>1. RtpInit => RtpInv
  BY RtpInitInv
<1>2. RtpInv /\ [RtpNext]_sourceVars => RtpInv'
  BY RtpNextInv
<1> QED BY <1>1, <1>2, PTL DEF RtpSpec

\* The invariant of the links says what the chains are when they are followed.
LEMMA InvChainsAreSound == ASSUME RtpInv PROVE ChainsAreSound
<1> DEFINE t == table
           list == Listed(t)
<1>1. t \in Links /\ Linked(t) /\ Sound(State) /\ State.table = t /\ Me \in Ssrcs
  BY StateWhole, StateFields, SsrcAssumption DEF RtpInv, RtpTypeOK
<1>2. ToSet(list) = t.kept
  <2>1. /\ DOMAIN list = 1 .. Len(list)
        /\ \A i \in 1 .. Len(list) : list[i] \in t.kept
        /\ \A s \in t.kept : \E i \in 1 .. Len(list) : list[i] = s
    <3> DEFINE d == State
    <3>1. Sound(d) /\ d.table = t
      BY <1>1
    <3> HIDE DEF d
    <3> QED BY <3>1, ListedAll
  <2> HIDE DEF list
  <2> QED BY <2>1 DEF ToSet
<1>3. ASSUME NEW h \in Buckets
      PROVE  LET chain == Chain(t, h) IN
             /\ IsInjective(chain)
             /\ \A i \in DOMAIN chain : /\ SsrcHash(chain[i]) = h
                                        /\ t.prev[chain[i]] = IF i = 1 THEN Null ELSE chain[i - 1]
  <2> DEFINE c == Chain(t, h)
  <2>1. IsChain(c, t, h)
    BY <1>1, ChainIs
  <2> HIDE DEF c
  <2>2. DOMAIN c = 1 .. Len(c)
    BY <2>1 DEF IsChain
  <2>3. IsInjective(c)
    BY <2>1, <2>2 DEF IsChain, IsInjective
  <2>4. \A i \in DOMAIN c : SsrcHash(c[i]) = h /\ t.prev[c[i]] = IF i = 1 THEN Null ELSE c[i - 1]
    BY <2>1, <2>2 DEF IsChain
  <2> QED BY <2>3, <2>4 DEF c
<1>4. ASSUME stage # "done", ~lost PROVE Last(Chain(t, SsrcHash(Me))) = Me
  <2> DEFINE c == Chain(t, SsrcHash(Me))
  <2>1. IsChain(c, t, SsrcHash(Me))
    <3>1. SsrcHash(Me) \in Buckets
      BY <1>1, HashType
    <3> QED BY <1>1, <3>1, ChainIs
  <2> HIDE DEF c
  <2>2. Me \in t.kept /\ t.next[Me] = Null
    BY <1>4 DEF RtpInv, MeIsLast
  <2>3. PICK i \in 1 .. Len(c) : c[i] = Me
    BY <2>1, <2>2 DEF IsChain
  <2>4. i = Len(c)
    <3> SUFFICES ASSUME i # Len(c) PROVE FALSE
      OBVIOUS
    <3>1. c[i + 1] = Null
      BY <2>1, <2>2, <2>3 DEF IsChain
    <3>2. i + 1 \in 1 .. Len(c)
      BY <2>1, <2>3 DEF IsChain
    <3>3. c[i + 1] \in Ssrcs
      BY <2>1, <3>2 DEF IsChain
    <3> QED BY <3>1, <3>3, HashType
  <2> QED BY <2>3, <2>4 DEF Last, c
<1> HIDE DEF list
<1>5. /\ RtpTypeOK /\ count = Cardinality(t.kept) /\ told = t.kept \ {Me}
      /\ stage = "done" => Cardinality(t.kept) <= IF lost THEN 1 ELSE 0
  BY DEF RtpInv
<1> QED BY <1>2, <1>3, <1>4, <1>5 DEF ChainsAreSound, list

\* The chains of the hash table, followed link by link, are the sources that are
\* kept, once each and in both directions, the ones counted and told.  Ours is the
\* last of its chain, so that rtp_done leaves none, until rtp_update deletes it: from
\* then on rtp_done leaves one at most.
THEOREM ChainsStaySound == RtpSpec => []ChainsAreSound
  BY SourcesInductive, InvChainsAreSound, PTL

\* remove_rr leaves no report of, or about, a source that was freed.
THEOREM ReportsAreOfKnown == RtpSpec => []ReportsOfKnown
<1>1. RtpInv => ReportsOfKnown
  BY DEF RtpInv
<1> QED BY <1>1, SourcesInductive, PTL

\* Every source that has sent since the last reports has a block in the next ones
\* (format_report_blocks, send_rtcp), whatever was deleted in between, unless
\* rtp_send_bye has reset the count of them and the session went on.
THEOREM SendersAreReported == RtpSpec => EverySenderReported
<1>1. RtpInv /\ [RtpNext]_sourceVars => [SendCtrl /\ ~sendingBye => \A s \in sender : <<Me, s>> \in rr']_sourceVars
  BY SendCtrlInv
<1> QED BY <1>1, SourcesInductive, PTL DEF RtpSpec, EverySenderReported
=============================================================================
