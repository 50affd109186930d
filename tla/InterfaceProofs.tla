-------------------------- MODULE InterfaceProofs ---------------------------
(***************************************************************************)
(* The interface of the program, for any number of callers, of sessions    *)
(* and of users of the audio processor: the slot through which a call is   *)
(* handed to it (CallHandoff), the sessions it makes and ends (Sessions),  *)
(* and the audio processor it starts and stops (AudioProcessor).  Each has *)
(* an inductive invariant of its own.                                      *)
(***************************************************************************)
EXTENDS CallHandoff, Sessions, AudioProcessor,
        SequenceTheorems, FiniteSetTheorems, WellFoundedInduction, TLAPS

-----------------------------------------------------------------------------
(* The hand-off of a call                                                    *)

\* The initial states satisfy the inductive invariant.
LEMMA HandoffStart == HandoffInit => HandoffInv
<1> SUFFICES ASSUME HandoffInit PROVE HandoffInv
  OBVIOUS
<1>1. HandoffTypeOK
  <2>1. restarts \in 0 .. MaxRestarts /\ active \in Nat
    BY NamesAssumption DEF HandoffInit
  <2>2. pc \in [Threads -> Places] /\ call \in [Threads -> Calls \cup {NoCall}]
    BY DEF HandoffInit, Places
  <2>3. fate \in [Calls -> {"unseen", "put", "session", "failed", "refused"}]
    BY DEF HandoffInit
  <2> QED
    BY <2>1, <2>2, <2>3 DEF HandoffInit, HandoffTypeOK, Kinds
<1>2. MutexIsSlot /\ WaitingCallIsAsked
  BY DEF HandoffInit, MutexIsSlot, WaitingCallIsAsked
<1>3. GdkIsHeldToWait
  BY NamesAssumption DEF HandoffInit, GdkIsHeldToWait, Threads
<1>4. CallsApart
  <2>1. NoThread \notin Threads
    BY NamesAssumption DEF Threads, Negotiators
  <2>2. \A t \in Threads : call[t] = NoCall /\ pc[t] \in {"loop", "idle"}
    BY DEF HandoffInit
  <2> QED
    BY <2>1, <2>2 DEF HandoffInit, CallsApart
<1>5. SlotIsPut
  BY DEF HandoffInit, SlotIsPut
<1> QED
  BY <1>1, <1>2, <1>3, <1>4, <1>5 DEF HandoffInv

\* The threads that negotiate change neither the slot nor its locks.
LEMMA NegotiatorSteps ==
  ASSUME HandoffInv, NEW t \in Negotiators,
         Connection \/ ServerExits \/ Agreed(t) \/ NotAgreed(t) \/ Show(t)
  PROVE  HandoffInv'
<1> USE DEF HandoffInv
<1>1. CASE Connection \/ ServerExits
  BY <1>1, NamesAssumption DEF Connection, ServerExits, Goto, HandoffTypeOK, MutexIsSlot, WaitingCallIsAsked, Asked,
    GdkIsHeldToWait, CallsApart, SlotIsPut, Threads, Negotiators, Places, slotVars, guiVars, goVars
<1>2. CASE Agreed(t)
  BY <1>2, NamesAssumption DEF Agreed, New, Goto, HandoffTypeOK, MutexIsSlot, WaitingCallIsAsked, Asked,
    GdkIsHeldToWait, CallsApart, SlotIsPut, Threads, Negotiators, Places, slotVars, guiVars, goVars
<1>3. CASE NotAgreed(t)
  BY <1>3, NamesAssumption DEF NotAgreed, Goto, HandoffTypeOK, MutexIsSlot, WaitingCallIsAsked, Asked,
    GdkIsHeldToWait, CallsApart, SlotIsPut, Threads, Negotiators, Places, slotVars, guiVars, goVars
<1>4. CASE Show(t)
  BY <1>4, NamesAssumption DEF Show, Home, Goto, HandoffTypeOK, MutexIsSlot, WaitingCallIsAsked, Asked,
    GdkIsHeldToWait, CallsApart, SlotIsPut, Threads, Negotiators, Places, slotVars, guiVars, goVars
<1> QED BY <1>1, <1>2, <1>3, <1>4

\* A negotiating thread that locks the two mutexes puts its call into an empty slot.
LEMMA FillSteps ==
  ASSUME HandoffInv, NEW t \in Threads, LockOuter(t) \/ LockInner(t)
  PROVE  HandoffInv'
<1> USE DEF HandoffInv
<1>1. CASE LockOuter(t)
  BY <1>1, NamesAssumption DEF LockOuter, Goto, HandoffTypeOK, MutexIsSlot, WaitingCallIsAsked, Asked,
    GdkIsHeldToWait, CallsApart, SlotIsPut, Threads, Negotiators, Places, slotVars, guiVars, goVars
<1>2. CASE LockInner(t)
  BY <1>2, NamesAssumption DEF LockInner, Home, Goto, HandoffTypeOK, MutexIsSlot, WaitingCallIsAsked, Asked,
    GdkIsHeldToWait, CallsApart, SlotIsPut, Threads, Negotiators, Places, guiVars, goVars
<1> QED BY <1>1, <1>2

\* Settling the call frees the slot and forgets the answer.
LEMMA SettleStep ==
  ASSUME HandoffInv, NEW f \in {"session", "failed", "refused"}, Settle(f), ready,
         questions' \in [Kinds -> Nat], active' \in Nat,
         pc[Gui] = "timer", Goto(Gui, "loop"), gdk' = NoThread, UNCHANGED <<call, outer, goVars>>
  PROVE  HandoffInv'
<1> USE DEF HandoffInv
<1>1. slot \in Calls /\ fate[slot] = "put"
  BY DEF SlotIsPut, HandoffTypeOK
<1>2. HandoffTypeOK'
  BY NamesAssumption DEF Settle, Goto, HandoffTypeOK, Threads, Places, goVars
<1>3. MutexIsSlot' /\ WaitingCallIsAsked'
  BY DEF Settle, MutexIsSlot, WaitingCallIsAsked
<1>4. GdkIsHeldToWait'
  BY NamesAssumption DEF Goto, GdkIsHeldToWait, HandoffTypeOK, Threads
<1>5. CallsApart'
  BY <1>1, NamesAssumption DEF Settle, Goto, CallsApart, HandoffTypeOK, Threads, Places
<1>6. SlotIsPut'
  BY <1>1 DEF Settle, SlotIsPut, HandoffTypeOK
<1> QED
  BY <1>2, <1>3, <1>4, <1>5, <1>6

\* The steps of the interface itself.
LEMMA GuiSteps ==
  ASSUME HandoffInv,
         ConnectTo \/ Timer \/ ControlSessions \/ Hangup \/ Configure \/ Joined
           \/ (\E t \in Callers : Dial(t)) \/ NoiseTest
           \/ (\E k \in Kinds, ok \in BOOLEAN : Answer(k, ok))
  PROVE  HandoffInv'
<1> USE DEF HandoffInv
<1>1. CASE ConnectTo
  BY <1>1, NamesAssumption DEF ConnectTo, GuiWaits, New, Goto, HandoffTypeOK, MutexIsSlot, WaitingCallIsAsked, Asked,
    GdkIsHeldToWait, CallsApart, SlotIsPut, Threads, Negotiators, Places, slotVars, guiVars, goVars
<1>2. CASE Timer
  BY <1>2, NamesAssumption DEF Timer, GuiWaits, Goto, HandoffTypeOK, MutexIsSlot, WaitingCallIsAsked, Asked,
    GdkIsHeldToWait, CallsApart, SlotIsPut, Threads, Negotiators, Places, slotVars, guiVars, goVars
<1>3. CASE Hangup
  BY <1>3, NamesAssumption DEF Hangup, HandoffTypeOK, MutexIsSlot, WaitingCallIsAsked, Asked,
    GdkIsHeldToWait, CallsApart, SlotIsPut, Threads, Negotiators, Places, slotVars, goVars
<1>4. CASE Configure
  <2>1. restarts' \in 0 .. MaxRestarts
    BY <1>4, NamesAssumption DEF Configure, HandoffTypeOK
  <2>2. HandoffTypeOK'
    BY <1>4, <2>1, NamesAssumption DEF Configure, GuiWaits, Goto, HandoffTypeOK, Places, Threads, slotVars, guiVars
  <2> QED
    BY <1>4, <2>2, NamesAssumption DEF Configure, GuiWaits, Goto, HandoffTypeOK, MutexIsSlot, WaitingCallIsAsked, Asked,
      GdkIsHeldToWait, CallsApart, SlotIsPut, Threads, Negotiators, slotVars, guiVars
<1>5. CASE Joined
  BY <1>5, NamesAssumption DEF Joined, HandoffTypeOK, MutexIsSlot, WaitingCallIsAsked, Asked,
    GdkIsHeldToWait, CallsApart, SlotIsPut, Threads, Negotiators, Places, slotVars, guiVars
<1>6. CASE \E t \in Callers : Dial(t)
  BY <1>6, NamesAssumption DEF Dial, Goto, HandoffTypeOK, MutexIsSlot, WaitingCallIsAsked, Asked,
    GdkIsHeldToWait, CallsApart, SlotIsPut, Threads, Negotiators, Places, slotVars, guiVars, goVars
<1>7. CASE \E k \in Kinds, ok \in BOOLEAN : Answer(k, ok)
  <2>1. PICK k \in Kinds : /\ questions[k] > 0 /\ questions' = [questions EXCEPT ![k] = @ - 1]
                           /\ UNCHANGED <<pc, call, gdk, outer, slotVars, active, goVars>>
                           /\ \/ control' = FALSE /\ reject' = reject
                              \/ control' = control /\ reject' = TRUE
    BY <1>7 DEF Answer
  <2>2. questions' \in [Kinds -> Nat]
    BY <2>1 DEF HandoffTypeOK
  <2>3. HandoffTypeOK'
    BY <2>1, <2>2 DEF HandoffTypeOK, slotVars, goVars
  <2>4. WaitingCallIsAsked'
    BY <2>1 DEF WaitingCallIsAsked, slotVars
  <2> QED
    BY <2>1, <2>3, <2>4 DEF MutexIsSlot, GdkIsHeldToWait, CallsApart, SlotIsPut, slotVars, goVars
<1>8. CASE ControlSessions
  <2>1. CASE SessionMade
    <3>1. active' \in Nat /\ questions' \in [Kinds -> Nat] /\ ready
      BY <2>1 DEF SessionMade, HandoffTypeOK
    <3>2. PICK f \in {"session", "failed"} : Settle(f)
      BY <2>1 DEF SessionMade
    <3> QED
      BY <1>8, <3>1, <3>2, SettleStep DEF ControlSessions
  <2>2. CASE NoAudio
    <3>1. PICK k \in Kinds : OpenDialog(k)
      BY <2>2 DEF NoAudio
    <3>2. questions' \in [Kinds -> Nat] /\ questions'[k] > 0
      BY <3>1 DEF OpenDialog, HandoffTypeOK
    <3>3. ready /\ active' = active /\ active' \in Nat
      BY <2>2 DEF NoAudio, HandoffTypeOK
    <3>4. CASE Settle("refused")
      BY <1>8, <3>2, <3>3, <3>4, SettleStep DEF ControlSessions
    <3>5. CASE control' = TRUE /\ UNCHANGED <<reject, slotVars>>
      <4>1. HandoffTypeOK'
        BY <1>8, <3>2, <3>3, <3>5, NamesAssumption DEF ControlSessions, Goto, HandoffTypeOK, Threads, Places, slotVars, goVars
      <4>2. WaitingCallIsAsked'
        BY <3>2, <3>3, <3>5 DEF WaitingCallIsAsked, Asked, slotVars
      <4> QED
        BY <1>8, <3>5, <4>1, <4>2, NamesAssumption DEF ControlSessions, Goto, HandoffTypeOK, MutexIsSlot,
          GdkIsHeldToWait, CallsApart, SlotIsPut, Threads, Negotiators, Places, slotVars, goVars
    <3> QED
      BY <2>2, <3>4, <3>5 DEF NoAudio
  <2>3. CASE Refuse
    <3>1. ready /\ Settle("refused") /\ active' \in Nat /\ questions' \in [Kinds -> Nat]
      BY <2>3 DEF Refuse, HandoffTypeOK
    <3> QED
      BY <1>8, <3>1, SettleStep DEF ControlSessions
  <2>4. CASE Nothing
    BY <1>8, <2>4, NamesAssumption DEF ControlSessions, Nothing, Goto, HandoffTypeOK, MutexIsSlot,
      WaitingCallIsAsked, Asked, GdkIsHeldToWait, CallsApart, SlotIsPut, Threads, Negotiators, Places,
      slotVars, guiVars, goVars
  <2> QED
    BY <1>8, <2>1, <2>2, <2>3, <2>4 DEF ControlSessions
<1>9. CASE NoiseTest
  <2>1. OpenDialog("error") /\ UNCHANGED <<pc, call, gdk, outer, slotVars, control, reject, active, goVars>>
    BY <1>9 DEF NoiseTest
  <2>2. questions' \in [Kinds -> Nat] /\ questions'["error"] > 0
    BY <2>1 DEF OpenDialog, HandoffTypeOK, Kinds
  <2>3. HandoffTypeOK'
    BY <2>1, <2>2 DEF HandoffTypeOK, slotVars, goVars
  <2>4. WaitingCallIsAsked'
    BY <2>1, <2>2 DEF WaitingCallIsAsked, Asked, Kinds, slotVars
  <2> QED
    BY <2>1, <2>3, <2>4 DEF MutexIsSlot, GdkIsHeldToWait, CallsApart, SlotIsPut, slotVars, goVars
<1> QED
  BY <1>1, <1>2, <1>3, <1>4, <1>5, <1>6, <1>7, <1>8, <1>9

\* Every step of the threads and of the interface keeps the inductive invariant.
LEMMA HandoffStep == HandoffInv /\ [HandoffNext]_handoffVars => HandoffInv'
<1> SUFFICES ASSUME HandoffInv, [HandoffNext]_handoffVars PROVE HandoffInv'
  OBVIOUS
<1>1. CASE HandoffNext
  <2>1. Server \in Negotiators
    BY DEF Negotiators
  <2> QED
    BY <1>1, <2>1, NegotiatorSteps, FillSteps, GuiSteps DEF HandoffNext
<1>2. CASE UNCHANGED handoffVars
  BY <1>2 DEF handoffVars, slotVars, guiVars, goVars, HandoffInv, HandoffTypeOK, MutexIsSlot, WaitingCallIsAsked, Asked,
    GdkIsHeldToWait, CallsApart, SlotIsPut
<1> QED
  BY <1>1, <1>2

\* The inductive invariant of the threads, the mutexes and the flags
\* (gui_ssip_neg.c, control_sessions) holds in every state.
THEOREM HandoffInductive == HandoffSpec => []HandoffInv
<1> QED
  BY HandoffStart, HandoffStep, PTL DEF HandoffSpec

\* session_ready.mutex is locked exactly while session_ready.ready is TRUE, so
\* it is never unlocked by control_sessions when no thread has locked it.
THEOREM MutexHolds == HandoffSpec => []MutexIsSlot
<1>1. HandoffInv => MutexIsSlot
  BY DEF HandoffInv
<1> QED
  BY HandoffInductive, <1>1, PTL

\* A call that waits for the user's answer (control_audio_processor) is in the
\* slot and has a dialog that settles it, however many dialogs are open and
\* whatever they were opened for.
THEOREM AskedHolds == HandoffSpec => []WaitingCallIsAsked
<1>1. HandoffInv => WaitingCallIsAsked
  BY DEF HandoffInv
<1> QED
  BY HandoffInductive, <1>1, PTL

-----------------------------------------------------------------------------
(* HandoffRefinement. *)

\* What CallSlot sees of the slot.
Seen == IF ready THEN slot ELSE NoCall

\* The slot starts empty, as CallSlot does.
LEMMA SlotInitRefines == HandoffInit => Slot!SlotInit
  BY DEF HandoffInit, Slot!SlotInit

\* A thread that fills the slot puts its call into it.
LEMMA FillPuts ==
  ASSUME HandoffInv, NEW t \in Threads, LockInner(t)
  PROVE  \E c \in Calls : Slot!Put(c)
<1> USE DEF HandoffInv
<1>1. ~ready /\ ready' /\ slot' = call[t] /\ fate' = [fate EXCEPT ![call[t]] = "put"]
  BY DEF LockInner, MutexIsSlot
<1>2. call[t] \in Calls /\ fate[call[t]] = "unseen"
  BY DEF LockInner, CallsApart, HandoffTypeOK
<1> QED
  BY <1>1, <1>2 DEF Slot!Put

\* control_sessions settles the call in the slot or leaves it there.
LEMMA ControlSettles ==
  ASSUME HandoffInv, ControlSessions
  PROVE  \/ Slot!Settle("session") \/ Slot!Settle("failed") \/ Slot!Settle("refused")
         \/ UNCHANGED Slot!slotVars
<1> USE DEF HandoffInv
<1>1. ASSUME NEW f, ready, Settle(f)
      PROVE  Slot!Settle(f)
  BY <1>1 DEF Settle, Slot!Settle, SlotIsPut, HandoffTypeOK
<1>2. CASE SessionMade
  BY <1>1, <1>2 DEF SessionMade
<1>3. CASE Refuse
  BY <1>1, <1>3 DEF Refuse
<1>4. CASE NoAudio \/ Nothing
  BY <1>1, <1>4 DEF NoAudio, Nothing, slotVars, Slot!slotVars
<1> QED
  BY <1>2, <1>3, <1>4 DEF ControlSessions

\* No other step changes the slot.
LEMMA OthersStutter ==
  ASSUME HandoffInv, HandoffNext, ~ControlSessions, \A t \in Threads : ~LockInner(t)
  PROVE  UNCHANGED Slot!slotVars
<1>1. UNCHANGED <<ready, slot, fate>>
  BY DEF HandoffNext, Connection, ServerExits, Agreed, NotAgreed, Show, LockOuter, Dial, ConnectTo, Timer,
    NoiseTest, Answer, Hangup, Configure, Joined, slotVars
<1> QED
  BY <1>1 DEF Slot!slotVars

\* The mutexes and the flags implement a slot for one call (CallSlot).
THEOREM HandoffRefinement == HandoffSpec => SlotSpec
<1>1. HandoffInv /\ [HandoffNext]_handoffVars =>
        [\/ \E c \in Calls : Slot!Put(c)
         \/ Slot!Settle("session") \/ Slot!Settle("failed") \/ Slot!Settle("refused")]_Slot!slotVars
  <2> SUFFICES ASSUME HandoffInv, [HandoffNext]_handoffVars
               PROVE  \/ \E c \in Calls : Slot!Put(c)
                      \/ Slot!Settle("session") \/ Slot!Settle("failed") \/ Slot!Settle("refused")
                      \/ UNCHANGED Slot!slotVars
    OBVIOUS
  <2>1. CASE UNCHANGED handoffVars
    BY <2>1 DEF handoffVars, slotVars, Slot!slotVars
  <2>2. CASE HandoffNext
    BY <2>2, FillPuts, ControlSettles, OthersStutter
  <2> QED
    BY <2>1, <2>2
<1> QED
  BY <1>1, SlotInitRefines, HandoffInductive, PTL DEF HandoffSpec, SlotSpec, Slot!SlotSpec

-----------------------------------------------------------------------------
(* Lists                                                                     *)

\* A set of natural numbers that is not empty has a least one.
LEMMA LeastElement ==
  ASSUME NEW I \in SUBSET Nat, I # {}
  PROVE  Min(I) \in I /\ \A j \in I : Min(I) <= j
<1>1. \E i \in I : \A j \in I : ~ (<<j, i>> \in OpToRel(<, Nat))
  BY NatLessThanWellFounded, WFMin
<1>2. PICK i \in I : \A j \in I : ~ (<<j, i>> \in OpToRel(<, Nat))
  BY <1>1
<1>3. \A j \in I : ~ (j < i)
  BY <1>2 DEF OpToRel
<1>4. \A j \in I : i <= j
  BY <1>3
<1>5. QED
  BY <1>4 DEF Min

\* What is left of a list when the element at one place leaves it.
LEMMA Removed ==
  ASSUME NEW S, NEW s \in Seq(S), NEW i \in 1 .. Len(s)
  PROVE  /\ RemoveAt(s, i) \in Seq(S) /\ Len(RemoveAt(s, i)) = Len(s) - 1
         /\ \A j \in 1 .. Len(s) - 1 : RemoveAt(s, i)[j] = IF j < i THEN s[j] ELSE s[j + 1]
<1>1. Len(s) \in Nat /\ \A j \in 1 .. Len(s) : s[j] \in S
  OBVIOUS
<1> DEFINE before == SubSeq(s, 1, i - 1)
           after == SubSeq(s, i + 1, Len(s))
<1>2. /\ before \in Seq(S) /\ Len(before) = i - 1
      /\ \A j \in 1 .. i - 1 : before[j] = s[j]
  <2>1. \A j \in 1 .. i - 1 : s[j] \in S
    BY <1>1
  <2>2. /\ before \in Seq(S)
        /\ Len(before) = IF 1 <= i - 1 THEN (i - 1) - 1 + 1 ELSE 0
        /\ \A j \in 1 .. (i - 1) - 1 + 1 : before[j] = s[1 + j - 1]
    BY <2>1, SubSeqProperties
  <2> HIDE DEF before
  <2>3. QED
    BY <1>1, <2>2
<1>3. /\ after \in Seq(S) /\ Len(after) = Len(s) - i
      /\ \A j \in 1 .. Len(s) - i : after[j] = s[i + j]
  <2>1. \A j \in i + 1 .. Len(s) : s[j] \in S
    BY <1>1
  <2>2. /\ after \in Seq(S)
        /\ Len(after) = IF i + 1 <= Len(s) THEN Len(s) - (i + 1) + 1 ELSE 0
        /\ \A j \in 1 .. Len(s) - (i + 1) + 1 : after[j] = s[(i + 1) + j - 1]
    BY <1>1, <2>1, SubSeqProperties
  <2> HIDE DEF after
  <2>3. QED
    BY <1>1, <2>2
<1> HIDE DEF before, after
<1>4. /\ before \o after \in Seq(S)
      /\ Len(before \o after) = Len(before) + Len(after)
      /\ \A j \in 1 .. Len(before) + Len(after) : (before \o after)[j] =
           IF j <= Len(before) THEN before[j] ELSE after[j - Len(before)]
  BY <1>2, <1>3, ConcatProperties
<1>5. RemoveAt(s, i) = before \o after
  BY DEF RemoveAt, before, after
<1>6. ASSUME NEW j \in 1 .. Len(s) - 1
      PROVE  (before \o after)[j] = IF j < i THEN s[j] ELSE s[j + 1]
  <2>1. CASE j < i
    BY <1>1, <1>2, <1>3, <1>4, <2>1
  <2>2. CASE j >= i
    <3>1. (before \o after)[j] = after[j - (i - 1)]
      BY <1>1, <1>2, <1>3, <1>4, <2>2
    <3>2. after[j - (i - 1)] = s[j + 1]
      BY <1>1, <1>3, <2>2
    <3>3. QED
      BY <2>2, <3>1, <3>2
  <2>3. j < i \/ j >= i
    OBVIOUS
  <2>4. QED
    BY <2>1, <2>2, <2>3
<1>7. Len(before \o after) = Len(s) - 1
  BY <1>1, <1>2, <1>3, <1>4
<1>8. QED
  BY <1>4, <1>5, <1>6, <1>7

\* The queue of a user that leaves a list, the first if there were several.
LEMMA FirstRemoved ==
  ASSUME NEW S, NEW s \in Seq(S), NEW e
  PROVE  \/ (\A i \in 1 .. Len(s) : s[i] # e) /\ RemoveFirst(s, e) = s
         \/ \E i \in 1 .. Len(s) : s[i] = e /\ RemoveFirst(s, e) = RemoveAt(s, i)
<1>1. CASE \A i \in 1 .. Len(s) : s[i] # e
  BY <1>1 DEF RemoveFirst
<1>2. CASE \E i \in 1 .. Len(s) : s[i] = e
  <2> DEFINE I == {i \in 1 .. Len(s) : s[i] = e}
  <2>1. I \in SUBSET Nat /\ I # {}
    BY <1>2
  <2>2. Min(I) \in I
    BY <2>1, LeastElement
  <2>3. SelectInSeq(s, LAMBDA v : v = e) = Min(I)
    BY <2>1 DEF SelectInSeq
  <2>4. RemoveFirst(s, e) = RemoveAt(s, Min(I))
    BY <1>2, <2>3 DEF RemoveFirst
  <2>5. QED
    BY <2>2, <2>4
<1>3. QED
  BY <1>1, <1>2

\* The first session with a number leaves a list, if there is one.
LEMMA FirstDropped ==
  ASSUME NEW S, NEW s \in Seq(S), NEW n, NEW ids
  PROVE  \/ (\A i \in 1 .. Len(s) : ids[s[i]] # n) /\ DropFirst(s, n, ids) = s
         \/ \E i \in 1 .. Len(s) : ids[s[i]] = n /\ DropFirst(s, n, ids) = RemoveAt(s, i)
<1>1. CASE \A i \in 1 .. Len(s) : ids[s[i]] # n
  BY <1>1 DEF DropFirst, RemoveFirstMatch
<1>2. CASE \E i \in 1 .. Len(s) : ids[s[i]] = n
  <2> DEFINE I == {i \in 1 .. Len(s) : ids[s[i]] = n}
  <2>1. I \in SUBSET Nat /\ I # {}
    BY <1>2
  <2>2. Min(I) \in I
    BY <2>1, LeastElement
  <2>3. SelectInSeq(s, LAMBDA v : ids[v] = n) = Min(I)
    BY <2>1 DEF SelectInSeq
  <2>4. DropFirst(s, n, ids) = RemoveAt(s, Min(I))
    BY <1>2, <2>3 DEF DropFirst, RemoveFirstMatch
  <2>5. QED
    BY <2>2, <2>4
<1>3. QED
  BY <1>1, <1>2

\* The places of a list whose elements have a number, in ids, and how many.
Numbered(list, ids, n) == {i \in DOMAIN list : ids[list[i]] = n}
Count(list, ids, n) == Cardinality(Numbered(list, ids, n))

\* They are finitely many, and none when nobody has the number.
LEMMA CountType ==
  ASSUME NEW s \in Seq(Sess), NEW ids, NEW n
  PROVE  /\ IsFiniteSet(Numbered(s, ids, n))
         /\ Count(s, ids, n) \in Nat
         /\ Count(s, ids, n) = 0 <=> \A i \in 1 .. Len(s) : ids[s[i]] # n
<1> DEFINE I == Numbered(s, ids, n)
<1>1. Len(s) \in Nat /\ DOMAIN s = 1 .. Len(s)
  OBVIOUS
<1>2. IsFiniteSet(1 .. Len(s))
  BY <1>1, FS_Interval
<1>3. I \in SUBSET (1 .. Len(s))
  BY <1>1 DEF Numbered
<1>4. IsFiniteSet(I)
  BY <1>2, <1>3, FS_Subset
<1>5. Cardinality(I) \in Nat /\ (Cardinality(I) = 0 <=> I = {})
  BY <1>4, FS_CardinalityType, FS_EmptySet
<1>6. QED
  BY <1>1, <1>4, <1>5 DEF Count, Numbered

\* Whoever is added to a list adds one to its number.
LEMMA CountAppend ==
  ASSUME NEW s \in Seq(Sess), NEW e \in Sess, NEW ids, NEW n
  PROVE  Count(Append(s, e), ids, n) = IF ids[e] = n THEN Count(s, ids, n) + 1 ELSE Count(s, ids, n)
<1> DEFINE I == Numbered(s, ids, n)
           J == Numbered(Append(s, e), ids, n)
<1>1. Len(s) \in Nat /\ DOMAIN s = 1 .. Len(s)
  OBVIOUS
<1>2. /\ DOMAIN Append(s, e) = 1 .. Len(s) + 1
      /\ \A i \in 1 .. Len(s) : Append(s, e)[i] = s[i]
      /\ Append(s, e)[Len(s) + 1] = e
  BY AppendProperties
<1>3. IsFiniteSet(I) /\ Len(s) + 1 \notin I
  <2>1. IsFiniteSet(I)
    BY CountType
  <2>2. QED
    BY <1>1, <2>1 DEF Numbered
<1>4. CASE ids[e] = n
  <2>1. J = I \cup {Len(s) + 1}
    BY <1>1, <1>2, <1>4 DEF Numbered
  <2>2. Cardinality(J) = Cardinality(I) + 1
    BY <1>3, <2>1, FS_AddElement
  <2>3. QED
    BY <1>4, <2>2 DEF Count
<1>5. CASE ids[e] # n
  <2>1. J = I
    BY <1>1, <1>2, <1>5 DEF Numbered
  <2>2. QED
    BY <1>5, <2>1 DEF Count
<1>6. QED
  BY <1>4, <1>5

\* Whoever leaves it, from any place, takes one away.
LEMMA CountRemoved ==
  ASSUME NEW s \in Seq(Sess), NEW k \in 1 .. Len(s), NEW ids, NEW n
  PROVE  Count(RemoveAt(s, k), ids, n) =
           IF ids[s[k]] = n THEN Count(s, ids, n) - 1 ELSE Count(s, ids, n)
<1> DEFINE r == RemoveAt(s, k)
           I == Numbered(s, ids, n)
           J == Numbered(r, ids, n)
           f == [j \in J |-> IF j < k THEN j ELSE j + 1]
<1>1. Len(s) \in Nat /\ DOMAIN s = 1 .. Len(s)
  OBVIOUS
<1>2. r \in Seq(Sess) /\ Len(r) = Len(s) - 1
  BY Removed
<1>3. \A j \in 1 .. Len(s) - 1 : r[j] = IF j < k THEN s[j] ELSE s[j + 1]
  BY Removed
<1>4. DOMAIN r = 1 .. Len(s) - 1
  BY <1>2
<1> HIDE DEF r
<1>5. f \in [J -> I \ {k}]
  <2> SUFFICES ASSUME NEW j \in J PROVE (IF j < k THEN j ELSE j + 1) \in I \ {k}
    OBVIOUS
  <2>1. j \in 1 .. Len(s) - 1 /\ ids[r[j]] = n
    BY <1>4 DEF Numbered
  <2>2. CASE j < k
    BY <1>1, <1>3, <2>1, <2>2 DEF Numbered
  <2>3. CASE j >= k
    BY <1>1, <1>3, <2>1, <2>3 DEF Numbered
  <2>4. QED
    BY <2>1, <2>2, <2>3
<1>6. \A j1, j2 \in J : f[j1] = f[j2] => j1 = j2
  BY <1>1, <1>4 DEF Numbered
<1>7. \A i \in I \ {k} : \E j \in J : f[j] = i
  <2> SUFFICES ASSUME NEW i \in I \ {k} PROVE \E j \in J : f[j] = i
    OBVIOUS
  <2>1. i \in 1 .. Len(s) /\ i # k /\ ids[s[i]] = n
    BY <1>1 DEF Numbered
  <2>2. CASE i < k
    <3>1. i \in 1 .. Len(s) - 1 /\ r[i] = s[i]
      BY <1>1, <1>3, <2>1, <2>2
    <3>2. i \in J
      BY <1>4, <2>1, <3>1 DEF Numbered
    <3>3. QED
      BY <2>2, <3>2
  <2>3. CASE i > k
    <3>1. i - 1 \in 1 .. Len(s) - 1 /\ ~(i - 1 < k) /\ (i - 1) + 1 = i
      BY <1>1, <2>1, <2>3
    <3>2. r[i - 1] = s[i]
      BY <1>3, <3>1
    <3>3. i - 1 \in J
      BY <1>4, <2>1, <3>1, <3>2 DEF Numbered
    <3>4. QED
      BY <3>1, <3>3
  <2>4. QED
    BY <2>1, <2>2, <2>3
<1>8. ExistsBijection(J, I \ {k})
  <2> HIDE DEF I, J, f
  <2>1. f \in Injection(J, I \ {k})
    BY <1>5, <1>6 DEF Injection, IsInjective
  <2>2. f \in Surjection(J, I \ {k})
    BY <1>5, <1>7 DEF Surjection
  <2>3. QED
    BY <2>1, <2>2 DEF ExistsBijection, Bijection
<1>9. IsFiniteSet(J) /\ IsFiniteSet(I)
  <2>1. IsFiniteSet(I)
    BY CountType
  <2>2. IsFiniteSet(J)
    BY <1>2, CountType
  <2>3. QED
    BY <2>1, <2>2
<1>10. Cardinality(I \ {k}) = Cardinality(J)
  BY <1>8, <1>9, FS_Bijection
<1>11. Cardinality(I \ {k}) = IF k \in I THEN Cardinality(I) - 1 ELSE Cardinality(I)
  BY <1>9, FS_RemoveElement
<1>12. k \in I <=> ids[s[k]] = n
  BY <1>1 DEF Numbered
<1>13. QED
  BY <1>10, <1>11, <1>12 DEF Count, r

\* Dropping the first with a number leaves one fewer with that number, or none.
LEMMA CountDropped ==
  ASSUME NEW s \in Seq(Sess), NEW ids, NEW m, NEW n
  PROVE  /\ DropFirst(s, m, ids) \in Seq(Sess)
         /\ Count(DropFirst(s, m, ids), ids, n) =
              IF m = n /\ Count(s, ids, m) > 0 THEN Count(s, ids, n) - 1 ELSE Count(s, ids, n)
<1>1. CASE (\A i \in 1 .. Len(s) : ids[s[i]] # m) /\ DropFirst(s, m, ids) = s
  <2>1. Count(s, ids, m) = 0
    BY <1>1, CountType
  <2>2. QED
    BY <1>1, <2>1
<1>2. CASE \E i \in 1 .. Len(s) : ids[s[i]] = m /\ DropFirst(s, m, ids) = RemoveAt(s, i)
  <2>1. PICK i \in 1 .. Len(s) : ids[s[i]] = m /\ DropFirst(s, m, ids) = RemoveAt(s, i)
    BY <1>2
  <2>2. Count(s, ids, m) \in Nat /\ Count(s, ids, m) # 0
    BY <2>1, CountType
  <2>3. Count(s, ids, m) > 0
    BY <2>2
  <2>4. RemoveAt(s, i) \in Seq(Sess)
    BY Removed
  <2>5. Count(RemoveAt(s, i), ids, n) = IF m = n THEN Count(s, ids, n) - 1 ELSE Count(s, ids, n)
    BY <2>1, CountRemoved
  <2>6. QED
    BY <2>1, <2>3, <2>4, <2>5
<1>3. QED
  BY <1>1, <1>2, FirstDropped

\* The numbers of other sessions do not matter.
LEMMA CountSame ==
  ASSUME NEW s \in Seq(Sess), NEW ids, NEW ids2, \A i \in 1 .. Len(s) : ids2[s[i]] = ids[s[i]],
         NEW n
  PROVE  Count(s, ids2, n) = Count(s, ids, n)
<1>1. Numbered(s, ids2, n) = Numbered(s, ids, n)
  BY DEF Numbered
<1>2. QED
  BY <1>1 DEF Count

-----------------------------------------------------------------------------
(* The sessions                                                              *)

\* Every session is counted once and has a tab, and one tab is on top.
Counted ==
  /\ users = Len(sessions) /\ users = Cardinality(tabs)
  /\ tabs # {} => current \in tabs

Running == processor = "running" <=> sessions # <<>>

\* Every number is as often in the lists of queues as it is in that of sessions.
Balanced ==
  \A n \in Nat : /\ Count(mic, id, n) = Count(sessions, id, n)
                 /\ Count(spk, id, n) = Count(sessions, id, n)

SessionsInv == SessionsTypeOK /\ Counted /\ Running /\ Balanced

\* There are finitely many tabs.
LEMMA TabsFinite ==
  ASSUME NEW T \in SUBSET Sess
  PROVE  IsFiniteSet(T) /\ Cardinality(T) \in Nat /\ Cardinality(T) <= Cardinality(Sess)
  BY SessAssumption, FS_Subset, FS_CardinalityType

\* Lists that have each number equally often are both empty or neither is.
LEMMA BothEmpty ==
  ASSUME NEW ids, \A q \in Sess : ids[q] \in Nat, NEW s \in Seq(Sess), NEW t \in Seq(Sess), Len(t) = 0,
         \A n \in Nat : Count(s, ids, n) = Count(t, ids, n)
  PROVE  s = <<>>
<1> SUFFICES ASSUME s # <<>> PROVE FALSE
  OBVIOUS
<1>1. 1 \in 1 .. Len(s) /\ s[1] \in Sess
  OBVIOUS
<1>2. ids[s[1]] \in Nat
  BY <1>1
<1>3. Count(s, ids, ids[s[1]]) # 0
  BY <1>1, CountType
<1>4. Count(t, ids, ids[s[1]]) = 0
  <2>1. \A i \in 1 .. Len(t) : ids[t[i]] # ids[s[1]]
    OBVIOUS
  <2>2. QED
    BY <2>1, CountType
<1>5. QED
  BY <1>2, <1>3, <1>4

\* The tab on top is closed: there is one tab fewer.
LEMMA TabClosed ==
  ASSUME NEW T \in SUBSET Sess, T = tabs, T # {}, current \in T, CloseTab
  PROVE  /\ tabs' \in SUBSET Sess /\ current' \in tabs' \cup {Nobody}
         /\ Cardinality(tabs') = Cardinality(T) - 1
         /\ tabs' # {} => current' \in tabs'
  BY TabsFinite, FS_RemoveElement DEF CloseTab

\* A listed session leaves, with the first queues that have its number.
LEMMA SessionLeaves ==
  ASSUME SessionsInv, NEW i \in 1 .. Len(sessions), sessions' = RemoveAt(sessions, i),
         FreeQueues(id[sessions[i]]), LeaveProcessor, CloseTab, id' = id
  PROVE  /\ sessions' \in Seq(Sess) /\ Len(sessions') <= Cardinality(Sess)
         /\ mic' \in Seq(Sess) /\ spk' \in Seq(Sess)
         /\ users' \in 0 .. Cardinality(Sess)
         /\ processor' \in {"stopped", "running"}
         /\ tabs' \in SUBSET Sess /\ current' \in tabs' \cup {Nobody}
         /\ Counted' /\ Running' /\ Balanced'
<1> DEFINE m == id[sessions[i]]
<1>0. /\ sessions \in Seq(Sess) /\ mic \in Seq(Sess) /\ spk \in Seq(Sess)
      /\ id \in [Sess -> Nat] /\ tabs \in SUBSET Sess /\ Len(sessions) \in Nat
      /\ processor \in {"stopped", "running"}
  BY DEF SessionsInv, SessionsTypeOK
<1>1. m \in Nat
  BY <1>0
<1>2. sessions' \in Seq(Sess) /\ Len(sessions') = Len(sessions) - 1
  BY <1>0, Removed
<1>3. \A n \in Nat : Count(sessions', id, n) =
                       IF m = n THEN Count(sessions, id, n) - 1 ELSE Count(sessions, id, n)
  BY <1>0, CountRemoved
<1>4. Count(sessions, id, m) > 0
  <2>1. Count(sessions, id, m) \in Nat /\ Count(sessions, id, m) # 0
    BY <1>0, CountType
  <2>2. QED
    BY <2>1
<1>5. Count(mic, id, m) > 0 /\ Count(spk, id, m) > 0
  BY <1>1, <1>4 DEF SessionsInv, Balanced
<1> HIDE DEF m
<1>6. mic' = DropFirst(mic, m, id) /\ spk' = DropFirst(spk, m, id)
  BY DEF FreeQueues, m
<1>7. /\ mic' \in Seq(Sess) /\ spk' \in Seq(Sess)
      /\ \A n \in Nat : /\ Count(mic', id, n) = IF m = n THEN Count(mic, id, n) - 1 ELSE Count(mic, id, n)
                        /\ Count(spk', id, n) = IF m = n THEN Count(spk, id, n) - 1 ELSE Count(spk, id, n)
  BY <1>0, <1>5, <1>6, CountDropped
<1>8. Balanced'
  <2>1. \A n \in Nat : /\ Count(mic', id, n) = Count(sessions', id, n)
                       /\ Count(spk', id, n) = Count(sessions', id, n)
    BY <1>3, <1>7 DEF SessionsInv, Balanced
  <2>2. QED
    BY <2>1 DEF Balanced
<1>9. /\ Cardinality(tabs) \in Nat /\ Cardinality(tabs) <= Cardinality(Sess)
      /\ IsFiniteSet(tabs) /\ Cardinality(tabs) = Len(sessions) /\ users = Len(sessions)
      /\ Cardinality(Sess) \in Nat
  BY <1>0, TabsFinite DEF SessionsInv, Counted
<1>10. tabs # {}
  <2>1. Cardinality(tabs) # 0
    BY <1>0, <1>9
  <2>2. QED
    BY <2>1, FS_EmptySet
<1>11. /\ tabs' \in SUBSET Sess /\ current' \in tabs' \cup {Nobody}
       /\ Cardinality(tabs') = Cardinality(tabs) - 1
       /\ tabs' # {} => current' \in tabs'
  BY <1>0, <1>10, TabClosed DEF SessionsInv, Counted
<1>12. users' = users - 1
  BY DEF LeaveProcessor
<1>13. Counted'
  BY <1>2, <1>9, <1>11, <1>12 DEF Counted
<1>14. users' \in 0 .. Cardinality(Sess) /\ Len(sessions') <= Cardinality(Sess)
  BY <1>0, <1>2, <1>9, <1>12
<1>15. processor' = IF users' = 0 /\ mic' = <<>> /\ spk' = <<>> THEN "stopped" ELSE processor
  BY DEF LeaveProcessor
<1>16. Running' /\ processor' \in {"stopped", "running"}
  <2>1. users' = Len(sessions')
    BY <1>13 DEF Counted
  <2>2. processor = "running"
    BY <1>0 DEF SessionsInv, Running
  <2>3. CASE sessions' = <<>>
    <3>1. \A n \in Nat : /\ Count(mic', id, n) = Count(sessions', id, n)
                         /\ Count(spk', id, n) = Count(sessions', id, n)
      BY <1>8 DEF Balanced
    <3>2. mic' = <<>> /\ spk' = <<>>
      <4>1. Len(sessions') = 0 /\ \A q \in Sess : id[q] \in Nat
        BY <1>0, <2>3
      <4>2. QED
        BY <1>2, <1>7, <3>1, <4>1, BothEmpty
    <3>3. QED
      BY <1>15, <2>1, <2>3, <3>2 DEF Running
  <2>4. CASE sessions' # <<>>
    <3>1. users' # 0
      BY <1>2, <2>1, <2>4
    <3>2. QED
      BY <1>15, <2>2, <2>4, <3>1 DEF Running
  <2>5. QED
    BY <2>3, <2>4
<1>17. QED
  BY <1>2, <1>7, <1>8, <1>11, <1>13, <1>14, <1>16

\* A session that is about to be made is in no list.
LEMMA FreeIsNew ==
  ASSUME SessionsInv, NEW s \in Sess, Free(s)
  PROVE  /\ s \notin tabs
         /\ \A i \in 1 .. Len(sessions) : sessions[i] # s
         /\ \A i \in 1 .. Len(mic) : mic[i] # s
         /\ \A i \in 1 .. Len(spk) : spk[i] # s
  BY DEF Free, ToSet, SessionsInv, SessionsTypeOK

\* With a number no list has, it changes no count.
LEMMA CountOthers ==
  ASSUME NEW s \in Sess, NEW ids, NEW ids2, \A q \in Sess \ {s} : ids2[q] = ids[q],
         NEW list \in Seq(Sess), \A i \in 1 .. Len(list) : list[i] # s, NEW n
  PROVE  Count(list, ids2, n) = Count(list, ids, n)
<1>1. \A i \in 1 .. Len(list) : ids2[list[i]] = ids[list[i]]
  OBVIOUS
<1>2. QED
  BY <1>1, CountSame

\* What the lists of queues hold when a session is made, its own included.
LEMMA QueuesAdded ==
  ASSUME SessionsInv, NEW s \in Sess, Free(s), NEW k \in Nat, NEW ids,
         ids[s] = k, \A q \in Sess \ {s} : ids[q] = id[q]
  PROVE  /\ Append(Queues(mic), s) \in Seq(Sess) /\ Append(Queues(spk), s) \in Seq(Sess)
         /\ Append(sessions, s) \in Seq(Sess)
         /\ \A n \in Nat :
              LET c == Count(Append(sessions, s), ids, n)
              IN  /\ Count(Append(Queues(mic), s), ids, n) = c
                  /\ Count(Append(Queues(spk), s), ids, n) = c
                  /\ c = (IF k = n THEN Count(sessions, id, n) + 1 ELSE Count(sessions, id, n))
<1>0. /\ sessions \in Seq(Sess) /\ mic \in Seq(Sess) /\ spk \in Seq(Sess)
  BY DEF SessionsInv, SessionsTypeOK
<1>1. Queues(mic) \in Seq(Sess) /\ Queues(spk) \in Seq(Sess)
  BY <1>0 DEF Queues
<1>2. /\ \A i \in 1 .. Len(Queues(mic)) : Queues(mic)[i] # s
      /\ \A i \in 1 .. Len(Queues(spk)) : Queues(spk)[i] # s
      /\ \A i \in 1 .. Len(sessions) : sessions[i] # s
  BY FreeIsNew DEF Queues
<1>3. \A n \in Nat : /\ Count(Queues(mic), id, n) = Count(sessions, id, n)
                     /\ Count(Queues(spk), id, n) = Count(sessions, id, n)
  <2>1. CASE users = 0
    <3>1. Len(sessions) = 0
      BY <2>1 DEF SessionsInv, Counted
    <3>2. sessions = <<>>
      BY <1>0, <3>1
    <3>3. QED
      BY <2>1, <3>2 DEF Queues
  <2>2. CASE users # 0
    BY <2>2 DEF Queues, SessionsInv, Balanced
  <2>3. QED
    BY <2>1, <2>2
<1>4. \A n \in Nat : /\ Count(Queues(mic), ids, n) = Count(sessions, id, n)
                     /\ Count(Queues(spk), ids, n) = Count(sessions, id, n)
                     /\ Count(sessions, ids, n) = Count(sessions, id, n)
  <2>1. \A n \in Nat : Count(Queues(mic), ids, n) = Count(Queues(mic), id, n)
    BY <1>0, <1>1, <1>2, CountOthers
  <2>2. \A n \in Nat : Count(Queues(spk), ids, n) = Count(Queues(spk), id, n)
    BY <1>1, <1>2, CountOthers
  <2>3. \A n \in Nat : Count(sessions, ids, n) = Count(sessions, id, n)
    <3>1. \A i \in 1 .. Len(sessions) : ids[sessions[i]] = id[sessions[i]]
      BY <1>0, <1>2
    <3>2. QED
      BY <1>0, <3>1, CountSame
  <2>4. QED
    BY <1>3, <2>1, <2>2, <2>3
<1>5. \A n \in Nat :
        /\ Count(Append(Queues(mic), s), ids, n) =
             IF k = n THEN Count(sessions, id, n) + 1 ELSE Count(sessions, id, n)
        /\ Count(Append(Queues(spk), s), ids, n) =
             IF k = n THEN Count(sessions, id, n) + 1 ELSE Count(sessions, id, n)
        /\ Count(Append(sessions, s), ids, n) =
             IF k = n THEN Count(sessions, id, n) + 1 ELSE Count(sessions, id, n)
  <2>1. \A n \in Nat : Count(Append(Queues(mic), s), ids, n) =
          IF k = n THEN Count(Queues(mic), ids, n) + 1 ELSE Count(Queues(mic), ids, n)
    BY <1>0, <1>1, CountAppend
  <2>2. \A n \in Nat : Count(Append(Queues(spk), s), ids, n) =
          IF k = n THEN Count(Queues(spk), ids, n) + 1 ELSE Count(Queues(spk), ids, n)
    BY <1>0, <1>1, CountAppend
  <2>3. \A n \in Nat : Count(Append(sessions, s), ids, n) =
          IF k = n THEN Count(sessions, ids, n) + 1 ELSE Count(sessions, ids, n)
    BY <1>0, CountAppend
  <2>4. QED
    BY <1>4, <2>1, <2>2, <2>3
<1>6. QED
  BY <1>0, <1>1, <1>5, AppendProperties

\* The count of users, and so the number made of it, stays in its range.
LEMMA RoomForSession ==
  ASSUME SessionsInv, NEW s \in Sess, Free(s)
  PROVE  /\ users \in Nat /\ Cardinality(tabs \cup {s}) = users + 1
         /\ users + 1 <= Cardinality(Sess) /\ Cardinality(Sess) \in Nat
<1>1. tabs \in SUBSET Sess /\ s \notin tabs
  BY FreeIsNew DEF SessionsInv, SessionsTypeOK
<1>2. IsFiniteSet(tabs) /\ Cardinality(tabs) \in Nat /\ Cardinality(Sess) \in Nat
  BY <1>1, TabsFinite, SessAssumption, FS_CardinalityType
<1>3. Cardinality(tabs \cup {s}) = Cardinality(tabs) + 1
  BY <1>1, <1>2, FS_AddElement
<1>4. tabs \cup {s} \in SUBSET Sess
  BY <1>1
<1>5. Cardinality(tabs \cup {s}) <= Cardinality(Sess)
  BY <1>4, TabsFinite
<1>6. QED
  BY <1>2, <1>3, <1>5 DEF SessionsInv, Counted

\* A session is made.
LEMMA NewSessionInv == ASSUME SessionsInv, NEW s \in Sess, NewSession(s) PROVE SessionsInv'
<1>1. /\ users \in Nat /\ Cardinality(tabs \cup {s}) = users + 1
      /\ users + 1 <= Cardinality(Sess) /\ Cardinality(Sess) \in Nat
  BY RoomForSession DEF NewSession
<1>2. id' = [id EXCEPT ![s] = users + 1] /\ id \in [Sess -> 0 .. Cardinality(Sess)]
  BY DEF NewSession, SessionsInv, SessionsTypeOK
<1>3. id'[s] = users + 1 /\ \A q \in Sess \ {s} : id'[q] = id[q]
  BY <1>2
<1>4. users + 1 \in Nat /\ Free(s)
  BY <1>1 DEF NewSession
<1>5. /\ Append(Queues(mic), s) \in Seq(Sess) /\ Append(Queues(spk), s) \in Seq(Sess)
      /\ Append(sessions, s) \in Seq(Sess)
      /\ \A n \in Nat :
           /\ Count(Append(Queues(mic), s), id', n) = Count(Append(sessions, s), id', n)
           /\ Count(Append(Queues(spk), s), id', n) = Count(Append(sessions, s), id', n)
  BY <1>3, <1>4, QueuesAdded
<1>6. /\ mic' = Append(Queues(mic), s) /\ spk' = Append(Queues(spk), s)
      /\ sessions' = Append(sessions, s) /\ sessions \in Seq(Sess)
  BY DEF NewSession, SessionsInv, SessionsTypeOK
<1>7. Len(sessions') = Len(sessions) + 1 /\ sessions' # <<>>
  BY <1>6, AppendProperties
<1>8. Counted'
  BY <1>1, <1>7 DEF NewSession, SessionsInv, Counted
<1>9. Running'
  BY <1>7 DEF NewSession, Running
<1>10. Balanced'
  <2>1. \A n \in Nat : /\ Count(mic', id', n) = Count(sessions', id', n)
                       /\ Count(spk', id', n) = Count(sessions', id', n)
    BY <1>5, <1>6
  <2>2. QED
    BY <2>1 DEF Balanced
<1>11. SessionsTypeOK'
  <2>1. id' \in [Sess -> 0 .. Cardinality(Sess)]
    BY <1>1, <1>2
  <2>2. users' \in 0 .. Cardinality(Sess) /\ Len(sessions') <= Cardinality(Sess)
    BY <1>1, <1>7 DEF NewSession, SessionsInv, Counted
  <2>3. sessions' \in Seq(Sess) /\ mic' \in Seq(Sess) /\ spk' \in Seq(Sess)
    BY <1>5, <1>6
  <2>4. QED
    BY <2>1, <2>2, <2>3 DEF NewSession, SessionsInv, SessionsTypeOK
<1>12. QED
  BY <1>8, <1>9, <1>10, <1>11 DEF SessionsInv

\* A session cannot be made: as many queues of each number leave as have come.
LEMMA NewSessionFailsInv == ASSUME SessionsInv, NEW s \in Sess, NewSessionFails(s) PROVE SessionsInv'
<1>1. /\ users \in Nat /\ users + 1 <= Cardinality(Sess) /\ Cardinality(Sess) \in Nat
  BY RoomForSession DEF NewSessionFails
<1>2. id' = [id EXCEPT ![s] = users + 1] /\ id \in [Sess -> 0 .. Cardinality(Sess)]
  BY DEF NewSessionFails, SessionsInv, SessionsTypeOK
<1>3. id'[s] = users + 1 /\ \A q \in Sess \ {s} : id'[q] = id[q]
  BY <1>2
<1>4. users + 1 \in Nat /\ Free(s)
  BY <1>1 DEF NewSessionFails
<1> DEFINE k == users + 1
           m == Append(Queues(mic), s)
           p == Append(Queues(spk), s)
<1>5. /\ m \in Seq(Sess) /\ p \in Seq(Sess)
      /\ \A n \in Nat :
           /\ Count(m, id', n) = IF k = n THEN Count(sessions, id, n) + 1 ELSE Count(sessions, id, n)
           /\ Count(p, id', n) = IF k = n THEN Count(sessions, id, n) + 1 ELSE Count(sessions, id, n)
  BY <1>3, <1>4, QueuesAdded
<1>6. /\ mic' = DropFirst(m, k, id') /\ spk' = DropFirst(p, k, id')
      /\ sessions' = sessions /\ sessions \in Seq(Sess) /\ k \in Nat
  BY <1>4 DEF NewSessionFails, SessionsInv, SessionsTypeOK
<1> HIDE DEF k, m, p
<1>7. \A n \in Nat : Count(sessions, id, n) \in Nat
  BY <1>6, CountType
<1>8. Count(m, id', k) > 0 /\ Count(p, id', k) > 0
  <2>1. Count(sessions, id, k) \in Nat
    BY <1>6, <1>7
  <2>2. Count(m, id', k) = Count(sessions, id, k) + 1 /\ Count(p, id', k) = Count(sessions, id, k) + 1
    BY <1>5, <1>6
  <2>3. QED
    BY <2>1, <2>2
<1>9. /\ mic' \in Seq(Sess) /\ spk' \in Seq(Sess)
      /\ \A n \in Nat : /\ Count(mic', id', n) = Count(sessions, id, n)
                        /\ Count(spk', id', n) = Count(sessions, id, n)
  <2>1. /\ DropFirst(m, k, id') \in Seq(Sess) /\ DropFirst(p, k, id') \in Seq(Sess)
        /\ \A n \in Nat :
             /\ Count(DropFirst(m, k, id'), id', n) =
                  IF k = n THEN Count(m, id', n) - 1 ELSE Count(m, id', n)
             /\ Count(DropFirst(p, k, id'), id', n) =
                  IF k = n THEN Count(p, id', n) - 1 ELSE Count(p, id', n)
    BY <1>5, <1>8, CountDropped
  <2>2. ASSUME NEW n \in Nat
        PROVE  Count(mic', id', n) = Count(sessions, id, n) /\ Count(spk', id', n) = Count(sessions, id, n)
    <3>1. Count(sessions, id, n) \in Nat
      BY <1>7
    <3>2. /\ Count(mic', id', n) = IF k = n THEN Count(m, id', n) - 1 ELSE Count(m, id', n)
          /\ Count(spk', id', n) = IF k = n THEN Count(p, id', n) - 1 ELSE Count(p, id', n)
      BY <1>6, <2>1
    <3>3. /\ Count(m, id', n) = IF k = n THEN Count(sessions, id, n) + 1 ELSE Count(sessions, id, n)
          /\ Count(p, id', n) = IF k = n THEN Count(sessions, id, n) + 1 ELSE Count(sessions, id, n)
      BY <1>5
    <3>4. QED
      BY <3>1, <3>2, <3>3
  <2>3. QED
    BY <1>6, <2>1, <2>2
<1>10. \A n \in Nat : Count(sessions, id', n) = Count(sessions, id, n)
  <2>1. \A i \in 1 .. Len(sessions) : id'[sessions[i]] = id[sessions[i]]
    BY <1>3, <1>4, <1>6, FreeIsNew
  <2>2. QED
    BY <1>6, <2>1, CountSame
<1>11. Balanced'
  <2>1. \A n \in Nat : /\ Count(mic', id', n) = Count(sessions', id', n)
                       /\ Count(spk', id', n) = Count(sessions', id', n)
    BY <1>6, <1>9, <1>10
  <2>2. QED
    BY <2>1 DEF Balanced
<1>12. users' = users
  BY <1>1 DEF NewSessionFails
<1>13. Counted'
  BY <1>12 DEF NewSessionFails, SessionsInv, Counted
<1>14. Running' /\ processor' \in {"stopped", "running"}
  <2>1. processor' = IF users' = 0 /\ mic' = <<>> /\ spk' = <<>> THEN "stopped" ELSE "running"
    BY DEF NewSessionFails
  <2>2. users = Len(sessions)
    BY DEF SessionsInv, Counted
  <2>3. CASE Len(sessions) = 0
    <3>1. \A q \in Sess : id'[q] \in Nat
      BY <1>1, <1>2
    <3>2. \A n \in Nat : /\ Count(mic', id', n) = Count(sessions, id', n)
                         /\ Count(spk', id', n) = Count(sessions, id', n)
      BY <1>9, <1>10
    <3>3. mic' = <<>> /\ spk' = <<>>
      BY <1>6, <1>9, <2>3, <3>1, <3>2, BothEmpty
    <3>4. sessions = <<>>
      BY <1>6, <2>3
    <3>5. QED
      BY <1>6, <1>12, <2>1, <2>2, <2>3, <3>3, <3>4 DEF Running
  <2>4. CASE Len(sessions) # 0
    <3>1. sessions # <<>>
      BY <2>4
    <3>2. QED
      BY <1>6, <1>12, <2>1, <2>2, <2>4, <3>1 DEF Running
  <2>5. QED
    BY <2>3, <2>4
<1>15. SessionsTypeOK'
  <2>1. id' \in [Sess -> 0 .. Cardinality(Sess)]
    BY <1>1, <1>2
  <2>2. QED
    BY <1>6, <1>9, <1>12, <1>14, <2>1 DEF NewSessionFails, SessionsInv, SessionsTypeOK
<1>16. QED
  BY <1>11, <1>13, <1>14, <1>15 DEF SessionsInv

\* The first session with a number that is in the list has a place in it.
PlaceOf(s, n, ids) == SelectInSeq(s, LAMBDA v : ids[v] = n)

LEMMA FirstPlace ==
  ASSUME NEW s \in Seq(Sess), NEW ids, NEW n, \E q \in ToSet(s) : ids[q] = n
  PROVE  /\ PlaceOf(s, n, ids) \in 1 .. Len(s) /\ ids[s[PlaceOf(s, n, ids)]] = n
         /\ DropFirst(s, n, ids) = RemoveAt(s, PlaceOf(s, n, ids))
<1> DEFINE I == {i \in 1 .. Len(s) : ids[s[i]] = n}
<1>1. \E i \in 1 .. Len(s) : ids[s[i]] = n
  BY DEF ToSet
<1>2. I \in SUBSET Nat /\ I # {}
  BY <1>1
<1>3. Min(I) \in I
  BY <1>2, LeastElement
<1>4. PlaceOf(s, n, ids) = Min(I)
  BY <1>2 DEF PlaceOf, SelectInSeq
<1>5. DropFirst(s, n, ids) = RemoveAt(s, Min(I))
  BY <1>1, <1>2 DEF DropFirst, RemoveFirstMatch, SelectInSeq
<1>6. QED
  BY <1>3, <1>4, <1>5

\* A session ends, by its number.
LEMMA DestroySessionInv ==
  ASSUME SessionsInv, NEW n, DestroySession(n), id' = id, notified' \in SUBSET Sess,
         plugins' = plugins, asking' = asking \/ asking' = NotAsking
  PROVE  SessionsInv'
<1>0. sessions \in Seq(Sess)
  BY DEF SessionsInv, SessionsTypeOK
<1>1. CASE \E q \in ToSet(sessions) : id[q] = n
  <2> DEFINE i == PlaceOf(sessions, n, id)
  <2>1. i \in 1 .. Len(sessions) /\ id[sessions[i]] = n /\ DropFirst(sessions, n, id) = RemoveAt(sessions, i)
    BY <1>0, <1>1, FirstPlace
  <2> HIDE DEF i
  <2>2. /\ sessions' = RemoveAt(sessions, i) /\ FreeQueues(id[sessions[i]])
        /\ LeaveProcessor /\ CloseTab /\ alive' \in SUBSET Sess
    BY <1>1, <2>1 DEF DestroySession, SessionsInv, SessionsTypeOK
  <2>3. /\ sessions' \in Seq(Sess) /\ Len(sessions') <= Cardinality(Sess)
        /\ mic' \in Seq(Sess) /\ spk' \in Seq(Sess)
        /\ users' \in 0 .. Cardinality(Sess)
        /\ processor' \in {"stopped", "running"}
        /\ tabs' \in SUBSET Sess /\ current' \in tabs' \cup {Nobody}
        /\ Counted' /\ Running' /\ Balanced'
    BY <2>1, <2>2, SessionLeaves
  <2>4. SessionsTypeOK'
    BY <2>2, <2>3 DEF SessionsInv, SessionsTypeOK
  <2>5. QED
    BY <2>3, <2>4 DEF SessionsInv
<1>2. CASE ~ \E q \in ToSet(sessions) : id[q] = n
  <2>1. UNCHANGED <<sessions, id, alive, mic, spk, users, processor, tabs, current>>
    BY <1>2 DEF DestroySession
  <2>2. SessionsTypeOK'
    BY <2>1 DEF SessionsInv, SessionsTypeOK
  <2>3. Counted' /\ Running' /\ Balanced'
    BY <2>1 DEF SessionsInv, Counted, Running, Balanced
  <2>4. QED
    BY <2>2, <2>3 DEF SessionsInv
<1>3. QED
  BY <1>1, <1>2

\* A session ends, by its place in the list.
LEMMA DestroyPartialInv ==
  ASSUME SessionsInv, NEW s, NEW i \in 1 .. Len(sessions), id[s] = id[sessions[i]],
         DestroyPartialSession(s, i), id' = id, notified' = notified,
         plugins' = plugins, asking' = asking \/ asking' = NotAsking
  PROVE  SessionsInv'
<1>1. /\ sessions' = RemoveAt(sessions, i) /\ FreeQueues(id[sessions[i]])
      /\ LeaveProcessor /\ CloseTab /\ alive' \in SUBSET Sess
  BY DEF DestroyPartialSession, SessionsInv, SessionsTypeOK
<1>2. /\ sessions' \in Seq(Sess) /\ Len(sessions') <= Cardinality(Sess)
      /\ mic' \in Seq(Sess) /\ spk' \in Seq(Sess)
      /\ users' \in 0 .. Cardinality(Sess)
      /\ processor' \in {"stopped", "running"}
      /\ tabs' \in SUBSET Sess /\ current' \in tabs' \cup {Nobody}
      /\ Counted' /\ Running' /\ Balanced'
  BY <1>1, SessionLeaves
<1>3. SessionsTypeOK'
  BY <1>1, <1>2 DEF SessionsInv, SessionsTypeOK
<1>4. QED
  BY <1>2, <1>3 DEF SessionsInv

\* What changes no list, no number and no tab.
LEMMA WindowsInv ==
  ASSUME SessionsInv, UNCHANGED <<listVars, tabs>>, SessionsTypeOK',
         current' = current \/ current' \in tabs
  PROVE  SessionsInv'
<1>1. Counted' /\ Running' /\ Balanced'
  BY DEF listVars, SessionsInv, Counted, Running, Balanced
<1>2. QED
  BY <1>1 DEF SessionsInv

\* Every step of the interface keeps the invariant.
LEMMA SessionsStep == ASSUME SessionsInv, [SessionsNext]_sessionsVars PROVE SessionsInv'
<1>0. SessionsTypeOK
  BY DEF SessionsInv
<1>1. ASSUME NEW s \in Sess, NewSession(s) \/ NewSessionFails(s) PROVE SessionsInv'
  BY <1>1, NewSessionInv, NewSessionFailsInv
<1>2. ASSUME NEW s \in Sess, SelectTab(s) \/ Notify(s) PROVE SessionsInv'
  <2>1. SessionsTypeOK' /\ UNCHANGED <<listVars, tabs>> /\ (current' = current \/ current' \in tabs)
    BY <1>0, <1>2 DEF SelectTab, Notify, SessionsTypeOK, listVars
  <2>2. QED
    BY <2>1, WindowsInv
<1>3. CASE AskEnd \/ ShowPlugins \/ ClosePlugins \/ AskCodec \/ NothingEnds \/ UNCHANGED sessionsVars
  <2>1. UNCHANGED <<listVars, tabs, current>>
    BY <1>3 DEF AskEnd, ShowPlugins, ClosePlugins, AskCodec, NothingEnds, sessionsVars
  <2>2. notified' = notified /\ plugins' \in Sess \cup {Nobody}
    BY <1>0, <1>3 DEF AskEnd, ShowPlugins, ClosePlugins, AskCodec, NothingEnds, sessionsVars, SessionsTypeOK
  <2>3. asking' \in {NotAsking} \cup [who : Sess, what : {"end", "codec"}]
    BY <1>0, <1>3 DEF AskEnd, ShowPlugins, ClosePlugins, AskCodec, NothingEnds, sessionsVars, SessionsTypeOK
  <2>4. SessionsTypeOK'
    BY <1>0, <2>1, <2>2, <2>3 DEF SessionsTypeOK, listVars
  <2>5. QED
    BY <2>1, <2>4, WindowsInv
<1>4. CASE EndSession
  <2>1. /\ DestroySession(id[asking.who]) /\ id' = id /\ notified' \in SUBSET Sess
        /\ plugins' = plugins /\ asking' = NotAsking
    BY <1>0, <1>4 DEF EndSession, SessionsTypeOK
  <2>2. QED
    BY <2>1, DestroySessionInv
<1>5. ASSUME NEW s \in Sess, NEW ok \in BOOLEAN, DialogAnswered(s, ok) PROVE SessionsInv'
  <2>1. id' = id /\ plugins' = plugins /\ asking' = asking /\ notified' \in SUBSET Sess
    BY <1>0, <1>5 DEF DialogAnswered, SessionsTypeOK
  <2>2. CASE DestroySession(id[s])
    BY <2>1, <2>2, DestroySessionInv
  <2>3. CASE UNCHANGED <<sessions, alive, mic, spk, users, processor, tabs, current>>
    <3>1. SessionsTypeOK' /\ UNCHANGED <<listVars, tabs, current>>
      BY <1>0, <2>1, <2>3 DEF SessionsTypeOK, listVars
    <3>2. QED
      BY <3>1, WindowsInv
  <2>4. QED
    BY <1>5, <2>2, <2>3 DEF DialogAnswered
<1>6. CASE ChangeCodecFails
  <2> DEFINE n == id[asking.who]
             i == PlaceOf(sessions, n, id)
  <2>1. /\ \E q \in ToSet(sessions) : id[q] = n
        /\ DestroyPartialSession(asking.who, i)
        /\ id' = id /\ notified' = notified /\ plugins' = plugins /\ asking' = NotAsking
    BY <1>6 DEF ChangeCodecFails, PlaceOf
  <2>2. i \in 1 .. Len(sessions) /\ id[sessions[i]] = n
    BY <1>0, <2>1, FirstPlace DEF SessionsTypeOK
  <2> HIDE DEF i
  <2>3. QED
    BY <2>1, <2>2, DestroyPartialInv
<1>7. ASSUME NEW i \in 1 .. Len(sessions), RemoteCodecFails(i) PROVE SessionsInv'
  BY <1>7, DestroyPartialInv DEF RemoteCodecFails
<1>8. QED
  BY <1>1, <1>2, <1>3, <1>4, <1>5, <1>6, <1>7 DEF SessionsNext

\* It holds before the first session.
LEMMA SessionsStart == SessionsInit => SessionsInv
<1> SUFFICES ASSUME SessionsInit PROVE SessionsInv
  OBVIOUS
<1>1. Cardinality(Sess) \in Nat /\ Cardinality({}) = 0
  BY SessAssumption, FS_CardinalityType, FS_EmptySet
<1>2. SessionsTypeOK
  BY <1>1 DEF SessionsInit, SessionsTypeOK
<1>3. Counted
  BY <1>1 DEF SessionsInit, Counted
<1>4. Running
  BY DEF SessionsInit, Running
<1>5. Balanced
  BY DEF SessionsInit, Balanced
<1>6. QED
  BY <1>2, <1>3, <1>4, <1>5 DEF SessionsInv

\* Every way a session is made, fails or ends (create_session, destroy_session,
\* destroy_partial_session) keeps the list of sessions, the queues, the tabs and the
\* count of users in step: the invariant the two properties follow from.
THEOREM SessionsInductive == SessionsSpec => []SessionsInv
<1>1. SessionsInv /\ [SessionsNext]_sessionsVars => SessionsInv'
  BY SessionsStep
<1>2. QED
  BY <1>1, SessionsStart, PTL DEF SessionsSpec

\* The audio processor runs while there is a session, and every path that makes
\* or ends one counts it once.
THEOREM ProcessorRunsForSessions == SessionsSpec => []ProcessorRuns
<1>1. SessionsInv => ProcessorRuns
  BY DEF SessionsInv, Counted, Running, ProcessorRuns
<1>2. QED
  BY <1>1, SessionsInductive, PTL

\* The audio processor has a queue of each kind for every session, under its number.
THEOREM SessionsHaveQueues == SessionsSpec => []QueuesBalanced
<1>1. SessionsInv => QueuesBalanced
  <2> SUFFICES ASSUME SessionsInv PROVE QueuesBalanced
    OBVIOUS
  <2>1. Cardinality(Sess) \in Nat
    BY SessAssumption, FS_CardinalityType
  <2>2. \A n \in 1 .. Cardinality(Sess) :
          /\ Count(mic, id, n) = Count(sessions, id, n)
          /\ Count(spk, id, n) = Count(sessions, id, n)
    BY <2>1 DEF SessionsInv, Balanced
  <2>3. \A n \in 1 .. Cardinality(Sess) :
          /\ Cardinality({i \in DOMAIN mic : id[mic[i]] = n}) = Cardinality({i \in DOMAIN sessions : id[sessions[i]] = n})
          /\ Cardinality({i \in DOMAIN spk : id[spk[i]] = n}) = Cardinality({i \in DOMAIN sessions : id[sessions[i]] = n})
    BY <2>2 DEF Count, Numbered
  <2>4. QED
    BY <2>3 DEF QueuesBalanced, Numbers
<1>2. QED
  BY <1>1, SessionsInductive, PTL

-----------------------------------------------------------------------------
(* The audio processor                                                       *)

NoRepeat(s) == \A i, j \in 1 .. Len(s) : s[i] = s[j] => i = j

\* The user the interface is busy with, when it is at one of these places.
Busy(at) == IF ui.at \in at THEN {ui.who} ELSE {}

\* Who has a queue: the users whose threads run, and the one that comes or goes.
ListInv ==
  /\ NoRepeat(mics) /\ NoRepeat(spks)
  /\ ToSet(mics) = open \cup Busy({"spk", "test", "freemic"})
  /\ live = open \cup Busy({"spk", "test", "freemic", "unrefmic"})
  /\ open \subseteq ToSet(spks)
  /\ ToSet(spks) \subseteq open \cup Busy({"freemic", "unrefmic", "freespk"})
  /\ ui.who \notin open
  /\ \A u \in Users \ live : micq[u] = <<>>

\* Who counts as a user of the processor; its thread has ended when nobody does.
CountInv ==
  /\ dialogs = Cardinality(open \cup Busy({"mic", "spk", "test", "freemic", "unrefmic", "freespk",
                                           "unrefspk", "leave"}))
  /\ ui = Idle /\ open = {} => place = "none"

\* The entry the thread is at is the one at its index.
ThreadInv ==
  /\ place = "push" => counter <= Len(mics) /\ node = Nth(mics, counter)
  /\ place = "pop" => node = Nth(spks, counter)
  /\ place \notin {"push", "pop"} => node = NoUser

\* The blocks in a queue follow each other ...
Follow(queue) == \A i \in 2 .. Len(queue) : queue[i] = (queue[i - 1] + 1) % Round

\* ... up to the last one, or the one before it when the thread has not been there.
BlockInv ==
  /\ \A u \in Users : Follow(micq[u])
  /\ \A i \in 1 .. Len(mics) : micq[mics[i]] # <<>> =>
       Last(micq[mics[i]]) = IF place = "push" /\ i > counter THEN (block + Round - 1) % Round ELSE block

ProcessorInv == ProcessorTypeOK /\ ListInv /\ CountInv /\ ThreadInv /\ BlockInv

\* The lists of queues, seen as sets.
LEMMA SetAppended ==
  ASSUME NEW s \in Seq(Users), NEW e \in Users
  PROVE  /\ Append(s, e) \in Seq(Users) /\ Len(Append(s, e)) = Len(s) + 1
         /\ \A i \in 1 .. Len(s) : Append(s, e)[i] = s[i]
         /\ Append(s, e)[Len(s) + 1] = e
         /\ ToSet(Append(s, e)) = ToSet(s) \cup {e}
         /\ NoRepeat(s) /\ e \notin ToSet(s) => NoRepeat(Append(s, e))
<1>1. Len(s) \in Nat /\ DOMAIN s = 1 .. Len(s)
  OBVIOUS
<1>2. /\ Append(s, e) \in Seq(Users) /\ Len(Append(s, e)) = Len(s) + 1
      /\ \A i \in 1 .. Len(s) : Append(s, e)[i] = s[i]
      /\ Append(s, e)[Len(s) + 1] = e
  BY AppendProperties
<1> DEFINE t == Append(s, e)
<1>3. DOMAIN t = 1 .. Len(s) + 1
  BY <1>2
<1> HIDE DEF t
<1>4. t \in Seq(Users) /\ Len(t) = Len(s) + 1 /\ (\A i \in 1 .. Len(s) : t[i] = s[i]) /\ t[Len(s) + 1] = e
  BY <1>2 DEF t
<1>5. \A i \in 1 .. Len(s) + 1 : i \in 1 .. Len(s) \/ i = Len(s) + 1
  BY <1>1
<1>6. ToSet(t) = ToSet(s) \cup {e}
  BY <1>1, <1>3, <1>4, <1>5 DEF ToSet
<1>7. ASSUME NoRepeat(s), e \notin ToSet(s) PROVE NoRepeat(t)
  BY <1>1, <1>4, <1>5, <1>7 DEF NoRepeat, ToSet
<1>8. QED
  BY <1>2, <1>6, <1>7 DEF t

LEMMA SetRemoved ==
  ASSUME NEW s \in Seq(Users), NoRepeat(s), NEW e
  PROVE  /\ RemoveFirst(s, e) \in Seq(Users) /\ NoRepeat(RemoveFirst(s, e))
         /\ ToSet(RemoveFirst(s, e)) = ToSet(s) \ {e}
<1> DEFINE t == RemoveFirst(s, e)
<1>0. Len(s) \in Nat /\ DOMAIN s = 1 .. Len(s)
  OBVIOUS
<1>1. CASE (\A i \in 1 .. Len(s) : s[i] # e) /\ RemoveFirst(s, e) = s
  BY <1>0, <1>1 DEF ToSet
<1>2. CASE \E k \in 1 .. Len(s) : s[k] = e /\ RemoveFirst(s, e) = RemoveAt(s, k)
  <2>1. PICK k \in 1 .. Len(s) : s[k] = e /\ t = RemoveAt(s, k)
    BY <1>2
  <2> HIDE DEF t
  <2>2. /\ t \in Seq(Users) /\ Len(t) = Len(s) - 1
        /\ \A j \in 1 .. Len(s) - 1 : t[j] = IF j < k THEN s[j] ELSE s[j + 1]
    BY <2>1, Removed
  <2>3. DOMAIN t = 1 .. Len(s) - 1
    BY <2>2
  <2> DEFINE at(j) == IF j < k THEN j ELSE j + 1
  <2>4. \A j \in 1 .. Len(s) - 1 : at(j) \in 1 .. Len(s) /\ at(j) # k /\ t[j] = s[at(j)]
    BY <1>0, <2>2
  <2>5. \A i \in 1 .. Len(s) : i # k => \E j \in 1 .. Len(s) - 1 : at(j) = i
    <3> SUFFICES ASSUME NEW i \in 1 .. Len(s), i # k PROVE \E j \in 1 .. Len(s) - 1 : at(j) = i
      OBVIOUS
    <3>1. CASE i < k
      BY <1>0, <3>1
    <3>2. CASE i > k
      <4>1. i - 1 \in 1 .. Len(s) - 1 /\ at(i - 1) = i
        BY <1>0, <3>2
      <4>2. QED
        BY <4>1
    <3>3. QED
      BY <3>1, <3>2
  <2>6. \A j1, j2 \in 1 .. Len(s) - 1 : at(j1) = at(j2) => j1 = j2
    BY <1>0
  <2> HIDE DEF at
  <2>7. NoRepeat(t)
    BY <2>2, <2>4, <2>6 DEF NoRepeat
  <2>8. ToSet(t) = ToSet(s) \ {e}
    <3>1. ASSUME NEW u \in ToSet(t) PROVE u \in ToSet(s) \ {e}
      BY <1>0, <2>1, <2>3, <2>4, <3>1 DEF ToSet, NoRepeat
    <3>2. ASSUME NEW u \in ToSet(s) \ {e} PROVE u \in ToSet(t)
      <4>1. PICK i \in 1 .. Len(s) : s[i] = u
        BY <1>0, <3>2 DEF ToSet
      <4>2. PICK j \in 1 .. Len(s) - 1 : at(j) = i
        BY <2>1, <2>5, <3>2, <4>1
      <4>3. QED
        BY <2>3, <2>4, <4>1, <4>2 DEF ToSet
    <3>3. QED
      BY <3>1, <3>2
  <2>9. QED
    BY <2>2, <2>7, <2>8 DEF t
<1>3. QED
  BY <1>1, <1>2, FirstRemoved

\* A list in which nobody is twice is no longer than there are users: the index
\* of the thread stays below the samples of a block.
LEMMA ListLength ==
  ASSUME NEW s \in Seq(Users), NoRepeat(s)
  PROVE  Len(s) \in Nat /\ Len(s) <= Samples
<1>1. Len(s) \in Nat /\ s \in [1 .. Len(s) -> Users]
  OBVIOUS
<1>2. s \in Injection(1 .. Len(s), Users)
  BY <1>1 DEF Injection, IsInjective, NoRepeat
<1>3. Cardinality(1 .. Len(s)) <= Cardinality(Users)
  BY <1>2, UserAssumption, FS_Injection
<1>4. Cardinality(1 .. Len(s)) = Len(s)
  BY <1>1, FS_Interval
<1>5. Cardinality(Users) \in Nat /\ Samples \in Nat /\ Samples >= Cardinality(Users)
  BY UserAssumption, SamplesAssumption, FS_CardinalityType
<1>6. QED
  BY <1>1, <1>3, <1>4, <1>5

\* The entry at an index.
LEMMA NthIs ==
  ASSUME NEW s \in Seq(Users), NEW n \in Nat
  PROVE  /\ Nth(s, n) \in Users \cup {NoUser}
         /\ n < Len(s) => Nth(s, n) = s[n + 1] /\ Nth(s, n) \in Users /\ Nth(s, n) # NoUser
         /\ Nth(s, n) # NoUser => n < Len(s)
<1>1. n < Len(s) => n + 1 \in 1 .. Len(s)
  OBVIOUS
<1>2. QED
  BY <1>1, UserAssumption DEF Nth

\* The numbers of blocks.
Blocks == 0 .. Round - 1

\* A block that follows the last one is put into a queue.
LEMMA PutFollows ==
  ASSUME NEW q \in Seq(Blocks), NEW b \in Blocks, Follow(q),
         q # <<>> => b = (Last(q) + 1) % Round
  PROVE  /\ Put(q, b) \in Seq(Blocks) /\ Put(q, b) # <<>>
         /\ Last(Put(q, b)) = b /\ Follow(Put(q, b))
<1> DEFINE a == Append(q, b)
<1>0. Len(q) \in Nat /\ MaxQueue \in Nat /\ MaxQueue >= 1
  BY BoundAssumption
<1>1. /\ a \in Seq(Blocks) /\ Len(a) = Len(q) + 1
      /\ \A i \in 1 .. Len(q) : a[i] = q[i]
      /\ a[Len(q) + 1] = b
  BY AppendProperties
<1> HIDE DEF a
<1>2. Follow(a)
  <2> SUFFICES ASSUME NEW i \in 2 .. Len(a) PROVE a[i] = (a[i - 1] + 1) % Round
    BY DEF Follow
  <2>1. CASE i \in 2 .. Len(q)
    <3>1. i - 1 \in 1 .. Len(q) /\ i \in 1 .. Len(q)
      BY <1>0, <2>1
    <3>2. q[i] = (q[i - 1] + 1) % Round
      BY <2>1 DEF Follow
    <3>3. QED
      BY <1>1, <3>1, <3>2
  <2>2. CASE i = Len(q) + 1
    <3>1. i - 1 = Len(q) /\ i - 1 \in 1 .. Len(q) /\ q # <<>>
      BY <1>0, <2>2
    <3>2. a[i - 1] = q[Len(q)]
      BY <1>1, <3>1
    <3>3. QED
      BY <1>1, <2>2, <3>1, <3>2 DEF Last
  <2>3. QED
    BY <1>0, <1>1, <2>1, <2>2
<1>3. a # <<>> /\ Last(a) = b
  BY <1>0, <1>1 DEF Last
<1>4. CASE Len(a) <= MaxQueue
  <2>1. Put(q, b) = a
    BY <1>0, <1>1, <1>4 DEF Put, a
  <2>2. QED
    BY <1>1, <1>2, <1>3, <2>1
<1>5. CASE Len(a) > MaxQueue
  <2>1. Put(q, b) = Tail(a)
    BY <1>5 DEF Put, a
  <2>2. /\ Tail(a) \in Seq(Blocks) /\ Len(Tail(a)) = Len(a) - 1
        /\ \A i \in 1 .. Len(Tail(a)) : Tail(a)[i] = a[i + 1]
    BY <1>1, <1>3, HeadTailProperties
  <2> DEFINE t == Tail(a)
  <2> HIDE DEF t
  <2>3. t \in Seq(Blocks) /\ Len(t) = Len(q) /\ Len(q) >= 1 /\ \A i \in 1 .. Len(q) : t[i] = a[i + 1]
    BY <1>0, <1>1, <1>5, <2>2 DEF t
  <2>4. t # <<>> /\ Last(t) = b
    BY <1>0, <1>1, <2>3 DEF Last
  <2>5. Follow(t)
    <3> SUFFICES ASSUME NEW i \in 2 .. Len(q) PROVE t[i] = (t[i - 1] + 1) % Round
      BY <2>3 DEF Follow
    <3>1. i \in 1 .. Len(q) /\ i - 1 \in 1 .. Len(q) /\ i + 1 \in 2 .. Len(a) /\ (i - 1) + 1 = i /\ (i + 1) - 1 = i
      BY <1>0, <1>1
    <3>2. a[i + 1] = (a[i] + 1) % Round
      BY <1>2, <3>1 DEF Follow
    <3>3. t[i] = a[i + 1] /\ t[i - 1] = a[i]
      BY <2>3, <3>1
    <3>4. QED
      BY <3>2, <3>3
  <2>6. QED
    BY <2>1, <2>3, <2>4, <2>5 DEF t
<1>6. QED
  BY <1>0, <1>1, <1>4, <1>5

\* The oldest block is taken from one.
LEMMA TailFollows ==
  ASSUME NEW q \in Seq(Blocks), q # <<>>, Follow(q)
  PROVE  /\ Tail(q) \in Seq(Blocks) /\ Follow(Tail(q))
         /\ Tail(q) # <<>> => Last(Tail(q)) = Last(q)
<1> DEFINE t == Tail(q)
<1>0. Len(q) \in Nat /\ Len(q) >= 1
  OBVIOUS
<1>1. t \in Seq(Blocks) /\ Len(t) = Len(q) - 1 /\ \A i \in 1 .. Len(t) : t[i] = q[i + 1]
  BY HeadTailProperties
<1> HIDE DEF t
<1>2. Follow(t)
  <2> SUFFICES ASSUME NEW i \in 2 .. Len(t) PROVE t[i] = (t[i - 1] + 1) % Round
    BY DEF Follow
  <2>1. i \in 1 .. Len(t) /\ i - 1 \in 1 .. Len(t) /\ i + 1 \in 2 .. Len(q) /\ (i - 1) + 1 = i /\ (i + 1) - 1 = i
    BY <1>0, <1>1
  <2>2. q[i + 1] = (q[i] + 1) % Round
    BY <2>1 DEF Follow
  <2>3. t[i] = q[i + 1] /\ t[i - 1] = q[i]
    BY <1>1, <2>1
  <2>4. QED
    BY <2>2, <2>3
<1>3. t # <<>> => Last(t) = Last(q)
  <2> SUFFICES ASSUME t # <<>> PROVE Last(t) = Last(q)
    OBVIOUS
  <2>1. Len(t) >= 1
    BY <1>1
  <2>2. t[Len(t)] = q[Len(t) + 1] /\ Len(t) + 1 = Len(q)
    BY <1>0, <1>1, <2>1
  <2>3. QED
    BY <2>2 DEF Last
<1>4. QED
  BY <1>1, <1>2, <1>3 DEF t

\* Numbers of blocks, one after another.
LEMMA SmallMod ==
  ASSUME NEW n \in Nat, n > 0, NEW x \in Nat
  PROVE  /\ x < n => x % n = x
         /\ n <= x /\ x < 2 * n => x % n = x - n
<1>1. x % n \in 0 .. n - 1
  OBVIOUS
<1>2. x \div n \in Nat
  OBVIOUS
<1>3. x % n = x - n * (x \div n)
  OBVIOUS
<1> DEFINE q == x \div n
           r == x % n
<1> HIDE DEF q, r
<1>4. r \in 0 .. n - 1 /\ q \in Nat /\ r = x - n * q
  BY <1>1, <1>2, <1>3 DEF q, r
<1>5. n * q \in Nat
  BY <1>4
<1>6. q >= 1 => n * q >= n
  BY <1>4
<1>7. q >= 2 => n * q >= 2 * n
  BY <1>4
<1>8. (q = 0 => n * q = 0) /\ (q = 1 => n * q = n)
  OBVIOUS
<1>9. QED
  BY <1>4, <1>5, <1>6, <1>7, <1>8 DEF q, r

\* The number after a block, and the one before it, undo each other.
LEMMA Successor ==
  ASSUME NEW b \in Blocks
  PROVE  /\ (b + 1) % Round \in Blocks
         /\ (((b + 1) % Round) + Round - 1) % Round = b
         /\ (((b + Round - 1) % Round) + 1) % Round = b
<1>0. Round \in Nat /\ Round > 1
  BY BoundAssumption
<1>1. CASE b + 1 < Round
  <2>1. (b + 1) % Round = b + 1
    BY <1>0, <1>1, SmallMod DEF Blocks
  <2>2. (b + Round) % Round = b
    BY <1>0, SmallMod DEF Blocks
  <2>3. CASE b = 0
    BY <1>0, <1>1, <2>1, <2>2, <2>3, SmallMod DEF Blocks
  <2>4. CASE b # 0
    <3>1. (b + Round - 1) % Round = b - 1
      BY <1>0, <2>4, SmallMod DEF Blocks
    <3>2. b % Round = b
      BY <1>0, SmallMod DEF Blocks
    <3>3. QED
      BY <1>0, <2>1, <2>2, <3>1, <3>2 DEF Blocks
  <2>5. QED
    BY <2>3, <2>4
<1>2. CASE b + 1 = Round
  <2>1. Round % Round = 0
    BY <1>0, SmallMod
  <2>2. (0 + Round - 1) % Round = Round - 1
    BY <1>0, SmallMod
  <2>3. (b + Round - 1) % Round = b - 1
    BY <1>0, <1>2, SmallMod DEF Blocks
  <2>4. b % Round = b
    BY <1>0, SmallMod DEF Blocks
  <2>5. QED
    BY <1>0, <1>2, <2>1, <2>2, <2>3, <2>4 DEF Blocks
<1>3. QED
  BY <1>0, <1>1, <1>2 DEF Blocks

-----------------------------------------------------------------------------
(* Its thread                                                                *)

\* The types the steps need, and the lists, which are no longer than a block has samples.
LEMMA ProcessorTypes ==
  ASSUME ProcessorInv
  PROVE  /\ mics \in Seq(Users) /\ spks \in Seq(Users)
         /\ Len(mics) \in Nat /\ Len(mics) <= Samples /\ Len(spks) \in Nat /\ Len(spks) <= Samples
         /\ counter \in Nat /\ block \in Blocks /\ Samples \in Nat /\ Round \in Nat /\ Round > 0
         /\ \A u \in Users : micq[u] \in Seq(Blocks)
         /\ live \in SUBSET Users /\ open \in SUBSET Users
<1>1. mics \in Seq(Users) /\ spks \in Seq(Users) /\ NoRepeat(mics) /\ NoRepeat(spks)
  BY DEF ProcessorInv, ProcessorTypeOK, ListInv
<1>2. Len(mics) \in Nat /\ Len(mics) <= Samples /\ Len(spks) \in Nat /\ Len(spks) <= Samples
  BY <1>1, ListLength
<1>3. QED
  BY <1>1, <1>2, SamplesAssumption, BoundAssumption DEF ProcessorInv, ProcessorTypeOK, Blocks

\* A step of the thread leaves the lists to the interface.
LEMMA ThreadKeepsLists ==
  ASSUME ProcessorInv, place # "none", UNCHANGED <<queueVars, micq, dialogs, open, ui>>
  PROVE  ListInv' /\ CountInv'
<1>1. ListInv'
  BY DEF ProcessorInv, ListInv, queueVars, Busy, NoRepeat, ToSet
<1>2. CountInv'
  BY DEF ProcessorInv, CountInv, Busy
<1>3. QED
  BY <1>1, <1>2

\* The thread goes on, without a list.
LEMMA BetweenLists ==
  ASSUME ProcessorInv, Loop \/ ReadPart \/ RestFails \/ Write \/ PopEnds
  PROVE  ProcessorInv'
<1>0. /\ place # "none" /\ UNCHANGED <<queueVars, micq, dialogs, open, ui>>
      /\ UNCHANGED <<block, node, process, card, spkq>>
      /\ place # "push" /\ place' \in {"none", "loop", "read", "rest", "write"}
  BY DEF Loop, ReadPart, RestFails, Write, PopEnds
<1>1. ListInv' /\ CountInv'
  BY <1>0, ThreadKeepsLists
<1>2. cond' \in 0 .. Block /\ counter' \in 0 .. Samples + 1
  BY BlockAssumption, SamplesAssumption
     DEF ProcessorInv, ProcessorTypeOK, Loop, ReadPart, RestFails, Write, PopEnds
<1>3. ProcessorTypeOK'
  BY <1>0, <1>2 DEF ProcessorInv, ProcessorTypeOK, queueVars
<1>4. node = NoUser
  BY DEF ProcessorInv, ThreadInv, Loop, ReadPart, RestFails, Write, PopEnds
<1>5. ThreadInv'
  BY <1>0, <1>4 DEF ThreadInv
<1>6. BlockInv'
  BY <1>0 DEF ProcessorInv, BlockInv, queueVars, Follow
<1>7. QED
  BY <1>1, <1>3, <1>5, <1>6 DEF ProcessorInv

\* A block is handed out from the first consumer on: to all of them it is the next.
LEMMA HandsOut == ASSUME ProcessorInv, ReadBlock \/ ReadRest PROVE ProcessorInv'
<1>1. CASE HandOut
  <2>0. /\ place \in {"read", "rest"} /\ place' = "push" /\ counter' = 0 /\ node' = Nth(mics, 0) /\ cond' = 0
        /\ block' = (block + 1) % Round
        /\ UNCHANGED <<queueVars, micq, dialogs, open, ui, process, card, spkq>>
    BY <1>1 DEF ReadBlock, ReadRest, HandOut
  <2>1. ListInv' /\ CountInv'
    BY <2>0, ThreadKeepsLists
  <2>2. /\ mics \in Seq(Users) /\ Len(mics) \in Nat /\ block \in Blocks /\ Samples \in Nat
    BY ProcessorTypes
  <2>3. block' \in Blocks /\ (block' + Round - 1) % Round = block
    BY <2>0, <2>2, Successor
  <2>4. node' \in Users \cup {NoUser}
    BY <2>0, <2>2, NthIs
  <2>5. ProcessorTypeOK'
    <3>1. cond' \in 0 .. Block /\ counter' \in 0 .. Samples + 1 /\ block' \in 0 .. Round - 1
      BY <2>0, <2>2, <2>3, BlockAssumption DEF Blocks
    <3>2. QED
      BY <2>0, <2>4, <3>1 DEF ProcessorInv, ProcessorTypeOK, queueVars
  <2>6. ThreadInv'
    BY <2>0, <2>2 DEF ThreadInv, queueVars
  <2>7. BlockInv'
    <3>1. \A u \in Users : Follow(micq'[u])
      BY <2>0 DEF ProcessorInv, BlockInv
    <3>2. ASSUME NEW i \in 1 .. Len(mics), micq[mics[i]] # <<>>
          PROVE  Last(micq[mics[i]]) = (block' + Round - 1) % Round
      BY <2>0, <2>3, <3>2 DEF ProcessorInv, BlockInv
    <3>3. \A i \in 1 .. Len(mics) : i > counter'
      BY <2>0, <2>2
    <3>4. QED
      BY <2>0, <3>1, <3>2, <3>3 DEF BlockInv, queueVars
  <2>8. QED
    BY <2>1, <2>5, <2>6, <2>7 DEF ProcessorInv
<1>2. CASE ReadRest /\ ~HandOut
  <2>0. /\ place = "rest" /\ cond' \in 0 .. Block
        /\ UNCHANGED <<place, block, counter, node>>
        /\ UNCHANGED <<queueVars, micq, dialogs, open, ui, process, card, spkq>>
    BY <1>2, BlockAssumption DEF ReadRest, ProcessorInv, ProcessorTypeOK
  <2>1. ListInv' /\ CountInv'
    BY <2>0, ThreadKeepsLists
  <2>2. ProcessorTypeOK'
    BY <2>0 DEF ProcessorInv, ProcessorTypeOK, queueVars
  <2>3. ThreadInv' /\ BlockInv'
    BY <2>0 DEF ProcessorInv, ThreadInv, BlockInv, queueVars, Follow
  <2>4. QED
    BY <2>1, <2>2, <2>3 DEF ProcessorInv
<1>3. QED
  BY <1>1, <1>2 DEF ReadBlock

\* A copy of the block goes to the consumer at the index.
LEMMA PushInv == ASSUME ProcessorInv, Push PROVE ProcessorInv'
<1>0. /\ place = "push" /\ node # NoUser /\ micq' = [micq EXCEPT ![node] = Put(@, block)]
      /\ counter' = counter + 1 /\ node' = Nth(mics, counter')
      /\ UNCHANGED <<place, process, cond, block, card, spkq, dialogs, open, ui>>
      /\ UNCHANGED queueVars /\ mics' = mics
  BY DEF Push, queueVars
<1>1. /\ mics \in Seq(Users) /\ Len(mics) \in Nat /\ Len(mics) <= Samples /\ counter \in Nat
      /\ block \in Blocks /\ Samples \in Nat /\ \A u \in Users : micq[u] \in Seq(Blocks)
  BY ProcessorTypes
<1>2. node = Nth(mics, counter)
  BY <1>0 DEF ProcessorInv, ThreadInv
<1>3. counter < Len(mics) /\ node = mics[counter + 1] /\ node \in Users
  BY <1>0, <1>1, <1>2, NthIs
<1>4. counter + 1 \in 1 .. Len(mics)
  BY <1>1, <1>3
<1>5. Follow(micq[node]) /\ (micq[node] # <<>> => block = (Last(micq[node]) + 1) % Round)
  <2>1. micq[node] # <<>> => Last(micq[node]) = (block + Round - 1) % Round
    BY <1>0, <1>1, <1>3, <1>4 DEF ProcessorInv, BlockInv
  <2>2. (((block + Round - 1) % Round) + 1) % Round = block
    BY <1>1, Successor
  <2>3. QED
    BY <1>3, <2>1, <2>2 DEF ProcessorInv, BlockInv
<1>6. /\ Put(micq[node], block) \in Seq(Blocks) /\ Put(micq[node], block) # <<>>
      /\ Last(Put(micq[node], block)) = block /\ Follow(Put(micq[node], block))
  BY <1>1, <1>3, <1>5, PutFollows
<1>7. micq \in [Users -> Seq(Blocks)]
  BY DEF ProcessorInv, ProcessorTypeOK, Blocks
<1>8. /\ micq' \in [Users -> Seq(Blocks)] /\ micq'[node] = Put(micq[node], block)
      /\ \A u \in Users : u # node => micq'[u] = micq[u]
  BY <1>0, <1>3, <1>6, <1>7
<1>9. ProcessorTypeOK'
  <2>1. counter' \in 0 .. Samples + 1 /\ counter' \in Nat
    BY <1>0, <1>1, <1>3
  <2>2. node' \in Users \cup {NoUser}
    BY <1>0, <1>1, <2>1, NthIs
  <2>3. QED
    BY <1>0, <1>8, <2>1, <2>2 DEF ProcessorInv, ProcessorTypeOK, queueVars, Blocks
<1>10. ListInv'
  <2>1. node \in live
    <3>1. node \in ToSet(mics)
      BY <1>1, <1>3, <1>4 DEF ToSet
    <3>2. QED
      BY <3>1 DEF ProcessorInv, ListInv, Busy
  <2>2. \A u \in Users \ live : micq'[u] = <<>>
    BY <1>8, <2>1 DEF ProcessorInv, ListInv
  <2>3. QED
    BY <1>0, <2>2 DEF ProcessorInv, ListInv, queueVars, Busy, NoRepeat, ToSet
<1>11. CountInv'
  BY <1>0 DEF ProcessorInv, CountInv, Busy
<1>12. ThreadInv'
  BY <1>0, <1>1, <1>3 DEF ThreadInv
<1>13. BlockInv'
  <2>1. \A u \in Users : Follow(micq'[u])
    BY <1>6, <1>8 DEF ProcessorInv, BlockInv
  <2>2. ASSUME NEW i \in 1 .. Len(mics), micq'[mics[i]] # <<>>
        PROVE  Last(micq'[mics[i]]) = IF i > counter + 1 THEN (block + Round - 1) % Round ELSE block
    <3>1. CASE i = counter + 1
      BY <1>1, <1>3, <1>6, <1>8, <3>1
    <3>2. CASE i # counter + 1
      <4>1. mics[i] \in Users /\ mics[i] # node
        BY <1>1, <1>3, <1>4, <3>2 DEF ProcessorInv, ListInv, NoRepeat
      <4>2. micq'[mics[i]] = micq[mics[i]]
        BY <1>8, <4>1
      <4>3. Last(micq[mics[i]]) = IF i > counter THEN (block + Round - 1) % Round ELSE block
        BY <1>0, <2>2, <4>2 DEF ProcessorInv, BlockInv
      <4>4. i > counter <=> i > counter + 1
        BY <1>1, <3>2
      <4>5. QED
        BY <4>2, <4>3, <4>4
    <3>3. QED
      BY <3>1, <3>2
  <2>3. QED
    BY <1>0, <2>1, <2>2 DEF BlockInv
<1>14. QED
  BY <1>9, <1>10, <1>11, <1>12, <1>13 DEF ProcessorInv

\* All consumers have it, and the thread turns to the producers.
LEMMA PushEndsInv == ASSUME ProcessorInv, PushEnds PROVE ProcessorInv'
<1>0. /\ place = "push" /\ node = NoUser /\ place' = "pop" /\ counter' = 0 /\ node' = Nth(spks, 0)
      /\ UNCHANGED <<process, cond, block, card, spkq, queueVars, micq, dialogs, open, ui>>
  BY DEF PushEnds
<1>1. /\ mics \in Seq(Users) /\ spks \in Seq(Users) /\ Len(mics) \in Nat /\ counter \in Nat /\ Samples \in Nat
  BY ProcessorTypes
<1>2. ListInv' /\ CountInv'
  BY <1>0, ThreadKeepsLists
<1>3. counter >= Len(mics)
  BY <1>0, <1>1, NthIs DEF ProcessorInv, ThreadInv
<1>4. ProcessorTypeOK'
  <2>1. node' \in Users \cup {NoUser}
    BY <1>0, <1>1, NthIs
  <2>2. counter' \in 0 .. Samples + 1
    BY <1>0, <1>1
  <2>3. QED
    BY <1>0, <2>1, <2>2 DEF ProcessorInv, ProcessorTypeOK, queueVars
<1>5. ThreadInv'
  BY <1>0 DEF ThreadInv, queueVars
<1>6. BlockInv'
  <2>1. \A i \in 1 .. Len(mics) : ~(i > counter)
    BY <1>1, <1>3
  <2>2. QED
    BY <1>0, <2>1 DEF ProcessorInv, BlockInv, queueVars
<1>7. QED
  BY <1>2, <1>4, <1>5, <1>6 DEF ProcessorInv

\* It takes a block of the producer at the index.
LEMMA PopInv == ASSUME ProcessorInv, Pop PROVE ProcessorInv'
<1>0. /\ place = "pop" /\ node # NoUser /\ node' = Nth(spks, counter')
      /\ UNCHANGED <<place, process, cond, block, card, queueVars, micq, dialogs, open, ui>>
  BY DEF Pop
<1>1. /\ spks \in Seq(Users) /\ Len(spks) \in Nat /\ Len(spks) <= Samples /\ counter \in Nat /\ Samples \in Nat
  BY ProcessorTypes
<1>2. ListInv' /\ CountInv'
  BY <1>0, ThreadKeepsLists
<1>3. node \in Users /\ counter < Len(spks)
  BY <1>0, <1>1, NthIs DEF ProcessorInv, ThreadInv
<1>4. counter' \in 0 .. Samples + 1 /\ counter' \in Nat
  BY <1>1, <1>3 DEF Pop
<1>5. node' \in Users \cup {NoUser}
  BY <1>0, <1>1, <1>4, NthIs
<1>6. spkq' \in [Users -> 0 .. MaxQueue]
  <2>1. spkq \in [Users -> 0 .. MaxQueue] /\ MaxQueue \in Nat
    BY BoundAssumption DEF ProcessorInv, ProcessorTypeOK
  <2>2. spkq[node] > 0 => spkq[node] - 1 \in 0 .. MaxQueue
    BY <1>3, <2>1
  <2>3. QED
    BY <1>3, <2>1, <2>2 DEF Pop
<1>7. ProcessorTypeOK'
  BY <1>0, <1>4, <1>5, <1>6 DEF ProcessorInv, ProcessorTypeOK, queueVars
<1>8. ThreadInv'
  BY <1>0 DEF ThreadInv, queueVars
<1>9. BlockInv'
  BY <1>0 DEF ProcessorInv, BlockInv, queueVars
<1>10. QED
  BY <1>2, <1>7, <1>8, <1>9 DEF ProcessorInv

-----------------------------------------------------------------------------
(* The card and the threads of the sessions                                  *)

\* The card fails, and a session puts a block into its queue.
LEMMA CardGiveInv == ASSUME ProcessorInv, CardFails \/ \E u \in Users : Give(u) PROVE ProcessorInv'
<1>0. /\ UNCHANGED <<threadVars, queueVars, micq, dialogs, open, ui>>
      /\ UNCHANGED <<place, process, cond, block, counter, node, mics, spks, live>>
  BY DEF CardFails, Give, threadVars, queueVars
<1>1. card' \in {"works", "failed"} /\ spkq' \in [Users -> 0 .. MaxQueue]
  <2>1. CASE CardFails
    BY <2>1 DEF CardFails, ProcessorInv, ProcessorTypeOK
  <2>2. ASSUME NEW u \in Users, Give(u) PROVE card' = card /\ spkq' \in [Users -> 0 .. MaxQueue]
    <3>1. MaxQueue \in Nat /\ spkq \in [Users -> 0 .. MaxQueue]
      BY BoundAssumption DEF ProcessorInv, ProcessorTypeOK
    <3>2. spkq[u] + 1 \in 0 .. MaxQueue
      BY <2>2, <3>1 DEF Give
    <3>3. QED
      BY <2>2, <3>1, <3>2 DEF Give
  <2>3. QED
    BY <2>1, <2>2 DEF ProcessorInv, ProcessorTypeOK
<1>2. ProcessorTypeOK'
  BY <1>0, <1>1 DEF ProcessorInv, ProcessorTypeOK
<1>3. ListInv' /\ CountInv'
  BY <1>0 DEF ProcessorInv, ListInv, CountInv, Busy, NoRepeat, ToSet
<1>4. ThreadInv' /\ BlockInv'
  BY <1>0 DEF ProcessorInv, ThreadInv, BlockInv, Follow
<1>5. QED
  BY <1>2, <1>3, <1>4 DEF ProcessorInv

\* The oldest block of a queue is taken.
LEMMA BlockTaken ==
  ASSUME ProcessorInv, NEW u \in live, micq[u] # <<>>, micq' = [micq EXCEPT ![u] = Tail(@)],
         UNCHANGED <<place, block, counter, mics, live>>
  PROVE  /\ micq' \in [Users -> Seq(Blocks)] /\ BlockInv'
         /\ \A v \in Users \ live' : micq'[v] = <<>>
<1>1. micq \in [Users -> Seq(Blocks)] /\ u \in Users /\ mics \in Seq(Users)
  BY DEF ProcessorInv, ProcessorTypeOK, Blocks
<1>2. /\ Tail(micq[u]) \in Seq(Blocks) /\ Follow(Tail(micq[u]))
      /\ Tail(micq[u]) # <<>> => Last(Tail(micq[u])) = Last(micq[u])
  BY <1>1, TailFollows DEF ProcessorInv, BlockInv
<1>3. /\ micq' \in [Users -> Seq(Blocks)] /\ micq'[u] = Tail(micq[u])
      /\ \A v \in Users : v # u => micq'[v] = micq[v]
  BY <1>1, <1>2
<1>4. \A v \in Users \ live' : micq'[v] = <<>>
  BY <1>3 DEF ProcessorInv, ListInv
<1>5. BlockInv'
  <2>1. \A v \in Users : Follow(micq'[v])
    BY <1>2, <1>3 DEF ProcessorInv, BlockInv
  <2>2. ASSUME NEW v \in Users, micq'[v] # <<>> PROVE micq[v] # <<>> /\ Last(micq'[v]) = Last(micq[v])
    BY <1>2, <1>3, <2>2
  <2>3. \A i \in 1 .. Len(mics) : mics[i] \in Users
    BY <1>1
  <2>4. QED
    BY <2>1, <2>2, <2>3 DEF ProcessorInv, BlockInv
<1>6. QED
  BY <1>3, <1>4, <1>5

\* A session takes it, or the interface that measures.
LEMMA TakeInv == ASSUME ProcessorInv, NEW u \in Users, Take(u) PROVE ProcessorInv'
<1>0. /\ u \in open /\ micq[u] # <<>> /\ micq' = [micq EXCEPT ![u] = Tail(@)]
      /\ UNCHANGED <<place, process, cond, block, counter, node, mics, spks, live, card, spkq, dialogs, open, ui>>
  BY DEF Take, threadVars, queueVars
<1>1. u \in live
  BY <1>0 DEF ProcessorInv, ListInv
<1>2. micq' \in [Users -> Seq(Blocks)] /\ BlockInv' /\ \A v \in Users \ live' : micq'[v] = <<>>
  BY <1>0, <1>1, BlockTaken
<1>3. ProcessorTypeOK'
  BY <1>0, <1>2 DEF ProcessorInv, ProcessorTypeOK, Blocks
<1>4. ListInv' /\ CountInv'
  BY <1>0, <1>2 DEF ProcessorInv, ListInv, CountInv, Busy, NoRepeat, ToSet
<1>5. ThreadInv'
  BY <1>0 DEF ProcessorInv, ThreadInv
<1>6. QED
  BY <1>2, <1>3, <1>4, <1>5 DEF ProcessorInv

-----------------------------------------------------------------------------
(* The interface                                                             *)

\* What the interface does for a user, one after another.
Errands == {"mic", "spk", "test", "freemic", "unrefmic", "freespk", "unrefspk", "leave", "join"}

\* The interface goes on to another place, for the same user.
LEMMA GoesOn ==
  ASSUME ProcessorInv, ui.at # "idle", NEW p \in Errands
  PROVE  /\ ui.who \in Users /\ ui.at \in Errands /\ ui # Idle
         /\ [ui EXCEPT !.at = p] \in [who : Users, at : Errands]
         /\ [ui EXCEPT !.at = p].at = p /\ [ui EXCEPT !.at = p].who = ui.who
         /\ [ui EXCEPT !.at = p] # Idle
<1>1. ui \in [who : Users, at : Errands] /\ ui # Idle
  BY DEF ProcessorInv, ProcessorTypeOK, Errands, Idle
<1>2. [ui EXCEPT !.at = p] \in [who : Users, at : Errands]
  BY <1>1
<1>3. /\ [ui EXCEPT !.at = p].at = p /\ [ui EXCEPT !.at = p].who = ui.who
  BY <1>1
<1>4. [ui EXCEPT !.at = p].at # Idle.at
  BY <1>3 DEF Errands, Idle
<1>5. QED
  BY <1>1, <1>2, <1>3, <1>4

\* A list with nobody in it.
LEMMA EmptyList == ASSUME NEW s \in Seq(Users), ToSet(s) = {} PROVE s = <<>>
<1>1. Len(s) \in Nat /\ DOMAIN s = 1 .. Len(s)
  OBVIOUS
<1>2. Len(s) >= 1 => s[1] \in ToSet(s)
  BY <1>1 DEF ToSet
<1>3. QED
  BY <1>1, <1>2

\* Who is counted is a finite set.
LEMMA FewUsers ==
  ASSUME NEW A \in SUBSET Users
  PROVE  /\ IsFiniteSet(A) /\ Cardinality(A) \in 0 .. Cardinality(Users)
         /\ Cardinality(A) = 0 <=> A = {}
         /\ \A u \in Users \ A : Cardinality(A \cup {u}) = Cardinality(A) + 1
<1>1. IsFiniteSet(A) /\ Cardinality(A) <= Cardinality(Users)
  BY UserAssumption, FS_Subset
<1>2. Cardinality(A) \in Nat /\ Cardinality(Users) \in Nat
  BY <1>1, UserAssumption, FS_CardinalityType
<1>3. QED
  BY <1>1, <1>2, FS_EmptySet, FS_AddElement

\* The threads are started by the first user, and the lists are empty then.
LEMMA StartInv == ASSUME ProcessorInv, NEW u \in Users, Start(u) PROVE ProcessorInv'
<1>0. /\ ui = Idle /\ u \notin open /\ ui' = [who |-> u, at |-> "mic"] /\ dialogs' = dialogs + 1
      /\ UNCHANGED <<card, micq, spkq, open, live, cond, counter, node>>
  BY DEF Start, threadVars, queueVars
<1>1. /\ ui.at = "idle" /\ ui.who = NoUser /\ ui'.at = "mic" /\ ui'.who = u /\ ui' # Idle
  BY <1>0 DEF Idle
<1>2. /\ mics \in Seq(Users) /\ spks \in Seq(Users) /\ open \in SUBSET Users /\ Round \in Nat /\ Round > 0
  BY ProcessorTypes
<1>3. dialogs = Cardinality(open) /\ ToSet(mics) = open /\ live = open /\ ToSet(spks) = open
  <2>1. open \cup {} = open
    OBVIOUS
  <2>2. dialogs = Cardinality(open)
    BY <1>1, <2>1 DEF ProcessorInv, CountInv, Busy
  <2>3. ToSet(mics) = open /\ live = open /\ ToSet(spks) = open
    BY <1>1 DEF ProcessorInv, ListInv, Busy
  <2>4. QED
    BY <2>2, <2>3
<1>4. CountInv'
  <2>1. Busy({"mic", "spk", "test", "freemic", "unrefmic", "freespk", "unrefspk", "leave"})' = {u}
    BY <1>1 DEF Busy
  <2>2. dialogs' = Cardinality(open \cup {u})
    BY <1>0, <1>2, <1>3, FewUsers
  <2>3. QED
    BY <1>0, <1>1, <2>1, <2>2 DEF CountInv
<1>5. dialogs' \in 0 .. Cardinality(Users)
  <2>1. dialogs' = Cardinality(open \cup {u}) /\ open \cup {u} \in SUBSET Users
    BY <1>0, <1>2, <1>3, FewUsers
  <2>2. QED
    BY <2>1, FewUsers
<1>6. dialogs = 0 => open = {} /\ mics = <<>> /\ spks = <<>> /\ place = "none" /\ node = NoUser
  <2> SUFFICES ASSUME dialogs = 0 PROVE open = {} /\ mics = <<>> /\ spks = <<>> /\ place = "none" /\ node = NoUser
    OBVIOUS
  <2>1. open = {}
    BY <1>2, <1>3, FewUsers
  <2>2. mics = <<>> /\ spks = <<>>
    BY <1>2, <1>3, <2>1, EmptyList
  <2>3. place = "none"
    BY <1>0, <2>1 DEF ProcessorInv, CountInv
  <2>4. QED
    BY <2>1, <2>2, <2>3 DEF ProcessorInv, ThreadInv
<1>7. mics' = mics /\ spks' = spks
  BY <1>6 DEF Start, queueVars
<1>8. ProcessorTypeOK'
  <2>1. /\ place' \in {"none", "loop", "read", "rest", "push", "pop", "write"}
        /\ process' \in BOOLEAN /\ block' \in 0 .. Round - 1
    <3>1. CASE dialogs = 0
      BY <1>2, <3>1 DEF Start
    <3>2. CASE dialogs # 0
      BY <3>2 DEF Start, threadVars, ProcessorInv, ProcessorTypeOK
    <3>3. QED
      BY <3>1, <3>2
  <2>2. ui' \in [who : Users, at : {"mic", "spk", "test", "freemic", "unrefmic", "freespk",
                                    "unrefspk", "leave", "join"}]
    BY <1>0
  <2>3. QED
    BY <1>0, <1>5, <1>7, <2>1, <2>2 DEF ProcessorInv, ProcessorTypeOK
<1>9. ListInv'
  <2>1. \A at : "mic" \notin at => Busy(at)' = {}
    BY <1>1 DEF Busy
  <2>2. QED
    BY <1>0, <1>1, <1>3, <1>7, <2>1 DEF ProcessorInv, ListInv
<1>10. ThreadInv' /\ BlockInv'
  <2>1. CASE dialogs = 0
    <3>1. place' = "loop" /\ mics' = <<>> /\ node' = NoUser
      BY <1>0, <1>6, <1>7, <2>1 DEF Start
    <3>2. ThreadInv'
      BY <3>1 DEF ThreadInv
    <3>3. BlockInv'
      BY <1>0, <3>1 DEF ProcessorInv, BlockInv
    <3>4. QED
      BY <3>2, <3>3
  <2>2. CASE dialogs # 0
    <3>1. UNCHANGED <<place, block, counter, node, mics, spks, micq>>
      BY <1>0, <1>7, <2>2 DEF Start, threadVars
    <3>2. QED
      BY <3>1 DEF ProcessorInv, ThreadInv, BlockInv
  <2>3. QED
    BY <2>1, <2>2
<1>11. QED
  BY <1>4, <1>8, <1>9, <1>10 DEF ProcessorInv

\* A queue is added for a consumer, which has no block in it yet.
LEMMA CreateMicInv == ASSUME ProcessorInv, CreateMic PROVE ProcessorInv'
<1>0. /\ ui.at = "mic" /\ place \notin {"read", "rest", "push"}
      /\ mics' = Append(mics, ui.who) /\ live' = live \cup {ui.who}
      /\ UNCHANGED <<place, process, cond, block, counter, node, card, spks, micq, spkq, dialogs, open>>
  BY DEF CreateMic, threadVars, MicLocked
<1>1. PICK p \in {"spk", "test"} : ui' = [ui EXCEPT !.at = p]
  BY DEF CreateMic
<1>2. /\ ui.who \in Users /\ ui' \in [who : Users, at : Errands]
      /\ ui'.at = p /\ ui'.who = ui.who /\ ui' # Idle
  BY <1>0, <1>1, GoesOn DEF Errands
<1>3. mics \in Seq(Users) /\ live \in SUBSET Users
  BY ProcessorTypes
<1>4. ToSet(mics) = open /\ live = open /\ ToSet(spks) \subseteq open /\ ui.who \notin open
  BY <1>0 DEF ProcessorInv, ListInv, Busy
<1>5. /\ mics' \in Seq(Users) /\ Len(mics') = Len(mics) + 1
      /\ \A i \in 1 .. Len(mics) : mics'[i] = mics[i]
      /\ mics'[Len(mics) + 1] = ui.who
      /\ ToSet(mics') = ToSet(mics) \cup {ui.who}
      /\ NoRepeat(mics')
  BY <1>0, <1>2, <1>3, <1>4, SetAppended DEF ProcessorInv, ListInv
<1>6. ProcessorTypeOK'
  BY <1>0, <1>2, <1>3, <1>5 DEF ProcessorInv, ProcessorTypeOK, Errands
<1>7. ListInv'
  <2>1. /\ Busy({"spk", "test", "freemic"})' = {ui.who}
        /\ Busy({"spk", "test", "freemic", "unrefmic"})' = {ui.who}
    BY <1>2 DEF Busy
  <2>2. \A v \in Users \ live' : micq'[v] = <<>>
    BY <1>0 DEF ProcessorInv, ListInv
  <2>3. NoRepeat(spks') /\ open' \subseteq ToSet(spks') /\ ToSet(spks') \subseteq open'
    BY <1>0, <1>4 DEF ProcessorInv, ListInv
  <2>4. QED
    BY <1>0, <1>2, <1>4, <1>5, <2>1, <2>2, <2>3 DEF ListInv
<1>8. CountInv'
  BY <1>0, <1>2 DEF ProcessorInv, CountInv, Busy
<1>9. ThreadInv'
  BY <1>0 DEF ProcessorInv, ThreadInv
<1>10. BlockInv'
  <2>1. micq[ui.who] = <<>>
    BY <1>2, <1>4 DEF ProcessorInv, ListInv
  <2>2. Len(mics) \in Nat
    BY <1>3
  <2>3. ASSUME NEW i \in 1 .. Len(mics'), micq[mics'[i]] # <<>> PROVE Last(micq[mics'[i]]) = block
    <3>1. i \in 1 .. Len(mics) /\ mics'[i] = mics[i]
      BY <1>5, <2>1, <2>2, <2>3
    <3>2. QED
      BY <1>0, <2>3, <3>1 DEF ProcessorInv, BlockInv
  <2>4. QED
    BY <1>0, <2>3 DEF ProcessorInv, BlockInv
<1>11. QED
  BY <1>6, <1>7, <1>8, <1>9, <1>10 DEF ProcessorInv

\* One is added for a producer, and its session has started.
LEMMA CreateSpkInv == ASSUME ProcessorInv, CreateSpk PROVE ProcessorInv'
<1>0. /\ ui.at = "spk" /\ place \notin {"pop", "write"} /\ spks' = Append(spks, ui.who)
      /\ open' = open \cup {ui.who} /\ ui' = Idle
      /\ UNCHANGED <<place, process, cond, block, counter, node, card, mics, live, micq, spkq, dialogs>>
  BY DEF CreateSpk, threadVars, SpkLocked
<1>1. ui.who \in Users /\ ui'.at = "idle" /\ ui'.who = NoUser /\ NoUser \notin Users
  BY <1>0, GoesOn, UserAssumption DEF Idle, Errands
<1>2. spks \in Seq(Users) /\ open \in SUBSET Users
  BY ProcessorTypes
<1>3. /\ ToSet(mics) = open \cup {ui.who} /\ live = open \cup {ui.who}
      /\ ToSet(spks) = open /\ ui.who \notin open
  BY <1>0 DEF ProcessorInv, ListInv, Busy
<1>4. spks' \in Seq(Users) /\ ToSet(spks') = ToSet(spks) \cup {ui.who} /\ NoRepeat(spks')
  BY <1>0, <1>1, <1>2, <1>3, SetAppended DEF ProcessorInv, ListInv
<1>5. ProcessorTypeOK'
  BY <1>0, <1>1, <1>2, <1>4 DEF ProcessorInv, ProcessorTypeOK
<1>6. \A at : "idle" \notin at => Busy(at)' = {}
  BY <1>1 DEF Busy
<1>7. ListInv'
  BY <1>0, <1>1, <1>2, <1>3, <1>4, <1>6 DEF ProcessorInv, ListInv
<1>8. CountInv'
  <2>1. dialogs = Cardinality(open \cup {ui.who})
    BY <1>0 DEF ProcessorInv, CountInv, Busy
  <2>2. open' \cup {} = open \cup {ui.who} /\ open' # {}
    BY <1>0
  <2>3. Busy({"mic", "spk", "test", "freemic", "unrefmic", "freespk", "unrefspk", "leave"})' = {}
    BY <1>1 DEF Busy
  <2>4. QED
    BY <1>0, <2>1, <2>2, <2>3 DEF CountInv
<1>9. ThreadInv' /\ BlockInv'
  BY <1>0 DEF ProcessorInv, ThreadInv, BlockInv
<1>10. QED
  BY <1>5, <1>7, <1>8, <1>9 DEF ProcessorInv

\* The interface takes the blocks of the queue it measures.
LEMMA MeasureInv == ASSUME ProcessorInv, Measure PROVE ProcessorInv'
<1>0. /\ ui.at = "test" /\ micq[ui.who] # <<>> /\ micq' = [micq EXCEPT ![ui.who] = Tail(@)]
      /\ UNCHANGED <<place, process, cond, block, counter, node, card, mics, spks, live, spkq, dialogs, open>>
  BY DEF Measure, threadVars, queueVars
<1>1. PICK p \in {"test", "freemic"} : ui' = [ui EXCEPT !.at = p]
  BY DEF Measure
<1>2. ui' \in [who : Users, at : Errands] /\ ui'.at = p /\ ui'.who = ui.who /\ ui' # Idle
  BY <1>0, <1>1, GoesOn DEF Errands
<1>3. ui.who \in live
  BY <1>0 DEF ProcessorInv, ListInv, Busy
<1>4. micq' \in [Users -> Seq(Blocks)] /\ BlockInv' /\ \A v \in Users \ live' : micq'[v] = <<>>
  BY <1>0, <1>3, BlockTaken
<1>5. ProcessorTypeOK'
  BY <1>0, <1>2, <1>4 DEF ProcessorInv, ProcessorTypeOK, Blocks, Errands
<1>6. /\ Busy({"spk", "test", "freemic"})' = Busy({"spk", "test", "freemic"})
      /\ Busy({"spk", "test", "freemic", "unrefmic"})' = Busy({"spk", "test", "freemic", "unrefmic"})
      /\ ToSet(spks) \subseteq open
  BY <1>0, <1>2 DEF ProcessorInv, ListInv, Busy
<1>7. ListInv'
  BY <1>0, <1>2, <1>4, <1>6 DEF ProcessorInv, ListInv
<1>8. CountInv'
  BY <1>0, <1>2 DEF ProcessorInv, CountInv, Busy
<1>9. ThreadInv'
  BY <1>0 DEF ProcessorInv, ThreadInv
<1>10. QED
  BY <1>4, <1>5, <1>7, <1>8, <1>9 DEF ProcessorInv

\* A session ends: its queues are still in the lists.
LEMMA CloseInv == ASSUME ProcessorInv, NEW u \in Users, Close(u) PROVE ProcessorInv'
<1>0. /\ ui = Idle /\ u \in open /\ open' = open \ {u} /\ ui' = [who |-> u, at |-> "freemic"]
      /\ UNCHANGED <<place, process, cond, block, counter, node, card, mics, spks, live, micq, spkq, dialogs>>
  BY DEF Close, threadVars, queueVars
<1>1. ui.at = "idle" /\ ui'.at = "freemic" /\ ui'.who = u /\ ui' # Idle
  BY <1>0 DEF Idle
<1>2. ToSet(mics) = open /\ live = open /\ ToSet(spks) = open
  BY <1>1 DEF ProcessorInv, ListInv, Busy
<1>3. ProcessorTypeOK'
  BY <1>0 DEF ProcessorInv, ProcessorTypeOK
<1>4. ListInv'
  <2>1. /\ Busy({"spk", "test", "freemic"})' = {u}
        /\ Busy({"spk", "test", "freemic", "unrefmic"})' = {u}
        /\ Busy({"freemic", "unrefmic", "freespk"})' = {u}
    BY <1>1 DEF Busy
  <2>2. QED
    BY <1>0, <1>1, <1>2, <2>1 DEF ProcessorInv, ListInv
<1>5. CountInv'
  <2>1. dialogs = Cardinality(open \cup {})
    BY <1>1 DEF ProcessorInv, CountInv, Busy
  <2>2. open \cup {} = open' \cup {u}
    BY <1>0
  <2>3. Busy({"mic", "spk", "test", "freemic", "unrefmic", "freespk", "unrefspk", "leave"})' = {u}
    BY <1>1 DEF Busy
  <2>4. QED
    BY <1>0, <1>1, <2>1, <2>2, <2>3 DEF CountInv
<1>6. ThreadInv' /\ BlockInv'
  BY <1>0 DEF ProcessorInv, ThreadInv, BlockInv
<1>7. QED
  BY <1>3, <1>4, <1>5, <1>6 DEF ProcessorInv

\* The entry of a consumer leaves the list, and its queue is still there.
LEMMA FreeMicInv == ASSUME ProcessorInv, FreeMic PROVE ProcessorInv'
<1>0. /\ ui.at = "freemic" /\ place \notin {"read", "rest", "push"}
      /\ mics' = RemoveFirst(mics, ui.who) /\ ui' = [ui EXCEPT !.at = "unrefmic"]
      /\ UNCHANGED <<place, process, cond, block, counter, node, card, spks, live, micq, spkq, dialogs, open>>
  BY DEF FreeMic, threadVars, MicLocked
<1>1. /\ ui.who \in Users /\ ui' \in [who : Users, at : Errands]
      /\ ui'.at = "unrefmic" /\ ui'.who = ui.who /\ ui' # Idle
  BY <1>0, GoesOn DEF Errands
<1>2. mics \in Seq(Users) /\ NoRepeat(mics)
  BY ProcessorTypes DEF ProcessorInv, ListInv
<1>3. /\ ToSet(mics) = open \cup {ui.who} /\ live = open \cup {ui.who} /\ ui.who \notin open
      /\ open \subseteq ToSet(spks) /\ ToSet(spks) \subseteq open \cup {ui.who}
  BY <1>0 DEF ProcessorInv, ListInv, Busy
<1>4. mics' \in Seq(Users) /\ NoRepeat(mics') /\ ToSet(mics') = ToSet(mics) \ {ui.who}
  BY <1>0, <1>2, SetRemoved
<1>5. ProcessorTypeOK'
  BY <1>0, <1>1, <1>4 DEF ProcessorInv, ProcessorTypeOK, Errands
<1>6. ListInv'
  <2>1. /\ Busy({"spk", "test", "freemic"})' = {}
        /\ Busy({"spk", "test", "freemic", "unrefmic"})' = {ui.who}
        /\ Busy({"freemic", "unrefmic", "freespk"})' = {ui.who}
    BY <1>1 DEF Busy
  <2>2. QED
    BY <1>0, <1>1, <1>3, <1>4, <2>1 DEF ProcessorInv, ListInv
<1>7. CountInv'
  BY <1>0, <1>1 DEF ProcessorInv, CountInv, Busy
<1>8. ThreadInv'
  BY <1>0 DEF ProcessorInv, ThreadInv
<1>9. BlockInv'
  <2>1. ASSUME NEW i \in 1 .. Len(mics'), micq[mics'[i]] # <<>> PROVE Last(micq[mics'[i]]) = block
    <3>1. mics'[i] \in ToSet(mics)
      <4>1. DOMAIN mics' = 1 .. Len(mics')
        BY <1>4
      <4>2. mics'[i] \in ToSet(mics')
        BY <4>1 DEF ToSet
      <4>3. QED
        BY <1>4, <4>2
    <3>2. PICK j \in 1 .. Len(mics) : mics[j] = mics'[i]
      BY <1>2, <3>1 DEF ToSet
    <3>3. QED
      BY <1>0, <2>1, <3>2 DEF ProcessorInv, BlockInv
  <2>2. QED
    BY <1>0, <2>1 DEF ProcessorInv, BlockInv
<1>10. QED
  BY <1>5, <1>6, <1>7, <1>8, <1>9 DEF ProcessorInv

\* Its queue is freed, with what was in it.
LEMMA UnrefMicInv == ASSUME ProcessorInv, UnrefMic PROVE ProcessorInv'
<1>0. /\ ui.at = "unrefmic" /\ live' = live \ {ui.who} /\ micq' = [micq EXCEPT ![ui.who] = <<>>]
      /\ ui' = [ui EXCEPT !.at = IF ui.who \in ToSet(spks) THEN "freespk" ELSE "leave"]
      /\ UNCHANGED <<place, process, cond, block, counter, node, card, mics, spks, spkq, dialogs, open>>
  BY DEF UnrefMic, threadVars
<1> DEFINE p == IF ui.who \in ToSet(spks) THEN "freespk" ELSE "leave"
<1>1. p \in Errands /\ p \in {"freespk", "leave"} /\ (p = "leave" => ui.who \notin ToSet(spks))
  BY DEF Errands
<1>2. /\ ui.who \in Users /\ ui' \in [who : Users, at : Errands]
      /\ ui'.at = p /\ ui'.who = ui.who /\ ui' # Idle
  <2> HIDE DEF p
  <2>1. ui' = [ui EXCEPT !.at = p]
    BY <1>0 DEF p
  <2>2. QED
    BY <1>0, <1>1, <2>1, GoesOn
<1> HIDE DEF p
<1>3. micq \in [Users -> Seq(Blocks)] /\ <<>> \in Seq(Blocks) /\ mics \in Seq(Users)
  BY DEF ProcessorInv, ProcessorTypeOK, Blocks
<1>4. /\ micq' \in [Users -> Seq(Blocks)] /\ micq'[ui.who] = <<>>
      /\ \A v \in Users : v # ui.who => micq'[v] = micq[v]
  BY <1>0, <1>2, <1>3
<1>5. /\ ToSet(mics) = open /\ live = open \cup {ui.who} /\ ui.who \notin open
      /\ open \subseteq ToSet(spks) /\ ToSet(spks) \subseteq open \cup {ui.who}
  BY <1>0 DEF ProcessorInv, ListInv, Busy
<1>6. ProcessorTypeOK'
  BY <1>0, <1>2, <1>4 DEF ProcessorInv, ProcessorTypeOK, Errands, Blocks
<1>7. ListInv'
  <2>1. /\ Busy({"spk", "test", "freemic"})' = {}
        /\ Busy({"spk", "test", "freemic", "unrefmic"})' = {}
        /\ Busy({"freemic", "unrefmic", "freespk"})' = IF p = "freespk" THEN {ui.who} ELSE {}
    BY <1>1, <1>2 DEF Busy
  <2>2. ToSet(spks') \subseteq open' \cup Busy({"freemic", "unrefmic", "freespk"})'
    BY <1>0, <1>1, <1>5, <2>1
  <2>3. \A v \in Users \ live' : micq'[v] = <<>>
    BY <1>0, <1>4 DEF ProcessorInv, ListInv
  <2>4. NoRepeat(mics') /\ NoRepeat(spks') /\ open' \subseteq ToSet(spks') /\ ToSet(mics') = open' /\ live' = open'
    BY <1>0, <1>5 DEF ProcessorInv, ListInv
  <2>5. QED
    BY <1>0, <1>2, <1>5, <2>1, <2>2, <2>3, <2>4 DEF ListInv
<1>8. CountInv'
  BY <1>0, <1>1, <1>2 DEF ProcessorInv, CountInv, Busy
<1>9. ThreadInv'
  BY <1>0 DEF ProcessorInv, ThreadInv
<1>10. BlockInv'
  <2>1. \A v \in Users : Follow(micq'[v])
    <3>1. Follow(<<>>)
      BY DEF Follow
    <3>2. QED
      BY <1>2, <1>4, <3>1 DEF ProcessorInv, BlockInv
  <2>2. \A i \in 1 .. Len(mics) : mics[i] \in Users /\ mics[i] # ui.who
    BY <1>3, <1>5 DEF ToSet
  <2>3. \A i \in 1 .. Len(mics) : micq'[mics[i]] = micq[mics[i]]
    BY <1>4, <2>2
  <2>4. QED
    BY <1>0, <2>1, <2>3 DEF ProcessorInv, BlockInv
<1>11. QED
  BY <1>6, <1>7, <1>8, <1>9, <1>10 DEF ProcessorInv

\* The entry of a producer leaves its list.
LEMMA FreeSpkInv == ASSUME ProcessorInv, FreeSpk PROVE ProcessorInv'
<1>0. /\ ui.at = "freespk" /\ place \notin {"pop", "write"}
      /\ spks' = RemoveFirst(spks, ui.who) /\ ui' = [ui EXCEPT !.at = "unrefspk"]
      /\ UNCHANGED <<place, process, cond, block, counter, node, card, mics, live, micq, spkq, dialogs, open>>
  BY DEF FreeSpk, threadVars, SpkLocked
<1>1. /\ ui.who \in Users /\ ui' \in [who : Users, at : Errands]
      /\ ui'.at = "unrefspk" /\ ui'.who = ui.who /\ ui' # Idle
  BY <1>0, GoesOn DEF Errands
<1>2. spks \in Seq(Users) /\ NoRepeat(spks)
  BY ProcessorTypes DEF ProcessorInv, ListInv
<1>3. /\ ToSet(mics) = open /\ live = open /\ ui.who \notin open
      /\ open \subseteq ToSet(spks) /\ ToSet(spks) \subseteq open \cup {ui.who}
  BY <1>0 DEF ProcessorInv, ListInv, Busy
<1>4. spks' \in Seq(Users) /\ NoRepeat(spks') /\ ToSet(spks') = ToSet(spks) \ {ui.who}
  BY <1>0, <1>2, SetRemoved
<1>5. ProcessorTypeOK'
  BY <1>0, <1>1, <1>4 DEF ProcessorInv, ProcessorTypeOK, Errands
<1>6. ListInv'
  <2>1. /\ Busy({"spk", "test", "freemic"})' = {}
        /\ Busy({"spk", "test", "freemic", "unrefmic"})' = {}
        /\ Busy({"freemic", "unrefmic", "freespk"})' = {}
    BY <1>1 DEF Busy
  <2>2. QED
    BY <1>0, <1>1, <1>3, <1>4, <2>1 DEF ProcessorInv, ListInv
<1>7. CountInv'
  BY <1>0, <1>1 DEF ProcessorInv, CountInv, Busy
<1>8. ThreadInv' /\ BlockInv'
  BY <1>0 DEF ProcessorInv, ThreadInv, BlockInv
<1>9. QED
  BY <1>5, <1>6, <1>7, <1>8 DEF ProcessorInv

\* Its queue is freed.
LEMMA UnrefSpkInv == ASSUME ProcessorInv, UnrefSpk PROVE ProcessorInv'
<1>0. /\ ui.at = "unrefspk" /\ spkq' = [spkq EXCEPT ![ui.who] = 0]
      /\ ui' = [ui EXCEPT !.at = "leave"]
      /\ UNCHANGED <<place, process, cond, block, counter, node, card, mics, spks, live, micq, dialogs, open>>
  BY DEF UnrefSpk, threadVars, queueVars
<1>1. /\ ui.who \in Users /\ ui' \in [who : Users, at : Errands]
      /\ ui'.at = "leave" /\ ui'.who = ui.who /\ ui' # Idle
  BY <1>0, GoesOn DEF Errands
<1>2. spkq' \in [Users -> 0 .. MaxQueue]
  <2>1. spkq \in [Users -> 0 .. MaxQueue] /\ 0 \in 0 .. MaxQueue
    BY BoundAssumption DEF ProcessorInv, ProcessorTypeOK
  <2>2. QED
    BY <1>0, <2>1
<1>3. ProcessorTypeOK'
  BY <1>0, <1>1, <1>2 DEF ProcessorInv, ProcessorTypeOK, Errands
<1>4. ListInv' /\ CountInv'
  BY <1>0, <1>1 DEF ProcessorInv, ListInv, CountInv, Busy
<1>5. ThreadInv' /\ BlockInv'
  BY <1>0 DEF ProcessorInv, ThreadInv, BlockInv
<1>6. QED
  BY <1>3, <1>4, <1>5 DEF ProcessorInv

\* The last user always joins the thread: nobody has a queue any more.
LEMMA LeaveInv == ASSUME ProcessorInv, Leave PROVE ProcessorInv'
<1>0. /\ ui.at = "leave" /\ dialogs' = dialogs - 1 /\ process' \in {FALSE, process}
      /\ UNCHANGED <<place, cond, block, counter, node, card, mics, spks, live, micq, spkq, open>>
  BY DEF Leave, queueVars
<1>1. ui.who \in Users /\ ui.who \notin open
  BY <1>0, GoesOn DEF Errands, ProcessorInv, ListInv
<1>2. mics \in Seq(Users) /\ spks \in Seq(Users) /\ open \in SUBSET Users
  BY ProcessorTypes
<1>3. ToSet(mics) = open /\ live = open /\ ToSet(spks) = open
  BY <1>0 DEF ProcessorInv, ListInv, Busy
<1>4. dialogs' = Cardinality(open) /\ dialogs' \in 0 .. Cardinality(Users)
  <2>1. dialogs = Cardinality(open \cup {ui.who})
    BY <1>0 DEF ProcessorInv, CountInv, Busy
  <2>2. Cardinality(open \cup {ui.who}) = Cardinality(open) + 1 /\ Cardinality(open) \in 0 .. Cardinality(Users)
    BY <1>1, <1>2, FewUsers
  <2>3. Cardinality(Users) \in Nat
    BY UserAssumption, FS_CardinalityType
  <2>4. QED
    BY <1>0, <2>1, <2>2, <2>3
<1>5. /\ ui' = Idle \/ ui' \in [who : Users, at : Errands]
      /\ ui'.at \in {"idle", "join"} /\ ui'.who \notin open
      /\ ui' = Idle => open # {}
  <2>1. CASE dialogs' = 0 /\ mics = <<>> /\ spks = <<>>
    <3>1. ui' = [ui EXCEPT !.at = "join"]
      BY <2>1 DEF Leave
    <3>2. QED
      BY <1>0, <1>1, <3>1, GoesOn DEF Errands
  <2>2. CASE ~(dialogs' = 0 /\ mics = <<>> /\ spks = <<>>)
    <3>1. ui' = Idle
      BY <2>2 DEF Leave
    <3>2. open # {}
      <4>1. open = {} => dialogs' = 0 /\ mics = <<>> /\ spks = <<>>
        BY <1>2, <1>3, <1>4, EmptyList, FewUsers
      <4>2. QED
        BY <2>2, <4>1
    <3>3. ui'.at = "idle" /\ ui'.who = NoUser /\ NoUser \notin open
      BY <1>2, <3>1, UserAssumption DEF Idle
    <3>4. QED
      BY <3>1, <3>2, <3>3
  <2>3. QED
    BY <2>1, <2>2
<1>6. ProcessorTypeOK'
  <2>1. process' \in BOOLEAN
    BY <1>0 DEF ProcessorInv, ProcessorTypeOK
  <2>2. ui' = Idle \/ ui' \in [who : Users, at : {"mic", "spk", "test", "freemic", "unrefmic", "freespk",
                                                  "unrefspk", "leave", "join"}]
    BY <1>5 DEF Errands
  <2>3. QED
    BY <1>0, <1>4, <2>1, <2>2 DEF ProcessorInv, ProcessorTypeOK
<1>7. ListInv'
  <2>1. /\ Busy({"spk", "test", "freemic"})' = {}
        /\ Busy({"spk", "test", "freemic", "unrefmic"})' = {}
        /\ Busy({"freemic", "unrefmic", "freespk"})' = {}
    BY <1>5 DEF Busy
  <2>2. QED
    BY <1>0, <1>3, <1>5, <2>1 DEF ProcessorInv, ListInv
<1>8. CountInv'
  <2>1. Busy({"mic", "spk", "test", "freemic", "unrefmic", "freespk", "unrefspk", "leave"})' = {}
    BY <1>5 DEF Busy
  <2>2. open' \cup {} = open
    BY <1>0
  <2>3. QED
    BY <1>0, <1>4, <1>5, <2>1, <2>2 DEF CountInv
<1>9. ThreadInv' /\ BlockInv'
  BY <1>0 DEF ProcessorInv, ThreadInv, BlockInv
<1>10. QED
  BY <1>6, <1>7, <1>8, <1>9 DEF ProcessorInv

\* The thread has ended, and a user may start it again.
LEMMA JoinInv == ASSUME ProcessorInv, Join PROVE ProcessorInv'
<1>0. /\ ui.at = "join" /\ place = "none" /\ ui' = Idle
      /\ UNCHANGED <<place, process, cond, block, counter, node, card, mics, spks, live, micq, spkq, dialogs, open>>
  BY DEF Join, threadVars, queueVars
<1>1. ui'.at = "idle" /\ ui'.who \notin open
  BY <1>0, UserAssumption DEF Idle, ProcessorInv, ProcessorTypeOK
<1>2. ProcessorTypeOK'
  BY <1>0 DEF ProcessorInv, ProcessorTypeOK
<1>3. ListInv' /\ CountInv'
  BY <1>0, <1>1 DEF ProcessorInv, ListInv, CountInv, Busy
<1>4. ThreadInv' /\ BlockInv'
  BY <1>0 DEF ProcessorInv, ThreadInv, BlockInv
<1>5. QED
  BY <1>2, <1>3, <1>4 DEF ProcessorInv

-----------------------------------------------------------------------------
\* Whoever comes and goes, the thread and the interface agree on the lists, the
\* queues and the users of the processor (ProcessorInv), audio_processor.c.
THEOREM ProcessorInductive == ProcessorSpec => []ProcessorInv
<1>1. ASSUME ProcessorInit PROVE ProcessorInv
  <2>0. ui.at = "idle" /\ ui.who = NoUser /\ mics = <<>> /\ spks = <<>> /\ Round \in Nat /\ Round > 0 /\ MaxQueue \in Nat
    BY <1>1, BoundAssumption DEF ProcessorInit, Idle
  <2>1. Cardinality(Users) \in Nat /\ Cardinality({}) = 0
    BY UserAssumption, FS_CardinalityType, FS_EmptySet
  <2>2. ProcessorTypeOK
    <3>1. <<>> \in Seq(0 .. Round - 1) /\ <<>> \in Seq(Users)
      OBVIOUS
    <3>2. micq \in [Users -> Seq(0 .. Round - 1)] /\ spkq \in [Users -> 0 .. MaxQueue]
      BY <1>1, <2>0, <3>1 DEF ProcessorInit
    <3>3. 0 \in 0 .. Block /\ 0 \in 0 .. Round - 1 /\ 0 \in 0 .. Samples + 1 /\ 0 \in 0 .. Cardinality(Users)
      BY <2>0, <2>1, BlockAssumption, SamplesAssumption
    <3>4. mics \in Seq(Users) /\ spks \in Seq(Users)
      BY <1>1, <3>1 DEF ProcessorInit
    <3>5. QED
      BY <1>1, <3>2, <3>3, <3>4 DEF ProcessorInit, ProcessorTypeOK
  <2>3. ListInv
    <3>1. ToSet(mics) = {} /\ ToSet(spks) = {} /\ NoRepeat(mics) /\ NoRepeat(spks)
      BY <2>0 DEF ToSet, NoRepeat
    <3>2. QED
      BY <1>1, <2>0, <3>1 DEF ProcessorInit, ListInv, Busy
  <2>4. CountInv
    <3>1. open \cup Busy({"mic", "spk", "test", "freemic", "unrefmic", "freespk", "unrefspk", "leave"}) = {}
      BY <1>1, <2>0 DEF ProcessorInit, Busy
    <3>2. QED
      BY <1>1, <2>1, <3>1 DEF ProcessorInit, CountInv
  <2>5. ThreadInv /\ BlockInv
    BY <1>1 DEF ProcessorInit, ThreadInv, BlockInv, Follow
  <2>6. QED
    BY <2>2, <2>3, <2>4, <2>5 DEF ProcessorInv
<1>2. ASSUME ProcessorInv, [ProcessorNext]_processorVars PROVE ProcessorInv'
  <2>1. CASE Thread
    BY <1>2, <2>1, BetweenLists, HandsOut, PushInv, PushEndsInv, PopInv DEF Thread
  <2>2. CASE Interface
    BY <1>2, <2>2, CreateMicInv, CreateSpkInv, MeasureInv, FreeMicInv, UnrefMicInv, FreeSpkInv, UnrefSpkInv,
       LeaveInv, JoinInv DEF Interface
  <2>3. CASE CardFails \/ \E u \in Users : Start(u) \/ Close(u) \/ Take(u) \/ Give(u)
    BY <1>2, <2>3, CardGiveInv, StartInv, CloseInv, TakeInv
  <2>4. CASE UNCHANGED processorVars
    <3>0. UNCHANGED <<place, process, cond, block, counter, node, card, mics, spks, live, micq, spkq,
                      dialogs, open, ui>>
      BY <2>4 DEF processorVars, threadVars, queueVars
    <3>1. ProcessorTypeOK'
      BY <1>2, <3>0 DEF ProcessorInv, ProcessorTypeOK
    <3>2. ListInv' /\ CountInv'
      BY <1>2, <3>0 DEF ProcessorInv, ListInv, CountInv, Busy
    <3>3. ThreadInv' /\ BlockInv'
      BY <1>2, <3>0 DEF ProcessorInv, ThreadInv, BlockInv
    <3>4. QED
      BY <3>1, <3>2, <3>3 DEF ProcessorInv
  <2>5. QED
    BY <1>2, <2>1, <2>2, <2>3, <2>4 DEF ProcessorNext
<1>3. QED
  BY <1>1, <1>2, PTL DEF ProcessorSpec

\* The consumers before the index have the block, the others the one before it.
LEMMA ServedSoFar ==
  ASSUME ProcessorInv, place = "push"
  PROVE  /\ \A u \in Served \ {NoUser} : \E i \in 1 .. Len(mics) : i <= counter /\ mics[i] = u
         /\ \A u \in ToSet(mics) \ Served : \E i \in 1 .. Len(mics) : i > counter /\ mics[i] = u
<1>1. mics \in Seq(Users) /\ Len(mics) \in Nat /\ counter \in Nat /\ DOMAIN mics = 1 .. Len(mics)
  BY ProcessorTypes
<1>2. \A i \in 0 .. counter - 1 : Nth(mics, i) # NoUser => i + 1 \in 1 .. Len(mics) /\ i + 1 <= counter /\ mics[i + 1] = Nth(mics, i)
  BY <1>1, NthIs
<1>3. ASSUME NEW i \in 1 .. Len(mics), i <= counter PROVE \E j \in 0 .. counter - 1 : Nth(mics, j) = mics[i]
  <2>1. i - 1 \in 0 .. counter - 1 /\ i - 1 < Len(mics) /\ (i - 1) + 1 = i /\ i - 1 \in Nat
    BY <1>1, <1>3
  <2>2. Nth(mics, i - 1) = mics[i]
    BY <1>1, <2>1, NthIs
  <2>3. QED
    BY <2>1, <2>2
<1>4. Served = {Nth(mics, i) : i \in 0 .. counter - 1}
  BY DEF Served
<1>5. ASSUME NEW u \in Served \ {NoUser} PROVE \E i \in 1 .. Len(mics) : i <= counter /\ mics[i] = u
  <2>1. PICK i \in 0 .. counter - 1 : Nth(mics, i) = u
    BY <1>4, <1>5
  <2>2. QED
    BY <1>2, <1>5, <2>1
<1>6. ASSUME NEW u \in ToSet(mics) \ Served PROVE \E i \in 1 .. Len(mics) : i > counter /\ mics[i] = u
  <2>1. PICK i \in 1 .. Len(mics) : mics[i] = u
    BY <1>1, <1>6 DEF ToSet
  <2>2. ~(i <= counter)
    BY <1>3, <1>4, <1>6, <2>1
  <2>3. QED
    BY <1>1, <2>1, <2>2
<1>7. QED
  BY <1>5, <1>6

\* Whatever sessions come and go while a block is handed out, the blocks in the
\* queue of each follow each other up to the last (audio_processor_loop), for any
\* number of sessions, any block of the card and any length of the queues.
THEOREM SharedOutToAll == ProcessorSpec => []SharedOut
<1>1. ProcessorInv => SharedOut
  <2> SUFFICES ASSUME ProcessorInv PROVE SharedOut
    OBVIOUS
  <2>1. \A u \in Users : \A i \in 2 .. Len(micq[u]) : micq[u][i] = (micq[u][i - 1] + 1) % Round
    BY DEF ProcessorInv, BlockInv, Follow
  <2>2. counter \in Nat /\ mics \in Seq(Users) /\ DOMAIN mics = 1 .. Len(mics)
    BY ProcessorTypes
  <2>3. ASSUME NEW u \in Served \ {NoUser}, micq[u] # <<>> PROVE Last(micq[u]) = block
    <3>1. PICK i \in 1 .. Len(mics) : mics[i] = u /\ (place = "push" => i <= counter)
      BY <2>2, <2>3, ServedSoFar DEF Served, ToSet
    <3>2. QED
      BY <2>2, <2>3, <3>1 DEF ProcessorInv, BlockInv
  <2>4. ASSUME NEW u \in ToSet(mics) \ Served, micq[u] # <<>> PROVE Last(micq[u]) = (block + Round - 1) % Round
    <3>1. place = "push"
      BY <2>4 DEF Served
    <3>2. PICK i \in 1 .. Len(mics) : mics[i] = u /\ i > counter
      BY <2>4, <3>1, ServedSoFar
    <3>3. QED
      BY <2>4, <3>1, <3>2 DEF ProcessorInv, BlockInv
  <2>5. QED
    BY <2>1, <2>3, <2>4 DEF SharedOut, ProcessorInv
<1>2. QED
  BY <1>1, ProcessorInductive, PTL

\* The queue the thread is about to use is in the list it walks, and is not freed
\* under it (audio_processor_loop_free_mic takes the mutex first).
THEOREM QueuesAreLive == ProcessorSpec => []QueueIsLive
<1>1. ProcessorInv => QueueIsLive
  <2> SUFFICES ASSUME ProcessorInv, node # NoUser PROVE QueueIsLive
    BY DEF QueueIsLive
  <2>1. place \in {"push", "pop"}
    BY DEF ProcessorInv, ThreadInv
  <2>2. /\ mics \in Seq(Users) /\ spks \in Seq(Users) /\ counter \in Nat
        /\ Len(mics) \in Nat /\ Len(spks) \in Nat
        /\ DOMAIN mics = 1 .. Len(mics) /\ DOMAIN spks = 1 .. Len(spks)
    BY ProcessorTypes
  <2>3. ASSUME place = "push" PROVE node \in live /\ node = Nth(mics, counter)
    <3>1. node = Nth(mics, counter)
      BY <2>3 DEF ProcessorInv, ThreadInv
    <3>2. counter + 1 \in 1 .. Len(mics) /\ node = mics[counter + 1]
      BY <2>2, <3>1, NthIs
    <3>3. node \in ToSet(mics)
      BY <2>2, <3>2 DEF ToSet
    <3>4. QED
      BY <3>1, <3>3 DEF ProcessorInv, ListInv, Busy
  <2>4. ASSUME place = "pop" PROVE node \in ToSet(spks)
    <3>1. node = Nth(spks, counter)
      BY <2>4 DEF ProcessorInv, ThreadInv
    <3>2. counter + 1 \in 1 .. Len(spks) /\ node = spks[counter + 1]
      BY <2>2, <3>1, NthIs
    <3>3. QED
      BY <2>2, <3>2 DEF ToSet
  <2>5. QED
    BY <2>1, <2>3, <2>4 DEF QueueIsLive
<1>2. QED
  BY <1>1, ProcessorInductive, PTL
=============================================================================
