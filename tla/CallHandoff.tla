---------------------------- MODULE CallHandoff -----------------------------
(***************************************************************************)
(* How a negotiated call gets from the thread that negotiated it to the    *)
(* interface, which makes a session of it (gui_ssip_neg.c, gui_main.c,     *)
(* gui_main_functions.c).  The threads are the one that answers calls      *)
(* (ssip_process_loop, Server) and one for each call the user makes        *)
(* (ssip_connect_loop, Callers); the user can also connect without         *)
(* negotiation, from the thread of the interface itself.                   *)
(*                                                                         *)
(* session_ready is a slot for one call, with two mutexes.  A thread locks *)
(* mutex_session_ready, then session_ready.mutex, fills the slot and       *)
(* unlocks the first; the second stays locked while the slot is full, and  *)
(* control_sessions, a timer of the interface, unlocks it when it empties  *)
(* the slot.  Everything the interface does, it does with the lock of GDK, *)
(* which the other threads take when they show something.                  *)
(***************************************************************************)
EXTENDS Integers

CONSTANTS
  Server,         \* the thread of ssip_process_loop
  Callers,        \* the threads of ssip_connect_loop
  Gui,            \* the thread of the interface
  Calls,          \* bound of the model: the calls of a run
  NoCall,
  NoThread,
  MaxRestarts,    \* bound of the model: changes of the SSIP configuration
  MaxDialogs      \* bound of the model: open dialogs, one of a noise test included

ASSUME NamesAssumption ==
  /\ Server \notin Callers /\ Gui \notin Callers \cup {Server}
  /\ NoThread \notin Callers \cup {Server, Gui}
  /\ NoCall \notin Calls
  /\ MaxRestarts \in Nat /\ MaxDialogs \in Nat

VARIABLES
  pc,             \* where each thread is
  call,           \* the call a thread has for the slot
  gdk,            \* who has the lock of GDK
  outer,          \* who has mutex_session_ready
  inner,          \* who locked session_ready.mutex
  ready,          \* session_ready.ready
  slot,           \* the call in session_ready; stale unless ready
  control,        \* control_audio_processor
  reject,         \* conection_reject
  questions,      \* the open dialogs of init_audio_processor: how many of each kind
  active,         \* num_users_active_dialogs
  go,             \* go_ssip_process
  restarts,       \* changes of the configuration so far
  fate            \* what became of each call

slotVars == <<inner, ready, slot, fate>>
guiVars == <<control, reject, questions, active>>
goVars == <<go, restarts>>
handoffVars == <<pc, call, gdk, outer, slotVars, guiVars, goVars>>

Negotiators == Callers \cup {Server}
Threads == Negotiators \cup {Gui}

Places == {"idle", "progress", "negotiate", "photo", "error", "gone",     \* of a negotiator
           "loop", "timer", "join",                                      \* of the interface
           "outer", "inner"}                                             \* of both

\* The two callbacks of these dialogs: cb_audio_processor_loop_error, which takes
\* any answer for a refusal, and cb_audio_processor_loop_used.
Kinds == {"error", "used"}
Asked == \E k \in Kinds : questions[k] > 0

\* The values of every variable; the sessions counted are never fewer than none.
HandoffTypeOK ==
  /\ pc \in [Threads -> Places]
  /\ call \in [Threads -> Calls \cup {NoCall}]
  /\ gdk \in {Gui, NoThread}
  /\ outer \in Threads \cup {NoThread}
  /\ inner \in Threads \cup {NoThread}
  /\ ready \in BOOLEAN
  /\ slot \in Calls \cup {NoCall}
  /\ control \in BOOLEAN
  /\ reject \in BOOLEAN
  /\ questions \in [Kinds -> Nat]
  /\ active \in Nat
  /\ go \in BOOLEAN
  /\ restarts \in 0 .. MaxRestarts
  /\ fate \in [Calls -> {"unseen", "put", "session", "failed", "refused"}]

HandoffInit ==
  /\ pc = [t \in Threads |-> IF t = Gui THEN "loop" ELSE "idle"]
  /\ call = [t \in Threads |-> NoCall]
  /\ gdk = NoThread /\ outer = NoThread /\ inner = NoThread
  /\ ready = FALSE /\ slot = NoCall
  /\ control = FALSE /\ reject = FALSE /\ questions = [k \in Kinds |-> 0]
  /\ active = 0
  /\ go = TRUE
  /\ restarts = 0
  /\ fate = [c \in Calls |-> "unseen"]

-----------------------------------------------------------------------------
(* The threads that negotiate. *)

\* No thread has had this call yet.
New(c) == fate[c] = "unseen" /\ \A t \in Threads : call[t] # c

Goto(t, l) == pc' = [pc EXCEPT ![t] = l]

\* After a call the server waits for the next one and a caller's thread ends.
Home(t) == IF t = Gui THEN "loop" ELSE IF t = Server THEN "idle" ELSE "gone"

\* The loop of the server: a connection came, or go_ssip_process is FALSE.
Connection ==
  /\ pc[Server] = "idle" /\ go
  /\ Goto(Server, "negotiate")
  /\ UNCHANGED <<call, gdk, outer, slotVars, guiVars, goVars>>

ServerExits ==
  /\ pc[Server] = "idle" /\ ~go
  /\ Goto(Server, "gone")
  /\ UNCHANGED <<call, gdk, outer, slotVars, guiVars, goVars>>

\* ssip_accept or ssip_connect returned: the two sides agreed, ...
Agreed(t) ==
  /\ pc[t] = "negotiate"
  /\ \E c \in Calls : New(c) /\ call' = [call EXCEPT ![t] = c]
  /\ Goto(t, "photo")
  /\ UNCHANGED <<gdk, outer, slotVars, guiVars, goVars>>

\* ... or they did not.  A caller takes its progress dialog away; the server
\* shows an error, or nothing.
NotAgreed(t) ==
  /\ pc[t] = "negotiate"
  /\ \/ Goto(t, "error")
     \/ t = Server /\ Goto(t, "idle")
  /\ UNCHANGED <<call, gdk, outer, slotVars, guiVars, goVars>>

\* What a thread does to the interface needs the lock of GDK: the progress
\* dialog of a caller, the photo of the other user, the dialog of an error.
\* A caller that finds its configuration incomplete shows that and ends.
Show(t) ==
  /\ pc[t] \in {"progress", "photo", "error"}
  /\ gdk = NoThread
  /\ \/ pc[t] = "progress" /\ Goto(t, "negotiate")
     \/ pc[t] = "photo" /\ Goto(t, "outer")
     \/ pc[t] \in {"progress", "error"} /\ Goto(t, Home(t))
  /\ UNCHANGED <<call, gdk, outer, slotVars, guiVars, goVars>>

-----------------------------------------------------------------------------
(* The slot is filled by a thread that has both mutexes; it keeps the second. *)

LockOuter(t) ==
  /\ pc[t] = "outer"
  /\ outer = NoThread
  /\ outer' = t
  /\ Goto(t, "inner")
  /\ UNCHANGED <<call, gdk, slotVars, guiVars, goVars>>

\* Mutant of LockInner: session_ready has no mutex of its own.
LockInnerUnlocked(t) ==
  /\ pc[t] = "inner"
  /\ inner' = t
  /\ slot' = call[t]
  /\ ready' = TRUE
  /\ fate' = [fate EXCEPT ![call[t]] = "put"]
  /\ outer' = NoThread
  /\ gdk' = IF t = Gui THEN NoThread ELSE gdk
  /\ call' = [call EXCEPT ![t] = NoCall]
  /\ Goto(t, Home(t))
  /\ UNCHANGED <<guiVars, goVars>>

LockInner(t) ==
  /\ pc[t] = "inner"
  /\ inner = NoThread
  /\ inner' = t
  /\ slot' = call[t]
  /\ ready' = TRUE
  /\ fate' = [fate EXCEPT ![call[t]] = "put"]
  /\ outer' = NoThread
  /\ gdk' = IF t = Gui THEN NoThread ELSE gdk
  /\ call' = [call EXCEPT ![t] = NoCall]
  /\ Goto(t, Home(t))
  /\ UNCHANGED <<guiVars, goVars>>

-----------------------------------------------------------------------------
(* The thread of the interface. *)

\* It starts something that may have to wait, and has the lock of GDK.
GuiWaits(l) ==
  /\ pc[Gui] = "loop" /\ gdk = NoThread
  /\ Goto(Gui, l)
  /\ gdk' = Gui

\* The user makes a call, with negotiation: ssip_connect_to starts a thread.
Dial(t) ==
  /\ pc[Gui] = "loop" /\ gdk = NoThread
  /\ pc[t] = "idle"
  /\ Goto(t, "progress")
  /\ UNCHANGED <<call, gdk, outer, slotVars, guiVars, goVars>>

\* Without negotiation, it fills the slot itself.
ConnectTo ==
  /\ GuiWaits("outer")
  /\ \E c \in Calls : New(c) /\ call' = [call EXCEPT ![Gui] = c]
  /\ UNCHANGED <<outer, slotVars, guiVars, goVars>>

\* The timer fires: control_sessions.
Timer ==
  /\ GuiWaits("timer")
  /\ UNCHANGED <<call, outer, slotVars, guiVars, goVars>>

\* Mutant of Settle: the devices stay as they were for the next call.
SettleKeepsControl(f) ==
  /\ ready' = FALSE
  /\ inner' = NoThread
  /\ reject' = FALSE
  /\ fate' = [fate EXCEPT ![slot] = f]
  /\ UNCHANGED <<slot, control>>

\* The call leaves the slot and session_ready.mutex is unlocked.
Settle(f) ==
  /\ ready' = FALSE
  /\ inner' = NoThread
  /\ control' = FALSE
  /\ reject' = FALSE
  /\ fate' = [fate EXCEPT ![slot] = f]
  /\ UNCHANGED slot

\* init_audio_processor found the devices open, or opened them.  When
\* create_session fails it gives the audio processor back.
SessionMade ==
  /\ ready /\ ~control
  /\ \/ Settle("session") /\ active' = active + 1
     \/ Settle("failed") /\ UNCHANGED active
  /\ UNCHANGED questions

OpenDialog(k) == questions' = [questions EXCEPT ![k] = @ + 1]

\* The devices do not open: the call stays until the user has answered.  A
\* refusal from before the call was there is taken for the answer to it.
NoAudio ==
  /\ ready /\ ~control /\ active = 0
  /\ \E k \in Kinds : OpenDialog(k)
  /\ \/ reject /\ Settle("refused")
     \/ ~reject /\ control' = TRUE /\ UNCHANGED <<reject, slotVars>>
  /\ UNCHANGED active

Refuse ==
  /\ ready /\ control /\ reject
  /\ Settle("refused")
  /\ UNCHANGED <<questions, active>>

Nothing ==
  /\ ~ready \/ (control /\ ~reject)
  /\ UNCHANGED <<slotVars, guiVars>>

ControlSessions ==
  /\ pc[Gui] = "timer"
  /\ outer = NoThread
  /\ SessionMade \/ NoAudio \/ Refuse \/ Nothing
  /\ Goto(Gui, "loop")
  /\ gdk' = NoThread
  /\ UNCHANGED <<call, outer, goVars>>

\* toggle_button_vad measures the noise of the room.  Without an audio plugin it
\* opens the dialog of a call, whether there is a call or not; when it fails in
\* another way, its dialog changes nothing.
NoiseTest ==
  /\ pc[Gui] = "loop" /\ gdk = NoThread
  /\ active = 0
  /\ questions["error"] + questions["used"] < MaxDialogs
  /\ OpenDialog("error")
  /\ UNCHANGED <<pc, call, gdk, outer, slotVars, control, reject, active, goVars>>

\* Mutant of Answer: a dialog that is closed is taken for no answer.
AnswerLost(k, ok) ==
  /\ pc[Gui] = "loop" /\ gdk = NoThread
  /\ questions[k] > 0
  /\ questions' = [questions EXCEPT ![k] = @ - 1]
  /\ control' = (control /\ ~(ok /\ k = "used"))
  /\ UNCHANGED <<pc, call, gdk, outer, slotVars, reject, active, goVars>>

\* The user answers one of the dialogs: try again, or refuse the call.  The
\* answer is for the call in the slot, or for the next one that comes, whatever
\* the dialog was opened for.
Answer(k, ok) ==
  /\ pc[Gui] = "loop" /\ gdk = NoThread
  /\ questions[k] > 0
  /\ questions' = [questions EXCEPT ![k] = @ - 1]
  /\ \/ ok /\ k = "used" /\ control' = FALSE /\ UNCHANGED reject
     \/ ~(ok /\ k = "used") /\ reject' = TRUE /\ UNCHANGED control
  /\ UNCHANGED <<pc, call, gdk, outer, slotVars, active, goVars>>

\* A session ends.
Hangup ==
  /\ pc[Gui] = "loop" /\ gdk = NoThread
  /\ active > 0
  /\ active' = active - 1
  /\ UNCHANGED <<pc, call, gdk, outer, slotVars, control, reject, questions, goVars>>

\* The SSIP configuration changes: ssip_process_loop_destroy joins the server,
\* and ssip_process_loop_create starts it again.
Configure ==
  /\ GuiWaits("join")
  /\ restarts < MaxRestarts
  /\ restarts' = restarts + 1
  /\ go' = FALSE
  /\ UNCHANGED <<call, outer, slotVars, guiVars>>

Joined ==
  /\ pc[Gui] = "join" /\ pc[Server] = "gone"
  /\ go' = TRUE
  /\ pc' = [pc EXCEPT ![Server] = "idle", ![Gui] = "loop"]
  /\ gdk' = NoThread
  /\ UNCHANGED <<call, outer, slotVars, guiVars, restarts>>

-----------------------------------------------------------------------------
ThreadStep(t) == Agreed(t) \/ NotAgreed(t) \/ Show(t) \/ LockOuter(t) \/ LockInner(t)

GuiStep == ControlSessions \/ Joined \/ LockOuter(Gui) \/ LockInner(Gui)

HandoffNext ==
  \/ Connection
  \/ ServerExits
  \/ \E t \in Negotiators : Agreed(t) \/ NotAgreed(t) \/ Show(t)
  \/ \E t \in Threads : LockOuter(t) \/ LockInner(t)
  \/ \E t \in Callers : Dial(t)
  \/ ConnectTo
  \/ Timer
  \/ ControlSessions
  \/ NoiseTest
  \/ \E k \in Kinds, ok \in BOOLEAN : Answer(k, ok)
  \/ Hangup
  \/ Configure
  \/ Joined

HandoffSpec == HandoffInit /\ [][HandoffNext]_handoffVars

\* The threads run, negotiations end and the timer fires; the user answers what
\* is asked, between two timers, and does not retry for ever.
HandoffFairSpec ==
  /\ HandoffSpec
  /\ \A t \in Negotiators : WF_handoffVars(ThreadStep(t))
  /\ WF_handoffVars(ServerExits)
  /\ WF_handoffVars(GuiStep)
  /\ WF_handoffVars(Timer)
  /\ SF_handoffVars(\E k \in Kinds : Answer(k, FALSE))

-----------------------------------------------------------------------------
(* Properties. *)

\* session_ready.mutex is locked exactly while there is a call in the slot,
\* whichever thread locked it and wherever control_sessions unlocked it.
MutexIsSlot == ready <=> inner # NoThread

\* A call that waits for the user (control_audio_processor without
\* conection_reject) is in the slot, and a dialog that settles it is open: not
\* all are answered, taken by another call or closed without a word.
WaitingCallIsAsked ==
  /\ control => ready
  /\ control /\ ~reject => Asked

\* The lock of GDK is held, at rest, only by an interface that waits.
GdkIsHeldToWait == gdk = Gui <=> pc[Gui] # "loop"

\* Every thread at the second mutex has the first one and a call of its own.
CallsApart ==
  /\ \A t \in Threads :
       /\ pc[t] = "inner" <=> outer = t
       /\ pc[t] \in {"photo", "outer", "inner"} <=> call[t] # NoCall
       /\ call[t] # NoCall => fate[call[t]] = "unseen"
  /\ \A t, u \in Threads : call[t] = call[u] /\ t # u => call[t] = NoCall

\* The call in the slot is the one that was put there and not settled yet.
SlotIsPut ==
  /\ ready => slot # NoCall
  /\ \A c \in Calls : fate[c] = "put" <=> (ready /\ slot = c)

\* The inductive invariant behind the refinement.
HandoffInv ==
  HandoffTypeOK /\ MutexIsSlot /\ WaitingCallIsAsked /\ GdkIsHeldToWait /\ CallsApart /\ SlotIsPut

\* The call in the slot; session_ready keeps the old one when it is empty.
Slot == INSTANCE CallSlot WITH slot <- IF ready THEN slot ELSE NoCall
\* The two mutexes and the flags make a slot for one call: no call is
\* overwritten, settled twice or made a session after it was refused.
SlotSpec == Slot!SlotSpec

\* A thread keeps mutex_session_ready while it waits for the slot, and
\* control_sessions, which would empty the slot, waits for that mutex.
Crossed == outer # NoThread /\ inner # NoThread

\* The interface waits for the end of a server that waits for the interface.
CrossedJoin == pc[Gui] = "join" /\ pc[Server] \in {"photo", "error"}

\* A call in the slot becomes a session or is refused, unless the threads wait
\* for one another; nothing else keeps it.
CallIsSettled ==
  \A c \in Calls : fate[c] = "put" ~> (fate[c] # "put" \/ Crossed \/ CrossedJoin)
=============================================================================
