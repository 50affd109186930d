------------------------------ MODULE Sessions ------------------------------
(***************************************************************************)
(* The sessions of the program (gui_session.c, control_sessions of         *)
(* gui_main.c): the list list_session_users, the tabs of the window, the   *)
(* queues a session has in the audio processor, and the count of users     *)
(* that starts and stops the audio processor (gui_main_functions.c).       *)
(*                                                                         *)
(* A session is known by a number, ten times the count of users when it    *)
(* was made; lists are searched for the first entry with a number.  The    *)
(* number here is the count.  Everything is done by the thread of the      *)
(* interface, whose timer runs also while a question waits for its answer. *)
(*                                                                         *)
(* A TSession that was freed reads as it was left; freeing it again stops  *)
(* the program, so such a step is not taken.                               *)
(***************************************************************************)
EXTENDS Naturals, FiniteSets, SequencesExt

CONSTANTS
  Sess,           \* the sessions that can exist at a time, freed ones that are still named included
  Nobody

ASSUME SessAssumption == IsFiniteSet(Sess) /\ Nobody \notin Sess

VARIABLES
  sessions,       \* list_session_users
  id,             \* the number of each session
  alive,          \* the sessions whose TSession is not freed
  mic, spk,       \* list_aqueues_mic and list_aqueues_spk: whose queue each is
  users,          \* num_users_active_dialogs
  processor,      \* the audio processor
  tabs, current,  \* the tabs of notebook_users, by their session, and the one on top
  notified,       \* the sessions that a dialog says are over
  plugins,        \* the session whose plugins are in the window for them
  asking          \* the question of gtk_dialog_run: about which session, and what

listVars == <<sessions, id, alive, mic, spk, users, processor>>
sessionsVars == <<listVars, tabs, current, notified, plugins, asking>>

NotAsking == [who |-> Nobody, what |-> "nothing"]

\* The values of every variable; the tab on top is one that is open, and the
\* count of users, which numbers are made of, stays in its range.
SessionsTypeOK ==
  /\ sessions \in Seq(Sess) /\ Len(sessions) <= Cardinality(Sess)
  /\ id \in [Sess -> 0 .. Cardinality(Sess)]
  /\ alive \subseteq Sess
  /\ mic \in Seq(Sess) /\ spk \in Seq(Sess)
  /\ users \in 0 .. Cardinality(Sess)
  /\ processor \in {"stopped", "running"}
  /\ tabs \subseteq Sess
  /\ current \in tabs \cup {Nobody}
  /\ notified \subseteq Sess
  /\ plugins \in Sess \cup {Nobody}
  /\ asking \in {NotAsking} \cup [who : Sess, what : {"end", "codec"}]

SessionsInit ==
  /\ sessions = <<>> /\ id = [s \in Sess |-> 0] /\ alive = {}
  /\ mic = <<>> /\ spk = <<>>
  /\ users = 0 /\ processor = "stopped"
  /\ tabs = {} /\ current = Nobody
  /\ notified = {} /\ plugins = Nobody /\ asking = NotAsking

-----------------------------------------------------------------------------
(* The first entry of a list with the number of a session leaves it. *)
First(list, n) == list[SelectInSeq(list, LAMBDA s : id[s] = n)]
DropFirst(list, n, ids) == RemoveFirstMatch(list, LAMBDA s : ids[s] = n)

\* Mutant of FreeQueues: the queue of the speaker is forgotten.
FreeQueuesMic(n) ==
  /\ mic' = DropFirst(mic, n, id)
  /\ spk' = spk

\* audio_processor_loop_free_mic and audio_processor_loop_free_spk.
FreeQueues(n) ==
  /\ mic' = DropFirst(mic, n, id)
  /\ spk' = DropFirst(spk, n, id)

\* destroy_audio_processor, after the queues were freed: the last user stops
\* the audio processor, which refuses to stop while it has queues.
LeaveProcessor ==
  /\ users' = users - 1
  /\ processor' = IF users' = 0 /\ mic' = <<>> /\ spk' = <<>> THEN "stopped" ELSE processor

\* The tab on top is closed, whichever it is, and the window shows another.
CloseTab ==
  /\ tabs' = tabs \ {current}
  /\ current' \in IF tabs' = {} THEN {Nobody} ELSE tabs'

\* No part of the program names the session.
Free(s) ==
  /\ s \notin alive \cup tabs \cup notified \cup ToSet(sessions) \cup ToSet(mic) \cup ToSet(spk)
  /\ s \notin {asking.who, plugins}

\* audio_processor_loop_create forgets the queues of the one before it.
Queues(list) == IF users = 0 THEN <<>> ELSE list

\* create_session: the session has its number, its queues, a tab and a place
\* at the end of the list.
NewSession(s) ==
  /\ Free(s)
  /\ users' = users + 1
  /\ processor' = "running"
  /\ id' = [id EXCEPT ![s] = users + 1]
  /\ mic' = Append(Queues(mic), s) /\ spk' = Append(Queues(spk), s)
  /\ sessions' = Append(sessions, s)
  /\ alive' = alive \cup {s}
  /\ tabs' = tabs \cup {s}
  /\ current' = IF tabs = {} THEN s ELSE current
  /\ UNCHANGED <<notified, plugins, asking>>

\* Mutant of NewSessionFails: a path that does not give the processor back.
NewSessionFailsCounted(s) ==
  /\ Free(s)
  /\ id' = [id EXCEPT ![s] = users + 1]
  /\ mic' = DropFirst(Append(Queues(mic), s), users + 1, id')
  /\ spk' = DropFirst(Append(Queues(spk), s), users + 1, id')
  /\ users' = users + 1
  /\ processor' = "running"
  /\ UNCHANGED <<sessions, alive, tabs, current, notified, plugins, asking>>

\* It fails once it has its queues, and frees the first ones with its number.
\* An earlier failure leaves nothing behind.
NewSessionFails(s) ==
  /\ Free(s)
  /\ id' = [id EXCEPT ![s] = users + 1]
  /\ mic' = DropFirst(Append(Queues(mic), s), users + 1, id')
  /\ spk' = DropFirst(Append(Queues(spk), s), users + 1, id')
  /\ users' = (users + 1) - 1
  /\ processor' = IF users' = 0 /\ mic' = <<>> /\ spk' = <<>> THEN "stopped" ELSE "running"
  /\ UNCHANGED <<sessions, alive, tabs, current, notified, plugins, asking>>

\* destroy_session: the first session with the number ends, if there is one.
DestroySession(n) ==
  IF \E s \in ToSet(sessions) : id[s] = n
  THEN /\ First(sessions, n) \in alive
       /\ sessions' = DropFirst(sessions, n, id)
       /\ alive' = alive \ {First(sessions, n)}
       /\ FreeQueues(n)
       /\ LeaveProcessor
       /\ CloseTab
  ELSE UNCHANGED <<sessions, alive, mic, spk, users, processor, tabs, current>>

\* destroy_partial_session, of a session that has left the list at place i.
DestroyPartialSession(s, i) ==
  /\ sessions' = RemoveAt(sessions, i)
  /\ alive' = alive \ {s}
  /\ FreeQueues(id[s])
  /\ LeaveProcessor
  /\ CloseTab

-----------------------------------------------------------------------------
(* The user. *)

SelectTab(s) ==
  /\ asking = NotAsking
  /\ s \in tabs \ {current}
  /\ current' = s
  /\ UNCHANGED <<listVars, tabs, notified, plugins, asking>>

\* A button of the tab on top asks whether to end the session.
AskEnd ==
  /\ asking = NotAsking
  /\ current # Nobody
  /\ asking' = [who |-> current, what |-> "end"]
  /\ UNCHANGED <<listVars, tabs, current, notified, plugins>>

\* Another shows its plugins, in a window that stays when the tab changes ...
ShowPlugins ==
  /\ asking = NotAsking
  /\ current \in alive
  /\ plugins' = current
  /\ UNCHANGED <<listVars, tabs, current, notified, asking>>

ClosePlugins ==
  /\ asking = NotAsking
  /\ plugins # Nobody
  /\ plugins' = Nobody
  /\ UNCHANGED <<listVars, tabs, current, notified, asking>>

\* ... and has a button to change the codec the session sends with.
AskCodec ==
  /\ asking = NotAsking
  /\ plugins # Nobody
  /\ asking' = [who |-> plugins, what |-> "codec"]
  /\ UNCHANGED <<listVars, tabs, current, notified, plugins>>

\* The user says no, or the codec is changed without an error.
NothingEnds ==
  /\ asking # NotAsking
  /\ asking' = NotAsking
  /\ UNCHANGED <<listVars, tabs, current, notified, plugins>>

\* destroy_user_session
EndSession ==
  /\ asking.what = "end"
  /\ asking' = NotAsking
  /\ DestroySession(id[asking.who])
  /\ UNCHANGED <<id, notified, plugins>>

\* change_user_codec, when the new codec or the thread cannot be started.
ChangeCodecFails ==
  /\ asking.what = "codec" /\ asking.who \in alive
  /\ asking' = NotAsking
  /\ \E s \in ToSet(sessions) : id[s] = id[asking.who]
  /\ DestroyPartialSession(asking.who, SelectInSeq(sessions, LAMBDA s : id[s] = id[asking.who]))
  /\ UNCHANGED <<id, notified, plugins>>

\* session_recv_bye and session_recv_timeout
DialogAnswered(s, ok) ==
  /\ asking = NotAsking
  /\ s \in notified
  /\ notified' = notified \ {s}
  /\ \/ ok /\ DestroySession(id[s])
     \/ ~ok /\ UNCHANGED <<sessions, alive, mic, spk, users, processor, tabs, current>>
  /\ UNCHANGED <<id, plugins, asking>>

-----------------------------------------------------------------------------
(* The timer, control_sessions. *)

\* The other side has said goodbye, or is silent: a dialog asks the user.
Notify(s) ==
  /\ s \in ToSet(sessions) \cap alive
  /\ s \notin notified
  /\ notified' = notified \cup {s}
  /\ UNCHANGED <<listVars, tabs, current, plugins, asking>>

\* The other side has changed its codec, and the new one cannot be started.
RemoteCodecFails(i) ==
  /\ sessions[i] \in alive
  /\ DestroyPartialSession(sessions[i], i)
  /\ UNCHANGED <<id, notified, plugins, asking>>

-----------------------------------------------------------------------------
SessionsNext ==
  \/ \E s \in Sess :
       NewSession(s) \/ NewSessionFails(s) \/ SelectTab(s) \/ Notify(s)
  \/ \E s \in Sess, ok \in BOOLEAN : DialogAnswered(s, ok)
  \/ AskEnd
  \/ ShowPlugins
  \/ ClosePlugins
  \/ AskCodec
  \/ NothingEnds
  \/ EndSession
  \/ ChangeCodecFails
  \/ \E i \in 1 .. Len(sessions) : RemoteCodecFails(i)

SessionsSpec == SessionsInit /\ [][SessionsNext]_sessionsVars

-----------------------------------------------------------------------------
(* Properties. *)

\* However sessions were made, failed and ended, the audio processor runs while
\* there is one and stops with the last (implementacion.tex:43), and every path
\* that makes or ends a session counts it once: the processor is never asked to
\* stop with queues left, and never left running for nobody.
ProcessorRuns ==
  /\ SessionsTypeOK
  /\ users = Len(sessions) /\ users = Cardinality(tabs)
  /\ processor = "running" <=> sessions # <<>>

Numbers(list) == [n \in 1 .. Cardinality(Sess) |-> Cardinality({i \in DOMAIN list : id[list[i]] = n})]

\* The audio processor has one queue of each kind for every listed session,
\* under its number, though not always the queue of that session.
QueuesBalanced == Numbers(mic) = Numbers(sessions) /\ Numbers(spk) = Numbers(sessions)
=============================================================================
