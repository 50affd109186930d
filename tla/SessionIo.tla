----------------------------- MODULE SessionIo ------------------------------
(***************************************************************************)
(* One session while it is open (io.c): the control thread                 *)
(* (session_io_loop), the thread that sends (tx_loop), the thread that     *)
(* receives (rx_loop), and the interface, which stops the threads to       *)
(* change a codec (change_user_codec, control_sessions) or to end the      *)
(* session (destroy_session).                                              *)
(*                                                                         *)
(* rtp.c is modelled by its database of sources: a source enters it with   *)
(* its first packet and leaves it when rtp_update expires it; both are     *)
(* told to the control thread by events of the queue qrtcp.  rtp.c finds   *)
(* the queue through a pointer into the frame of session_io_loop, which    *)
(* stays when that function has returned.                                  *)
(***************************************************************************)
EXTENDS Integers, FiniteSets, Sequences

CONSTANTS
  Remotes,       \* sources other than this program's own
  MaxEvents,     \* bound: events in qrtcp
  MaxChanges     \* bound: changes of codec

ASSUME RemotesAssumption == IsFiniteSet(Remotes)
ASSUME BoundsAssumption == MaxEvents \in Nat /\ MaxChanges \in Nat

VARIABLES
  ctl,           \* where the control thread is
  tx, rx,        \* where the threads that send and receive are
  txProcess,     \* tx_data->process
  rxProcess,     \* rx_data->process
  process,       \* asession->process
  bye,           \* asession->bye, which nobody assigns before the thread does
  mute,          \* *asession->mute_mic
  block,         \* a block of the microphone is in queue_in
  live,          \* the remotes that have not left
  known,         \* the sources in the database of rtp.c, but for our own
  qrtcp,         \* the events the control thread has not seen
  num,           \* rtpinfo->num_sources
  heardBye,      \* rtpinfo->bye
  timedOut,      \* rtpinfo->timeout
  change,        \* rtpinfo->change_payload
  show,          \* rtpinfo->show: a dialog says that the conversation is over
  gui,           \* what the interface is doing to this session
  button,        \* the button that mutes the microphone is down
  saved,         \* mute_mic of change_user_codec and control_sessions
  changes,       \* changes of codec so far
  sent,          \* this control thread has called rtp_send_bye
  reason,        \* the user has ended the session, or the last remote has, since it started
  early,         \* the user ended it before the thread assigned asession->bye
  failed,        \* what the control thread has failed to do, and ended
  stale          \* its frame has been used after it ended

threadVars == <<ctl, tx, rx, txProcess, rxProcess>>
flagVars == <<process, bye, mute>>
rtpVars == <<live, known>>
infoVars == <<num, heardBye, timedOut, change, show>>
guiVars == <<gui, button, saved, changes>>
faultVars == <<failed, stale>>
pastVars == <<sent, reason, early, faultVars>>
vars == <<threadVars, flagVars, block, rtpVars, qrtcp, infoVars, guiVars, pastVars>>

Event(type, r) == [type |-> type, ssrc |-> r]
Events == [type : {"CREATED", "DELETED", "BYE", "PAYLOAD"}, ssrc : Remotes]

\* g_async_queue_push(user_data->rtcp, event).
Push(e) == qrtcp' = Append(qrtcp, e)

\* create_session has just created the control thread.
Init ==
  /\ ctl = "setup" /\ tx = "off" /\ rx = "off"
  /\ txProcess = FALSE /\ rxProcess = FALSE
  /\ process = TRUE /\ bye \in BOOLEAN /\ mute = FALSE
  /\ block = FALSE
  /\ live = Remotes /\ known = {}
  /\ qrtcp = <<>>
  /\ num = 0 /\ heardBye = FALSE /\ timedOut = FALSE /\ change = FALSE /\ show = FALSE
  /\ gui = "idle" /\ button = FALSE /\ saved = FALSE /\ changes = 0
  /\ sent = FALSE /\ reason = FALSE /\ early = FALSE
  /\ failed = "no" /\ stale = FALSE

-----------------------------------------------------------------------------
(* The control thread.                                                       *)

\* The places where asession->bye has not been assigned yet.
Starting == {"setup", "starting", "first"}

\* It makes the queue of events, forgets the sources, and starts the thread that
\* receives, ...
Setup ==
  /\ ctl = "setup"
  /\ qrtcp' = <<>> /\ num' = 1 /\ change' = FALSE
  /\ rx' = "test" /\ rxProcess' = TRUE
  /\ ctl' = "starting"
  /\ sent' = FALSE /\ reason' = FALSE
  /\ UNCHANGED <<tx, txProcess, flagVars, block, rtpVars, heardBye, timedOut, show, guiVars,
                 early, faultVars>>

\* ... or it returns, without one of the buffers, the queue or that thread.
SetupFails ==
  /\ ctl = "setup"
  /\ \/ UNCHANGED <<num, change>>
     \/ num' = 1 /\ change' = FALSE
  /\ block' \in {FALSE, block}
  /\ ctl' = "end" /\ failed' = "setup"
  /\ sent' = FALSE /\ reason' = FALSE
  /\ UNCHANGED <<tx, rx, txProcess, rxProcess, flagVars, rtpVars, qrtcp, heardBye, timedOut,
                 show, guiVars, early, stale>>

\* The thread that sends.
StartTx ==
  /\ ctl = "starting"
  /\ tx' = "test" /\ txProcess' = TRUE
  /\ ctl' = "first"
  /\ UNCHANGED <<rx, rxProcess, flagVars, block, rtpVars, qrtcp, infoVars, guiVars, pastVars>>

\* It cannot be created: the buffers and the queue are freed, and the thread that
\* receives is told to end and not waited for.
TxFails ==
  /\ ctl = "starting"
  /\ rxProcess' = FALSE
  /\ qrtcp' = <<>> /\ block' = FALSE
  /\ ctl' = "end" /\ failed' = "tx"
  /\ UNCHANGED <<tx, rx, txProcess, flagVars, rtpVars, infoVars, guiVars, sent, reason, early,
                 stale>>

\* Mutant of ClearBye: asession->bye is left as it is.
ClearByeNot ==
  /\ ctl = "first"
  /\ ctl' = "loop"
  /\ UNCHANGED <<tx, rx, txProcess, rxProcess, flagVars, block, rtpVars, qrtcp, infoVars,
                 guiVars, pastVars>>

\* asession->bye = FALSE, once the other threads run.
ClearBye ==
  /\ ctl = "first"
  /\ bye' = FALSE
  /\ ctl' = "loop"
  /\ UNCHANGED <<tx, rx, txProcess, rxProcess, process, mute, block, rtpVars, qrtcp, infoVars,
                 guiVars, pastVars>>

\* while (asession->process): it looks for an event, or stops the sending thread.
Test ==
  /\ ctl = "loop"
  /\ ctl' = (IF process THEN "pop" ELSE "joinTx")
  /\ txProcess' = (txProcess /\ process)
  /\ UNCHANGED <<tx, rx, rxProcess, flagVars, block, rtpVars, qrtcp, infoVars, guiVars, pastVars>>

\* g_async_queue_timed_pop has waited 80 ms for nothing.
PopNothing ==
  /\ ctl = "pop" /\ qrtcp = <<>>
  /\ ctl' = "ctrl"
  /\ UNCHANGED <<tx, rx, txProcess, rxProcess, flagVars, block, rtpVars, qrtcp, infoVars,
                 guiVars, pastVars>>

\* The next event, of the given type.
Popped(type) ==
  /\ ctl = "pop" /\ qrtcp # <<>> /\ Head(qrtcp).type = type
  /\ qrtcp' = Tail(qrtcp)
  /\ ctl' = "ctrl"
  /\ UNCHANGED <<tx, rx, txProcess, rxProcess, mute, block, rtpVars, show, guiVars, sent, early,
                 faultVars>>

\* A remote has left: if it was the only one, this side leaves too.
HandleBye ==
  /\ Popped("BYE")
  /\ bye' = (bye \/ num = 2)
  /\ heardBye' = (heardBye \/ num = 2)
  /\ process' = (process /\ num # 2)
  /\ reason' = (reason \/ num = 2)
  /\ UNCHANGED <<num, timedOut, change>>

\* A source has entered the database.
HandleCreated ==
  /\ Popped("CREATED")
  /\ num' = num + 1
  /\ UNCHANGED <<bye, process, heardBye, timedOut, change, reason>>

\* Mutant of HandleDeleted: the count is compared before it goes down.
HandleDeletedLate ==
  /\ Popped("DELETED")
  /\ num' = num - 1
  /\ timedOut' = (timedOut \/ num = 1)
  /\ UNCHANGED <<bye, process, heardBye, change, reason>>

\* A source has left it: when only ours remains the conversation is over.
\* The count is signed in the code, where it can pass zero.
HandleDeleted ==
  /\ Popped("DELETED")
  /\ num' = num - 1
  /\ timedOut' = (timedOut \/ num = 2)
  /\ UNCHANGED <<bye, process, heardBye, change, reason>>

\* The remote sends with another codec.
HandlePayload ==
  /\ Popped("PAYLOAD")
  /\ change' = TRUE
  /\ UNCHANGED <<bye, process, num, heardBye, timedOut, reason>>

\* rtp_update deletes a source that has said BYE, or that has been silent for
\* too long, also when it is only the network that is.
Expire(r) ==
  /\ ctl = "ctrl" /\ r \in known /\ Len(qrtcp) < MaxEvents
  /\ known' = known \ {r}
  /\ Push(Event("DELETED", r))
  /\ UNCHANGED <<threadVars, flagVars, block, live, infoVars, guiVars, pastVars>>

\* rtp_send_ctrl and rtp_update are done.
Updated ==
  /\ ctl = "ctrl"
  /\ ctl' = "loop"
  /\ UNCHANGED <<tx, rx, txProcess, rxProcess, flagVars, block, rtpVars, qrtcp, infoVars,
                 guiVars, pastVars>>

\* Mutant of JoinTx: the sending thread is not waited for.
JoinTxNot ==
  /\ ctl = "joinTx"
  /\ rxProcess' = FALSE
  /\ ctl' = "joinRx"
  /\ UNCHANGED <<tx, rx, txProcess, flagVars, block, rtpVars, qrtcp, infoVars, guiVars, pastVars>>

\* g_thread_join(th_tx_loop); the receiving thread is stopped next.
JoinTx ==
  /\ ctl = "joinTx" /\ tx = "end"
  /\ rxProcess' = FALSE
  /\ ctl' = "joinRx"
  /\ UNCHANGED <<tx, rx, txProcess, flagVars, block, rtpVars, qrtcp, infoVars, guiVars, pastVars>>

\* g_thread_join(th_rx_loop), and a BYE if the session is to end.
JoinRx ==
  /\ ctl = "joinRx" /\ rx = "end"
  /\ sent' = bye
  /\ ctl' = "free"
  /\ UNCHANGED <<tx, rx, txProcess, rxProcess, flagVars, block, rtpVars, qrtcp, infoVars,
                 guiVars, reason, early, faultVars>>

\* The events, the blocks of the microphone and the buffers are freed.
Free ==
  /\ ctl = "free"
  /\ qrtcp' = <<>> /\ block' = FALSE
  /\ ctl' = "end"
  /\ UNCHANGED <<tx, rx, txProcess, rxProcess, flagVars, rtpVars, infoVars, guiVars, pastVars>>

Handle == HandleBye \/ HandleCreated \/ HandleDeleted \/ HandlePayload
ControlStep ==
  \/ Setup \/ SetupFails \/ StartTx \/ TxFails
  \/ ClearBye \/ Test \/ PopNothing \/ Handle \/ Updated \/ JoinTx \/ JoinRx \/ Free

-----------------------------------------------------------------------------
(* The thread that sends.  A frame is taken to be a block: AudioBufferIn has *)
(* the regrouping.                                                           *)

\* while (th->process).
TxTest ==
  /\ tx = "test"
  /\ tx' = (IF txProcess THEN "read" ELSE "end")
  /\ UNCHANGED <<ctl, rx, txProcess, rxProcess, flagVars, block, rtpVars, qrtcp, infoVars,
                 guiVars, pastVars>>

\* read_audio_buffer takes a block; while the microphone is muted it takes the
\* next one, and does not come back to th->process.
TxRead ==
  /\ tx = "read" /\ block
  /\ block' = FALSE
  /\ tx' = (IF mute THEN "read" ELSE "send")
  /\ UNCHANGED <<ctl, rx, txProcess, rxProcess, flagVars, rtpVars, qrtcp, infoVars,
                 guiVars, pastVars>>

\* rtp_send_data, unless the frame is silence or cannot be encoded.
TxSend ==
  /\ tx = "send"
  /\ tx' = "test"
  /\ UNCHANGED <<ctl, rx, txProcess, rxProcess, flagVars, block, rtpVars, qrtcp, infoVars,
                 guiVars, pastVars>>

TxStep == TxTest \/ TxRead \/ TxSend

-----------------------------------------------------------------------------
(* The thread that receives.  It holds user_data.mutex in rtp_recv, as the   *)
(* control thread does at "ctrl".  Both have the mutex, the queue of events  *)
(* and the buffer from the frame of session_io_loop.                         *)

\* while (th->process).
RxTest ==
  /\ rx = "test"
  /\ rx' = (IF rxProcess THEN "recv" ELSE "end")
  /\ UNCHANGED <<ctl, tx, txProcess, rxProcess, flagVars, block, rtpVars, qrtcp, infoVars,
                 guiVars, pastVars>>

\* One call of rtp_recv.
Receiving ==
  /\ rx = "recv" /\ ctl # "ctrl"
  /\ rx' = "test"
  /\ stale' = (stale \/ ctl = "end")
  /\ UNCHANGED <<ctl, tx, txProcess, rxProcess, flagVars, block, infoVars, guiVars, sent, reason,
                 early, failed>>

\* Nothing came in 10 ms, or a packet of a known source that says nothing new.
RxNothing == Receiving /\ UNCHANGED <<rtpVars, qrtcp>>

\* The first packet of a source.
RxFirst(r) ==
  /\ r \in live \ known /\ Len(qrtcp) < MaxEvents
  /\ Receiving
  /\ known' = known \cup {r} /\ UNCHANGED live
  /\ Push(Event("CREATED", r))

\* A packet of another payload type: handler_rtp_event sends itself an event.
RxPayload(r) ==
  /\ r \in live \cap known /\ Len(qrtcp) < MaxEvents
  /\ Receiving
  /\ UNCHANGED rtpVars
  /\ Push(Event("PAYLOAD", r))

\* process_rtcp_bye, which creates the source if it must.
RxBye(r) ==
  /\ r \in live /\ Len(qrtcp) + 1 < MaxEvents
  /\ Receiving
  /\ live' = live \ {r} /\ known' = known \cup {r}
  /\ qrtcp' = qrtcp \o (IF r \in known THEN <<>> ELSE <<Event("CREATED", r)>>)
                    \o <<Event("BYE", r)>>

\* A thread that uses what is gone may take the whole program with it.
RxCrash ==
  /\ rx = "recv" /\ ctl = "end"
  /\ rx' = "end"
  /\ stale' = TRUE
  /\ gui' = "gone"
  /\ UNCHANGED <<ctl, tx, txProcess, rxProcess, flagVars, block, rtpVars, qrtcp, infoVars, button,
                 saved, changes, sent, reason, early, failed>>

RxStep == RxTest \/ RxNothing \/ RxCrash \/ \E r \in Remotes : RxFirst(r) \/ RxPayload(r) \/ RxBye(r)

\* A remote stops without a BYE.
Vanish(r) ==
  /\ r \in live
  /\ live' = live \ {r}
  /\ UNCHANGED <<threadVars, flagVars, block, known, qrtcp, infoVars, guiVars, pastVars>>

\* audio_processor_loop brings a block, until the queue is freed.
Capture ==
  /\ gui # "gone" /\ ~block
  /\ block' = TRUE
  /\ UNCHANGED <<threadVars, flagVars, rtpVars, qrtcp, infoVars, guiVars, pastVars>>

-----------------------------------------------------------------------------
(* The interface.                                                            *)

\* The button of the microphone.
ToggleMute ==
  /\ gui = "idle"
  /\ button' = ~button /\ mute' = ~button
  /\ UNCHANGED <<threadVars, process, bye, block, rtpVars, qrtcp, infoVars, gui, saved, changes,
                 pastVars>>

\* control_sessions shows that the conversation is over.
Notify ==
  /\ gui = "idle" /\ (heardBye \/ timedOut) /\ ~show
  /\ show' = TRUE
  /\ UNCHANGED <<threadVars, flagVars, block, rtpVars, qrtcp, num, heardBye, timedOut, change,
                 guiVars, pastVars>>

\* The user wants to keep the session all the same.
Cancel ==
  /\ gui = "idle" /\ show
  /\ show' = FALSE
  /\ UNCHANGED <<threadVars, flagVars, block, rtpVars, qrtcp, num, heardBye, timedOut, change,
                 guiVars, pastVars>>

\* Mutant of HangUp: asession->bye is not set.
HangUpSilent ==
  /\ gui = "idle"
  /\ reason' = TRUE
  /\ early' = (ctl \in Starting)
  /\ gui' = "hangFlags"
  /\ UNCHANGED <<threadVars, flagVars, block, rtpVars, qrtcp, infoVars, button, saved, changes,
                 sent, faultVars>>

\* destroy_session: asession->bye comes first.
HangUp ==
  /\ gui = "idle"
  /\ bye' = TRUE /\ reason' = TRUE
  /\ early' = (ctl \in Starting)
  /\ gui' = "hangFlags"
  /\ UNCHANGED <<threadVars, process, mute, block, rtpVars, qrtcp, infoVars, button, saved,
                 changes, sent, faultVars>>

\* Mutant of HangFlags: the microphone stays muted.
HangFlagsMuted ==
  /\ gui = "hangFlags"
  /\ process' = FALSE
  /\ gui' = "hangJoin"
  /\ UNCHANGED <<threadVars, bye, mute, block, rtpVars, qrtcp, infoVars, button, saved, changes,
                 pastVars>>

\* Then asession->process and the microphone, which tx_loop may be waiting for.
HangFlags ==
  /\ gui = "hangFlags"
  /\ process' = FALSE /\ mute' = FALSE
  /\ gui' = "hangJoin"
  /\ UNCHANGED <<threadVars, bye, block, rtpVars, qrtcp, infoVars, button, saved, changes,
                 pastVars>>

\* rtp_done deletes the sources one by one, and calls handler_rtcp_event for each
\* of the remotes.  The thread has ended and its frame is gone: the event goes to
\* a queue nobody reads, or the program ends here too.
RtpDone ==
  /\ known' = {}
  /\ stale' = (stale \/ known # {})
  /\ gui' = "gone"

\* g_thread_join(tse->loop), and everything is freed.
HangJoin ==
  /\ gui = "hangJoin" /\ ctl = "end"
  /\ RtpDone
  /\ UNCHANGED <<threadVars, flagVars, block, live, qrtcp, infoVars, button, saved, changes,
                 sent, reason, early, failed>>

\* The threads are stopped because a codec changes; the microphone is opened, so
\* that tx_loop comes back to th->process.
StopThreads ==
  /\ gui = "idle" /\ changes < MaxChanges
  /\ process' = FALSE
  /\ saved' = mute /\ mute' = FALSE
  /\ changes' = changes + 1
  /\ gui' = "codecJoin"
  /\ UNCHANGED <<threadVars, bye, block, rtpVars, qrtcp, infoVars, button, pastVars>>

\* change_user_codec: the user chooses another codec to send with.
ChooseCodec == StopThreads

\* control_sessions: the remote sends with another codec.
RemoteCodec == change /\ StopThreads

\* g_thread_join(tse->loop); a new control thread starts with the new codec.  A
\* thread that was not waited for (TxFails) has long ended: it needs 10 ms.
Restart ==
  /\ gui = "codecJoin" /\ ctl = "end" /\ rx \in {"off", "end"}
  /\ process' = TRUE
  /\ ctl' = "setup" /\ tx' = "off" /\ rx' = "off"
  /\ gui' = "codecUnmute"
  /\ failed' = "no" /\ stale' = FALSE
  /\ UNCHANGED <<txProcess, rxProcess, bye, mute, block, rtpVars, qrtcp, infoVars, button, saved,
                 changes, sent, reason, early>>

\* The codec or the thread cannot be made: destroy_partial_session.
RestartFails ==
  /\ gui = "codecJoin" /\ ctl = "end"
  /\ RtpDone
  /\ UNCHANGED <<threadVars, flagVars, block, live, qrtcp, infoVars, button, saved, changes,
                 sent, reason, early, failed>>

\* Mutant of CodecUnmute: the microphone stays open.
CodecUnmuteNot ==
  /\ gui = "codecUnmute"
  /\ saved' = FALSE
  /\ gui' = "idle"
  /\ UNCHANGED <<threadVars, flagVars, block, rtpVars, qrtcp, infoVars, button, changes, pastVars>>

CodecUnmute ==
  /\ gui = "codecUnmute"
  /\ mute' = saved /\ saved' = FALSE
  /\ gui' = "idle"
  /\ UNCHANGED <<threadVars, process, bye, block, rtpVars, qrtcp, infoVars, button, changes,
                 pastVars>>

GuiGoesOn == HangFlags \/ HangJoin \/ Restart \/ CodecUnmute

Next ==
  \/ ControlStep
  \/ \E r \in Remotes : Expire(r) \/ Vanish(r)
  \/ TxStep \/ RxStep \/ Capture
  \/ ToggleMute \/ Notify \/ Cancel \/ HangUp \/ ChooseCodec \/ RemoteCodec \/ RestartFails
  \/ GuiGoesOn

Spec == Init /\ [][Next]_vars

\* The threads run; a clock expires, at some pass of rtp_update, a source that
\* will not be heard again; the sound card goes on bringing blocks.
FairSpec ==
  /\ Spec
  /\ WF_vars(ControlStep) /\ WF_vars(TxStep) /\ WF_vars(Capture)
  /\ WF_vars(RxTest \/ RxNothing)
  /\ WF_vars(GuiGoesOn) /\ WF_vars(Notify)
  /\ \A r \in Remotes : SF_vars(Expire(r) /\ r \notin live)

-----------------------------------------------------------------------------
(* Properties.                                                               *)

\* The types of the flags, the queue and the places of the threads.
TypeOK ==
  /\ ctl \in {"setup", "starting", "first", "loop", "pop", "ctrl", "joinTx", "joinRx", "free", "end"}
  /\ tx \in {"off", "test", "read", "send", "end"}
  /\ rx \in {"off", "test", "recv", "end"}
  /\ txProcess \in BOOLEAN /\ rxProcess \in BOOLEAN
  /\ process \in BOOLEAN /\ bye \in BOOLEAN /\ mute \in BOOLEAN
  /\ block \in BOOLEAN
  /\ live \subseteq Remotes /\ known \subseteq Remotes
  /\ qrtcp \in Seq(Events) /\ Len(qrtcp) \leq MaxEvents
  /\ num \in Int
  /\ heardBye \in BOOLEAN /\ timedOut \in BOOLEAN /\ change \in BOOLEAN /\ show \in BOOLEAN
  /\ gui \in {"idle", "hangFlags", "hangJoin", "codecJoin", "codecUnmute", "gone"}
  /\ button \in BOOLEAN /\ saved \in BOOLEAN
  /\ changes \in 0..MaxChanges
  /\ sent \in BOOLEAN /\ reason \in BOOLEAN /\ early \in BOOLEAN
  /\ failed \in {"no", "setup", "tx"} /\ stale \in BOOLEAN

\* What is freed while it can still be used: session_io_loop frees the buffers
\* when both its threads have ended, and its frame is used afterwards by nobody,
\* but in two cases.  rtp_done calls back through it when the session is over,
\* and the thread that receives is left with it when the one that sends cannot
\* be created.
Quiescent ==
  /\ ctl \in {"free", "end"} /\ failed = "no" => tx = "end" /\ rx = "end"
  /\ gui = "gone" => ctl = "end"
  /\ stale => gui = "gone" \/ failed = "tx"

\* A BYE tells the truth: since the thread that sends it started, the user has
\* ended the session or the last remote has.  A change of codec sends none.
ByeJustified == sent => reason

\* A user who ends the session says so to the remote, but for the user who does
\* it before the thread has executed asession->bye = FALSE, or when it could not
\* start its threads.
HangUpSaysBye == gui = "hangJoin" /\ ctl = "end" /\ ~early /\ failed = "no" => sent

\* The microphone is muted as the button says whenever the user can see it, also
\* after the changes of codec, which open it.
MuteKept == gui = "idle" => (mute = button)

-----------------------------------------------------------------------------
(* What makes these invariants inductive: where the threads can be while the *)
(* interface does what, and which flags have been set by then.               *)

\* The threads end before what they use is freed, unless they did not start.
Ended ==
  /\ ctl \in {"joinRx", "free", "end"} /\ failed = "no" => tx = "end"
  /\ ctl \in {"free", "end"} /\ failed = "no" => rx = "end"
  /\ failed # "no" => ctl = "end"
  /\ failed # "no" \/ ctl \in {"setup", "starting"} => tx = "off"
  /\ failed = "setup" \/ ctl = "setup" => rx = "off"
  /\ gui = "gone" => ctl = "end"
  /\ stale => gui = "gone" \/ failed = "tx"

\* asession->bye is only set for a reason, once it has a value at all.
ByeHasReason == bye /\ ctl \notin Starting /\ failed = "no" => reason

\* A thread that stops by itself does so because of a BYE, or has not started.
StopsByItself ==
  gui \in {"idle", "codecUnmute"} =>
    /\ ~process => bye /\ ctl \notin Starting
    /\ ctl \in {"joinTx", "joinRx", "free", "end"} /\ failed = "no" => ~process
    /\ ctl \in {"free", "end"} /\ failed = "no" => sent

\* The user's BYE is not forgotten.
HangUpIsKept ==
  gui \in {"hangFlags", "hangJoin"} /\ ~early /\ failed = "no" =>
    bye /\ ctl \notin Starting /\ (ctl \in {"free", "end"} => sent)

\* The mute button is remembered while a codec changes.
MuteIsSaved ==
  /\ gui \in {"idle", "hangFlags"} => (mute = button)
  /\ gui \in {"codecJoin", "codecUnmute"} => (saved = button)

\* All of it together, which every step of the three threads keeps.
IndInv ==
  TypeOK /\ Ended /\ ByeHasReason /\ ByeJustified /\ StopsByItself /\ HangUpIsKept /\ MuteIsSaved

-----------------------------------------------------------------------------
(* Liveness.                                                                 *)

\* The interface, which does nothing else while it joins session_io_loop, is
\* free again, whatever the mute button, the network and the remotes do, as long
\* as the sound card brings blocks.
GuiIsFree == gui \in {"hangJoin", "codecJoin"} ~> gui \notin {"hangJoin", "codecJoin"}

\* "control de usuarios, ... envío de timeouts, BYE's": once all the remotes that
\* were heard have left, the interface gets to know it, unless the thread could
\* not start the one that sends, or a codec has been changed: the restarted thread
\* counts the sources from 1 again while they stay in the database.
EndIsNoticedAtFirst ==
  known # {} /\ live = {} /\ changes = 0 ~>
    heardBye \/ timedOut \/ gui = "gone" \/ changes > 0 \/ failed = "tx"
=============================================================================
