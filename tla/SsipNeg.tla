------------------------------ MODULE SsipNeg -------------------------------
(***************************************************************************)
(* One call negotiated with SSIP: ssip_connect on the calling machine and  *)
(* ssip_accept on the called one (ssip_neg.c), the TCP connection between  *)
(* them, and the called user's interface, which answers through the shared *)
(* notify_call record.                                                     *)
(*                                                                         *)
(* An action is the code from one blocking wait to the next: the packet is *)
(* taken, the switch on its type decides, and the reply is sent.  The      *)
(* packet a thread waits for may still be on its way, so a wait can run    *)
(* out of time whatever the queue holds.  A thread that has returned has   *)
(* closed its socket (tcp_exit follows every return).                      *)
(***************************************************************************)
EXTENDS Integers, Sequences

CONSTANTS
  Payload,        \* RTP payload types
  Ms,             \* the values field ms of a codec node can hold
  NoCodec,        \* sel_codec before a codec is chosen
  CallerLists,    \* the cod_list a caller may have selected
  CalleeLists,    \* the list_codec_plugins a called program may have
  CallerPort,     \* the RTP port the caller advertises
  CalleePort,     \* the RTP port the called side advertises
  NoPort,         \* rtp_sel_port before it is received
  Self,           \* the user the called program runs for
  Users           \* the users a caller may ask for

\* A Node_listvocodecs, as far as the negotiation reads it.  load_plugins
\* allocates it with g_malloc and never assigns ms, so any value is possible.
Codec == [payload : Payload, ms : Ms]

Port == {CallerPort, CalleePort}

ASSUME CodecListAssumption ==
  /\ CallerLists \subseteq Seq(Codec)
  /\ CalleeLists \subseteq Seq(Codec)
\* A payload type names one codec: it is what selections and packets look up.
ASSUME PayloadAssumption ==
  \A l \in CallerLists : \A i, j \in DOMAIN l : l[i].payload = l[j].payload => i = j
ASSUME NoCodecAssumption == NoCodec \notin Codec
ASSUME NoPortAssumption == NoPort \notin Port
ASSUME SelfAssumption == Self \in Users

VARIABLES
  cpc,            \* where ssip_connect is
  cret,           \* what it returned
  clist,          \* guiconnect->cod_list
  dialled,        \* the user asked for
  exit,           \* *(pd->exit): 0 once the user has cancelled
  turn,           \* what the wait does: read exit, or run select
  csel,           \* *sel_codec of the caller
  crtp,           \* *rtp_sel_port of the caller
  apc,            \* where ssip_accept is
  aret,           \* what it returned
  acodecs,        \* list_codec_plugins of the called program
  ahead,          \* the node list_codec pointed to when ssip_accept began
  asel,           \* pn, the codec found by the called side
  artp,           \* *rtp_sel_port of the called side
  notify,         \* notify_call
  standing,       \* how the called user's address book lists the caller
  toCallee,       \* packets sent by the caller and not received yet
  toCaller,       \* packets sent by the called side and not received yet
  broken          \* the TCP connection was reset

caller == <<cpc, cret, exit, turn, csel, crtp>>
callee == <<apc, aret, ahead, asel, artp>>
inputs == <<clist, dialled, standing>>
vars == <<caller, callee, inputs, acodecs, notify, toCallee, toCaller, broken>>

Running == 9                                 \* not returned yet
CallerRet == {-3, -1, 0, 2, 3, 4, Running}
CalleeRet == {-2, -1, 0, 1, 2, Running}

\* The waits of ssip_connect that watch *(pd->exit).
CallerWait == {"wUser", "wCodec", "wRtp", "wBye"}
CallerLoc == {"start", "wDrop", "done"} \cup CallerWait
CalleeLoc == {"listen", "wHelo", "wUnknown", "ring", "wReject", "wCodecs",
              "wNoCodec", "wRtp", "wBye", "done"}

Type == {"HELO", "BYE", "VALIDUSER", "CODECTX", "RTP", "ERROR"}
Packet == [type : Type, to : Users, codecs : Seq(Codec), port : Port \cup {NoPort}]

\* A packet that carries nothing but its type.
Plain(t) == [type |-> t, to |-> Self, codecs |-> <<>>, port |-> NoPort]
Helo(u) == [Plain("HELO") EXCEPT !.to = u]
CodecTx(l) == [Plain("CODECTX") EXCEPT !.codecs = l]
Rtp(p) == [Plain("RTP") EXCEPT !.port = p]

\* The values of every variable: the locations of the two functions, what each
\* can return, and the packets of the protocol.
TypeOK ==
  /\ cpc \in CallerLoc
  /\ cret \in CallerRet
  /\ clist \in CallerLists
  /\ dialled \in Users
  /\ exit \in {0, 1}
  /\ turn \in {"exit", "select"}
  /\ csel \in Codec \cup {NoCodec}
  /\ crtp \in Port \cup {NoPort}
  /\ apc \in CalleeLoc
  /\ aret \in CalleeRet
  /\ acodecs \in Seq(Codec)
  /\ ahead \in Codec \cup {NoCodec}
  /\ asel \in Codec \cup {NoCodec}
  /\ artp \in Port \cup {NoPort}
  /\ notify \in [ready : BOOLEAN, process : BOOLEAN, accept : BOOLEAN]
  /\ standing \in {"known", "ignored", "unknown"}
  /\ toCallee \in Seq(Packet)
  /\ toCaller \in Seq(Packet)
  /\ broken \in BOOLEAN

Init ==
  /\ cpc = "start" /\ cret = Running
  /\ clist \in CallerLists
  /\ dialled \in Users
  /\ exit = 1 /\ turn = "exit"
  /\ csel = NoCodec /\ crtp = NoPort
  /\ apc = "listen" /\ aret = Running
  /\ acodecs \in CalleeLists
  /\ ahead = NoCodec /\ asel = NoCodec /\ artp = NoPort
  /\ notify = [ready |-> FALSE, process |-> FALSE, accept |-> FALSE]
  /\ standing \in {"known", "ignored", "unknown"}
  /\ toCallee = <<>> /\ toCaller = <<>>
  /\ broken = FALSE

-----------------------------------------------------------------------------
(* The connection *)

\* tcp_send can only fail once the peer has closed or the connection is lost.
CallerSendCanFail == broken \/ apc = "done"
CalleeSendCanFail == broken \/ cpc = "done"

\* What is written to a lost connection goes nowhere.
CallerSends(p) == toCallee' = IF broken THEN toCallee ELSE Append(toCallee, p)
CalleeSends(p) == toCaller' = IF broken THEN toCaller ELSE Append(toCaller, p)

\* Mutant of CallerEof: a tcp_recv of 0 bytes is not taken for the end.
CallerEofIgnored == toCaller = <<>> /\ broken

\* tcp_recv returns no packet: end of file, or an error of the connection.
CallerEof == toCaller = <<>> /\ (broken \/ apc = "done")
CalleeEof == toCallee = <<>> /\ (broken \/ cpc = "done")

\* The connection is reset; of what was under way only a prefix arrives.
ConnectionBreaks ==
  /\ ~broken
  /\ cpc \notin {"start", "done"} \/ apc \notin {"listen", "done"}
  /\ broken' = TRUE
  /\ \E m \in 0 .. Len(toCallee) : toCallee' = SubSeq(toCallee, 1, m)
  /\ \E n \in 0 .. Len(toCaller) : toCaller' = SubSeq(toCaller, 1, n)
  /\ UNCHANGED <<caller, callee, inputs, acodecs, notify>>

-----------------------------------------------------------------------------
(* ssip_connect *)

\* The caller sends p and is then at a wait, or has returned r; when the send
\* fails it returns -1.
CallerReplies(p, at, r) ==
  /\ turn' = "exit"
  /\ \/ CallerSends(p) /\ cpc' = at /\ cret' = r
     \/ CallerSendCanFail /\ cpc' = "done" /\ cret' = -1 /\ UNCHANGED toCallee

CallerReturns(r) == cpc' = "done" /\ cret' = r /\ turn' = "exit"

\* A packet arrived while select was running in this wait.
CallerReceives(at) ==
  /\ cpc = at
  /\ turn = "select"
  /\ toCaller # <<>>
  /\ toCaller' = Tail(toCaller)

\* Where the caller's list has nodes with the payload type of c; ms is not
\* compared on this side.
OwnCodec(c) == {k \in DOMAIN clist : clist[k].payload = c.payload}

\* The connection is made and HELO sent, or one of the two fails.
Dial ==
  /\ cpc = "start"
  /\ \/ CallerReplies(Helo(dialled), "wUser", Running)
     \/ CallerReturns(-1) /\ UNCHANGED toCallee
  /\ UNCHANGED <<exit, csel, crtp, callee, inputs, acodecs, notify, toCaller, broken>>

\* The user closes the progress dialog.
UserCancels ==
  /\ cpc # "done"
  /\ exit = 1
  /\ exit' = 0
  /\ UNCHANGED <<cpc, cret, turn, csel, crtp, callee, inputs, acodecs, notify,
                 toCallee, toCaller, broken>>

\* One turn of the do-while of a wait: exit is read, then select runs.
ReadExit ==
  /\ cpc \in CallerWait
  /\ turn = "exit"
  /\ exit = 1
  /\ turn' = "select"
  /\ UNCHANGED <<cpc, cret, exit, csel, crtp, callee, inputs, acodecs, notify,
                 toCallee, toCaller, broken>>

SelectExpires ==
  /\ turn = "select"
  /\ turn' = "exit"
  /\ UNCHANGED <<cpc, cret, exit, csel, crtp, callee, inputs, acodecs, notify,
                 toCallee, toCaller, broken>>

\* Mutant of Interrupt: the wait for the answer to HELO goes on.
InterruptNotFirst ==
  /\ cpc \in CallerWait \ {"wUser"}
  /\ turn = "exit"
  /\ exit = 0
  /\ CallerSends(Plain("ERROR"))
  /\ CallerReturns(-3)
  /\ UNCHANGED <<exit, csel, crtp, callee, inputs, acodecs, notify, toCaller, broken>>

\* The wait finds exit set to 0: ERROR is sent, whatever becomes of it.
Interrupt ==
  /\ cpc \in CallerWait
  /\ turn = "exit"
  /\ exit = 0
  /\ CallerSends(Plain("ERROR"))
  /\ CallerReturns(-3)
  /\ UNCHANGED <<exit, csel, crtp, callee, inputs, acodecs, notify, toCaller, broken>>

CallerRecvFails ==
  /\ turn = "select"
  /\ CallerEof
  /\ CallerReturns(-1)
  /\ UNCHANGED <<exit, csel, crtp, callee, inputs, acodecs, notify, toCallee,
                 toCaller, broken>>

\* The answer to HELO.
CallerRecvUser ==
  /\ CallerReceives("wUser")
  /\ LET p == Head(toCaller) IN
     \/ /\ p.type = "VALIDUSER" /\ clist # <<>>
        /\ CallerReplies(CodecTx(clist), "wCodec", Running)
     \/ /\ p.type = "VALIDUSER" /\ clist = <<>>
        /\ CallerReplies(Plain("BYE"), "wDrop", Running)
     \/ p.type = "BYE" /\ CallerReplies(Plain("BYE"), "done", 0)
     \/ p.type \notin {"VALIDUSER", "BYE"} /\ CallerReturns(-1) /\ UNCHANGED toCallee
  /\ UNCHANGED <<exit, csel, crtp, callee, inputs, acodecs, notify, broken>>

\* The codec the called side has found.
CallerRecvCodec ==
  /\ CallerReceives("wCodec")
  /\ LET p == Head(toCaller)
         own == OwnCodec(Head(p.codecs))
         found == p.codecs # <<>> /\ own # {}
     IN \/ /\ p.type = "CODECTX" /\ found
           /\ \E k \in own : (\A j \in 1 .. k - 1 : j \notin own) /\ csel' = clist[k]
           /\ CallerReplies(Rtp(CallerPort), "wRtp", Running)
        \/ /\ p.type = "CODECTX" /\ ~found
           /\ CallerReplies(Plain("BYE"), "wDrop", Running)
           /\ UNCHANGED csel
        \/ /\ p.type = "BYE"
           /\ CallerReplies(Plain("BYE"), "done", 2)
           /\ UNCHANGED csel
        \/ /\ p.type \notin {"CODECTX", "BYE"}
           /\ CallerReturns(-1)
           /\ UNCHANGED <<toCallee, csel>>
  /\ UNCHANGED <<exit, crtp, callee, inputs, acodecs, notify, broken>>

\* Mutant of CallerRecvRtp: the caller does not wait for the last BYE.
CallerRecvRtpReturns ==
  /\ CallerReceives("wRtp")
  /\ Head(toCaller).type = "RTP"
  /\ crtp' = Head(toCaller).port
  /\ CallerReplies(Plain("BYE"), "done", 4)
  /\ UNCHANGED <<exit, csel, callee, inputs, acodecs, notify, broken>>

\* The RTP parameters of the called side.
CallerRecvRtp ==
  /\ CallerReceives("wRtp")
  /\ LET p == Head(toCaller) IN
     \/ /\ p.type = "RTP"
        /\ crtp' = p.port
        /\ CallerReplies(Plain("BYE"), "wBye", Running)
     \/ /\ p.type = "BYE"
        /\ CallerReplies(Plain("BYE"), "done", 3)
        /\ UNCHANGED crtp
     \/ /\ p.type \notin {"RTP", "BYE"}
        /\ CallerReturns(-1)
        /\ UNCHANGED <<toCallee, crtp>>
  /\ UNCHANGED <<exit, csel, callee, inputs, acodecs, notify, broken>>

\* The last packet; its type is not looked at.
CallerRecvBye ==
  /\ CallerReceives("wBye")
  /\ CallerReturns(4)
  /\ UNCHANGED <<exit, csel, crtp, callee, inputs, acodecs, notify, toCallee, broken>>

\* After its own BYE the caller waits 5 s at most and fails either way.
CallerDrops ==
  /\ cpc = "wDrop"
  /\ CallerReturns(-1)
  /\ UNCHANGED <<exit, csel, crtp, callee, inputs, acodecs, notify, toCallee,
                 toCaller, broken>>

CallerStep ==
  \/ Dial \/ ReadExit \/ SelectExpires \/ Interrupt \/ CallerRecvFails
  \/ CallerRecvUser \/ CallerRecvCodec \/ CallerRecvRtp \/ CallerRecvBye
  \/ CallerDrops

-----------------------------------------------------------------------------
(* The called user's interface *)

\* control_sessions finds the call and runs user_filter: a caller who is not
\* in the address book, or is ignored there, is refused; for the others the
\* dialog opens.
UserFilter ==
  /\ notify.ready /\ ~notify.process
  /\ notify' = [ready |-> standing = "known", process |-> TRUE, accept |-> FALSE]
  /\ UNCHANGED <<caller, callee, inputs, acodecs, toCallee, toCaller, broken>>

\* A button of the incoming call dialog, or its window closed.
ButtonClick(answer) ==
  /\ notify.ready /\ notify.process
  /\ notify' = [ready |-> FALSE, process |-> TRUE, accept |-> answer]
  /\ UNCHANGED <<caller, callee, inputs, acodecs, toCallee, toCaller, broken>>

\* select_default_codec moves a node to the front of list_codec_plugins.  It
\* matters only before ssip_accept has searched the list: a bound of the model.
PreferCodec ==
  /\ apc \in {"wHelo", "ring", "wCodecs"}
  /\ \E i \in 2 .. Len(acodecs) :
       acodecs' = <<acodecs[i]>> \o SubSeq(acodecs, 1, i - 1)
                    \o SubSeq(acodecs, i + 1, Len(acodecs))
  /\ UNCHANGED <<caller, callee, inputs, notify, toCallee, toCaller, broken>>

-----------------------------------------------------------------------------
(* ssip_accept *)

CalleeReplies(p, at, r, failed) ==
  \/ CalleeSends(p) /\ apc' = at /\ aret' = r
  \/ CalleeSendCanFail /\ apc' = "done" /\ aret' = failed /\ UNCHANGED toCaller

CalleeReturns(r) == apc' = "done" /\ aret' = r

CalleeReceives(at) ==
  /\ apc = at
  /\ toCallee # <<>>
  /\ toCallee' = Tail(toCallee)

\* The nodes of the called side that agree with an offer in both fields.  The
\* list ssip_accept walks starts at the node that was the first one when it
\* was called, wherever that node is now.
Matches(offer) ==
  {k \in DOMAIN acodecs : /\ \E h \in 1 .. k : acodecs[h] = ahead
                          /\ acodecs[k].payload = offer.payload
                          /\ acodecs[k].ms = offer.ms}

\* The offers are tried in the order of the caller: all before the i-th fail.
FailBefore(offers, i) == \A j \in 1 .. i - 1 : Matches(offers[j]) = {}

\* The connection was made; ssip_accept begins.
Accept ==
  /\ apc = "listen"
  /\ toCallee # <<>>
  /\ apc' = "wHelo"
  /\ ahead' = IF acodecs = <<>> THEN NoCodec ELSE Head(acodecs)
  /\ UNCHANGED <<aret, asel, artp, caller, inputs, acodecs, notify, toCallee,
                 toCaller, broken>>

\* time_expired: 5 s without a packet.
CalleeTimesOut ==
  /\ \/ apc \in {"wHelo", "wUnknown", "wReject"} /\ CalleeReturns(-2)
     \/ apc \in {"wCodecs", "wNoCodec", "wRtp", "wBye"} /\ CalleeReturns(-1)
  /\ UNCHANGED <<ahead, asel, artp, caller, inputs, acodecs, notify, toCallee,
                 toCaller, broken>>

CalleeRecvFails ==
  /\ CalleeEof
  /\ \/ apc \in {"wHelo", "wUnknown"} /\ CalleeReturns(-2)
     \/ apc = "wReject" /\ CalleeReturns(1)
     \/ apc \in {"wCodecs", "wNoCodec", "wRtp", "wBye"} /\ CalleeReturns(-1)
  /\ UNCHANGED <<ahead, asel, artp, caller, inputs, acodecs, notify, toCallee,
                 toCaller, broken>>

CalleeRecvHelo ==
  /\ CalleeReceives("wHelo")
  /\ LET p == Head(toCallee) IN
     \/ /\ p.type = "HELO" /\ p.to = Self
        /\ notify' = [ready |-> TRUE, process |-> FALSE, accept |-> FALSE]
        /\ apc' = "ring"
        /\ UNCHANGED <<aret, toCaller>>
     \/ /\ p.type = "HELO" /\ p.to # Self
        /\ CalleeReplies(Plain("BYE"), "wUnknown", Running, -2)
        /\ UNCHANGED notify
     \/ /\ p.type = "BYE"
        /\ CalleeReplies(Plain("BYE"), "done", 0, -2)
        /\ UNCHANGED notify
     \/ /\ p.type \notin {"HELO", "BYE"}
        /\ CalleeReturns(-2)
        /\ UNCHANGED <<notify, toCaller>>
  /\ UNCHANGED <<ahead, asel, artp, caller, inputs, acodecs, broken>>

\* The answer to the BYE sent to a caller of another user.
CalleeRecvUnknown ==
  /\ CalleeReceives("wUnknown")
  /\ CalleeReturns(IF Head(toCallee).type = "BYE" THEN 0 ELSE -2)
  /\ UNCHANGED <<ahead, asel, artp, caller, inputs, acodecs, notify, toCaller, broken>>

\* Mutant of CalleeAnswered: that there is an answer is taken for a yes.
CalleeAnsweredYes ==
  /\ apc = "ring"
  /\ ~notify.ready
  /\ CalleeReplies(Plain("VALIDUSER"), "wCodecs", Running, -1)
  /\ UNCHANGED <<ahead, asel, artp, caller, inputs, acodecs, notify, toCallee, broken>>

\* The loop that polls notify_call every 100 ms sees the answer.
CalleeAnswered ==
  /\ apc = "ring"
  /\ ~notify.ready
  /\ IF notify.accept
     THEN CalleeReplies(Plain("VALIDUSER"), "wCodecs", Running, -1)
     ELSE CalleeReplies(Plain("BYE"), "wReject", Running, -2)
  /\ UNCHANGED <<ahead, asel, artp, caller, inputs, acodecs, notify, toCallee, broken>>

\* What answers a refusal is received and not looked at.
CalleeRecvReject ==
  /\ CalleeReceives("wReject")
  /\ CalleeReturns(1)
  /\ UNCHANGED <<ahead, asel, artp, caller, inputs, acodecs, notify, toCaller, broken>>

CalleeRecvNoCodec ==
  /\ CalleeReceives("wNoCodec")
  /\ CalleeReturns(-1)
  /\ UNCHANGED <<ahead, asel, artp, caller, inputs, acodecs, notify, toCaller, broken>>

\* Mutant of CalleeRecvCodecs: the own list is walked in the outer loop, so
\* that the first codec of the called side wins.
CalleeRecvCodecsOwnFirst ==
  /\ CalleeReceives("wCodecs")
  /\ LET p == Head(toCallee)
         common == {k \in DOMAIN acodecs : \E i \in DOMAIN p.codecs : k \in Matches(p.codecs[i])}
     IN /\ p.type = "CODECTX"
        /\ \E k \in common : (\A j \in common : k <= j) /\ asel' = acodecs[k]
        /\ CalleeReplies(CodecTx(<<asel'>>), "wRtp", Running, -1)
  /\ UNCHANGED <<ahead, artp, caller, inputs, acodecs, notify, broken>>

CalleeRecvCodecs ==
  /\ CalleeReceives("wCodecs")
  /\ LET p == Head(toCallee) IN
     \/ /\ p.type = "CODECTX"
        /\ \E i \in DOMAIN p.codecs : \E k \in Matches(p.codecs[i]) :
             /\ FailBefore(p.codecs, i)
             /\ asel' = acodecs[k]
             /\ CalleeReplies(CodecTx(<<acodecs[k]>>), "wRtp", Running, -1)
     \/ /\ p.type = "CODECTX" /\ FailBefore(p.codecs, Len(p.codecs) + 1)
        /\ CalleeReplies(Plain("BYE"), "wNoCodec", Running, -1)
        /\ UNCHANGED asel
     \/ /\ p.type = "BYE"
        /\ CalleeReplies(Plain("BYE"), "done", 0, -1)
        /\ UNCHANGED asel
     \/ /\ p.type \notin {"CODECTX", "BYE"}
        /\ CalleeReturns(-1)
        /\ UNCHANGED <<asel, toCaller>>
  /\ UNCHANGED <<ahead, artp, caller, inputs, acodecs, notify, broken>>

CalleeRecvRtp ==
  /\ CalleeReceives("wRtp")
  /\ LET p == Head(toCallee) IN
     \/ /\ p.type = "RTP"
        /\ artp' = p.port
        /\ CalleeReplies(Rtp(CalleePort), "wBye", Running, -1)
     \/ /\ p.type = "BYE"
        /\ CalleeReplies(Plain("BYE"), "done", 0, -1)
        /\ UNCHANGED artp
     \/ /\ p.type \notin {"RTP", "BYE"}
        /\ CalleeReturns(-1)
        /\ UNCHANGED <<artp, toCaller>>
  /\ UNCHANGED <<ahead, asel, caller, inputs, acodecs, notify, broken>>

\* Mutant of CalleeRecvBye: the type of the last packet is not looked at.
CalleeRecvByeAny ==
  /\ CalleeReceives("wBye")
  /\ CalleeReplies(Plain("BYE"), "done", 2, -1)
  /\ UNCHANGED <<ahead, asel, artp, caller, inputs, acodecs, notify, broken>>

CalleeRecvBye ==
  /\ CalleeReceives("wBye")
  /\ IF Head(toCallee).type = "BYE"
     THEN CalleeReplies(Plain("BYE"), "done", 2, -1)
     ELSE CalleeReturns(-1) /\ UNCHANGED toCaller
  /\ UNCHANGED <<ahead, asel, artp, caller, inputs, acodecs, notify, broken>>

CalleeStep ==
  \/ Accept \/ CalleeTimesOut \/ CalleeRecvFails \/ CalleeRecvHelo
  \/ CalleeRecvUnknown \/ CalleeAnswered \/ CalleeRecvReject
  \/ CalleeRecvNoCodec \/ CalleeRecvCodecs \/ CalleeRecvRtp \/ CalleeRecvBye

-----------------------------------------------------------------------------
\* Both ends have returned, or the call never reached the called machine.
Over ==
  /\ cpc = "done"
  /\ apc = "done" \/ (apc = "listen" /\ toCallee = <<>>)
  /\ UNCHANGED vars

Next ==
  \/ CallerStep \/ UserCancels
  \/ CalleeStep
  \/ UserFilter \/ (\E answer \in BOOLEAN : ButtonClick(answer)) \/ PreferCodec
  \/ ConnectionBreaks
  \/ Over

Spec == Init /\ [][Next]_vars

\* The threads run, the interface's 500 ms timer fires, and select returns
\* for a packet that stays there to be received.
CallerRecv == CallerRecvFails \/ CallerRecvUser \/ CallerRecvCodec
                \/ CallerRecvRtp \/ CallerRecvBye
ThreadFairness ==
  /\ WF_vars(CallerStep) /\ SF_vars(CallerRecv)
  /\ WF_vars(CalleeStep)
  /\ WF_vars(UserFilter)

FairSpec == Spec /\ ThreadFairness

-----------------------------------------------------------------------------
(* Properties *)

\* Both ends are left with the same session: a caller that returns 4 has a
\* called side that returned 2, after its user (who is the one asked for, and
\* knows the caller) said yes; they hold the same payload type and each the
\* other's RTP port, although neither ever sees the other's return value.
Agreement ==
  cret = 4 =>
    /\ aret = 2
    /\ dialled = Self /\ standing = "known" /\ notify.accept
    /\ csel.payload = asel.payload
    /\ crtp = CalleePort /\ artp = CallerPort

\* The called side opens a session on its own only when the caller had come as
\* far as the last wait, and then hung up or lost the connection there: never
\* because the caller refused, ran out of codecs or was told no.
HalfOpenCall ==
  aret = 2 =>
    /\ cpc = "wBye" \/ cret = 4 \/ cret = -3 \/ (cret = -1 /\ broken)
    /\ csel.payload = asel.payload
    /\ crtp = CalleePort /\ artp = CallerPort

\* The node the caller ends up with is the very codec the called side found,
\* although it is looked up again by its payload type alone, and none the
\* caller put before it is in the list that ssip_accept walked.
CallerPriority ==
  cpc \in {"wRtp", "wBye"} \/ cret = 4 =>
    \E i \in DOMAIN clist :
      csel = clist[i] /\ csel.ms = asel.ms /\ FailBefore(clist, i)

\* How a function ended, by what it returned.
Outcome(ret, up) ==
  IF ret = Running THEN "open" ELSE IF ret = up THEN "up" ELSE "down"
Call == INSTANCE SsipCall WITH
  answer <- IF ~notify.process \/ notify.ready THEN "none"
            ELSE IF notify.accept THEN "yes" ELSE "no",
  codec  <- IF apc \in {"wRtp", "wBye"} \/ aret = 2 THEN asel ELSE NoCodec,
  callee <- Outcome(aret, 2),
  caller <- Outcome(cret, 4)
\* What SsipCall promises is what the two functions do together.
CallSpec == Call!CallSpec

\* Unless the telephone rings for ever, both functions return: none of the waits
\* of one end can outlive the other end, although those of the caller have no
\* time limit.
BothReturn ==
  []<>(apc # "ring") => <>(cret # Running /\ (aret # Running \/ apc = "listen"))

\* A caller who closes the progress dialog gets ssip_connect to return,
\* whatever the called side is doing, also while nobody answers there.
CancelHonoured == exit = 0 ~> cret # Running

-----------------------------------------------------------------------------
(* The inductive invariant behind Agreement and HalfOpenCall: while the      *)
(* caller runs, the two queues together hold one packet at most, and it      *)
(* tells how far both sides are; once the caller has returned, what it left  *)
(* behind is at most one packet of the exchange followed by ERROR.           *)

Returned ==
  /\ cpc = "done" <=> cret # Running
  /\ apc = "done" <=> aret # Running
  /\ turn = "select" => cpc \in CallerWait

\* What packets carry.
Contents ==
  /\ \A i \in DOMAIN toCallee :
       /\ toCallee[i].type = "HELO" => toCallee[i].to = dialled
       /\ toCallee[i].type = "RTP" => toCallee[i].port = CallerPort
  /\ \A i \in DOMAIN toCaller :
       toCaller[i].type = "RTP" => toCaller[i].port = CalleePort

\* Where the called side can be while the caller is at a wait.
Order ==
  /\ cpc = "start" => apc = "listen" /\ toCallee = <<>> /\ toCaller = <<>>
  /\ cpc = "wUser" => apc \in {"listen", "wHelo", "ring", "wUnknown", "wReject",
                                "wCodecs", "done"}
  /\ cpc = "wCodec" => apc \in {"wCodecs", "wNoCodec", "wRtp", "done"}
  /\ cpc = "wRtp" => apc \in {"wRtp", "wBye", "done"}
  /\ cpc = "wBye" => apc \in {"wBye", "done"}
  /\ cpc = "wDrop" => apc \in {"wCodecs", "wRtp", "done"}

\* The packet under way to the called side.
Asked ==
  cpc # "done" /\ toCallee # <<>> =>
    /\ Len(toCallee) = 1 /\ toCaller = <<>> /\ aret # 2
    /\ toCallee[1].type \in {"HELO", "CODECTX", "RTP", "BYE"}
    /\ toCallee[1].type = "HELO" => cpc = "wUser" /\ apc \in {"listen", "wHelo", "done"}
    /\ toCallee[1].type = "CODECTX" => cpc = "wCodec" /\ apc \in {"wCodecs", "done"}
    /\ toCallee[1].type = "RTP" => cpc = "wRtp" /\ apc \in {"wRtp", "done"}
    /\ toCallee[1].type = "BYE" => cpc \in {"wBye", "wDrop"}

\* The packet under way to the caller.
Told ==
  cpc # "done" /\ toCaller # <<>> =>
    /\ Len(toCaller) = 1 /\ toCallee = <<>>
    /\ toCaller[1].type \in {"VALIDUSER", "CODECTX", "RTP", "BYE"}
    /\ toCaller[1].type = "VALIDUSER" => cpc = "wUser" /\ apc \in {"wCodecs", "done"}
    /\ toCaller[1].type = "CODECTX" =>
         /\ cpc = "wCodec" /\ apc \in {"wRtp", "done"}
         /\ asel \in Codec /\ toCaller[1].codecs = <<asel>>
    /\ toCaller[1].type = "RTP" => cpc = "wRtp" /\ apc \in {"wBye", "done"}
    /\ toCaller[1].type = "BYE" =>
         IF cpc = "wBye" THEN aret = 2
         ELSE apc \in {"wUnknown", "wReject", "wNoCodec", "done"}

\* What a caller that has returned left in the queue.
LeftBehind ==
  cpc = "done" => \A i \in 2 .. Len(toCallee) : toCallee[i].type = "ERROR"

\* What the caller holds, by its place.
CallerHolds ==
  /\ cpc \in {"wRtp", "wBye"} => asel \in Codec /\ csel.payload = asel.payload
  /\ cpc = "wBye" => crtp = CalleePort
  /\ cret = 4 => aret = 2

\* What the called side holds, by its place.
Ringing ==
  /\ notify.ready => apc = "ring"
  /\ apc \in {"listen", "wHelo", "wUnknown"} => ~notify.process /\ ~notify.accept
  /\ apc = "ring" => dialled = Self /\ (notify.process \/ notify.ready)
  /\ notify.accept => notify.process /\ ~notify.ready
  /\ (notify.process /\ notify.ready) \/ notify.accept => standing = "known"
CalleeHolds ==
  /\ apc \in {"wCodecs", "wNoCodec", "wRtp", "wBye"} \/ aret = 2 =>
       dialled = Self /\ notify.accept
  /\ apc \in {"wRtp", "wBye"} \/ aret = 2 => asel \in Codec
  /\ apc = "wBye" \/ aret = 2 => artp = CallerPort

\* The called side has the caller's last BYE, or is about to get it.
CallerAgreed ==
  /\ cpc = "wBye" \/ cret = 4 \/ cret = -3 \/ (cret = -1 /\ broken)
  /\ csel.payload = asel.payload
  /\ crtp = CalleePort
Closing ==
  /\ apc = "wBye" /\ toCallee # <<>> /\ toCallee[1].type = "BYE" => CallerAgreed
  /\ aret = 2 => CallerAgreed
  /\ cpc = "wBye" /\ aret = 2 => toCaller # <<>> \/ broken

\* All of it together, kept by every step of the two threads.
IndInv ==
  /\ TypeOK /\ Returned /\ Contents /\ Order /\ Asked /\ Told /\ LeftBehind
  /\ CallerHolds /\ Ringing /\ CalleeHolds /\ Closing
=============================================================================
