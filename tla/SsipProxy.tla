----------------------------- MODULE SsipProxy ------------------------------
(***************************************************************************)
(* One call negotiated through the SSIP proxy: the child process that runs *)
(* protocol_manager (ssip_proxy.c) between the two ends of SsipNeg.  It    *)
(* finds the called user in the users' file, connects to that user's       *)
(* program, and then hands packets over, one from the called side and one  *)
(* from the caller in turn, until it has seen a BYE of each or an ERROR.   *)
(*                                                                         *)
(* Caller and Callee are SsipNeg as each end of the call sees it: the      *)
(* other end is the relay, and it has closed when the relay is over.       *)
(* Hosts and ports are rewritten on the way; the negotiation reads neither *)
(* beyond the user asked for, which is left as it is.                      *)
(***************************************************************************)
EXTENDS Integers, Sequences

CONSTANTS
  Payload, Ms, NoCodec, CallerLists, CalleeLists,   \* as in SsipNeg
  CallerPort, CalleePort, NoPort, Self, Users

ASSUME UserAssumption == Self \in Users
ASSUME CodecListAssumption ==
  CallerLists \cup CalleeLists \subseteq Seq([payload : Payload, ms : Ms])
ASSUME NoCodecAssumption == NoCodec \notin [payload : Payload, ms : Ms]

VARIABLES
  cpc, cret, clist, dialled, exit, turn, csel, crtp,          \* the caller
  apc, aret, acodecs, ahead, asel, artp, notify, standing,    \* the called side
  relay,          \* where protocol_manager is
  nextBye,        \* next_bye: it has handed a BYE over
  rret,           \* how it ended: its last packet, or what became of it
  fromCaller,     \* packets of the caller it has not received
  toCaller,       \* packets it sent to the caller
  callerBroken,   \* the connection with the caller was reset
  fromCallee,     \* packets of the called side it has not received
  toCallee,       \* packets it sent to the called side
  calleeBroken    \* the connection with the called side was reset

callerVars == <<cpc, cret, clist, dialled, exit, turn, csel, crtp>>
calleeVars == <<apc, aret, acodecs, ahead, asel, artp, notify, standing>>
relayVars == <<relay, nextBye, rret>>
callerLeg == <<fromCaller, toCaller, callerBroken>>
calleeLeg == <<fromCallee, toCallee, calleeBroken>>
vars == <<callerVars, calleeVars, relayVars, callerLeg, calleeLeg>>

\* What the caller can tell of the other end of its connection is whether it
\* has closed; the called side sees nobody before the relay connects.
RelayForCaller == IF relay = "done" THEN "done" ELSE "wHelo"
RelayForCallee == IF relay = "done" THEN "done" ELSE "wUser"

Caller == INSTANCE SsipNeg WITH
  apc <- RelayForCaller,
  toCallee <- fromCaller, broken <- callerBroken
Callee == INSTANCE SsipNeg WITH
  cpc <- RelayForCallee,
  toCaller <- fromCallee, broken <- calleeBroken

RelayPlace == {"wHelo", "wUnknown", "wCallee", "wCaller", "done"}
Ending == {"none", "helo", "unknown", "bye", "error", "errorToCaller", "errorToCallee"}

TypeOK ==
  /\ cpc \in Caller!CallerLoc /\ cret \in Caller!CallerRet
  /\ clist \in CallerLists /\ dialled \in Users
  /\ exit \in {0, 1} /\ turn \in {"exit", "select"}
  /\ csel \in Caller!Codec \cup {NoCodec} /\ crtp \in Caller!Port \cup {NoPort}
  /\ apc \in Caller!CalleeLoc /\ aret \in Caller!CalleeRet
  /\ acodecs \in Seq(Caller!Codec) /\ ahead \in Caller!Codec \cup {NoCodec}
  /\ asel \in Caller!Codec \cup {NoCodec} /\ artp \in Caller!Port \cup {NoPort}
  /\ notify \in [ready : BOOLEAN, process : BOOLEAN, accept : BOOLEAN]
  /\ standing \in {"known", "ignored", "unknown"}
  /\ relay \in RelayPlace /\ nextBye \in BOOLEAN /\ rret \in Ending
  /\ fromCaller \in Seq(Caller!Packet) /\ toCaller \in Seq(Caller!Packet)
  /\ fromCallee \in Seq(Caller!Packet) /\ toCallee \in Seq(Caller!Packet)
  /\ callerBroken \in BOOLEAN /\ calleeBroken \in BOOLEAN

Init ==
  /\ cpc = "start" /\ cret = Caller!Running
  /\ clist \in CallerLists /\ dialled \in Users
  /\ exit = 1 /\ turn = "exit" /\ csel = NoCodec /\ crtp = NoPort
  /\ apc = "listen" /\ aret = Callee!Running
  /\ acodecs \in CalleeLists /\ standing \in {"known", "ignored", "unknown"}
  /\ ahead = NoCodec /\ asel = NoCodec /\ artp = NoPort
  /\ notify = [ready |-> FALSE, process |-> FALSE, accept |-> FALSE]
  /\ fromCaller = <<>> /\ toCaller = <<>>
  /\ relay = "wHelo" /\ nextBye = FALSE /\ rret = "none"
  /\ callerBroken = FALSE
  /\ fromCallee = <<>> /\ toCallee = <<>> /\ calleeBroken = FALSE

-----------------------------------------------------------------------------
(* protocol_manager *)

\* It receives from one end, unless the connection gave out.
FromCaller(at) ==
  /\ relay = at /\ fromCaller # <<>>
  /\ fromCaller' = Tail(fromCaller)
FromCallee(at) ==
  /\ relay = at /\ fromCallee # <<>>
  /\ fromCallee' = Tail(fromCallee)
CallerGone == fromCaller = <<>> /\ (callerBroken \/ cpc = "done")
CalleeGone == fromCallee = <<>> /\ (calleeBroken \/ apc = "done")

\* A send can fail once the other end has closed or the connection is lost;
\* what is written to a lost connection goes nowhere.
CallerSendCanFail == callerBroken \/ cpc = "done"
CalleeSendCanFail == calleeBroken \/ apc = "done"
SendCaller(p) == toCaller' = IF callerBroken THEN toCaller ELSE Append(toCaller, p)
SendCallee(p) == toCallee' = IF calleeBroken THEN toCallee ELSE Append(toCallee, p)

RelayEndsWith(e) == relay' = "done" /\ rret' = e /\ UNCHANGED nextBye

\* __ERROR: the caller is sent an ERROR, whatever becomes of it.
ErrorToCaller ==
  /\ RelayEndsWith("errorToCaller")
  /\ SendCaller(Caller!Plain("ERROR")) \/ (CallerSendCanFail /\ UNCHANGED toCaller)
ErrorToCallee ==
  /\ RelayEndsWith("errorToCallee")
  /\ SendCallee(Caller!Plain("ERROR")) \/ (CalleeSendCanFail /\ UNCHANGED toCallee)

\* Mutant of HandedOver: the BYE of one end is enough.
HandedOverFirstBye(t, next) ==
  IF t \in {"BYE", "ERROR"}
  THEN relay' = "done" /\ rret' = (IF t = "BYE" THEN "bye" ELSE "error") /\ UNCHANGED nextBye
  ELSE relay' = next /\ UNCHANGED <<nextBye, rret>>

\* Mutant of HandedOver: the loop goes on with the end it has just heard.
HandedOverSameEnd(t, next) ==
  IF t = "ERROR" \/ (t = "BYE" /\ nextBye)
  THEN relay' = "done" /\ rret' = (IF t = "BYE" THEN "bye" ELSE "error") /\ UNCHANGED nextBye
  ELSE relay' = relay /\ nextBye' = (nextBye \/ t = "BYE") /\ UNCHANGED rret

\* A packet of type t has been handed over: the second BYE ends the loop, and so
\* does an ERROR; otherwise it is the turn of the other end.
HandedOver(t, next) ==
  IF t = "ERROR" \/ (t = "BYE" /\ nextBye)
  THEN relay' = "done" /\ rret' = (IF t = "BYE" THEN "bye" ELSE "error") /\ UNCHANGED nextBye
  ELSE /\ relay' = next
       /\ nextBye' = (nextBye \/ t = "BYE")
       /\ UNCHANGED rret

\* The first packet.  The users' file may be unreadable (cfgf_free of NULL ends
\* the process), not list the user, or tell where the user was: nobody may
\* answer there, and a failed send of HELO reads the message of no error.
RelayRecvHelo ==
  /\ FromCaller("wHelo")
  /\ LET p == Head(fromCaller) IN
     \/ p.type = "HELO" /\ RelayEndsWith("helo") /\ UNCHANGED <<toCaller, toCallee>>
     \/ /\ p.type = "HELO"
        /\ \/ SendCaller(Caller!Plain("BYE")) /\ relay' = "wUnknown" /\ UNCHANGED <<nextBye, rret>>
           \/ CallerSendCanFail /\ RelayEndsWith("unknown") /\ UNCHANGED toCaller
        /\ UNCHANGED toCallee
     \/ p.type = "HELO" /\ ErrorToCaller /\ UNCHANGED toCallee
     \/ /\ p.type = "HELO"
        /\ SendCallee(p) /\ relay' = "wCallee"
        /\ UNCHANGED <<nextBye, rret, toCaller>>
     \/ /\ p.type = "BYE" /\ RelayEndsWith("helo")
        /\ SendCaller(Caller!Plain("BYE")) \/ (CallerSendCanFail /\ UNCHANGED toCaller)
        /\ UNCHANGED toCallee
     \/ /\ p.type \notin {"HELO", "BYE"} /\ RelayEndsWith("helo")
        /\ UNCHANGED <<toCaller, toCallee>>
  /\ UNCHANGED <<callerVars, calleeVars, callerBroken, fromCallee, calleeBroken>>

\* The answer to the BYE about an unknown user is received and not looked at.
RelayRecvUnknown ==
  /\ FromCaller("wUnknown")
  /\ RelayEndsWith("unknown")
  /\ UNCHANGED <<callerVars, calleeVars, toCaller, callerBroken, calleeLeg>>

\* A packet of the called side goes to the caller.
RelayRecvCallee ==
  /\ FromCallee("wCallee")
  /\ LET p == Head(fromCallee) IN
     \/ SendCaller(p) /\ HandedOver(p.type, "wCaller") /\ UNCHANGED toCallee
     \/ CallerSendCanFail /\ ErrorToCallee /\ UNCHANGED toCaller
  /\ UNCHANGED <<callerVars, calleeVars, fromCaller, callerBroken, calleeBroken>>

\* A packet of the caller goes to the called side.
RelayRecvCaller ==
  /\ FromCaller("wCaller")
  /\ LET p == Head(fromCaller) IN
     \/ SendCallee(p) /\ HandedOver(p.type, "wCallee") /\ UNCHANGED toCaller
     \/ CalleeSendCanFail /\ ErrorToCaller /\ UNCHANGED toCallee
  /\ UNCHANGED <<callerVars, calleeVars, callerBroken, fromCallee, calleeBroken>>

\* Mutant of RelayRecvFails: a called side that is gone is told as a BYE, the
\* way an unknown user is.
RelayRecvFailsBye ==
  /\ \/ CallerGone /\ relay \in {"wHelo", "wUnknown"} /\ RelayEndsWith("helo")
        /\ UNCHANGED <<toCaller, toCallee>>
     \/ CallerGone /\ relay = "wCaller" /\ ErrorToCallee /\ UNCHANGED toCaller
     \/ CalleeGone /\ relay = "wCallee" /\ RelayEndsWith("bye")
        /\ SendCaller(Caller!Plain("BYE")) /\ UNCHANGED toCallee
  /\ UNCHANGED <<callerVars, calleeVars, fromCaller, callerBroken, fromCallee, calleeBroken>>

\* Mutant of RelayRecvFails: 0 bytes from the called side are not taken for its end.
RelayRecvFailsEof ==
  /\ \/ CallerGone /\ relay \in {"wHelo", "wUnknown"} /\ RelayEndsWith("helo")
        /\ UNCHANGED <<toCaller, toCallee>>
     \/ CallerGone /\ relay = "wCaller" /\ ErrorToCallee /\ UNCHANGED toCaller
     \/ CalleeGone /\ calleeBroken /\ relay = "wCallee" /\ ErrorToCaller /\ UNCHANGED toCallee
  /\ UNCHANGED <<callerVars, calleeVars, fromCaller, callerBroken, fromCallee, calleeBroken>>

\* Nothing, or part of a packet, came from the end it was waiting for.
RelayRecvFails ==
  /\ \/ CallerGone /\ relay \in {"wHelo", "wUnknown"} /\ RelayEndsWith("helo")
        /\ UNCHANGED <<toCaller, toCallee>>
     \/ CallerGone /\ relay = "wCaller" /\ ErrorToCallee /\ UNCHANGED toCaller
     \/ CalleeGone /\ relay = "wCallee" /\ ErrorToCaller /\ UNCHANGED toCallee
  /\ UNCHANGED <<callerVars, calleeVars, fromCaller, callerBroken, fromCallee, calleeBroken>>

RelayStep ==
  \/ RelayRecvHelo \/ RelayRecvUnknown \/ RelayRecvCallee \/ RelayRecvCaller
  \/ RelayRecvFails

-----------------------------------------------------------------------------
(* The two ends, and the network *)

CallerStep ==
  /\ UNCHANGED <<relayVars, apc, calleeLeg>>
  /\ Caller!CallerStep
CallerRecv ==
  /\ UNCHANGED <<relayVars, apc, calleeLeg>>
  /\ Caller!CallerRecv
UserCancels ==
  /\ UNCHANGED <<relayVars, apc, calleeLeg>>
  /\ Caller!UserCancels
CalleeStep ==
  /\ UNCHANGED <<relayVars, cpc, callerLeg>>
  /\ Callee!CalleeStep
UserFilter ==
  /\ UNCHANGED <<relayVars, cpc, callerLeg>>
  /\ Callee!UserFilter
ButtonClick ==
  /\ UNCHANGED <<relayVars, cpc, callerLeg>>
  /\ \E answer \in BOOLEAN : Callee!ButtonClick(answer)

\* A connection is reset; of what was under way only a prefix arrives.
CallerLegBreaks ==
  /\ ~callerBroken /\ cpc # "start"
  /\ cpc # "done" \/ relay # "done"
  /\ callerBroken' = TRUE
  /\ \E m \in 0 .. Len(fromCaller) : fromCaller' = SubSeq(fromCaller, 1, m)
  /\ \E n \in 0 .. Len(toCaller) : toCaller' = SubSeq(toCaller, 1, n)
  /\ UNCHANGED <<callerVars, calleeVars, relayVars, calleeLeg>>
CalleeLegBreaks ==
  /\ ~calleeBroken /\ relay \notin {"wHelo", "wUnknown"}
  /\ apc \notin {"listen", "done"} \/ relay # "done"
  /\ calleeBroken' = TRUE
  /\ \E m \in 0 .. Len(fromCallee) : fromCallee' = SubSeq(fromCallee, 1, m)
  /\ \E n \in 0 .. Len(toCallee) : toCallee' = SubSeq(toCallee, 1, n)
  /\ UNCHANGED <<callerVars, calleeVars, relayVars, callerLeg>>

\* Every process has returned, or has never been reached.
Over ==
  /\ cpc = "done"
  /\ relay = "done" \/ (relay = "wHelo" /\ fromCaller = <<>>)
  /\ apc = "done" \/ (apc = "listen" /\ toCallee = <<>>)
  /\ UNCHANGED vars

Next ==
  \/ CallerStep \/ UserCancels
  \/ RelayStep
  \/ CalleeStep \/ UserFilter \/ ButtonClick
  \/ CallerLegBreaks \/ CalleeLegBreaks
  \/ Over

Spec == Init /\ [][Next]_vars

\* The processes run, the interface's timer fires, and select returns for a
\* packet that stays there to be received.
FairSpec ==
  /\ Spec
  /\ WF_vars(CallerStep) /\ SF_vars(CallerRecv)
  /\ WF_vars(RelayStep)
  /\ WF_vars(CalleeStep) /\ WF_vars(UserFilter)

-----------------------------------------------------------------------------
(* Properties *)

\* The conversation stays in step although the relay reads the two ends in turn
\* and without a time limit: while the caller waits there is one packet under
\* way at most, on the leg and in the direction of the end whose turn it is, so
\* that the relay is never held by the end that has nothing to say.
Lockstep ==
  cpc # "done" /\ relay # "done" =>
    /\ Len(fromCaller) + Len(toCaller) + Len(fromCallee) + Len(toCallee) <= 1
    /\ relay = "wCallee" => fromCaller = <<>>
    /\ relay = "wCaller" => fromCallee = <<>> /\ toCallee = <<>>

\* The called side opens a session on its own only when the caller was at the
\* last wait or further: neither an early BYE of the relay nor its ERROR makes
\* it believe in a call that the caller has given up.
HalfOpenThroughProxy ==
  aret = 2 =>
    /\ cpc = "wBye" \/ cret = 4 \/ cret = -3 \/ (cret = -1 /\ (callerBroken \/ calleeBroken))
    /\ csel.payload = asel.payload
    /\ crtp = CalleePort /\ artp = CallerPort

\* What SsipCall promises holds through the proxy, of the sessions that the
\* relay has not ended with an ERROR to the caller.
Call == INSTANCE SsipCall WITH
  Codec <- Caller!Codec,
  answer <- IF ~notify.process \/ notify.ready THEN "none"
            ELSE IF notify.accept THEN "yes" ELSE "no",
  codec  <- IF apc \in {"wRtp", "wBye"} \/ aret = 2 THEN asel ELSE NoCodec,
  callee <- Caller!Outcome(aret, 2),
  caller <- IF cret = 4 /\ rret = "errorToCaller" THEN "down" ELSE Caller!Outcome(cret, 4)
CallSpec == Call!CallSpec

\* Unless the telephone rings for ever, no process of the call waits for ever,
\* although neither the relay nor the caller has a time limit of its own.
AllReturn ==
  []<>(apc # "ring") =>
    <>(/\ cret # Caller!Running
       /\ relay = "done" \/ (relay = "wHelo" /\ fromCaller = <<>>)
       /\ aret # Caller!Running \/ apc = "listen")
=============================================================================
