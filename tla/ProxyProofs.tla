---------------------------- MODULE ProxyProofs -----------------------------
(***************************************************************************)
(* The SSIP proxy, for any lists of codecs, users, calls and limits: the   *)
(* relay of one call (SsipProxy) stays in step with the two ends and       *)
(* implements the call of SsipCall, and the processes around it            *)
(* (ProxyManager) never read a torn file nor pass their limit.             *)
(***************************************************************************)
EXTENDS SsipProxy, ProxyManager, SequenceTheorems, FiniteSetTheorems, TLAPS

-----------------------------------------------------------------------------
(* The inductive invariant of the relay: whose turn it is, which packets can *)
(* be under way on each leg at each place of the three processes, and what   *)
(* the two ends hold by then.                                                *)

\* A process is over when it has returned.
Returned ==
  /\ cpc = "done" <=> cret # Caller!Running
  /\ apc = "done" <=> aret # Callee!Running
  /\ relay = "done" <=> rret # "none"
  /\ turn = "select" => cpc \in Caller!CallerWait

\* The packets on their way to an end carry the port of the other.
Carries(queue, port) == \A i \in DOMAIN queue : queue[i].type = "RTP" => queue[i].port = port
Contents ==
  /\ Carries(fromCaller, CallerPort) /\ Carries(toCallee, CallerPort)
  /\ Carries(fromCallee, CalleePort) /\ Carries(toCaller, CalleePort)

\* The leg of the called side has one packet at most, and only when it is the
\* turn of that side.
CalleeLeg ==
  relay # "done" =>
    /\ toCallee # <<>> => Len(toCallee) = 1 /\ fromCallee = <<>>
    /\ fromCallee # <<>> => Len(fromCallee) = 1 /\ toCallee = <<>>
    /\ relay # "wCallee" => toCallee = <<>> /\ fromCallee = <<>>
    /\ relay \in {"wHelo", "wUnknown"} => apc = "listen"
    /\ relay = "wCaller" => apc \notin {"listen", "wHelo", "ring"}
    /\ apc \in {"listen", "wHelo", "ring"} => fromCallee = <<>>
    /\ apc = "ring" => toCallee = <<>>

\* So has the leg of a caller that waits.
CallerLeg ==
  cpc # "done" =>
    /\ toCaller # <<>> => Len(toCaller) = 1 /\ (relay # "done" => fromCaller = <<>>)
    /\ relay # "done" /\ fromCaller # <<>> => Len(fromCaller) = 1
    /\ relay = "wCallee" => fromCaller = <<>> /\ toCaller = <<>>
    /\ relay = "wCaller" /\ cpc = "wBye" => toCaller = <<>>
    /\ relay = "wHelo" => toCaller = <<>> /\ cpc \in {"start", "wUser"}
    /\ relay = "wUnknown" => cpc = "wUser"
    /\ cpc = "start" => relay = "wHelo" /\ fromCaller = <<>> /\ ~callerBroken

\* What comes after the first packet is the ERROR of an end that is over.
LeftBehind ==
  /\ \A i \in 2 .. Len(toCallee) : toCallee[i].type = "ERROR"
  /\ relay # "done" => \A i \in 2 .. Len(fromCaller) : fromCaller[i].type = "ERROR"
  /\ relay = "wCallee" => \A i \in 1 .. Len(fromCaller) : fromCaller[i].type = "ERROR"

\* Whose BYE the relay has handed over.
Byes ==
  cpc # "done" =>
    /\ relay \in {"wHelo", "wUnknown"} => ~nextBye
    /\ relay = "wCallee" => (nextBye <=> cpc \in {"wBye", "wDrop"})
    /\ relay = "wCaller" /\ nextBye =>
         /\ fromCaller = <<>>
         /\ callerBroken \/ (toCaller # <<>> /\ toCaller[1].type = "BYE")

\* Where the called side can be while the caller is at a wait.
Order ==
  /\ cpc = "wUser" => apc \in {"listen", "wHelo", "ring", "wUnknown", "wReject", "wCodecs", "done"}
  /\ cpc = "wCodec" => apc \in {"wCodecs", "wNoCodec", "wRtp", "done"}
  /\ cpc = "wRtp" => apc \in {"wRtp", "wBye", "done"}
  /\ cpc = "wBye" => apc \in {"wBye", "done"}
  /\ cpc = "wDrop" => apc \in {"wCodecs", "wRtp", "done"}

\* The packet under way to the called side.
AskedFits(t) ==
  \/ t = "HELO" /\ cpc = "wUser" /\ apc \in {"listen", "wHelo", "done"}
  \/ t = "CODECTX" /\ cpc = "wCodec" /\ apc \in {"wCodecs", "done"}
  \/ t = "RTP" /\ cpc = "wRtp" /\ apc \in {"wRtp", "done"}
  \/ t = "BYE" /\ cpc \in {"wBye", "wDrop"}
Asked ==
  cpc # "done" =>
    /\ relay # "done" /\ fromCaller # <<>> => AskedFits(fromCaller[1].type)
    /\ toCallee # <<>> =>
         \/ AskedFits(toCallee[1].type)
         \/ toCallee[1].type = "ERROR" /\ relay = "done"

\* The packet under way to the caller.
ToldFits(p) ==
  \/ p.type = "VALIDUSER" /\ cpc = "wUser" /\ apc \in {"wCodecs", "done"}
  \/ /\ p.type = "CODECTX" /\ cpc = "wCodec" /\ apc \in {"wRtp", "done"}
     /\ asel \in Caller!Codec /\ p.codecs = <<asel>>
  \/ p.type = "RTP" /\ cpc = "wRtp" /\ apc \in {"wBye", "done"}
  \/ p.type = "BYE" /\ cpc = "wBye" /\ aret = 2
  \/ /\ p.type = "BYE" /\ cpc # "wBye"
     /\ relay # "done" => apc \in {"listen", "wUnknown", "wReject", "wNoCodec", "done"}
Told ==
  cpc # "done" =>
    /\ relay # "done" /\ fromCallee # <<>> => ToldFits(fromCallee[1])
    /\ toCaller # <<>> =>
         \/ toCaller[1].type = "ERROR" /\ rret = "errorToCaller"
         \/ /\ ToldFits(toCaller[1])
            /\ relay = "done" =>
                 /\ toCaller[1].type = "BYE" \/ callerBroken
                 /\ toCallee # <<>> => toCallee[1].type = "ERROR"

\* What the caller holds, by its place.
CallerHolds ==
  /\ cpc \in {"wRtp", "wBye"} => asel \in Caller!Codec /\ csel.payload = asel.payload
  /\ cpc = "wBye" => crtp = CalleePort
  /\ cpc = "wBye" /\ relay = "done" => toCaller # <<>> \/ callerBroken
  /\ cret = 4 => relay = "done" /\ (aret = 2 \/ rret = "errorToCaller")

\* What the called side holds, by its place.
Ringing ==
  /\ notify.ready => apc = "ring"
  /\ apc \in {"listen", "wHelo", "wUnknown"} => ~notify.process /\ ~notify.accept
  /\ apc = "ring" => notify.process \/ notify.ready
  /\ notify.accept => notify.process /\ ~notify.ready
CalleeHolds ==
  /\ apc \in {"wCodecs", "wNoCodec", "wRtp", "wBye"} \/ aret = 2 => notify.accept
  /\ apc \in {"wRtp", "wBye"} \/ aret = 2 => asel \in Caller!Codec
  /\ apc = "wBye" \/ aret = 2 => artp = CallerPort

\* The called side has the caller's last BYE, or is about to get it.
CallerAgreed ==
  /\ cpc = "wBye" \/ cret = 4 \/ cret = -3 \/ (cret = -1 /\ (callerBroken \/ calleeBroken))
  /\ csel.payload = asel.payload
  /\ crtp = CalleePort
Closing ==
  /\ apc = "wBye" /\ toCallee # <<>> /\ toCallee[1].type = "BYE" => CallerAgreed
  /\ apc = "wBye" /\ relay # "done" /\ fromCaller # <<>> /\ fromCaller[1].type = "BYE" => CallerAgreed
  /\ aret = 2 => CallerAgreed

ProxyInv ==
  /\ TypeOK /\ Returned /\ Contents /\ CalleeLeg /\ CallerLeg /\ LeftBehind /\ Byes /\ Order
  /\ Asked /\ Told /\ CallerHolds /\ Ringing /\ CalleeHolds /\ Closing

-----------------------------------------------------------------------------
(* Packets and queues *)

\* Both ends speak of the same codecs, packets and values.
LEMMA SameWords ==
  /\ Callee!Codec = Caller!Codec /\ Callee!Packet = Caller!Packet
  /\ Callee!Running = Caller!Running
  /\ \A t : Callee!Plain(t) = Caller!Plain(t)
  /\ \A l : Callee!CodecTx(l) = Caller!CodecTx(l)
  /\ \A p : Callee!Rtp(p) = Caller!Rtp(p)
BY DEF Callee!Codec, Caller!Codec, Callee!Packet, Caller!Packet, Callee!Type,
   Caller!Type,
   Callee!Port, Caller!Port, Callee!Running, Caller!Running, Callee!Plain, Caller!Plain,
   Callee!CodecTx, Caller!CodecTx, Callee!Rtp, Caller!Rtp

\* Every packet that is sent is a packet.
LEMMA PacketTypes ==
  /\ \A t \in Caller!Type : Caller!Plain(t) \in Caller!Packet
  /\ \A u \in Users : Caller!Helo(u) \in Caller!Packet
  /\ \A l \in Seq(Caller!Codec) : Caller!CodecTx(l) \in Caller!Packet
  /\ \A p \in Caller!Port : Caller!Rtp(p) \in Caller!Packet
<1>1. \A t \in Caller!Type : Caller!Plain(t) \in Caller!Packet
  <2> TAKE t \in Caller!Type
  <2>1. <<>> \in Seq(Caller!Codec)
    OBVIOUS
  <2> QED
    BY <2>1, UserAssumption DEF Caller!Plain, Caller!Packet
<1>2. {"HELO", "CODECTX", "RTP"} \subseteq Caller!Type
  BY DEF Caller!Type
<1>3. \A u \in Users : Caller!Helo(u) \in Caller!Packet
  BY <1>1, <1>2 DEF Caller!Helo, Caller!Packet
<1>4. \A l \in Seq(Caller!Codec) : Caller!CodecTx(l) \in Caller!Packet
  BY <1>1, <1>2 DEF Caller!CodecTx, Caller!Packet
<1>5. \A p \in Caller!Port : Caller!Rtp(p) \in Caller!Packet
  BY <1>1, <1>2 DEF Caller!Rtp, Caller!Packet
<1> QED
  BY <1>1, <1>3, <1>4, <1>5

\* What is taken from a queue is a packet, and so is the rest.
LEMMA ReceivedType ==
  ASSUME NEW q \in Seq(Caller!Packet), q # <<>>
  PROVE  /\ Tail(q) \in Seq(Caller!Packet) /\ Head(q) \in Caller!Packet
         /\ Head(q).type \in Caller!Type /\ Head(q).codecs \in Seq(Caller!Codec)
         /\ Head(q).to \in Users /\ Head(q).port \in Caller!Port \cup {NoPort}
<1>1. Tail(q) \in Seq(Caller!Packet) /\ Head(q) \in Caller!Packet
  OBVIOUS
<1> QED
  BY <1>1 DEF Caller!Packet

\* The lists of codecs.
LEMMA CodecLists ==
  CallerLists \subseteq Seq(Caller!Codec) /\ CalleeLists \subseteq Seq(Caller!Codec)
BY CodecListAssumption DEF Caller!Codec

\* What becomes of the caller's offer, without the search.
LEMMA OfferCases ==
  ASSUME TypeOK, Callee!CalleeRecvCodecs
  PROVE  /\ Callee!CalleeReceives("wCodecs")
         /\ \/ /\ Head(toCallee).type = "CODECTX" /\ asel' \in Caller!Codec
               /\ Callee!CalleeReplies(Caller!CodecTx(<<asel'>>), "wRtp", Caller!Running, -1)
            \/ /\ Head(toCallee).type = "CODECTX" /\ asel' = asel
               /\ Callee!CalleeReplies(Caller!Plain("BYE"), "wNoCodec", Caller!Running, -1)
            \/ /\ Head(toCallee).type = "BYE" /\ asel' = asel
               /\ Callee!CalleeReplies(Caller!Plain("BYE"), "done", 0, -1)
            \/ /\ Head(toCallee).type \notin {"CODECTX", "BYE"} /\ asel' = asel
               /\ Callee!CalleeReturns(-1) /\ fromCallee' = fromCallee
<1>1. \A o : \A k \in Callee!Matches(o) : acodecs[k] \in Caller!Codec
  BY DEF TypeOK, Callee!Matches
<1> QED
  BY <1>1, SameWords DEF Callee!CalleeRecvCodecs

\* What a reply of the caller changes keeps its type.
LEMMA CallerRepliesType ==
  ASSUME TypeOK, NEW p \in Caller!Packet, NEW at \in Caller!CallerLoc, NEW r \in Caller!CallerRet,
         Caller!CallerReplies(p, at, r)
  PROVE  /\ cpc' \in Caller!CallerLoc /\ cret' \in Caller!CallerRet
         /\ turn' \in {"exit", "select"} /\ fromCaller' \in Seq(Caller!Packet)
<1>1. Append(fromCaller, p) \in Seq(Caller!Packet) /\ fromCaller \in Seq(Caller!Packet)
  BY DEF TypeOK
<1>2. "done" \in Caller!CallerLoc /\ -1 \in Caller!CallerRet
  BY DEF Caller!CallerLoc, Caller!CallerRet
<1> QED
  BY <1>1, <1>2 DEF Caller!CallerReplies, Caller!CallerSends

\* The same for the called side.
LEMMA CalleeRepliesType ==
  ASSUME TypeOK, NEW p \in Caller!Packet, NEW at \in Caller!CalleeLoc, NEW r \in Caller!CalleeRet,
         NEW failed \in Caller!CalleeRet, Callee!CalleeReplies(p, at, r, failed)
  PROVE  /\ apc' \in Caller!CalleeLoc /\ aret' \in Caller!CalleeRet
         /\ fromCallee' \in Seq(Caller!Packet)
<1>1. Append(fromCallee, p) \in Seq(Caller!Packet) /\ fromCallee \in Seq(Caller!Packet)
  BY DEF TypeOK
<1>2. "done" \in Caller!CalleeLoc
  BY DEF Caller!CalleeLoc
<1> QED
  BY <1>1, <1>2 DEF Callee!CalleeReplies, Callee!CalleeSends

\* What is left when a packet is taken names the same port.
LEMMA CarriesLeft ==
  ASSUME NEW q \in Seq(Caller!Packet), NEW port, Carries(q, port), q # <<>>
  PROVE  /\ Carries(Tail(q), port)
         /\ Head(q).type = "RTP" => Head(q).port = port
BY DEF Carries
\* What is added to a queue names the same port.
LEMMA CarriesAlso ==
  ASSUME NEW q \in Seq(Caller!Packet), NEW port, Carries(q, port),
         NEW p, p.type = "RTP" => p.port = port
  PROVE  Carries(Append(q, p), port)
BY DEF Carries
\* So does what is left of it when the connection is reset.
LEMMA CarriesPrefix ==
  ASSUME NEW q \in Seq(Caller!Packet), NEW port, Carries(q, port), NEW n \in 0 .. Len(q)
  PROVE  Carries(SubSeq(q, 1, n), port)
BY DEF Carries

\* A step of the caller keeps the types.
LEMMA CallerTypes ==
  ASSUME TypeOK, CallerStep \/ UserCancels
  PROVE  TypeOK'
<1> USE DEF Caller!callee, Caller!inputs, relayVars, calleeLeg
<1>1. CASE Caller!Dial /\ UNCHANGED <<relayVars, apc, calleeLeg>>
  <2>1. /\ cpc' \in Caller!CallerLoc /\ cret' \in Caller!CallerRet
        /\ turn' \in {"exit", "select"} /\ fromCaller' \in Seq(Caller!Packet)
    BY <1>1, CodecLists, CallerRepliesType, PacketTypes, ReceivedType
       DEF TypeOK, Caller!Dial, Caller!CallerReturns, Caller!CallerReceives,
          Caller!CallerLoc, Caller!CallerRet, Caller!CallerWait, Caller!Running,
          Caller!Type, Caller!Port
  <2> QED
    BY <1>1, <2>1, ReceivedType DEF TypeOK, Caller!Dial, Caller!CallerReceives
<1>2. CASE Caller!ReadExit /\ UNCHANGED <<relayVars, apc, calleeLeg>>
  BY <1>2 DEF TypeOK, Caller!ReadExit
<1>3. CASE Caller!SelectExpires /\ UNCHANGED <<relayVars, apc, calleeLeg>>
  BY <1>3 DEF TypeOK, Caller!SelectExpires
<1>4. CASE Caller!Interrupt /\ UNCHANGED <<relayVars, apc, calleeLeg>>
  <2>1. Append(fromCaller, Caller!Plain("ERROR")) \in Seq(Caller!Packet)
    BY PacketTypes DEF TypeOK, Caller!Type
  <2> QED
    BY <1>4, <2>1 DEF TypeOK, Caller!Interrupt, Caller!CallerSends,
       Caller!CallerReturns, Caller!CallerReceives, Caller!CallerLoc,
       Caller!CallerRet, Caller!CallerWait, Caller!Running
<1>5. CASE Caller!CallerRecvFails /\ UNCHANGED <<relayVars, apc, calleeLeg>>
  BY <1>5 DEF TypeOK, Caller!CallerRecvFails, Caller!CallerReturns,
     Caller!CallerReceives, Caller!CallerLoc, Caller!CallerRet, Caller!CallerWait,
     Caller!Running
<1>6. CASE Caller!CallerRecvUser /\ UNCHANGED <<relayVars, apc, calleeLeg>>
  <2>1. /\ cpc' \in Caller!CallerLoc /\ cret' \in Caller!CallerRet
        /\ turn' \in {"exit", "select"} /\ fromCaller' \in Seq(Caller!Packet)
    BY <1>6, CodecLists, CallerRepliesType, PacketTypes, ReceivedType
       DEF TypeOK, Caller!CallerRecvUser, Caller!CallerReturns,
          Caller!CallerReceives, Caller!CallerLoc, Caller!CallerRet,
          Caller!CallerWait, Caller!Running, Caller!Type, Caller!Port
  <2> QED
    BY <1>6, <2>1, ReceivedType DEF TypeOK, Caller!CallerRecvUser,
       Caller!CallerReceives
<1>7. CASE Caller!CallerRecvCodec /\ UNCHANGED <<relayVars, apc, calleeLeg>>
  <2>1. /\ cpc' \in Caller!CallerLoc /\ cret' \in Caller!CallerRet
        /\ turn' \in {"exit", "select"} /\ fromCaller' \in Seq(Caller!Packet)
    BY <1>7, CodecLists, CallerRepliesType, PacketTypes, ReceivedType
       DEF TypeOK, Caller!CallerRecvCodec, Caller!CallerReturns,
          Caller!CallerReceives, Caller!CallerLoc, Caller!CallerRet,
          Caller!CallerWait, Caller!Running, Caller!Type, Caller!Port
  <2>2. csel' \in Caller!Codec \cup {NoCodec}
    BY <1>7, CodecLists DEF TypeOK, Caller!CallerRecvCodec, Caller!OwnCodec
  <2> QED
    BY <1>7, <2>1, <2>2, ReceivedType DEF TypeOK, Caller!CallerRecvCodec,
       Caller!CallerReceives
<1>8. CASE Caller!CallerRecvRtp /\ UNCHANGED <<relayVars, apc, calleeLeg>>
  <2>1. /\ cpc' \in Caller!CallerLoc /\ cret' \in Caller!CallerRet
        /\ turn' \in {"exit", "select"} /\ fromCaller' \in Seq(Caller!Packet)
    BY <1>8, CodecLists, CallerRepliesType, PacketTypes, ReceivedType
       DEF TypeOK, Caller!CallerRecvRtp, Caller!CallerReturns,
          Caller!CallerReceives, Caller!CallerLoc, Caller!CallerRet,
          Caller!CallerWait, Caller!Running, Caller!Type, Caller!Port
  <2> QED
    BY <1>8, <2>1, ReceivedType DEF TypeOK, Caller!CallerRecvRtp,
       Caller!CallerReceives
<1>9. CASE Caller!CallerRecvBye /\ UNCHANGED <<relayVars, apc, calleeLeg>>
  BY <1>9, ReceivedType DEF TypeOK, Caller!CallerRecvBye, Caller!CallerReturns,
     Caller!CallerReceives, Caller!CallerLoc, Caller!CallerRet, Caller!CallerWait,
     Caller!Running
<1>10. CASE Caller!CallerDrops /\ UNCHANGED <<relayVars, apc, calleeLeg>>
  BY <1>10 DEF TypeOK, Caller!CallerDrops, Caller!CallerReturns,
     Caller!CallerReceives, Caller!CallerLoc, Caller!CallerRet, Caller!CallerWait,
     Caller!Running
<1>11. CASE Caller!UserCancels /\ UNCHANGED <<relayVars, apc, calleeLeg>>
  BY <1>11 DEF TypeOK, Caller!UserCancels
<1> QED
  BY <1>1, <1>2, <1>3, <1>4, <1>5, <1>6, <1>7, <1>8, <1>9, <1>10, <1>11
     DEF CallerStep, UserCancels, Caller!CallerStep

\* A step of the called side, or of its interface, keeps the types.
LEMMA CalleeTypes ==
  ASSUME TypeOK, CalleeStep \/ UserFilter \/ ButtonClick
  PROVE  TypeOK'
<1> USE DEF Callee!caller, Callee!inputs, relayVars, callerLeg
<1>1. CASE Callee!Accept /\ UNCHANGED <<relayVars, cpc, callerLeg>>
  BY <1>1 DEF TypeOK, Callee!Accept, Caller!CalleeLoc
<1>2. CASE Callee!CalleeTimesOut /\ UNCHANGED <<relayVars, cpc, callerLeg>>
  BY <1>2 DEF TypeOK, Callee!CalleeTimesOut, Callee!CalleeReturns,
     Callee!CalleeReceives, Caller!CalleeLoc, Caller!CalleeRet
<1>3. CASE Callee!CalleeRecvFails /\ UNCHANGED <<relayVars, cpc, callerLeg>>
  BY <1>3 DEF TypeOK, Callee!CalleeRecvFails, Callee!CalleeReturns,
     Callee!CalleeReceives, Caller!CalleeLoc, Caller!CalleeRet
<1>4. CASE Callee!CalleeRecvHelo /\ UNCHANGED <<relayVars, cpc, callerLeg>>
  <2>1. /\ apc' \in Caller!CalleeLoc /\ aret' \in Caller!CalleeRet
        /\ fromCallee' \in Seq(Caller!Packet)
    BY <1>4, SameWords, CalleeRepliesType, PacketTypes, ReceivedType
       DEF TypeOK, Callee!CalleeRecvHelo, Callee!CalleeReturns,
          Callee!CalleeReceives, Caller!CalleeLoc, Caller!CalleeRet, Caller!Running,
          Caller!Type, Caller!Port
  <2>2. notify' \in [ready : BOOLEAN, process : BOOLEAN, accept : BOOLEAN]
    <3>1. notify \in [ready : BOOLEAN, process : BOOLEAN, accept : BOOLEAN]
      BY DEF TypeOK
    <3>2. \/ notify' = [ready |-> TRUE, process |-> FALSE, accept |-> FALSE]
          \/ notify' = notify
      BY <1>4 DEF Callee!CalleeRecvHelo
    <3>3. [ready |-> TRUE, process |-> FALSE, accept |-> FALSE]
            \in [ready : BOOLEAN, process : BOOLEAN, accept : BOOLEAN]
      OBVIOUS
    <3> QED
      BY <3>1, <3>2, <3>3
  <2> QED
    BY <1>4, <2>1, <2>2, ReceivedType DEF TypeOK, Callee!CalleeRecvHelo,
       Callee!CalleeReceives
<1>5. CASE Callee!CalleeRecvUnknown /\ UNCHANGED <<relayVars, cpc, callerLeg>>
  BY <1>5, ReceivedType DEF TypeOK, Callee!CalleeRecvUnknown, Callee!CalleeReturns,
     Callee!CalleeReceives, Caller!CalleeLoc, Caller!CalleeRet
<1>6. CASE Callee!CalleeAnswered /\ UNCHANGED <<relayVars, cpc, callerLeg>>
  <2>1. /\ apc' \in Caller!CalleeLoc /\ aret' \in Caller!CalleeRet
        /\ fromCallee' \in Seq(Caller!Packet)
    BY <1>6, SameWords, CalleeRepliesType, PacketTypes, ReceivedType
       DEF TypeOK, Callee!CalleeAnswered, Callee!CalleeReturns,
          Callee!CalleeReceives, Caller!CalleeLoc, Caller!CalleeRet, Caller!Running,
          Caller!Type, Caller!Port
  <2> QED
    BY <1>6, <2>1, ReceivedType DEF TypeOK, Callee!CalleeAnswered,
       Callee!CalleeReceives
<1>7. CASE Callee!CalleeRecvReject /\ UNCHANGED <<relayVars, cpc, callerLeg>>
  BY <1>7, ReceivedType DEF TypeOK, Callee!CalleeRecvReject, Callee!CalleeReturns,
     Callee!CalleeReceives, Caller!CalleeLoc, Caller!CalleeRet
<1>8. CASE Callee!CalleeRecvNoCodec /\ UNCHANGED <<relayVars, cpc, callerLeg>>
  BY <1>8, ReceivedType DEF TypeOK, Callee!CalleeRecvNoCodec, Callee!CalleeReturns,
     Callee!CalleeReceives, Caller!CalleeLoc, Caller!CalleeRet
<1>9. CASE Callee!CalleeRecvCodecs /\ UNCHANGED <<relayVars, cpc, callerLeg>>
  <2>1. toCallee' \in Seq(Caller!Packet)
    BY <1>9, ReceivedType DEF TypeOK, Callee!CalleeRecvCodecs, Callee!CalleeReceives
  <2>2. asel' \in Caller!Codec \cup {NoCodec}
    BY <1>9, OfferCases DEF TypeOK
  <2>3. /\ {"wRtp", "wNoCodec", "done"} \subseteq Caller!CalleeLoc
        /\ {Caller!Running, 0, -1} \subseteq Caller!CalleeRet
        /\ Caller!Plain("BYE") \in Caller!Packet
    BY PacketTypes DEF Caller!CalleeLoc, Caller!CalleeRet, Caller!Type, Caller!Running
  <2>4. ASSUME NEW c \in Caller!Codec PROVE Caller!CodecTx(<<c>>) \in Caller!Packet
    <3>1. <<c>> \in Seq(Caller!Codec)
      OBVIOUS
    <3> QED
      BY <3>1, PacketTypes
  <2>5. /\ apc' \in Caller!CalleeLoc /\ aret' \in Caller!CalleeRet
        /\ fromCallee' \in Seq(Caller!Packet)
    BY <1>9, <2>3, <2>4, OfferCases, CalleeRepliesType DEF TypeOK,
       Callee!CalleeReturns
  <2> QED
    BY <1>9, <2>1, <2>2, <2>5 DEF TypeOK, Callee!CalleeRecvCodecs
<1>10. CASE Callee!CalleeRecvRtp /\ UNCHANGED <<relayVars, cpc, callerLeg>>
  <2>1. /\ apc' \in Caller!CalleeLoc /\ aret' \in Caller!CalleeRet
        /\ fromCallee' \in Seq(Caller!Packet)
    BY <1>10, SameWords, CalleeRepliesType, PacketTypes, ReceivedType
       DEF TypeOK, Callee!CalleeRecvRtp, Callee!CalleeReturns,
          Callee!CalleeReceives, Caller!CalleeLoc, Caller!CalleeRet, Caller!Running,
          Caller!Type, Caller!Port
  <2> QED
    BY <1>10, <2>1, ReceivedType DEF TypeOK, Callee!CalleeRecvRtp,
       Callee!CalleeReceives
<1>11. CASE Callee!CalleeRecvBye /\ UNCHANGED <<relayVars, cpc, callerLeg>>
  <2>1. /\ apc' \in Caller!CalleeLoc /\ aret' \in Caller!CalleeRet
        /\ fromCallee' \in Seq(Caller!Packet)
    BY <1>11, SameWords, CalleeRepliesType, PacketTypes, ReceivedType
       DEF TypeOK, Callee!CalleeRecvBye, Callee!CalleeReturns,
          Callee!CalleeReceives, Caller!CalleeLoc, Caller!CalleeRet, Caller!Running,
          Caller!Type, Caller!Port
  <2> QED
    BY <1>11, <2>1, ReceivedType DEF TypeOK, Callee!CalleeRecvBye,
       Callee!CalleeReceives
<1>12. CASE Callee!UserFilter /\ UNCHANGED <<relayVars, cpc, callerLeg>>
  BY <1>12 DEF TypeOK, Callee!UserFilter, Callee!callee
<1>13. ASSUME NEW answer \in BOOLEAN, Callee!ButtonClick(answer),
              UNCHANGED <<relayVars, cpc, callerLeg>>
      PROVE  TypeOK'
  BY <1>13 DEF TypeOK, Callee!ButtonClick, Callee!callee
<1> QED
  BY <1>1, <1>2, <1>3, <1>4, <1>5, <1>6, <1>7, <1>8, <1>9, <1>10, <1>11, <1>12,
     <1>13 DEF CalleeStep, UserFilter, ButtonClick, Callee!CalleeStep

\* A step of the relay, or of the network, keeps the types.
LEMMA RelayTypes ==
  ASSUME TypeOK, RelayStep \/ CallerLegBreaks \/ CalleeLegBreaks \/ Over \/ UNCHANGED vars
  PROVE  TypeOK'
<1> USE DEF callerVars, calleeVars, callerLeg, calleeLeg, relayVars
<1>1. CASE RelayStep
  <2>1. \A t \in {"BYE", "ERROR"} : Caller!Plain(t) \in Caller!Packet
    BY PacketTypes DEF Caller!Type
  <2>2. \A q \in Seq(Caller!Packet), p \in Caller!Packet : Append(q, p) \in Seq(Caller!Packet)
    OBVIOUS
  <2>3. /\ relay' \in RelayPlace /\ nextBye' \in BOOLEAN /\ rret' \in Ending
    BY <1>1 DEF TypeOK, RelayStep, RelayRecvHelo, RelayRecvUnknown, RelayRecvCallee,
       RelayRecvCaller,
       RelayRecvFails, RelayEndsWith, ErrorToCaller, ErrorToCallee, HandedOver, RelayPlace, Ending
  <2>4. fromCaller' \in Seq(Caller!Packet) /\ fromCallee' \in Seq(Caller!Packet)
    BY <1>1, ReceivedType DEF TypeOK, RelayStep, RelayRecvHelo, RelayRecvUnknown,
       RelayRecvCallee,
       RelayRecvCaller, RelayRecvFails, FromCaller, FromCallee
  <2>5. toCaller' \in Seq(Caller!Packet)
    BY <1>1, <2>1, <2>2, ReceivedType DEF TypeOK, RelayStep, RelayRecvHelo,
       RelayRecvUnknown, RelayRecvCallee,
       RelayRecvCaller, RelayRecvFails, FromCaller, FromCallee, SendCaller, ErrorToCaller
  <2>6. toCallee' \in Seq(Caller!Packet)
    BY <1>1, <2>1, <2>2, ReceivedType DEF TypeOK, RelayStep, RelayRecvHelo,
       RelayRecvUnknown, RelayRecvCallee,
       RelayRecvCaller, RelayRecvFails, FromCaller, FromCallee, SendCallee, ErrorToCallee
  <2> QED
    BY <1>1, <2>3, <2>4, <2>5, <2>6 DEF TypeOK, RelayStep, RelayRecvHelo,
       RelayRecvUnknown, RelayRecvCallee,
       RelayRecvCaller, RelayRecvFails
<1>2. CASE CallerLegBreaks
  <2>1. fromCaller' \in Seq(Caller!Packet) /\ toCaller' \in Seq(Caller!Packet)
    BY <1>2 DEF TypeOK, CallerLegBreaks
  <2> QED
    BY <1>2, <2>1 DEF TypeOK, CallerLegBreaks
<1>3. CASE CalleeLegBreaks
  <2>1. fromCallee' \in Seq(Caller!Packet) /\ toCallee' \in Seq(Caller!Packet)
    BY <1>3 DEF TypeOK, CalleeLegBreaks
  <2> QED
    BY <1>3, <2>1 DEF TypeOK, CalleeLegBreaks
<1>4. CASE Over \/ UNCHANGED vars
  BY <1>4 DEF TypeOK, Over, vars
<1> QED
  BY <1>1, <1>2, <1>3, <1>4

\* One packet, alone in a queue.
LEMMA OnePacket ==
  ASSUME NEW q \in Seq(Caller!Packet)
  PROVE  /\ q # <<>> /\ Len(q) = 1 => Tail(q) = <<>> /\ Head(q) = q[1]
         /\ q = <<>> => \A p : Append(q, p) = <<p>>
<1>1. ASSUME q # <<>>, Len(q) = 1 PROVE Tail(q) = <<>>
  <2>2. Tail(q) \in Seq(Caller!Packet) /\ Len(Tail(q)) = Len(q) - 1
    BY <1>1, HeadTailProperties
  <2>3. Len(Tail(q)) = 0
    BY <1>1, <2>2
  <2>4. \A s \in Seq(Caller!Packet) : s # <<>> => Len(s) # 0
    BY EmptySeq
  <2> QED
    BY <2>2, <2>3, <2>4
<1>2. Len(q) = 1 => Head(q) = q[1]
  OBVIOUS
<1>3. q = <<>> => \A p : Append(q, p) = <<p>>
  OBVIOUS
<1> QED
  BY <1>1, <1>2, <1>3

\* The beginning of what was under way.
LEMMA Prefix ==
  ASSUME NEW q \in Seq(Caller!Packet), NEW n \in 0 .. Len(q), NEW r, r = SubSeq(q, 1, n), r # <<>>
  PROVE  /\ q # <<>> /\ r[1] = q[1]
         /\ Len(q) = 1 => Len(r) = 1
OBVIOUS

\* If all but the first packet tell of an error, so does what is left without it.
LEMMA TailErrors ==
  ASSUME NEW q \in Seq(Caller!Packet), q # <<>>, \A i \in 2 .. Len(q) : q[i].type = "ERROR"
  PROVE  /\ \A i \in 1 .. Len(Tail(q)) : Tail(q)[i].type = "ERROR"
         /\ Tail(q) # <<>> => Tail(q)[1].type = "ERROR"
<1>1. Len(Tail(q)) = Len(q) - 1 /\ \A i \in 1 .. Len(Tail(q)) : Tail(q)[i] = q[i + 1]
  BY HeadTailProperties
<1>2. \A i \in 1 .. Len(Tail(q)) : Tail(q)[i].type = "ERROR"
  BY <1>1
<1>3. Tail(q) # <<>> => 1 \in 1 .. Len(Tail(q))
  <2>1. Tail(q) \in Seq(Caller!Packet)
    BY HeadTailProperties
  <2>2. Tail(q) # <<>> => Len(Tail(q)) \in Nat \ {0}
    BY <2>1, EmptySeq
  <2> QED
    BY <2>2
<1> QED
  BY <1>2, <1>3

\* What the parts of the invariant say of the queues.
LEMMA Queues ==
  ASSUME ProxyInv
  PROVE  /\ fromCaller \in Seq(Caller!Packet) /\ toCaller \in Seq(Caller!Packet)
         /\ fromCallee \in Seq(Caller!Packet) /\ toCallee \in Seq(Caller!Packet)
         /\ cpc # "done" /\ toCaller # <<>> => Tail(toCaller) = <<>> /\ Head(toCaller) = toCaller[1]
         /\ cpc # "done" /\ relay # "done" /\ fromCaller # <<>> =>
              Tail(fromCaller) = <<>> /\ Head(fromCaller) = fromCaller[1]
         /\ relay # "done" /\ toCallee # <<>> => Tail(toCallee) = <<>> /\ Head(toCallee) = toCallee[1]
         /\ relay # "done" /\ fromCallee # <<>> => Tail(fromCallee) = <<>> /\ Head(fromCallee) = fromCallee[1]
         /\ fromCaller = <<>> => \A p : Append(fromCaller, p) = <<p>>
         /\ toCaller = <<>> => \A p : Append(toCaller, p) = <<p>>
         /\ fromCallee = <<>> => \A p : Append(fromCallee, p) = <<p>>
         /\ toCallee = <<>> => \A p : Append(toCallee, p) = <<p>>
<1>1. /\ fromCaller \in Seq(Caller!Packet) /\ toCaller \in Seq(Caller!Packet)
      /\ fromCallee \in Seq(Caller!Packet) /\ toCallee \in Seq(Caller!Packet)
  BY DEF ProxyInv, TypeOK
<1>2. CallerLeg /\ CalleeLeg
  BY DEF ProxyInv
<1>3. /\ cpc # "done" /\ toCaller # <<>> => Len(toCaller) = 1
      /\ cpc # "done" /\ relay # "done" /\ fromCaller # <<>> => Len(fromCaller) = 1
      /\ relay # "done" /\ toCallee # <<>> => Len(toCallee) = 1
      /\ relay # "done" /\ fromCallee # <<>> => Len(fromCallee) = 1
  BY <1>2 DEF CallerLeg, CalleeLeg
<1> QED
  BY <1>1, <1>3, OnePacket

\* Each step of the caller keeps every part of the invariant.
LEMMA CallerParts ==
  ASSUME ProxyInv, CallerStep \/ UserCancels
  PROVE  /\ Returned' /\ CalleeLeg' /\ CallerLeg' /\ LeftBehind' /\ Byes' /\ Order'
         /\ Asked' /\ Told' /\ CallerHolds' /\ Ringing' /\ CalleeHolds' /\ Closing'
<1>0. /\ fromCaller \in Seq(Caller!Packet) /\ toCaller \in Seq(Caller!Packet)
      /\ fromCallee \in Seq(Caller!Packet) /\ toCallee \in Seq(Caller!Packet)
      /\ clist \in Seq(Caller!Codec) /\ cpc \in Caller!CallerLoc /\ relay \in RelayPlace
      /\ Returned /\ Contents /\ CalleeLeg /\ CallerLeg /\ LeftBehind /\ Byes /\ Order /\ Asked
      /\ TypeOK /\ nextBye \in BOOLEAN /\ Told /\ CallerHolds /\ Ringing /\ CalleeHolds /\ Closing
  BY CodecLists DEF ProxyInv, TypeOK
<1> USE <1>0, Queues DEF Caller!Running, Callee!Running, Caller!CallerReplies,
   Caller!CallerReturns, Caller!CallerReceives, Caller!CallerSends,
   Caller!CallerSendCanFail, Caller!CallerEof, Caller!CallerWait, Caller!CallerLoc,
   RelayPlace, Caller!Plain, Caller!Helo, Caller!CodecTx, Caller!Rtp, Caller!callee,
   Caller!inputs, RelayForCaller, relayVars, calleeLeg
<1>1. CASE Caller!Dial /\ UNCHANGED <<relayVars, apc, calleeLeg>>
  <2>1. Returned'
    BY <1>1 DEF Caller!Dial, Returned
  <2>2. CalleeLeg'
    BY <1>1 DEF Caller!Dial, CalleeLeg
  <2>3. CallerLeg'
    BY <1>1 DEF Caller!Dial, CallerLeg
  <2>4. LeftBehind'
    BY <1>1 DEF Caller!Dial, LeftBehind, CalleeLeg, CallerLeg
  <2>5. Byes'
    BY <1>1 DEF Caller!Dial, Byes, CallerLeg, CalleeLeg, Asked, AskedFits, Told,
       ToldFits
  <2>6. Order'
    BY <1>1 DEF Caller!Dial, Order, Asked, AskedFits, Told, ToldFits, CalleeLeg,
       CallerLeg
  <2>7. Asked'
    BY <1>1 DEF Caller!Dial, Asked, AskedFits, Told, ToldFits, CalleeLeg, CallerLeg,
       Order, LeftBehind
  <2>8. Told'
    BY <1>1 DEF Caller!Dial, Told, ToldFits, Asked, AskedFits, CalleeLeg, CallerLeg,
       Order, Returned, LeftBehind
  <2>9. CallerHolds'
    BY <1>1 DEF Caller!Dial, CallerHolds, Told, ToldFits, CallerLeg, CalleeLeg,
       Returned
  <2>10. Ringing'
    BY <1>1 DEF Caller!Dial, Ringing, CalleeLeg, Returned
  <2>11. CalleeHolds'
    BY <1>1 DEF Caller!Dial, CalleeHolds, Ringing, Returned
  <2>12. Closing'
    BY <1>1 DEF Caller!Dial, Closing, CallerAgreed, CallerHolds, Returned, Told,
       ToldFits, Asked, AskedFits, CallerLeg, CalleeLeg, LeftBehind, Order
  <2> QED
    BY <2>1, <2>2, <2>3, <2>4, <2>5, <2>6, <2>7, <2>8, <2>9, <2>10, <2>11, <2>12
<1>2. CASE Caller!ReadExit /\ UNCHANGED <<relayVars, apc, calleeLeg>>
  BY <1>2 DEF Caller!ReadExit, Returned, CalleeLeg, CallerLeg, LeftBehind, Byes,
     Order, AskedFits, Asked, ToldFits, Told, CallerHolds, Ringing, CalleeHolds,
     CallerAgreed, Closing
<1>3. CASE Caller!SelectExpires /\ UNCHANGED <<relayVars, apc, calleeLeg>>
  BY <1>3 DEF Caller!SelectExpires, Returned, CalleeLeg, CallerLeg, LeftBehind,
     Byes, Order, AskedFits, Asked, ToldFits, Told, CallerHolds, Ringing,
     CalleeHolds, CallerAgreed, Closing
<1>4. CASE Caller!Interrupt /\ UNCHANGED <<relayVars, apc, calleeLeg>>
  <2>1. Returned'
    BY <1>4 DEF Caller!Interrupt, Returned
  <2>2. CalleeLeg'
    BY <1>4 DEF Caller!Interrupt, CalleeLeg
  <2>3. CallerLeg'
    BY <1>4 DEF Caller!Interrupt, CallerLeg
  <2>4. LeftBehind'
    BY <1>4 DEF Caller!Interrupt, LeftBehind, CalleeLeg, CallerLeg
  <2>5. Byes'
    BY <1>4 DEF Caller!Interrupt, Byes, CallerLeg, CalleeLeg, Asked, AskedFits,
       Told, ToldFits
  <2>6. Order'
    BY <1>4 DEF Caller!Interrupt, Order, Asked, AskedFits, Told, ToldFits,
       CalleeLeg, CallerLeg
  <2>7. Asked'
    BY <1>4 DEF Caller!Interrupt, Asked, AskedFits, Told, ToldFits, CalleeLeg,
       CallerLeg, Order, LeftBehind
  <2>8. Told'
    BY <1>4 DEF Caller!Interrupt, Told, ToldFits, Asked, AskedFits, CalleeLeg,
       CallerLeg, Order, Returned, LeftBehind
  <2>9. CallerHolds'
    BY <1>4 DEF Caller!Interrupt, CallerHolds, Told, ToldFits, CallerLeg, CalleeLeg,
       Returned
  <2>10. Ringing'
    BY <1>4 DEF Caller!Interrupt, Ringing, CalleeLeg, Returned
  <2>11. CalleeHolds'
    BY <1>4 DEF Caller!Interrupt, CalleeHolds, Ringing, Returned
  <2>12. Closing'
    BY <1>4 DEF Caller!Interrupt, Closing, CallerAgreed, CallerHolds, Returned,
       Told, ToldFits, Asked, AskedFits, CallerLeg, CalleeLeg, LeftBehind, Order
  <2> QED
    BY <2>1, <2>2, <2>3, <2>4, <2>5, <2>6, <2>7, <2>8, <2>9, <2>10, <2>11, <2>12
<1>5. CASE Caller!CallerRecvFails /\ UNCHANGED <<relayVars, apc, calleeLeg>>
  BY <1>5 DEF Caller!CallerRecvFails, Returned, CalleeLeg, CallerLeg, LeftBehind,
     Byes, Order, AskedFits, Asked, ToldFits, Told, CallerHolds, Ringing,
     CalleeHolds, CallerAgreed, Closing
<1>6. CASE Caller!CallerRecvUser /\ UNCHANGED <<relayVars, apc, calleeLeg>>
  <2>1. Returned'
    BY <1>6 DEF Caller!CallerRecvUser, Returned
  <2>2. CalleeLeg'
    BY <1>6 DEF Caller!CallerRecvUser, CalleeLeg
  <2>3. CallerLeg'
    BY <1>6, SMTT(30) DEF Caller!CallerRecvUser, CallerLeg, Told, ToldFits, CalleeLeg
  <2>4. LeftBehind'
    BY <1>6 DEF Caller!CallerRecvUser, LeftBehind, CalleeLeg, CallerLeg
  <2>5. Byes'
    BY <1>6 DEF Caller!CallerRecvUser, Byes, CallerLeg, CalleeLeg, Asked, AskedFits,
       Told, ToldFits
  <2>6. Order'
    BY <1>6 DEF Caller!CallerRecvUser, Order, Asked, AskedFits, Told, ToldFits,
       CalleeLeg, CallerLeg
  <2>7. Asked'
    BY <1>6 DEF Caller!CallerRecvUser, Asked, AskedFits, Told, ToldFits, CalleeLeg,
       CallerLeg, Order, LeftBehind
  <2>8. Told'
    BY <1>6 DEF Caller!CallerRecvUser, Told, ToldFits, Asked, AskedFits, CalleeLeg,
       CallerLeg, Order, Returned, LeftBehind
  <2>9. CallerHolds'
    BY <1>6 DEF Caller!CallerRecvUser, CallerHolds, Told, ToldFits, CallerLeg,
       CalleeLeg, Returned
  <2>10. Ringing'
    BY <1>6 DEF Caller!CallerRecvUser, Ringing, CalleeLeg, Returned
  <2>11. CalleeHolds'
    BY <1>6 DEF Caller!CallerRecvUser, CalleeHolds, Ringing, Returned
  <2>12. Closing'
    BY <1>6 DEF Caller!CallerRecvUser, Closing, CallerAgreed, CallerHolds, Returned,
       Told, ToldFits, Asked, AskedFits, CallerLeg, CalleeLeg, LeftBehind, Order
  <2> QED
    BY <2>1, <2>2, <2>3, <2>4, <2>5, <2>6, <2>7, <2>8, <2>9, <2>10, <2>11, <2>12
<1>7. CASE Caller!CallerRecvCodec /\ UNCHANGED <<relayVars, apc, calleeLeg>>
  <2>1. Returned'
    BY <1>7 DEF Caller!CallerRecvCodec, Caller!OwnCodec, Returned
  <2>2. CalleeLeg'
    BY <1>7 DEF Caller!CallerRecvCodec, Caller!OwnCodec, CalleeLeg
  <2>3. CallerLeg'
    BY <1>7, SMTT(30) DEF Caller!CallerRecvCodec, Caller!OwnCodec, CallerLeg
  <2>4. LeftBehind'
    BY <1>7 DEF Caller!CallerRecvCodec, Caller!OwnCodec, LeftBehind, CalleeLeg,
       CallerLeg
  <2>5. Byes'
    BY <1>7 DEF Caller!CallerRecvCodec, Caller!OwnCodec, Byes, CallerLeg, CalleeLeg,
       Asked, AskedFits, Told, ToldFits
  <2>6. Order'
    BY <1>7 DEF Caller!CallerRecvCodec, Caller!OwnCodec, Order, Asked, AskedFits,
       Told, ToldFits, CalleeLeg, CallerLeg
  <2>7. Asked'
    BY <1>7 DEF Caller!CallerRecvCodec, Caller!OwnCodec, Asked, AskedFits, Told,
       ToldFits, CalleeLeg, CallerLeg, Order, LeftBehind
  <2>8. Told'
    BY <1>7, SMTT(30) DEF Caller!CallerRecvCodec, Caller!OwnCodec, Told, ToldFits,
       Asked, AskedFits, CalleeLeg, CallerLeg, Order, Returned, LeftBehind
  <2>9. CallerHolds'
    BY <1>7 DEF Caller!CallerRecvCodec, Caller!OwnCodec, CallerHolds, Told,
       ToldFits, CallerLeg, CalleeLeg, Returned
  <2>10. Ringing'
    BY <1>7 DEF Caller!CallerRecvCodec, Caller!OwnCodec, Ringing, CalleeLeg, Returned
  <2>11. CalleeHolds'
    BY <1>7 DEF Caller!CallerRecvCodec, Caller!OwnCodec, CalleeHolds, Ringing,
       Returned
  <2>12. Closing'
    BY <1>7 DEF Caller!CallerRecvCodec, Caller!OwnCodec, Closing, CallerAgreed,
       CallerHolds, Returned, Told, ToldFits, Asked, AskedFits, CallerLeg,
       CalleeLeg, LeftBehind, Order
  <2> QED
    BY <2>1, <2>2, <2>3, <2>4, <2>5, <2>6, <2>7, <2>8, <2>9, <2>10, <2>11, <2>12
<1>8. CASE Caller!CallerRecvRtp /\ UNCHANGED <<relayVars, apc, calleeLeg>>
  <2>1. Returned'
    BY <1>8 DEF Caller!CallerRecvRtp, Returned
  <2>2. CalleeLeg'
    BY <1>8 DEF Caller!CallerRecvRtp, CalleeLeg
  <2>3. CallerLeg'
    BY <1>8, SMTT(30) DEF Caller!CallerRecvRtp, CallerLeg
  <2>4. LeftBehind'
    BY <1>8 DEF Caller!CallerRecvRtp, LeftBehind, CalleeLeg, CallerLeg
  <2>5. Byes'
    BY <1>8 DEF Caller!CallerRecvRtp, Byes, CallerLeg, CalleeLeg, Asked, AskedFits,
       Told, ToldFits
  <2>6. Order'
    BY <1>8 DEF Caller!CallerRecvRtp, Order, Asked, AskedFits, Told, ToldFits,
       CalleeLeg, CallerLeg
  <2>7. Asked'
    BY <1>8 DEF Caller!CallerRecvRtp, Asked, AskedFits, Told, ToldFits, CalleeLeg,
       CallerLeg, Order, LeftBehind
  <2>8. Told'
    BY <1>8, SMTT(30) DEF Caller!CallerRecvRtp, Told, ToldFits, Asked, AskedFits,
       CalleeLeg, CallerLeg, Order, Returned, LeftBehind
  <2>9. CallerHolds'
    BY <1>8, CarriesLeft DEF Caller!CallerRecvRtp, CallerHolds, Told, ToldFits,
       CallerLeg, CalleeLeg, Returned, Contents
  <2>10. Ringing'
    BY <1>8 DEF Caller!CallerRecvRtp, Ringing, CalleeLeg, Returned
  <2>11. CalleeHolds'
    BY <1>8 DEF Caller!CallerRecvRtp, CalleeHolds, Ringing, Returned
  <2>12. Closing'
    BY <1>8, CarriesLeft, SMTT(30) DEF Caller!CallerRecvRtp, Closing, CallerAgreed,
       CallerHolds, Returned, Told, ToldFits, Asked, AskedFits, CallerLeg,
       CalleeLeg, LeftBehind, Order, Contents
  <2> QED
    BY <2>1, <2>2, <2>3, <2>4, <2>5, <2>6, <2>7, <2>8, <2>9, <2>10, <2>11, <2>12
<1>9. CASE Caller!CallerRecvBye /\ UNCHANGED <<relayVars, apc, calleeLeg>>
  <2>1. Returned'
    BY <1>9 DEF Caller!CallerRecvBye, Returned
  <2>2. CalleeLeg'
    BY <1>9 DEF Caller!CallerRecvBye, CalleeLeg
  <2>3. CallerLeg'
    BY <1>9 DEF Caller!CallerRecvBye, CallerLeg
  <2>4. LeftBehind'
    BY <1>9 DEF Caller!CallerRecvBye, LeftBehind, CalleeLeg, CallerLeg
  <2>5. Byes'
    BY <1>9 DEF Caller!CallerRecvBye, Byes, CallerLeg, CalleeLeg, Asked, AskedFits,
       Told, ToldFits
  <2>6. Order'
    BY <1>9 DEF Caller!CallerRecvBye, Order, Asked, AskedFits, Told, ToldFits,
       CalleeLeg, CallerLeg
  <2>7. Asked'
    BY <1>9 DEF Caller!CallerRecvBye, Asked, AskedFits, Told, ToldFits, CalleeLeg,
       CallerLeg, Order, LeftBehind
  <2>8. Told'
    BY <1>9 DEF Caller!CallerRecvBye, Told, ToldFits, Asked, AskedFits, CalleeLeg,
       CallerLeg, Order, Returned, LeftBehind
  <2>9. CallerHolds'
    BY <1>9 DEF Caller!CallerRecvBye, CallerHolds, Told, ToldFits, CallerLeg,
       CalleeLeg, Returned
  <2>10. Ringing'
    BY <1>9 DEF Caller!CallerRecvBye, Ringing, CalleeLeg, Returned
  <2>11. CalleeHolds'
    BY <1>9 DEF Caller!CallerRecvBye, CalleeHolds, Ringing, Returned
  <2>12. Closing'
    BY <1>9 DEF Caller!CallerRecvBye, Closing, CallerAgreed, CallerHolds, Returned,
       Told, ToldFits, Asked, AskedFits, CallerLeg, CalleeLeg, LeftBehind, Order
  <2> QED
    BY <2>1, <2>2, <2>3, <2>4, <2>5, <2>6, <2>7, <2>8, <2>9, <2>10, <2>11, <2>12
<1>10. CASE Caller!CallerDrops /\ UNCHANGED <<relayVars, apc, calleeLeg>>
  BY <1>10 DEF Caller!CallerDrops, Returned, CalleeLeg, CallerLeg, LeftBehind, Byes,
     Order, AskedFits, Asked, ToldFits, Told, CallerHolds, Ringing, CalleeHolds,
     CallerAgreed, Closing
<1>11. CASE Caller!UserCancels /\ UNCHANGED <<relayVars, apc, calleeLeg>>
  BY <1>11 DEF Caller!UserCancels, Returned, CalleeLeg, CallerLeg, LeftBehind, Byes,
     Order, AskedFits, Asked, ToldFits, Told, CallerHolds, Ringing, CalleeHolds,
     CallerAgreed, Closing
<1> QED
  BY <1>1, <1>2, <1>3, <1>4, <1>5, <1>6, <1>7, <1>8, <1>9, <1>10, <1>11
     DEF CallerStep, UserCancels, Caller!CallerStep

\* Each step of the called side, or of its interface, keeps every part of the
\* invariant.
LEMMA CalleeParts ==
  ASSUME ProxyInv, CalleeStep \/ UserFilter \/ ButtonClick
  PROVE  /\ Returned' /\ CalleeLeg' /\ CallerLeg' /\ LeftBehind' /\ Byes' /\ Order'
         /\ Asked' /\ Told' /\ CallerHolds' /\ Ringing' /\ CalleeHolds' /\ Closing'
<1>0. /\ fromCaller \in Seq(Caller!Packet) /\ toCaller \in Seq(Caller!Packet)
      /\ fromCallee \in Seq(Caller!Packet) /\ toCallee \in Seq(Caller!Packet)
      /\ clist \in Seq(Caller!Codec) /\ cpc \in Caller!CallerLoc /\ relay \in RelayPlace
      /\ Returned /\ Contents /\ CalleeLeg /\ CallerLeg /\ LeftBehind /\ Byes /\ Order /\ Asked
      /\ TypeOK /\ nextBye \in BOOLEAN /\ Told /\ CallerHolds /\ Ringing /\ CalleeHolds /\ Closing
  BY CodecLists DEF ProxyInv, TypeOK
<1> USE <1>0, Queues DEF Caller!Running, Callee!Running, Callee!CalleeReplies,
   Callee!CalleeReturns, Callee!CalleeReceives, Callee!CalleeSends,
   Callee!CalleeSendCanFail, Callee!CalleeEof, Caller!CallerWait, Caller!CallerLoc,
   RelayPlace, Callee!Plain, Callee!Rtp, Caller!Plain, Caller!CodecTx,
   Callee!caller, Callee!inputs, RelayForCallee, relayVars, callerLeg
<1>1. CASE Callee!Accept /\ UNCHANGED <<relayVars, cpc, callerLeg>>
  BY <1>1 DEF Callee!Accept, Returned, CalleeLeg, CallerLeg, LeftBehind, Byes,
     Order, AskedFits, Asked, ToldFits, Told, CallerHolds, Ringing, CalleeHolds,
     CallerAgreed, Closing
<1>2. CASE Callee!CalleeTimesOut /\ UNCHANGED <<relayVars, cpc, callerLeg>>
  <2>1. Returned'
    BY <1>2 DEF Callee!CalleeTimesOut, Returned
  <2>2. CalleeLeg'
    BY <1>2 DEF Callee!CalleeTimesOut, CalleeLeg
  <2>3. CallerLeg'
    BY <1>2 DEF Callee!CalleeTimesOut, CallerLeg
  <2>4. LeftBehind'
    BY <1>2 DEF Callee!CalleeTimesOut, LeftBehind, CalleeLeg, CallerLeg
  <2>5. Byes'
    BY <1>2 DEF Callee!CalleeTimesOut, Byes, CallerLeg, CalleeLeg, Asked, AskedFits,
       Told, ToldFits
  <2>6. Order'
    BY <1>2 DEF Callee!CalleeTimesOut, Order, Asked, AskedFits, Told, ToldFits,
       CalleeLeg, CallerLeg
  <2>7. Asked'
    BY <1>2 DEF Callee!CalleeTimesOut, Asked, AskedFits, Told, ToldFits, CalleeLeg,
       CallerLeg, Order, LeftBehind
  <2>8. Told'
    BY <1>2 DEF Callee!CalleeTimesOut, Told, ToldFits, Asked, AskedFits, CalleeLeg,
       CallerLeg, Order, Returned, LeftBehind
  <2>9. CallerHolds'
    BY <1>2 DEF Callee!CalleeTimesOut, CallerHolds, Told, ToldFits, CallerLeg,
       CalleeLeg, Returned
  <2>10. Ringing'
    BY <1>2 DEF Callee!CalleeTimesOut, Ringing, CalleeLeg, Returned
  <2>11. CalleeHolds'
    BY <1>2 DEF Callee!CalleeTimesOut, CalleeHolds, Ringing, Returned
  <2>12. Closing'
    BY <1>2 DEF Callee!CalleeTimesOut, Closing, CallerAgreed, CallerHolds, Returned,
       Told, ToldFits, Asked, AskedFits, CallerLeg, CalleeLeg, LeftBehind, Order
  <2> QED
    BY <2>1, <2>2, <2>3, <2>4, <2>5, <2>6, <2>7, <2>8, <2>9, <2>10, <2>11, <2>12
<1>3. CASE Callee!CalleeRecvFails /\ UNCHANGED <<relayVars, cpc, callerLeg>>
  BY <1>3 DEF Callee!CalleeRecvFails, Returned, CalleeLeg, CallerLeg, LeftBehind,
     Byes, Order, AskedFits, Asked, ToldFits, Told, CallerHolds, Ringing,
     CalleeHolds, CallerAgreed, Closing
<1>4. CASE Callee!CalleeRecvHelo /\ UNCHANGED <<relayVars, cpc, callerLeg>>
  <2>1. Returned'
    BY <1>4 DEF Callee!CalleeRecvHelo, Returned
  <2>2. CalleeLeg'
    BY <1>4 DEF Callee!CalleeRecvHelo, CalleeLeg
  <2>3. CallerLeg'
    BY <1>4 DEF Callee!CalleeRecvHelo, CallerLeg
  <2>4. LeftBehind'
    BY <1>4 DEF Callee!CalleeRecvHelo, LeftBehind, CalleeLeg, CallerLeg
  <2>5. Byes'
    BY <1>4 DEF Callee!CalleeRecvHelo, Byes, CallerLeg, CalleeLeg, Asked, AskedFits,
       Told, ToldFits
  <2>6. Order'
    BY <1>4 DEF Callee!CalleeRecvHelo, Order, Asked, AskedFits, Told, ToldFits,
       CalleeLeg, CallerLeg
  <2>7. Asked'
    BY <1>4, SMTT(30) DEF Callee!CalleeRecvHelo, Asked, AskedFits, Told, ToldFits,
       CalleeLeg, CallerLeg, Order, LeftBehind
  <2>8. Told'
    BY <1>4 DEF Callee!CalleeRecvHelo, Told, ToldFits, Asked, AskedFits, CalleeLeg,
       CallerLeg, Order, Returned, LeftBehind
  <2>9. CallerHolds'
    BY <1>4 DEF Callee!CalleeRecvHelo, CallerHolds, Told, ToldFits, CallerLeg,
       CalleeLeg, Returned
  <2>10. Ringing'
    BY <1>4 DEF Callee!CalleeRecvHelo, Ringing, CalleeLeg, Returned
  <2>11. CalleeHolds'
    BY <1>4 DEF Callee!CalleeRecvHelo, CalleeHolds, Ringing, Returned
  <2>12. Closing'
    BY <1>4 DEF Callee!CalleeRecvHelo, Closing, CallerAgreed, CallerHolds, Returned,
       Told, ToldFits, Asked, AskedFits, CallerLeg, CalleeLeg, LeftBehind, Order
  <2> QED
    BY <2>1, <2>2, <2>3, <2>4, <2>5, <2>6, <2>7, <2>8, <2>9, <2>10, <2>11, <2>12
<1>5. CASE Callee!CalleeRecvUnknown /\ UNCHANGED <<relayVars, cpc, callerLeg>>
  <2>1. Returned'
    BY <1>5 DEF Callee!CalleeRecvUnknown, Returned
  <2>2. CalleeLeg'
    BY <1>5 DEF Callee!CalleeRecvUnknown, CalleeLeg
  <2>3. CallerLeg'
    BY <1>5 DEF Callee!CalleeRecvUnknown, CallerLeg
  <2>4. LeftBehind'
    BY <1>5 DEF Callee!CalleeRecvUnknown, LeftBehind, CalleeLeg, CallerLeg
  <2>5. Byes'
    BY <1>5 DEF Callee!CalleeRecvUnknown, Byes, CallerLeg, CalleeLeg, Asked,
       AskedFits, Told, ToldFits
  <2>6. Order'
    BY <1>5 DEF Callee!CalleeRecvUnknown, Order, Asked, AskedFits, Told, ToldFits,
       CalleeLeg, CallerLeg
  <2>7. Asked'
    BY <1>5 DEF Callee!CalleeRecvUnknown, Asked, AskedFits, Told, ToldFits,
       CalleeLeg, CallerLeg, Order, LeftBehind
  <2>8. Told'
    BY <1>5 DEF Callee!CalleeRecvUnknown, Told, ToldFits, Asked, AskedFits,
       CalleeLeg, CallerLeg, Order, Returned, LeftBehind
  <2>9. CallerHolds'
    BY <1>5 DEF Callee!CalleeRecvUnknown, CallerHolds, Told, ToldFits, CallerLeg,
       CalleeLeg, Returned
  <2>10. Ringing'
    BY <1>5 DEF Callee!CalleeRecvUnknown, Ringing, CalleeLeg, Returned
  <2>11. CalleeHolds'
    BY <1>5 DEF Callee!CalleeRecvUnknown, CalleeHolds, Ringing, Returned
  <2>12. Closing'
    BY <1>5 DEF Callee!CalleeRecvUnknown, Closing, CallerAgreed, CallerHolds,
       Returned, Told, ToldFits, Asked, AskedFits, CallerLeg, CalleeLeg, LeftBehind,
       Order
  <2> QED
    BY <2>1, <2>2, <2>3, <2>4, <2>5, <2>6, <2>7, <2>8, <2>9, <2>10, <2>11, <2>12
<1>6. CASE Callee!CalleeAnswered /\ UNCHANGED <<relayVars, cpc, callerLeg>>
  <2>1. Returned'
    BY <1>6 DEF Callee!CalleeAnswered, Returned
  <2>2. CalleeLeg'
    BY <1>6 DEF Callee!CalleeAnswered, CalleeLeg
  <2>3. CallerLeg'
    BY <1>6 DEF Callee!CalleeAnswered, CallerLeg
  <2>4. LeftBehind'
    BY <1>6 DEF Callee!CalleeAnswered, LeftBehind, CalleeLeg, CallerLeg
  <2>5. Byes'
    BY <1>6 DEF Callee!CalleeAnswered, Byes, CallerLeg, CalleeLeg, Asked, AskedFits,
       Told, ToldFits
  <2>6. Order'
    BY <1>6 DEF Callee!CalleeAnswered, Order, Asked, AskedFits, Told, ToldFits,
       CalleeLeg, CallerLeg
  <2>7. Asked'
    BY <1>6 DEF Callee!CalleeAnswered, Asked, AskedFits, Told, ToldFits, CalleeLeg,
       CallerLeg, Order, LeftBehind
  <2>8. Told'
    BY <1>6 DEF Callee!CalleeAnswered, Told, ToldFits, Asked, AskedFits, CalleeLeg,
       CallerLeg, Order, Returned, LeftBehind
  <2>9. CallerHolds'
    BY <1>6 DEF Callee!CalleeAnswered, CallerHolds, Told, ToldFits, CallerLeg,
       CalleeLeg, Returned
  <2>10. Ringing'
    BY <1>6 DEF Callee!CalleeAnswered, Ringing, CalleeLeg, Returned
  <2>11. CalleeHolds'
    BY <1>6 DEF Callee!CalleeAnswered, CalleeHolds, Ringing, Returned
  <2>12. Closing'
    BY <1>6 DEF Callee!CalleeAnswered, Closing, CallerAgreed, CallerHolds, Returned,
       Told, ToldFits, Asked, AskedFits, CallerLeg, CalleeLeg, LeftBehind, Order
  <2> QED
    BY <2>1, <2>2, <2>3, <2>4, <2>5, <2>6, <2>7, <2>8, <2>9, <2>10, <2>11, <2>12
<1>7. CASE Callee!CalleeRecvReject /\ UNCHANGED <<relayVars, cpc, callerLeg>>
  <2>1. Returned'
    BY <1>7 DEF Callee!CalleeRecvReject, Returned
  <2>2. CalleeLeg'
    BY <1>7 DEF Callee!CalleeRecvReject, CalleeLeg
  <2>3. CallerLeg'
    BY <1>7 DEF Callee!CalleeRecvReject, CallerLeg
  <2>4. LeftBehind'
    BY <1>7 DEF Callee!CalleeRecvReject, LeftBehind, CalleeLeg, CallerLeg
  <2>5. Byes'
    BY <1>7 DEF Callee!CalleeRecvReject, Byes, CallerLeg, CalleeLeg, Asked,
       AskedFits, Told, ToldFits
  <2>6. Order'
    BY <1>7 DEF Callee!CalleeRecvReject, Order, Asked, AskedFits, Told, ToldFits,
       CalleeLeg, CallerLeg
  <2>7. Asked'
    BY <1>7 DEF Callee!CalleeRecvReject, Asked, AskedFits, Told, ToldFits,
       CalleeLeg, CallerLeg, Order, LeftBehind
  <2>8. Told'
    BY <1>7 DEF Callee!CalleeRecvReject, Told, ToldFits, Asked, AskedFits,
       CalleeLeg, CallerLeg, Order, Returned, LeftBehind
  <2>9. CallerHolds'
    BY <1>7 DEF Callee!CalleeRecvReject, CallerHolds, Told, ToldFits, CallerLeg,
       CalleeLeg, Returned
  <2>10. Ringing'
    BY <1>7 DEF Callee!CalleeRecvReject, Ringing, CalleeLeg, Returned
  <2>11. CalleeHolds'
    BY <1>7 DEF Callee!CalleeRecvReject, CalleeHolds, Ringing, Returned
  <2>12. Closing'
    BY <1>7 DEF Callee!CalleeRecvReject, Closing, CallerAgreed, CallerHolds,
       Returned, Told, ToldFits, Asked, AskedFits, CallerLeg, CalleeLeg, LeftBehind,
       Order
  <2> QED
    BY <2>1, <2>2, <2>3, <2>4, <2>5, <2>6, <2>7, <2>8, <2>9, <2>10, <2>11, <2>12
<1>8. CASE Callee!CalleeRecvNoCodec /\ UNCHANGED <<relayVars, cpc, callerLeg>>
  <2>1. Returned'
    BY <1>8 DEF Callee!CalleeRecvNoCodec, Returned
  <2>2. CalleeLeg'
    BY <1>8 DEF Callee!CalleeRecvNoCodec, CalleeLeg
  <2>3. CallerLeg'
    BY <1>8 DEF Callee!CalleeRecvNoCodec, CallerLeg
  <2>4. LeftBehind'
    BY <1>8 DEF Callee!CalleeRecvNoCodec, LeftBehind, CalleeLeg, CallerLeg
  <2>5. Byes'
    BY <1>8 DEF Callee!CalleeRecvNoCodec, Byes, CallerLeg, CalleeLeg, Asked,
       AskedFits, Told, ToldFits
  <2>6. Order'
    BY <1>8 DEF Callee!CalleeRecvNoCodec, Order, Asked, AskedFits, Told, ToldFits,
       CalleeLeg, CallerLeg
  <2>7. Asked'
    BY <1>8 DEF Callee!CalleeRecvNoCodec, Asked, AskedFits, Told, ToldFits,
       CalleeLeg, CallerLeg, Order, LeftBehind
  <2>8. Told'
    BY <1>8 DEF Callee!CalleeRecvNoCodec, Told, ToldFits, Asked, AskedFits,
       CalleeLeg, CallerLeg, Order, Returned, LeftBehind
  <2>9. CallerHolds'
    BY <1>8 DEF Callee!CalleeRecvNoCodec, CallerHolds, Told, ToldFits, CallerLeg,
       CalleeLeg, Returned
  <2>10. Ringing'
    BY <1>8 DEF Callee!CalleeRecvNoCodec, Ringing, CalleeLeg, Returned
  <2>11. CalleeHolds'
    BY <1>8 DEF Callee!CalleeRecvNoCodec, CalleeHolds, Ringing, Returned
  <2>12. Closing'
    BY <1>8 DEF Callee!CalleeRecvNoCodec, Closing, CallerAgreed, CallerHolds,
       Returned, Told, ToldFits, Asked, AskedFits, CallerLeg, CalleeLeg, LeftBehind,
       Order
  <2> QED
    BY <2>1, <2>2, <2>3, <2>4, <2>5, <2>6, <2>7, <2>8, <2>9, <2>10, <2>11, <2>12
<1>9. CASE Callee!CalleeRecvRtp /\ UNCHANGED <<relayVars, cpc, callerLeg>>
  <2>1. Returned'
    BY <1>9 DEF Callee!CalleeRecvRtp, Returned
  <2>2. CalleeLeg'
    BY <1>9 DEF Callee!CalleeRecvRtp, CalleeLeg
  <2>3. CallerLeg'
    BY <1>9 DEF Callee!CalleeRecvRtp, CallerLeg
  <2>4. LeftBehind'
    BY <1>9 DEF Callee!CalleeRecvRtp, LeftBehind, CalleeLeg, CallerLeg
  <2>5. Byes'
    BY <1>9 DEF Callee!CalleeRecvRtp, Byes, CallerLeg, CalleeLeg, Asked, AskedFits,
       Told, ToldFits
  <2>6. Order'
    BY <1>9 DEF Callee!CalleeRecvRtp, Order, Asked, AskedFits, Told, ToldFits,
       CalleeLeg, CallerLeg
  <2>7. Asked'
    BY <1>9 DEF Callee!CalleeRecvRtp, Asked, AskedFits, Told, ToldFits, CalleeLeg,
       CallerLeg, Order, LeftBehind
  <2>8. Told'
    BY <1>9, SMTT(30) DEF Callee!CalleeRecvRtp, Told, ToldFits, Asked, AskedFits,
       CalleeLeg, CallerLeg, Order, Returned, LeftBehind
  <2>9. CallerHolds'
    BY <1>9 DEF Callee!CalleeRecvRtp, CallerHolds, Told, ToldFits, CallerLeg,
       CalleeLeg, Returned
  <2>10. Ringing'
    BY <1>9 DEF Callee!CalleeRecvRtp, Ringing, CalleeLeg, Returned
  <2>11. CalleeHolds'
    BY <1>9, CarriesLeft DEF Callee!CalleeRecvRtp, CalleeHolds, Ringing, Returned,
       Contents
  <2>12. Closing'
    <3>1. toCallee # <<>> /\ toCallee' = Tail(toCallee) /\ apc = "wRtp"
      BY <1>9 DEF Callee!CalleeRecvRtp
    <3>2. UNCHANGED <<cpc, relay, rret, fromCaller, toCaller, callerBroken>>
      BY <1>9
    <3>3. /\ \A i \in 1 .. Len(toCallee') : toCallee'[i].type = "ERROR"
          /\ toCallee' # <<>> => toCallee'[1].type = "ERROR" /\ relay = "done"
      BY <3>1, TailErrors DEF LeftBehind
    <3>4. CASE apc' = "done"
      BY <3>4, <1>9 DEF Callee!CalleeRecvRtp, Closing, CallerAgreed, Returned,
         CalleeLeg
    <3>5. CASE apc' # "done"
      <4>1. apc' = "wBye" /\ aret' # 2
        BY <3>5, <1>9 DEF Callee!CalleeRecvRtp
      <4>2. relay # "done" => relay = "wCallee"
        BY <3>1 DEF CalleeLeg
      <4>3. relay # "done" /\ fromCaller # <<>> => fromCaller[1].type = "ERROR"
        BY <4>2 DEF LeftBehind
      <4> QED
        BY <4>1, <4>3, <3>2, <3>3 DEF Closing
    <3> QED
      BY <3>4, <3>5
  <2> QED
    BY <2>1, <2>2, <2>3, <2>4, <2>5, <2>6, <2>7, <2>8, <2>9, <2>10, <2>11, <2>12
<1>10. CASE Callee!CalleeRecvBye /\ UNCHANGED <<relayVars, cpc, callerLeg>>
  <2>1. Returned'
    BY <1>10 DEF Callee!CalleeRecvBye, Returned
  <2>2. CalleeLeg'
    BY <1>10 DEF Callee!CalleeRecvBye, CalleeLeg
  <2>3. CallerLeg'
    BY <1>10 DEF Callee!CalleeRecvBye, CallerLeg
  <2>4. LeftBehind'
    BY <1>10 DEF Callee!CalleeRecvBye, LeftBehind, CalleeLeg, CallerLeg
  <2>5. Byes'
    BY <1>10 DEF Callee!CalleeRecvBye, Byes, CallerLeg, CalleeLeg, Asked, AskedFits,
       Told, ToldFits
  <2>6. Order'
    BY <1>10 DEF Callee!CalleeRecvBye, Order, Asked, AskedFits, Told, ToldFits,
       CalleeLeg, CallerLeg
  <2>7. Asked'
    BY <1>10 DEF Callee!CalleeRecvBye, Asked, AskedFits, Told, ToldFits, CalleeLeg,
       CallerLeg, Order, LeftBehind
  <2>8. Told'
    BY <1>10 DEF Callee!CalleeRecvBye, Told, ToldFits, Asked, AskedFits, CalleeLeg,
       CallerLeg, Order, Returned, LeftBehind
  <2>9. CallerHolds'
    BY <1>10 DEF Callee!CalleeRecvBye, CallerHolds, Told, ToldFits, CallerLeg,
       CalleeLeg, Returned
  <2>10. Ringing'
    BY <1>10 DEF Callee!CalleeRecvBye, Ringing, CalleeLeg, Returned
  <2>11. CalleeHolds'
    BY <1>10 DEF Callee!CalleeRecvBye, CalleeHolds, Ringing, Returned
  <2>12. Closing'
    BY <1>10 DEF Callee!CalleeRecvBye, Closing, CallerAgreed, CallerHolds, Returned,
       Told, ToldFits, Asked, AskedFits, CallerLeg, CalleeLeg, LeftBehind, Order
  <2> QED
    BY <2>1, <2>2, <2>3, <2>4, <2>5, <2>6, <2>7, <2>8, <2>9, <2>10, <2>11, <2>12
<1>11. CASE Callee!CalleeRecvCodecs /\ UNCHANGED <<relayVars, cpc, callerLeg>>
  <2>0. UNCHANGED <<ahead, artp, cret, exit, turn, csel, crtp, clist, dialled, standing,
                  acodecs, notify, calleeBroken>>
    BY <1>11 DEF Callee!CalleeRecvCodecs
  <2>1. Returned'
    BY <1>11, <2>0, OfferCases DEF Returned
  <2>2. CalleeLeg'
    BY <1>11, <2>0, OfferCases DEF CalleeLeg
  <2>3. CallerLeg'
    BY <1>11, <2>0, OfferCases DEF CallerLeg
  <2>4. LeftBehind'
    <3>1. toCallee # <<>> /\ toCallee' = Tail(toCallee) /\ apc = "wCodecs"
      BY <1>11 DEF Callee!CalleeRecvCodecs
    <3>2. UNCHANGED <<cpc, relay, rret, fromCaller, toCaller, callerBroken>>
      BY <1>11
    <3>3. /\ \A i \in 1 .. Len(toCallee') : toCallee'[i].type = "ERROR"
          /\ toCallee' # <<>> => toCallee'[1].type = "ERROR" /\ relay = "done"
      BY <3>1, TailErrors DEF LeftBehind
    <3> QED
      BY <3>1, <3>2, <3>3 DEF LeftBehind
  <2>5. Byes'
    BY <1>11, <2>0, OfferCases DEF Byes, CallerLeg, CalleeLeg, Asked, AskedFits,
       Told, ToldFits
  <2>6. Order'
    BY <1>11, <2>0, OfferCases DEF Order, Asked, AskedFits, Told, ToldFits,
       CalleeLeg, CallerLeg
  <2>7. Asked'
    <3>1. toCallee # <<>> /\ toCallee' = Tail(toCallee) /\ apc = "wCodecs"
      BY <1>11 DEF Callee!CalleeRecvCodecs
    <3>2. UNCHANGED <<cpc, relay, rret, fromCaller, toCaller, callerBroken>>
      BY <1>11
    <3>3. /\ \A i \in 1 .. Len(toCallee') : toCallee'[i].type = "ERROR"
          /\ toCallee' # <<>> => toCallee'[1].type = "ERROR" /\ relay = "done"
      BY <3>1, TailErrors DEF LeftBehind
    <3>4. cpc # "done" /\ relay # "done" => fromCaller = <<>>
      BY <3>1 DEF CalleeLeg, CallerLeg
    <3> QED
      BY <3>2, <3>3, <3>4 DEF Asked
  <2>8. Told'
    <3>1. toCallee # <<>> /\ toCallee' = Tail(toCallee) /\ apc = "wCodecs"
      BY <1>11 DEF Callee!CalleeRecvCodecs
    <3>2. UNCHANGED <<cpc, relay, rret, fromCaller, toCaller, callerBroken>>
      BY <1>11
    <3>3. /\ \A i \in 1 .. Len(toCallee') : toCallee'[i].type = "ERROR"
          /\ toCallee' # <<>> => toCallee'[1].type = "ERROR" /\ relay = "done"
      BY <3>1, TailErrors DEF LeftBehind
    <3>4. CASE cpc # "done" /\ relay # "done"
      <4>1. relay = "wCallee" /\ fromCallee = <<>> /\ toCaller = <<>> /\ AskedFits(Head(toCallee).type)
        BY <3>1, <3>4 DEF CalleeLeg, CallerLeg, Asked
      <4>2. ASSUME fromCallee' # <<>> PROVE ToldFits(fromCallee[1])'
        <5>1. \/ /\ Head(toCallee).type = "CODECTX" /\ asel' \in Caller!Codec /\ apc' = "wRtp"
                 /\ fromCallee' = <<Caller!CodecTx(<<asel'>>)>>
              \/ Head(toCallee).type = "CODECTX" /\ apc' = "wNoCodec" /\ fromCallee' = <<Caller!Plain("BYE")>>
              \/ Head(toCallee).type = "BYE" /\ apc' = "done" /\ fromCallee' = <<Caller!Plain("BYE")>>
          BY <4>1, <4>2, OfferCases, <1>11
        <5> QED
          BY <5>1, <4>1, <3>1, <3>2 DEF ToldFits, AskedFits, Order
      <4> QED
        BY <3>2, <4>1, <4>2 DEF Told
    <3>5. CASE cpc # "done" /\ relay = "done" /\ toCaller # <<>>
      <4>1. CASE toCaller[1].type = "ERROR" /\ rret = "errorToCaller"
        BY <4>1, <3>2, <3>5 DEF Told
      <4>2. CASE ToldFits(toCaller[1]) /\ (toCaller[1].type = "BYE" \/ callerBroken)
                 /\ toCallee[1].type = "ERROR"
        <5>1. Head(toCallee).type = "ERROR"
          BY <4>2, <3>1
        <5>2. apc' = "done"
          BY <5>1, OfferCases, <1>11
        <5>3. asel' = asel
          BY <5>1, OfferCases, <1>11
        <5>4. aret # 2
          BY <3>1 DEF Returned
        <5>5. ToldFits(toCaller[1])'
          BY <4>2, <3>1, <3>2, <3>5, <5>2, <5>3, <5>4 DEF ToldFits
        <5> QED
          BY <5>5, <4>2, <3>2, <3>3, <3>5 DEF Told
      <4> QED
        BY <4>1, <4>2, <3>1, <3>5 DEF Told
    <3> QED
      BY <3>2, <3>4, <3>5 DEF Told
  <2>9. CallerHolds'
    <3>1. apc = "wCodecs"
      BY <1>11 DEF Callee!CalleeRecvCodecs
    <3>2. cpc \notin {"wRtp", "wBye"} /\ (cret = 4 => relay = "done" /\ rret = "errorToCaller")
      BY <3>1 DEF Order, CallerHolds, Returned
    <3>3. UNCHANGED <<cpc, cret, relay, rret>>
      BY <1>11, <2>0
    <3> QED
      BY <3>2, <3>3 DEF CallerHolds
  <2>10. Ringing'
    BY <1>11, <2>0, OfferCases DEF Ringing, CalleeLeg, Returned
  <2>11. CalleeHolds'
    BY <1>11, <2>0, OfferCases, SMTT(30) DEF CalleeHolds, Ringing, Returned
  <2>12. Closing'
    <3>1. apc' # "wBye"
      BY OfferCases, <1>11
    <3>2. aret' # 2
      BY OfferCases, <1>11
    <3> QED
      BY <3>1, <3>2 DEF Closing
  <2> QED
    BY <2>1, <2>2, <2>3, <2>4, <2>5, <2>6, <2>7, <2>8, <2>9, <2>10, <2>11, <2>12
<1>12. CASE Callee!UserFilter /\ UNCHANGED <<relayVars, cpc, callerLeg>>
  BY <1>12 DEF Callee!UserFilter, Callee!callee, Returned, CalleeLeg, CallerLeg,
     LeftBehind, Byes, Order, AskedFits, Asked, ToldFits, Told, CallerHolds,
     Ringing, CalleeHolds, CallerAgreed, Closing
<1>13. CASE /\ \E answer \in BOOLEAN : Callee!ButtonClick(answer)
            /\ UNCHANGED <<relayVars, cpc, callerLeg>>
  BY <1>13 DEF Callee!ButtonClick, Callee!callee, Returned, CalleeLeg, CallerLeg,
     LeftBehind, Byes, Order, AskedFits, Asked, ToldFits, Told, CallerHolds,
     Ringing, CalleeHolds, CallerAgreed, Closing
<1> QED
  BY <1>1, <1>2, <1>3, <1>4, <1>5, <1>6, <1>7, <1>8, <1>9, <1>10, <1>11, <1>12,
     <1>13 DEF CalleeStep, UserFilter, ButtonClick, Callee!CalleeStep

\* So does each step of the relay, and a connection that is reset.
LEMMA RelayParts ==
  ASSUME ProxyInv, RelayStep \/ CallerLegBreaks \/ CalleeLegBreaks \/ Over \/ UNCHANGED vars
  PROVE  /\ Returned' /\ CalleeLeg' /\ CallerLeg' /\ LeftBehind' /\ Byes' /\ Order'
         /\ Asked' /\ Told' /\ CallerHolds' /\ Ringing' /\ CalleeHolds' /\ Closing'
<1>0. /\ fromCaller \in Seq(Caller!Packet) /\ toCaller \in Seq(Caller!Packet)
      /\ fromCallee \in Seq(Caller!Packet) /\ toCallee \in Seq(Caller!Packet)
      /\ clist \in Seq(Caller!Codec) /\ cpc \in Caller!CallerLoc /\ relay \in RelayPlace
      /\ Returned /\ Contents /\ CalleeLeg /\ CallerLeg /\ LeftBehind /\ Byes /\ Order /\ Asked
      /\ TypeOK /\ nextBye \in BOOLEAN /\ Told /\ CallerHolds /\ Ringing /\ CalleeHolds /\ Closing
  BY CodecLists DEF ProxyInv, TypeOK
<1> USE <1>0, Queues DEF Caller!Running, Callee!Running, RelayEndsWith,
   ErrorToCaller, ErrorToCallee, HandedOver, SendCaller, SendCallee,
   CallerSendCanFail, CalleeSendCanFail, CallerGone, CalleeGone, FromCaller,
   FromCallee, Caller!CallerWait, Caller!CallerLoc, RelayPlace, Caller!Plain,
   callerVars, calleeVars, callerLeg, calleeLeg, relayVars
<1>1. CASE RelayRecvHelo
  <2>1. Returned'
    BY <1>1 DEF RelayRecvHelo, Returned
  <2>2. CalleeLeg'
    BY <1>1 DEF RelayRecvHelo, CalleeLeg
  <2>3. CallerLeg'
    BY <1>1 DEF RelayRecvHelo, CallerLeg
  <2>4. LeftBehind'
    BY <1>1 DEF RelayRecvHelo, LeftBehind, CalleeLeg, CallerLeg
  <2>5. Byes'
    BY <1>1 DEF RelayRecvHelo, Byes, CallerLeg, CalleeLeg, Asked, AskedFits, Told,
       ToldFits
  <2>6. Order'
    BY <1>1 DEF RelayRecvHelo, Order, Asked, AskedFits, Told, ToldFits, CalleeLeg,
       CallerLeg
  <2>7. Asked'
    BY <1>1 DEF RelayRecvHelo, Asked, AskedFits, Told, ToldFits, CalleeLeg,
       CallerLeg, Order, LeftBehind
  <2>8. Told'
    BY <1>1 DEF RelayRecvHelo, Told, ToldFits, Asked, AskedFits, CalleeLeg,
       CallerLeg, Order, Returned, LeftBehind
  <2>9. CallerHolds'
    BY <1>1 DEF RelayRecvHelo, CallerHolds, Told, ToldFits, CallerLeg, CalleeLeg,
       Returned
  <2>10. Ringing'
    BY <1>1 DEF RelayRecvHelo, Ringing, CalleeLeg, Returned
  <2>11. CalleeHolds'
    BY <1>1 DEF RelayRecvHelo, CalleeHolds, Ringing, Returned
  <2>12. Closing'
    BY <1>1 DEF RelayRecvHelo, Closing, CallerAgreed, CallerHolds, Returned, Told,
       ToldFits, Asked, AskedFits, CallerLeg, CalleeLeg, LeftBehind, Order
  <2> QED
    BY <2>1, <2>2, <2>3, <2>4, <2>5, <2>6, <2>7, <2>8, <2>9, <2>10, <2>11, <2>12
<1>2. CASE RelayRecvUnknown
  <2>1. Returned'
    BY <1>2 DEF RelayRecvUnknown, Returned
  <2>2. CalleeLeg'
    BY <1>2 DEF RelayRecvUnknown, CalleeLeg
  <2>3. CallerLeg'
    BY <1>2 DEF RelayRecvUnknown, CallerLeg
  <2>4. LeftBehind'
    BY <1>2 DEF RelayRecvUnknown, LeftBehind, CalleeLeg, CallerLeg
  <2>5. Byes'
    BY <1>2 DEF RelayRecvUnknown, Byes, CallerLeg, CalleeLeg, Asked, AskedFits,
       Told, ToldFits
  <2>6. Order'
    BY <1>2 DEF RelayRecvUnknown, Order, Asked, AskedFits, Told, ToldFits,
       CalleeLeg, CallerLeg
  <2>7. Asked'
    BY <1>2 DEF RelayRecvUnknown, Asked, AskedFits, Told, ToldFits, CalleeLeg,
       CallerLeg, Order, LeftBehind
  <2>8. Told'
    BY <1>2 DEF RelayRecvUnknown, Told, ToldFits, Asked, AskedFits, CalleeLeg,
       CallerLeg, Order, Returned, LeftBehind
  <2>9. CallerHolds'
    BY <1>2 DEF RelayRecvUnknown, CallerHolds, Told, ToldFits, CallerLeg, CalleeLeg,
       Returned
  <2>10. Ringing'
    BY <1>2 DEF RelayRecvUnknown, Ringing, CalleeLeg, Returned
  <2>11. CalleeHolds'
    BY <1>2 DEF RelayRecvUnknown, CalleeHolds, Ringing, Returned
  <2>12. Closing'
    BY <1>2 DEF RelayRecvUnknown, Closing, CallerAgreed, CallerHolds, Returned,
       Told, ToldFits, Asked, AskedFits, CallerLeg, CalleeLeg, LeftBehind, Order
  <2> QED
    BY <2>1, <2>2, <2>3, <2>4, <2>5, <2>6, <2>7, <2>8, <2>9, <2>10, <2>11, <2>12
<1>3. CASE RelayRecvCallee
  <2>1. Returned'
    BY <1>3 DEF RelayRecvCallee, Returned
  <2>2. CalleeLeg'
    BY <1>3 DEF RelayRecvCallee, CalleeLeg
  <2>3. CallerLeg'
    BY <1>3 DEF RelayRecvCallee, CallerLeg, Told, ToldFits, Byes
  <2>4. LeftBehind'
    BY <1>3 DEF RelayRecvCallee, LeftBehind, CalleeLeg, CallerLeg
  <2>5. Byes'
    BY <1>3 DEF RelayRecvCallee, Byes, CallerLeg, CalleeLeg, Asked, AskedFits, Told,
       ToldFits
  <2>6. Order'
    BY <1>3 DEF RelayRecvCallee, Order, Asked, AskedFits, Told, ToldFits, CalleeLeg,
       CallerLeg
  <2>7. Asked'
    BY <1>3 DEF RelayRecvCallee, Asked, AskedFits, Told, ToldFits, CalleeLeg,
       CallerLeg, Order, LeftBehind
  <2>8. Told'
    BY <1>3 DEF RelayRecvCallee, Told, ToldFits, Asked, AskedFits, CalleeLeg,
       CallerLeg, Order, Returned, LeftBehind
  <2>9. CallerHolds'
    BY <1>3 DEF RelayRecvCallee, CallerHolds, Told, ToldFits, CallerLeg, CalleeLeg,
       Returned
  <2>10. Ringing'
    BY <1>3 DEF RelayRecvCallee, Ringing, CalleeLeg, Returned
  <2>11. CalleeHolds'
    BY <1>3 DEF RelayRecvCallee, CalleeHolds, Ringing, Returned
  <2>12. Closing'
    BY <1>3 DEF RelayRecvCallee, Closing, CallerAgreed, CallerHolds, Returned, Told,
       ToldFits, Asked, AskedFits, CallerLeg, CalleeLeg, LeftBehind, Order
  <2> QED
    BY <2>1, <2>2, <2>3, <2>4, <2>5, <2>6, <2>7, <2>8, <2>9, <2>10, <2>11, <2>12
<1>4. CASE RelayRecvCaller
  <2>1. Returned'
    BY <1>4 DEF RelayRecvCaller, Returned
  <2>2. CalleeLeg'
    BY <1>4 DEF RelayRecvCaller, CalleeLeg
  <2>3. CallerLeg'
    BY <1>4, SMTT(30) DEF RelayRecvCaller, CallerLeg
  <2>4. LeftBehind'
    BY <1>4 DEF RelayRecvCaller, LeftBehind, CalleeLeg, CallerLeg
  <2>5. Byes'
    BY <1>4 DEF RelayRecvCaller, Byes, CallerLeg, CalleeLeg, Asked, AskedFits, Told,
       ToldFits
  <2>6. Order'
    BY <1>4 DEF RelayRecvCaller, Order, Asked, AskedFits, Told, ToldFits, CalleeLeg,
       CallerLeg
  <2>7. Asked'
    BY <1>4 DEF RelayRecvCaller, Asked, AskedFits, Told, ToldFits, CalleeLeg,
       CallerLeg, Order, LeftBehind
  <2>8. Told'
    BY <1>4 DEF RelayRecvCaller, Told, ToldFits, Asked, AskedFits, CalleeLeg,
       CallerLeg, Order, Returned, LeftBehind
  <2>9. CallerHolds'
    BY <1>4 DEF RelayRecvCaller, CallerHolds, Told, ToldFits, CallerLeg, CalleeLeg,
       Returned, Byes, Asked, AskedFits
  <2>10. Ringing'
    BY <1>4 DEF RelayRecvCaller, Ringing, CalleeLeg, Returned
  <2>11. CalleeHolds'
    BY <1>4 DEF RelayRecvCaller, CalleeHolds, Ringing, Returned
  <2>12. Closing'
    BY <1>4 DEF RelayRecvCaller, Closing, CallerAgreed, CallerHolds, Returned, Told,
       ToldFits, Asked, AskedFits, CallerLeg, CalleeLeg, LeftBehind, Order
  <2> QED
    BY <2>1, <2>2, <2>3, <2>4, <2>5, <2>6, <2>7, <2>8, <2>9, <2>10, <2>11, <2>12
<1>5. CASE RelayRecvFails
  <2>1. Returned'
    BY <1>5 DEF RelayRecvFails, Returned
  <2>2. CalleeLeg'
    BY <1>5 DEF RelayRecvFails, CalleeLeg
  <2>3. CallerLeg'
    <3>1. UNCHANGED <<cpc, fromCaller, callerBroken>> /\ relay' = "done"
      BY <1>5 DEF RelayRecvFails
    <3>2. toCaller' = toCaller \/ (relay = "wCallee" /\ ErrorToCaller)
      BY <1>5 DEF RelayRecvFails
    <3>3. ErrorToCaller => toCaller' = toCaller \/ toCaller' = Append(toCaller, Caller!Plain("ERROR"))
      BY DEF ErrorToCaller, SendCaller
    <3>4. cpc = "start" => relay = "wHelo" /\ fromCaller = <<>> /\ ~callerBroken
      BY DEF CallerLeg
    <3>5. cpc # "start"
      BY <1>5, <3>4 DEF RelayRecvFails
    <3>6. ASSUME cpc # "done", toCaller' # <<>> PROVE Len(toCaller') = 1
      <4>1. CASE toCaller' = toCaller
        BY <4>1, <3>6 DEF CallerLeg
      <4>2. CASE relay = "wCallee" /\ toCaller' = Append(toCaller, Caller!Plain("ERROR"))
        <5>1. toCaller = <<>>
          BY <4>2, <3>6 DEF CallerLeg
        <5>2. toCaller' = <<Caller!Plain("ERROR")>>
          BY <4>2, <5>1
        <5> QED
          BY <5>2
      <4> QED
        BY <4>1, <4>2, <3>2, <3>3
    <3> QED
      BY <3>1, <3>5, <3>6 DEF CallerLeg
  <2>4. LeftBehind'
    BY <1>5 DEF RelayRecvFails, LeftBehind, CalleeLeg, CallerLeg
  <2>5. Byes'
    BY <1>5 DEF RelayRecvFails, Byes, CallerLeg, CalleeLeg, Asked, AskedFits, Told,
       ToldFits
  <2>6. Order'
    BY <1>5 DEF RelayRecvFails, Order, Asked, AskedFits, Told, ToldFits, CalleeLeg,
       CallerLeg
  <2>7. Asked'
    BY <1>5 DEF RelayRecvFails, Asked, AskedFits, Told, ToldFits, CalleeLeg,
       CallerLeg, Order, LeftBehind
  <2>8. Told'
    BY <1>5 DEF RelayRecvFails, Told, ToldFits, Asked, AskedFits, CalleeLeg,
       CallerLeg, Order, Returned, LeftBehind
  <2>9. CallerHolds'
    BY <1>5 DEF RelayRecvFails, CallerHolds, Told, ToldFits, CallerLeg, CalleeLeg,
       Returned
  <2>10. Ringing'
    BY <1>5 DEF RelayRecvFails, Ringing, CalleeLeg, Returned
  <2>11. CalleeHolds'
    BY <1>5 DEF RelayRecvFails, CalleeHolds, Ringing, Returned
  <2>12. Closing'
    BY <1>5 DEF RelayRecvFails, Closing, CallerAgreed, CallerHolds, Returned, Told,
       ToldFits, Asked, AskedFits, CallerLeg, CalleeLeg, LeftBehind, Order
  <2> QED
    BY <2>1, <2>2, <2>3, <2>4, <2>5, <2>6, <2>7, <2>8, <2>9, <2>10, <2>11, <2>12
<1>6. CASE CallerLegBreaks
  <2>1. Returned'
    BY <1>6 DEF CallerLegBreaks, Returned
  <2>2. CalleeLeg'
    BY <1>6 DEF CallerLegBreaks, CalleeLeg
  <2>3. CallerLeg'
    <3>1. ASSUME fromCaller' # <<>>
          PROVE  /\ fromCaller # <<>> /\ fromCaller'[1] = fromCaller[1]
                 /\ Len(fromCaller) = 1 => Len(fromCaller') = 1
      BY <1>6, <3>1, Prefix, SMTT(30) DEF CallerLegBreaks
    <3>2. ASSUME toCaller' # <<>>
          PROVE  /\ toCaller # <<>> /\ toCaller'[1] = toCaller[1]
                 /\ Len(toCaller) = 1 => Len(toCaller') = 1
      BY <1>6, <3>2, Prefix, SMTT(30) DEF CallerLegBreaks
    <3>3. UNCHANGED <<cpc, apc, relay>> /\ cpc # "start"
      BY <1>6 DEF CallerLegBreaks
    <3> QED
      BY <3>1, <3>2, <3>3 DEF CallerLeg
  <2>4. LeftBehind'
    BY <1>6 DEF CallerLegBreaks, LeftBehind, CalleeLeg, CallerLeg
  <2>5. Byes'
    BY <1>6 DEF CallerLegBreaks, Byes, CallerLeg, CalleeLeg, Asked, AskedFits, Told,
       ToldFits
  <2>6. Order'
    BY <1>6 DEF CallerLegBreaks, Order, Asked, AskedFits, Told, ToldFits, CalleeLeg,
       CallerLeg
  <2>7. Asked'
    BY <1>6 DEF CallerLegBreaks, Asked, AskedFits, Told, ToldFits, CalleeLeg,
       CallerLeg, Order, LeftBehind
  <2>8. Told'
    BY <1>6 DEF CallerLegBreaks, Told, ToldFits, Asked, AskedFits, CalleeLeg,
       CallerLeg, Order, Returned, LeftBehind
  <2>9. CallerHolds'
    BY <1>6 DEF CallerLegBreaks, CallerHolds, Told, ToldFits, CallerLeg, CalleeLeg,
       Returned
  <2>10. Ringing'
    BY <1>6 DEF CallerLegBreaks, Ringing, CalleeLeg, Returned
  <2>11. CalleeHolds'
    BY <1>6 DEF CallerLegBreaks, CalleeHolds, Ringing, Returned
  <2>12. Closing'
    BY <1>6 DEF CallerLegBreaks, Closing, CallerAgreed, CallerHolds, Returned, Told,
       ToldFits, Asked, AskedFits, CallerLeg, CalleeLeg, LeftBehind, Order
  <2> QED
    BY <2>1, <2>2, <2>3, <2>4, <2>5, <2>6, <2>7, <2>8, <2>9, <2>10, <2>11, <2>12
<1>7. CASE CalleeLegBreaks
  <2>1. Returned'
    BY <1>7 DEF CalleeLegBreaks, Returned
  <2>2. CalleeLeg'
    <3>1. ASSUME fromCallee' # <<>>
          PROVE  /\ fromCallee # <<>> /\ fromCallee'[1] = fromCallee[1]
                 /\ Len(fromCallee) = 1 => Len(fromCallee') = 1
      BY <1>7, <3>1, Prefix, SMTT(30) DEF CalleeLegBreaks
    <3>2. ASSUME toCallee' # <<>>
          PROVE  /\ toCallee # <<>> /\ toCallee'[1] = toCallee[1]
                 /\ Len(toCallee) = 1 => Len(toCallee') = 1
      BY <1>7, <3>2, Prefix, SMTT(30) DEF CalleeLegBreaks
    <3>3. UNCHANGED <<cpc, apc, relay>> /\ relay \notin {"wHelo", "wUnknown"}
      BY <1>7 DEF CalleeLegBreaks
    <3> QED
      BY <3>1, <3>2, <3>3 DEF CalleeLeg
  <2>3. CallerLeg'
    BY <1>7 DEF CalleeLegBreaks, CallerLeg
  <2>4. LeftBehind'
    BY <1>7 DEF CalleeLegBreaks, LeftBehind, CalleeLeg, CallerLeg
  <2>5. Byes'
    BY <1>7 DEF CalleeLegBreaks, Byes, CallerLeg, CalleeLeg, Asked, AskedFits, Told,
       ToldFits
  <2>6. Order'
    BY <1>7 DEF CalleeLegBreaks, Order, Asked, AskedFits, Told, ToldFits, CalleeLeg,
       CallerLeg
  <2>7. Asked'
    BY <1>7 DEF CalleeLegBreaks, Asked, AskedFits, Told, ToldFits, CalleeLeg,
       CallerLeg, Order, LeftBehind
  <2>8. Told'
    BY <1>7, SMTT(30) DEF CalleeLegBreaks, Told, ToldFits, Asked, AskedFits,
       CalleeLeg, CallerLeg, Order, Returned, LeftBehind
  <2>9. CallerHolds'
    BY <1>7 DEF CalleeLegBreaks, CallerHolds, Told, ToldFits, CallerLeg, CalleeLeg,
       Returned
  <2>10. Ringing'
    BY <1>7 DEF CalleeLegBreaks, Ringing, CalleeLeg, Returned
  <2>11. CalleeHolds'
    BY <1>7 DEF CalleeLegBreaks, CalleeHolds, Ringing, Returned
  <2>12. Closing'
    BY <1>7 DEF CalleeLegBreaks, Closing, CallerAgreed, CallerHolds, Returned, Told,
       ToldFits, Asked, AskedFits, CallerLeg, CalleeLeg, LeftBehind, Order
  <2> QED
    BY <2>1, <2>2, <2>3, <2>4, <2>5, <2>6, <2>7, <2>8, <2>9, <2>10, <2>11, <2>12
<1>8. CASE Over \/ UNCHANGED vars
  <2>1. Returned'
    BY <1>8 DEF Over, vars, Returned
  <2>2. CalleeLeg'
    BY <1>8 DEF Over, vars, CalleeLeg
  <2>3. CallerLeg'
    BY <1>8 DEF Over, vars, CallerLeg
  <2>4. LeftBehind'
    BY <1>8 DEF Over, vars, LeftBehind, CalleeLeg, CallerLeg
  <2>5. Byes'
    BY <1>8 DEF Over, vars, Byes, CallerLeg, CalleeLeg, Asked, AskedFits, Told,
       ToldFits
  <2>6. Order'
    BY <1>8 DEF Over, vars, Order, Asked, AskedFits, Told, ToldFits, CalleeLeg,
       CallerLeg
  <2>7. Asked'
    BY <1>8 DEF Over, vars, Asked, AskedFits, Told, ToldFits, CalleeLeg, CallerLeg,
       Order, LeftBehind
  <2>8. Told'
    BY <1>8 DEF Over, vars, Told, ToldFits, Asked, AskedFits, CalleeLeg, CallerLeg,
       Order, Returned, LeftBehind
  <2>9. CallerHolds'
    BY <1>8 DEF Over, vars, CallerHolds, Told, ToldFits, CallerLeg, CalleeLeg,
       Returned
  <2>10. Ringing'
    BY <1>8 DEF Over, vars, Ringing, CalleeLeg, Returned
  <2>11. CalleeHolds'
    BY <1>8 DEF Over, vars, CalleeHolds, Ringing, Returned
  <2>12. Closing'
    BY <1>8 DEF Over, vars, Closing, CallerAgreed, CallerHolds, Returned, Told,
       ToldFits, Asked, AskedFits, CallerLeg, CalleeLeg, LeftBehind, Order
  <2> QED
    BY <2>1, <2>2, <2>3, <2>4, <2>5, <2>6, <2>7, <2>8, <2>9, <2>10, <2>11, <2>12
<1> QED
  BY <1>1, <1>2, <1>3, <1>4, <1>5, <1>6, <1>7, <1>8 DEF RelayStep

\* What the packets that are sent say of a port.
LEMMA SentPorts ==
  /\ \A t : Caller!Plain(t).type = t
  /\ \A u : Caller!Helo(u).type = "HELO"
  /\ \A l : Caller!CodecTx(l).type = "CODECTX"
  /\ \A port : Caller!Rtp(port).port = port
BY DEF Caller!Plain, Caller!Helo, Caller!CodecTx, Caller!Rtp

\* A queue of which one packet is taken, or to which one is added, carries the
\* same port.
LEMMA CarriesOn ==
  ASSUME NEW q \in Seq(Caller!Packet), NEW port, Carries(q, port), NEW r,
         \/ r = q
         \/ q # <<>> /\ r = Tail(q)
         \/ \E p : r = Append(q, p) /\ (p.type = "RTP" => p.port = port)
         \/ \E n \in 0 .. Len(q) : r = SubSeq(q, 1, n)
  PROVE  Carries(r, port)
BY CarriesLeft, CarriesAlso, CarriesPrefix

\* The packets that the caller sends name its port.
LEMMA CallerContents ==
  ASSUME ProxyInv, CallerStep \/ UserCancels
  PROVE  Contents'
<1>0. Contents /\ fromCaller \in Seq(Caller!Packet) /\ toCaller \in Seq(Caller!Packet)
  BY DEF ProxyInv, TypeOK
<1>1. fromCallee' = fromCallee /\ toCallee' = toCallee
  BY DEF CallerStep, UserCancels, calleeLeg
<1>2. toCaller' = toCaller \/ (toCaller # <<>> /\ toCaller' = Tail(toCaller))
  BY DEF CallerStep, UserCancels, Caller!CallerStep, Caller!UserCancels,
     Caller!Dial, Caller!ReadExit, Caller!SelectExpires, Caller!Interrupt,
     Caller!CallerRecvFails, Caller!CallerRecvUser, Caller!CallerRecvCodec,
     Caller!CallerRecvRtp, Caller!CallerRecvBye, Caller!CallerDrops,
     Caller!CallerReturns, Caller!CallerReceives
<1>3. \/ fromCaller' = fromCaller
      \/ \E p : fromCaller' = Append(fromCaller, p) /\ (p.type = "RTP" => p.port = CallerPort)
  <2>1. ASSUME NEW p, NEW at, NEW r, p.type = "RTP" => p.port = CallerPort,
               Caller!CallerReplies(p, at, r)
        PROVE  \/ fromCaller' = fromCaller
               \/ \E m : fromCaller' = Append(fromCaller, m) /\ (m.type = "RTP" => m.port = CallerPort)
    BY <2>1 DEF Caller!CallerReplies, Caller!CallerSends
  <2>2. CASE Caller!Interrupt
    BY <2>2, SentPorts DEF Caller!Interrupt, Caller!CallerSends
  <2>3. CASE ~Caller!Interrupt
    BY <2>1, <2>3, SentPorts DEF CallerStep, UserCancels, Caller!CallerStep,
       Caller!UserCancels, Caller!Dial, Caller!ReadExit, Caller!SelectExpires,
       Caller!CallerRecvFails, Caller!CallerRecvUser, Caller!CallerRecvCodec,
       Caller!CallerRecvRtp, Caller!CallerRecvBye, Caller!CallerDrops,
       Caller!CallerReturns, Caller!CallerReceives
  <2> QED
    BY <2>2, <2>3
<1> QED
  BY <1>0, <1>1, <1>2, <1>3, CarriesOn DEF Contents

\* The packets that the called side sends name its port.
LEMMA CalleeContents ==
  ASSUME ProxyInv, CalleeStep \/ UserFilter \/ ButtonClick
  PROVE  Contents'
<1>0. Contents /\ fromCallee \in Seq(Caller!Packet) /\ toCallee \in Seq(Caller!Packet)
  BY DEF ProxyInv, TypeOK
<1>1. fromCaller' = fromCaller /\ toCaller' = toCaller
  BY DEF CalleeStep, UserFilter, ButtonClick, callerLeg
<1>2. toCallee' = toCallee \/ (toCallee # <<>> /\ toCallee' = Tail(toCallee))
  BY DEF CalleeStep, UserFilter, ButtonClick, Callee!CalleeStep,
     Callee!UserFilter, Callee!ButtonClick, Callee!Accept, Callee!CalleeTimesOut,
     Callee!CalleeRecvFails, Callee!CalleeRecvHelo, Callee!CalleeRecvUnknown,
     Callee!CalleeAnswered, Callee!CalleeRecvReject, Callee!CalleeRecvCodecs,
     Callee!CalleeRecvNoCodec, Callee!CalleeRecvRtp, Callee!CalleeRecvBye,
     Callee!CalleeReturns, Callee!CalleeReceives
<1>3. \/ fromCallee' = fromCallee
      \/ \E p : fromCallee' = Append(fromCallee, p) /\ (p.type = "RTP" => p.port = CalleePort)
  <2>1. ASSUME NEW p, NEW at, NEW r, NEW failed, p.type = "RTP" => p.port = CalleePort,
               Callee!CalleeReplies(p, at, r, failed)
        PROVE  \/ fromCallee' = fromCallee
               \/ \E m : fromCallee' = Append(fromCallee, m) /\ (m.type = "RTP" => m.port = CalleePort)
    BY <2>1 DEF Callee!CalleeReplies, Callee!CalleeSends
  <2>2. CASE Callee!CalleeRecvCodecs
    BY <2>1, <2>2, OfferCases, SentPorts, SameWords DEF ProxyInv
  <2>3. CASE ~Callee!CalleeRecvCodecs
    BY <2>1, <2>3, SentPorts, SameWords DEF CalleeStep, UserFilter, ButtonClick,
       Callee!CalleeStep, Callee!UserFilter, Callee!ButtonClick, Callee!Accept,
       Callee!CalleeTimesOut, Callee!CalleeRecvFails, Callee!CalleeRecvHelo,
       Callee!CalleeRecvUnknown, Callee!CalleeAnswered, Callee!CalleeRecvReject,
       Callee!CalleeRecvNoCodec, Callee!CalleeRecvRtp, Callee!CalleeRecvBye,
       Callee!CalleeReturns, Callee!CalleeReceives, Callee!callee
  <2> QED
    BY <2>2, <2>3
<1> QED
  BY <1>0, <1>1, <1>2, <1>3, CarriesOn DEF Contents

\* The relay hands over what it received, and a reset only loses packets.
LEMMA RelayContents ==
  ASSUME ProxyInv, RelayStep \/ CallerLegBreaks \/ CalleeLegBreaks \/ Over \/ UNCHANGED vars
  PROVE  Contents'
<1> USE DEF callerLeg, calleeLeg
<1>0. /\ fromCaller \in Seq(Caller!Packet) /\ toCaller \in Seq(Caller!Packet)
      /\ fromCallee \in Seq(Caller!Packet) /\ toCallee \in Seq(Caller!Packet)
      /\ Carries(fromCaller, CallerPort) /\ Carries(toCallee, CallerPort)
      /\ Carries(fromCallee, CalleePort) /\ Carries(toCaller, CalleePort)
  BY DEF ProxyInv, TypeOK, Contents
<1>1. CASE RelayStep
  <2>1. /\ fromCaller # <<>> /\ Head(fromCaller).type = "RTP" => Head(fromCaller).port = CallerPort
        /\ fromCallee # <<>> /\ Head(fromCallee).type = "RTP" => Head(fromCallee).port = CalleePort
    BY <1>0, CarriesLeft
  <2>2. fromCaller' = fromCaller \/ (fromCaller # <<>> /\ fromCaller' = Tail(fromCaller))
    BY <1>1 DEF RelayStep, RelayRecvHelo, RelayRecvUnknown, RelayRecvCallee,
       RelayRecvCaller,
       RelayRecvFails, FromCaller
  <2>3. fromCallee' = fromCallee \/ (fromCallee # <<>> /\ fromCallee' = Tail(fromCallee))
    BY <1>1 DEF RelayStep, RelayRecvHelo, RelayRecvUnknown, RelayRecvCallee,
       RelayRecvCaller,
       RelayRecvFails, FromCallee
  <2>4. \/ toCaller' = toCaller
        \/ \E p : toCaller' = Append(toCaller, p) /\ (p.type = "RTP" => p.port = CalleePort)
    BY <1>1, <2>1, SentPorts DEF RelayStep, RelayRecvHelo, RelayRecvUnknown,
       RelayRecvCallee,
       RelayRecvCaller, RelayRecvFails, FromCallee, SendCaller, ErrorToCaller
  <2>5. \/ toCallee' = toCallee
        \/ \E p : toCallee' = Append(toCallee, p) /\ (p.type = "RTP" => p.port = CallerPort)
    BY <1>1, <2>1, SentPorts DEF RelayStep, RelayRecvHelo, RelayRecvUnknown,
       RelayRecvCallee,
       RelayRecvCaller, RelayRecvFails, FromCaller, SendCallee, ErrorToCallee
  <2> QED
    BY <1>0, <2>2, <2>3, <2>4, <2>5, CarriesOn DEF Contents
<1>2. CASE CallerLegBreaks
  <2>1. /\ \E n \in 0 .. Len(fromCaller) : fromCaller' = SubSeq(fromCaller, 1, n)
        /\ \E n \in 0 .. Len(toCaller) : toCaller' = SubSeq(toCaller, 1, n)
        /\ fromCallee' = fromCallee /\ toCallee' = toCallee
    BY <1>2 DEF CallerLegBreaks
  <2> QED
    BY <1>0, <2>1, CarriesOn DEF Contents
<1>3. CASE CalleeLegBreaks
  <2>1. /\ \E n \in 0 .. Len(fromCallee) : fromCallee' = SubSeq(fromCallee, 1, n)
        /\ \E n \in 0 .. Len(toCallee) : toCallee' = SubSeq(toCallee, 1, n)
        /\ fromCaller' = fromCaller /\ toCaller' = toCaller
    BY <1>3 DEF CalleeLegBreaks
  <2> QED
    BY <1>0, <2>1, CarriesOn DEF Contents
<1>4. CASE Over \/ UNCHANGED vars
  BY <1>0, <1>4 DEF Over, vars, Contents
<1> QED
  BY <1>1, <1>2, <1>3, <1>4

\* The invariant holds before the call.
LEMMA ProxyInit == Init => ProxyInv
<1> SUFFICES ASSUME Init PROVE ProxyInv
  OBVIOUS
<1>1. /\ fromCaller = <<>> /\ toCaller = <<>> /\ fromCallee = <<>> /\ toCallee = <<>>
      /\ cpc = "start" /\ cret = Caller!Running /\ apc = "listen" /\ aret = Callee!Running
      /\ relay = "wHelo" /\ nextBye = FALSE /\ rret = "none" /\ turn = "exit"
      /\ ~callerBroken /\ ~calleeBroken
      /\ notify = [ready |-> FALSE, process |-> FALSE, accept |-> FALSE]
  BY DEF Init
<1>2. Caller!Running # 2 /\ Caller!Running # 4 /\ Caller!Running = Callee!Running
  BY DEF Caller!Running, Callee!Running
<1>3. TypeOK
  <2>1. <<>> \in Seq(Caller!Packet)
    OBVIOUS
  <2>2. clist \in CallerLists /\ acodecs \in Seq(Caller!Codec)
    BY CodecLists DEF Init
  <2> QED
    BY <2>1, <2>2 DEF Init, TypeOK, Caller!CallerLoc, Caller!CallerWait,
       Caller!CallerRet, Caller!CalleeLoc,
       Caller!CalleeRet, Caller!Running, Callee!Running, RelayPlace, Ending
<1>4. Contents /\ LeftBehind
  BY <1>1 DEF Contents, Carries, LeftBehind
<1>5. Returned /\ CalleeLeg /\ CallerLeg /\ Byes /\ Order
  BY <1>1 DEF Returned, CalleeLeg, CallerLeg, Byes, Order
<1>6. Asked /\ Told
  BY <1>1 DEF Asked, Told
<1>7. CallerHolds /\ Ringing /\ CalleeHolds /\ Closing
  BY <1>1, <1>2 DEF CallerHolds, Ringing, CalleeHolds, Closing
<1> QED
  BY <1>3, <1>4, <1>5, <1>6, <1>7 DEF ProxyInv

\* Every step keeps the invariant: of the caller, of the called side and of the
\* relay or the network.
LEMMA ProxyStep == ProxyInv /\ [Next]_vars => ProxyInv'
<1> SUFFICES ASSUME ProxyInv, [Next]_vars PROVE ProxyInv'
  OBVIOUS
<1>0. TypeOK
  BY DEF ProxyInv
<1>1. CASE CallerStep \/ UserCancels
  BY <1>0, <1>1, CallerTypes, CallerParts, CallerContents DEF ProxyInv
<1>2. CASE CalleeStep \/ UserFilter \/ ButtonClick
  BY <1>0, <1>2, CalleeTypes, CalleeParts, CalleeContents DEF ProxyInv
<1>3. CASE RelayStep \/ CallerLegBreaks \/ CalleeLegBreaks \/ Over \/ UNCHANGED vars
  BY <1>0, <1>3, RelayTypes, RelayParts, RelayContents DEF ProxyInv
<1> QED
  BY <1>1, <1>2, <1>3 DEF Next

\* The invariant holds of every reachable state, for every set of codec lists
\* and of users.
THEOREM ProxyInductive == Spec => []ProxyInv
BY ProxyInit, ProxyStep, PTL DEF Spec

\* The relay reads the two ends in turn, and the packet it waits for is never
\* behind one of the end it does not read.
THEOREM InLockstep == Spec => []Lockstep
<1>1. ProxyInv => Lockstep
  <2> SUFFICES ASSUME ProxyInv, cpc # "done", relay # "done"
               PROVE  /\ Len(fromCaller) + Len(toCaller) + Len(fromCallee) + Len(toCallee) <= 1
                      /\ relay = "wCallee" => fromCaller = <<>>
                      /\ relay = "wCaller" => fromCallee = <<>> /\ toCallee = <<>>
    BY DEF Lockstep
  <2>1. CallerLeg /\ CalleeLeg
    BY DEF ProxyInv
  <2>2. \A q : q = <<>> => Len(q) = 0
    OBVIOUS
  <2>3. /\ fromCaller = <<>> \/ toCaller = <<>>
        /\ fromCallee = <<>> \/ toCallee = <<>>
        /\ (fromCaller = <<>> /\ toCaller = <<>>) \/ (fromCallee = <<>> /\ toCallee = <<>>)
    BY <2>1 DEF CallerLeg, CalleeLeg
  <2>4. /\ Len(fromCaller) \in {0, 1} /\ Len(toCaller) \in {0, 1}
        /\ Len(fromCallee) \in {0, 1} /\ Len(toCallee) \in {0, 1}
    BY <2>1, <2>2 DEF CallerLeg, CalleeLeg
  <2>5. Len(fromCaller) + Len(toCaller) + Len(fromCallee) + Len(toCallee) <= 1
    <3>1. \A a, b, c, d \in {0, 1} :
            /\ a = 0 \/ b = 0
            /\ c = 0 \/ d = 0
            /\ (a = 0 /\ b = 0) \/ (c = 0 /\ d = 0)
            => a + b + c + d <= 1
      OBVIOUS
    <3>2. /\ Len(fromCaller) = 0 \/ Len(toCaller) = 0
          /\ Len(fromCallee) = 0 \/ Len(toCallee) = 0
          /\ (Len(fromCaller) = 0 /\ Len(toCaller) = 0) \/ (Len(fromCallee) = 0 /\ Len(toCallee) = 0)
      BY <2>2, <2>3
    <3> QED
      BY <2>4, <3>1, <3>2
  <2> QED
    BY <2>1, <2>5 DEF CallerLeg, CalleeLeg
<1> QED
  BY <1>1, ProxyInductive, PTL

\* The called side opens a session on its own only when the caller has sent its
\* last BYE, whatever the relay and the network did with the answer.
THEOREM HalfOpenThroughProxyHolds == Spec => []HalfOpenThroughProxy
<1>1. ProxyInv => HalfOpenThroughProxy
  BY DEF ProxyInv, Closing, CallerAgreed, CalleeHolds, HalfOpenThroughProxy
<1> QED
  BY <1>1, ProxyInductive, PTL

-----------------------------------------------------------------------------
\* A step of the caller ends its part of the call of SsipCall, or changes nothing
\* there: an ERROR of the relay that it takes for the last BYE is no session.
LEMMA CallerRefines ==
  ASSUME ProxyInv, ProxyInv', UNCHANGED <<apc, aret, asel, notify, rret>>,
         cret = Caller!Running \/ cret' = cret
  PROVE  [Call!CallNext]_Call!callVars
<1> USE DEF Call!CallNext, Call!callVars, Caller!Outcome, Caller!Running,
   Callee!Running
<1>1. CASE cret' = cret
  BY <1>1
<1>2. CASE cret = Caller!Running /\ cret' = 4 /\ rret # "errorToCaller"
  <2>1. aret = 2
    BY <1>2 DEF ProxyInv, CallerHolds
  <2>2. Call!CallerUp
    BY <1>2, <2>1 DEF Call!CallerUp
  <2> QED
    BY <2>2
<1>3. CASE cret = Caller!Running /\ cret' # Caller!Running /\ ~(cret' = 4 /\ rret # "errorToCaller")
  <2>1. Call!CallerDown
    BY <1>3 DEF Call!CallerDown
  <2> QED
    BY <2>1
<1> QED
  BY <1>1, <1>2, <1>3

\* A step of the called side fixes the codec, ends its part of the call, or
\* changes nothing there.
LEMMA CalleeRefines ==
  ASSUME ProxyInv, ProxyInv', UNCHANGED <<cret, rret, notify>>, aret = Callee!Running, apc # "done",
         \/ UNCHANGED asel /\ apc \notin {"wRtp", "wBye"} /\ apc' \notin {"wRtp", "wBye"}
         \/ UNCHANGED asel /\ apc \in {"wRtp", "wBye"} /\ apc' \in {"wRtp", "wBye", "done"}
         \/ apc = "wCodecs" /\ apc' \in {"wRtp", "done"},
         aret' = 2 => apc \in {"wRtp", "wBye"}
  PROVE  [Call!CallNext]_Call!callVars
<1> USE DEF Call!CallNext, Call!callVars, Caller!Outcome, Caller!Running,
   Callee!Running
<1>1. aret' = Callee!Running <=> apc' # "done"
  BY DEF ProxyInv, Returned
<1>2. CASE aret' = Callee!Running /\ apc = "wCodecs" /\ apc' = "wRtp"
  <2>1. asel' \in Caller!Codec /\ notify.accept /\ notify.process /\ ~notify.ready
    BY <1>2 DEF ProxyInv, CalleeHolds, Ringing
  <2>2. Call!FixCodec(asel')
    BY <1>2, <2>1 DEF Call!FixCodec
  <2> QED
    BY <2>1, <2>2
<1>3. CASE aret' = Callee!Running /\ ~(apc = "wCodecs" /\ apc' = "wRtp")
  BY <1>1, <1>3
<1>4. CASE aret' = 2
  <2>1. asel \in Caller!Codec /\ asel' = asel
    BY <1>1, <1>4 DEF ProxyInv, CalleeHolds
  <2>2. NoCodec \notin Caller!Codec
    BY NoCodecAssumption DEF Caller!Codec
  <2>3. Call!CalleeUp
    BY <1>4, <2>1, <2>2 DEF Call!CalleeUp
  <2> QED
    BY <2>3
<1>5. CASE aret' \notin {Callee!Running, 2}
  <2>1. apc' = "done"
    BY <1>1, <1>5
  <2>2. Call!CalleeDown
    BY <1>5, <2>1 DEF Call!CalleeDown
  <2> QED
    BY <2>2
<1> QED
  BY <1>2, <1>3, <1>4, <1>5

\* An initial state is one of SsipCall.
LEMMA RefinesInit == Init => Call!CallInit
BY DEF Init, Call!CallInit, Caller!Outcome, Caller!Running, Callee!Running

\* A step of the relay or of the network does not show in the call: the relay
\* ends only before it could change what the caller's return means.
LEMMA RelayRefines ==
  ASSUME ProxyInv, RelayStep \/ CallerLegBreaks \/ CalleeLegBreaks \/ Over \/ UNCHANGED vars
  PROVE  UNCHANGED Call!callVars
<1>1. UNCHANGED <<cret, aret, apc, asel, notify>>
  BY DEF RelayStep, RelayRecvHelo, RelayRecvUnknown, RelayRecvCallee,
     RelayRecvCaller, RelayRecvFails,
     CallerLegBreaks, CalleeLegBreaks, Over, vars, callerVars, calleeVars
<1>2. cret = 4 => UNCHANGED rret
  <2>1. CASE RelayStep
    <3>1. relay # "done"
      BY <2>1 DEF RelayStep, RelayRecvHelo, RelayRecvUnknown, RelayRecvCallee,
         RelayRecvCaller,
         RelayRecvFails, FromCaller, FromCallee
    <3> QED
      BY <3>1 DEF ProxyInv, CallerHolds
  <2>2. CASE ~RelayStep
    BY <2>2 DEF CallerLegBreaks, CalleeLegBreaks, Over, vars, relayVars
  <2> QED
    BY <2>1, <2>2
<1> QED
  BY <1>1, <1>2 DEF Call!callVars, Caller!Outcome

\* Every step is a step of SsipCall or leaves what it sees unchanged.
LEMMA RefinesStep ==
  ASSUME ProxyInv, ProxyInv', [Next]_vars
  PROVE  [Call!CallNext]_Call!callVars
<1>0. /\ cpc = "done" <=> cret # Caller!Running
      /\ apc = "done" <=> aret # Callee!Running
  BY DEF ProxyInv, Returned
<1>1. CASE CallerStep \/ UserCancels
  <2>1. UNCHANGED <<apc, aret, asel, notify, rret>>
    BY <1>1 DEF CallerStep, UserCancels, Caller!CallerStep, Caller!UserCancels,
       Caller!Dial, Caller!ReadExit, Caller!SelectExpires, Caller!Interrupt,
       Caller!CallerRecvFails, Caller!CallerRecvUser, Caller!CallerRecvCodec,
       Caller!CallerRecvRtp, Caller!CallerRecvBye, Caller!CallerDrops,
       Caller!callee, relayVars
  <2>2. cret = Caller!Running \/ cret' = cret
    <3>1. CASE CallerStep
      <4>0. turn = "select" => cpc # "done"
        BY DEF ProxyInv, Returned, Caller!CallerWait
      <4>1. cpc # "done"
        BY <3>1, <4>0 DEF CallerStep, Caller!CallerStep, Caller!Dial,
           Caller!ReadExit, Caller!SelectExpires, Caller!Interrupt,
           Caller!CallerRecvFails, Caller!CallerRecvUser, Caller!CallerRecvCodec,
           Caller!CallerRecvRtp, Caller!CallerRecvBye, Caller!CallerDrops,
           Caller!CallerReceives, Caller!CallerWait
      <4> QED
        BY <1>0, <4>1
    <3>2. CASE UserCancels
      BY <3>2 DEF UserCancels, Caller!UserCancels
    <3> QED
      BY <1>1, <3>1, <3>2
  <2> QED
    BY <2>1, <2>2, CallerRefines
<1>2. CASE CalleeStep /\ ~Callee!CalleeRecvHelo
  <2>1. UNCHANGED <<cret, rret, notify>>
    BY <1>2 DEF CalleeStep, Callee!CalleeStep, Callee!Accept,
       Callee!CalleeTimesOut, Callee!CalleeRecvFails, Callee!CalleeRecvUnknown,
       Callee!CalleeAnswered, Callee!CalleeRecvReject, Callee!CalleeRecvCodecs,
       Callee!CalleeRecvNoCodec, Callee!CalleeRecvRtp, Callee!CalleeRecvBye,
       Callee!caller, relayVars
  <2>2. apc # "done"
    BY <1>2 DEF CalleeStep, Callee!CalleeStep, Callee!Accept,
       Callee!CalleeTimesOut, Callee!CalleeRecvFails, Callee!CalleeRecvUnknown,
       Callee!CalleeAnswered, Callee!CalleeRecvReject, Callee!CalleeRecvCodecs,
       Callee!CalleeRecvNoCodec, Callee!CalleeRecvRtp, Callee!CalleeRecvBye,
       Callee!CalleeReceives
  <2>3. \/ UNCHANGED asel /\ apc \notin {"wRtp", "wBye"} /\ apc' \notin {"wRtp", "wBye"}
        \/ UNCHANGED asel /\ apc \in {"wRtp", "wBye"} /\ apc' \in {"wRtp", "wBye", "done"}
        \/ apc = "wCodecs" /\ apc' \in {"wRtp", "done"}
    <3>1. CASE Callee!CalleeRecvCodecs
      BY <3>1, OfferCases DEF ProxyInv, Callee!CalleeReceives, Callee!CalleeReplies,
         Callee!CalleeReturns
    <3>2. CASE ~Callee!CalleeRecvCodecs
      BY <1>2, <3>2 DEF CalleeStep, Callee!CalleeStep, Callee!Accept,
         Callee!CalleeTimesOut, Callee!CalleeRecvFails, Callee!CalleeRecvUnknown,
         Callee!CalleeAnswered, Callee!CalleeRecvReject, Callee!CalleeRecvNoCodec,
         Callee!CalleeRecvRtp, Callee!CalleeRecvBye, Callee!CalleeReceives,
         Callee!CalleeReplies, Callee!CalleeReturns
    <3> QED
      BY <3>1, <3>2
  <2>4. aret' = 2 => apc \in {"wRtp", "wBye"}
    <3>1. CASE Callee!CalleeRecvCodecs
      BY <1>0, <2>2, <3>1, OfferCases DEF ProxyInv, Callee!CalleeReceives,
         Callee!CalleeReplies,
         Callee!CalleeReturns, Caller!Running, Callee!Running
    <3>2. CASE ~Callee!CalleeRecvCodecs
      BY <1>0, <1>2, <2>2, <3>2 DEF CalleeStep, Callee!CalleeStep, Callee!Accept,
         Callee!CalleeTimesOut, Callee!CalleeRecvFails, Callee!CalleeRecvUnknown,
         Callee!CalleeAnswered, Callee!CalleeRecvReject, Callee!CalleeRecvNoCodec,
         Callee!CalleeRecvRtp, Callee!CalleeRecvBye, Callee!CalleeReceives,
         Callee!CalleeReplies, Callee!CalleeReturns, Callee!Running
    <3> QED
      BY <3>1, <3>2
  <2> QED
    BY <1>0, <2>1, <2>2, <2>3, <2>4, CalleeRefines
<1>3. CASE CalleeStep /\ Callee!CalleeRecvHelo
  <2>0. UNCHANGED <<cret, rret, asel>> /\ apc = "wHelo"
    BY <1>3 DEF CalleeStep, Callee!CalleeRecvHelo, Callee!CalleeReceives,
       Callee!caller, relayVars, callerLeg
  <2>1. CASE notify' = notify /\ apc' # "ring"
    <3>1. apc' \notin {"wRtp", "wBye"} /\ aret' # 2
      BY <1>0, <1>3, <2>0 DEF Callee!CalleeRecvHelo, Callee!CalleeReplies,
         Callee!CalleeReturns, Callee!Running
    <3> QED
      BY <1>0, <2>0, <2>1, <3>1, CalleeRefines
  <2>2. CASE /\ notify' = [ready |-> TRUE, process |-> FALSE, accept |-> FALSE]
             /\ apc' = "ring" /\ aret' = aret
    <3>1. ~notify.process /\ ~notify'.process
      BY <2>0, <2>2 DEF ProxyInv, Ringing
    <3> QED
      BY <2>0, <2>2, <3>1 DEF Call!callVars, Caller!Outcome
  <2> QED
    BY <1>3, <2>1, <2>2 DEF Callee!CalleeRecvHelo, Callee!CalleeReplies,
       Callee!CalleeReturns
<1>4. ASSUME UserFilter \/ ButtonClick
      PROVE  [Call!CallNext]_Call!callVars
  <2>1. UNCHANGED <<cret, rret, apc, aret, asel>> /\ notify.ready
    BY <1>4 DEF UserFilter, ButtonClick, Callee!UserFilter, Callee!ButtonClick,
       Callee!callee, Callee!caller, relayVars, callerVars
  <2>2. aret = Callee!Running
    BY <1>0, <2>1 DEF ProxyInv, Ringing
  <2>3. notify'.process
    BY <1>4 DEF UserFilter, ButtonClick, Callee!UserFilter, Callee!ButtonClick
  <2>4. CASE notify'.ready
    BY <2>1, <2>4 DEF Call!callVars, Caller!Outcome
  <2>5. CASE ~notify'.ready
    <3>1. CASE notify'.accept
      <4>1. Call!Answer("yes")
        BY <2>1, <2>2, <2>3, <2>5, <3>1 DEF Call!Answer, Caller!Outcome,
           Caller!Running, Callee!Running
      <4> QED
        BY <4>1 DEF Call!CallNext
    <3>2. CASE ~notify'.accept
      <4>1. Call!Answer("no")
        BY <2>1, <2>2, <2>3, <2>5, <3>2 DEF Call!Answer, Caller!Outcome,
           Caller!Running, Callee!Running
      <4> QED
        BY <4>1 DEF Call!CallNext
    <3> QED
      BY <3>1, <3>2
  <2> QED
    BY <2>4, <2>5
<1>5. CASE RelayStep \/ CallerLegBreaks \/ CalleeLegBreaks \/ Over \/ UNCHANGED vars
  BY <1>5, RelayRefines
<1> QED
  BY <1>1, <1>2, <1>3, <1>4, <1>5 DEF Next, CalleeStep

\* The call through the proxy implements the call of SsipCall, as the call
\* between the two programs does.
THEOREM ProxyRefinement == Spec => CallSpec
<1>1. Init => Call!CallInit
  BY RefinesInit
<1>2. ProxyInv /\ ProxyInv' /\ [Next]_vars => [Call!CallNext]_Call!callVars
  BY RefinesStep
<1> QED
  BY <1>1, <1>2, ProxyInductive, PTL DEF Spec, CallSpec, Call!CallSpec

-----------------------------------------------------------------------------
(* The processes of the proxy *)

\* The lock of the file: the process that writes it holds the lock, unless it was
\* interrupted, and no child reads while it does.
Lock ==
  /\ writer => notifier \in {"open", "write"}
  /\ cut => notifier = "write"
  /\ notifier \in {"open", "write"} /\ goNotify => writer
  /\ writer => \A c \in Calls : child[c] # "read"

\* The limit of the manager: every child at work is counted, and it accepts a call
\* only below its limit.
Limit ==
  /\ Cardinality(Working) <= childcount
  /\ childcount <= MaxForks
  /\ mgr = "accept" => childcount < MaxForks

\* The children at work are among the calls.
LEMMA WorkingFinite == IsFiniteSet(Working) /\ Cardinality(Working) \in Nat
  BY CallAssumption, FS_Subset, FS_CardinalityType DEF Working

\* Every step keeps the types.
LEMMA ManagerTypes == ASSUME ManagerTypeOK, [ManagerNext]_processVars PROVE ManagerTypeOK'
<1>1. CASE NotifyRequest \/ NotifyStep
  BY <1>1 DEF ManagerTypeOK, NotifyRequest, NotifyStep, NotifyLock, NotifyTruncate,
     NotifyWrite, Loop,
              notifyVars, mgrVars
<1>2. CASE AdministratorStopsNotify
  BY <1>2 DEF ManagerTypeOK, AdministratorStopsNotify, StopNotify, mgrVars
<1>3. CASE ManagerRoom \/ StopManager
  BY <1>3 DEF ManagerTypeOK, ManagerRoom, StopManager, notifyVars
<1>4. CASE ManagerForks
  <2>1. Head(pending) \in Calls /\ Tail(pending) \in Seq(Calls)
    BY <1>4 DEF ManagerForks, ManagerTypeOK
  <2>2. QED
    BY <1>4, <2>1 DEF ManagerTypeOK, ManagerForks, notifyVars
<1>5. CASE ManagerEnds
  BY <1>5 DEF ManagerTypeOK, ManagerEnds, StopNotify
<1>6. ASSUME NEW c \in Calls, CallArrives(c) \/ ChildStep(c) PROVE ManagerTypeOK'
  BY <1>6 DEF ManagerTypeOK, CallArrives, ChildStep, ChildLock, ChildRead,
     ChildEnds, notifyVars, mgrVars
<1>7. CASE UNCHANGED processVars
  BY <1>7 DEF ManagerTypeOK, processVars, notifyVars, mgrVars
<1>8. QED
  BY <1>1, <1>2, <1>3, <1>4, <1>5, <1>6, <1>7 DEF ManagerNext, ManagerStep

\* Every step keeps the lock.
LEMMA LockKept == ASSUME ManagerTypeOK, Lock, [ManagerNext]_processVars PROVE Lock'
<1>1. CASE NotifyRequest \/ NotifyStep
  BY <1>1 DEF ManagerTypeOK, Lock, NotifyRequest, NotifyStep, NotifyLock,
     NotifyTruncate, NotifyWrite,
              Loop, notifyVars, mgrVars
<1>2. CASE AdministratorStopsNotify
  BY <1>2 DEF ManagerTypeOK, Lock, AdministratorStopsNotify, StopNotify, mgrVars
<1>3. CASE ManagerRoom \/ StopManager
  BY <1>3 DEF Lock, ManagerRoom, StopManager, notifyVars
<1>4. CASE ManagerForks
  <2>1. Head(pending) \in Calls
    BY <1>4 DEF ManagerForks, ManagerTypeOK
  <2>2. \A c \in Calls : child'[c] = "read" => child[c] = "read"
    BY <1>4, <2>1 DEF ManagerTypeOK, ManagerForks
  <2>3. QED
    BY <1>4, <2>2 DEF Lock, ManagerForks, notifyVars
<1>5. CASE ManagerEnds
  BY <1>5 DEF ManagerTypeOK, Lock, ManagerEnds, StopNotify
<1>6. ASSUME NEW c \in Calls, CallArrives(c) \/ ChildStep(c) PROVE Lock'
  BY <1>6 DEF ManagerTypeOK, Lock, CallArrives, ChildStep, ChildLock, ChildRead,
     ChildEnds,
              notifyVars, mgrVars
<1>7. CASE UNCHANGED processVars
  BY <1>7 DEF Lock, processVars, notifyVars, mgrVars
<1>8. QED
  BY <1>1, <1>2, <1>3, <1>4, <1>5, <1>6, <1>7 DEF ManagerNext, ManagerStep

\* A step by which no child starts to work leaves no more of them at work.
LEMMA FewerWork ==
  ASSUME Working' \subseteq Working
  PROVE  Cardinality(Working') <= Cardinality(Working)
  BY WorkingFinite, FS_Subset

\* Every step keeps the limit.
LEMMA LimitKept == ASSUME ManagerTypeOK, Limit, [ManagerNext]_processVars PROVE Limit'
<1> USE LimitAssumption
<1>1. CASE NotifyRequest \/ NotifyStep \/ AdministratorStopsNotify
  <2>1. UNCHANGED <<mgrVars, child>>
    BY <1>1 DEF NotifyRequest, NotifyStep, NotifyLock, NotifyTruncate, NotifyWrite,
                AdministratorStopsNotify, StopNotify
  <2>2. QED
    BY <2>1 DEF Limit, Working, mgrVars
<1>2. CASE ManagerRoom \/ StopManager \/ ManagerEnds
  <2>1. child' = child /\ childcount' = childcount
        /\ (mgr' = "accept" => mgr = "accept" \/ childcount < MaxForks)
    BY <1>2 DEF ManagerRoom, StopManager, ManagerEnds, StopNotify
  <2>2. QED
    BY <2>1 DEF Limit, Working
<1>3. CASE ManagerForks
  <2> DEFINE c == Head(pending)
  <2>1. c \in Calls
    BY <1>3 DEF ManagerForks, ManagerTypeOK
  <2>2. childcount < MaxForks /\ mgr' # "accept"
    BY <1>3 DEF ManagerForks, Limit
  <2>3. CASE childcount' = childcount + 1 /\ child' = [child EXCEPT ![c] = "lock"]
    <3>1. Working' = Working \cup {c}
      BY <2>1, <2>3 DEF Working, ManagerTypeOK
    <3>2. Cardinality(Working') <= Cardinality(Working) + 1
      BY <3>1, WorkingFinite, FS_AddElement
    <3>3. Working' \subseteq Calls
      BY DEF Working
    <3>4. Cardinality(Working') \in Nat
      BY <3>3, CallAssumption, FS_Subset, FS_CardinalityType
    <3>5. QED
      BY <2>2, <2>3, <3>2, <3>4, WorkingFinite DEF Limit, ManagerTypeOK
  <2>4. CASE childcount' = childcount /\ child' = [child EXCEPT ![c] = "gone"]
    <3>1. Working' \subseteq Working
      BY <2>1, <2>4 DEF Working, ManagerTypeOK
    <3>2. IsFiniteSet(Working') /\ Cardinality(Working') \in Nat
      BY <3>1, WorkingFinite, FS_Subset, FS_CardinalityType
    <3>3. QED
      BY <2>2, <2>4, <3>1, <3>2, FewerWork, WorkingFinite DEF Limit, ManagerTypeOK
  <2>5. QED
    BY <1>3, <2>3, <2>4 DEF ManagerForks
<1>4. ASSUME NEW c \in Calls, CallArrives(c) \/ ChildStep(c) PROVE Limit'
  <2>1. Working' \subseteq Working /\ childcount' = childcount /\ mgr' = mgr
    BY <1>4 DEF Working, ManagerTypeOK, CallArrives, ChildStep, ChildLock,
       ChildRead, ChildEnds, mgrVars
  <2>2. IsFiniteSet(Working') /\ Cardinality(Working') \in Nat
    BY <2>1, WorkingFinite, FS_Subset, FS_CardinalityType
  <2>3. QED
    BY <2>1, <2>2, FewerWork, WorkingFinite DEF Limit, ManagerTypeOK
<1>5. CASE UNCHANGED processVars
  BY <1>5 DEF Limit, Working, processVars, notifyVars, mgrVars
<1>6. QED
  BY <1>1, <1>2, <1>3, <1>4, <1>5 DEF ManagerNext, ManagerStep

\* At the start everything holds.
LEMMA ManagerStarts == ASSUME ManagerInit PROVE ManagerTypeOK /\ Lock /\ Limit
<1>1. ManagerTypeOK
  <2>1. pending \in Seq(Calls)
    BY DEF ManagerInit
  <2>2. writer \in BOOLEAN /\ cut \in BOOLEAN /\ goNotify \in BOOLEAN /\ goManage \in BOOLEAN
    BY DEF ManagerInit
  <2>3. QED
    BY <2>1, <2>2 DEF ManagerInit, ManagerTypeOK
<1>2. Lock
  BY DEF ManagerInit, Lock
<1>3. Working = {}
  BY DEF ManagerInit, Working
<1>4. Limit
  BY <1>3, LimitAssumption, FS_EmptySet DEF ManagerInit, Limit
<1>5. QED
  BY <1>1, <1>2, <1>4

\* The invariants of the processes of the proxy (ssip_proxy.c).
THEOREM ManagerInvariants == ManagerSpec => [](ManagerTypeOK /\ Lock /\ Limit)
<1>1. ManagerInit => ManagerTypeOK /\ Lock /\ Limit
  BY ManagerStarts
<1>2. ManagerTypeOK /\ Lock /\ Limit /\ [ManagerNext]_processVars => (ManagerTypeOK /\ Lock /\ Limit)'
  BY ManagerTypes, LockKept, LimitKept
<1>3. QED
  BY <1>1, <1>2, PTL DEF ManagerSpec

\* No child reads the file of users while it is emptied and not yet written,
\* unless the writer was interrupted in its wait for the lock (file_block).
THEOREM ReadsAreWhole == ManagerSpec => []NoTornRead
<1>1. ManagerTypeOK /\ Lock => NoTornRead
  BY DEF Lock, NoTornRead
<1>2. QED
  BY <1>1, ManagerInvariants, PTL

\* There are never more children than num_forks_manager (manage_user_process).
THEOREM ChildrenAreBounded == ManagerSpec => []ChildrenBounded
<1>1. ManagerTypeOK /\ Limit => ChildrenBounded
  BY WorkingFinite, LimitAssumption DEF Limit, ChildrenBounded, ManagerTypeOK
<1>2. QED
  BY <1>1, ManagerInvariants, PTL
=============================================================================
