--------------------------- MODULE SsipNegProofs ----------------------------
(***************************************************************************)
(* Proofs about SsipNeg, for every set of payload types, every pair of     *)
(* codec lists and every loss the connection may suffer.                   *)
(***************************************************************************)
EXTENDS SsipNeg, TLAPS

\* The initial states satisfy the inductive invariant: nothing has been sent,
\* nobody has answered and neither function has returned.
LEMMA InitIndInv == Init => IndInv
<1> SUFFICES ASSUME Init PROVE IndInv
  OBVIOUS
<1> USE DEF Init
<1>1. TypeOK
  <2>1. clist \in CallerLists /\ acodecs \in Seq(Codec)
    BY CodecListAssumption
  <2>2. toCallee \in Seq(Packet) /\ toCaller \in Seq(Packet)
    OBVIOUS
  <2>3. notify \in [ready : BOOLEAN, process : BOOLEAN, accept : BOOLEAN]
    OBVIOUS
  <2>4. cret \in CallerRet /\ aret \in CalleeRet
    BY DEF CallerRet, CalleeRet, Running
  <2> QED
    BY <2>1, <2>2, <2>3, <2>4 DEF TypeOK, CallerLoc, CalleeLoc
<1>2. Returned /\ Contents /\ Order /\ Asked /\ Told /\ LeftBehind
  BY DEF Returned, Contents, Order, Asked, Told, LeftBehind, Running
<1>3. CallerHolds /\ Ringing /\ CalleeHolds /\ Closing
  BY DEF CallerHolds, Ringing, CalleeHolds, Closing, Running
<1> QED
  BY <1>1, <1>2, <1>3 DEF IndInv

\* Every packet the two functions send is a packet.
LEMMA PacketTypes ==
  /\ \A t \in Type : Plain(t) \in Packet
  /\ \A u \in Users : Helo(u) \in Packet
  /\ \A l \in Seq(Codec) : CodecTx(l) \in Packet
  /\ \A p \in Port : Rtp(p) \in Packet
<1>1. \A t \in Type : Plain(t) \in Packet
  <2> TAKE t \in Type
  <2>1. <<>> \in Seq(Codec)
    OBVIOUS
  <2> QED
    BY <2>1, SelfAssumption DEF Plain, Packet
<1>2. {"HELO", "CODECTX", "RTP"} \subseteq Type
  BY DEF Type
<1>3. \A u \in Users : Helo(u) \in Packet
  BY <1>1, <1>2 DEF Helo, Packet
<1>4. \A l \in Seq(Codec) : CodecTx(l) \in Packet
  BY <1>1, <1>2 DEF CodecTx, Packet
<1>5. \A p \in Port : Rtp(p) \in Packet
  BY <1>1, <1>2 DEF Rtp, Packet
<1> QED
  BY <1>1, <1>3, <1>4, <1>5


\* What a reply of either side changes keeps its type.
LEMMA CallerRepliesType ==
  ASSUME TypeOK, NEW p \in Packet, NEW at \in CallerLoc, NEW r \in CallerRet,
         CallerReplies(p, at, r)
  PROVE  /\ cpc' \in CallerLoc /\ cret' \in CallerRet
         /\ turn' \in {"exit", "select"} /\ toCallee' \in Seq(Packet)
<1>1. Append(toCallee, p) \in Seq(Packet) /\ toCallee \in Seq(Packet)
  BY DEF TypeOK
<1>2. "done" \in CallerLoc /\ -1 \in CallerRet
  BY DEF CallerLoc, CallerRet
<1> QED
  BY <1>1, <1>2 DEF CallerReplies, CallerSends

\* The same for the called side.
LEMMA CalleeRepliesType ==
  ASSUME TypeOK, NEW p \in Packet, NEW at \in CalleeLoc, NEW r \in CalleeRet,
         NEW failed \in CalleeRet, CalleeReplies(p, at, r, failed)
  PROVE  apc' \in CalleeLoc /\ aret' \in CalleeRet /\ toCaller' \in Seq(Packet)
<1>1. Append(toCaller, p) \in Seq(Packet) /\ toCaller \in Seq(Packet)
  BY DEF TypeOK
<1>2. "done" \in CalleeLoc
  BY DEF CalleeLoc
<1> QED
  BY <1>1, <1>2 DEF CalleeReplies, CalleeSends

\* What is taken from a queue is a packet, and so is the rest.
LEMMA ReceivedType ==
  ASSUME NEW q \in Seq(Packet), q # <<>>
  PROVE  /\ Tail(q) \in Seq(Packet) /\ Head(q) \in Packet
         /\ Head(q).codecs \in Seq(Codec) /\ Head(q).to \in Users
         /\ Head(q).port \in Port \cup {NoPort}
<1>1. Tail(q) \in Seq(Packet) /\ Head(q) \in Packet
  OBVIOUS
<1> QED
  BY <1>1 DEF Packet

\* Every step keeps the types.
LEMMA TypeStep == TypeOK /\ [Next]_vars => TypeOK'
<1> SUFFICES ASSUME TypeOK, [Next]_vars PROVE TypeOK'
  OBVIOUS
<1>0. CASE UNCHANGED vars
  BY <1>0 DEF TypeOK, vars, caller, callee, inputs
<1>1. CASE Dial
  <2>1. /\ cpc' \in CallerLoc /\ cret' \in CallerRet
        /\ turn' \in {"exit", "select"} /\ toCallee' \in Seq(Packet)
    BY <1>1, CallerRepliesType, PacketTypes, ReceivedType
       DEF TypeOK, Dial, CallerReturns, CallerReceives, CallerLoc, CallerRet,
           CallerWait, Running, Type, Port
  <2> QED
    BY <1>1, <2>1, ReceivedType DEF TypeOK, Dial, CallerReceives, callee, inputs
<1>2. CASE ReadExit
  BY <1>2 DEF TypeOK, ReadExit, callee, inputs
<1>3. CASE SelectExpires
  BY <1>3 DEF TypeOK, SelectExpires, callee, inputs
<1>4. CASE Interrupt
  <2>1. Plain("ERROR") \in Packet
    BY PacketTypes DEF Type
  <2>2. Append(toCallee, Plain("ERROR")) \in Seq(Packet)
    BY <2>1 DEF TypeOK
  <2> QED
    BY <1>4, <2>2
       DEF TypeOK, Interrupt, CallerSends, CallerReturns, CallerLoc, CallerRet,
          callee, inputs
<1>5. CASE CallerRecvFails
  BY <1>5
     DEF TypeOK, CallerRecvFails, CallerReturns, CallerLoc, CallerRet, callee, inputs
<1>6. CASE CallerRecvUser
  <2>1. /\ cpc' \in CallerLoc /\ cret' \in CallerRet
        /\ turn' \in {"exit", "select"} /\ toCallee' \in Seq(Packet)
    BY <1>6, CodecListAssumption, CallerRepliesType, PacketTypes, ReceivedType
       DEF TypeOK, CallerRecvUser, CallerReturns, CallerReceives, CallerLoc, CallerRet,
           CallerWait, Running, Type, Port
  <2> QED
    BY <1>6, <2>1, ReceivedType DEF TypeOK, CallerRecvUser, CallerReceives, callee,
       inputs
<1>7. CASE CallerRecvCodec
  <2>1. /\ cpc' \in CallerLoc /\ cret' \in CallerRet
        /\ turn' \in {"exit", "select"} /\ toCallee' \in Seq(Packet)
    BY <1>7, CallerRepliesType, PacketTypes, ReceivedType
       DEF TypeOK, CallerRecvCodec, CallerReturns, CallerReceives, CallerLoc, CallerRet,
           CallerWait, Running, Type, Port
  <2>2. csel' \in Codec \cup {NoCodec}
    BY <1>7, CodecListAssumption DEF TypeOK, CallerRecvCodec, OwnCodec
  <2> QED
    BY <1>7, <2>1, <2>2, ReceivedType
       DEF TypeOK, CallerRecvCodec, CallerReceives, callee, inputs
<1>8. CASE CallerRecvRtp
  <2>1. /\ cpc' \in CallerLoc /\ cret' \in CallerRet
        /\ turn' \in {"exit", "select"} /\ toCallee' \in Seq(Packet)
    BY <1>8, CallerRepliesType, PacketTypes, ReceivedType
       DEF TypeOK, CallerRecvRtp, CallerReturns, CallerReceives, CallerLoc, CallerRet,
           CallerWait, Running, Type, Port
  <2> QED
    BY <1>8, <2>1, ReceivedType DEF TypeOK, CallerRecvRtp, CallerReceives, callee,
       inputs
<1>9. CASE CallerRecvBye
  BY <1>9, ReceivedType
     DEF TypeOK, CallerRecvBye, CallerReturns, CallerReceives, CallerLoc, CallerRet,
        callee, inputs
<1>10. CASE CallerDrops
  BY <1>10
     DEF TypeOK, CallerDrops, CallerReturns, CallerLoc, CallerRet, callee, inputs
<1>11. CASE UserCancels
  BY <1>11 DEF TypeOK, UserCancels, callee, inputs
<1>12. CASE Accept
  BY <1>12 DEF TypeOK, Accept, CalleeLoc, caller, inputs
<1>13. CASE CalleeTimesOut
  BY <1>13
     DEF TypeOK, CalleeTimesOut, CalleeReturns, CalleeLoc, CalleeRet, caller, inputs
<1>14. CASE CalleeRecvFails
  BY <1>14
     DEF TypeOK, CalleeRecvFails, CalleeReturns, CalleeLoc, CalleeRet, caller, inputs
<1>15. CASE CalleeRecvHelo
  <2>1. apc' \in CalleeLoc /\ aret' \in CalleeRet /\ toCaller' \in Seq(Packet)
    BY <1>15, CalleeRepliesType, PacketTypes, ReceivedType
       DEF TypeOK, CalleeRecvHelo, CalleeReturns, CalleeReceives, CalleeLoc, CalleeRet,
           Running, Type, Port
  <2>2. notify' \in [ready : BOOLEAN, process : BOOLEAN, accept : BOOLEAN]
    <3>1. notify \in [ready : BOOLEAN, process : BOOLEAN, accept : BOOLEAN]
      BY DEF TypeOK
    <3>2. [ready |-> TRUE, process |-> FALSE, accept |-> FALSE]
            \in [ready : BOOLEAN, process : BOOLEAN, accept : BOOLEAN]
      OBVIOUS
    <3>3. \/ notify' = [ready |-> TRUE, process |-> FALSE, accept |-> FALSE]
          \/ notify' = notify
      BY <1>15 DEF CalleeRecvHelo
    <3> QED
      BY <3>1, <3>2, <3>3
  <2> QED
    BY <1>15, <2>1, <2>2, ReceivedType
       DEF TypeOK, CalleeRecvHelo, CalleeReceives, caller, inputs
<1>16. CASE CalleeRecvUnknown
  BY <1>16, ReceivedType
     DEF TypeOK, CalleeRecvUnknown, CalleeReturns, CalleeReceives, CalleeLoc,
        CalleeRet, caller, inputs
<1>17. CASE CalleeAnswered
  <2>1. apc' \in CalleeLoc /\ aret' \in CalleeRet /\ toCaller' \in Seq(Packet)
    BY <1>17, CalleeRepliesType, PacketTypes, ReceivedType
       DEF TypeOK, CalleeAnswered, CalleeReturns, CalleeReceives, CalleeLoc, CalleeRet,
           Running, Type, Port
  <2> QED
    BY <1>17, <2>1, ReceivedType DEF TypeOK, CalleeAnswered, CalleeReceives, caller,
       inputs
<1>18. CASE CalleeRecvReject
  BY <1>18, ReceivedType
     DEF TypeOK, CalleeRecvReject, CalleeReturns, CalleeReceives, CalleeLoc,
        CalleeRet, caller, inputs
<1>19. CASE CalleeRecvNoCodec
  BY <1>19, ReceivedType
     DEF TypeOK, CalleeRecvNoCodec, CalleeReturns, CalleeReceives, CalleeLoc,
        CalleeRet, caller, inputs
<1>20. CASE CalleeRecvCodecs
  <2>1. toCallee' \in Seq(Packet)
    BY <1>20, ReceivedType DEF TypeOK, CalleeRecvCodecs, CalleeReceives
  <2>2. \A o : \A k \in Matches(o) :
          acodecs[k] \in Codec /\ CodecTx(<<acodecs[k]>>) \in Packet
    <3> TAKE o
    <3> TAKE k \in Matches(o)
    <3>1. acodecs[k] \in Codec
      BY DEF TypeOK, Matches
    <3>2. <<acodecs[k]>> \in Seq(Codec)
      BY <3>1
    <3> QED
      BY <3>1, <3>2, PacketTypes
  <2>3. asel' \in Codec \cup {NoCodec}
    BY <1>20, <2>2, ZenonT(30) DEF TypeOK, CalleeRecvCodecs
  <2>4. /\ {"wRtp", "wNoCodec", "done"} \subseteq CalleeLoc
        /\ {Running, 0, -1} \subseteq CalleeRet
        /\ Plain("BYE") \in Packet
    BY PacketTypes DEF CalleeLoc, CalleeRet, Type
  <2>5. apc' \in CalleeLoc /\ aret' \in CalleeRet /\ toCaller' \in Seq(Packet)
    BY <1>20, <2>2, <2>4, CalleeRepliesType DEF TypeOK, CalleeRecvCodecs, CalleeReturns
  <2> QED
    BY <1>20, <2>1, <2>3, <2>5 DEF TypeOK, CalleeRecvCodecs, caller, inputs
<1>21. CASE CalleeRecvRtp
  <2>1. apc' \in CalleeLoc /\ aret' \in CalleeRet /\ toCaller' \in Seq(Packet)
    BY <1>21, CalleeRepliesType, PacketTypes, ReceivedType
       DEF TypeOK, CalleeRecvRtp, CalleeReturns, CalleeReceives, CalleeLoc, CalleeRet,
           Running, Type, Port
  <2> QED
    BY <1>21, <2>1, ReceivedType DEF TypeOK, CalleeRecvRtp, CalleeReceives, caller,
       inputs
<1>22. CASE CalleeRecvBye
  <2>1. apc' \in CalleeLoc /\ aret' \in CalleeRet /\ toCaller' \in Seq(Packet)
    BY <1>22, CalleeRepliesType, PacketTypes, ReceivedType
       DEF TypeOK, CalleeRecvBye, CalleeReturns, CalleeReceives, CalleeLoc, CalleeRet,
           Running, Type, Port
  <2> QED
    BY <1>22, <2>1, ReceivedType DEF TypeOK, CalleeRecvBye, CalleeReceives, caller,
       inputs
<1>23. CASE UserFilter
  BY <1>23 DEF TypeOK, UserFilter, caller, callee, inputs
<1>24. CASE PreferCodec
  BY <1>24 DEF TypeOK, PreferCodec, caller, callee, inputs
<1>25. CASE ConnectionBreaks
  <2>1. toCallee' \in Seq(Packet) /\ toCaller' \in Seq(Packet)
    BY <1>25 DEF TypeOK, ConnectionBreaks
  <2> QED
    BY <1>25, <2>1 DEF TypeOK, ConnectionBreaks, caller, callee, inputs
<1>26. CASE Over
  BY <1>26 DEF TypeOK, Over, vars, caller, callee, inputs
<1>27. ASSUME NEW answer \in BOOLEAN, ButtonClick(answer) PROVE TypeOK'
  BY <1>27 DEF TypeOK, ButtonClick, caller, callee, inputs
<1> QED
  BY <1>0, <1>1, <1>2, <1>3, <1>4, <1>5, <1>6, <1>7, <1>8, <1>9, <1>10, <1>11, <1>12,
     <1>13, <1>14, <1>15, <1>16, <1>17, <1>18, <1>19, <1>20, <1>21, <1>22, <1>23,
     <1>24, <1>25, <1>26, <1>27 DEF Next, CallerStep, CalleeStep

-----------------------------------------------------------------------------
\* A codec found by the called side is a node of its list.
LEMMA FoundCodec ==
  ASSUME TypeOK, NEW offer, NEW k \in Matches(offer)
  PROVE  acodecs[k] \in Codec
BY DEF TypeOK, Matches

\* What becomes of the caller's offer, without the search.
LEMMA CalleeRecvCodecsCases ==
  ASSUME TypeOK, CalleeRecvCodecs
  PROVE  /\ CalleeReceives("wCodecs")
         /\ \/ /\ Head(toCallee).type = "CODECTX" /\ asel' \in Codec
               /\ CalleeReplies(CodecTx(<<asel'>>), "wRtp", Running, -1)
            \/ /\ Head(toCallee).type = "CODECTX" /\ asel' = asel
               /\ CalleeReplies(Plain("BYE"), "wNoCodec", Running, -1)
            \/ /\ Head(toCallee).type = "BYE" /\ asel' = asel
               /\ CalleeReplies(Plain("BYE"), "done", 0, -1)
            \/ /\ Head(toCallee).type \notin {"CODECTX", "BYE"} /\ asel' = asel
               /\ CalleeReturns(-1) /\ toCaller' = toCaller
         /\ UNCHANGED <<ahead, artp, caller, inputs, acodecs, notify, broken>>
BY FoundCodec DEF CalleeRecvCodecs

\* A packet received by the called side leaves the others what they were.
LEMMA ContentsReceived ==
  ASSUME toCallee \in Seq(Packet), Contents, NEW at, CalleeReceives(at), dialled' =
     dialled
  PROVE  \A i \in DOMAIN toCallee' :
           /\ toCallee'[i].type = "HELO" => toCallee'[i].to = dialled'
           /\ toCallee'[i].type = "RTP" => toCallee'[i].port = CallerPort
BY DEF Contents, CalleeReceives

\* A reply of the called side carries its own port.
LEMMA ContentsReplied ==
  ASSUME toCaller \in Seq(Packet), Contents,
         NEW p, NEW at, NEW r, NEW failed, CalleeReplies(p, at, r, failed),
         p.type = "RTP" => p.port = CalleePort
  PROVE  \A i \in DOMAIN toCaller' :
           toCaller'[i].type = "RTP" => toCaller'[i].port = CalleePort
<1>1. CASE toCaller' = toCaller
  BY <1>1 DEF Contents
<1>2. CASE toCaller' = Append(toCaller, p)
  BY <1>2 DEF Contents
<1> QED
  BY <1>1, <1>2 DEF CalleeReplies, CalleeSends

\* What the called side does with a packet or with the answer keeps what
\* packets carry.
LEMMA ContentsCallee ==
  ASSUME IndInv,
         \/ CalleeRecvHelo \/ CalleeRecvRtp \/ CalleeRecvBye
         \/ CalleeRecvCodecs \/ CalleeAnswered
  PROVE  Contents'
<1>1. TypeOK /\ Contents /\ toCallee \in Seq(Packet) /\ toCaller \in Seq(Packet)
  BY DEF IndInv, TypeOK
<1>2. dialled' = dialled
  BY DEF CalleeRecvHelo, CalleeRecvRtp, CalleeRecvBye, CalleeRecvCodecs, CalleeAnswered,
         inputs
<1>3. toCallee' = toCallee \/ \E at : CalleeReceives(at)
  BY DEF CalleeRecvHelo, CalleeRecvRtp, CalleeRecvBye, CalleeRecvCodecs, CalleeAnswered
<1>4. \/ toCaller' = toCaller
      \/ \E p, at, r, failed : /\ CalleeReplies(p, at, r, failed)
                               /\ p.type = "RTP" => p.port = CalleePort
  <2>1. /\ Plain("BYE").type = "BYE" /\ Plain("VALIDUSER").type = "VALIDUSER"
        /\ Rtp(CalleePort).port = CalleePort
        /\ \A l : CodecTx(l).type = "CODECTX"
    BY DEF Plain, Rtp, CodecTx
  <2>2. CASE CalleeRecvHelo
    BY <2>1, <2>2 DEF CalleeRecvHelo
  <2>3. CASE CalleeRecvRtp
    BY <2>1, <2>3 DEF CalleeRecvRtp
  <2>4. CASE CalleeRecvBye
    BY <2>1, <2>4 DEF CalleeRecvBye
  <2>5. CASE CalleeRecvCodecs
    BY <1>1, <2>1, <2>5, CalleeRecvCodecsCases
  <2>6. CASE CalleeAnswered
    BY <2>1, <2>6 DEF CalleeAnswered
  <2> QED
    BY <2>2, <2>3, <2>4, <2>5, <2>6
<1>5. \A i \in DOMAIN toCallee' :
        /\ toCallee'[i].type = "HELO" => toCallee'[i].to = dialled'
        /\ toCallee'[i].type = "RTP" => toCallee'[i].port = CallerPort
  <2>1. CASE toCallee' = toCallee
    BY <1>1, <1>2, <2>1 DEF Contents
  <2>2. CASE \E at : CalleeReceives(at)
    BY <1>1, <1>2, <2>2, ContentsReceived
  <2> QED
    BY <1>3, <2>1, <2>2
<1>6. \A i \in DOMAIN toCaller' :
        toCaller'[i].type = "RTP" => toCaller'[i].port = CalleePort
  <2>1. CASE toCaller' = toCaller
    BY <1>1, <2>1 DEF Contents
  <2>2. ASSUME NEW p, NEW at, NEW r, NEW failed, CalleeReplies(p, at, r, failed),
               p.type = "RTP" => p.port = CalleePort
        PROVE  \A i \in DOMAIN toCaller' :
                 toCaller'[i].type = "RTP" => toCaller'[i].port = CalleePort
    BY <1>1, <2>2, ContentsReplied
  <2> QED
    BY <1>4, <2>1, <2>2
<1> QED
  BY <1>5, <1>6 DEF Contents

\* Every step keeps the ten named parts of the inductive invariant.
LEMMA PartsStep ==
  ASSUME IndInv, [Next]_vars
  PROVE  /\ Returned' /\ Contents' /\ Order' /\ Asked' /\ Told' /\ LeftBehind'
         /\ CallerHolds' /\ Ringing' /\ CalleeHolds' /\ Closing'
<1> DEFINE Parts == /\ Returned /\ Contents /\ Order /\ Asked /\ Told /\ LeftBehind
                    /\ CallerHolds /\ Ringing /\ CalleeHolds /\ Closing
<1>0. toCallee \in Seq(Packet) /\ toCaller \in Seq(Packet) /\ clist \in Seq(Codec)
  BY CodecListAssumption DEF IndInv, TypeOK
<1> USE <1>0 DEF IndInv, Returned, Contents, Order, Asked, Told, LeftBehind,
   CallerHolds,
      Ringing, CalleeHolds, Closing, CallerAgreed, CallerReplies, CallerReturns,
      CallerReceives, CallerSends, CalleeReplies, CalleeReturns, CalleeReceives,
      CalleeSends, CallerEof, CalleeEof, CallerWait, Running, Plain, Helo, CodecTx,
      Rtp, caller, callee, inputs
<1>1. CASE Dial
  BY <1>1 DEF Dial
<1>2. CASE ReadExit
  BY <1>2 DEF ReadExit
<1>3. CASE SelectExpires
  BY <1>3 DEF SelectExpires
<1>4. CASE Interrupt
  BY <1>4 DEF Interrupt
<1>5. CASE CallerRecvFails
  BY <1>5 DEF CallerRecvFails
<1>6. CASE CallerRecvUser
  BY <1>6 DEF CallerRecvUser
<1>7. CASE CallerRecvCodec
  BY <1>7 DEF CallerRecvCodec, OwnCodec
<1>8. CASE CallerRecvRtp
  BY <1>8 DEF CallerRecvRtp
<1>9. CASE CallerRecvBye
  BY <1>9 DEF CallerRecvBye
<1>10. CASE CallerDrops
  BY <1>10 DEF CallerDrops
<1>11. CASE UserCancels
  BY <1>11 DEF UserCancels
<1>12. CASE Accept
  BY <1>12 DEF Accept
<1>13. CASE CalleeTimesOut
  BY <1>13 DEF CalleeTimesOut
<1>14. CASE CalleeRecvFails
  BY <1>14 DEF CalleeRecvFails
<1>15. CASE CalleeRecvUnknown
  BY <1>15 DEF CalleeRecvUnknown
<1>16. CASE CalleeRecvReject
  BY <1>16 DEF CalleeRecvReject
<1>17. CASE CalleeRecvNoCodec
  BY <1>17 DEF CalleeRecvNoCodec
<1>18. CASE UserFilter
  BY <1>18 DEF UserFilter
<1>19. CASE PreferCodec
  BY <1>19 DEF PreferCodec
<1>20. CASE CalleeRecvHelo
  <2>1. Contents'
    BY <1>20, ContentsCallee
  <2>2. /\ Returned' /\ Order' /\ Asked' /\ Told' /\ LeftBehind'
        /\ CallerHolds' /\ Ringing' /\ CalleeHolds' /\ Closing'
    BY <1>20, SMTT(30) DEF CalleeRecvHelo
  <2> QED
    BY <2>1, <2>2
<1>21. CASE CalleeRecvRtp
  <2>1. Contents'
    BY <1>21, ContentsCallee
  <2>2. /\ Returned' /\ Order' /\ Asked' /\ Told' /\ LeftBehind'
        /\ CallerHolds' /\ Ringing' /\ CalleeHolds' /\ Closing'
    BY <1>21, SMTT(30) DEF CalleeRecvRtp
  <2> QED
    BY <2>1, <2>2
<1>22. CASE CalleeRecvBye
  <2>1. Contents'
    BY <1>22, ContentsCallee
  <2>2. /\ Returned' /\ Order' /\ Asked' /\ Told' /\ LeftBehind'
        /\ CallerHolds' /\ Ringing' /\ CalleeHolds' /\ Closing'
    BY <1>22, SMTT(30) DEF CalleeRecvBye
  <2> QED
    BY <2>1, <2>2
<1>23. CASE CalleeAnswered
  <2>1. \/ CalleeReplies(Plain("VALIDUSER"), "wCodecs", Running, -1)
        \/ CalleeReplies(Plain("BYE"), "wReject", Running, -2)
    BY <1>23 DEF CalleeAnswered
  <2>2. Contents'
    BY <1>23, ContentsCallee
  <2>3. Told'
    <3>1. SUFFICES ASSUME cpc # "done" PROVE Told'
      BY <1>23 DEF CalleeAnswered
    <3>2. toCallee = <<>> /\ toCaller = <<>> /\ cpc = "wUser"
      BY <1>23, <3>1 DEF CalleeAnswered, TypeOK, CallerLoc
    <3> QED
      BY <1>23, <2>1, <3>1, <3>2 DEF CalleeAnswered
  <2>4. /\ Returned' /\ Order' /\ Asked' /\ LeftBehind'
        /\ CallerHolds' /\ Ringing' /\ CalleeHolds' /\ Closing'
    BY <1>23 DEF CalleeAnswered
  <2> QED
    BY <2>2, <2>3, <2>4
<1>24. CASE CalleeRecvCodecs
  <2>1. Contents'
    BY <1>24, ContentsCallee
  <2>2. Returned'
    BY <1>24, CalleeRecvCodecsCases
  <2>3. Order'
    BY <1>24, CalleeRecvCodecsCases
  <2>4. Asked'
    BY <1>24, CalleeRecvCodecsCases
  <2>5. Told'
    BY <1>24, CalleeRecvCodecsCases
  <2>6. LeftBehind'
    BY <1>24, CalleeRecvCodecsCases
  <2>7. CallerHolds'
    BY <1>24, CalleeRecvCodecsCases
  <2>8. Ringing'
    BY <1>24, CalleeRecvCodecsCases
  <2>9. CalleeHolds'
    BY <1>24, CalleeRecvCodecsCases
  <2>10. Closing'
    BY <1>24, CalleeRecvCodecsCases
  <2> QED
    BY <2>1, <2>2, <2>3, <2>4, <2>5, <2>6, <2>7, <2>8, <2>9, <2>10
<1>25. CASE ConnectionBreaks
  <2>1. PICK m \in 0 .. Len(toCallee) : toCallee' = SubSeq(toCallee, 1, m)
    BY <1>25 DEF ConnectionBreaks
  <2>2. PICK k \in 0 .. Len(toCaller) : toCaller' = SubSeq(toCaller, 1, k)
    BY <1>25 DEF ConnectionBreaks
  <2>3. \A i \in DOMAIN toCallee' : i \in DOMAIN toCallee /\ toCallee'[i] = toCallee[i]
    BY <2>1
  <2>4. \A i \in DOMAIN toCaller' : i \in DOMAIN toCaller /\ toCaller'[i] = toCaller[i]
    BY <2>2
  <2>5. Len(toCallee') = m /\ Len(toCaller') = k
    BY <2>1, <2>2
  <2>6. toCallee' \in Seq(Packet) /\ toCaller' \in Seq(Packet)
    BY <2>1, <2>2
  <2>7. Contents' /\ LeftBehind'
    BY <1>25, <2>1, <2>2, <2>3, <2>4, <2>5 DEF ConnectionBreaks
  <2>8. Asked' /\ Told'
    BY <1>25, <2>3, <2>4, <2>5, <2>6 DEF ConnectionBreaks
  <2>9. /\ Returned' /\ Order' /\ CallerHolds' /\ Ringing' /\ CalleeHolds' /\ Closing'
    BY <1>25, <2>1, <2>2, <2>3, <2>4, <2>6 DEF ConnectionBreaks
  <2> QED
    BY <2>7, <2>8, <2>9
<1>26. ASSUME NEW answer \in BOOLEAN, ButtonClick(answer) PROVE Parts'
  BY <1>26 DEF ButtonClick
<1>27. CASE Over \/ UNCHANGED vars
  BY <1>27, SMTT(30) DEF Over, vars
<1> QED
  BY <1>1, <1>2, <1>3, <1>4, <1>5, <1>6, <1>7, <1>8, <1>9, <1>10, <1>11, <1>12,
     <1>13, <1>14, <1>15, <1>16, <1>17, <1>18, <1>19, <1>20, <1>21, <1>22, <1>23,
     <1>24, <1>25, <1>26, <1>27 DEF Next, CallerStep, CalleeStep

\* Every step keeps the inductive invariant.
LEMMA IndInvStep == IndInv /\ [Next]_vars => IndInv'
<1>1. IndInv /\ [Next]_vars => TypeOK'
  BY TypeStep DEF IndInv
<1> QED
  BY <1>1, PartsStep DEF IndInv

\* IndInv holds throughout.
THEOREM Inductive == Spec => []IndInv
BY InitIndInv, IndInvStep, PTL DEF Spec

\* Every variable keeps its type: no reply leaves a queue or a return value
\* that the other end, or the interface, has no case for.
THEOREM TypeCorrect == Spec => []TypeOK
<1>1. IndInv => TypeOK
  BY DEF IndInv
<1> QED
  BY <1>1, Inductive, PTL

\* A caller that returns 4 and the called side agree on user, codec and ports.
THEOREM AgreementHolds == Spec => []Agreement
<1>1. IndInv => Agreement
  <2> SUFFICES ASSUME IndInv, cret = 4 PROVE Agreement
    BY DEF Agreement
  <2>1. aret = 2
    BY DEF IndInv, CallerHolds
  <2>2. CallerAgreed /\ dialled = Self /\ notify.accept /\ artp = CallerPort
    BY <2>1 DEF IndInv, Closing, CalleeHolds
  <2>3. standing = "known"
    BY <2>2 DEF IndInv, Ringing
  <2> QED
    BY <2>1, <2>2, <2>3 DEF Agreement, CallerAgreed
<1> QED
  BY <1>1, Inductive, PTL

\* A session opened by the called side alone is one the caller had agreed to.
THEOREM HalfOpenHolds == Spec => []HalfOpenCall
<1>1. IndInv => HalfOpenCall
  BY DEF IndInv, HalfOpenCall, Closing, CallerAgreed, CalleeHolds
<1> QED
  BY <1>1, Inductive, PTL

-----------------------------------------------------------------------------
\* The offer of the caller is its list, and the codec the called side found in
\* it stays the first of that list that both have: by then neither list can be
\* reordered any more.
Offered == \A i \in DOMAIN toCallee : toCallee[i].type = "CODECTX" => toCallee[i].codecs = clist
Found ==
  asel # NoCodec =>
    /\ apc \in {"wRtp", "wBye", "done"}
    /\ \E i \in DOMAIN clist : /\ clist[i].payload = asel.payload /\ clist[i].ms = asel.ms
                               /\ FailBefore(clist, i)
PriorityInv == Offered /\ Found /\ CallerPriority

\* Nothing has been offered, found or chosen.
LEMMA PriorityInit == Init => PriorityInv
BY DEF Init, PriorityInv, Offered, Found, CallerPriority, Running

\* The caller sends its list and no other.
LEMMA OfferedStep == ASSUME IndInv, Offered, [Next]_vars PROVE Offered'
<1>0. toCallee \in Seq(Packet) /\ clist' = clist
  BY DEF IndInv, TypeOK, Next, vars, CallerStep, CalleeStep, Dial, ReadExit, SelectExpires,
     Interrupt, CallerRecvFails, CallerRecvUser, CallerRecvCodec, CallerRecvRtp,
     CallerRecvBye, CallerDrops, UserCancels, Accept, CalleeTimesOut, CalleeRecvFails,
     CalleeRecvHelo, CalleeRecvUnknown, CalleeAnswered, CalleeRecvReject,
     CalleeRecvNoCodec, CalleeRecvCodecs, CalleeRecvRtp, CalleeRecvBye, UserFilter,
     ButtonClick, PreferCodec, ConnectionBreaks, Over, inputs
<1>1. CASE toCallee' = toCallee
  BY <1>0, <1>1 DEF Offered
<1>2. ASSUME NEW p, toCallee' = Append(toCallee, p), p.type = "CODECTX" => p.codecs = clist
      PROVE  Offered'
  BY <1>0, <1>2 DEF Offered
<1>3. CASE CallerStep \/ UserCancels
  <2>1. \/ toCallee' = toCallee
        \/ \E p : toCallee' = Append(toCallee, p) /\ (p.type = "CODECTX" => p.codecs = clist)
    BY <1>3 DEF CallerStep, UserCancels, Dial, ReadExit, SelectExpires, Interrupt,
       CallerRecvFails, CallerRecvUser, CallerRecvCodec, CallerRecvRtp, CallerRecvBye,
       CallerDrops, CallerReplies, CallerSends, Plain, Helo, CodecTx, Rtp
  <2> QED
    BY <1>1, <1>2, <2>1
<1>4. CASE CalleeStep
  <2>1. toCallee' = toCallee \/ (toCallee # <<>> /\ toCallee' = Tail(toCallee))
    BY <1>4 DEF CalleeStep, Accept, CalleeTimesOut, CalleeRecvFails, CalleeRecvHelo,
       CalleeRecvUnknown, CalleeAnswered, CalleeRecvReject, CalleeRecvNoCodec,
       CalleeRecvCodecs, CalleeRecvRtp, CalleeRecvBye, CalleeReceives
  <2> QED
    BY <1>0, <1>1, <2>1 DEF Offered
<1>5. CASE ConnectionBreaks
  <2>1. PICK m \in 0 .. Len(toCallee) : toCallee' = SubSeq(toCallee, 1, m)
    BY <1>5 DEF ConnectionBreaks
  <2> QED
    BY <1>0, <2>1 DEF Offered
<1>6. CASE UserFilter \/ (\E answer \in BOOLEAN : ButtonClick(answer)) \/ PreferCodec \/ Over
           \/ UNCHANGED vars
  BY <1>1, <1>6 DEF UserFilter, ButtonClick, PreferCodec, Over, vars
<1> QED
  BY <1>3, <1>4, <1>5, <1>6 DEF Next

\* What is found stays found, once the search is over.
LEMMA FoundKept ==
  ASSUME Found, UNCHANGED <<asel, clist>>,
         asel # NoCodec => UNCHANGED <<acodecs, ahead>> /\ apc' \in {"wRtp", "wBye", "done"}
  PROVE  Found'
BY DEF Found, FailBefore, Matches

\* The search finds the first of the caller's list.
LEMMA FoundBySearch ==
  ASSUME IndInv, Offered, Found, CalleeRecvCodecs PROVE Found'
<1>0. /\ apc = "wCodecs" /\ toCallee # <<>> /\ toCallee \in Seq(Packet)
      /\ UNCHANGED <<clist, acodecs, ahead>>
  BY DEF CalleeRecvCodecs, CalleeReceives, IndInv, TypeOK, inputs
<1>1. CASE asel' = asel
  <2>1. asel = NoCodec
    BY <1>0 DEF Found
  <2> QED
    BY <1>1, <2>1 DEF Found
<1>2. CASE asel' # asel
  <2>1. Head(toCallee).type = "CODECTX"
    BY <1>2 DEF CalleeRecvCodecs
  <2>2. Head(toCallee).codecs = clist
    BY <1>0, <2>1 DEF Offered
  <2>3. PICK i \in DOMAIN clist : \E k \in Matches(clist[i]) :
          /\ FailBefore(clist, i) /\ asel' = acodecs[k]
          /\ CalleeReplies(CodecTx(<<acodecs[k]>>), "wRtp", Running, -1)
    BY <1>2, <2>1, <2>2 DEF CalleeRecvCodecs
  <2>4. /\ asel'.payload = clist[i].payload /\ asel'.ms = clist[i].ms
        /\ apc' \in {"wRtp", "done"}
    BY <2>3 DEF Matches, CalleeReplies
  <2>5. FailBefore(clist, i)'
    BY <1>0, <2>3 DEF FailBefore, Matches
  <2> QED
    BY <1>0, <2>4, <2>5 DEF Found
<1> QED
  BY <1>1, <1>2

\* Every step keeps what was found.
LEMMA FoundStep == ASSUME IndInv, Offered, Found, [Next]_vars PROVE Found'
<1>1. CASE CallerStep \/ UserCancels
  <2>1. UNCHANGED <<asel, clist, acodecs, ahead, apc>>
    BY <1>1 DEF CallerStep, UserCancels, Dial, ReadExit, SelectExpires, Interrupt,
       CallerRecvFails, CallerRecvUser, CallerRecvCodec, CallerRecvRtp, CallerRecvBye,
       CallerDrops, callee, inputs
  <2>2. asel # NoCodec => apc' \in {"wRtp", "wBye", "done"}
    BY <2>1 DEF Found
  <2> QED
    BY <2>1, <2>2, FoundKept
<1>2. CASE CalleeStep /\ ~CalleeRecvCodecs
  <2>1. UNCHANGED <<asel, clist, acodecs>>
    BY <1>2 DEF CalleeStep, Accept, CalleeTimesOut, CalleeRecvFails, CalleeRecvHelo,
       CalleeRecvUnknown, CalleeAnswered, CalleeRecvReject, CalleeRecvNoCodec,
       CalleeRecvRtp, CalleeRecvBye, inputs
  <2>2. apc \in {"wRtp", "wBye", "done"} => ahead' = ahead /\ apc' \in {"wRtp", "wBye", "done"}
    BY <1>2 DEF CalleeStep, Accept, CalleeTimesOut, CalleeRecvFails, CalleeRecvHelo,
       CalleeRecvUnknown, CalleeAnswered, CalleeRecvReject, CalleeRecvNoCodec,
       CalleeRecvRtp, CalleeRecvBye, CalleeReceives, CalleeReplies, CalleeReturns
  <2>3. asel # NoCodec => ahead' = ahead /\ apc' \in {"wRtp", "wBye", "done"}
    BY <2>2 DEF Found
  <2> QED
    BY <2>1, <2>3, FoundKept
<1>3. CASE CalleeRecvCodecs
  BY <1>3, FoundBySearch
<1>4. CASE UserFilter \/ (\E answer \in BOOLEAN : ButtonClick(answer)) \/ ConnectionBreaks \/ Over
           \/ UNCHANGED vars
  <2>1. UNCHANGED <<asel, clist, acodecs, ahead, apc>>
    BY <1>4 DEF UserFilter, ButtonClick, ConnectionBreaks, Over, vars, callee, inputs
  <2>2. asel # NoCodec => apc' \in {"wRtp", "wBye", "done"}
    BY <2>1 DEF Found
  <2> QED
    BY <2>1, <2>2, FoundKept
<1>5. CASE PreferCodec
  <2>1. UNCHANGED <<asel, clist, ahead, apc>> /\ apc \notin {"wRtp", "wBye", "done"}
    BY <1>5 DEF PreferCodec, callee, inputs
  <2>2. asel = NoCodec
    BY <2>1 DEF Found
  <2> QED
    BY <2>1, <2>2, FoundKept
<1> QED
  BY <1>1, <1>2, <1>3, <1>4, <1>5 DEF Next

\* The caller finds the node by its payload type, which no other node has.
LEMMA ChoiceIsFound ==
  ASSUME IndInv, Found, CallerRecvCodec, cpc' = "wRtp" PROVE CallerPriority'
<1>0. /\ cpc = "wCodec" /\ toCaller # <<>> /\ toCaller \in Seq(Packet) /\ clist \in CallerLists
      /\ UNCHANGED <<clist, acodecs, ahead, asel>>
  BY DEF CallerRecvCodec, CallerReceives, IndInv, TypeOK, callee, inputs
<1>1. Head(toCaller).type = "CODECTX"
  BY DEF CallerRecvCodec, CallerReplies, CallerReturns
<1>2. asel \in Codec /\ Head(toCaller).codecs = <<asel>>
  BY <1>0, <1>1 DEF IndInv, Told
<1>3. PICK k \in OwnCodec(asel) : csel' = clist[k]
  BY <1>1, <1>2 DEF CallerRecvCodec, CallerReplies, CallerReturns
<1>4. PICK i \in DOMAIN clist : /\ clist[i].payload = asel.payload /\ clist[i].ms = asel.ms
                                /\ FailBefore(clist, i)
  BY <1>2, NoCodecAssumption DEF Found
<1>5. k = i
  BY <1>0, <1>3, <1>4, PayloadAssumption DEF OwnCodec
<1>6. FailBefore(clist, i)'
  BY <1>0, <1>4 DEF FailBefore, Matches
<1> QED
  BY <1>0, <1>3, <1>4, <1>5, <1>6 DEF CallerPriority

\* What is chosen stays chosen: the codec of either side is not touched again.
LEMMA ChoiceKept ==
  ASSUME Found, CallerPriority, UNCHANGED <<csel, asel, clist>>,
         asel # NoCodec => UNCHANGED <<acodecs, ahead>>,
         cpc' \in {"wRtp", "wBye"} \/ cret' = 4 =>
           (cpc \in {"wRtp", "wBye"} \/ cret = 4) /\ asel # NoCodec
  PROVE  CallerPriority'
BY DEF CallerPriority, FailBefore, Matches

\* A caller that has chosen has chosen what the called side found.
LEMMA ChosenIsFound ==
  ASSUME IndInv, cpc \in {"wRtp", "wBye"} \/ cret = 4 PROVE asel # NoCodec /\ apc # "wCodecs"
<1>1. cret = 4 => aret = 2 /\ apc = "done"
  BY DEF IndInv, CallerHolds, Returned, Running
<1>2. asel \in Codec
  BY <1>1 DEF IndInv, CallerHolds, CalleeHolds
<1>3. apc # "wCodecs"
  BY <1>1 DEF IndInv, Order
<1> QED
  BY <1>2, <1>3, NoCodecAssumption

\* Every step keeps the choice.
LEMMA PriorityStep ==
  ASSUME IndInv, PriorityInv, [Next]_vars PROVE CallerPriority'
<1> USE DEF PriorityInv
<1> DEFINE Chosen == cpc \in {"wRtp", "wBye"} \/ cret = 4
<1>0. /\ cpc = "done" <=> cret # Running
      /\ Chosen => asel # NoCodec /\ apc # "wCodecs"
  BY ChosenIsFound DEF IndInv, Returned
<1>1. CASE CallerRecvCodec
  <2>1. CASE cpc' = "wRtp"
    BY <1>1, <2>1, ChoiceIsFound
  <2>2. CASE cpc' # "wRtp"
    BY <1>1, <2>2 DEF CallerRecvCodec, CallerReplies, CallerReturns, CallerPriority, Running
  <2> QED
    BY <2>1, <2>2
<1>2. CASE CallerStep \/ UserCancels
  <2>1. CASE CallerRecvCodec
    BY <1>1, <2>1
  <2>2. CASE ~CallerRecvCodec
    <3>1. UNCHANGED <<csel, asel, clist, acodecs, ahead>>
      BY <1>2, <2>2 DEF CallerStep, UserCancels, Dial, ReadExit, SelectExpires, Interrupt,
         CallerRecvFails, CallerRecvUser, CallerRecvRtp, CallerRecvBye, CallerDrops,
         callee, inputs
    <3>2. Chosen' => Chosen
      BY <1>2, <2>2 DEF CallerStep, UserCancels, Dial, ReadExit, SelectExpires, Interrupt,
         CallerRecvFails, CallerRecvUser, CallerRecvRtp, CallerRecvBye, CallerDrops,
         CallerReplies, CallerReturns, CallerReceives, Running
    <3> QED
      BY <1>0, <3>1, <3>2, ChoiceKept
  <2> QED
    BY <2>1, <2>2
<1>3. CASE CalleeStep
  <2>1. UNCHANGED <<cpc, cret, csel, clist, acodecs>>
    BY <1>3 DEF CalleeStep, Accept, CalleeTimesOut, CalleeRecvFails, CalleeRecvHelo,
       CalleeRecvUnknown, CalleeAnswered, CalleeRecvReject, CalleeRecvNoCodec,
       CalleeRecvCodecs, CalleeRecvRtp, CalleeRecvBye, caller, inputs
  <2>2. CASE Chosen
    <3>1. asel' = asel /\ ahead' = ahead
      <4>1. apc # "wCodecs" /\ apc # "listen"
        BY <1>0, <2>2 DEF Found
      <4> QED
        BY <1>3, <4>1 DEF CalleeStep, Accept, CalleeTimesOut, CalleeRecvFails, CalleeRecvHelo,
           CalleeRecvUnknown, CalleeAnswered, CalleeRecvReject, CalleeRecvNoCodec,
           CalleeRecvCodecs, CalleeRecvRtp, CalleeRecvBye, CalleeReceives
    <3> QED
      BY <1>0, <2>1, <2>2, <3>1, ChoiceKept
  <2>3. CASE ~Chosen
    BY <2>1, <2>3 DEF CallerPriority
  <2> QED
    BY <2>2, <2>3
<1>4. CASE UserFilter \/ (\E answer \in BOOLEAN : ButtonClick(answer)) \/ ConnectionBreaks \/ Over
           \/ UNCHANGED vars
  <2>1. UNCHANGED <<cpc, cret, csel, asel, clist, acodecs, ahead>>
    BY <1>4 DEF UserFilter, ButtonClick, ConnectionBreaks, Over, vars, caller, callee, inputs
  <2> QED
    BY <1>0, <2>1, ChoiceKept
<1>5. CASE PreferCodec
  <2>1. UNCHANGED <<cpc, cret, csel>> /\ apc \notin {"wRtp", "wBye", "done"}
    BY <1>5 DEF PreferCodec, caller
  <2>2. ~Chosen
    BY <1>0, <2>1 DEF Found
  <2> QED
    BY <2>1, <2>2 DEF CallerPriority
<1> QED
  BY <1>2, <1>3, <1>4, <1>5 DEF Next

\* The codec of a call is the first of the caller's list that the called side
\* found in the list it walked, in both fields, wherever nodes are moved to.
THEOREM PriorityHolds == Spec => []CallerPriority
<1>1. IndInv /\ PriorityInv /\ [Next]_vars => PriorityInv'
  BY OfferedStep, FoundStep, PriorityStep DEF PriorityInv
<1>2. PriorityInv => CallerPriority
  BY DEF PriorityInv
<1> QED
  BY <1>1, <1>2, PriorityInit, Inductive, PTL DEF Spec

-----------------------------------------------------------------------------
\* An initial state of SsipNeg is one of SsipCall.
LEMMA RefinesInit == Init => Call!CallInit
BY DEF Init, Call!CallInit, Outcome, Running

\* A step of the caller ends its part of the call, or changes nothing there.
LEMMA CallerRefines ==
  ASSUME IndInv, IndInv', UNCHANGED <<callee, notify>>, cret = Running \/ cret' = cret
  PROVE  [Call!CallNext]_Call!callVars
<1> USE DEF Call!CallNext, Call!callVars, Outcome, callee, Running
<1>1. CASE cret' = cret
  BY <1>1
<1>2. CASE cret = Running /\ cret' = 4
  <2>1. aret = 2
    BY <1>2 DEF IndInv, CallerHolds
  <2>2. Call!CallerUp
    BY <1>2, <2>1 DEF Call!CallerUp
  <2> QED
    BY <2>2
<1>3. CASE cret = Running /\ cret' \notin {Running, 4}
  <2>1. Call!CallerDown
    BY <1>3 DEF Call!CallerDown
  <2> QED
    BY <2>1
<1> QED
  BY <1>1, <1>2, <1>3

\* A step of the called side fixes the codec, ends its part of the call, or
\* changes nothing there.
LEMMA CalleeRefines ==
  ASSUME IndInv, IndInv', UNCHANGED <<cret, notify>>, aret = Running, apc # "done",
         \/ UNCHANGED asel /\ apc \notin {"wRtp", "wBye"} /\ apc' \notin {"wRtp",
            "wBye"}
         \/ UNCHANGED asel /\ apc \in {"wRtp", "wBye"} /\ apc' \in {"wRtp", "wBye",
            "done"}
         \/ apc = "wCodecs" /\ apc' \in {"wRtp", "done"},
         aret' = 2 => apc \in {"wRtp", "wBye"}
  PROVE  [Call!CallNext]_Call!callVars
<1> USE DEF Call!CallNext, Call!callVars, Outcome, Running
<1>1. aret' = Running <=> apc' # "done"
  BY DEF IndInv, Returned
<1>2. CASE aret' = Running /\ apc = "wCodecs" /\ apc' = "wRtp"
  <2>1. asel' \in Codec /\ notify.accept /\ notify.process /\ ~notify.ready
    BY <1>2 DEF IndInv, CalleeHolds, Ringing
  <2>2. Call!FixCodec(asel')
    BY <1>2, <2>1 DEF Call!FixCodec
  <2> QED
    BY <2>1, <2>2
<1>3. CASE aret' = Running /\ ~(apc = "wCodecs" /\ apc' = "wRtp")
  BY <1>1, <1>3
<1>4. CASE aret' = 2
  <2>1. asel \in Codec /\ asel' = asel
    BY <1>1, <1>4 DEF IndInv, CalleeHolds
  <2>2. Call!CalleeUp
    BY <1>4, <2>1, NoCodecAssumption DEF Call!CalleeUp
  <2> QED
    BY <2>2
<1>5. CASE aret' \notin {Running, 2}
  <2>1. apc' = "done"
    BY <1>1, <1>5
  <2>2. Call!CalleeDown
    BY <1>5, <2>1 DEF Call!CalleeDown
  <2> QED
    BY <2>2
<1> QED
  BY <1>2, <1>3, <1>4, <1>5

\* Every step is a step of SsipCall or leaves what it sees unchanged.
LEMMA RefinesStep ==
  ASSUME IndInv, IndInv', [Next]_vars
  PROVE  [Call!CallNext]_Call!callVars
<1>0. /\ cpc = "done" <=> cret # Running
      /\ apc = "done" <=> aret # Running
  BY DEF IndInv, Returned
<1>1. CASE CallerStep \/ UserCancels
  <2>1. UNCHANGED <<callee, notify>>
    BY <1>1 DEF CallerStep, UserCancels, Dial, ReadExit, SelectExpires, Interrupt,
         CallerRecvFails, CallerRecvUser, CallerRecvCodec, CallerRecvRtp,
         CallerRecvBye, CallerDrops
  <2>2. cret = Running \/ cret' = cret
    BY <1>0, <1>1 DEF CallerStep, UserCancels, Dial, ReadExit, SelectExpires, Interrupt,
         CallerRecvFails, CallerRecvUser, CallerRecvCodec, CallerRecvRtp,
         CallerRecvBye, CallerDrops, CallerReceives, CallerWait, IndInv, Returned
  <2> QED
    BY <2>1, <2>2, CallerRefines
<1>2. CASE CalleeStep /\ ~CalleeRecvHelo
  <2>1. UNCHANGED <<cret, notify>>
    BY <1>2 DEF CalleeStep, Accept, CalleeTimesOut, CalleeRecvFails,
         CalleeRecvUnknown, CalleeAnswered, CalleeRecvReject, CalleeRecvNoCodec,
         CalleeRecvCodecs, CalleeRecvRtp, CalleeRecvBye, caller
  <2>2. apc # "done"
    BY <1>2 DEF CalleeStep, Accept, CalleeTimesOut, CalleeRecvFails,
         CalleeRecvUnknown, CalleeAnswered, CalleeRecvReject, CalleeRecvNoCodec,
         CalleeRecvCodecs, CalleeRecvRtp, CalleeRecvBye, CalleeReceives
  <2>3. \/ UNCHANGED asel /\ apc \notin {"wRtp", "wBye"} /\ apc' \notin {"wRtp", "wBye"}
        \/ UNCHANGED asel /\ apc \in {"wRtp", "wBye"} /\ apc' \in {"wRtp", "wBye",
           "done"}
        \/ apc = "wCodecs" /\ apc' \in {"wRtp", "done"}
    <3>1. CASE CalleeRecvCodecs
      BY <3>1, CalleeRecvCodecsCases DEF IndInv, CalleeReceives, CalleeReplies,
           CalleeReturns
    <3>2. CASE ~CalleeRecvCodecs
      BY <1>2, <3>2 DEF CalleeStep, Accept, CalleeTimesOut, CalleeRecvFails,
           CalleeRecvUnknown, CalleeAnswered, CalleeRecvReject, CalleeRecvNoCodec,
           CalleeRecvRtp, CalleeRecvBye, CalleeReceives, CalleeReplies, CalleeReturns
    <3> QED
      BY <3>1, <3>2
  <2>4. aret' = 2 => apc \in {"wRtp", "wBye"}
    BY <1>0, <1>2, <2>2 DEF CalleeStep, Accept, CalleeTimesOut, CalleeRecvFails,
         CalleeRecvUnknown, CalleeAnswered, CalleeRecvReject, CalleeRecvNoCodec,
         CalleeRecvCodecs, CalleeRecvRtp, CalleeRecvBye, CalleeReceives,
         CalleeReplies, CalleeReturns, Running
  <2> QED
    BY <1>0, <2>1, <2>2, <2>3, <2>4, CalleeRefines
<1>3. CASE CalleeRecvHelo
  <2>1. CASE notify' = notify /\ apc' # "ring"
    <3>1. /\ UNCHANGED <<cret, asel>> /\ apc = "wHelo" /\ apc' \notin {"wRtp", "wBye"}
          /\ aret' # 2
      BY <1>0, <1>3 DEF CalleeRecvHelo, CalleeReceives, CalleeReplies, CalleeReturns,
           caller, Running
    <3> QED
      BY <1>0, <2>1, <3>1, CalleeRefines
  <2>2. CASE /\ notify' = [ready |-> TRUE, process |-> FALSE, accept |-> FALSE]
             /\ apc' = "ring" /\ aret' = aret
    <3>1. UNCHANGED <<cret, aret, asel>> /\ apc = "wHelo" /\ apc' = "ring"
      BY <1>3, <2>2 DEF CalleeRecvHelo, CalleeReceives, caller
    <3>2. ~notify.process /\ ~notify'.process
      BY <2>2, <3>1 DEF IndInv, Ringing
    <3> QED
      BY <3>1, <3>2 DEF Call!callVars, Outcome
  <2> QED
    BY <1>3, <2>1, <2>2 DEF CalleeRecvHelo, CalleeReplies, CalleeReturns
<1>4. ASSUME UserFilter \/ \E answer \in BOOLEAN : ButtonClick(answer)
      PROVE  [Call!CallNext]_Call!callVars
  <2>1. UNCHANGED <<caller, callee>> /\ notify.ready
    BY <1>4 DEF UserFilter, ButtonClick
  <2>2. aret = Running
    BY <1>0, <2>1 DEF IndInv, Ringing
  <2>3. notify'.process
    BY <1>4 DEF UserFilter, ButtonClick
  <2>4. CASE notify'.ready
    BY <2>1, <2>4 DEF Call!callVars, Outcome, caller, callee
  <2>5. CASE ~notify'.ready
    <3>1. CASE notify'.accept
      <4>1. Call!Answer("yes")
        BY <2>1, <2>2, <2>3, <2>5, <3>1 DEF Call!Answer, Outcome, caller, callee
      <4> QED
        BY <4>1 DEF Call!CallNext
    <3>2. CASE ~notify'.accept
      <4>1. Call!Answer("no")
        BY <2>1, <2>2, <2>3, <2>5, <3>2 DEF Call!Answer, Outcome, caller, callee
      <4> QED
        BY <4>1 DEF Call!CallNext
    <3> QED
      BY <3>1, <3>2
  <2> QED
    BY <2>4, <2>5
<1>5. CASE PreferCodec \/ ConnectionBreaks \/ Over \/ UNCHANGED vars
  <2>1. UNCHANGED <<caller, callee, notify>>
    BY <1>5 DEF PreferCodec, ConnectionBreaks, Over, vars
  <2> QED
    BY <2>1 DEF Call!callVars, Outcome, caller, callee
<1> QED
  BY <1>1, <1>2, <1>3, <1>4, <1>5 DEF Next, CalleeStep

\* The exchange of packets implements the call of SsipCall.
THEOREM Refinement == Spec => CallSpec
<1>1. Init => Call!CallInit
  BY RefinesInit
<1>2. IndInv /\ IndInv' /\ [Next]_vars => [Call!CallNext]_Call!callVars
  BY RefinesStep
<1> QED
  BY <1>1, <1>2, Inductive, PTL DEF Spec, CallSpec, Call!CallSpec
=============================================================================
