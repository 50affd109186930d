------------------------ MODULE ProxyDirectoryProofs ------------------------
(***************************************************************************)
(* For any users, programs, queue and number of starts: a program is told  *)
(* the truth about itself, and the users' file and the requests implement  *)
(* UserDirectory.  The invariant follows a request from the program that   *)
(* waits for it, through the queue of connections, to the answer.          *)
(***************************************************************************)
EXTENDS ProxyDirectory, TLAPS

Entered(p) == dir[Of[p]] = [prog |-> p, pass |-> pass[p]]
Absent(p) == dir[Of[p]].prog # p
Joins(p) == gui[p] \in {"enter", "apply"}

\* What a program that is told "ok" may conclude.
Done(p) == IF Joins(p) THEN Entered(p) ELSE Absent(p)

\* The program of a request that it has not given up still waits, for that.
Awaited(r) ==
  /\ gui[r.from] \in Waits /\ reply[r.from] = "none"
  /\ r.type = (IF Joins(r.from) THEN "ONLINE" ELSE "OFFLINE")
  /\ r.pass = pass[r.from]

\* It is the last request of that program.
QueueInv ==
  \A i \in 1 .. Len(backlog) : backlog[i].conn = "open" =>
    /\ Awaited(backlog[i])
    /\ \A j \in 1 .. Len(backlog) : j > i => backlog[j].from # backlog[i].from

ServedInv ==
  /\ srv = "accept" => req = NoRequest
  /\ srv # "accept" => req \in Request
  /\ srv = "write" => answer = "ok" /\ Verdict(req) = "ok"
  /\ req.conn = "open" =>
       /\ Awaited(req)
       /\ \A j \in 1 .. Len(backlog) : backlog[j].from # req.from
       /\ srv = "reply" /\ answer = "ok" => Done(req.from)

\* No request of a program is still to have an effect.
Quiet(p) ==
  /\ \A i \in 1 .. Len(backlog) : backlog[i].from # p
  /\ ~(srv = "write" /\ req.from = p)

ToldInv ==
  \A p \in Programs :
    /\ reply[p] = "ok" => Quiet(p) /\ Done(p)
    /\ told[p] = "online" => Quiet(p) /\ Entered(p)
    /\ told[p] = "offline" => Quiet(p) /\ Absent(p)

IndInv == TypeOK /\ QueueInv /\ ServedInv /\ ToldInv

-----------------------------------------------------------------------------
(* The types                                                                 *)

\* A queue to which an element is added, and what is in it.
LEMMA Appended ==
  ASSUME NEW S, NEW s \in Seq(S), NEW e \in S
  PROVE  /\ Append(s, e) \in Seq(S) /\ Len(Append(s, e)) = Len(s) + 1
         /\ \A i \in 1 .. Len(s) : Append(s, e)[i] = s[i]
         /\ Append(s, e)[Len(s) + 1] = e
  OBVIOUS

\* What a program asks for is a request, the last of the queue.
LEMMA AskTypes ==
  ASSUME TypeOK, NEW p \in Programs, NEW type \in {"ONLINE", "OFFLINE"}, NEW pw \in Nat,
         Ask(p, type, pw)
  PROVE  /\ told' \in [Programs -> {"nothing", "online", "offline"}]
         /\ reply' \in [Programs -> {"none", "ok", "no"}]
         /\ backlog' \in Seq(Request)
         /\ \/ backlog' = backlog
            \/ /\ Len(backlog') = Len(backlog) + 1
               /\ \A i \in 1 .. Len(backlog) : backlog'[i] = backlog[i]
               /\ backlog'[Len(backlog) + 1] =
                    [from |-> p, type |-> type, pass |-> pw, conn |-> "open"]
<1> DEFINE r == [from |-> p, type |-> type, pass |-> pw, conn |-> "open"]
<1>1. r \in Request
  BY DEF Request
<1>2. backlog \in Seq(Request)
  BY DEF TypeOK
<1>3. backlog' = backlog \/ backlog' = Append(backlog, r)
  BY DEF Ask
<1> HIDE DEF r
<1>4. /\ backlog' \in Seq(Request)
      /\ \/ backlog' = backlog
         \/ /\ Len(backlog') = Len(backlog) + 1
            /\ \A i \in 1 .. Len(backlog) : backlog'[i] = backlog[i]
            /\ backlog'[Len(backlog) + 1] = r
  BY <1>1, <1>2, <1>3, Appended
<1>5. QED
  BY <1>4 DEF Ask, TypeOK, r

\* A request given up is a request, in its place.
LEMMA HangUpTypes ==
  ASSUME TypeOK, NEW p \in Programs, HangUp(p)
  PROVE  /\ backlog' \in Seq(Request) /\ Len(backlog') = Len(backlog)
         /\ \A i \in 1 .. Len(backlog) : backlog'[i] = Orphan(backlog[i], p)
         /\ req' \in Request \cup {NoRequest}
<1>1. \A r \in Request : Orphan(r, p) \in Request
  BY DEF Request, Orphan
<1>2. Orphan(NoRequest, p) = NoRequest
  BY ProgramAssumption DEF NoRequest, Orphan
<1>3. backlog' = [i \in 1 .. Len(backlog) |-> Orphan(backlog[i], p)]
  BY DEF HangUp, TypeOK
<1>4. \A i \in 1 .. Len(backlog) : backlog[i] \in Request
  BY DEF TypeOK
<1>5. QED
  BY <1>1, <1>2, <1>3, <1>4 DEF HangUp, TypeOK

\* A program that ends keeps the types.
LEMMA ForgetsTypes ==
  ASSUME TypeOK, NEW p \in Programs, Forgets(p)
  PROVE  /\ gui' \in [Programs -> {"off", "idle"} \cup Waits]
         /\ conf' \in [Programs -> BOOLEAN]
         /\ pass' \in [Programs -> Nat]
         /\ toolbar' \in [Programs -> {1, 2}]
         /\ loop' \in [Programs -> {"off", "runs", "failed"}]
         /\ told' \in [Programs -> {"nothing", "online", "offline"}]
         /\ reply' \in [Programs -> {"none", "ok", "no"}]
<1>1. saved[p].conf \in BOOLEAN /\ saved[p].pass \in Nat
  BY DEF TypeOK
<1>2. conf' \in [Programs -> BOOLEAN] /\ loop' \in [Programs -> {"off", "runs", "failed"}]
  BY <1>1 DEF TypeOK, Forgets
<1>3. gui' \in [Programs -> {"off", "idle"} \cup Waits]
  BY DEF TypeOK, Forgets
<1>4. QED
  BY <1>1, <1>2, <1>3 DEF TypeOK, Forgets

\* A loop that is started, well or not, is not off, and the others stay.
LEMMA LoopStarts ==
  ASSUME TypeOK, NEW p \in Programs, StartLoop(p)
  PROVE  /\ loop' \in [Programs -> {"off", "runs", "failed"}]
         /\ loop'[p] # "off"
         /\ \A q \in Programs \ {p} : loop'[q] = loop[q]
<1>1. PICK l \in {"runs", "failed"} : loop' = [loop EXCEPT ![p] = l]
  BY DEF StartLoop
<1>2. QED
  BY <1>1 DEF TypeOK

\* Every step of a program keeps the types.
LEMMA ProgramTypes == ASSUME TypeOK, NEW p \in Programs, ProgramStep(p) PROVE TypeOK'
<1>1. CASE StartUp(p)
  <2>1. starts' \in [Programs -> Nat] /\ Password(p) \in Nat
    BY <1>1 DEF StartUp, TypeOK, Password
  <2>2. CASE conf[p]
    <3>1. Ask(p, "ONLINE", Password(p)) /\ pass' = [pass EXCEPT ![p] = Password(p)]
      BY <1>1, <2>2 DEF StartUp, AskOnline
    <3>2. UNCHANGED <<conf, saved, toolbar, loop, srv, req, answer, dir>>
      BY <1>1, <2>2 DEF StartUp, srvVars
    <3>3. gui' \in [Programs -> {"off", "idle"} \cup Waits]
      <4>1. gui' = [gui EXCEPT ![p] = "enter"]
        BY <1>1, <2>2 DEF StartUp
      <4>2. QED
        BY <4>1 DEF TypeOK, Waits
    <3>4. QED
      BY <2>1, <3>1, <3>2, <3>3, AskTypes DEF TypeOK
  <2>3. CASE ~conf[p]
    <3>1. loop' \in [Programs -> {"off", "runs", "failed"}] /\ gui' \in [Programs -> {"off", "idle"} \cup Waits]
      BY <1>1, <2>3, LoopStarts DEF StartUp, TypeOK
    <3>2. UNCHANGED <<conf, pass, saved, toolbar, told, reply, backlog, srv, req, answer, dir>>
      BY <1>1, <2>3 DEF StartUp, netVars, srvVars
    <3>3. QED
      BY <2>1, <3>1, <3>2 DEF TypeOK
  <2>4. QED
    BY <2>2, <2>3
<1>2. CASE ToolbarOnline(p) \/ Apply(p)
  <2>1. starts' = starts /\ Password(p) \in Nat
    BY <1>2 DEF ToolbarOnline, Apply, TypeOK, Password
  <2>2. UNCHANGED <<conf, saved, loop, srv, req, answer, dir>>
    BY <1>2 DEF ToolbarOnline, Apply, srvVars
  <2>3. Ask(p, "ONLINE", Password(p)) /\ pass' = [pass EXCEPT ![p] = Password(p)]
    BY <1>2 DEF ToolbarOnline, Apply, AskOnline
  <2>4. /\ gui' \in [Programs -> {"off", "idle"} \cup Waits]
        /\ toolbar' \in [Programs -> {1, 2}]
    BY <1>2 DEF ToolbarOnline, Apply, TypeOK, Waits
  <2>5. QED
    BY <2>1, <2>2, <2>3, <2>4, AskTypes DEF TypeOK
<1>3. CASE ToolbarOffline(p) \/ Unset(p)
  <2>1. pass[p] \in Nat
    BY DEF TypeOK
  <2>2. CASE ToolbarOffline(p)
    BY <2>1, <2>2, AskTypes DEF ToolbarOffline, AskOffline, TypeOK, Waits, srvVars
  <2>3. CASE Unset(p)
    BY <2>1, <2>3, AskTypes, LoopStarts DEF Unset, AskOffline, TypeOK, Waits, srvVars, netVars
  <2>4. QED
    BY <1>3, <2>2, <2>3
<1>4. CASE Save(p)
  <2>1. saved' \in [Programs -> [conf : BOOLEAN, pass : Nat]]
    <3>1. conf[p] \in BOOLEAN /\ pass[p] \in Nat
      BY DEF TypeOK
    <3>2. [conf |-> conf[p], pass |-> pass[p]] \in [conf : BOOLEAN, pass : Nat]
      BY <3>1, ZenonT(30)
    <3>3. saved' = [saved EXCEPT ![p] = [conf |-> conf[p], pass |-> pass[p]]]
      BY <1>4 DEF Save
    <3>4. QED
      BY <3>2, <3>3 DEF TypeOK
  <2>2. QED
    BY <1>4, <2>1 DEF Save, TypeOK, netVars, srvVars
<1>5. CASE Quit(p)
  <2>1. pass[p] \in Nat
    BY DEF TypeOK
  <2>2. CASE conf[p] /\ AskOffline(p, "quit") /\ UNCHANGED <<conf, pass, toolbar>>
    BY <1>5, <2>1, <2>2, AskTypes DEF Quit, AskOffline, TypeOK, Waits, srvVars
  <2>3. CASE ~conf[p] /\ Forgets(p) /\ UNCHANGED backlog
    BY <1>5, <2>3, ForgetsTypes DEF Quit, TypeOK, srvVars
  <2>4. QED
    BY <1>5, <2>2, <2>3 DEF Quit
<1>6. CASE Crash(p)
  BY <1>6, ForgetsTypes, HangUpTypes DEF Crash, TypeOK
<1>7. ASSUME NEW ok \in BOOLEAN, Proceed(p, ok)
      PROVE  /\ gui' \in [Programs -> {"off", "idle"} \cup Waits]
             /\ conf' \in [Programs -> BOOLEAN] /\ loop' \in [Programs -> {"off", "runs", "failed"}]
             /\ pass' \in [Programs -> Nat] /\ toolbar' \in [Programs -> {1, 2}]
  BY <1>7, LoopStarts DEF Proceed, TypeOK
<1>8. CASE Answered(p)
  <2>1. pass[p] \in Nat
    BY DEF TypeOK
  <2>2. CASE AskOffline(p, "applied") /\ UNCHANGED <<conf, pass, toolbar>>
    BY <1>8, <2>1, <2>2, AskTypes DEF Answered, AskOffline, TypeOK, Waits, srvVars
  <2>3. CASE Forgets(p) /\ UNCHANGED backlog
    BY <1>8, <2>3, ForgetsTypes DEF Answered, TypeOK, srvVars
  <2>4. CASE /\ Proceed(p, reply[p] = "ok") /\ UNCHANGED backlog
             /\ reply' = [reply EXCEPT ![p] = "none"]
             /\ told' = [told EXCEPT ![p] =
                  IF reply[p] # "ok" THEN "nothing"
                  ELSE IF gui[p] \in {"enter", "apply"} THEN "online" ELSE "offline"]
    BY <1>8, <1>7, <2>4 DEF Answered, TypeOK, srvVars
  <2>5. QED
    BY <1>8, <2>2, <2>3, <2>4 DEF Answered
<1>9. CASE GivesUp(p)
  <2>1. CASE Forgets(p)
    BY <1>9, <2>1, ForgetsTypes, HangUpTypes DEF GivesUp, TypeOK
  <2>2. CASE Proceed(p, FALSE) /\ reply' = [reply EXCEPT ![p] = "none"] /\ UNCHANGED told
    BY <1>9, <1>7, <2>2, HangUpTypes DEF GivesUp, TypeOK
  <2>3. QED
    BY <1>9, <2>1, <2>2 DEF GivesUp
<1>10. QED
  BY <1>1, <1>2, <1>3, <1>4, <1>5, <1>6, <1>8, <1>9 DEF ProgramStep

\* So does the process of notifications.
LEMMA NotifyTypes ==
  ASSUME TypeOK, ServedInv, NotifyRequest \/ NotifyWrite \/ NotifyReply PROVE TypeOK'
<1>1. CASE NotifyRequest
  <2>1. Head(backlog) \in Request /\ Tail(backlog) \in Seq(Request)
    BY <1>1 DEF NotifyRequest, TypeOK
  <2>2. \A r \in Request : Verdict(r) \in {"ok", "no"}
    BY DEF Verdict, Request
  <2>3. QED
    BY <1>1, <2>1, <2>2 DEF NotifyRequest, TypeOK, guiVars
<1>2. CASE NotifyWrite
  <2>1. req \in Request
    BY <1>2 DEF NotifyWrite, ServedInv
  <2>2. None \in Entry /\ [prog |-> req.from, pass |-> req.pass] \in Entry
    BY <2>1 DEF None, Entry, Request
  <2>3. QED
    BY <1>2, <2>2, ZenonT(30) DEF NotifyWrite, TypeOK, guiVars, netVars
<1>3. CASE NotifyReply
  <2>1. req \in Request
    BY <1>3 DEF NotifyReply, ServedInv
  <2>2. reply' \in [Programs -> {"none", "ok", "no"}]
    BY <1>3, <2>1 DEF NotifyReply, TypeOK, Request
  <2>3. QED
    BY <1>3, <2>2 DEF NotifyReply, TypeOK, guiVars
<1>4. QED
  BY <1>1, <1>2, <1>3

-----------------------------------------------------------------------------
(* What a program does to the requests, by what becomes of its own           *)

\* The other programs do not notice.
Others(p) ==
  \A q \in Programs \ {p} :
    gui'[q] = gui[q] /\ pass'[q] = pass[q] /\ told'[q] = told[q] /\ reply'[q] = reply[q]

\* No request of p waits for its answer.
Answerless(p) ==
  /\ \A i \in 1 .. Len(backlog) : backlog[i].from = p => backlog[i].conn # "open"
  /\ req.from = p => req.conn # "open"

LEMMA NotWaiting ==
  ASSUME IndInv, NEW p \in Programs, gui[p] \notin Waits \/ reply[p] # "none"
  PROVE  Answerless(p)
  BY DEF IndInv, QueueInv, ServedInv, Awaited, Answerless

\* A program without a request under way goes on without asking.
LEMMA Alone ==
  ASSUME IndInv, NEW p \in Programs, Answerless(p), Others(p), UNCHANGED <<backlog, srvVars>>,
         \/ told'[p] = "nothing"
         \/ told'[p] = told[p] /\ pass'[p] = pass[p]
         \/ reply[p] = "ok" /\ pass'[p] = pass[p] /\ told'[p] = (IF Joins(p) THEN "online" ELSE "offline"),
         \/ reply'[p] = "none"
         \/ reply'[p] = reply[p] /\ pass'[p] = pass[p] /\ gui[p] \notin Waits /\ gui'[p] \notin Waits
  PROVE  QueueInv' /\ ServedInv' /\ ToldInv'
<1>1. \A i \in 1 .. Len(backlog) : backlog[i] \in Request
  BY DEF IndInv, TypeOK
<1>2. req.conn = "open" => req.from \in Programs \ {p}
  BY DEF IndInv, TypeOK, Request, NoRequest, Answerless
<1>3. \A r \in Request : r.from # p /\ Awaited(r) => Awaited(r)'
  BY DEF Others, Awaited, Joins, Request
<1>4. \A q \in Programs \ {p} : (Done(q) => Done(q)') /\ (Entered(q) => Entered(q)') /\ (Absent(q) => Absent(q)')
  BY DEF Others, Done, Joins, Entered, Absent, srvVars
<1>5. QueueInv'
  BY <1>1, <1>3 DEF IndInv, QueueInv, Answerless, Request
<1>6. ServedInv'
  <2>1. req' = req /\ answer' = answer /\ srv' = srv /\ dir' = dir /\ backlog' = backlog
    BY DEF srvVars
  <2>2. Verdict(req)' = Verdict(req)
    BY <2>1 DEF Verdict, Listed
  <2>3. req.conn = "open" => Awaited(req)'
    BY <1>2, <2>1 DEF IndInv, ServedInv, Others, Awaited, Joins
  <2>4. req.conn = "open" /\ Done(req.from) => Done(req.from)'
    BY <1>2, <1>4, <2>1 DEF Done, Joins, Entered, Absent, Others
  <2>5. QED
    BY <2>1, <2>2, <2>3, <2>4 DEF IndInv, ServedInv
<1>7. \A q \in Programs : Quiet(q)' <=> Quiet(q)
  BY DEF Quiet, srvVars
<1>8. ToldInv'
  <2> SUFFICES ASSUME NEW q \in Programs
               PROVE  /\ reply'[q] = "ok" => Quiet(q) /\ Done(q)'
                      /\ told'[q] = "online" => Quiet(q) /\ Entered(q)'
                      /\ told'[q] = "offline" => Quiet(q) /\ Absent(q)'
    BY <1>7 DEF ToldInv
  <2>1. CASE q # p
    BY <2>1, <1>4 DEF Others, IndInv, ToldInv
  <2>2. CASE q = p
    <3>1. reply'[p] = "ok" => Quiet(p) /\ Done(p)'
      BY DEF IndInv, ToldInv, Done, Joins, Entered, Absent, Waits, srvVars
    <3>2. told'[p] = "online" => Quiet(p) /\ Entered(p)'
      BY DEF IndInv, ToldInv, Done, Entered, srvVars
    <3>3. told'[p] = "offline" => Quiet(p) /\ Absent(p)'
      BY DEF IndInv, ToldInv, Done, Absent, srvVars
    <3>4. QED
      BY <2>2, <3>1, <3>2, <3>3
  <2>3. QED
    BY <2>1, <2>2
<1>9. QED
  BY <1>5, <1>6, <1>8

\* A program without a request under way asks, and waits for the answer.
LEMMA Asks ==
  ASSUME IndInv, NEW p \in Programs, Answerless(p), Others(p), UNCHANGED srvVars,
         NEW type \in {"ONLINE", "OFFLINE"}, Ask(p, type, pass'[p]), pass'[p] \in Nat,
         gui'[p] \in Waits,
         type = IF Joins(p)' THEN "ONLINE" ELSE "OFFLINE"
  PROVE  QueueInv' /\ ServedInv' /\ ToldInv'
<1> DEFINE r == [from |-> p, type |-> type, pass |-> pass'[p], conn |-> "open"]
<1>0. /\ told'[p] = "nothing" /\ reply'[p] = "none"
      /\ \/ backlog' = backlog
         \/ /\ Len(backlog') = Len(backlog) + 1
            /\ \A i \in 1 .. Len(backlog) : backlog'[i] = backlog[i]
            /\ backlog'[Len(backlog) + 1] = r
  <2>1. told'[p] = "nothing" /\ reply'[p] = "none"
    BY DEF Ask, IndInv, TypeOK
  <2>2. QED
    BY <2>1, AskTypes DEF IndInv
<1>1. /\ Len(backlog) \in Nat
      /\ \A i \in 1 .. Len(backlog) : backlog[i] \in Request
  BY DEF IndInv, TypeOK
<1>2. req.conn = "open" => req.from \in Programs \ {p}
  BY DEF IndInv, TypeOK, Request, NoRequest, Answerless
<1>4. \A q \in Programs \ {p} : (Done(q) => Done(q)') /\ (Entered(q) => Entered(q)') /\ (Absent(q) => Absent(q)')
  BY DEF Others, Done, Joins, Entered, Absent, srvVars
<1>6. QueueInv'
  <2> SUFFICES ASSUME NEW i \in 1 .. Len(backlog'), backlog'[i].conn = "open"
               PROVE  /\ Awaited(backlog[i])'
                      /\ \A j \in 1 .. Len(backlog') : j > i => backlog'[j].from # backlog'[i].from
    BY DEF QueueInv
  <2>1. CASE i \in 1 .. Len(backlog)
    <3>1. backlog'[i] = backlog[i] /\ backlog[i].from # p /\ Awaited(backlog[i])
      BY <1>0, <2>1 DEF Answerless, IndInv, QueueInv
    <3>2. \A j \in 1 .. Len(backlog) : j > i => backlog'[j].from # backlog[i].from
      BY <1>0, <2>1, <3>1 DEF IndInv, QueueInv
    <3>3. Awaited(backlog[i])'
      BY <1>1, <2>1, <3>1 DEF Awaited, Joins, Others, Request
    <3>4. \A j \in 1 .. Len(backlog') : j \in 1 .. Len(backlog) \/ backlog'[j].from = p
      BY <1>0, <1>1
    <3>5. QED
      BY <3>1, <3>2, <3>3, <3>4
  <2>2. CASE i \notin 1 .. Len(backlog)
    <3>1. i = Len(backlog) + 1 /\ Len(backlog') = Len(backlog) + 1 /\ backlog'[i] = r
      BY <1>0, <1>1, <2>2
    <3>2. Awaited(backlog[i])'
      BY <1>0, <3>1 DEF Awaited
    <3>3. QED
      BY <1>1, <3>1, <3>2
  <2>3. QED
    BY <2>1, <2>2
<1>7. ServedInv'
  <2>1. \A q \in Programs \ {p} :
          (\A j \in 1 .. Len(backlog) : backlog[j].from # q)
            => (\A j \in 1 .. Len(backlog') : backlog'[j].from # q)
    BY <1>0, <1>1
  <2>2. req' = req /\ answer' = answer /\ srv' = srv /\ dir' = dir
    BY DEF srvVars
  <2>3. Verdict(req)' = Verdict(req)
    BY <2>2 DEF Verdict, Listed
  <2>4. req.conn = "open" => Awaited(req)'
    BY <1>2, <2>2 DEF IndInv, ServedInv, Others, Awaited, Joins
  <2>5. req.conn = "open" /\ Done(req.from) => Done(req.from)'
    BY <1>2, <2>2 DEF Done, Joins, Entered, Absent, Others
  <2>6. QED
    BY <1>2, <2>1, <2>2, <2>3, <2>4, <2>5 DEF IndInv, ServedInv
<1>8. ToldInv'
  <2>1. \A q \in Programs \ {p} : Quiet(q) => Quiet(q)'
    BY <1>0, <1>1 DEF Quiet, srvVars
  <2>2. QED
    BY <1>0, <1>4, <2>1 DEF IndInv, ToldInv, Others
<1>9. QED
  BY <1>6, <1>7, <1>8

\* A program hangs up, or fails, with what it has asked under way.
LEMMA HangsUp ==
  ASSUME IndInv, NEW p \in Programs, Others(p), HangUp(p), UNCHANGED <<srv, answer, dir>>,
         told'[p] = "nothing" \/ (told'[p] = told[p] /\ pass'[p] = pass[p]),
         reply'[p] = "none"
  PROVE  QueueInv' /\ ServedInv' /\ ToldInv'
<1>1. /\ Len(backlog) \in Nat
      /\ \A i \in 1 .. Len(backlog) : backlog[i] \in Request
  BY DEF IndInv, TypeOK
<1>2. /\ Len(backlog') = Len(backlog)
      /\ \A i \in 1 .. Len(backlog) : backlog'[i] = Orphan(backlog[i], p)
  BY HangUpTypes DEF IndInv
<1>3. \A i \in 1 .. Len(backlog) :
        /\ backlog'[i].from = backlog[i].from
        /\ backlog'[i].conn = "open" => backlog'[i] = backlog[i] /\ backlog[i].from # p
  <2> SUFFICES ASSUME NEW i \in 1 .. Len(backlog)
               PROVE  /\ backlog'[i].from = backlog[i].from
                      /\ backlog'[i].conn = "open" => backlog'[i] = backlog[i] /\ backlog[i].from # p
    OBVIOUS
  <2>1. backlog'[i] = Orphan(backlog[i], p)
    BY <1>2
  <2>2. CASE backlog[i].from = p
    BY <2>1, <2>2 DEF Orphan
  <2>3. CASE backlog[i].from # p
    BY <2>1, <2>3 DEF Orphan
  <2>4. QED
    BY <2>2, <2>3
<1>4. /\ req'.from = req.from /\ req'.type = req.type /\ req'.pass = req.pass
      /\ req'.conn = "open" => req' = req /\ req.from \in Programs \ {p}
      /\ req = NoRequest => req' = NoRequest
      /\ req \in Request => req' \in Request
  <2>1. CASE req = NoRequest
    BY <2>1, ProgramAssumption DEF HangUp, Orphan, NoRequest
  <2>2. CASE req \in Request
    <3>1. req' \in Request
      BY <2>2 DEF HangUp, Orphan, Request
    <3>2. req.from = p => req' = [from |-> p, type |-> req.type, pass |-> req.pass, conn |-> "closed"]
      BY DEF HangUp, Orphan
    <3>3. req.from # p => req' = req
      BY DEF HangUp, Orphan
    <3>4. req.from \in Programs /\ req # NoRequest
      BY <2>2, ProgramAssumption DEF Request, NoRequest
    <3>5. QED
      BY <2>2, <3>1, <3>2, <3>3, <3>4
  <2>3. QED
    BY <2>1, <2>2 DEF IndInv, TypeOK
<1>6. \A q \in Programs \ {p} : (Done(q) => Done(q)') /\ (Entered(q) => Entered(q)') /\ (Absent(q) => Absent(q)')
  BY DEF Others, Done, Joins, Entered, Absent
<1>7. QueueInv'
  <2> SUFFICES ASSUME NEW i \in 1 .. Len(backlog), backlog'[i].conn = "open"
               PROVE  /\ Awaited(backlog[i])'
                      /\ \A j \in 1 .. Len(backlog) : j > i => backlog'[j].from # backlog'[i].from
    BY <1>2 DEF QueueInv
  <2>1. backlog'[i] = backlog[i] /\ backlog[i].from \in Programs \ {p}
    BY <1>1, <1>3 DEF Request
  <2>2. Awaited(backlog[i])'
    BY <2>1 DEF IndInv, QueueInv, Awaited, Joins, Others
  <2>3. QED
    BY <1>3, <2>1, <2>2 DEF IndInv, QueueInv
<1>8. ServedInv'
  <2>1. Verdict(req)' = Verdict(req)
    BY <1>4 DEF Verdict, Listed
  <2>2. req'.conn = "open" => Awaited(req)'
    BY <1>4 DEF IndInv, ServedInv, Awaited, Joins, Others
  <2>3. req'.conn = "open" => \A j \in 1 .. Len(backlog') : backlog'[j].from # req'.from
    BY <1>1, <1>2, <1>3, <1>4 DEF IndInv, ServedInv
  <2>4. req'.conn = "open" /\ Done(req.from) => Done(req.from)'
    BY <1>4 DEF Done, Joins, Entered, Absent, Others
  <2>5. QED
    BY <1>4, <2>1, <2>2, <2>3, <2>4 DEF IndInv, ServedInv
<1>9. ToldInv'
  <2>1. \A q \in Programs : Quiet(q) => Quiet(q)'
    BY <1>1, <1>2, <1>3, <1>4 DEF Quiet
  <2>2. told'[p] = "online" => Entered(p)'
    BY DEF IndInv, ToldInv, Entered
  <2>3. told'[p] = "offline" => Absent(p)'
    BY DEF IndInv, ToldInv, Absent
  <2>4. QED
    BY <1>6, <2>1, <2>2, <2>3 DEF IndInv, ToldInv, Others
<1>10. QED
  BY <1>7, <1>8, <1>9

-----------------------------------------------------------------------------
(* The steps                                                                 *)

\* What a program that goes off leaves alone.
LEMMA ForgetsOthers ==
  ASSUME TypeOK, NEW p \in Programs, Forgets(p)
  PROVE  Others(p) /\ told'[p] = "nothing" /\ reply'[p] = "none"
  BY DEF TypeOK, Forgets, Others

LEMMA ProgramInv ==
  ASSUME IndInv, NEW p \in Programs, ProgramStep(p)
  PROVE  QueueInv' /\ ServedInv' /\ ToldInv'
<1>0. TypeOK /\ TypeOK'
  BY ProgramTypes DEF IndInv
<1>1. ASSUME AskOnline(p), gui' = [gui EXCEPT ![p] = "enter"] \/ gui' = [gui EXCEPT ![p] = "apply"],
             UNCHANGED srvVars, gui[p] \in {"off", "idle"}
      PROVE  QueueInv' /\ ServedInv' /\ ToldInv'
  <2>1. Answerless(p)
    BY <1>1, NotWaiting DEF Waits
  <2>2. Others(p) /\ pass'[p] = Password(p) /\ Joins(p)' /\ gui'[p] \in Waits
    BY <1>0, <1>1 DEF TypeOK, AskOnline, Ask, Others, Joins, Waits
  <2>3. Ask(p, "ONLINE", pass'[p]) /\ pass'[p] \in Nat
    BY <1>0, <1>1, <2>2 DEF AskOnline, TypeOK
  <2>4. QED
    BY <1>1, <2>1, <2>2, <2>3, Asks
<1>2. ASSUME NEW at \in {"leave", "unset", "quit", "applied"}, AskOffline(p, at),
             UNCHANGED <<pass, srvVars>>, gui[p] = "idle" \/ reply[p] # "none"
      PROVE  QueueInv' /\ ServedInv' /\ ToldInv'
  <2>1. Answerless(p)
    BY <1>2, NotWaiting DEF Waits
  <2>2. Others(p) /\ pass'[p] = pass[p] /\ ~Joins(p)' /\ gui'[p] \in Waits
    BY <1>0, <1>2 DEF TypeOK, AskOffline, Ask, Others, Joins, Waits
  <2>3. Ask(p, "OFFLINE", pass'[p]) /\ pass'[p] \in Nat
    BY <1>0, <1>2, <2>2 DEF AskOffline, TypeOK
  <2>4. QED
    BY <1>2, <2>1, <2>2, <2>3, Asks
<1>3. ASSUME Others(p), UNCHANGED <<backlog, srvVars>>, gui[p] \in {"off", "idle"},
             gui'[p] = "idle", pass'[p] = pass[p], told'[p] = told[p], reply'[p] = reply[p]
      PROVE  QueueInv' /\ ServedInv' /\ ToldInv'
  <2>1. Answerless(p)
    BY <1>3, NotWaiting DEF Waits
  <2>2. gui[p] \notin Waits /\ gui'[p] \notin Waits
    BY <1>3 DEF Waits
  <2>3. QED
    BY <1>3, <2>1, <2>2, Alone
<1>4. ASSUME Forgets(p), UNCHANGED <<backlog, srvVars>>, gui[p] = "idle" \/ reply[p] # "none"
      PROVE  QueueInv' /\ ServedInv' /\ ToldInv'
  <2>1. Answerless(p)
    BY <1>4, NotWaiting DEF Waits
  <2>2. QED
    BY <1>0, <1>4, <2>1, ForgetsOthers, Alone
<1>5. CASE StartUp(p)
  <2>1. CASE conf[p]
    BY <1>5, <2>1, <1>1 DEF StartUp
  <2>2. CASE ~conf[p]
    <3>1. /\ gui' = [gui EXCEPT ![p] = "idle"] /\ gui[p] = "off"
          /\ UNCHANGED <<pass, told, reply, backlog, srvVars>>
      BY <1>5, <2>2 DEF StartUp, netVars
    <3>2. Others(p) /\ gui'[p] = "idle"
      BY <1>0, <3>1 DEF Others, TypeOK
    <3>3. QED
      BY <1>3, <3>1, <3>2
  <2>3. QED
    BY <2>1, <2>2
<1>6. CASE ToolbarOnline(p) \/ Apply(p)
  BY <1>6, <1>1 DEF ToolbarOnline, Apply
<1>7. CASE ToolbarOffline(p)
  BY <1>7, <1>2 DEF ToolbarOffline
<1>8. CASE Unset(p)
  <2>1. CASE AskOffline(p, "unset")
    BY <1>8, <2>1, <1>2 DEF Unset
  <2>2. CASE UNCHANGED <<gui, netVars>>
    BY <1>8, <2>2, <1>3 DEF Unset, netVars, Others
  <2>3. QED
    BY <1>8, <2>1, <2>2 DEF Unset
<1>9. CASE Save(p)
  BY <1>9, <1>3 DEF Save, netVars, Others
<1>10. CASE Quit(p)
  BY <1>10, <1>2, <1>4 DEF Quit
<1>11. CASE Crash(p)
  BY <1>0, <1>11, ForgetsOthers, HangsUp DEF Crash
<1>12. ASSUME NEW ok \in BOOLEAN, Proceed(p, ok)
       PROVE  /\ gui'[p] = "idle" /\ pass' = pass
              /\ \A q \in Programs \ {p} : gui'[q] = gui[q]
  BY <1>0, <1>12 DEF Proceed, TypeOK
<1>13. CASE Answered(p)
  <2>1. CASE AskOffline(p, "applied") /\ UNCHANGED <<conf, pass, toolbar>>
    BY <1>13, <2>1, <1>2 DEF Answered
  <2>2. CASE Forgets(p) /\ UNCHANGED backlog
    BY <1>13, <2>2, <1>4 DEF Answered
  <2>3. CASE /\ Proceed(p, reply[p] = "ok") /\ UNCHANGED backlog
             /\ reply' = [reply EXCEPT ![p] = "none"]
             /\ told' = [told EXCEPT ![p] =
                  IF reply[p] # "ok" THEN "nothing"
                  ELSE IF gui[p] \in {"enter", "apply"} THEN "online" ELSE "offline"]
    <3>1. Answerless(p)
      BY <1>13, NotWaiting DEF Answered
    <3>2. Others(p) /\ reply'[p] = "none" /\ pass'[p] = pass[p]
      <4>1. /\ pass' = pass
            /\ \A q \in Programs \ {p} : gui'[q] = gui[q]
        BY <1>0, <2>3 DEF Proceed, TypeOK
      <4>2. QED
        BY <1>0, <2>3, <4>1 DEF Others, TypeOK
    <3>3. \/ told'[p] = "nothing"
          \/ reply[p] = "ok" /\ told'[p] = (IF Joins(p) THEN "online" ELSE "offline")
      BY <1>0, <2>3 DEF Joins, TypeOK
    <3>4. UNCHANGED <<backlog, srvVars>>
      BY <1>13, <2>3 DEF Answered
    <3>5. QED
      BY <3>1, <3>2, <3>3, <3>4, Alone
  <2>4. QED
    BY <1>13, <2>1, <2>2, <2>3 DEF Answered
<1>14. CASE GivesUp(p)
  <2>1. CASE Forgets(p)
    BY <1>0, <1>14, <2>1, ForgetsOthers, HangsUp DEF GivesUp
  <2>2. CASE Proceed(p, FALSE) /\ reply' = [reply EXCEPT ![p] = "none"] /\ UNCHANGED told
    <3>1. Others(p) /\ reply'[p] = "none" /\ pass'[p] = pass[p] /\ told'[p] = told[p]
      BY <1>0, <1>12, <2>2, ZenonT(30) DEF Others, TypeOK
    <3>2. QED
      BY <1>14, <3>1, HangsUp DEF GivesUp
  <2>3. QED
    BY <1>14, <2>1, <2>2 DEF GivesUp
<1>15. QED
  BY <1>5, <1>6, <1>7, <1>8, <1>9, <1>10, <1>11, <1>13, <1>14 DEF ProgramStep

\* The process of notifications takes the first request and decides.
LEMMA RequestInv == ASSUME IndInv, NotifyRequest PROVE QueueInv' /\ ServedInv' /\ ToldInv'
<1>1. /\ Len(backlog) \in Nat /\ Len(backlog) > 0
      /\ \A i \in 1 .. Len(backlog) : backlog[i] \in Request
  BY DEF IndInv, TypeOK, NotifyRequest
<1>2. /\ Len(backlog') = Len(backlog) - 1 /\ Head(backlog) = backlog[1]
      /\ \A i \in 1 .. Len(backlog') : backlog'[i] = backlog[i + 1]
  BY <1>1 DEF NotifyRequest, IndInv, TypeOK
<1>3. UNCHANGED <<gui, pass, told, reply, dir>>
  BY DEF NotifyRequest, guiVars
<1>4. \A q \in Programs : (Done(q) => Done(q)') /\ (Entered(q) => Entered(q)') /\ (Absent(q) => Absent(q)')
  BY <1>3 DEF Done, Joins, Entered, Absent
<1>5. QueueInv'
  <2> SUFFICES ASSUME NEW i \in 1 .. Len(backlog'), backlog'[i].conn = "open"
               PROVE  /\ Awaited(backlog[i])'
                      /\ \A j \in 1 .. Len(backlog') : j > i => backlog'[j].from # backlog'[i].from
    BY DEF QueueInv
  <2>1. backlog'[i] = backlog[i + 1] /\ i + 1 \in 1 .. Len(backlog)
    BY <1>1, <1>2
  <2>2. Awaited(backlog[i + 1])
    BY <2>1 DEF IndInv, QueueInv
  <2>3. Awaited(backlog[i])'
    BY <1>3, <2>1, <2>2 DEF Awaited, Joins
  <2>4. ASSUME NEW j \in 1 .. Len(backlog'), j > i PROVE backlog'[j].from # backlog'[i].from
    <3>1. backlog'[j] = backlog[j + 1] /\ j + 1 \in 1 .. Len(backlog) /\ j + 1 > i + 1
      BY <1>1, <1>2, <2>4
    <3>2. QED
      BY <2>1, <3>1 DEF IndInv, QueueInv
  <2>5. QED
    BY <2>3, <2>4
<1>6. srv' = "write" => answer' = "ok" /\ Verdict(req)' = "ok"
  <2>1. req' = Head(backlog) /\ answer' \in {Verdict(req'), "no"} /\ srv' = "write" => Verdict(req') = "ok"
    BY DEF NotifyRequest
  <2>2. \A r \in Request : Verdict(r)' = Verdict(r)
    BY <1>3 DEF Verdict, Listed
  <2>3. QED
    BY <1>1, <1>2, <1>3, <2>1, <2>2 DEF NotifyRequest, Verdict, Listed
<1>7. ServedInv'
  <2>1. CASE UNCHANGED <<srv, req, answer>>
    <3>1. srv = "accept" /\ req = NoRequest /\ req.conn # "open"
      BY DEF NotifyRequest, IndInv, ServedInv, NoRequest
    <3>2. QED
      BY <2>1, <3>1 DEF ServedInv
  <2>2. CASE req' = Head(backlog) /\ srv' = IF answer' = "ok" THEN "write" ELSE "reply"
    <3>1. req' = backlog[1] /\ req' \in Request /\ srv' # "accept"
      BY <1>1, <1>2, <2>2
    <3>2. req'.conn = "open" => Awaited(req)'
      BY <1>1, <1>3, <3>1 DEF IndInv, QueueInv, Awaited, Joins
    <3>3. req'.conn = "open" => \A j \in 1 .. Len(backlog') : backlog'[j].from # req'.from
      BY <1>1, <1>2, <3>1 DEF IndInv, QueueInv
    <3>4. ~(srv' = "reply" /\ answer' = "ok")
      BY <2>2
    <3>5. QED
      BY <1>6, <3>1, <3>2, <3>3, <3>4 DEF ServedInv
  <2>3. QED
    BY <2>1, <2>2 DEF NotifyRequest
<1>8. \A q \in Programs : Quiet(q) => Quiet(q)'
  BY <1>1, <1>2 DEF Quiet, NotifyRequest
<1>9. ToldInv'
  BY <1>3, <1>4, <1>8 DEF IndInv, ToldInv
<1>10. QED
  BY <1>5, <1>7, <1>9

\* It writes the file.
LEMMA WriteInv == ASSUME IndInv, NotifyWrite PROVE QueueInv' /\ ServedInv' /\ ToldInv'
<1>1. /\ req \in Request /\ req.from \in Programs /\ req' = req /\ srv = "write" /\ srv' = "reply"
      /\ answer = "ok" /\ Verdict(req) = "ok"
      /\ UNCHANGED <<gui, pass, told, reply, backlog>>
  BY DEF NotifyWrite, IndInv, ServedInv, Request, guiVars, netVars
<1> DEFINE e == IF req.type = "ONLINE" THEN [prog |-> req.from, pass |-> req.pass] ELSE None
<1>2. \/ dir' = [dir EXCEPT ![Of[req.from]] = e] /\ answer' = answer
      \/ dir' = dir /\ answer' = "no"
  BY DEF NotifyWrite
<1>3. /\ req.type = "ONLINE" => dir[Of[req.from]] = None
      /\ req.type = "OFFLINE" => dir[Of[req.from]].prog = req.from
      /\ req.type \in {"ONLINE", "OFFLINE"}
  BY <1>1 DEF Verdict, Listed, Request
<1>4. \A u \in Users : dir'[u] = IF u = Of[req.from] /\ answer' = "ok" THEN e ELSE dir[u]
  BY <1>1, <1>2 DEF IndInv, TypeOK
<1>5. QueueInv'
  BY <1>1 DEF IndInv, QueueInv, Awaited, Joins
<1>6. ServedInv'
  <2>1. req.conn = "open" => Awaited(req)'
    BY <1>1 DEF IndInv, ServedInv, Awaited, Joins
  <2>2. req.conn = "open" /\ answer' = "ok" => Done(req.from)'
    <3>1. SUFFICES ASSUME req.conn = "open", answer' = "ok" PROVE Done(req.from)'
      OBVIOUS
    <3>2. Of[req.from] \in Users /\ dir'[Of[req.from]] = e
      BY <1>1, <1>4, <3>1, ProgramAssumption
    <3>3. Awaited(req)
      BY <1>1, <3>1 DEF IndInv, ServedInv
    <3>4. CASE req.type = "ONLINE"
      BY <1>1, <3>2, <3>3, <3>4 DEF Done, Joins, Entered, Awaited
    <3>5. CASE req.type = "OFFLINE"
      BY <1>1, <3>2, <3>3, <3>5, ProgramAssumption DEF Done, Joins, Absent, Awaited, None
    <3>6. QED
      BY <1>3, <3>4, <3>5
  <2>3. QED
    BY <1>1, <2>1, <2>2 DEF IndInv, ServedInv
<1>7. ASSUME NEW q \in Programs, Quiet(q)
      PROVE  Quiet(q)' /\ (Done(q) => Done(q)') /\ (Entered(q) => Entered(q)') /\ (Absent(q) => Absent(q)')
  <2>1. q # req.from /\ Quiet(q)'
    BY <1>1, <1>7 DEF Quiet
  <2>2. Of[q] \in Users /\ q # Nobody
    BY ProgramAssumption
  <2>3. Entered(q) => Entered(q)'
    BY <1>1, <1>3, <1>4, <2>1, <2>2 DEF Entered, None
  <2>4. Absent(q) => Absent(q)'
    BY <1>1, <1>3, <1>4, <2>1, <2>2 DEF Absent, None
  <2>5. QED
    BY <1>1, <2>1, <2>3, <2>4 DEF Done, Joins
<1>8. ToldInv'
  BY <1>1, <1>7 DEF IndInv, ToldInv
<1>9. QED
  BY <1>5, <1>6, <1>8

\* It answers, if the program has not hung up.
LEMMA ReplyInv == ASSUME IndInv, NotifyReply PROVE QueueInv' /\ ServedInv' /\ ToldInv'
<1>1. /\ req \in Request /\ req.from \in Programs /\ srv = "reply" /\ srv' = "accept" /\ req' = NoRequest
      /\ UNCHANGED <<gui, pass, told, backlog, dir>>
  BY DEF NotifyReply, IndInv, ServedInv, Request, guiVars
<1>2. \A q \in Programs : reply'[q] = IF q = req.from /\ req.conn = "open" THEN answer ELSE reply[q]
  BY <1>1 DEF NotifyReply, IndInv, TypeOK
<1>3. req.conn = "open" => \A j \in 1 .. Len(backlog) : backlog[j].from # req.from
  BY DEF IndInv, ServedInv
<1>4. /\ Len(backlog) \in Nat
      /\ \A i \in 1 .. Len(backlog) : backlog[i].from \in Programs
  <2>1. Len(backlog) \in Nat /\ \A i \in 1 .. Len(backlog) : backlog[i] \in Request
    BY DEF IndInv, TypeOK
  <2>2. QED
    BY <2>1 DEF Request
<1>5. QueueInv'
  BY <1>1, <1>2, <1>3, <1>4 DEF IndInv, QueueInv, Awaited, Joins
<1>6. ServedInv'
  BY <1>1 DEF ServedInv, NoRequest
<1>7. \A q \in Programs : /\ Quiet(q) => Quiet(q)'
                          /\ Done(q) <=> Done(q)'
                          /\ Entered(q) <=> Entered(q)'
                          /\ Absent(q) <=> Absent(q)'
  BY <1>1 DEF Quiet, Done, Joins, Entered, Absent
<1>8. \A q \in Programs : q = req.from /\ req.conn = "open" /\ answer = "ok" => Quiet(q)' /\ Done(q)'
  BY <1>1, <1>3, <1>7 DEF Quiet, IndInv, ServedInv
<1>9. ToldInv'
  BY <1>1, <1>2, <1>7, <1>8 DEF IndInv, ToldInv
<1>10. QED
  BY <1>5, <1>6, <1>9

-----------------------------------------------------------------------------
(* The theorems                                                              *)

LEMMA InitInv == Init => IndInv
<1> SUFFICES ASSUME Init PROVE IndInv
  OBVIOUS
<1>1. backlog \in Seq(Request) /\ Len(backlog) = 0
  BY DEF Init
<1>2. None \in Entry
  BY DEF None, Entry
<1>3. saved \in [Programs -> [conf : BOOLEAN, pass : Nat]]
  <2>1. \A p \in Programs : conf[p] \in BOOLEAN
    BY DEF Init
  <2>2. \A p \in Programs : [conf |-> conf[p], pass |-> 0] \in [conf : BOOLEAN, pass : Nat]
    BY <2>1, ZenonT(30)
  <2>3. saved = [p \in Programs |-> [conf |-> conf[p], pass |-> 0]]
    BY DEF Init
  <2>4. QED
    BY <2>2, <2>3, ZenonT(30)
<1>4. TypeOK
  <2>1. conf \in [Programs -> BOOLEAN] /\ loop \in [Programs -> {"off", "runs", "failed"}]
    BY DEF Init
  <2>2. QED
    BY <1>1, <1>2, <1>3, <2>1 DEF Init, TypeOK
<1>5. QueueInv /\ ServedInv /\ ToldInv
  BY <1>1 DEF Init, QueueInv, ServedInv, ToldInv, NoRequest
<1>6. QED
  BY <1>4, <1>5 DEF IndInv

LEMMA NextInv == ASSUME IndInv, [Next]_vars PROVE IndInv'
<1>1. CASE \E p \in Programs : ProgramStep(p)
  BY <1>1, ProgramTypes, ProgramInv DEF IndInv
<1>2. CASE NotifyRequest \/ NotifyWrite \/ NotifyReply
  BY <1>2, NotifyTypes, RequestInv, WriteInv, ReplyInv DEF IndInv
<1>3. CASE UNCHANGED vars
  <2>1. /\ UNCHANGED <<gui, starts, conf, pass, saved, toolbar, loop>>
        /\ UNCHANGED <<told, reply, backlog, srv, req, answer, dir>>
    BY <1>3 DEF vars, guiVars, netVars, srvVars
  <2>2. TypeOK'
    BY <2>1 DEF IndInv, TypeOK
  <2>3. QueueInv'
    BY <2>1 DEF IndInv, QueueInv, Awaited, Joins
  <2>4. ServedInv'
    BY <2>1 DEF IndInv, ServedInv, Awaited, Joins, Done, Entered, Absent, Verdict, Listed
  <2>5. ToldInv'
    BY <2>1 DEF IndInv, ToldInv, Quiet, Done, Joins, Entered, Absent
  <2>6. QED
    BY <2>2, <2>3, <2>4, <2>5 DEF IndInv
<1>4. QED
  BY <1>1, <1>2, <1>3 DEF Next

\* The invariant of the requests (notify.c, ssip_proxy.c).
THEOREM Inductive == Spec => []IndInv
<1>1. QED
  BY InitInv, NextInv, PTL DEF Spec

\* A program that was told that its user is online is in the users' file, under
\* the password it has; one that was told offline is not.
THEOREM ProgramsKnow == Spec => []ToldIsTrue
<1>1. IndInv => ToldIsTrue
  BY DEF IndInv, ToldInv, ToldIsTrue, Entered, Absent
<1>2. QED
  BY <1>1, Inductive, PTL

\* What the directory sees of a step of a program: at most, what it is told.
LEMMA ProgramTells ==
  ASSUME IndInv, NEW p \in Programs, ProgramStep(p)
  PROVE  \/ \E what \in {"nothing", "online", "offline"} : Directory!Tell(p, what)
         \/ UNCHANGED Directory!directoryVars
<1>1. dir' = dir
  BY DEF ProgramStep, StartUp, ToolbarOnline, ToolbarOffline, Apply, Unset, Save, Quit, Crash,
         Answered, GivesUp, srvVars
<1>2. /\ \/ told' = told
         \/ told' = [told EXCEPT ![p] = "nothing"]
         \/ /\ reply[p] = "ok"
            /\ told' = [told EXCEPT ![p] = IF Joins(p) THEN "online" ELSE "offline"]
  <2>1. CASE StartUp(p) \/ ToolbarOnline(p) \/ ToolbarOffline(p)
    BY <2>1 DEF StartUp, ToolbarOnline, ToolbarOffline, AskOnline, AskOffline, Ask, netVars
  <2>2. CASE Apply(p) \/ Unset(p) \/ Save(p)
    BY <2>2 DEF Apply, Unset, Save, AskOnline, AskOffline, Ask, netVars
  <2>3. CASE Quit(p) \/ Crash(p) \/ GivesUp(p)
    BY <2>3 DEF Quit, Crash, GivesUp, AskOffline, Ask, Forgets
  <2>4. CASE Answered(p)
    BY <2>4 DEF Answered, AskOffline, Ask, Forgets, Joins
  <2>5. QED
    BY <2>1, <2>2, <2>3, <2>4 DEF ProgramStep
<1>3. Of[p] \in Users
  BY ProgramAssumption
<1>4. CASE told' = told
  BY <1>1, <1>4 DEF Directory!directoryVars
<1>5. CASE told' = [told EXCEPT ![p] = "nothing"]
  BY <1>1, <1>5 DEF Directory!Tell
<1>6. CASE /\ reply[p] = "ok"
           /\ told' = [told EXCEPT ![p] = IF Joins(p) THEN "online" ELSE "offline"]
  <2>1. Done(p)
    BY <1>6 DEF IndInv, ToldInv
  <2>2. CASE Joins(p)
    BY <1>1, <1>3, <1>6, <2>1, <2>2 DEF Done, Entered, Directory!Tell
  <2>3. CASE ~Joins(p)
    BY <1>1, <1>3, <1>6, <2>1, <2>3 DEF Done, Absent, Directory!Tell
  <2>4. QED
    BY <2>2, <2>3
<1>7. QED
  BY <1>2, <1>4, <1>5, <1>6

\* What it sees of the process of notifications: a program enters or leaves.
LEMMA WriteChanges ==
  ASSUME IndInv, NotifyWrite
  PROVE  \/ \E p \in Programs : Directory!Enter(p) \/ Directory!Leave(p)
         \/ UNCHANGED Directory!directoryVars
<1>1. /\ req \in Request /\ req.from \in Programs /\ Verdict(req) = "ok" /\ told' = told
  BY DEF NotifyWrite, IndInv, ServedInv, Request, netVars
<1>2. PICK p \in Programs : p = req.from
  BY <1>1
<1>3. Of[p] \in Users
  BY ProgramAssumption
<1>4. CASE dir' = dir
  BY <1>1, <1>4 DEF Directory!directoryVars
<1>5. CASE /\ dir' = [dir EXCEPT ![Of[req.from]] = [prog |-> req.from, pass |-> req.pass]]
           /\ req.type = "ONLINE"
  <2>1. dir[Of[p]] = None
    BY <1>1, <1>2, <1>5 DEF Verdict, Listed
  <2>2. [u \in Users |-> dir'[u].prog] =
          [[u \in Users |-> dir[u].prog] EXCEPT ![Of[p]] = p]
    BY <1>2, <1>3, <1>5 DEF IndInv, TypeOK
  <2>3. Directory!Enter(p)
    BY <1>1, <1>2, <1>3, <2>1, <2>2 DEF Directory!Enter, None
  <2>4. QED
    BY <1>1, <2>3
<1>6. CASE /\ dir' = [dir EXCEPT ![Of[req.from]] = None]
           /\ req.type = "OFFLINE"
  <2>1. dir[Of[p]].prog = p
    BY <1>1, <1>2, <1>6 DEF Verdict, Listed
  <2>2. [u \in Users |-> dir'[u].prog] =
          [[u \in Users |-> dir[u].prog] EXCEPT ![Of[p]] = Nobody]
    BY <1>2, <1>3, <1>6 DEF IndInv, TypeOK, None
  <2>3. Directory!Leave(p)
    BY <1>1, <1>2, <1>3, <2>1, <2>2 DEF Directory!Leave
  <2>4. QED
    BY <1>1, <2>3
<1>7. QED
  BY <1>1, <1>4, <1>5, <1>6 DEF NotifyWrite, Request

\* The programs, the queue and the file do what UserDirectory promises.
THEOREM Refinement == Spec => DirectorySpec
<1>1. Init => Directory!DirectoryInit
  BY DEF Init, None, Directory!DirectoryInit
<1>2. IndInv /\ [Next]_vars => [Directory!DirectoryNext]_Directory!directoryVars
  <2> SUFFICES ASSUME IndInv, [Next]_vars
               PROVE  Directory!DirectoryNext \/ UNCHANGED Directory!directoryVars
    OBVIOUS
  <2>1. CASE \E p \in Programs : ProgramStep(p)
    BY <2>1, ProgramTells DEF Directory!DirectoryNext
  <2>2. CASE NotifyWrite
    BY <2>2, WriteChanges DEF Directory!DirectoryNext
  <2>3. CASE NotifyRequest \/ NotifyReply
    BY <2>3 DEF NotifyRequest, NotifyReply, Directory!directoryVars
  <2>4. CASE UNCHANGED vars
    BY <2>4 DEF vars, netVars, srvVars, Directory!directoryVars
  <2>5. QED
    BY <2>1, <2>2, <2>3, <2>4 DEF Next
<1>3. QED
  BY <1>1, <1>2, Inductive, PTL DEF Spec, DirectorySpec, Directory!DirectorySpec

-----------------------------------------------------------------------------
(* Programs whose loop is off                                                *)

\* A program that may come back to its user with its loop off has a proxy: the
\* others whose loop is off have asked to leave, and start it before.
OffInv ==
  \A p \in Programs : gui[p] \in {"idle", "apply", "enter", "leave"} /\ loop[p] = "off" => conf[p]

\* A step of a program keeps that, for the program itself.
LEMMA OffStep ==
  ASSUME TypeOK, OffInv, NEW p \in Programs, ProgramStep(p)
  PROVE  gui'[p] \in {"idle", "apply", "enter", "leave"} /\ loop'[p] = "off" => conf'[p]
<1>1. CASE StartUp(p) \/ ToolbarOnline(p) \/ Apply(p) \/ Save(p)
  BY <1>1, LoopStarts DEF StartUp, ToolbarOnline, Apply, Save, TypeOK, OffInv
<1>2. CASE ToolbarOffline(p) \/ Unset(p)
  BY <1>2, LoopStarts DEF ToolbarOffline, Unset, AskOffline, TypeOK, OffInv
<1>3. CASE Quit(p) \/ Crash(p)
  BY <1>3 DEF Quit, Crash, Forgets, AskOffline, TypeOK
<1>4. ASSUME NEW ok \in BOOLEAN, Proceed(p, ok)
      PROVE  gui'[p] \in {"idle", "apply", "enter", "leave"} /\ loop'[p] = "off" => conf'[p]
  BY <1>4, LoopStarts DEF Proceed, TypeOK, OffInv
<1>5. ASSUME Forgets(p) PROVE gui'[p] = "off"
  BY <1>5 DEF Forgets, TypeOK
<1>6. CASE Answered(p)
  BY <1>4, <1>5, <1>6 DEF Answered, AskOffline, TypeOK
<1>7. CASE GivesUp(p)
  BY <1>4, <1>5, <1>7 DEF GivesUp
<1>8. QED
  BY <1>1, <1>2, <1>3, <1>6, <1>7 DEF ProgramStep

\* It leaves the others alone.
LEMMA OffOthers ==
  ASSUME TypeOK, NEW p \in Programs, ProgramStep(p), NEW q \in Programs, q # p
  PROVE  gui'[q] = gui[q] /\ loop'[q] = loop[q] /\ conf'[q] = conf[q]
<1>1. CASE StartUp(p) \/ ToolbarOnline(p) \/ Apply(p) \/ Save(p)
  BY <1>1, LoopStarts DEF StartUp, ToolbarOnline, Apply, Save, TypeOK
<1>2. CASE ToolbarOffline(p) \/ Unset(p)
  BY <1>2, LoopStarts DEF ToolbarOffline, Unset, AskOffline, TypeOK
<1>3. CASE Quit(p) \/ Crash(p)
  BY <1>3 DEF Quit, Crash, Forgets, AskOffline, TypeOK
<1>4. ASSUME NEW ok \in BOOLEAN, Proceed(p, ok)
      PROVE  gui'[q] = gui[q] /\ loop'[q] = loop[q] /\ conf'[q] = conf[q]
  BY <1>4, LoopStarts DEF Proceed, TypeOK
<1>5. CASE Answered(p)
  BY <1>4, <1>5 DEF Answered, AskOffline, Forgets, TypeOK
<1>6. CASE GivesUp(p)
  <2>1. CASE Forgets(p)
    BY <2>1 DEF Forgets, TypeOK
  <2>2. CASE Proceed(p, FALSE)
    BY <1>4, <2>2
  <2>3. QED
    BY <1>6, <2>1, <2>2 DEF GivesUp
<1>7. QED
  BY <1>1, <1>2, <1>3, <1>5, <1>6 DEF ProgramStep

\* A program that waits for its user without a proxy has started its loop.
THEOREM OffHaveProxy == Spec => []NotLeftOff
<1>1. Init => OffInv
  BY DEF Init, OffInv
<1>2. TypeOK /\ OffInv /\ [Next]_vars => OffInv'
  <2> SUFFICES ASSUME TypeOK, OffInv, [Next]_vars PROVE OffInv'
    OBVIOUS
  <2>1. CASE \E p \in Programs : ProgramStep(p)
    BY <2>1, OffStep, OffOthers DEF OffInv
  <2>2. CASE NotifyRequest \/ NotifyWrite \/ NotifyReply \/ UNCHANGED vars
    BY <2>2 DEF OffInv, NotifyRequest, NotifyWrite, NotifyReply, vars, guiVars
  <2>3. QED
    BY <2>1, <2>2 DEF Next
<1>3. OffInv => NotLeftOff
  BY DEF OffInv, NotLeftOff
<1>4. IndInv => TypeOK
  BY DEF IndInv
<1>5. QED
  BY <1>1, <1>2, <1>3, <1>4, Inductive, PTL DEF Spec
=============================================================================
