--------------------------- MODULE ProxyDirectory ---------------------------
(***************************************************************************)
(* The process of notifications of the SSIP proxy (ssip_proxy.c), and the  *)
(* programs that tell it that their users are online or offline (notify.c, *)
(* gui_ssip_neg.c, gui_main.c, gui_configuration.c).                       *)
(*                                                                         *)
(* The process serves one request at a time: it reads the users' file,     *)
(* decides, and writes the file (ProxyManager has the lock that keeps its  *)
(* readers out).  A program waits for its answer with its interface        *)
(* stopped, for five seconds; a request it has given up stays in the queue *)
(* of connections of the server, and is served in its turn.                *)
(***************************************************************************)
EXTENDS Integers, Sequences, FiniteSets

CONSTANTS
  Users, Programs, Of, Nobody,    \* as in UserDirectory
  MaxBacklog,     \* PROGRAM_NUM_LISTEN
  MaxStarts,      \* bound: how often each program is started
  MayFail         \* bound: the programs whose ssip_process_loop may fail to start

ASSUME ProgramAssumption == Of \in [Programs -> Users] /\ Nobody \notin Programs
ASSUME LimitAssumption == MaxBacklog \in Nat /\ MaxStarts \in [Programs -> Nat]

VARIABLES
  gui,            \* what a program is doing, or waiting for an answer to
  starts,         \* how often it has been started
  conf,           \* its configuration says that it uses the proxy
  pass,           \* the password in its configuration, 0 for none
  saved,          \* what its configuration file holds
  toolbar,        \* last_action of its toolbar: 1 online, 2 offline
  loop,           \* its ssip_process_loop: off, runs, or failed when it was last started
  told,           \* what it has been told since it last asked
  reply,          \* the answer under way to it
  backlog,        \* the requests the process of notifications has not taken
  srv,            \* where that process is
  req,            \* the request it serves
  answer,         \* and the answer it will give
  dir             \* the users' file: the entry of each user

guiVars == <<gui, starts, conf, pass, saved, toolbar, loop>>
netVars == <<told, reply, backlog>>
srvVars == <<srv, req, answer, dir>>
vars == <<guiVars, netVars, srvVars>>

Waits == {"enter", "apply", "applied", "leave", "unset", "quit"}
None == [prog |-> Nobody, pass |-> 0]
Entry == [prog : Programs \cup {Nobody}, pass : Nat]
NoRequest == [from |-> Nobody, type |-> "ONLINE", pass |-> 0, conn |-> "closed"]
Request == [from : Programs, type : {"ONLINE", "OFFLINE"}, pass : Nat,
            conn : {"open", "closed"}]

TypeOK ==
  /\ gui \in [Programs -> {"off", "idle"} \cup Waits]
  /\ starts \in [Programs -> Nat]
  /\ conf \in [Programs -> BOOLEAN]
  /\ pass \in [Programs -> Nat]
  /\ saved \in [Programs -> [conf : BOOLEAN, pass : Nat]]
  /\ toolbar \in [Programs -> {1, 2}]
  /\ loop \in [Programs -> {"off", "runs", "failed"}]
  /\ told \in [Programs -> {"nothing", "online", "offline"}]
  /\ reply \in [Programs -> {"none", "ok", "no"}]
  /\ backlog \in Seq(Request)
  /\ srv \in {"accept", "write", "reply"}
  /\ req \in Request \cup {NoRequest}
  /\ answer \in {"ok", "no"}
  /\ dir \in [Users -> Entry]

Init ==
  /\ gui = [p \in Programs |-> "off"]
  /\ starts = [p \in Programs |-> 0]
  /\ conf \in [Programs -> BOOLEAN]
  /\ pass = [p \in Programs |-> 0]
  /\ saved = [p \in Programs |-> [conf |-> conf[p], pass |-> 0]]
  /\ toolbar = [p \in Programs |-> 1]
  /\ loop = [p \in Programs |-> "off"]
  /\ told = [p \in Programs |-> "nothing"]
  /\ reply = [p \in Programs |-> "none"]
  /\ backlog = <<>>
  /\ srv = "accept"
  /\ req = NoRequest
  /\ answer = "no"
  /\ dir = [u \in Users |-> None]

-----------------------------------------------------------------------------
(* The programs                                                              *)

\* notify_online_to and notify_offline_to, up to the wait for the answer: the
\* request is queued at the server, or the connection or the send fails, and the
\* wait will only be given up.
Ask(p, type, pw) ==
  /\ told' = [told EXCEPT ![p] = "nothing"]
  /\ reply' = [reply EXCEPT ![p] = "none"]
  /\ \/ UNCHANGED backlog
     \/ /\ Len(backlog) < MaxBacklog
        /\ backlog' = Append(backlog, [from |-> p, type |-> type, pass |-> pw, conn |-> "open"])

\* init_ssip_proxy_params: a password is made up when there is none.
Password(p) == IF pass[p] = 0 THEN starts'[p] ELSE pass[p]
AskOnline(p) ==
  /\ pass' = [pass EXCEPT ![p] = Password(p)]
  /\ Ask(p, "ONLINE", Password(p))

\* exit_ssip, when the configuration has a proxy: it stops answering calls, and
\* asks to leave (a program with a proxy has a password by then).
AskOffline(p, at) ==
  /\ loop' = [loop EXCEPT ![p] = "off"]
  /\ gui' = [gui EXCEPT ![p] = at]
  /\ Ask(p, "OFFLINE", pass[p])

\* The program ends: nothing of it is left but its configuration file, and what
\* it has sent.
Forgets(p) ==
  /\ gui' = [gui EXCEPT ![p] = "off"]
  /\ conf' = [conf EXCEPT ![p] = saved[p].conf]
  /\ pass' = [pass EXCEPT ![p] = saved[p].pass]
  /\ toolbar' = [toolbar EXCEPT ![p] = 1]
  /\ loop' = [loop EXCEPT ![p] = "off"]
  /\ told' = [told EXCEPT ![p] = "nothing"]
  /\ reply' = [reply EXCEPT ![p] = "none"]

\* A request whose program has closed the connection is served all the same.
Orphan(r, p) ==
  IF r.from = p THEN [from |-> p, type |-> r.type, pass |-> r.pass, conn |-> "closed"] ELSE r

\* Mutant of HangUp: the answer to the request being served reaches the next wait
\* of the program.
HangUpQueued(p) ==
  /\ backlog' = [i \in DOMAIN backlog |-> Orphan(backlog[i], p)]
  /\ UNCHANGED req

HangUp(p) ==
  /\ backlog' = [i \in DOMAIN backlog |-> Orphan(backlog[i], p)]
  /\ req' = Orphan(req, p)

\* ssip_process_loop_create, and what its thread does first: it does not start
\* when an address or a port is missing or the thread cannot be created, and the
\* thread ends when it cannot bind or listen.  No caller looks at the result.
StartLoop(p) ==
  \E l \in {"runs"} \cup (IF p \in MayFail THEN {"failed"} ELSE {}) :
    loop' = [loop EXCEPT ![p] = l]

\* init_ssip.  With a proxy it announces the user and does not start the loop
\* that answers calls.
StartUp(p) ==
  /\ gui[p] = "off" /\ starts[p] < MaxStarts[p]
  /\ starts' = [starts EXCEPT ![p] = @ + 1]
  /\ IF conf[p]
     THEN gui' = [gui EXCEPT ![p] = "enter"] /\ AskOnline(p) /\ UNCHANGED loop
     ELSE /\ gui' = [gui EXCEPT ![p] = "idle"]
          /\ StartLoop(p)
          /\ UNCHANGED <<pass, netVars>>
  /\ UNCHANGED <<conf, saved, toolbar, srvVars>>

\* ssip_proxy_toolbar: online.
ToolbarOnline(p) ==
  /\ gui[p] = "idle" /\ conf[p] /\ toolbar[p] = 2
  /\ toolbar' = [toolbar EXCEPT ![p] = 1]
  /\ gui' = [gui EXCEPT ![p] = "enter"]
  /\ UNCHANGED starts
  /\ AskOnline(p)
  /\ UNCHANGED <<conf, saved, loop, srvVars>>

\* ssip_proxy_toolbar: offline.
ToolbarOffline(p) ==
  /\ gui[p] = "idle" /\ conf[p] /\ toolbar[p] = 1
  /\ toolbar' = [toolbar EXCEPT ![p] = 2]
  /\ AskOffline(p, "leave")
  /\ UNCHANGED <<starts, conf, pass, saved, srvVars>>

\* set_ssip_options, with the box for the proxy checked.
Apply(p) ==
  /\ gui[p] = "idle"
  /\ gui' = [gui EXCEPT ![p] = "apply"]
  /\ UNCHANGED starts
  /\ AskOnline(p)
  /\ UNCHANGED <<conf, saved, toolbar, loop, srvVars>>

\* set_ssip_options, with the box not checked.
Unset(p) ==
  /\ gui[p] = "idle"
  /\ \/ conf[p] /\ AskOffline(p, "unset")
     \/ ~conf[p] /\ StartLoop(p) /\ UNCHANGED <<gui, netVars>>
  /\ UNCHANGED <<starts, conf, pass, saved, toolbar, srvVars>>

\* save_preferences, or the button of the configuration dialog (left out when
\* the program is not started again).
Save(p) ==
  /\ gui[p] = "idle" /\ starts[p] < MaxStarts[p]
  /\ saved' = [saved EXCEPT ![p] = [conf |-> conf[p], pass |-> pass[p]]]
  /\ UNCHANGED <<gui, starts, conf, pass, toolbar, loop, netVars, srvVars>>

\* exit_program.
Quit(p) ==
  /\ gui[p] = "idle"
  /\ \/ conf[p] /\ AskOffline(p, "quit") /\ UNCHANGED <<conf, pass, toolbar>>
     \/ ~conf[p] /\ Forgets(p) /\ UNCHANGED backlog
  /\ UNCHANGED <<starts, saved, srvVars>>

\* The program or its machine fails.
Crash(p) ==
  /\ gui[p] # "off"
  /\ Forgets(p) /\ HangUp(p)
  /\ UNCHANGED <<starts, saved, srv, answer, dir>>

\* Mutant of Proceed: the loop that answers calls is started by init_ssip alone.
ProceedDeaf(p, ok) ==
  /\ gui' = [gui EXCEPT ![p] = "idle"]
  /\ conf' = [conf EXCEPT ![p] =
       (@ \/ gui[p] = "applied" \/ (gui[p] = "apply" /\ ok)) /\ gui[p] # "unset"]
  /\ UNCHANGED <<pass, toolbar, loop>>

\* What the caller of notify_*_to goes on to do, once it has returned: r tells
\* that it returned 1.  After Apply the place taken is left at once when the
\* configuration had a proxy already: exit_ssip runs with the old one.
Proceed(p, ok) ==
  \/ /\ gui[p] \in {"enter", "leave"} \/ (gui[p] = "apply" /\ ~ok)
     /\ gui' = [gui EXCEPT ![p] = "idle"]
     /\ UNCHANGED <<conf, pass, toolbar, loop>>
  \/ /\ gui[p] \in {"applied", "unset"} \/ (gui[p] = "apply" /\ ok /\ ~conf[p])
     /\ conf' = [conf EXCEPT ![p] = gui[p] # "unset"]
     /\ StartLoop(p)
     /\ gui' = [gui EXCEPT ![p] = "idle"]
     /\ UNCHANGED <<pass, toolbar>>

\* The server's answer arrives in time.
Answered(p) ==
  /\ gui[p] \in Waits /\ reply[p] # "none"
  /\ \/ /\ gui[p] = "apply" /\ reply[p] = "ok" /\ conf[p]
        /\ AskOffline(p, "applied")
        /\ UNCHANGED <<conf, pass, toolbar>>
     \/ gui[p] = "quit" /\ Forgets(p) /\ UNCHANGED backlog
     \/ /\ ~(gui[p] = "apply" /\ reply[p] = "ok" /\ conf[p]) /\ gui[p] # "quit"
        /\ Proceed(p, reply[p] = "ok")
        /\ told' = [told EXCEPT ![p] =
             IF reply[p] # "ok" THEN "nothing"
             ELSE IF gui[p] \in {"enter", "apply"} THEN "online" ELSE "offline"]
        /\ reply' = [reply EXCEPT ![p] = "none"]
        /\ UNCHANGED backlog
  /\ UNCHANGED <<starts, saved, srvVars>>

\* Five seconds pass, or the connection fails.
GivesUp(p) ==
  /\ gui[p] \in Waits
  /\ HangUp(p)
  /\ IF gui[p] = "quit" THEN Forgets(p)
     ELSE /\ Proceed(p, FALSE)
          /\ reply' = [reply EXCEPT ![p] = "none"]
          /\ UNCHANGED told
  /\ UNCHANGED <<starts, saved, srv, answer, dir>>

ProgramStep(p) ==
  \/ StartUp(p) \/ ToolbarOnline(p) \/ ToolbarOffline(p) \/ Apply(p) \/ Unset(p) \/ Save(p)
  \/ Quit(p) \/ Crash(p) \/ Answered(p) \/ GivesUp(p)

-----------------------------------------------------------------------------
(* The process of notifications                                              *)

Listed(r) == dir[Of[r.from]]

\* Mutant of Verdict: add_user does not look for the user.
VerdictAdds(r) ==
  IF r.type = "OFFLINE" /\ Listed(r) # [prog |-> r.from, pass |-> r.pass] THEN "no" ELSE "ok"

\* What add_user and del_user decide (the programs do with USER_INCORRECT what
\* they do with ERROR_PKT) from the file, which they read before they
\* lock it.
Verdict(r) ==
  CASE r.type = "ONLINE"  -> IF Listed(r) = None THEN "ok" ELSE "no"
    [] r.type = "OFFLINE" -> IF Listed(r) = [prog |-> r.from, pass |-> r.pass] THEN "ok"
                             ELSE "no"

\* notify_process accepts a connection, receives its request and decides.  The
\* file may not open; the request of a program that is gone may not arrive.
NotifyRequest ==
  /\ srv = "accept" /\ backlog # <<>>
  /\ backlog' = Tail(backlog)
  /\ \/ Head(backlog).conn = "closed" /\ UNCHANGED <<srv, req, answer>>
     \/ /\ req' = Head(backlog)
        /\ answer' \in {Verdict(req'), "no"}
        /\ srv' = IF answer' = "ok" THEN "write" ELSE "reply"
  /\ UNCHANGED <<guiVars, told, reply, dir>>

\* It writes the users it has read, with the change; or it cannot open the file.
NotifyWrite ==
  /\ srv = "write"
  /\ \/ /\ dir' = [dir EXCEPT ![Of[req.from]] =
             IF req.type = "ONLINE" THEN [prog |-> req.from, pass |-> req.pass] ELSE None]
        /\ UNCHANGED answer
     \/ answer' = "no" /\ UNCHANGED dir
  /\ srv' = "reply"
  /\ UNCHANGED <<guiVars, netVars, req>>

\* The answer, to a program that may have hung up.
NotifyReply ==
  /\ srv = "reply"
  /\ reply' = IF req.conn = "open" THEN [reply EXCEPT ![req.from] = answer] ELSE reply
  /\ srv' = "accept" /\ req' = NoRequest /\ answer' = "no"
  /\ UNCHANGED <<guiVars, told, backlog, dir>>

-----------------------------------------------------------------------------
Next ==
  \/ \E p \in Programs : ProgramStep(p)
  \/ NotifyRequest \/ NotifyWrite \/ NotifyReply

Spec == Init /\ [][Next]_vars

-----------------------------------------------------------------------------
(* Properties                                                                *)

\* A program that was told that its user is online at it is the one in the
\* users' file, under the password it still has, so that it can leave; one that
\* was told offline is not in the file (USER_OK_ONLINE and USER_OK_OFFLINE,
\* ssip_proxy.c add_user and del_user), whatever requests it gave up before.
ToldIsTrue ==
  /\ TypeOK
  /\ \A p \in Programs :
       /\ told[p] = "online" => dir[Of[p]] = [prog |-> p, pass |-> pass[p]]
       /\ told[p] = "offline" => dir[Of[p]].prog # p

\* The directory of users does what UserDirectory promises: one program for each
\* user, and only that program leaves the place it has taken.
Directory == INSTANCE UserDirectory WITH listed <- [u \in Users |-> dir[u].prog]
DirectorySpec == Directory!DirectorySpec

\* A program that waits for its user without a proxy has started the loop that
\* answers calls since it last stopped it, whatever the proxy answered, late or
\* never, while it had one: it is deaf only because the loop failed (init_ssip and
\* ssip_proxy_toolbar leave the loop off with a proxy; exit_ssip stops it in
\* set_ssip_options, which starts it again after its answers).
NotLeftOff == \A p \in Programs : gui[p] = "idle" /\ loop[p] = "off" => conf[p]
=============================================================================
