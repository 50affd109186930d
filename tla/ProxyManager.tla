---------------------------- MODULE ProxyManager ----------------------------
(***************************************************************************)
(* The processes of the SSIP proxy (ssip_proxy.c): the manager, which      *)
(* forks a child for each call, the children, which look the called user   *)
(* up in the users' file and relay the call (SsipProxy), and the process   *)
(* of notifications, which rewrites the file (ProxyDirectory says with     *)
(* what).  The readers and the writer of the file exclude each other with  *)
(* a lock on a second file, and the administrator stops the manager or the *)
(* process of notifications with a signal.                                 *)
(***************************************************************************)
EXTENDS Integers, Sequences, FiniteSets

CONSTANTS
  Calls,          \* the calls made through the proxy
  MaxForks,       \* num_forks_manager
  MaxBacklog      \* PROGRAM_NUM_LISTEN

ASSUME CallAssumption == IsFiniteSet(Calls)
ASSUME LimitAssumption == MaxForks \in Nat /\ MaxBacklog \in Nat

VARIABLES
  notifier,       \* where the process of notifications is
  writer,         \* it has the lock for writing
  cut,            \* the file has been emptied, and not written yet
  goNotify,       \* go_notify_process
  mgr,            \* where the manager is
  goManage,       \* go_manage_process
  childcount,     \* childcount of the manager
  pending,        \* the calls the manager has not accepted
  child           \* where the child of each call is

notifyVars == <<notifier, writer, cut, goNotify>>
mgrVars == <<mgr, goManage, childcount, pending>>
processVars == <<notifyVars, mgrVars, child>>

ManagerTypeOK ==
  /\ notifier \in {"accept", "lock", "open", "write", "over"}
  /\ writer \in BOOLEAN /\ cut \in BOOLEAN /\ goNotify \in BOOLEAN
  /\ mgr \in {"room", "accept", "spin", "ending", "over"}
  /\ goManage \in BOOLEAN
  /\ childcount \in Nat
  /\ pending \in Seq(Calls)
  /\ child \in [Calls -> {"none", "queued", "lock", "read", "relay", "gone"}]

ManagerInit ==
  /\ notifier = "accept" /\ writer = FALSE /\ cut = FALSE /\ goNotify = TRUE
  /\ mgr = "room" /\ goManage = TRUE /\ childcount = 0 /\ pending = <<>>
  /\ child = [c \in Calls |-> "none"]

-----------------------------------------------------------------------------
(* The process of notifications                                              *)

Loop == IF goNotify THEN "accept" ELSE "over"

\* notify_process has received a request that changes the file.
NotifyRequest ==
  /\ notifier = "accept" /\ notifier' = "lock"
  /\ UNCHANGED <<writer, cut, goNotify, mgrVars, child>>

\* Mutant of NotifyLock: the lock is not asked for.
NotifyNoLock ==
  /\ notifier = "lock" /\ notifier' = "open"
  /\ UNCHANGED <<writer, cut, goNotify, mgrVars, child>>

\* file_block(F_WRLCK): no child is reading.
NotifyLock ==
  /\ notifier = "lock" /\ \A c \in Calls : child[c] # "read"
  /\ writer' = TRUE
  /\ notifier' = "open"
  /\ UNCHANGED <<cut, goNotify, mgrVars, child>>

\* cfgf_write_file opens the file, which empties it; or it cannot, and the
\* process unlocks.
NotifyTruncate ==
  /\ notifier = "open"
  /\ \/ cut' = TRUE /\ notifier' = "write" /\ UNCHANGED writer
     \/ writer' = FALSE /\ notifier' = Loop /\ UNCHANGED cut
  /\ UNCHANGED <<goNotify, mgrVars, child>>

\* It writes the users, closes the file and unlocks.
NotifyWrite ==
  /\ notifier = "write"
  /\ cut' = FALSE /\ writer' = FALSE
  /\ notifier' = Loop
  /\ UNCHANGED <<goNotify, mgrVars, child>>

\* SIGUSR1 reaches the process, from the administrator or from the manager.  It
\* interrupts accept, unless it comes just before; and the wait for the lock, and
\* the process goes on without it (file_block logs the error and returns).
StopNotify ==
  /\ goNotify' = FALSE
  /\ \/ notifier' = notifier
     \/ notifier = "accept" /\ notifier' = "over"
     \/ notifier = "lock" /\ notifier' = "open"
  /\ UNCHANGED <<writer, cut, child>>

AdministratorStopsNotify ==
  /\ goNotify /\ StopNotify
  /\ UNCHANGED mgrVars

-----------------------------------------------------------------------------
(* The manager                                                               *)

\* A caller connects.
CallArrives(c) ==
  /\ child[c] = "none" /\ mgr # "over" /\ Len(pending) < MaxBacklog
  /\ pending' = Append(pending, c)
  /\ child' = [child EXCEPT ![c] = "queued"]
  /\ UNCHANGED <<notifyVars, mgr, goManage, childcount>>

\* Mutant of ManagerRoom: the limit is tested after it is passed.
ManagerRoomLate ==
  /\ mgr = "room" /\ childcount <= MaxForks
  /\ mgr' = "accept"
  /\ UNCHANGED <<notifyVars, goManage, childcount, pending, child>>

\* manage_user_process waits until it has less than num_forks_manager children.
ManagerRoom ==
  /\ mgr = "room" /\ childcount < MaxForks
  /\ mgr' = "accept"
  /\ UNCHANGED <<notifyVars, goManage, childcount, pending, child>>

\* Mutant of ManagerForks: a failed fork ends the loop.
ManagerForksOrStops ==
  /\ mgr = "accept" /\ pending # <<>>
  /\ pending' = Tail(pending)
  /\ \/ /\ childcount' = childcount + 1
        /\ child' = [child EXCEPT ![Head(pending)] = "lock"]
        /\ mgr' = IF goManage THEN "room" ELSE "ending"
     \/ /\ child' = [child EXCEPT ![Head(pending)] = "gone"]
        /\ mgr' = "ending"
        /\ UNCHANGED childcount
  /\ UNCHANGED <<notifyVars, goManage>>

\* It accepts the first call and forks a child, which counts for ever: the signal
\* of its end is not handled.  Or it cannot fork, and closes the connection.
ManagerForks ==
  /\ mgr = "accept" /\ pending # <<>>
  /\ pending' = Tail(pending)
  /\ \/ /\ childcount' = childcount + 1
        /\ child' = [child EXCEPT ![Head(pending)] = "lock"]
     \/ /\ child' = [child EXCEPT ![Head(pending)] = "gone"]
        /\ UNCHANGED childcount
  /\ mgr' = IF goManage THEN "room" ELSE "ending"
  /\ UNCHANGED <<notifyVars, goManage>>

\* SIGUSR1 from the administrator.  The handler waits for the children by the
\* counter, which never comes down; without children the signal interrupts
\* accept, unless it comes just before.
StopManager ==
  /\ goManage /\ mgr \in {"room", "accept"}
  /\ goManage' = FALSE
  /\ IF childcount > 0 THEN mgr' = "spin"
     ELSE \/ mgr' = mgr
          \/ mgr = "accept" /\ mgr' = "ending"
  /\ UNCHANGED <<notifyVars, childcount, pending, child>>

\* It ends, and stops the process of notifications.
ManagerEnds ==
  /\ mgr = "ending" /\ mgr' = "over"
  /\ StopNotify
  /\ UNCHANGED <<goManage, childcount, pending>>

-----------------------------------------------------------------------------
(* The children                                                              *)

\* file_block(F_RDLCK).
ChildLock(c) ==
  /\ child[c] = "lock" /\ ~writer
  /\ child' = [child EXCEPT ![c] = "read"]
  /\ UNCHANGED <<notifyVars, mgrVars>>

\* protocol_manager reads the file and unlocks.  It refuses the call if the user
\* is not there or the file cannot be read, and else relays it.
ChildRead(c) ==
  /\ child[c] = "read"
  /\ \E next \in IF cut THEN {"gone"} ELSE {"relay", "gone"} :
       child' = [child EXCEPT ![c] = next]
  /\ UNCHANGED <<notifyVars, mgrVars>>

\* The call is over (SsipProxy), and the child with it.
ChildEnds(c) ==
  /\ child[c] = "relay"
  /\ child' = [child EXCEPT ![c] = "gone"]
  /\ UNCHANGED <<notifyVars, mgrVars>>

-----------------------------------------------------------------------------
NotifyStep == NotifyLock \/ NotifyTruncate \/ NotifyWrite
ManagerStep == ManagerRoom \/ ManagerForks \/ ManagerEnds
ChildStep(c) == ChildLock(c) \/ ChildRead(c) \/ ChildEnds(c)

ManagerNext ==
  \/ NotifyRequest \/ NotifyStep \/ AdministratorStopsNotify
  \/ ManagerStep \/ StopManager
  \/ \E c \in Calls : CallArrives(c) \/ ChildStep(c)

ManagerSpec == ManagerInit /\ [][ManagerNext]_processVars

\* A process that can go on goes on, a lock that stays free for a child is taken
\* by it even if it is taken by others in between, and a call comes to an end
\* (SsipProxy).  Nothing is asked of the administrator, of the callers or of the
\* programs that send requests.
ManagerFairSpec ==
  /\ ManagerSpec
  /\ WF_processVars(NotifyStep) /\ WF_processVars(ManagerStep)
  /\ \A c \in Calls : SF_processVars(ChildLock(c)) /\ WF_processVars(ChildStep(c))

-----------------------------------------------------------------------------
(* Properties                                                                *)

\* No child reads the file while it is emptied and not yet written, unless the
\* process of notifications was told to stop while it waited for the lock
\* (file_block, cfgf_write_file).
NoTornRead ==
  /\ ManagerTypeOK
  /\ \A c \in Calls : child[c] = "read" /\ cut => ~writer /\ ~goNotify

\* There are never more children at work than num_forks_manager
\* (manage_user_process).
Working == {c \in Calls : child[c] \in {"lock", "read", "relay"}}
ChildrenBounded == Cardinality(Working) <= MaxForks

\* A caller that has connected is served or refused, unless num_forks_manager
\* calls were served before or the administrator stopped the server; and the
\* process of notifications is never kept waiting for the lock for ever
\* (manage_user_process, file_block).
ServedUntilLimit ==
  /\ \A c \in Calls :
       child[c] = "queued" ~> (child[c] = "gone" \/ childcount >= MaxForks \/ ~goManage)
  /\ notifier = "lock" ~> notifier # "lock"

\* doc: "cuando el hijo termina, manda una senal (SIGCHLD) al padre y este hace un
\* wait [...] y decrementa ese contador" (implementacion.tex:1576): the manager
\* does not stay at its limit for ever.
LimitIsLeft == mgr = "room" ~> mgr # "room"
=============================================================================
