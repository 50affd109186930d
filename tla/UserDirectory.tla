--------------------------- MODULE UserDirectory ----------------------------
(***************************************************************************)
(* What the proxy's directory of users promises, without processes, files, *)
(* locks or packets: each user is reached at one program at most, only     *)
(* that program leaves the place it has taken, and a program is told that  *)
(* it is online or offline only while that is so.                          *)
(***************************************************************************)
CONSTANTS
  Users,          \* the names calls are made to
  Programs,       \* the programs that may serve a user
  Of,             \* the user of a program
  Nobody          \* no program serves this user

VARIABLES
  listed,         \* the program each user is reached at
  told            \* what each program knows of itself

directoryVars == <<listed, told>>

DirectoryInit ==
  /\ listed = [u \in Users |-> Nobody]
  /\ told = [p \in Programs |-> "nothing"]

Enter(p) ==
  /\ listed[Of[p]] = Nobody
  /\ listed' = [listed EXCEPT ![Of[p]] = p]
  /\ UNCHANGED told

Leave(p) ==
  /\ listed[Of[p]] = p
  /\ listed' = [listed EXCEPT ![Of[p]] = Nobody]
  /\ UNCHANGED told

Tell(p, what) ==
  /\ what = "online" => listed[Of[p]] = p
  /\ what = "offline" => listed[Of[p]] # p
  /\ told' = [told EXCEPT ![p] = what]
  /\ UNCHANGED listed

DirectoryNext ==
  \E p \in Programs :
    \/ Enter(p) \/ Leave(p)
    \/ \E what \in {"nothing", "online", "offline"} : Tell(p, what)

DirectorySpec == DirectoryInit /\ [][DirectoryNext]_directoryVars
=============================================================================
