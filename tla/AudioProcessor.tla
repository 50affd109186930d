--------------------------- MODULE AudioProcessor ---------------------------
(***************************************************************************)
(* The audio processor (audio_processor.c): one thread that reads a block  *)
(* of the sound card and gives a copy to the queue of every consumer, then *)
(* takes a block of the queues of the producers and plays it; and the      *)
(* interface, which starts and stops it with its first and last user       *)
(* (gui_main_functions.c) and adds and removes queues while it runs.       *)
(*                                                                         *)
(* Each list of queues has a mutex, which the thread holds while it waits  *)
(* for the card.  The interface asks for one thing at a time, so that what *)
(* it does with a mutex locked is one step, taken while the thread does    *)
(* not hold it.  Blocks are numbered as they are handed out, modulo Round; *)
(* those of the producers are only counted.                                *)
(***************************************************************************)
EXTENDS Integers, FiniteSets, SequencesExt

CONSTANTS
  Users,          \* the sessions, and the test of the noise of the room
  NoUser,
  Block,          \* bytes of a block of the card
  Samples,        \* samples of a block, audio_blocksize_buf / 2
  Round,          \* blocks are told apart modulo this
  MaxQueue        \* no more blocks of a queue are remembered

ASSUME UserAssumption == IsFiniteSet(Users) /\ NoUser \notin Users
ASSUME BlockAssumption == Block \in Nat \ {0}
ASSUME SamplesAssumption == Samples \in Nat /\ Samples >= Cardinality(Users)
ASSUME BoundAssumption == MaxQueue \in Nat \ {0} /\ Round \in Nat /\ Round > MaxQueue

VARIABLES
  place,          \* where the thread is
  process,        \* its flag process
  card,           \* whether the sound card works
  cond,           \* bytes of the block that are still to read
  block,          \* the number of the block it hands out
  counter,        \* its index in a list of queues
  node,           \* the entry of the list at that index
  mics, spks,     \* list_aqueues_mic and list_aqueues_spk, by user
  live,           \* the queues of the consumers that are not freed
  micq,           \* the blocks in the queue of each consumer
  spkq,           \* how many are in that of each producer
  dialogs,        \* num_users_active_dialogs
  open,           \* the users whose threads run
  ui              \* what the interface does, and for whom

threadVars == <<place, process, cond, block, counter, node>>
queueVars == <<mics, spks, live>>
processorVars == <<threadVars, card, queueVars, micq, spkq, dialogs, open, ui>>

Idle == [who |-> NoUser, at |-> "idle"]

ProcessorTypeOK ==
  /\ place \in {"none", "loop", "read", "rest", "push", "pop", "write"}
  /\ process \in BOOLEAN
  /\ card \in {"works", "failed"}
  /\ cond \in 0 .. Block
  /\ block \in 0 .. Round - 1
  /\ counter \in 0 .. Samples + 1
  /\ node \in Users \cup {NoUser}
  /\ mics \in Seq(Users) /\ spks \in Seq(Users)
  /\ live \subseteq Users
  /\ micq \in [Users -> Seq(0 .. Round - 1)]
  /\ spkq \in [Users -> 0 .. MaxQueue]
  /\ dialogs \in 0 .. Cardinality(Users)
  /\ open \subseteq Users
  /\ ui = Idle \/ ui \in [who : Users, at : {"mic", "spk", "test", "freemic", "unrefmic", "freespk",
                                             "unrefspk", "leave", "join"}]

ProcessorInit ==
  /\ place = "none" /\ process = FALSE /\ card = "works"
  /\ cond = 0 /\ block = 0 /\ counter = 0 /\ node = NoUser
  /\ mics = <<>> /\ spks = <<>> /\ live = {}
  /\ micq = [u \in Users |-> <<>>] /\ spkq = [u \in Users |-> 0]
  /\ dialogs = 0 /\ open = {} /\ ui = Idle

\* The thread holds mutex_aqueue_mic, or mutex_aqueue_spk.
MicLocked == place \in {"read", "rest", "push"}
SpkLocked == place \in {"pop", "write"}

-----------------------------------------------------------------------------
(* The thread, audio_processor_loop                                          *)

\* g_slist_nth_data
Nth(list, n) == IF n < Len(list) THEN list[n + 1] ELSE NoUser

\* It goes round again and locks the consumers, or ends.
Loop ==
  /\ place = "loop"
  /\ place' = IF process THEN "read" ELSE "none"
  /\ UNCHANGED <<process, cond, block, counter, node, card, queueVars, micq, spkq, dialogs, open, ui>>

\* The block is in the buffer, whatever was read of it, and is handed out from
\* the first consumer on.
HandOut ==
  /\ block' = (block + 1) % Round
  /\ counter' = 0
  /\ node' = Nth(mics, 0)
  /\ cond' = 0
  /\ place' = "push"

\* The card gives the whole block; or nothing, or an error, and the last one is
\* handed out again.
ReadBlock ==
  /\ place = "read"
  /\ HandOut
  /\ UNCHANGED <<process, card, queueVars, micq, spkq, dialogs, open, ui>>

\* It gives a part, and the rest is read in a loop ...
ReadPart ==
  /\ place = "read" /\ card = "works"
  /\ \E n \in 1 .. Block - 1 : cond' = Block - n
  /\ place' = "rest"
  /\ UNCHANGED <<process, block, counter, node, card, queueVars, micq, spkq, dialogs, open, ui>>

\* ... that ends when nothing is left ...
ReadRest ==
  /\ place = "rest" /\ card = "works"
  /\ \E n \in 1 .. cond :
       \/ n = cond /\ HandOut
       \/ n < cond /\ cond' = cond - n /\ UNCHANGED <<place, block, counter, node>>
  /\ UNCHANGED <<process, card, queueVars, micq, spkq, dialogs, open, ui>>

\* ... and adds to what is left when the card gives an error (the index goes
\* below the buffer when more than the block is left, which is not followed).
RestFails ==
  /\ place = "rest" /\ card = "failed"
  /\ cond < Block /\ cond' = cond + 1
  /\ UNCHANGED <<place, process, block, counter, node, card, queueVars, micq, spkq, dialogs, open, ui>>

\* g_async_queue_push; of a full queue the oldest block is forgotten.
Put(queue, b) == LET all == Append(queue, b) IN IF Len(all) > MaxQueue THEN Tail(all) ELSE all

\* A copy goes to the queue it looks at, and it looks at the next.
Push ==
  /\ place = "push" /\ node # NoUser
  /\ micq' = [micq EXCEPT ![node] = Put(@, block)]
  /\ counter' = counter + 1
  /\ node' = Nth(mics, counter')
  /\ UNCHANGED <<place, process, cond, block, card, queueVars, spkq, dialogs, open, ui>>

\* Mutant of PushEnds: the index is not set back.
PushEndsKeeps ==
  /\ place = "push" /\ node = NoUser
  /\ place' = "pop"
  /\ counter' = counter
  /\ node' = Nth(spks, counter)
  /\ UNCHANGED <<process, cond, block, card, queueVars, micq, spkq, dialogs, open, ui>>

\* After the last it unlocks the consumers and locks the producers.
PushEnds ==
  /\ place = "push" /\ node = NoUser
  /\ place' = "pop"
  /\ counter' = 0
  /\ node' = Nth(spks, 0)
  /\ UNCHANGED <<process, cond, block, card, queueVars, micq, spkq, dialogs, open, ui>>

\* g_async_queue_try_pop.  A block is added to what is played, sample by
\* sample and with the same index, when there are several producers.
Pop ==
  /\ place = "pop" /\ node # NoUser
  /\ \/ spkq[node] = 0 /\ UNCHANGED spkq /\ counter' = counter + 1
     \/ /\ spkq[node] > 0 /\ spkq' = [spkq EXCEPT ![node] = @ - 1]
        /\ counter' = IF Len(spks) = 1 THEN counter + 1 ELSE Samples + 1
  /\ node' = Nth(spks, counter')
  /\ UNCHANGED <<place, process, cond, block, card, queueVars, micq, dialogs, open, ui>>

\* What was mixed is written, and the producers unlocked.
PopEnds ==
  /\ place = "pop" /\ node = NoUser
  /\ place' = "write" /\ counter' = 0
  /\ UNCHANGED <<process, cond, block, node, card, queueVars, micq, spkq, dialogs, open, ui>>

Write ==
  /\ place = "write"
  /\ place' = "loop"
  /\ UNCHANGED <<process, cond, block, counter, node, card, queueVars, micq, spkq, dialogs, open, ui>>

\* The card stops working, for good.
CardFails ==
  /\ card = "works" /\ card' = "failed"
  /\ UNCHANGED <<threadVars, queueVars, micq, spkq, dialogs, open, ui>>

-----------------------------------------------------------------------------
(* The threads of the sessions                                               *)

Take(u) ==
  /\ u \in open /\ micq[u] # <<>>
  /\ micq' = [micq EXCEPT ![u] = Tail(@)]
  /\ UNCHANGED <<threadVars, card, queueVars, spkq, dialogs, open, ui>>

Give(u) ==
  /\ u \in open /\ spkq[u] < MaxQueue
  /\ spkq' = [spkq EXCEPT ![u] = @ + 1]
  /\ UNCHANGED <<threadVars, card, queueVars, micq, dialogs, open, ui>>

-----------------------------------------------------------------------------
(* The interface                                                             *)

\* init_audio_processor: the first user starts the thread, with no queues.
\* (When the card cannot be opened nothing is changed.)
Start(u) ==
  /\ ui = Idle /\ u \notin open
  /\ ui' = [who |-> u, at |-> "mic"]
  /\ dialogs' = dialogs + 1
  /\ IF dialogs = 0
     THEN /\ process' = TRUE /\ place' = "loop"
          /\ mics' = <<>> /\ spks' = <<>>
          /\ block' = 0
          /\ UNCHANGED <<cond, counter, node, live>>
     ELSE UNCHANGED <<threadVars, queueVars>>
  /\ UNCHANGED <<card, micq, spkq, open>>

\* audio_processor_loop_create_mic; the test of the noise has no other queue.
CreateMic ==
  /\ ui.at = "mic" /\ ~MicLocked
  /\ mics' = Append(mics, ui.who)
  /\ live' = live \cup {ui.who}
  /\ \E next \in {"spk", "test"} : ui' = [ui EXCEPT !.at = next]
  /\ UNCHANGED <<threadVars, card, spks, micq, spkq, dialogs, open>>

\* audio_processor_loop_create_spk, and the threads of the session start.
CreateSpk ==
  /\ ui.at = "spk" /\ ~SpkLocked
  /\ spks' = Append(spks, ui.who)
  /\ open' = open \cup {ui.who}
  /\ ui' = Idle
  /\ UNCHANGED <<threadVars, card, mics, live, micq, spkq, dialogs>>

\* toggle_button_vad: the interface itself waits for the blocks it measures.
Measure ==
  /\ ui.at = "test" /\ micq[ui.who] # <<>>
  /\ micq' = [micq EXCEPT ![ui.who] = Tail(@)]
  /\ \E next \in {"test", "freemic"} : ui' = [ui EXCEPT !.at = next]
  /\ UNCHANGED <<threadVars, card, queueVars, spkq, dialogs, open>>

\* A session ends, its threads first; one that cannot be made does the same.
Close(u) ==
  /\ ui = Idle /\ u \in open
  /\ open' = open \ {u}
  /\ ui' = [who |-> u, at |-> "freemic"]
  /\ UNCHANGED <<threadVars, card, queueVars, micq, spkq, dialogs>>

\* Mutant of FreeMic: the list is changed without its mutex.
FreeMicUnlocked ==
  /\ ui.at = "freemic"
  /\ mics' = RemoveFirst(mics, ui.who)
  /\ ui' = [ui EXCEPT !.at = "unrefmic"]
  /\ UNCHANGED <<threadVars, card, spks, live, micq, spkq, dialogs, open>>

\* audio_processor_loop_free_mic: the entry leaves the list, ...
FreeMic ==
  /\ ui.at = "freemic" /\ ~MicLocked
  /\ mics' = RemoveFirst(mics, ui.who)
  /\ ui' = [ui EXCEPT !.at = "unrefmic"]
  /\ UNCHANGED <<threadVars, card, spks, live, micq, spkq, dialogs, open>>

\* ... and the queue is emptied and freed with the mutex unlocked.
UnrefMic ==
  /\ ui.at = "unrefmic"
  /\ live' = live \ {ui.who}
  /\ micq' = [micq EXCEPT ![ui.who] = <<>>]
  /\ ui' = [ui EXCEPT !.at = IF ui.who \in ToSet(spks) THEN "freespk" ELSE "leave"]
  /\ UNCHANGED <<threadVars, card, mics, spks, spkq, dialogs, open>>

\* Mutant of FreeSpk: the list is changed without its mutex.
FreeSpkUnlocked ==
  /\ ui.at = "freespk"
  /\ spks' = RemoveFirst(spks, ui.who)
  /\ ui' = [ui EXCEPT !.at = "unrefspk"]
  /\ UNCHANGED <<threadVars, card, mics, live, micq, spkq, dialogs, open>>

\* audio_processor_loop_free_spk
FreeSpk ==
  /\ ui.at = "freespk" /\ ~SpkLocked
  /\ spks' = RemoveFirst(spks, ui.who)
  /\ ui' = [ui EXCEPT !.at = "unrefspk"]
  /\ UNCHANGED <<threadVars, card, mics, live, micq, spkq, dialogs, open>>

UnrefSpk ==
  /\ ui.at = "unrefspk"
  /\ spkq' = [spkq EXCEPT ![ui.who] = 0]
  /\ ui' = [ui EXCEPT !.at = "leave"]
  /\ UNCHANGED <<threadVars, card, queueVars, micq, dialogs, open>>

\* Mutant of Leave: the flag of the thread is not cleared.
LeaveRunning ==
  /\ ui.at = "leave"
  /\ dialogs' = dialogs - 1
  /\ IF dialogs' = 0 /\ mics = <<>> /\ spks = <<>>
     THEN ui' = [ui EXCEPT !.at = "join"]
     ELSE ui' = Idle
  /\ UNCHANGED <<threadVars, card, queueVars, micq, spkq, open>>

\* destroy_audio_processor: the last user tells the thread to end, unless
\* there are queues, and waits for it.
Leave ==
  /\ ui.at = "leave"
  /\ dialogs' = dialogs - 1
  /\ IF dialogs' = 0 /\ mics = <<>> /\ spks = <<>>
     THEN process' = FALSE /\ ui' = [ui EXCEPT !.at = "join"]
     ELSE ui' = Idle /\ UNCHANGED process
  /\ UNCHANGED <<place, cond, block, counter, node, card, queueVars, micq, spkq, open>>

Join ==
  /\ ui.at = "join" /\ place = "none"
  /\ ui' = Idle
  /\ UNCHANGED <<threadVars, card, queueVars, micq, spkq, dialogs, open>>

-----------------------------------------------------------------------------
Thread ==
  Loop \/ ReadBlock \/ ReadPart \/ ReadRest \/ RestFails \/ Push \/ PushEnds \/ Pop \/ PopEnds \/ Write

Interface == CreateMic \/ CreateSpk \/ Measure \/ FreeMic \/ UnrefMic \/ FreeSpk \/ UnrefSpk \/ Leave \/ Join

ProcessorNext ==
  \/ Thread
  \/ CardFails
  \/ Interface
  \/ \E u \in Users : Start(u) \/ Close(u) \/ Take(u) \/ Give(u)

ProcessorSpec == ProcessorInit /\ [][ProcessorNext]_processorVars

\* The thread runs, and waits for a card that works; the interface goes on
\* with what it began.  A mutex that is free again and again is got: the
\* thread sleeps a millisecond with both of them unlocked.  What the test of the
\* noise measures has an end.
Fairness ==
  /\ WF_processorVars(Thread)
  /\ WF_processorVars(UnrefMic \/ UnrefSpk \/ Leave \/ Join)
  /\ SF_processorVars(CreateMic) /\ SF_processorVars(CreateSpk)
  /\ SF_processorVars(FreeMic) /\ SF_processorVars(FreeSpk)
  /\ WF_processorVars(Measure) /\ SF_processorVars(Measure /\ ui'.at = "freemic")

ProcessorFairSpec == ProcessorSpec /\ Fairness

-----------------------------------------------------------------------------
(* Properties                                                                *)

\* The thread is left waiting for the rest of a block by a card that failed.
Stuck == place = "rest" /\ card = "failed"

\* The consumers the thread has already been to on this round.
Served == IF place = "push" THEN {Nth(mics, i) : i \in 0 .. counter - 1} ELSE ToSet(mics)

\* "Repartir el audio a todas las sesiones": whatever sessions come and go
\* while a block is handed out, the blocks in a queue follow each other, none
\* missing and none twice, up to the last one handed out.
SharedOut ==
  /\ ProcessorTypeOK
  /\ \A u \in Users : \A i \in 2 .. Len(micq[u]) : micq[u][i] = (micq[u][i - 1] + 1) % Round
  /\ \A u \in Served \ {NoUser} : micq[u] # <<>> => Last(micq[u]) = block
  /\ \A u \in ToSet(mics) \ Served : micq[u] # <<>> => Last(micq[u]) = (block + Round - 1) % Round

\* The queue the thread is about to use is in the list it goes through, and is
\* not freed until the thread has gone on.
QueueIsLive ==
  node # NoUser => /\ place \in {"push", "pop"}
                   /\ place = "push" => node \in live /\ node = Nth(mics, counter)
                   /\ place = "pop" => node \in ToSet(spks)

\* The interface is not left waiting for the thread, whether it adds a queue,
\* removes one, measures or joins it, unless the card fails in the middle of
\* a block.
InterfaceReturns == ui # Idle ~> (ui = Idle \/ Stuck)

\* The first producer is heard: its queue does not stay full while it is first.
FirstIsPlayed ==
  \A u \in Users :
    (spks # <<>> /\ Head(spks) = u /\ spkq[u] = MaxQueue)
      ~> (spkq[u] < MaxQueue \/ spks = <<>> \/ Head(spks) # u \/ Stuck)
=============================================================================
