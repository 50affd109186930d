----------------------------- MODULE RtpSources -----------------------------
(***************************************************************************)
(* The database of sources of an RTP session (rtp.c): a hash table of      *)
(* doubly linked chains, the reports received from each source about each  *)
(* other, the count of the sources that send, and what the packets of RTP  *)
(* and RTCP, the housekeeping of rtp_update, the reports of rtp_send_ctrl, *)
(* rtp_send_bye and rtp_done do to them.                                   *)
(*                                                                         *)
(* The threads of a session call these functions one at a time, with the   *)
(* mutex of io.c.  The options are those io.c gives: a packet of RTP makes *)
(* no source, one of RTCP does.  How long ago something was heard is left  *)
(* open, as is whether a sequence number is accepted (update_seq).         *)
(***************************************************************************)
EXTENDS Integers, FiniteSets, SequencesExt

CONSTANTS
  Ssrcs,          \* the SSRCs that sources can have
  Me,             \* session->my_ssrc
  DbSize,         \* RTP_DB_SIZE
  MaxBlocks,      \* report blocks of a packet (31)
  ByeLimit,       \* RTP_SESSION_LIMIT_INMEDIATE_BYE
  MaxSenders,     \* bound: sender_count, which grows until the next reports
  MaxReports,     \* bound: the reports kept of a state in which another is received
  Speakers        \* bound: the sources of the packets received

ASSUME SsrcAssumption == IsFiniteSet(Ssrcs) /\ Ssrcs \subseteq Nat /\ Me \in Ssrcs
ASSUME SizeAssumption == DbSize \in Nat \ {0} /\ MaxBlocks \in Nat \ {0} /\ ByeLimit \in Nat
ASSUME BoundAssumption == MaxSenders \in Nat /\ MaxReports \in Nat /\ Speakers \subseteq Ssrcs

VARIABLES
  table,          \* session->db and the links of the sources
  count,          \* ssrc_count
  rr,             \* the reports in session->rr, as <<reporter, reportee>>
  sender,         \* the sources whose sender is TRUE
  senders,        \* sender_count
  gotBye,         \* the sources whose got_bye is TRUE
  weSent,         \* we_sent
  initial,        \* initial_rtcp
  sendingBye,     \* sending_bye: the session has once waited to say goodbye
  told,           \* the sources the application has been told of
  stage,          \* the session is open, saying goodbye, silent, or done
  lost            \* history: rtp_update has deleted our own source

sourceVars == <<table, count, rr, sender, senders, gotBye, weSent, initial, sendingBye, told, stage, lost>>

Null == -1
Buckets == 0 .. DbSize - 1
SsrcHash(s) == s % DbSize
OtherSources == Ssrcs \ {Me}

\* What rtp.c holds of the sources, as the functions below change it.
State == [table |-> table, count |-> count, rr |-> rr, sender |-> sender, senders |-> senders,
          gotBye |-> gotBye, told |-> told]

Becomes(d) ==
  /\ table' = d.table /\ count' = d.count /\ rr' = d.rr /\ sender' = d.sender
  /\ senders' = d.senders /\ gotBye' = d.gotBye /\ told' = d.told

-----------------------------------------------------------------------------
(* The chains                                                                *)

\* The sources of a chain, as next leads from one to the other.
Chain(t, h) ==
  LET at[n \in 0 .. Cardinality(Ssrcs)] ==
        IF n = 0 THEN t.db[h] ELSE LET s == at[n - 1] IN IF s = Null THEN Null ELSE t.next[s]
  IN  [i \in 1 .. Cardinality({n \in DOMAIN at : at[n] # Null}) |-> at[i - 1]]

\* All of them, chain after chain.
Listed(t) == FlattenSeq([i \in 1 .. DbSize |-> Chain(t, i - 1)])

\* get_source
Known(t, s) == s \in ToSet(Chain(t, SsrcHash(s)))

\* Mutant of CreateSource: the source enters at the end of its chain.
CreateSourceLast(d, s) ==
  LET chain == Chain(d.table, SsrcHash(s)) IN
  IF Known(d.table, s) THEN d
  ELSE [d EXCEPT
          !.table = [db   |-> IF chain = <<>> THEN [@.db EXCEPT ![SsrcHash(s)] = s] ELSE @.db,
                     next |-> IF chain = <<>> THEN [@.next EXCEPT ![s] = Null]
                              ELSE [@.next EXCEPT ![s] = Null, ![Last(chain)] = s],
                     prev |-> [@.prev EXCEPT ![s] = IF chain = <<>> THEN Null ELSE Last(chain)],
                     kept |-> @.kept \cup {s}],
          !.count = @ + 1,
          !.told = @ \cup ({s} \ {Me})]

\* create_source: a new source is the first of its chain, and the application
\* is told of it unless it is our own.
CreateSource(d, s) ==
  LET old == d.table.db[SsrcHash(s)] IN
  IF Known(d.table, s) THEN d
  ELSE [d EXCEPT
          !.table = [db   |-> [@.db EXCEPT ![SsrcHash(s)] = s],
                     next |-> [@.next EXCEPT ![s] = old],
                     prev |-> [x \in Ssrcs |-> IF x = s THEN Null ELSE IF x = old THEN s ELSE @.prev[x]],
                     kept |-> @.kept \cup {s}],
          !.count = @ + 1,
          !.told = @ \cup ({s} \ {Me})]

\* Mutant of RemoveRr: only the reports of the source are removed.
RemoveRrRows(reports, s) == {p \in reports : p[1] # s}

\* remove_rr
RemoveRr(reports, s) == {p \in reports : p[1] # s /\ p[2] # s}

\* The source leaves its chain, the first of it or not, and is freed.
Unlink(t, s) ==
  LET first == t.db[SsrcHash(s)] = s IN
  [db   |-> IF first THEN [t.db EXCEPT ![SsrcHash(s)] = t.next[s]] ELSE t.db,
   next |-> IF first THEN t.next ELSE [t.next EXCEPT ![t.prev[s]] = t.next[s]],
   prev |-> [x \in Ssrcs |-> IF x = t.next[s] THEN (IF first THEN Null ELSE t.prev[s]) ELSE t.prev[x]],
   kept |-> t.kept \ {s}]

\* delete_source, which does nothing about a source it does not find.  The
\* count of senders stays.  (What is read of the source after it was freed is
\* what it held: sender and got_bye are kept for the caller.)
DeleteSource(d, s) ==
  IF ~Known(d.table, s) THEN d
  ELSE [d EXCEPT !.table = Unlink(@, s),
                 !.count = @ - 1,
                 !.rr = RemoveRr(@, s),
                 !.told = @ \ {s}]

\* A source that was freed has no flags and no links.
Forget(d) ==
  LET kept == d.table.kept
      Of(links) == [s \in Ssrcs |-> IF s \in kept THEN links[s] ELSE Null]
  IN  [d EXCEPT !.sender = @ \cap kept, !.gotBye = @ \cap kept,
                !.table = [db |-> @.db, next |-> Of(@.next), prev |-> Of(@.prev), kept |-> kept]]

\* Sources are made one after the other.
CreateAll(d, list) ==
  LET upTo[n \in 0 .. Len(list)] == IF n = 0 THEN d ELSE CreateSource(upTo[n - 1], list[n])
  IN  upTo[Len(list)]

\* A packet of RTP or a report of its own marks a source as a sender.
MarkSender(d, s) ==
  [d EXCEPT !.sender = @ \cup {s}, !.senders = IF s \in d.sender THEN @ ELSE @ + 1]

-----------------------------------------------------------------------------
(* Packets                                                                   *)

\* process_report_blocks: the source of each block is made, and the report kept.
ReportBlocks(d, s, blocks) ==
  [CreateAll(d, blocks) EXCEPT !.rr = @ \cup {<<s, b>> : b \in ToSet(blocks)}]

\* process_rtcp_sr and process_rtcp_rr
ProcessReport(d, s, type, blocks) ==
  LET known == CreateSource(d, s) IN
  ReportBlocks(IF type = "SR" THEN MarkSender(known, s) ELSE known, s, blocks)

\* process_rtcp_bye: the source is left in the database for a while.
ProcessBye(d, list) == [CreateAll(d, list) EXCEPT !.gotBye = @ \cup ToSet(list)]

\* rtp_process_ctrl: a report, descriptions or data of applications (SDES, APP),
\* and goodbyes.
ProcessCtrl(d, s, type, blocks, about, byes) ==
  ProcessBye(CreateAll(ProcessReport(d, s, type, blocks), about), byes)

AtMostOne(S) == {<<>>} \cup {<<s>> : s \in S}

\* Naming a source that is known changes nothing.
Unknown == Ssrcs \ table.kept

\* rtp_recv has a packet of RTCP.  Nothing keeps it from carrying our own SSRC, as
\* its source or in its goodbye.
RecvCtrl ==
  /\ stage \in {"open", "bye"} /\ senders < MaxSenders
  /\ \E s \in Speakers, type \in {"SR", "RR"} :
     \E blocks \in AtMostOne(IF Cardinality(rr) < MaxReports THEN Ssrcs \ {s} ELSE {}),
        about \in AtMostOne(Unknown), byes \in AtMostOne({s, Me}) :
       Becomes(ProcessCtrl(State, s, type, blocks, about, byes))
  /\ UNCHANGED <<weSent, initial, sendingBye, stage, lost>>

\* rtp_recv_data has a packet of RTP: of a known source, and accepted, it makes
\* its contributing sources and marks it (process_rtp).
RecvData ==
  /\ stage = "open" /\ senders < MaxSenders
  /\ \E s \in Speakers, csrcs \in AtMostOne(Unknown) :
       /\ Known(table, s)
       /\ Becomes(MarkSender(CreateAll(State, csrcs), s))
  /\ UNCHANGED <<weSent, initial, sendingBye, stage, lost>>

\* rtp_send_data
SendData ==
  /\ stage = "open"
  /\ weSent' = TRUE
  /\ UNCHANGED <<table, count, rr, sender, senders, gotBye, initial, sendingBye, told, stage, lost>>

-----------------------------------------------------------------------------
(* Reports                                                                   *)

\* A block on a source that sends, unless the packet is full or this chain ended.
ReportOn(acc, s) ==
  IF Len(acc.blocks) = MaxBlocks \/ SsrcHash(s) = acc.ended \/ s \notin acc.d.sender THEN acc
  ELSE [d      |-> [acc.d EXCEPT !.sender = @ \ {s}, !.senders = @ - 1],
        blocks |-> Append(acc.blocks, s),
        ended  |-> IF acc.d.senders = 1 THEN SsrcHash(s) ELSE acc.ended]

\* format_report_blocks: from each chain, until the packet is full or, in a
\* chain, until the count of senders is zero.
FormatReportBlocks(d) ==
  LET list == Listed(d.table)
      upTo[n \in 0 .. Len(list)] ==
        IF n = 0 THEN [d |-> d, blocks |-> <<>>, ended |-> Null] ELSE ReportOn(upTo[n - 1], list[n])
  IN  upTo[Len(list)]

\* One more packet, while there are senders to report on.
AddPacket(acc) ==
  IF acc.d.senders <= 0 THEN acc
  ELSE LET new == FormatReportBlocks(acc.d)
       IN  [d |-> new.d, blocks |-> acc.blocks \o new.blocks]

\* The reports of send_rtcp: a packet, and more (up to the size of the compound;
\* those without a block are left out).
Reports(d) ==
  LET first == FormatReportBlocks(d)
      after[n \in 0 .. Cardinality(Ssrcs)] ==
        IF n = 0 THEN [d |-> first.d, blocks |-> first.blocks] ELSE AddPacket(after[n - 1])
  IN  after[Cardinality(Ssrcs)]

\* rtp_send_ctrl, when the time has come: the packet is sent and handed to
\* ourselves, and a new interval starts.
SendCtrl ==
  /\ stage = "open"
  /\ LET reports == Reports(State)
         back == ProcessReport(reports.d, Me, IF weSent THEN "SR" ELSE "RR", reports.blocks)
     IN  Becomes([back EXCEPT !.sender = {}, !.senders = 0])
  /\ initial' = FALSE
  /\ UNCHANGED <<weSent, sendingBye, stage, lost>>

-----------------------------------------------------------------------------
(* Housekeeping                                                              *)

\* How long a source has not been heard of by RTCP: longer than the two seconds
\* after a goodbye, than two, and than five intervals of reports.
Silence == 0 .. 3

\* Those of all sources, but for the limits that make no difference to one now.
Silences ==
  {silence \in [table.kept -> Silence] : \A s \in table.kept :
     (silence[s] = 1 => s \in gotBye) /\ (silence[s] > 1 => s # Me)}

\* Mutant of UpdateSource: a sender that is silent is uncounted with the others.
UpdateSourceCounted(d, s, silence) ==
  LET left == IF s \in d.gotBye /\ silence > 0 THEN DeleteSource(d, s) ELSE d
      quiet == IF s # Me /\ silence > 1
               THEN [left EXCEPT !.sender = @ \ {s}, !.senders = @ - 1]
               ELSE left
  IN  IF s # Me /\ silence > 2 THEN DeleteSource(quiet, s) ELSE quiet

\* What rtp_update does about a source, whether or not it has just freed it.
UpdateSource(d, s, silence) ==
  LET left == IF s \in d.gotBye /\ silence > 0 THEN DeleteSource(d, s) ELSE d
      quiet == IF s # Me /\ silence > 1 /\ s \in left.sender
               THEN [left EXCEPT !.sender = @ \ {s}, !.senders = @ - 1]
               ELSE left
  IN  IF s # Me /\ silence > 2 THEN DeleteSource(quiet, s) ELSE quiet

\* Every source is looked at, our own too: it is deleted like any other that has
\* said goodbye and has not been heard of since.
UpdateAll(d, silence) ==
  LET list == Listed(d.table)
      upTo[n \in 0 .. Len(list)] ==
        IF n = 0 THEN d
        ELSE UpdateSource(upTo[n - 1], list[n], silence[list[n]])
  IN  upTo[Len(list)]

\* rtp_update: the sources, and the reports that are old (here one at most).
Update ==
  /\ stage \in {"open", "bye"}
  /\ \E silence \in Silences, still \in {FALSE, weSent} :
     LET after == Forget(UpdateAll(State, silence))
     IN  \E old \in {{}} \cup {{p} : p \in after.rr} :
           /\ Becomes([after EXCEPT !.rr = @ \ old])
           /\ weSent' = still
  /\ lost' = (lost \/ Me \notin table'.kept)
  /\ UNCHANGED <<initial, sendingBye, stage>>

-----------------------------------------------------------------------------
(* The end                                                                   *)

\* rtp_send_bye_now: a report and a goodbye, handed to ourselves too.
ByeNow(d) ==
  LET reports == FormatReportBlocks(d)
  IN  ProcessBye(ProcessReport(reports.d, Me, "RR", reports.blocks), <<Me>>)

\* rtp_send_bye.  Who has sent nothing goes in silence ...
LeaveSilently ==
  /\ stage = "open" /\ ~weSent /\ initial
  /\ stage' = "left"
  /\ UNCHANGED <<table, count, rr, sender, senders, gotBye, weSent, initial, sendingBye, told, lost>>

\* ... a small session is left at once ...
SendBye ==
  /\ stage = "open" /\ (weSent \/ ~initial)
  /\ count < ByeLimit
  /\ Becomes(ByeNow(State))
  /\ stage' = "left"
  /\ UNCHANGED <<weSent, initial, sendingBye, lost>>

\* ... and a big one after a while, in which packets are processed.
WaitToBye ==
  /\ stage = "open" /\ (weSent \/ ~initial)
  /\ count >= ByeLimit
  /\ stage' = "bye"
  /\ senders' = 0 /\ initial' = TRUE /\ weSent' = FALSE /\ sendingBye' = TRUE
  /\ UNCHANGED <<table, count, rr, sender, gotBye, told, lost>>

WaitedToBye ==
  /\ stage = "bye"
  /\ Becomes(ByeNow(State))
  /\ stage' = "left"
  /\ UNCHANGED <<weSent, initial, sendingBye, lost>>

\* The session did not end after all: the loop that has said goodbye was stopped to
\* change the codec too, and set_codec_tx starts another on the same RTP session.
GoOn ==
  /\ stage = "left"
  /\ stage' = "open"
  /\ UNCHANGED <<table, count, rr, sender, senders, gotBye, weSent, initial, sendingBye, told, lost>>

DeleteFirst(d, s) == DeleteSource(d, d.table.db[SsrcHash(s)])

\* For every source that is not ours the first of its chain is deleted.
DeleteFirsts(d) ==
  LET list == Listed(d.table)
      upTo[n \in 0 .. Len(list)] ==
        IF n = 0 THEN d
        ELSE IF list[n] = Me THEN upTo[n - 1]
        ELSE DeleteFirst(upTo[n - 1], list[n])
  IN  upTo[Len(list)]

\* rtp_done: the sources of the others, and ours in the end, if it is still there.
Done ==
  /\ stage \in {"open", "left"}
  /\ Becomes(Forget(DeleteSource(DeleteFirsts(State), Me)))
  /\ stage' = "done"
  /\ UNCHANGED <<weSent, initial, sendingBye, lost>>

-----------------------------------------------------------------------------
\* rtp_init
RtpInit ==
  LET none == [table |-> [db   |-> [h \in Buckets |-> Null], next |-> [s \in Ssrcs |-> Null],
                          prev |-> [s \in Ssrcs |-> Null], kept |-> {}],
               count |-> 0, rr |-> {}, sender |-> {}, senders |-> 0, gotBye |-> {}, told |-> {}]
      first == CreateSource(none, Me)
  IN  /\ table = first.table /\ count = first.count /\ rr = first.rr
      /\ sender = first.sender /\ senders = first.senders
      /\ gotBye = first.gotBye /\ told = first.told
      /\ weSent = FALSE /\ initial = TRUE /\ sendingBye = FALSE
      /\ stage = "open" /\ lost = FALSE

RtpNext ==
  \/ RecvCtrl \/ RecvData \/ SendData \/ SendCtrl \/ Update
  \/ LeaveSilently \/ SendBye \/ WaitToBye \/ WaitedToBye \/ GoOn \/ Done

RtpSpec == RtpInit /\ [][RtpNext]_sourceVars

-----------------------------------------------------------------------------
(* Properties                                                                *)

\* The table, and the links of the sources; kept are those that are not freed.
Links ==
  [db : [Buckets -> Ssrcs \cup {Null}], next : [Ssrcs -> Ssrcs \cup {Null}],
   prev : [Ssrcs -> Ssrcs \cup {Null}], kept : SUBSET Ssrcs]

RtpTypeOK ==
  /\ table \in Links
  /\ count \in Nat /\ senders \in Int
  /\ rr \subseteq Ssrcs \X Ssrcs
  /\ sender \subseteq table.kept /\ gotBye \subseteq table.kept /\ told \subseteq OtherSources
  /\ weSent \in BOOLEAN /\ initial \in BOOLEAN /\ sendingBye \in BOOLEAN /\ lost \in BOOLEAN
  /\ stage \in {"open", "bye", "left", "done"}

\* Whatever packets come and sources leave, from the middle of a chain or its
\* start, what is linked is what is not freed, in its chain and once, in both
\* directions; it is what was counted and what the application was told.  Our
\* own source is the last of its chain, so that rtp_done frees all of them, unless
\* the session went on after a goodbye in our name and rtp_update deleted it: then
\* rtp_done leaves one at most.
ChainsAreSound ==
  /\ RtpTypeOK
  /\ ToSet(Listed(table)) = table.kept
  /\ \A h \in Buckets : LET chain == Chain(table, h) IN
       /\ IsInjective(chain)
       /\ \A i \in DOMAIN chain : /\ SsrcHash(chain[i]) = h
                                  /\ table.prev[chain[i]] = IF i = 1 THEN Null ELSE chain[i - 1]
  /\ count = Cardinality(table.kept) /\ told = table.kept \ {Me}
  /\ stage = "done" => Cardinality(table.kept) <= IF lost THEN 1 ELSE 0
  /\ stage # "done" /\ ~lost => Last(Chain(table, SsrcHash(Me))) = Me

\* A report that is kept was made by, and is about, a source that is kept.
ReportsOfKnown == rr \subseteq table.kept \X table.kept

\* When reports are sent, each source that has sent since the last time is
\* reported on, although the count of them stops the search and is not
\* corrected when one is deleted (rtp_send_bye resets it without the flags when it
\* waits: a session that goes on after that is excepted).
EverySenderReported == [][SendCtrl /\ ~sendingBye => \A s \in sender : <<Me, s>> \in rr']_sourceVars

-----------------------------------------------------------------------------
(* The inductive invariant                                                   *)

\* The links in both directions agree, each chain has its own sources, and
\* going back from any of them comes to an end.
Linked(t) ==
  /\ \A h \in Buckets : t.db[h] # Null =>
       /\ t.db[h] \in t.kept /\ SsrcHash(t.db[h]) = h
       /\ t.prev[t.db[h]] = Null
  /\ \A s \in t.kept : t.prev[s] = Null => t.db[SsrcHash(s)] = s
  /\ \A s \in t.kept : t.prev[s] # Null => t.prev[s] \in t.kept /\ t.next[t.prev[s]] = s
  /\ \A s \in t.kept : t.next[s] # Null =>
       /\ t.next[s] \in t.kept /\ SsrcHash(t.next[s]) = SsrcHash(s)
       /\ t.prev[t.next[s]] = s
  /\ \A S \in SUBSET t.kept : S # {} => \E s \in S : t.prev[s] \notin S

\* Our source is there and the last of its chain.
MeIsLast(t) == Me \in t.kept /\ t.next[Me] = Null

\* The types, the links, what is counted, told and reported, and our source, until
\* it is lost.  Unless rtp_send_bye has reset it, the count of the senders is at least
\* their number, so that the reports do not stop before the last of them.
RtpInv ==
  /\ RtpTypeOK /\ Linked(table)
  /\ count = Cardinality(table.kept) /\ told = table.kept \ {Me}
  /\ ReportsOfKnown
  /\ stage = "done" => Cardinality(table.kept) <= IF lost THEN 1 ELSE 0
  /\ stage # "done" /\ ~lost => MeIsLast(table)
  /\ stage # "done" /\ ~sendingBye => Cardinality(sender) <= senders
=============================================================================
