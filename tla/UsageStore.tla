----------------------------- MODULE UsageStore -----------------------------
(***************************************************************************)
(* usage.Store, the analytics database, with its users: the request        *)
(* handlers that call Record, the asynchronous writer, the purge timer,    *)
(* PUT /settings/analytics and DELETE /analytics/data, and main, which     *)
(* opens and closes it.  A transaction is one action; what a goroutine     *)
(* does between two of them is an action of its own.                       *)
(*                                                                         *)
(* An event is the id of its request and the day of OccurredAt; which      *)
(* events have root and evidence rows is fixed by Detailed.  Of the        *)
(* settings the two text switches are left out: no caller fills in a text. *)
(***************************************************************************)
EXTENDS Integers, Sequences, FiniteSets, SequencesExt

CONSTANTS
  Requests,    \* each calls Record at most once
  Detailed,    \* the requests whose events carry roots or evidence
  Admins,      \* handlers of PUT /settings/analytics
  FlagDays,    \* -telemetry-retention-days
  DayChoices,  \* what an administrator may ask for, 0 is unlimited
  DefaultDays, \* what a negative number of days stands for (90)
  QueueSize,   \* 256
  BatchSize,   \* 64
  MaxDay,      \* bound on the calendar
  Loads,       \* bound: a behaviour has the requests and PUTs of one load
  MaxOpens,    \* bound on the runs of the process
  NoRow, NoMeta, NoCutoff

ASSUME UsageAssumption ==
  /\ Detailed \subseteq Requests
  /\ FlagDays \in Int /\ DayChoices \subseteq Int /\ DefaultDays \in Nat
  /\ Loads \subseteq [requests : SUBSET Requests, puts : Nat]
  /\ QueueSize \in Nat \ {0} /\ BatchSize \in Nat \ {0}
  /\ NoRow \notin Nat /\ NoCutoff \notin Int

Settings == [enabled : BOOLEAN, days : Nat]

ASSUME NoMetaAssumption == NoMeta \notin Settings

VARIABLES
  phase,    \* of the process and its Store
  meta,     \* usage_meta
  cfg,      \* Store.cfg
  rows,     \* request_events: the day of the request's row
  details,  \* the requests with rows in request_roots or evidence_events
  calls,    \* the calls of Record
  queue,    \* asyncWriter.ch
  batch,    \* the writer's events that are not yet in the database
  writer,   \* where asyncWriter.loop is
  drops,    \* Store.drops
  edits,    \* the handlers of PUT /settings/analytics
  cutoff,   \* of a purge between its two steps
  today,
  crossed,  \* not in the code: the last save was committed while another was
            \* committed and not yet assigned
  puts,     \* PUT requests to come
  opens

process == <<phase, opens>>
settings == <<meta, cfg, edits, crossed, puts>>
tables == <<rows, details>>
pipeline == <<calls, queue, batch, writer, drops>>
purge == <<cutoff, today>>
vars == <<process, settings, tables, pipeline, purge>>

NoSettings == [enabled |-> FALSE, days |-> 0]
NoEdit == [at |-> "idle"]
Edit == [at : {"merged", "committed"}, new : Settings] \cup {NoEdit}
Event == [id : Requests, day : Nat]
At(stage) == [at |-> stage]
Call == [at : {"new", "done", "late"}] \cup [at : {"checked"}, day : Nat]

TypeOK ==
  /\ phase \in {"down", "up", "closing", "closed", "off"}
  /\ meta \in Settings \cup {NoMeta} /\ cfg \in Settings
  /\ rows \in [Requests -> Nat \cup {NoRow}]
  /\ details \in SUBSET Requests
  /\ calls \in [Requests -> Call]
  /\ queue \in Seq(Event) /\ Len(queue) <= QueueSize
  /\ batch \in Seq(Event) /\ Len(batch) <= BatchSize
  /\ writer \in {"none", "loop", "drain", "last", "ended"}
  /\ drops \in Nat
  /\ edits \in [Admins -> Edit] /\ crossed \in BOOLEAN
  /\ cutoff \in Int \cup {NoCutoff}
  /\ today \in Nat /\ puts \in Nat /\ opens \in Nat

Init ==
  /\ phase = "down" /\ opens = 0
  /\ meta = NoMeta /\ cfg = NoSettings
  /\ edits = [a \in Admins |-> NoEdit] /\ crossed = FALSE
  /\ rows = [r \in Requests |-> NoRow] /\ details = {}
  /\ \E load \in Loads :
       /\ puts = load.puts
       /\ calls = [r \in Requests |-> At(IF r \in load.requests THEN "new" ELSE "done")]
  /\ queue = <<>> /\ batch = <<>> /\ writer = "none" /\ drops = 0
  /\ cutoff = NoCutoff /\ today = 0
-----------------------------------------------------------------------------
(* The tables.                                                             *)

DbOpen == phase \in {"up", "closing"}

\* Mutated form: the rows of request_roots and evidence_events stay.
DeleteRequestsOnly(gone) ==
  /\ rows' = [r \in Requests |-> IF r \in gone THEN NoRow ELSE rows[r]]
  /\ UNCHANGED details

Delete(gone) ==
  /\ rows' = [r \in Requests |-> IF r \in gone THEN NoRow ELSE rows[r]]
  /\ details' = details \ gone

Before(day) == {r \in Requests : rows[r] # NoRow /\ rows[r] < day}

\* insertBatch: insertOne replaces the row of its request and its details.
Insert(events) ==
  LET ids == {e.id : e \in events}
  IN  /\ rows' = [r \in Requests |-> IF r \in ids THEN (CHOOSE e \in events : e.id = r).day
                                    ELSE rows[r]]
      /\ details' = (details \ ids) \cup (ids \cap Detailed)
-----------------------------------------------------------------------------
(* Open and Close.                                                         *)

Normal(days) == IF days < 0 THEN DefaultDays ELSE days

\* normalizeConfig enables what -telemetry does not turn off.
FromFlags == [enabled |-> TRUE, days |-> Normal(FlagDays)]

\* Mutated form: the flags win.
PersistedIgnored == FromFlags

\* The persisted settings win over the flags, which fill in a new database.
Persisted == IF meta = NoMeta THEN FromFlags ELSE meta

\* Open, with the first purge, whose error is dropped; cli is -telemetry=off.
Open(cli) ==
  /\ phase = "down" /\ opens < MaxOpens
  /\ opens' = opens + 1
  /\ IF cli
     THEN /\ phase' = "off" /\ cfg' = [enabled |-> FALSE, days |-> Normal(FlagDays)]
          /\ UNCHANGED <<meta, writer, tables>>
     ELSE /\ phase' = "up" /\ meta' = (IF meta = NoMeta THEN FromFlags ELSE meta)
          /\ cfg' = Persisted
          /\ writer' = "loop"
          /\ \/ Persisted.days > 0 /\ Delete(Before(today - Persisted.days))
             \/ UNCHANGED tables
  /\ UNCHANGED <<edits, crossed, puts, calls, queue, batch, drops, purge>>

\* Store.Close up to the wait for the writer.
Close ==
  /\ phase \in {"up", "off"}
  /\ phase' = IF phase = "up" THEN "closing" ELSE "closed"
  /\ UNCHANGED <<opens, settings, tables, pipeline, purge>>

\* The wait ends with the writer or after a second.
CloseDb ==
  /\ phase = "closing"
  /\ phase' = "closed"
  /\ UNCHANGED <<opens, settings, tables, pipeline, purge>>

\* The end of the process, with whatever it held in memory.
Stop ==
  /\ phase' = "down"
  /\ calls' = [r \in Requests |->
                IF calls[r] = At("new") THEN calls[r] ELSE At("done")]
  /\ queue' = <<>> /\ batch' = <<>> /\ writer' = "none" /\ drops' = 0
  /\ cfg' = NoSettings /\ edits' = [a \in Admins |-> NoEdit] /\ crossed' = FALSE
  /\ cutoff' = NoCutoff
  /\ UNCHANGED <<opens, meta, puts, tables, today>>

Exit == phase = "closed" /\ Stop
Crash == phase \in {"up", "closing", "off"} /\ Stop
-----------------------------------------------------------------------------
(* Record.                                                                 *)

Enabled == phase = "up" /\ cfg.enabled

\* Record up to the enqueue; OccurredAt is the day of the request.
Check(r) ==
  /\ phase # "down" /\ calls[r] = At("new")
  /\ calls' = [calls EXCEPT ![r] = IF Enabled THEN [at |-> "checked", day |-> today]
                                              ELSE At("done")]
  /\ UNCHANGED <<process, settings, tables, queue, batch, writer, drops, purge>>

\* Mutated form: the channel has no capacity.
EnqueueUnbounded(r) ==
  /\ calls[r].at = "checked"
  /\ calls' = [calls EXCEPT ![r] = At(IF phase = "up" THEN "done" ELSE "late")]
  /\ queue' = Append(queue, [id |-> r, day |-> calls[r].day])
  /\ UNCHANGED <<process, settings, tables, batch, writer, drops, purge>>

\* asyncWriter.enqueue.  late marks an event that was not queued before Close.
Enqueue(r) ==
  /\ calls[r].at = "checked"
  /\ calls' = [calls EXCEPT ![r] = At(IF phase = "up" THEN "done" ELSE "late")]
  /\ IF Len(queue) < QueueSize
     THEN queue' = Append(queue, [id |-> r, day |-> calls[r].day]) /\ UNCHANGED drops
     ELSE drops' = drops + 1 /\ UNCHANGED queue
  /\ UNCHANGED <<process, settings, tables, batch, writer, purge>>

-----------------------------------------------------------------------------
(* asyncWriter.loop: a full batch is flushed before the next select.       *)

Take ==
  /\ writer \in {"loop", "drain"}
  /\ Len(batch) < BatchSize /\ queue # <<>>
  /\ batch' = Append(batch, Head(queue))
  /\ queue' = Tail(queue)
  /\ UNCHANGED <<process, settings, tables, calls, writer, drops, purge>>

SeeDone ==
  /\ writer = "loop" /\ phase \in {"closing", "closed"}
  /\ Len(batch) < BatchSize
  /\ writer' = "drain"
  /\ UNCHANGED <<process, settings, tables, calls, queue, batch, drops, purge>>

\* Mutated form: the loop leaves when it sees done.
DrainedAtOnce ==
  /\ writer = "drain" /\ Len(batch) < BatchSize
  /\ writer' = "last"
  /\ UNCHANGED <<process, settings, tables, calls, queue, batch, drops, purge>>

\* The default case of the drain: the queue is empty, one flush is left.
Drained ==
  /\ writer = "drain" /\ queue = <<>> /\ Len(batch) < BatchSize
  /\ writer' = "last"
  /\ UNCHANGED <<process, settings, tables, calls, queue, batch, drops, purge>>

\* Mutated form: without the ticker.
FlushDueWhenFull ==
  \/ batch # <<>> /\ Len(batch) >= BatchSize
  \/ writer = "last"

\* flush is due when the batch is full, at the end of the drain, and, in the
\* loop, at any tick.
FlushDue ==
  \/ batch # <<>> /\ (writer = "loop" \/ Len(batch) >= BatchSize)
  \/ writer = "last"

\* A batch that fails is discarded like one that was written.
Flush(ok) ==
  /\ FlushDue
  /\ ok => DbOpen
  /\ IF ok THEN Insert(ToSet(batch)) ELSE UNCHANGED tables
  /\ batch' = <<>>
  /\ writer' = IF writer = "last" THEN "ended" ELSE writer
  /\ UNCHANGED <<process, settings, calls, queue, drops, purge>>
-----------------------------------------------------------------------------
(* Retention and deletion.                                                 *)

\* The timer of retentionLoop, and PurgeExpired up to its transaction.
PurgeBegins ==
  /\ phase = "up" /\ cutoff = NoCutoff
  /\ cfg.days > 0
  /\ cutoff' = today - cfg.days
  /\ UNCHANGED <<process, settings, tables, pipeline, today>>

PurgeEnds(ok) ==
  /\ cutoff # NoCutoff
  /\ ok => DbOpen
  /\ IF ok THEN Delete(Before(cutoff)) ELSE UNCHANGED tables
  /\ cutoff' = NoCutoff
  /\ UNCHANGED <<process, settings, pipeline, today>>

ClearAll ==
  /\ DbOpen
  /\ Delete(Requests)
  /\ UNCHANGED <<process, settings, pipeline, purge>>

NextDay ==
  /\ today < MaxDay
  /\ today' = today + 1
  /\ UNCHANGED <<process, settings, tables, pipeline, cutoff>>
-----------------------------------------------------------------------------
(* PUT /settings/analytics: read the configuration, UpdateSettings'        *)
(* transaction, its assignment.                                            *)

\* A field that the body does not name keeps the value that was read.
Merged ==
  [enabled : BOOLEAN, days : {cfg.days} \cup {Normal(d) : d \in DayChoices}]

Merge(a) ==
  /\ phase \in {"up", "closing"} /\ edits[a] = NoEdit /\ puts > 0
  /\ puts' = puts - 1
  /\ \E new \in Merged : edits' = [edits EXCEPT ![a] = [at |-> "merged", new |-> new]]
  /\ UNCHANGED <<process, meta, cfg, crossed, tables, pipeline, purge>>

\* Saves whose configuration is committed and not yet the one in memory.
Underway == {a \in Admins : edits[a].at = "committed"}

Commit(a, ok) ==
  /\ edits[a].at = "merged"
  /\ ok => DbOpen
  /\ IF ok
     THEN /\ meta' = edits[a].new /\ edits' = [edits EXCEPT ![a].at = "committed"]
          /\ crossed' = (Underway # {})
     ELSE edits' = [edits EXCEPT ![a] = NoEdit] /\ UNCHANGED <<meta, crossed>>
  /\ UNCHANGED <<process, cfg, puts, tables, pipeline, purge>>

Assign(a) ==
  /\ edits[a].at = "committed"
  /\ cfg' = edits[a].new
  /\ edits' = [edits EXCEPT ![a] = NoEdit]
  /\ UNCHANGED <<process, meta, crossed, puts, tables, pipeline, purge>>
-----------------------------------------------------------------------------
Writes == Take \/ SeeDone \/ Drained \/ \E ok \in BOOLEAN : Flush(ok)

Next ==
  \/ \E cli \in BOOLEAN : Open(cli)
  \/ Close \/ CloseDb \/ Exit \/ Crash
  \/ \E r \in Requests : Check(r) \/ Enqueue(r)
  \/ Writes
  \/ PurgeBegins \/ ClearAll \/ NextDay
  \/ \E ok \in BOOLEAN : PurgeEnds(ok)
  \/ \E a \in Admins : Merge(a) \/ Assign(a) \/ \E ok \in BOOLEAN : Commit(a, ok)

\* The scheduler runs the writer and its ticker; the wait of Close is timed,
\* and main returns after it.
Fairness ==
  /\ WF_vars(Take) /\ WF_vars(SeeDone) /\ WF_vars(Drained)
  /\ WF_vars(\E ok \in BOOLEAN : Flush(ok))
  /\ WF_vars(CloseDb) /\ WF_vars(Exit)

Spec == Init /\ [][Next]_vars /\ Fairness
-----------------------------------------------------------------------------
(* Every transaction takes the rows of request_roots and evidence_events   *)
(* with the request's row: neither table keeps rows of a request that is   *)
(* not there, whatever batches, purges, clears and crashes interleave.     *)
DetailsHaveRequest == \A r \in details : rows[r] # NoRow

(* An orderly stop leaves nothing behind that was queued before it: once   *)
(* the writer has ended, only events that their callers queued after Close *)
(* had begun are still in the channel.                                     *)
StopDrainsQueue ==
  writer = "ended" => batch = <<>> /\ \A e \in ToSet(queue) : calls[e.id] = At("late")

(* The settings page persists what it saves: the configuration in memory   *)
(* is the persisted one, through failed saves, saves that overlap one that *)
(* has not committed, and restarts.  The limit is two saves that cross: as *)
(* each commits first and assigns later, the older may be assigned last,   *)
(* and memory then differs from usage_meta until the next save that        *)
(* crosses none, or the next start.                                        *)
SettingsArePersisted ==
  phase = "up" /\ Underway = {} /\ ~ crossed => cfg = meta

Ids(events) == [i \in DOMAIN events |-> events[i].id]

Log == INSTANCE EventLog WITH
         pending <- Ids(batch \o queue),
         stored <- {r \in Requests : rows[r] # NoRow}

(* The queue, the writer and the tables implement the log: order, no       *)
(* duplicates, all-or-nothing batches, and no event that waits forever.    *)
ImplementsEventLog == Log!Spec
=============================================================================
