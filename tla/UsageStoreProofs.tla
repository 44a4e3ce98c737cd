-------------------------- MODULE UsageStoreProofs --------------------------
(***************************************************************************)
(* Proofs about UsageStore: an orderly stop leaves nothing of the queue    *)
(* behind, no detail row is an orphan, and the queue, the writer and the   *)
(* tables implement the safety part of EventLog.                           *)
(***************************************************************************)
EXTENDS UsageStore, SequenceTheorems, TLAPS

\* The writer leaves its loop only once Close has begun.
WriterFollowsClose ==
  writer \in {"drain", "last", "ended"} => phase \in {"closing", "closed"}

\* After the drain the channel holds late events only.
DrainedIsLate ==
  /\ writer \in {"last", "ended"} => \A e \in ToSet(queue) : calls[e.id] = At("late")
  /\ writer = "ended" => batch = <<>>

\* A request that has not enqueued its event is nowhere else.
NotYetRecorded ==
  \A r \in Requests : calls[r].at \in {"new", "checked"} =>
    rows[r] = NoRow /\ \A e \in ToSet(batch) \cup ToSet(queue) : e.id # r

UInv ==
  /\ TypeOK /\ DetailsHaveRequest
  /\ WriterFollowsClose /\ DrainedIsLate /\ NotYetRecorded
-----------------------------------------------------------------------------
(* Sequences as sets.                                                      *)
LEMMA ToSetAppend ==
  ASSUME NEW S, NEW q \in Seq(S), NEW e \in S
  PROVE  ToSet(Append(q, e)) = ToSet(q) \cup {e}
  BY AppendProperties, LenProperties DEF ToSet

LEMMA ToSetHeadTail ==
  ASSUME NEW S, NEW q \in Seq(S), q # <<>>
  PROVE  ToSet(q) = {Head(q)} \cup ToSet(Tail(q))
<1>1. /\ Len(q) \in Nat \ {0} /\ Tail(q) \in Seq(S) /\ Len(Tail(q)) = Len(q) - 1
      /\ Head(q) = q[1] /\ \A i \in 1 .. Len(Tail(q)) : Tail(q)[i] = q[i + 1]
  BY EmptySeq, HeadTailProperties
<1>2. DOMAIN q = 1 .. Len(q) /\ DOMAIN Tail(q) = 1 .. Len(Tail(q))
  BY <1>1, LenProperties
<1>3. \A i \in 1 .. Len(q) : i = 1 \/ \E k \in 1 .. Len(Tail(q)) : i = k + 1
  <2>1. \A i \in 1 .. Len(q) : i # 1 => i - 1 \in 1 .. Len(Tail(q)) /\ i = (i - 1) + 1
    BY <1>1
  <2> QED
    BY <2>1
<1>4. ASSUME NEW i \in 1 .. Len(q)
      PROVE  q[i] \in {Head(q)} \cup ToSet(Tail(q))
  <2>1. CASE i = 1
    BY <1>1, <2>1
  <2>2. ASSUME NEW k \in 1 .. Len(Tail(q)), i = k + 1
        PROVE  q[i] \in ToSet(Tail(q))
    <3>1. q[i] = Tail(q)[k] /\ k \in DOMAIN Tail(q)
      BY <1>1, <1>2, <2>2
    <3> QED
      BY <3>1, Zenon DEF ToSet
  <2> QED
    BY <1>3, <2>1, <2>2
<1>5. \A i \in 1 .. Len(Tail(q)) : i + 1 \in 1 .. Len(q)
  BY <1>1
<1>6. ToSet(Tail(q)) \subseteq ToSet(q) /\ Head(q) \in ToSet(q)
  BY <1>1, <1>2, <1>5 DEF ToSet
<1> QED
  BY <1>2, <1>4, <1>6 DEF ToSet

LEMMA ToSetTypes ==
  ASSUME NEW S, NEW q \in Seq(S)
  PROVE  ToSet(q) \subseteq S
  BY LenProperties DEF ToSet

LEMMA ToSetEmpty == ToSet(<<>>) = {}
  BY DEF ToSet
-----------------------------------------------------------------------------
(* What the transactions do to the tables.                                 *)
LEMMA DeleteTables ==
  ASSUME TypeOK, DetailsHaveRequest, NEW gone \in SUBSET Requests, Delete(gone)
  PROVE  /\ rows' \in [Requests -> Nat \cup {NoRow}] /\ details' \in SUBSET Requests
         /\ DetailsHaveRequest'
         /\ \A r \in Requests : rows'[r] \in {rows[r], NoRow}
  BY DEF TypeOK, DetailsHaveRequest, Delete

LEMMA InsertTables ==
  ASSUME TypeOK, DetailsHaveRequest, NEW events \in SUBSET Event, Insert(events)
  PROVE  /\ rows' \in [Requests -> Nat \cup {NoRow}] /\ details' \in SUBSET Requests
         /\ DetailsHaveRequest'
         /\ \A r \in Requests : IF \E e \in events : e.id = r
                                  THEN rows'[r] # NoRow ELSE rows'[r] = rows[r]
<1> DEFINE ids == {e.id : e \in events}
           Of(r) == CHOOSE e \in events : e.id = r
<1>1. /\ rows' = [r \in Requests |-> IF r \in ids THEN Of(r).day ELSE rows[r]]
      /\ details' = (details \ ids) \cup (ids \cap Detailed)
  BY DEF Insert
<1>2. \A r \in ids : \E e \in events : e.id = r
  OBVIOUS
<1>3. \A r \in ids : Of(r) \in events
  BY <1>2, Zenon
<1> HIDE DEF Of
<1>4. \A r \in ids : Of(r).day \in Nat /\ Of(r).day # NoRow
  BY <1>3, UsageAssumption DEF Event
<1>5. ids \subseteq Requests
  BY DEF Event
<1>6. \A r \in Requests : r \in ids <=> \E e \in events : e.id = r
  OBVIOUS
<1> HIDE DEF ids
<1>7. /\ rows' \in [Requests -> Nat \cup {NoRow}]
      /\ \A r \in Requests : IF r \in ids THEN rows'[r] # NoRow ELSE rows'[r] = rows[r]
  BY <1>1, <1>4 DEF TypeOK
<1>8. details' \in SUBSET Requests /\ DetailsHaveRequest'
  BY <1>1, <1>5, <1>7 DEF TypeOK, DetailsHaveRequest
<1> QED
  BY <1>6, <1>7, <1>8

LEMMA SettingsTypes ==
  /\ NoSettings \in Settings /\ FromFlags \in Settings
  /\ [enabled |-> FALSE, days |-> Normal(FlagDays)] \in Settings
  /\ TypeOK => Persisted \in Settings /\ Merged \subseteq Settings
<1>1. \A d \in Int : Normal(d) \in Nat
  BY UsageAssumption DEF Normal
<1>2. FlagDays \in Int /\ DayChoices \subseteq Int
  BY UsageAssumption
<1>3. FromFlags \in Settings /\ [enabled |-> FALSE, days |-> Normal(FlagDays)] \in Settings
  BY <1>1, <1>2 DEF FromFlags, Settings
<1>4. TypeOK => Persisted \in Settings
  BY <1>3 DEF TypeOK, Persisted
<1>5. TypeOK => Merged \subseteq Settings
  BY <1>1, <1>2 DEF TypeOK, Merged, Settings
<1> QED
  BY <1>3, <1>4, <1>5 DEF NoSettings, Settings
-----------------------------------------------------------------------------
LEMMA InitUInv ==
  ASSUME Init
  PROVE  UInv
<1>1. <<>> \in Seq(Event) /\ Len(<<>>) = 0
  BY EmptySeq
<1>2. puts \in Nat /\ calls \in [Requests -> Call]
  <2>1. PICK load \in Loads :
          /\ puts = load.puts
          /\ calls = [r \in Requests |-> At(IF r \in load.requests THEN "new" ELSE "done")]
    BY DEF Init
  <2>2. load.puts \in Nat
    BY UsageAssumption
  <2>3. At("new") \in Call /\ At("done") \in Call
    BY DEF Call, At
  <2> QED
    BY <2>1, <2>2, <2>3
<1>3. TypeOK
  <2>1. /\ phase = "down" /\ opens = 0 /\ meta = NoMeta /\ cfg = NoSettings
        /\ crossed = FALSE /\ queue = <<>> /\ batch = <<>> /\ writer = "none" /\ drops = 0
        /\ cutoff = NoCutoff /\ today = 0 /\ details = {}
    BY DEF Init
  <2>2. rows \in [Requests -> Nat \cup {NoRow}] /\ edits \in [Admins -> Edit]
    BY DEF Init, Edit
  <2>3. /\ phase \in {"down", "up", "closing", "closed", "off"}
        /\ meta \in Settings \cup {NoMeta} /\ cfg \in Settings
        /\ details \in SUBSET Requests
        /\ writer \in {"none", "loop", "drain", "last", "ended"}
        /\ drops \in Nat /\ crossed \in BOOLEAN
        /\ cutoff \in Int \cup {NoCutoff} /\ today \in Nat /\ opens \in Nat
    BY <2>1, SettingsTypes
  <2>4. /\ queue \in Seq(Event) /\ Len(queue) <= QueueSize
        /\ batch \in Seq(Event) /\ Len(batch) <= BatchSize
    BY <1>1, <2>1, UsageAssumption
  <2> QED
    BY <1>2, <2>2, <2>3, <2>4 DEF TypeOK
<1> QED
  BY <1>3, ToSetEmpty DEF Init, UInv, DetailsHaveRequest, WriterFollowsClose,
                          DrainedIsLate, NotYetRecorded

(* The types are kept, and no transaction leaves an orphan.                *)
LEMMA StepTypes ==
  ASSUME TypeOK, DetailsHaveRequest, [Next]_vars
  PROVE  TypeOK' /\ DetailsHaveRequest'
<1> USE DEF process, settings, tables, pipeline, purge
<1> DEFINE Goal == TypeOK' /\ DetailsHaveRequest'
<1>a. Before(today) \in SUBSET Requests /\ \A c \in Int : Before(c) \in SUBSET Requests
  BY DEF Before
<1>b. <<>> \in Seq(Event) /\ Len(<<>>) = 0 /\ QueueSize \in Nat /\ BatchSize \in Nat
  BY EmptySeq, UsageAssumption
<1>1. ASSUME NEW cli \in BOOLEAN, Open(cli)
      PROVE  Goal
  <2>1. rows' \in [Requests -> Nat \cup {NoRow}] /\ details' \in SUBSET Requests
        /\ DetailsHaveRequest'
    <3>1. CASE UNCHANGED tables
      BY <3>1 DEF TypeOK, DetailsHaveRequest
    <3>2. CASE Delete(Before(today - Persisted.days))
      <4>1. Before(today - Persisted.days) \in SUBSET Requests
        BY DEF Before
      <4> QED
        BY <3>2, <4>1, DeleteTables
    <3> QED
      BY <1>1, <3>1, <3>2 DEF Open
  <2>2. cfg' \in Settings /\ meta' \in Settings \cup {NoMeta}
    BY <1>1, SettingsTypes DEF Open, TypeOK
  <2> QED
    BY <1>1, <2>1, <2>2 DEF Open, TypeOK
<1>2. CASE Close \/ CloseDb
  BY <1>2 DEF Close, CloseDb, TypeOK, DetailsHaveRequest
<1>3. CASE Stop
  <2>1. At("done") \in Call
    BY DEF Call, At
  <2>2. calls' \in [Requests -> Call]
    BY <1>3, <2>1 DEF Stop, TypeOK
  <2>3. edits' \in [Admins -> Edit] /\ crossed' \in BOOLEAN
    BY <1>3 DEF Stop, Edit
  <2> QED
    BY <1>3, <1>b, <2>2, <2>3, SettingsTypes DEF Stop, TypeOK, DetailsHaveRequest
<1>4. ASSUME NEW r \in Requests, Check(r)
      PROVE  Goal
  <2>1. [at |-> "checked", day |-> today] \in Call /\ At("done") \in Call
    BY DEF TypeOK, Call, At
  <2> QED
    BY <1>4, <2>1 DEF Check, TypeOK, DetailsHaveRequest
<1>5. ASSUME NEW r \in Requests, Enqueue(r)
      PROVE  Goal
  <2>1. calls[r].day \in Nat
    BY <1>5 DEF Enqueue, TypeOK, Call
  <2> DEFINE e == [id |-> r, day |-> calls[r].day]
  <2>2. e \in Event
    BY <2>1 DEF Event
  <2> HIDE DEF e
  <2>3. Append(queue, e) \in Seq(Event) /\ Len(Append(queue, e)) = Len(queue) + 1
    BY <2>2, AppendProperties DEF TypeOK
  <2>4. queue' \in Seq(Event) /\ Len(queue') <= QueueSize
    <3>1. Len(queue) \in Nat
      BY LenProperties DEF TypeOK
    <3>2. \/ queue' = queue
          \/ Len(queue) < QueueSize /\ queue' = Append(queue, e)
      BY <1>5 DEF Enqueue, e
    <3> QED
      BY <1>b, <2>3, <3>1, <3>2 DEF TypeOK
  <2>5. At("done") \in Call /\ At("late") \in Call
    BY DEF Call, At
  <2> QED
    BY <1>5, <2>4, <2>5 DEF Enqueue, TypeOK, DetailsHaveRequest
<1>6. CASE Take
  <2>1. /\ queue \in Seq(Event) /\ queue # <<>> /\ batch \in Seq(Event)
        /\ Len(queue) <= QueueSize /\ Len(batch) < BatchSize
    BY <1>6 DEF Take, TypeOK
  <2>2. Head(queue) \in Event /\ Tail(queue) \in Seq(Event) /\ Len(Tail(queue)) = Len(queue) - 1
    BY <2>1, HeadTailProperties
  <2>3. Append(batch, Head(queue)) \in Seq(Event)
        /\ Len(Append(batch, Head(queue))) = Len(batch) + 1
    BY <2>1, <2>2, AppendProperties
  <2>4. Len(queue) \in Nat /\ Len(batch) \in Nat
    BY <2>1, LenProperties
  <2>5. queue' \in Seq(Event) /\ Len(queue') <= QueueSize
    BY <1>6, <1>b, <2>1, <2>2, <2>4 DEF Take
  <2>6. batch' \in Seq(Event) /\ Len(batch') <= BatchSize
    BY <1>6, <1>b, <2>1, <2>3, <2>4 DEF Take
  <2> QED
    BY <1>6, <2>5, <2>6 DEF Take, TypeOK, DetailsHaveRequest
<1>7. CASE SeeDone \/ Drained
  BY <1>7 DEF SeeDone, Drained, TypeOK, DetailsHaveRequest
<1>8. ASSUME NEW ok \in BOOLEAN, Flush(ok)
      PROVE  Goal
  <2>1. rows' \in [Requests -> Nat \cup {NoRow}] /\ details' \in SUBSET Requests
        /\ DetailsHaveRequest'
    <3>1. CASE UNCHANGED tables
      BY <3>1 DEF TypeOK, DetailsHaveRequest
    <3>2. CASE Insert(ToSet(batch))
      <4>1. ToSet(batch) \in SUBSET Event
        BY ToSetTypes DEF TypeOK
      <4> QED
        BY <3>2, <4>1, InsertTables
    <3> QED
      BY <1>8, <3>1, <3>2 DEF Flush
  <2> QED
    BY <1>8, <1>b, <2>1 DEF Flush, TypeOK
<1>9. CASE PurgeBegins
  BY <1>9 DEF PurgeBegins, TypeOK, Settings, DetailsHaveRequest
<1>10. ASSUME NEW ok \in BOOLEAN, PurgeEnds(ok)
       PROVE  Goal
  <2>1. rows' \in [Requests -> Nat \cup {NoRow}] /\ details' \in SUBSET Requests
        /\ DetailsHaveRequest'
    <3>1. CASE UNCHANGED tables
      BY <3>1 DEF TypeOK, DetailsHaveRequest
    <3>2. CASE Delete(Before(cutoff))
      <4>1. Before(cutoff) \in SUBSET Requests
        BY DEF Before
      <4> QED
        BY <3>2, <4>1, DeleteTables
    <3> QED
      BY <1>10, <3>1, <3>2 DEF PurgeEnds
  <2> QED
    BY <1>10, <2>1 DEF PurgeEnds, TypeOK
<1>11. CASE ClearAll
  <2>1. rows' \in [Requests -> Nat \cup {NoRow}] /\ details' \in SUBSET Requests
        /\ DetailsHaveRequest'
    BY <1>11, DeleteTables DEF ClearAll
  <2> QED
    BY <1>11, <2>1 DEF ClearAll, TypeOK
<1>12. CASE NextDay
  BY <1>12 DEF NextDay, TypeOK, DetailsHaveRequest
<1>13. ASSUME NEW a \in Admins, Merge(a)
       PROVE  Goal
  BY <1>13, SettingsTypes DEF Merge, TypeOK, Edit, DetailsHaveRequest
<1>14. ASSUME NEW a \in Admins, NEW ok \in BOOLEAN, Commit(a, ok)
       PROVE  Goal
  <2>1. edits[a].new \in Settings
    BY <1>14 DEF Commit, TypeOK, Edit, NoEdit
  <2>2. edits' \in [Admins -> Edit]
    BY <1>14 DEF Commit, TypeOK, Edit, NoEdit
  <2> QED
    BY <1>14, <2>1, <2>2 DEF Commit, TypeOK, DetailsHaveRequest
<1>15. ASSUME NEW a \in Admins, Assign(a)
       PROVE  Goal
  <2>1. edits[a].new \in Settings
    BY <1>15 DEF Assign, TypeOK, Edit, NoEdit
  <2>2. edits' \in [Admins -> Edit]
    BY <1>15 DEF Assign, TypeOK, Edit
  <2> QED
    BY <1>15, <2>1, <2>2 DEF Assign, TypeOK, DetailsHaveRequest
<1>16. CASE UNCHANGED vars
  BY <1>16 DEF vars, TypeOK, DetailsHaveRequest
<1> QED
  BY <1>1, <1>2, <1>3, <1>4, <1>5, <1>6, <1>7, <1>8, <1>9, <1>10, <1>11, <1>12, <1>13,
     <1>14, <1>15, <1>16 DEF Next, Writes, Exit, Crash
-----------------------------------------------------------------------------
(* What the drain leaves, and where an event is, whatever step comes next. *)
LEMMA SameChannel ==
  ASSUME WriterFollowsClose, DrainedIsLate, NotYetRecorded,
         UNCHANGED <<calls, queue, batch, writer>>,
         phase' = phase \/ writer \notin {"drain", "last", "ended"} \/ phase' = "closed",
         \A r \in Requests : rows'[r] \in {rows[r], NoRow}
  PROVE  WriterFollowsClose' /\ DrainedIsLate' /\ NotYetRecorded'
<1>1. WriterFollowsClose'
  BY DEF WriterFollowsClose
<1>2. DrainedIsLate'
  BY DEF DrainedIsLate
<1>3. NotYetRecorded'
  BY DEF NotYetRecorded
<1> QED
  BY <1>1, <1>2, <1>3

LEMMA StepChannel ==
  ASSUME TypeOK, DetailsHaveRequest, WriterFollowsClose, DrainedIsLate, NotYetRecorded,
         [Next]_vars
  PROVE  WriterFollowsClose' /\ DrainedIsLate' /\ NotYetRecorded'
<1> USE DEF process, settings, tables, pipeline, purge
<1> DEFINE Goal == WriterFollowsClose' /\ DrainedIsLate' /\ NotYetRecorded'
<1>a. /\ At("new").at = "new" /\ At("done").at = "done" /\ At("late").at = "late"
      /\ queue \in Seq(Event) /\ batch \in Seq(Event)
  BY DEF At, TypeOK
<1>b. ASSUME UNCHANGED <<calls, queue, batch, writer>>,
             phase' = phase \/ writer \notin {"drain", "last", "ended"} \/ phase' = "closed",
             UNCHANGED tables
      PROVE  Goal
  <2>1. \A r \in Requests : rows'[r] \in {rows[r], NoRow}
    BY <1>b
  <2> QED
    BY <1>b, <2>1, SameChannel
<1>1. ASSUME NEW cli \in BOOLEAN, Open(cli)
      PROVE  Goal
  <2>1. \A r \in Requests : rows'[r] \in {rows[r], NoRow}
    BY <1>1 DEF Open, Delete, TypeOK
  <2>2. /\ UNCHANGED <<calls, queue, batch>> /\ writer \notin {"drain", "last", "ended"}
        /\ writer' \in {writer, "loop"}
    BY <1>1 DEF Open, WriterFollowsClose
  <2>3. WriterFollowsClose' /\ DrainedIsLate'
    BY <2>2 DEF WriterFollowsClose, DrainedIsLate
  <2>4. NotYetRecorded'
    BY <2>1, <2>2 DEF NotYetRecorded
  <2> QED
    BY <2>3, <2>4
<1>2. CASE Close \/ CloseDb
  <2>1. writer \notin {"drain", "last", "ended"} \/ phase' = "closed"
    BY <1>2 DEF Close, CloseDb, WriterFollowsClose
  <2> QED
    BY <1>2, <1>b, <2>1 DEF Close, CloseDb
<1>3. CASE Stop
  <2>1. /\ queue' = <<>> /\ batch' = <<>> /\ writer' = "none" /\ UNCHANGED rows
        /\ \A r \in Requests : calls'[r].at \in {"new", "checked"} => calls'[r] = calls[r]
    BY <1>3, <1>a DEF Stop, TypeOK
  <2>2. WriterFollowsClose' /\ DrainedIsLate'
    BY <2>1 DEF WriterFollowsClose, DrainedIsLate
  <2>3. NotYetRecorded'
    BY <2>1, ToSetEmpty DEF NotYetRecorded
  <2> QED
    BY <2>2, <2>3
<1>4. ASSUME NEW r \in Requests, Check(r)
      PROVE  Goal
  <2>1. /\ calls[r].at = "new" /\ UNCHANGED <<phase, rows, queue, batch, writer>>
        /\ \A x \in Requests \ {r} : calls'[x] = calls[x]
    BY <1>4, <1>a DEF Check, TypeOK
  <2>2. \A e \in ToSet(queue) : e.id # r
    BY <2>1 DEF NotYetRecorded
  <2>3. \A e \in ToSet(queue) : e.id \in Requests \ {r}
    BY <1>a, <2>2, ToSetTypes DEF Event
  <2>4. WriterFollowsClose' /\ DrainedIsLate'
    BY <2>1, <2>3 DEF WriterFollowsClose, DrainedIsLate
  <2>5. NotYetRecorded'
    BY <2>1 DEF NotYetRecorded
  <2> QED
    BY <2>4, <2>5
<1>5. ASSUME NEW r \in Requests, Enqueue(r)
      PROVE  Goal
  <2> DEFINE e == [id |-> r, day |-> calls[r].day]
  <2>1. /\ calls[r].at = "checked" /\ UNCHANGED <<phase, rows, batch, writer>>
        /\ calls'[r] = At(IF phase = "up" THEN "done" ELSE "late")
        /\ \A x \in Requests \ {r} : calls'[x] = calls[x]
        /\ \/ queue' = queue
           \/ queue' = Append(queue, e)
    BY <1>5 DEF Enqueue, TypeOK
  <2>2. e \in Event /\ e.id = r
    BY <2>1 DEF TypeOK, Call, Event
  <2> HIDE DEF e
  <2>3. ToSet(queue') \subseteq ToSet(queue) \cup {e}
    <3>1. ToSet(Append(queue, e)) = ToSet(queue) \cup {e}
      BY <1>a, <2>2, ToSetAppend
    <3>2. CASE queue' = queue
      BY <3>2
    <3>3. CASE queue' = Append(queue, e)
      BY <3>1, <3>3
    <3> QED
      BY <2>1, <3>2, <3>3
  <2>4. \A x \in ToSet(queue) : x.id \in Requests
    BY <1>a, ToSetTypes DEF Event
  <2>5. WriterFollowsClose'
    BY <2>1 DEF WriterFollowsClose
  <2>6. writer' \in {"last", "ended"} => calls'[r] = At("late")
    BY <2>1 DEF WriterFollowsClose
  <2>7. DrainedIsLate'
    BY <2>1, <2>2, <2>3, <2>4, <2>6 DEF DrainedIsLate
  <2>8. calls'[r].at \in {"done", "late"}
    BY <1>a, <2>1
  <2>9. NotYetRecorded'
    BY <2>1, <2>2, <2>3, <2>8 DEF NotYetRecorded
  <2> QED
    BY <2>5, <2>7, <2>9
<1>6. CASE Take
  <2>1. /\ UNCHANGED <<phase, rows, calls, writer>> /\ writer \in {"loop", "drain"}
        /\ queue # <<>> /\ queue' = Tail(queue) /\ batch' = Append(batch, Head(queue))
    BY <1>6 DEF Take
  <2>2. /\ ToSet(queue) = {Head(queue)} \cup ToSet(queue')
        /\ ToSet(batch') = ToSet(batch) \cup {Head(queue)}
    <3>1. Head(queue) \in Event
      BY <1>a, <2>1, HeadTailProperties
    <3> QED
      BY <1>a, <2>1, <3>1, ToSetHeadTail, ToSetAppend
  <2>3. WriterFollowsClose' /\ DrainedIsLate'
    BY <2>1 DEF WriterFollowsClose, DrainedIsLate
  <2>4. NotYetRecorded'
    BY <2>1, <2>2 DEF NotYetRecorded
  <2> QED
    BY <2>3, <2>4
<1>7. CASE SeeDone
  <2>1. WriterFollowsClose' /\ DrainedIsLate'
    BY <1>7 DEF SeeDone, WriterFollowsClose, DrainedIsLate
  <2>2. NotYetRecorded'
    BY <1>7 DEF SeeDone, NotYetRecorded
  <2> QED
    BY <2>1, <2>2
<1>8. CASE Drained
  <2>1. WriterFollowsClose'
    BY <1>8 DEF Drained, WriterFollowsClose
  <2>2. DrainedIsLate'
    BY <1>8, ToSetEmpty DEF Drained, DrainedIsLate
  <2>3. NotYetRecorded'
    BY <1>8 DEF Drained, NotYetRecorded
  <2> QED
    BY <2>1, <2>2, <2>3
<1>9. ASSUME NEW ok \in BOOLEAN, Flush(ok)
      PROVE  Goal
  <2>1. /\ UNCHANGED <<phase, calls, queue>> /\ batch' = <<>>
        /\ writer' = IF writer = "last" THEN "ended" ELSE writer
    BY <1>9 DEF Flush
  <2>2. \A r \in Requests : rows'[r] = rows[r] \/ \E e \in ToSet(batch) : e.id = r
    <3>1. CASE UNCHANGED tables
      BY <3>1
    <3>2. CASE Insert(ToSet(batch))
      <4>1. ToSet(batch) \in SUBSET Event
        BY <1>a, ToSetTypes
      <4> QED
        BY <3>2, <4>1, InsertTables
    <3> QED
      BY <1>9, <3>1, <3>2 DEF Flush
  <2>3. WriterFollowsClose' /\ DrainedIsLate'
    BY <2>1 DEF WriterFollowsClose, DrainedIsLate
  <2>4. NotYetRecorded'
    BY <2>1, <2>2, ToSetEmpty DEF NotYetRecorded
  <2> QED
    BY <2>3, <2>4
<1>10. ASSUME NEW ok \in BOOLEAN, PurgeEnds(ok)
       PROVE  Goal
  <2>1. \A r \in Requests : rows'[r] \in {rows[r], NoRow}
    BY <1>10 DEF PurgeEnds, Delete, TypeOK
  <2> QED
    BY <1>10, <2>1, SameChannel DEF PurgeEnds
<1>11. CASE ClearAll
  <2>1. \A r \in Requests : rows'[r] \in {rows[r], NoRow}
    BY <1>11 DEF ClearAll, Delete, TypeOK
  <2> QED
    BY <1>11, <2>1, SameChannel DEF ClearAll
<1>12. CASE PurgeBegins \/ NextDay
  BY <1>12, <1>b DEF PurgeBegins, NextDay
<1>13. ASSUME NEW a \in Admins, NEW ok \in BOOLEAN, Merge(a) \/ Commit(a, ok) \/ Assign(a)
       PROVE  Goal
  BY <1>13, <1>b DEF Merge, Commit, Assign
<1>14. CASE UNCHANGED vars
  BY <1>14, <1>b DEF vars
<1> QED
  BY <1>1, <1>2, <1>3, <1>4, <1>5, <1>6, <1>7, <1>8, <1>9, <1>10, <1>11, <1>12, <1>13,
     <1>14 DEF Next, Writes, Exit, Crash
-----------------------------------------------------------------------------
(* The refinement mapping: the ids of the events on their way, and the     *)
(* requests that have a row.                                               *)
Pending == Ids(batch \o queue)
Stored == {r \in Requests : rows[r] # NoRow}

LEMMA IdsTypes ==
  ASSUME NEW s \in Seq(Event)
  PROVE  /\ Ids(s) \in Seq(Requests) /\ Len(Ids(s)) = Len(s)
         /\ \A i \in 1 .. Len(s) : Ids(s)[i] = s[i].id
<1>1. /\ Len(s) \in Nat /\ DOMAIN s = 1 .. Len(s)
      /\ \A i \in 1 .. Len(s) : s[i] \in Event
  BY LenProperties, ElementOfSeq
<1>2. Ids(s) = [i \in 1 .. Len(s) |-> s[i].id]
  BY <1>1 DEF Ids
<1>3. Ids(s) \in [1 .. Len(s) -> Requests]
  BY <1>1, <1>2 DEF Event
<1>4. Ids(s) \in Seq(Requests)
  BY <1>1, <1>3, SeqDef
<1>5. Len(Ids(s)) = Len(s)
  <2>1. DOMAIN Ids(s) = 1 .. Len(s)
    BY <1>2
  <2>2. DOMAIN Ids(s) = 1 .. Len(Ids(s)) /\ Len(Ids(s)) \in Nat
    BY <1>4, LenProperties
  <2> QED
    BY <1>1, <2>1, <2>2
<1> QED
  BY <1>2, <1>4, <1>5

(* A queued event is pending last, and a taken one where it was.           *)
LEMMA IdsEnqueue ==
  ASSUME NEW b \in Seq(Event), NEW q \in Seq(Event), NEW e \in Event
  PROVE  Ids(b \o Append(q, e)) = Append(Ids(b \o q), e.id)
<1> DEFINE s == b \o q
           t == b \o Append(q, e)
<1>1. Append(q, e) \in Seq(Event) /\ Len(Append(q, e)) = Len(q) + 1
      /\ (\A i \in 1 .. Len(q) : Append(q, e)[i] = q[i]) /\ Append(q, e)[Len(q) + 1] = e
  BY AppendProperties
<1>2. Len(b) \in Nat /\ Len(q) \in Nat
  BY LenProperties
<1>3. /\ s \in Seq(Event) /\ Len(s) = Len(b) + Len(q)
      /\ \A i \in 1 .. Len(b) + Len(q) : s[i] = IF i <= Len(b) THEN b[i] ELSE q[i - Len(b)]
  BY ConcatProperties
<1>4. /\ t \in Seq(Event) /\ Len(t) = Len(b) + Len(Append(q, e))
      /\ \A i \in 1 .. Len(b) + Len(Append(q, e)) :
           t[i] = IF i <= Len(b) THEN b[i] ELSE Append(q, e)[i - Len(b)]
  BY <1>1, ConcatProperties
<1> HIDE DEF s, t
<1>5. Len(t) = Len(s) + 1 /\ t[Len(s) + 1] = e
  BY <1>1, <1>2, <1>3, <1>4
<1>6. ASSUME NEW i \in 1 .. Len(s)
      PROVE  t[i] = s[i]
  <2>1. /\ i \in 1 .. Len(b) + Len(q) /\ i \in 1 .. Len(b) + Len(Append(q, e))
        /\ ~ (i <= Len(b)) => i - Len(b) \in 1 .. Len(q)
    BY <1>1, <1>2, <1>3
  <2> QED
    BY <1>1, <1>3, <1>4, <2>1
<1>7. /\ Ids(s) \in Seq(Requests) /\ Len(Ids(s)) = Len(s) /\ Len(s) \in Nat
      /\ \A i \in 1 .. Len(s) : Ids(s)[i] = s[i].id
      /\ Ids(t) \in Seq(Requests) /\ Len(Ids(t)) = Len(t)
      /\ \A i \in 1 .. Len(t) : Ids(t)[i] = t[i].id
  <2>1. s \in Seq(Event) /\ t \in Seq(Event) /\ Len(s) \in Nat
    BY <1>2, <1>3, <1>4
  <2> QED
    BY <2>1, IdsTypes
<1>8. e.id \in Requests
  BY DEF Event
<1> DEFINE a == Append(Ids(s), e.id)
<1>9. /\ a \in Seq(Requests) /\ Len(a) = Len(s) + 1
      /\ (\A i \in 1 .. Len(s) : a[i] = Ids(s)[i]) /\ a[Len(s) + 1] = e.id
  BY <1>7, <1>8, AppendProperties
<1> HIDE DEF a
<1>10. ASSUME NEW i \in 1 .. Len(Ids(t))
       PROVE  Ids(t)[i] = a[i]
  <2>1. /\ i \in 1 .. Len(t) /\ Ids(t)[i] = t[i].id
        /\ i \in 1 .. Len(s) \/ i = Len(s) + 1
    BY <1>5, <1>7
  <2>2. CASE i \in 1 .. Len(s)
    BY <1>6, <1>7, <1>9, <2>1, <2>2
  <2>3. CASE i = Len(s) + 1
    BY <1>5, <1>9, <2>1, <2>3
  <2> QED
    BY <2>1, <2>2, <2>3
<1>11. Len(Ids(t)) = Len(a)
  BY <1>5, <1>7, <1>9
<1>12. Ids(t) = a
  BY <1>7, <1>9, <1>10, <1>11, SeqEqual
<1> QED
  BY <1>12 DEF a, s, t

LEMMA ConcatTake ==
  ASSUME NEW b \in Seq(Event), NEW q \in Seq(Event), q # <<>>
  PROVE  Append(b, Head(q)) \o Tail(q) = b \o q
<1> DEFINE s == b \o q
           c == Append(b, Head(q))
           t == c \o Tail(q)
<1>1. /\ Head(q) \in Event /\ Tail(q) \in Seq(Event) /\ Len(Tail(q)) = Len(q) - 1
      /\ \A i \in 1 .. Len(q) - 1 : Tail(q)[i] = q[i + 1]
      /\ Head(q) = q[1]
  BY HeadTailProperties
<1>2. Len(b) \in Nat /\ Len(q) \in Nat \ {0}
  BY LenProperties, EmptySeq
<1>3. /\ c \in Seq(Event) /\ Len(c) = Len(b) + 1
      /\ (\A i \in 1 .. Len(b) : c[i] = b[i]) /\ c[Len(b) + 1] = Head(q)
  BY <1>1, AppendProperties
<1>4. /\ s \in Seq(Event) /\ Len(s) = Len(b) + Len(q)
      /\ \A i \in 1 .. Len(b) + Len(q) : s[i] = IF i <= Len(b) THEN b[i] ELSE q[i - Len(b)]
  BY ConcatProperties
<1> HIDE DEF c
<1>5. /\ t \in Seq(Event) /\ Len(t) = Len(c) + Len(Tail(q))
      /\ \A i \in 1 .. Len(c) + Len(Tail(q)) :
           t[i] = IF i <= Len(c) THEN c[i] ELSE Tail(q)[i - Len(c)]
  BY <1>1, <1>3, ConcatProperties
<1> HIDE DEF s, t
<1>6. Len(t) = Len(s)
  BY <1>1, <1>2, <1>3, <1>4, <1>5
<1>7. ASSUME NEW i \in 1 .. Len(t)
      PROVE  t[i] = s[i]
  <2>0. /\ i \in Nat \ {0} /\ i \in 1 .. Len(b) + Len(q)
        /\ i \in 1 .. Len(c) + Len(Tail(q))
    BY <1>1, <1>2, <1>3, <1>4, <1>5, <1>6
  <2>1. CASE i <= Len(b)
    <3>1. i <= Len(c) /\ i \in 1 .. Len(b)
      BY <1>2, <1>3, <2>0, <2>1
    <3>2. t[i] = c[i] /\ s[i] = b[i]
      BY <1>4, <1>5, <2>0, <2>1, <3>1
    <3> QED
      BY <1>3, <3>1, <3>2
  <2>2. CASE i = Len(b) + 1
    <3>1. i <= Len(c) /\ ~ (i <= Len(b)) /\ i - Len(b) = 1
      BY <1>2, <1>3, <2>0, <2>2
    <3>2. t[i] = c[i] /\ s[i] = q[1]
      BY <1>4, <1>5, <2>0, <3>1
    <3> QED
      BY <1>1, <1>3, <2>2, <3>2
  <2>3. CASE i > Len(b) + 1
    <3>1. /\ i - Len(c) \in 1 .. Len(q) - 1
          /\ (i - Len(c)) + 1 = i - Len(b)
          /\ ~ (i <= Len(c)) /\ ~ (i <= Len(b))
      BY <1>2, <1>3, <1>4, <1>6, <2>3
    <3>2. t[i] = Tail(q)[i - Len(c)] /\ s[i] = q[i - Len(b)]
      BY <1>1, <1>2, <1>3, <1>4, <1>5, <1>6, <3>1
    <3> QED
      BY <1>1, <3>1, <3>2
  <2> QED
    BY <1>2, <2>1, <2>2, <2>3
<1>8. t = s
  BY <1>4, <1>5, <1>6, <1>7, SeqEqual
<1> QED
  BY <1>8 DEF s, t, c

(* What is pending, and what a flush takes of it.                          *)
LEMMA PendingFlushed ==
  ASSUME NEW b \in Seq(Event), NEW q \in Seq(Event)
  PROVE  /\ Len(b) \in Nat /\ Len(q) \in Nat /\ Len(Ids(b \o q)) = Len(b) + Len(q)
         /\ Ids(b \o q) \in Seq(Requests)
         /\ Ids(<<>> \o q) = SubSeq(Ids(b \o q), Len(b) + 1, Len(Ids(b \o q)))
         /\ Log!Elements(SubSeq(Ids(b \o q), 1, Len(b))) = {e.id : e \in ToSet(b)}
         /\ Log!Elements(Ids(b \o q)) = {e.id : e \in ToSet(b) \cup ToSet(q)}
<1> DEFINE s == b \o q
           p == Ids(s)
           m == Len(b)
           n == Len(q)
<1>1. m \in Nat /\ n \in Nat
  BY LenProperties
<1>2. /\ s \in Seq(Event) /\ Len(s) = m + n
      /\ \A i \in 1 .. m + n : s[i] = IF i <= m THEN b[i] ELSE q[i - m]
  BY ConcatProperties
<1> HIDE DEF s
<1>3. /\ p \in Seq(Requests) /\ Len(p) = m + n
      /\ \A i \in 1 .. m + n : p[i] = s[i].id
  BY <1>2, IdsTypes
<1>4. <<>> \o q = q /\ Ids(q) \in Seq(Requests) /\ Len(Ids(q)) = n
      /\ \A i \in 1 .. n : Ids(q)[i] = q[i].id
  BY ConcatEmptySeq, IdsTypes
<1>5. DOMAIN p = 1 .. m + n /\ DOMAIN b = 1 .. m /\ DOMAIN q = 1 .. n
      /\ \A i \in 1 .. m + n : p[i] \in Requests
  BY <1>3, LenProperties, ElementOfSeq
<1> HIDE DEF p, m, n
<1>6. Ids(q) = SubSeq(p, m + 1, m + n)
  <2> DEFINE u == SubSeq(p, m + 1, m + n)
  <2>1. m + 1 \in Int /\ m + n \in Int /\ \A i \in m + 1 .. m + n : p[i] \in Requests
    BY <1>1, <1>5
  <2>2. /\ u \in Seq(Requests)
        /\ Len(u) = IF m + 1 <= m + n THEN (m + n) - (m + 1) + 1 ELSE 0
        /\ \A i \in 1 .. (m + n) - (m + 1) + 1 : u[i] = p[(m + 1) + i - 1]
    BY <2>1, SubSeqProperties
  <2> HIDE DEF u
  <2>3. Len(u) = n
    BY <1>1, <2>2
  <2>4. ASSUME NEW i \in 1 .. n
        PROVE  u[i] = Ids(q)[i]
    <3>1. /\ i \in 1 .. (m + n) - (m + 1) + 1 /\ (m + 1) + i - 1 = m + i
          /\ m + i \in 1 .. m + n /\ ~ (m + i <= m) /\ (m + i) - m = i
      BY <1>1
    <3>2. u[i] = p[m + i]
      BY <2>2, <3>1
    <3>3. p[m + i] = q[i].id
      BY <1>2, <1>3, <3>1
    <3> QED
      BY <1>4, <3>2, <3>3
  <2>5. u = Ids(q)
    BY <1>4, <2>2, <2>3, <2>4, SeqEqual
  <2> QED
    BY <2>5 DEF u
<1>7. Log!Elements(SubSeq(p, 1, m)) = {e.id : e \in ToSet(b)}
  <2> DEFINE u == SubSeq(p, 1, m)
  <2>1. 1 \in Int /\ m \in Int /\ \A i \in 1 .. m : p[i] \in Requests
    BY <1>1, <1>5
  <2>2. /\ u \in Seq(Requests)
        /\ Len(u) = IF 1 <= m THEN m - 1 + 1 ELSE 0
        /\ \A i \in 1 .. m - 1 + 1 : u[i] = p[1 + i - 1]
    BY <2>1, SubSeqProperties
  <2>3. DOMAIN u = 1 .. Len(u)
    BY <2>2, LenProperties
  <2> HIDE DEF u
  <2>4. Len(u) = m
    BY <1>1, <2>2
  <2>5. ASSUME NEW i \in 1 .. m
        PROVE  u[i] = b[i].id
    <3>1. i \in 1 .. m - 1 + 1 /\ 1 + i - 1 = i /\ i \in 1 .. m + n /\ i <= m
      BY <1>1
    <3> QED
      BY <1>2, <1>3, <2>2, <3>1
  <2>6. Log!Elements(u) = {u[i] : i \in 1 .. m}
    BY <2>3, <2>4 DEF Log!Elements
  <2>7. ToSet(b) = {b[i] : i \in 1 .. m}
    BY <1>5 DEF ToSet
  <2>8. Log!Elements(u) = {e.id : e \in ToSet(b)}
    BY <2>5, <2>6, <2>7
  <2> QED
    BY <2>8 DEF u
<1>8. Log!Elements(p) = {e.id : e \in ToSet(b) \cup ToSet(q)}
  <2>1. Log!Elements(p) = {p[i] : i \in 1 .. m + n}
    BY <1>5 DEF Log!Elements
  <2>2. ToSet(b) = {b[i] : i \in 1 .. m} /\ ToSet(q) = {q[i] : i \in 1 .. n}
    BY <1>5 DEF ToSet
  <2>3. ASSUME NEW i \in 1 .. m + n
        PROVE  \E e \in ToSet(b) \cup ToSet(q) : p[i] = e.id
    <3>1. CASE i <= m
      <4>1. i \in 1 .. m /\ p[i] = b[i].id
        BY <1>1, <1>2, <1>3, <3>1
      <4> QED
        BY <2>2, <4>1
    <3>2. CASE ~ (i <= m)
      <4>1. i - m \in 1 .. n /\ p[i] = q[i - m].id
        BY <1>1, <1>2, <1>3, <3>2
      <4> QED
        BY <2>2, <4>1
    <3> QED
      BY <3>1, <3>2
  <2>4. ASSUME NEW e \in ToSet(b) \cup ToSet(q)
        PROVE  \E i \in 1 .. m + n : p[i] = e.id
    <3>1. ASSUME NEW i \in 1 .. m, e = b[i]
          PROVE  p[i] = e.id /\ i \in 1 .. m + n
      BY <1>1, <1>2, <1>3, <3>1
    <3>2. ASSUME NEW i \in 1 .. n, e = q[i]
          PROVE  p[m + i] = e.id /\ m + i \in 1 .. m + n
      <4>1. m + i \in 1 .. m + n /\ ~ (m + i <= m) /\ (m + i) - m = i
        BY <1>1
      <4> QED
        BY <1>2, <1>3, <3>2, <4>1
    <3> QED
      BY <2>2, <2>4, <3>1, <3>2
  <2> QED
    BY <2>1, <2>3, <2>4
<1> QED
  BY <1>1, <1>3, <1>4, <1>6, <1>7, <1>8 DEF p, s, m, n
-----------------------------------------------------------------------------
(* The initial state and each step map to one of the event log.            *)
LEMMA LogInit ==
  ASSUME Init
  PROVE  Log!Init
<1>1. batch \o queue = <<>>
  BY ConcatEmptySeq, EmptySeq DEF Init
<1>2. Ids(<<>>) = <<>>
  BY EmptySeq, LenProperties, IdsTypes
<1> QED
  BY <1>1, <1>2 DEF Init, Log!Init

(* A step that only takes rows away is the log forgetting.                 *)
LEMMA LogForgets ==
  ASSUME UNCHANGED <<batch, queue>>,
         \A r \in Requests : rows'[r] \in {rows[r], NoRow}
  PROVE  Log!Forget
<1>1. Pending' = Pending
  BY DEF Pending
<1>2. Stored' \in SUBSET Stored
  BY DEF Stored
<1> QED
  BY <1>1, <1>2 DEF Log!Forget, Pending, Stored

(* Events leave at the front, all of a batch together.                     *)
LEMMA LogLeaves ==
  ASSUME TypeOK, UNCHANGED queue, batch' = <<>>,
         \/ UNCHANGED rows
         \/ \A r \in Requests : IF \E e \in ToSet(batch) : e.id = r
                                  THEN rows'[r] # NoRow ELSE rows'[r] = rows[r]
  PROVE  [Log!Next]_Log!vars
<1>1. batch \in Seq(Event) /\ queue \in Seq(Event)
  BY DEF TypeOK
<1> DEFINE n == Len(batch)
           taken == {e.id : e \in ToSet(batch)}
<1>2. /\ n \in Nat /\ Len(queue) \in Nat /\ Len(Pending) = n + Len(queue)
      /\ Pending' = SubSeq(Pending, n + 1, Len(Pending))
      /\ Log!Elements(SubSeq(Pending, 1, n)) = taken
  BY <1>1, PendingFlushed DEF Pending
<1>3. taken \subseteq Requests
  <2>1. ToSet(batch) \subseteq Event
    BY <1>1, ToSetTypes
  <2> QED
    BY <2>1 DEF Event
<1>4. Stored' = Stored \/ Stored' = Stored \cup taken
  <2>1. CASE UNCHANGED rows
    BY <2>1 DEF Stored
  <2>2. CASE \A r \in Requests : IF \E e \in ToSet(batch) : e.id = r
                                   THEN rows'[r] # NoRow ELSE rows'[r] = rows[r]
    <3>1. \A r \in Requests : r \in taken <=> \E e \in ToSet(batch) : e.id = r
      OBVIOUS
    <3> HIDE DEF taken
    <3>2. Stored' = Stored \cup taken
      BY <1>3, <2>2, <3>1 DEF Stored
    <3> QED
      BY <3>2
  <2> QED
    BY <2>1, <2>2
<1>5. CASE n = 0
  <2>1. batch = <<>>
    BY <1>1, <1>5, EmptySeq
  <2>2. Pending' = Pending /\ taken = {}
    BY <2>1, ToSetEmpty DEF Pending
  <2> QED
    BY <1>4, <2>2 DEF Log!vars, Pending, Stored
<1>6. CASE n # 0
  <2>1. n \in 1 .. Len(Pending)
    BY <1>2, <1>6
  <2>0. PICK k \in 1 .. Len(Pending) : k = n
    BY <2>1
  <2> HIDE DEF n, taken
  <2>2. Log!Write(k) \/ Log!Lose(k)
    BY <1>2, <1>4, <2>0 DEF Log!Write, Log!Lose, Log!Leave, Pending, Stored
  <2> QED
    BY <2>2 DEF Log!Next, Pending
<1> QED
  BY <1>5, <1>6

LEMMA LogStep ==
  ASSUME UInv, [Next]_vars
  PROVE  [Log!Next]_Log!vars
<1> USE DEF process, settings, tables, pipeline, purge
<1>a. TypeOK /\ DetailsHaveRequest /\ queue \in Seq(Event) /\ batch \in Seq(Event)
  BY DEF UInv, TypeOK
<1>b. ASSUME UNCHANGED <<batch, queue>>,
             \A r \in Requests : rows'[r] \in {rows[r], NoRow}
      PROVE  [Log!Next]_Log!vars
  BY <1>b, LogForgets DEF Log!Next
<1>c. ASSUME UNCHANGED <<batch, queue, rows>>
      PROVE  [Log!Next]_Log!vars
  BY <1>b, <1>c
<1>1. ASSUME NEW cli \in BOOLEAN, Open(cli)
      PROVE  [Log!Next]_Log!vars
  <2>1. \A r \in Requests : rows'[r] \in {rows[r], NoRow}
    BY <1>1, <1>a DEF Open, Delete, TypeOK
  <2> QED
    BY <1>1, <1>b, <2>1 DEF Open
<1>2. CASE Close \/ CloseDb \/ SeeDone \/ Drained \/ PurgeBegins \/ NextDay
  BY <1>2, <1>c DEF Close, CloseDb, SeeDone, Drained, PurgeBegins, NextDay
<1>3. CASE Stop
  <2>1. queue' = <<>> /\ batch' = <<>> /\ UNCHANGED rows
    BY <1>3 DEF Stop
  <2>2. /\ Pending \in Seq(Requests) /\ Len(Pending) \in Nat
    BY <1>a, PendingFlushed, LenProperties DEF Pending
  <2>3. Pending' = <<>>
    <3>1. Ids(<<>> \o <<>>) = <<>>
      BY ConcatEmptySeq, EmptySeq, IdsTypes
    <3> QED
      BY <2>1, <3>1 DEF Pending
  <2>4. Stored' = Stored
    BY <2>1 DEF Stored
  <2>5. CASE Len(Pending) = 0
    <3>1. Pending = <<>>
      BY <2>2, <2>5, EmptySeq
    <3> QED
      BY <2>3, <2>4, <3>1 DEF Log!vars, Pending, Stored
  <2>6. CASE Len(Pending) # 0
    <3>1. SubSeq(Pending, Len(Pending) + 1, Len(Pending)) = <<>>
      BY <2>2, SubSeqEmpty
    <3>2. PICK k \in 1 .. Len(Pending) : k = Len(Pending)
      BY <2>2, <2>6
    <3>3. Log!Lose(k)
      BY <2>3, <2>4, <3>1, <3>2 DEF Log!Lose, Log!Leave, Pending, Stored
    <3> QED
      BY <3>3 DEF Log!Next, Pending
  <2> QED
    BY <2>5, <2>6
<1>4. ASSUME NEW r \in Requests, Check(r)
      PROVE  [Log!Next]_Log!vars
  BY <1>4, <1>c DEF Check
<1>5. ASSUME NEW r \in Requests, Enqueue(r)
      PROVE  [Log!Next]_Log!vars
  <2> DEFINE e == [id |-> r, day |-> calls[r].day]
  <2>1. /\ calls[r].at = "checked" /\ UNCHANGED <<rows, batch>>
        /\ \/ queue' = queue
           \/ queue' = Append(queue, e)
    BY <1>5 DEF Enqueue
  <2>2. e \in Event /\ e.id = r
    BY <1>a, <2>1 DEF TypeOK, Call, Event
  <2> HIDE DEF e
  <2>3. CASE queue' = queue
    BY <1>c, <2>1, <2>3
  <2>4. CASE queue' = Append(queue, e)
    <3>1. Pending' = Append(Pending, r)
      BY <1>a, <2>1, <2>2, <2>4, IdsEnqueue DEF Pending
    <3>2. rows[r] = NoRow /\ \A x \in ToSet(batch) \cup ToSet(queue) : x.id # r
      BY <2>1 DEF UInv, NotYetRecorded
    <3>3. r \notin Log!Elements(Pending) \cup Stored
      <4>1. Log!Elements(Pending) = {x.id : x \in ToSet(batch) \cup ToSet(queue)}
        BY <1>a, PendingFlushed DEF Pending
      <4> QED
        BY <3>2, <4>1 DEF Stored
    <3>4. Stored' = Stored
      BY <2>1 DEF Stored
    <3>5. Log!Accept(r)
      BY <3>1, <3>3, <3>4 DEF Log!Accept, Pending, Stored
    <3> QED
      BY <3>5 DEF Log!Next
  <2> QED
    BY <2>1, <2>3, <2>4
<1>6. CASE Take
  <2>1. Pending' = Pending
    <3>1. queue # <<>> /\ batch' = Append(batch, Head(queue)) /\ queue' = Tail(queue)
      BY <1>6 DEF Take
    <3>2. batch' \o queue' = batch \o queue
      BY <1>a, <3>1, ConcatTake
    <3> QED
      BY <3>2 DEF Pending
  <2>2. Stored' = Stored
    BY <1>6 DEF Take, Stored
  <2> QED
    BY <2>1, <2>2 DEF Log!vars, Pending, Stored
<1>7. ASSUME NEW ok \in BOOLEAN, Flush(ok)
      PROVE  [Log!Next]_Log!vars
  <2>1. UNCHANGED queue /\ batch' = <<>> /\ (UNCHANGED rows \/ Insert(ToSet(batch)))
    BY <1>7 DEF Flush
  <2>2. ToSet(batch) \in SUBSET Event
    BY <1>a, ToSetTypes
  <2>3. \/ UNCHANGED rows
        \/ \A r \in Requests : IF \E e \in ToSet(batch) : e.id = r
                                 THEN rows'[r] # NoRow ELSE rows'[r] = rows[r]
    BY <1>a, <2>1, <2>2, InsertTables
  <2> QED
    BY <1>a, <2>1, <2>3, LogLeaves
<1>8. ASSUME NEW ok \in BOOLEAN, PurgeEnds(ok) \/ ClearAll
      PROVE  [Log!Next]_Log!vars
  <2>1. \A r \in Requests : rows'[r] \in {rows[r], NoRow}
    BY <1>8, <1>a DEF PurgeEnds, ClearAll, Delete, TypeOK
  <2> QED
    BY <1>8, <1>b, <2>1 DEF PurgeEnds, ClearAll
<1>9. ASSUME NEW a \in Admins, NEW ok \in BOOLEAN, Merge(a) \/ Commit(a, ok) \/ Assign(a)
      PROVE  [Log!Next]_Log!vars
  BY <1>9, <1>c DEF Merge, Commit, Assign
<1>10. CASE UNCHANGED vars
  BY <1>10, <1>c DEF vars
<1> QED
  BY <1>1, <1>2, <1>3, <1>4, <1>5, <1>6, <1>7, <1>8, <1>9, <1>10 DEF Next, Writes, Exit, Crash
-----------------------------------------------------------------------------
LEMMA UsageInvariant == Spec => []UInv
<1>1. UInv /\ [Next]_vars => UInv'
  BY StepTypes, StepChannel DEF UInv
<1> QED
  BY <1>1, InitUInv, PTL DEF Spec

(* The analytics store's state is well-typed, its queue and batch bounded. *)
THEOREM UsageTypes == Spec => []TypeOK
<1>1. UInv => TypeOK
  BY DEF UInv
<1> QED
  BY <1>1, UsageInvariant, PTL

(* No transaction, crash or interleaving of them leaves a row of           *)
(* request_roots or evidence_events without its request.                   *)
THEOREM NoOrphanedDetails == Spec => []DetailsHaveRequest
<1>1. UInv => DetailsHaveRequest
  BY DEF UInv
<1> QED
  BY <1>1, UsageInvariant, PTL

(* When the writer has ended, only events enqueued after Close had begun   *)
(* are left, for every size of the queue and of a batch.                   *)
THEOREM StopLosesNothingQueued == Spec => []StopDrainsQueue
<1>1. UInv => StopDrainsQueue
  BY DEF UInv, DrainedIsLate, StopDrainsQueue
<1> QED
  BY <1>1, UsageInvariant, PTL

(* Without a process nobody saves; with one, and but for saves that cross, *)
(* the configuration in memory is the persisted one or, when a handler is  *)
(* between its two steps, about to be.                                     *)
SavedOrUnderWay ==
  /\ phase = "down" => \A a \in Admins : edits[a] = NoEdit
  /\ phase = "up" /\ ~ crossed =>
       \/ Underway = {} /\ cfg = meta
       \/ \E a \in Admins : Underway = {a} /\ meta = edits[a].new

LEMMA SavesStep ==
  ASSUME TypeOK, SavedOrUnderWay, [Next]_vars
  PROVE  SavedOrUnderWay'
<1> USE DEF process, settings, tables, pipeline, purge
<1>a. NoEdit.at = "idle" /\ edits \in [Admins -> Edit]
  BY DEF NoEdit, TypeOK
<1>b. ASSUME UNCHANGED settings, phase' = phase \/ phase' \notin {"down", "up"}
      PROVE  SavedOrUnderWay'
  BY <1>b DEF SavedOrUnderWay, Underway
<1>1. ASSUME NEW cli \in BOOLEAN, Open(cli)
      PROVE  SavedOrUnderWay'
  <2>1. \A a \in Admins : edits'[a] = NoEdit
    BY <1>1 DEF Open, SavedOrUnderWay
  <2>2. Underway' = {}
    BY <1>a, <2>1 DEF Underway
  <2>3. \/ phase' = "off"
        \/ phase' = "up" /\ cfg' = meta'
    <3>1. CASE cli
      BY <1>1, <3>1 DEF Open
    <3>2. CASE ~ cli
      <4>1. phase' = "up" /\ cfg' = Persisted
            /\ meta' = IF meta = NoMeta THEN FromFlags ELSE meta
        BY <1>1, <3>2, Zenon DEF Open
      <4> QED BY <4>1 DEF Persisted
    <3> QED BY <3>1, <3>2
  <2> QED BY <2>2, <2>3 DEF SavedOrUnderWay
<1>2. CASE Close \/ CloseDb
  BY <1>2, <1>b DEF Close, CloseDb
<1>3. CASE Stop
  BY <1>3 DEF Stop, SavedOrUnderWay
<1>4. ASSUME NEW a \in Admins, Merge(a)
      PROVE  SavedOrUnderWay'
  <2>1. PICK new : edits' = [edits EXCEPT ![a] = [at |-> "merged", new |-> new]]
    BY <1>4 DEF Merge
  <2>2. edits[a].at # "committed" /\ edits'[a].at # "committed"
    BY <1>a, <1>4, <2>1 DEF Merge
  <2>3. \A b \in Admins \ {a} : edits'[b] = edits[b]
    BY <1>a, <2>1
  <2>4. Underway' = Underway /\ \A b \in Underway : edits'[b] = edits[b]
    BY <2>2, <2>3 DEF Underway
  <2>5. UNCHANGED <<phase, meta, cfg, crossed>> /\ phase # "down"
    BY <1>4 DEF Merge
  <2> QED BY <2>4, <2>5 DEF SavedOrUnderWay
<1>5. ASSUME NEW a \in Admins, NEW ok \in BOOLEAN, Commit(a, ok)
      PROVE  SavedOrUnderWay'
  <2>1. edits[a].at = "merged" /\ UNCHANGED <<phase, cfg>>
    BY <1>5 DEF Commit
  <2>2. phase # "down"
    BY <1>a, <2>1 DEF SavedOrUnderWay
  <2>3. CASE ok
    <3>1. edits' = [edits EXCEPT ![a].at = "committed"] /\ meta' = edits[a].new
          /\ crossed' = (Underway # {})
      BY <1>5, <2>3 DEF Commit
    <3>2. edits[a] \in [at : {"merged", "committed"}, new : Settings]
      BY <1>a, <2>1 DEF Edit
    <3>3. edits'[a].at = "committed" /\ edits'[a].new = edits[a].new
      BY <1>a, <3>1, <3>2
    <3>4. Underway = {} => Underway' = {a}
      BY <1>a, <3>1, <3>3 DEF Underway
    <3> QED BY <2>1, <2>2, <3>1, <3>3, <3>4 DEF SavedOrUnderWay
  <2>4. CASE ~ ok
    <3>1. edits' = [edits EXCEPT ![a] = NoEdit] /\ UNCHANGED <<meta, crossed>>
      BY <1>5, <2>4 DEF Commit
    <3>2. edits'[a].at # "committed" /\ \A b \in Admins \ {a} : edits'[b] = edits[b]
      BY <1>a, <3>1
    <3>3. Underway' = Underway /\ \A b \in Underway : edits'[b] = edits[b]
      BY <2>1, <3>2 DEF Underway
    <3> QED BY <2>1, <2>2, <3>1, <3>3 DEF SavedOrUnderWay
  <2> QED BY <2>3, <2>4
<1>6. ASSUME NEW a \in Admins, Assign(a)
      PROVE  SavedOrUnderWay'
  <2>1. a \in Underway /\ UNCHANGED <<phase, meta, crossed>> /\ phase # "down"
        /\ cfg' = edits[a].new /\ edits' = [edits EXCEPT ![a] = NoEdit]
    BY <1>a, <1>6 DEF Assign, Underway, SavedOrUnderWay
  <2>2. Underway' = Underway \ {a}
    BY <1>a, <2>1 DEF Underway
  <2> QED BY <2>1, <2>2 DEF SavedOrUnderWay
<1>7. CASE UNCHANGED settings /\ phase' = phase
  BY <1>7, <1>b
<1> QED
  BY <1>1, <1>2, <1>3, <1>4, <1>5, <1>6, <1>7
     DEF Next, Writes, Exit, Crash, Check, Enqueue, Take, SeeDone, Drained, Flush,
         PurgeBegins, PurgeEnds, ClearAll, NextDay, vars

(* UpdateSettings, whose commit and assignment are two critical sections,  *)
(* leaves in memory what it has committed, however many administrators     *)
(* save, as long as no commit falls between the two steps of another save; *)
(* a save that crosses none, and the next Open, restore it after one that  *)
(* did.                                                                    *)
THEOREM SavesPersist == Spec => []SettingsArePersisted
<1>1. Init => SavedOrUnderWay
  BY DEF Init, SavedOrUnderWay
<1>2. SavedOrUnderWay /\ TypeOK /\ [Next]_vars => SavedOrUnderWay'
  BY SavesStep
<1>3. SavedOrUnderWay => SettingsArePersisted
  BY DEF SavedOrUnderWay, SettingsArePersisted
<1> QED
  BY <1>1, <1>2, <1>3, UsageTypes, PTL DEF Spec

(* The safety part of ImplementsEventLog: events are written in the order  *)
(* of their calls, none twice, none unrecorded, a batch as a whole.        *)
THEOREM UsageRefinesLog == Spec => Log!Init /\ [][Log!Next]_Log!vars
<1>1. Init => Log!Init
  BY LogInit
<1>2. UInv /\ [Next]_vars => [Log!Next]_Log!vars
  BY LogStep
<1> QED
  BY <1>1, <1>2, UsageInvariant, PTL DEF Spec
=============================================================================
