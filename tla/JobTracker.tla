----------------------------- MODULE JobTracker -----------------------------
(***************************************************************************)
(* librarian.Tracker, the process-local registry of crawl and Git jobs,    *)
(* with its users: the REST handlers that start a job and attach a cancel  *)
(* function, the MCP tools that only start one, the job goroutine that     *)
(* reports progress and finishes, POST /jobs/{id}/cancel, and the SSE      *)
(* handler of GET /jobs/{id}/events.  Every critical section of the        *)
(* tracker's mutex is one action; a handler that takes it twice is two.    *)
(***************************************************************************)
EXTENDS Naturals, FiniteSets, Sequences

CONSTANTS
  Jobs,       \* operation ids, each started once
  Streams,    \* SSE handlers
  Cancellers, \* cancel handlers
  NoJob, NoOp, NoRuntime,
  MaxKeep,    \* operations the tracker retains (64)
  Buffer,     \* capacity of a subscription channel (16)
  MaxTime,    \* bound on the clock, in the seconds of StartedAt
  MaxStamp    \* bound on the progress events of a job

ASSUME TrackerAssumption ==
  /\ MaxKeep \in Nat \ {0} /\ Buffer \in Nat \ {0}
  /\ MaxTime \in Nat /\ MaxStamp \in Nat
  /\ NoJob \notin Jobs
  /\ IsFiniteSet(Jobs)

VARIABLES
  ops,        \* Tracker.ops
  runtime,    \* Tracker.runtime
  worker,     \* where the job's handler or goroutine is
  cancelled,  \* the jobs whose context was cancelled on request
  stream,     \* the SSE handlers and their channels
  request,    \* per cancel handler, the job its Get found
  now         \* time.Now().Unix()

trackerVars == <<ops, runtime, worker, cancelled, stream, request, now>>

\* stamp numbers the content of op.Progress.
Operation == [state : {"running", "cancelling", "ok", "failed"},
              started : Nat, finished : Nat, stamp : Nat]
Runtime == [cancel : BOOLEAN, subs : SUBSET Streams]
Stream == [at : {"idle", "found", "open"}, job : Jobs \cup {NoJob},
           queue : Seq(Nat), closed : BOOLEAN,
           seen : Nat,        \* the last event written to the client
           dropped : BOOLEAN] \* an event found the channel full

ASSUME NullAssumption == NoOp \notin Operation /\ NoRuntime \notin Runtime

IdleStream == [at |-> "idle", job |-> NoJob, queue |-> <<>>, closed |-> FALSE,
         seen |-> 0, dropped |-> FALSE]

TypeOK ==
  /\ ops \in [Jobs -> Operation \cup {NoOp}]
  /\ runtime \in [Jobs -> Runtime \cup {NoRuntime}]
  /\ worker \in [Jobs -> {"none", "starting", "running", "done"}]
  /\ cancelled \in SUBSET Jobs
  /\ stream \in [Streams -> Stream]
  /\ request \in [Cancellers -> Jobs \cup {NoJob}]
  /\ now \in Nat

TrackerInit ==
  /\ ops = [j \in Jobs |-> NoOp]
  /\ runtime = [j \in Jobs |-> NoRuntime]
  /\ worker = [j \in Jobs |-> "none"]
  /\ cancelled = {}
  /\ stream = [s \in Streams |-> IdleStream]
  /\ request = [c \in Cancellers |-> NoJob]
  /\ now = 1
-----------------------------------------------------------------------------
Kept(os) == {j \in Jobs : os[j] # NoOp}

\* The key of trimLocked: when the operation finished, or else started.
Age(op) == IF op.finished = 0 THEN op.started ELSE op.finished

\* What trimLocked may leave when it drops at most one operation: the one
\* with the smallest key, among equal keys the first the map iteration meets.
Trimmed(os) ==
  IF Cardinality(Kept(os)) <= MaxKeep THEN {os}
  ELSE {[os EXCEPT ![j] = NoOp] :
          j \in {k \in Kept(os) : \A i \in Kept(os) : Age(os[k]) <= Age(os[i])}}

Subscribers(j) == IF runtime[j] = NoRuntime THEN {} ELSE runtime[j].subs

\* A runtime entry is made by whoever needs it first.
RuntimeOf(j) ==
  IF runtime[j] = NoRuntime THEN [cancel |-> FALSE, subs |-> {}] ELSE runtime[j]

\* A non-blocking send.
Send(st, e) ==
  IF Len(st.queue) < Buffer
    THEN [st EXCEPT !.queue = Append(@, e)]
    ELSE [st EXCEPT !.dropped = TRUE]

\* publishLocked
Published(j, e) ==
  [s \in Streams |-> IF s \in Subscribers(j) THEN Send(stream[s], e) ELSE stream[s]]

\* Mutated form: the channels are forgotten and not closed.
ForgotSubscribers(j, strs) == strs

\* finishRuntimeLocked, on the channels as the last event left them.
ClosedSubscribers(j, strs) ==
  [s \in Streams |-> IF s \in Subscribers(j) THEN [strs[s] EXCEPT !.closed = TRUE] ELSE strs[s]]
-----------------------------------------------------------------------------
(* Start, and SetCancel in a critical section of its own.  The tools start *)
(* a job without a cancel function.                                        *)

Start(j, rest) ==
  /\ worker[j] = "none"
  /\ ops' \in Trimmed([ops EXCEPT ![j] =
       [state |-> "running", started |-> now, finished |-> 0, stamp |-> 1]])
  /\ worker' = [worker EXCEPT ![j] = IF rest THEN "starting" ELSE "running"]
  /\ UNCHANGED <<runtime, cancelled, stream, request, now>>

SetCancel(j) ==
  /\ worker[j] = "starting"
  /\ runtime' = [runtime EXCEPT ![j] = [RuntimeOf(j) EXCEPT !.cancel = TRUE]]
  /\ worker' = [worker EXCEPT ![j] = "running"]
  /\ UNCHANGED <<ops, cancelled, stream, request, now>>

Update(j) ==
  /\ worker[j] = "running"
  /\ ops[j] # NoOp
  /\ ops[j].stamp < MaxStamp
  /\ ops' = [ops EXCEPT ![j].state = "running", ![j].stamp = @ + 1]
  /\ stream' = Published(j, ops[j].stamp + 1)
  /\ UNCHANGED <<runtime, worker, cancelled, request, now>>

\* Mutated form: the last progress is published after the clean-up.
FinishThenPublish(j, state) ==
  /\ worker[j] = "running"
  /\ worker' = [worker EXCEPT ![j] = "done"]
  /\ IF ops[j] = NoOp
       THEN UNCHANGED <<ops, runtime, stream>>
       ELSE /\ ops' = [ops EXCEPT ![j].state = state, ![j].finished = now, ![j].stamp = @ + 1]
            /\ stream' = ClosedSubscribers(j, stream)
            /\ runtime' = [runtime EXCEPT ![j] = NoRuntime]
  /\ UNCHANGED <<cancelled, request, now>>

\* Finish returns early, and leaves the runtime, when the operation was trimmed.
Finish(j, state) ==
  /\ worker[j] = "running"
  /\ worker' = [worker EXCEPT ![j] = "done"]
  /\ IF ops[j] = NoOp
       THEN UNCHANGED <<ops, runtime, stream>>
       ELSE /\ ops' = [ops EXCEPT ![j].state = state, ![j].finished = now, ![j].stamp = @ + 1]
            /\ stream' = ClosedSubscribers(j, Published(j, ops[j].stamp + 1))
            /\ runtime' = [runtime EXCEPT ![j] = NoRuntime]
  /\ UNCHANGED <<cancelled, request, now>>
-----------------------------------------------------------------------------
(* POST /jobs/{id}/cancel: Get, then Cancel.                               *)

CancelGet(c, j) ==
  /\ request[c] = NoJob
  /\ ops[j] # NoOp
  /\ request' = [request EXCEPT ![c] = j]
  /\ UNCHANGED <<ops, runtime, worker, cancelled, stream, now>>

\* Mutated form: a runtime entry is taken for a cancel function.
CancelAnyRuntime(c) ==
  LET j == request[c]
  IN  /\ j # NoJob
      /\ request' = [request EXCEPT ![c] = NoJob]
      /\ ops' = IF runtime[j] # NoRuntime /\ ops[j] # NoOp /\ ops[j].state = "running"
                  THEN [ops EXCEPT ![j].state = "cancelling"] ELSE ops
      /\ cancelled' = IF RuntimeOf(j).cancel THEN cancelled \cup {j} ELSE cancelled
      /\ UNCHANGED <<runtime, worker, stream, now>>

\* Mutated form: the operation is marked whether or not it can be cancelled.
CancelAnyway(c) ==
  LET j == request[c]
  IN  /\ j # NoJob
      /\ request' = [request EXCEPT ![c] = NoJob]
      /\ ops' = IF ops[j] # NoOp THEN [ops EXCEPT ![j].state = "cancelling"] ELSE ops
      /\ cancelled' = IF RuntimeOf(j).cancel THEN cancelled \cup {j} ELSE cancelled
      /\ UNCHANGED <<runtime, worker, stream, now>>

\* Mutated form: the operation gets a state that no client knows.
CancelMisnamed(c) ==
  LET j == request[c]
  IN  /\ j # NoJob
      /\ request' = [request EXCEPT ![c] = NoJob]
      /\ IF RuntimeOf(j).cancel
           THEN /\ cancelled' = cancelled \cup {j}
                /\ ops' = IF ops[j] # NoOp /\ ops[j].state = "running"
                            THEN [ops EXCEPT ![j].state = "canceled"] ELSE ops
           ELSE UNCHANGED <<cancelled, ops>>
      /\ UNCHANGED <<runtime, worker, stream, now>>

Cancel(c) ==
  LET j == request[c]
  IN  /\ j # NoJob
      /\ request' = [request EXCEPT ![c] = NoJob]
      /\ IF RuntimeOf(j).cancel
           THEN /\ cancelled' = cancelled \cup {j}
                /\ ops' = IF ops[j] # NoOp /\ ops[j].state = "running"
                            THEN [ops EXCEPT ![j].state = "cancelling"] ELSE ops
           ELSE UNCHANGED <<cancelled, ops>>
      /\ UNCHANGED <<runtime, worker, stream, now>>
-----------------------------------------------------------------------------
(* GET /jobs/{id}/events: Get, then Subscribe, then the select loop.       *)

EventsGet(s, j) ==
  /\ stream[s].at = "idle"
  /\ ops[j] # NoOp
  /\ stream' = [stream EXCEPT ![s] = [IdleStream EXCEPT !.at = "found", !.job = j]]
  /\ UNCHANGED <<ops, runtime, worker, cancelled, request, now>>

Subscribe(s) ==
  LET j    == stream[s].job
      open == [stream[s] EXCEPT !.at = "open"]
  IN  /\ stream[s].at = "found"
      /\ runtime' = [runtime EXCEPT ![j] = [RuntimeOf(j) EXCEPT !.subs = @ \cup {s}]]
      /\ stream' = [stream EXCEPT ![s] =
                      IF ops[j] # NoOp THEN Send(open, ops[j].stamp) ELSE open]
      /\ UNCHANGED <<ops, worker, cancelled, request, now>>

Receive(s) ==
  /\ stream[s].at = "open"
  /\ stream[s].queue # <<>>
  /\ stream' = [stream EXCEPT ![s].seen = Head(stream[s].queue), ![s].queue = Tail(@)]
  /\ UNCHANGED <<ops, runtime, worker, cancelled, request, now>>

\* The receive on a closed, drained channel.
EndOfStream(s) ==
  /\ stream[s].at = "open"
  /\ stream[s].closed /\ stream[s].queue = <<>>
  /\ stream' = [stream EXCEPT ![s] = IdleStream]
  /\ UNCHANGED <<ops, runtime, worker, cancelled, request, now>>

\* Mutated form: the handler returns without its deferred unsubscribe.
DisconnectSubscribed(s) ==
  /\ stream[s].at = "open"
  /\ stream' = [stream EXCEPT ![s] = IdleStream]
  /\ UNCHANGED <<ops, runtime, worker, cancelled, request, now>>

\* The client goes away; the deferred unsubscribe removes the channel.
Disconnect(s) ==
  LET j == stream[s].job
  IN  /\ stream[s].at = "open"
      /\ stream' = [stream EXCEPT ![s] = IdleStream]
      /\ runtime' = IF runtime[j] = NoRuntime THEN runtime
                      ELSE [runtime EXCEPT ![j].subs = @ \ {s}]
      /\ UNCHANGED <<ops, worker, cancelled, request, now>>

Tick ==
  /\ now < MaxTime
  /\ now' = now + 1
  /\ UNCHANGED <<ops, runtime, worker, cancelled, stream, request>>

Job(j) ==
  \/ SetCancel(j)
  \/ \E state \in {"ok", "failed"} : Finish(j, state)

Handler(s) == Subscribe(s) \/ Receive(s) \/ EndOfStream(s)

TrackerNext ==
  \/ \E j \in Jobs :
       \/ \E rest \in BOOLEAN : Start(j, rest)
       \/ Job(j)
       \/ Update(j)
       \/ \E c \in Cancellers : CancelGet(c, j)
       \/ \E s \in Streams : EventsGet(s, j)
  \/ \E c \in Cancellers : Cancel(c)
  \/ \E s \in Streams : Handler(s) \/ Disconnect(s)
  \/ Tick

\* A job's work is bounded (page, file and time limits), so it finishes; the
\* runtime schedules the handlers.  Nobody has to connect or to disconnect.
Fairness ==
  /\ \A j \in Jobs : WF_trackerVars(Job(j))
  /\ \A s \in Streams : WF_trackerVars(Handler(s))

TrackerSpec == TrackerInit /\ [][TrackerNext]_trackerVars /\ Fairness
-----------------------------------------------------------------------------
(* Properties *)

Open(s) == stream[s].at = "open"

(* Every channel the tracker can send on or close is that of a handler     *)
(* still reading that job's events: no send on a closed channel, no second *)
(* close, whichever of Finish, unsubscribe and a new runtime came first.   *)
ChannelsAreLive ==
  \A j \in Jobs : \A s \in Subscribers(j) :
    Open(s) /\ stream[s].job = j /\ ~ stream[s].closed

(* A stream that never found its channel full is up to date: what it was   *)
(* sent or will next read ends with the operation's current progress, the  *)
(* last event before the close included, wherever in the job it subscribed.*)
UpToDate ==
  \A s \in Streams :
    Open(s) /\ ~ stream[s].dropped /\ ops[stream[s].job] # NoOp =>
      LET q == stream[s].queue
      IN  ops[stream[s].job].stamp = IF q = <<>> THEN stream[s].seen ELSE q[Len(q)]

(* An operation shown as cancelling has had its context cancelled, though  *)
(* streams create runtime entries before the handler sets a cancel func.   *)
CancellingIsCancelled ==
  \A j \in Jobs : ops[j] # NoOp /\ ops[j].state = "cancelling" => j \in cancelled

(* A terminal state is final: no late update, cancel or subscription that  *)
(* recreates the runtime changes what a finished operation reports.        *)
TerminalIsFinal ==
  [][\A j \in Jobs :
       ops[j] # NoOp /\ ops[j].finished # 0 => ops'[j] \in {ops[j], NoOp}]_trackerVars

(* A stream opened before its job finished ends, as long as the operation  *)
(* is not trimmed: Finish finds every channel subscribed by then.          *)
EarlyStreamEnds ==
  \A s \in Streams, j \in Jobs :
    Open(s) /\ stream[s].job = j /\ worker[j] # "done"
      ~> ~ Open(s) \/ ops[j] = NoOp
=============================================================================
