-------------------------- MODULE JobAndPdfProofs --------------------------
(***************************************************************************)
(* Proofs about JobTracker, the registry that long jobs report to, and     *)
(* about PdfIngest.  Of the tracker: no channel is closed twice or sent to *)
(* after its close, streams are up to date, and terminal states are final. *)
(* Of the ingest: the sections cite what they are made of, for every       *)
(* outline and range, and the two tables agree whatever requests, deletes  *)
(* and stops come between the two transactions.  The two specifications    *)
(* share no variable, and each theorem is about one of them.               *)
(***************************************************************************)
EXTENDS JobTracker, PdfIngest, FiniteSetTheorems, SequenceTheorems, TLAPS

(***************************************************************************)
(* The tracker.                                                            *)
(***************************************************************************)
Finished(j) == ops[j] # NoOp /\ ops[j].finished # 0

\* An operation and a handler that found it are of a job that was started.
JobsAreStarted ==
  /\ \A j \in Jobs : ops[j] # NoOp => worker[j] # "none"
  /\ \A s \in Streams : stream[s].at # "idle" =>
       stream[s].job \in Jobs /\ worker[stream[s].job] # "none"

\* Until the job ends, each of its open streams is subscribed.
OpenIsSubscribed ==
  \A s \in Streams :
    Open(s) /\ worker[stream[s].job] # "done" => s \in Subscribers(stream[s].job)

\* A handler has no closed channel before it subscribes.
FoundIsFresh ==
  \A s \in Streams : stream[s].at = "found" => ~ stream[s].closed

\* Only the job's own Finish makes its operation terminal.
FinishedIsDone ==
  \A j \in Jobs : Finished(j) =>
    worker[j] = "done" /\ ops[j].state \in {"ok", "failed"}

Subscriptions ==
  JobsAreStarted /\ OpenIsSubscribed /\ FoundIsFresh /\ ChannelsAreLive

IInv ==
  /\ TypeOK /\ Subscriptions /\ UpToDate
  /\ CancellingIsCancelled /\ FinishedIsDone
-----------------------------------------------------------------------------
(* A trim keeps every operation or drops it.                               *)
LEMMA TrimmedKeepsOrDrops ==
  ASSUME NEW os \in [Jobs -> Operation \cup {NoOp}], NEW left \in Trimmed(os)
  PROVE  /\ left \in [Jobs -> Operation \cup {NoOp}]
         /\ \A j \in Jobs : left[j] \in {os[j], NoOp}
  BY DEF Trimmed, Kept

(* A send keeps a channel's owner and appends, or marks the stream.        *)
LEMMA SendTypes ==
  ASSUME NEW st \in Stream, NEW e \in Nat
  PROVE  /\ Send(st, e) \in Stream
         /\ Send(st, e).at = st.at /\ Send(st, e).job = st.job
         /\ Send(st, e).closed = st.closed
         /\ \/ Send(st, e).queue = Append(st.queue, e)
            \/ Send(st, e).dropped
<1>1. st.queue \in Seq(Nat)
  BY DEF Stream
<1>2. Append(st.queue, e) \in Seq(Nat)
  BY <1>1
<1>3. CASE Len(st.queue) < Buffer
  <2>1. Send(st, e) = [st EXCEPT !.queue = Append(st.queue, e)]
    BY <1>3 DEF Send
  <2> QED
    BY <1>2, <2>1 DEF Stream
<1>4. CASE ~ (Len(st.queue) < Buffer)
  <2>1. Send(st, e) = [st EXCEPT !.dropped = TRUE]
    BY <1>4 DEF Send
  <2> QED
    BY <2>1 DEF Stream
<1> QED
  BY <1>3, <1>4

(* A publication sends to the subscribers and to nobody else.              *)
LEMMA PublishedTypes ==
  ASSUME TypeOK, NEW j \in Jobs, NEW e \in Nat
  PROVE  /\ Published(j, e) \in [Streams -> Stream]
         /\ \A s \in Streams :
              /\ s \in Subscribers(j) => Published(j, e)[s] = Send(stream[s], e)
              /\ s \notin Subscribers(j) => Published(j, e)[s] = stream[s]
              /\ Published(j, e)[s].at = stream[s].at
              /\ Published(j, e)[s].job = stream[s].job
              /\ Published(j, e)[s].closed = stream[s].closed
<1>1. \A s \in Streams : stream[s] \in Stream
  BY DEF TypeOK
<1>2. \A s \in Streams :
        /\ Published(j, e)[s] =
             IF s \in Subscribers(j) THEN Send(stream[s], e) ELSE stream[s]
        /\ Send(stream[s], e) \in Stream
        /\ Send(stream[s], e).at = stream[s].at
        /\ Send(stream[s], e).job = stream[s].job
        /\ Send(stream[s], e).closed = stream[s].closed
  BY <1>1, SendTypes DEF Published
<1> QED
  BY <1>1, <1>2 DEF Published

(* The last event of an appended queue is the one appended; the rest of a  *)
(* queue of more than one event has the same last event.                   *)
LEMMA LastOfAppend ==
  ASSUME NEW q \in Seq(Nat), NEW e \in Nat
  PROVE  Append(q, e) # <<>> /\ Append(q, e)[Len(Append(q, e))] = e
  OBVIOUS

LEMMA LastOfTail ==
  ASSUME NEW q \in Seq(Nat), q # <<>>
  PROVE  /\ Tail(q) = <<>> => Head(q) = q[Len(q)]
         /\ Tail(q) # <<>> => Tail(q)[Len(Tail(q))] = q[Len(q)]
<1> DEFINE n == Len(q)
           t == Tail(q)
           m == Len(t)
<1>1. /\ n \in Nat /\ n # 0 /\ t \in Seq(Nat) /\ m = n - 1 /\ Head(q) = q[1]
      /\ \A i \in 1 .. n - 1 : t[i] = q[i + 1]
  OBVIOUS
<1>2. t = <<>> <=> m = 0
  <2> HIDE DEF t
  <2> QED
    BY <1>1, EmptySeq
<1> HIDE DEF n, t, m
<1>3. t = <<>> => Head(q) = q[n]
  <2>1. m = 0 => n = 1
    BY <1>1
  <2> QED
    BY <1>1, <1>2, <2>1
<1>4. t # <<>> => t[m] = q[n]
  <2>1. m # 0 => m \in 1 .. n - 1 /\ m + 1 = n
    BY <1>1
  <2>2. m # 0 => t[m] = q[m + 1]
    BY <1>1, <2>1
  <2> QED
    BY <1>2, <2>1, <2>2
<1> QED
  BY <1>3, <1>4 DEF n, t, m

LEMMA SubscribersTypes ==
  ASSUME TypeOK, NEW j \in Jobs
  PROVE  /\ RuntimeOf(j) \in Runtime /\ RuntimeOf(j).subs = Subscribers(j)
         /\ Subscribers(j) \in SUBSET Streams
<1>1. runtime[j] \in Runtime \cup {NoRuntime}
  BY DEF TypeOK
<1> QED
  BY <1>1 DEF RuntimeOf, Subscribers, Runtime
-----------------------------------------------------------------------------
(* The initial state satisfies the invariant.                              *)
LEMMA InitIInv ==
  ASSUME TrackerInit
  PROVE  IInv
<1>1. TypeOK
  BY DEF TrackerInit, TypeOK, IdleStream, Stream
<1>2. Subscriptions
  BY DEF TrackerInit, IdleStream, Subscriptions, JobsAreStarted, OpenIsSubscribed, FoundIsFresh,
         ChannelsAreLive, Subscribers, Open
<1> QED
  BY <1>1, <1>2 DEF TrackerInit, IInv, UpToDate, Open, IdleStream, CancellingIsCancelled, FinishedIsDone,
                    Finished
-----------------------------------------------------------------------------
(* The types are kept by every step.                                       *)
LEMMA StepTypes ==
  ASSUME TypeOK, JobsAreStarted, [TrackerNext]_trackerVars
  PROVE  TypeOK'
<1>0. ASSUME NEW j \in Jobs, ops[j] # NoOp
      PROVE  /\ ops[j] \in Operation /\ ops[j].stamp \in Nat
             /\ ops[j].stamp + 1 \in Nat
  BY <1>0 DEF TypeOK, Operation
<1>1. ASSUME NEW j \in Jobs, NEW rest \in BOOLEAN, Start(j, rest)
      PROVE  TypeOK'
  <2>1. [ops EXCEPT ![j] = [state |-> "running", started |-> now, finished |-> 0, stamp |-> 1]]
          \in [Jobs -> Operation \cup {NoOp}]
    BY DEF TypeOK, Operation
  <2>2. ops' \in [Jobs -> Operation \cup {NoOp}]
    BY <1>1, <2>1, TrimmedKeepsOrDrops DEF Start
  <2> QED
    BY <1>1, <2>2 DEF Start, TypeOK
<1>2. ASSUME NEW j \in Jobs, SetCancel(j)
      PROVE  TypeOK'
  BY <1>2, SubscribersTypes DEF SetCancel, TypeOK, Runtime
<1>3. ASSUME NEW j \in Jobs, Update(j)
      PROVE  TypeOK'
  <2>1. stream' \in [Streams -> Stream]
    BY <1>0, <1>3, PublishedTypes DEF Update
  <2> QED
    BY <1>3, <2>1 DEF Update, TypeOK, Operation
<1>4. ASSUME NEW j \in Jobs, NEW state \in {"ok", "failed"}, Finish(j, state)
      PROVE  TypeOK'
  <2>1. CASE ops[j] = NoOp
    BY <1>4, <2>1 DEF Finish, TypeOK
  <2>2. CASE ops[j] # NoOp
    <3>1. Published(j, ops[j].stamp + 1) \in [Streams -> Stream]
      BY <1>0, <2>2, PublishedTypes
    <3>2. stream' = ClosedSubscribers(j, Published(j, ops[j].stamp + 1))
      BY <1>4, <2>2 DEF Finish
    <3>3. \A strs \in [Streams -> Stream] : ClosedSubscribers(j, strs) \in [Streams -> Stream]
      BY DEF ClosedSubscribers, Stream
    <3>4. stream' \in [Streams -> Stream]
      BY <3>1, <3>2, <3>3
    <3> QED
      BY <1>4, <2>2, <3>4 DEF Finish, TypeOK, Operation
  <2> QED
    BY <2>1, <2>2
<1>5. ASSUME NEW c \in Cancellers, NEW j \in Jobs, CancelGet(c, j)
      PROVE  TypeOK'
  BY <1>5 DEF CancelGet, TypeOK
<1>6. ASSUME NEW c \in Cancellers, Cancel(c)
      PROVE  TypeOK'
  BY <1>6 DEF Cancel, TypeOK, Operation
<1>7. ASSUME NEW s \in Streams, NEW j \in Jobs, EventsGet(s, j)
      PROVE  TypeOK'
  <2>1. IdleStream \in Stream
    BY DEF IdleStream, Stream
  <2>2. [IdleStream EXCEPT !.at = "found", !.job = j] \in Stream
    BY <2>1 DEF Stream
  <2> QED
    BY <1>7, <2>2 DEF EventsGet, TypeOK
<1>8. ASSUME NEW s \in Streams, Subscribe(s)
      PROVE  TypeOK'
  <2> DEFINE j == stream[s].job
             open == [stream[s] EXCEPT !.at = "open"]
  <2>1. j \in Jobs
    BY <1>8 DEF Subscribe, JobsAreStarted
  <2>2. open \in Stream
    BY DEF TypeOK, Stream
  <2>3. ops[j] # NoOp => Send(open, ops[j].stamp) \in Stream
    BY <1>0, <2>1, <2>2, SendTypes
  <2>4. stream' \in [Streams -> Stream]
    BY <1>8, <2>2, <2>3 DEF Subscribe, TypeOK
  <2>5. runtime' \in [Jobs -> Runtime \cup {NoRuntime}]
    BY <1>8, <2>1, SubscribersTypes DEF Subscribe, TypeOK, Runtime
  <2> QED
    BY <1>8, <2>4, <2>5 DEF Subscribe, TypeOK
<1>9. ASSUME NEW s \in Streams, Receive(s)
      PROVE  TypeOK'
  <2>1. stream[s].queue \in Seq(Nat) /\ stream[s].queue # <<>>
    BY <1>9 DEF Receive, TypeOK, Stream
  <2>2. Head(stream[s].queue) \in Nat /\ Tail(stream[s].queue) \in Seq(Nat)
    BY <2>1
  <2> DEFINE read == [stream[s] EXCEPT !.seen = Head(stream[s].queue),
                                       !.queue = Tail(stream[s].queue)]
  <2>3. read \in Stream
    BY <2>2 DEF TypeOK, Stream
  <2>4. stream' = [stream EXCEPT ![s] = read]
    BY <1>9 DEF Receive, TypeOK, Stream
  <2>5. stream' \in [Streams -> Stream]
    BY <2>3, <2>4 DEF TypeOK
  <2> QED
    BY <1>9, <2>5 DEF Receive, TypeOK
<1>10. ASSUME NEW s \in Streams, EndOfStream(s)
       PROVE  TypeOK'
  BY <1>10 DEF EndOfStream, TypeOK, IdleStream, Stream
<1>11. ASSUME NEW s \in Streams, Disconnect(s)
       PROVE  TypeOK'
  <2>1. stream' \in [Streams -> Stream]
    BY <1>11 DEF Disconnect, TypeOK, IdleStream, Stream
  <2>2. runtime' \in [Jobs -> Runtime \cup {NoRuntime}]
    BY <1>11 DEF Disconnect, TypeOK, Runtime
  <2> QED
    BY <1>11, <2>1, <2>2 DEF Disconnect, TypeOK
<1>12. CASE Tick
  BY <1>12 DEF Tick, TypeOK
<1>13. CASE UNCHANGED trackerVars
  BY <1>13 DEF trackerVars, TypeOK
<1> QED
  BY <1>1, <1>2, <1>3, <1>4, <1>5, <1>6, <1>7, <1>8, <1>9, <1>10, <1>11, <1>12, <1>13
     DEF TrackerNext, Job, Handler
-----------------------------------------------------------------------------
(* A step that leaves the streams where they are, keeps the subscriptions  *)
(* and the started jobs, and makes at most new operations of started jobs, *)
(* keeps the invariant of the subscriptions.                               *)
LEMMA SameStreams ==
  ASSUME Subscriptions,
         \A s \in Streams : /\ stream'[s].at = stream[s].at
                            /\ stream'[s].job = stream[s].job
                            /\ stream'[s].closed = stream[s].closed,
         \A j \in Jobs : /\ Subscribers(j)' = Subscribers(j)
                         /\ worker'[j] = "none" => worker[j] = "none"
                         /\ worker'[j] # "done" => worker[j] # "done"
                         /\ ops'[j] # NoOp /\ ops[j] = NoOp => worker'[j] # "none",
         \A j \in Jobs : Subscribers(j) \in SUBSET Streams
  PROVE  Subscriptions'
<1>1. JobsAreStarted'
  BY DEF Subscriptions, JobsAreStarted
<1>2. OpenIsSubscribed'
  BY DEF Subscriptions, JobsAreStarted, OpenIsSubscribed, Open
<1>3. FoundIsFresh'
  BY DEF Subscriptions, FoundIsFresh
<1>4. ChannelsAreLive'
  BY DEF Subscriptions, ChannelsAreLive, Open
<1> QED
  BY <1>1, <1>2, <1>3, <1>4 DEF Subscriptions

(* The subscriptions' invariant is kept by every step.                     *)
LEMMA StepSubscriptions ==
  ASSUME TypeOK, Subscriptions, [TrackerNext]_trackerVars
  PROVE  Subscriptions'
<1>a. \A j \in Jobs : Subscribers(j) \in SUBSET Streams
  BY SubscribersTypes
<1>b. \A s \in Streams : /\ stream[s] \in Stream
                         /\ stream[s].at \in {"idle", "found", "open"}
  BY DEF TypeOK, Stream
<1>1. ASSUME NEW j \in Jobs, NEW rest \in BOOLEAN, Start(j, rest)
      PROVE  Subscriptions'
  <2>1. \A i \in Jobs \ {j} : ops'[i] \in {ops[i], NoOp}
    <3> DEFINE started == [ops EXCEPT ![j] =
                 [state |-> "running", started |-> now, finished |-> 0, stamp |-> 1]]
    <3>1. started \in [Jobs -> Operation \cup {NoOp}] /\ \A i \in Jobs \ {j} : started[i] = ops[i]
      BY DEF TypeOK, Operation
    <3>2. ops' \in Trimmed(started)
      BY <1>1 DEF Start
    <3> HIDE DEF started
    <3> QED
      BY <3>1, <3>2, TrimmedKeepsOrDrops
  <2>2. /\ \A i \in Jobs \ {j} : worker'[i] = worker[i]
        /\ worker'[j] \in {"starting", "running"} /\ worker[j] = "none"
        /\ UNCHANGED <<runtime, stream>>
    BY <1>1 DEF Start, TypeOK
  <2> QED
    BY <1>a, <2>1, <2>2, SameStreams DEF Subscribers
<1>2. ASSUME NEW j \in Jobs, SetCancel(j)
      PROVE  Subscriptions'
  <2>1. /\ \A i \in Jobs \ {j} : worker'[i] = worker[i]
        /\ worker'[j] = "running" /\ worker[j] = "starting"
        /\ UNCHANGED <<ops, stream>>
    BY <1>2 DEF SetCancel, TypeOK
  <2>2. \A i \in Jobs : Subscribers(i)' = Subscribers(i)
    <3>1. \A i \in Jobs \ {j} : runtime'[i] = runtime[i]
      BY <1>2 DEF SetCancel, TypeOK
    <3>2. runtime'[j] = [RuntimeOf(j) EXCEPT !.cancel = TRUE]
      BY <1>2 DEF SetCancel, TypeOK
    <3>3. runtime'[j] \in Runtime /\ runtime'[j].subs = RuntimeOf(j).subs
      BY <3>2, SubscribersTypes DEF Runtime
    <3> QED
      BY <3>1, <3>3, SubscribersTypes, NullAssumption DEF Subscribers
  <2> QED
    BY <1>a, <2>1, <2>2, SameStreams
<1>3. ASSUME NEW j \in Jobs, Update(j)
      PROVE  Subscriptions'
  <2>1. ops[j] # NoOp /\ ops[j].stamp + 1 \in Nat
    BY <1>3 DEF Update, TypeOK, Operation
  <2>2. \A s \in Streams : /\ stream'[s].at = stream[s].at
                           /\ stream'[s].job = stream[s].job
                           /\ stream'[s].closed = stream[s].closed
    BY <1>3, <2>1, PublishedTypes DEF Update
  <2>3. /\ \A i \in Jobs \ {j} : ops'[i] = ops[i]
        /\ UNCHANGED <<runtime, worker>>
    BY <1>3 DEF Update, TypeOK
  <2> QED
    BY <1>a, <2>1, <2>2, <2>3, SameStreams DEF Subscribers
<1>4. ASSUME NEW j \in Jobs, NEW state \in {"ok", "failed"}, Finish(j, state)
      PROVE  Subscriptions'
  <2>1. /\ \A i \in Jobs \ {j} : worker'[i] = worker[i]
        /\ worker'[j] = "done" /\ worker[j] = "running"
    BY <1>4 DEF Finish, TypeOK
  <2>2. CASE ops[j] = NoOp
    <3>1. UNCHANGED <<ops, runtime, stream>>
      BY <1>4, <2>2 DEF Finish
    <3> QED
      BY <1>a, <2>1, <3>1, SameStreams DEF Subscribers
  <2>3. CASE ops[j] # NoOp
    <3> DEFINE strs == Published(j, ops[j].stamp + 1)
    <3>1. /\ strs \in [Streams -> Stream]
          /\ \A s \in Streams : strs[s].at = stream[s].at /\ strs[s].job = stream[s].job
                                /\ strs[s].closed = stream[s].closed
      <4>1. ops[j].stamp + 1 \in Nat
        BY <2>3 DEF TypeOK, Operation
      <4> QED
        BY <4>1, PublishedTypes
    <3>2. stream' = ClosedSubscribers(j, strs)
      BY <1>4, <2>3 DEF Finish
    <3> HIDE DEF strs
    <3>3. \A s \in Streams : /\ stream'[s].at = stream[s].at /\ stream'[s].job = stream[s].job
                             /\ s \notin Subscribers(j) => stream'[s].closed = stream[s].closed
      BY <3>1, <3>2 DEF ClosedSubscribers, Stream
    <3>4. /\ \A i \in Jobs \ {j} : /\ ops'[i] = ops[i]
                                   /\ Subscribers(i)' = Subscribers(i)
          /\ Subscribers(j)' = {}
      BY <1>4, <2>3 DEF Finish, TypeOK, Subscribers
    <3>5. JobsAreStarted'
      BY <2>1, <2>3, <3>3, <3>4 DEF Subscriptions, JobsAreStarted
    <3>6. OpenIsSubscribed'
      BY <2>1, <3>3, <3>4 DEF Subscriptions, JobsAreStarted, OpenIsSubscribed, Open
    <3>7. FoundIsFresh'
      <4>1. \A s \in Subscribers(j) : stream[s].at = "open"
        BY DEF Subscriptions, ChannelsAreLive, Open
      <4> QED
        BY <3>3, <4>1 DEF Subscriptions, FoundIsFresh
    <3>8. ChannelsAreLive'
      <4>1. \A i \in Jobs \ {j} : \A s \in Subscribers(i) :
              s \in Streams /\ s \notin Subscribers(j)
        BY <1>a DEF Subscriptions, ChannelsAreLive
      <4> QED
        BY <3>3, <3>4, <4>1 DEF Subscriptions, ChannelsAreLive, Open
    <3> QED
      BY <3>5, <3>6, <3>7, <3>8 DEF Subscriptions
  <2> QED
    BY <2>2, <2>3
<1>5. ASSUME NEW c \in Cancellers, NEW j \in Jobs, CancelGet(c, j)
      PROVE  Subscriptions'
  BY <1>a, <1>5, SameStreams DEF CancelGet, Subscribers
<1>6. ASSUME NEW c \in Cancellers, Cancel(c)
      PROVE  Subscriptions'
  <2>1. \A i \in Jobs : ops'[i] # NoOp => ops[i] # NoOp
    BY <1>6 DEF Cancel, TypeOK
  <2> QED
    BY <1>a, <1>6, <2>1, SameStreams DEF Cancel, Subscribers
<1>7. ASSUME NEW s \in Streams, NEW j \in Jobs, EventsGet(s, j)
      PROVE  Subscriptions'
  <2>1. /\ stream[s].at = "idle" /\ ops[j] # NoOp
        /\ \A x \in Streams \ {s} : stream'[x] = stream[x]
        /\ stream'[s].at = "found" /\ stream'[s].job = j /\ ~ stream'[s].closed
        /\ UNCHANGED <<ops, runtime, worker>>
    BY <1>7 DEF EventsGet, TypeOK, IdleStream
  <2>2. \A i \in Jobs : Subscribers(i)' = Subscribers(i) /\ s \notin Subscribers(i)
    BY <2>1 DEF Subscribers, Subscriptions, ChannelsAreLive, Open
  <2>3. JobsAreStarted'
    BY <2>1 DEF Subscriptions, JobsAreStarted
  <2>4. OpenIsSubscribed'
    BY <2>1, <2>2 DEF Subscriptions, JobsAreStarted, OpenIsSubscribed, Open
  <2>5. FoundIsFresh'
    BY <2>1 DEF Subscriptions, FoundIsFresh
  <2>6. ChannelsAreLive'
    BY <1>a, <2>1, <2>2 DEF Subscriptions, ChannelsAreLive, Open
  <2> QED
    BY <2>3, <2>4, <2>5, <2>6 DEF Subscriptions
<1>8. ASSUME NEW s \in Streams, Subscribe(s)
      PROVE  Subscriptions'
  <2>0. PICK j \in Jobs : j = stream[s].job
    BY <1>8 DEF Subscribe, Subscriptions, JobsAreStarted
  <2> DEFINE open == [stream[s] EXCEPT !.at = "open"]
  <2>1. stream[s].at = "found" /\ ~ stream[s].closed
    BY <1>8 DEF Subscribe, Subscriptions, JobsAreStarted, FoundIsFresh
  <2>2. open \in Stream /\ open.at = "open" /\ open.job = j /\ ~ open.closed
    BY <1>b, <2>0, <2>1 DEF Stream
  <2>3. /\ \A x \in Streams \ {s} : stream'[x] = stream[x]
        /\ stream'[s].at = "open" /\ stream'[s].job = j /\ ~ stream'[s].closed
        /\ UNCHANGED <<ops, worker>>
    <3>1. ops[j] # NoOp => ops[j].stamp \in Nat
      BY <2>1 DEF TypeOK, Operation
    <3> DEFINE new == IF ops[j] # NoOp THEN Send(open, ops[j].stamp) ELSE open
    <3>2. stream' = [stream EXCEPT ![s] = new] /\ UNCHANGED <<ops, worker>>
      BY <1>8, <2>0 DEF Subscribe
    <3>3. new.at = "open" /\ new.job = j /\ ~ new.closed
      <4> HIDE DEF open
      <4> QED
        BY <2>2, <3>1, SendTypes
    <3> HIDE DEF new
    <3> QED
      BY <3>2, <3>3 DEF TypeOK
  <2>4. /\ \A i \in Jobs \ {j} : Subscribers(i)' = Subscribers(i)
        /\ Subscribers(j)' = Subscribers(j) \cup {s}
    <3>1. \A i \in Jobs \ {j} : runtime'[i] = runtime[i]
      BY <1>8, <2>0 DEF Subscribe, TypeOK
    <3>2. runtime'[j] = [RuntimeOf(j) EXCEPT !.subs = @ \cup {s}]
      BY <1>8, <2>0 DEF Subscribe, TypeOK
    <3>3. runtime'[j] \in Runtime /\ runtime'[j].subs = RuntimeOf(j).subs \cup {s}
      BY <2>1, <3>2, SubscribersTypes DEF Runtime
    <3> QED
      BY <2>1, <3>1, <3>3, SubscribersTypes, NullAssumption DEF Subscribers
  <2> HIDE DEF open
  <2>5. JobsAreStarted'
    BY <2>0, <2>1, <2>3 DEF Subscriptions, JobsAreStarted
  <2>6. OpenIsSubscribed'
    BY <2>1, <2>3, <2>4 DEF Subscriptions, JobsAreStarted, OpenIsSubscribed, Open
  <2>7. FoundIsFresh'
    BY <2>3 DEF Subscriptions, FoundIsFresh
  <2>8. ChannelsAreLive'
    <3>1. \A i \in Jobs : s \notin Subscribers(i)
      BY <2>1 DEF Subscriptions, ChannelsAreLive, Open
    <3> QED
      BY <1>a, <2>1, <2>3, <2>4, <3>1 DEF Subscriptions, ChannelsAreLive, Open
  <2> QED
    BY <2>5, <2>6, <2>7, <2>8 DEF Subscriptions
<1>9. ASSUME NEW s \in Streams, Receive(s)
      PROVE  Subscriptions'
  <2>1. \A x \in Streams : /\ stream'[x].at = stream[x].at
                           /\ stream'[x].job = stream[x].job
                           /\ stream'[x].closed = stream[x].closed
    BY <1>9, <1>b DEF Receive, TypeOK, Stream
  <2> QED
    BY <1>a, <1>9, <2>1, SameStreams DEF Receive, Subscribers
<1>10. ASSUME NEW s \in Streams, EndOfStream(s)
       PROVE  Subscriptions'
  <2>1. /\ stream[s].closed
        /\ \A x \in Streams \ {s} : stream'[x] = stream[x]
        /\ stream'[s].at = "idle"
        /\ UNCHANGED <<ops, runtime, worker>>
    BY <1>10 DEF EndOfStream, TypeOK, IdleStream
  <2>2. \A i \in Jobs : Subscribers(i)' = Subscribers(i) /\ s \notin Subscribers(i)
    BY <2>1 DEF Subscribers, Subscriptions, ChannelsAreLive, Open
  <2>3. JobsAreStarted' /\ FoundIsFresh'
    BY <2>1 DEF Subscriptions, JobsAreStarted, FoundIsFresh
  <2>4. OpenIsSubscribed'
    BY <2>1, <2>2 DEF Subscriptions, JobsAreStarted, OpenIsSubscribed, Open
  <2>5. ChannelsAreLive'
    BY <1>a, <2>1, <2>2 DEF Subscriptions, ChannelsAreLive, Open
  <2> QED
    BY <2>3, <2>4, <2>5 DEF Subscriptions
<1>11. ASSUME NEW s \in Streams, Disconnect(s)
       PROVE  Subscriptions'
  <2>1. /\ \A x \in Streams \ {s} : stream'[x] = stream[x]
        /\ stream'[s].at = "idle" /\ stream[s].at = "open"
        /\ UNCHANGED <<ops, worker>>
    BY <1>11 DEF Disconnect, TypeOK, IdleStream
  <2>2. PICK j \in Jobs : j = stream[s].job
    BY <2>1 DEF Subscriptions, JobsAreStarted
  <2>3. \A i \in Jobs : Subscribers(i)' = Subscribers(i) \ {s}
    <3>1. \A i \in Jobs \ {j} : s \notin Subscribers(i)
      BY <2>1, <2>2 DEF Subscriptions, ChannelsAreLive, Open
    <3>2. \A i \in Jobs \ {j} : runtime'[i] = runtime[i]
      BY <1>11, <2>2 DEF Disconnect, TypeOK
    <3>3. Subscribers(j)' = Subscribers(j) \ {s}
      <4>1. CASE runtime[j] = NoRuntime
        BY <1>11, <2>2, <4>1 DEF Disconnect, Subscribers
      <4>2. CASE runtime[j] # NoRuntime
        <5>1. runtime[j] \in Runtime
          BY <2>2, <4>2 DEF TypeOK
        <5>2. runtime'[j] = [runtime[j] EXCEPT !.subs = @ \ {s}]
          BY <1>11, <2>2, <4>2 DEF Disconnect, TypeOK
        <5>3. runtime'[j] \in Runtime /\ runtime'[j].subs = runtime[j].subs \ {s}
          BY <5>1, <5>2 DEF Runtime
        <5> QED
          BY <4>2, <5>3, NullAssumption DEF Subscribers
      <4> QED
        BY <4>1, <4>2
    <3> QED
      BY <3>1, <3>2, <3>3 DEF Subscribers
  <2>4. JobsAreStarted' /\ FoundIsFresh'
    BY <2>1 DEF Subscriptions, JobsAreStarted, FoundIsFresh
  <2>5. OpenIsSubscribed'
    BY <2>1, <2>3 DEF Subscriptions, JobsAreStarted, OpenIsSubscribed, Open
  <2>6. ChannelsAreLive'
    BY <1>a, <2>1, <2>3 DEF Subscriptions, ChannelsAreLive, Open
  <2> QED
    BY <2>4, <2>5, <2>6 DEF Subscriptions
<1>12. CASE Tick
  BY <1>a, <1>12, SameStreams DEF Tick, Subscribers
<1>13. CASE UNCHANGED trackerVars
  BY <1>a, <1>13, SameStreams DEF trackerVars, Subscribers
<1> QED
  BY <1>1, <1>2, <1>3, <1>4, <1>5, <1>6, <1>7, <1>8, <1>9, <1>10, <1>11, <1>12, <1>13
     DEF TrackerNext, Job, Handler
-----------------------------------------------------------------------------
\* UpToDate of one stream.
Latest(st) == IF st.queue = <<>> THEN st.seen ELSE st.queue[Len(st.queue)]
Current(s) ==
  Open(s) /\ ~ stream[s].dropped /\ ops[stream[s].job] # NoOp =>
    ops[stream[s].job].stamp = Latest(stream[s])

LEMMA UpToDateIsCurrent == UpToDate <=> \A s \in Streams : Current(s)
  BY DEF UpToDate, Current, Latest

(* A step that leaves a stream and the content of its operation alone, or  *)
(* drops the operation, leaves the stream current.                         *)
LEMMA CurrentKept ==
  ASSUME NEW s \in Streams, Current(s), stream'[s] = stream[s],
         Open(s) => LET j == stream[s].job
                    IN  ops'[j] # NoOp => ops[j] # NoOp /\ ops'[j].stamp = ops[j].stamp
  PROVE  Current(s)'
  BY DEF Current, Open

(* A progress event of a job: its subscribers get it, and no other open    *)
(* stream is of that job.                                                  *)
LEMMA CurrentPublished ==
  ASSUME TypeOK, Subscriptions, UpToDate,
         NEW j \in Jobs, worker[j] # "done", ops[j] # NoOp,
         ops'[j].stamp = ops[j].stamp + 1,
         \A i \in Jobs \ {j} : ops'[i] = ops[i],
         NEW s \in Streams,
         LET st == Published(j, ops[j].stamp + 1)[s]
         IN  IF s \in Subscribers(j)
               THEN stream'[s] \in {st, [st EXCEPT !.closed = TRUE]}
               ELSE stream'[s] = st
  PROVE  Current(s)'
<1> DEFINE e == ops[j].stamp + 1
           st == Published(j, e)[s]
<1>1. e \in Nat /\ stream[s] \in Stream
  BY DEF TypeOK, Operation
<1>2. CASE s \in Subscribers(j)
  <2>1. stream[s].job = j /\ st = Send(stream[s], e)
    BY <1>1, <1>2, PublishedTypes DEF Subscriptions, ChannelsAreLive
  <2>2. /\ st \in Stream /\ st.job = j
        /\ st.dropped \/ st.queue = Append(stream[s].queue, e)
    BY <1>1, <2>1, SendTypes
  <2>3. st.dropped \/ Latest(st) = e
    <3>1. stream[s].queue \in Seq(Nat)
      BY <1>1 DEF Stream
    <3> HIDE DEF e, st
    <3>2. /\ Append(stream[s].queue, e) # <<>>
          /\ Append(stream[s].queue, e)[Len(Append(stream[s].queue, e))] = e
      BY <1>1, <3>1, LastOfAppend
    <3> QED
      BY <2>2, <3>2, Zenon DEF Latest
  <2>4. stream'[s] \in {st, [st EXCEPT !.closed = TRUE]}
    BY <1>2
  <2> HIDE DEF st
  <2>5. /\ stream'[s].job = j /\ stream'[s].dropped = st.dropped
        /\ Latest(stream'[s]) = Latest(st)
    BY <2>2, <2>4 DEF Stream, Latest
  <2>6. ops'[j].stamp = e
    OBVIOUS
  <2> HIDE DEF e
  <2>7. stream'[s].dropped \/ Latest(stream'[s]) = e
    BY <2>3, <2>5
  <2> QED
    BY <2>5, <2>6, <2>7 DEF Current
<1>3. CASE s \notin Subscribers(j)
  <2>1. stream'[s] = stream[s]
    BY <1>1, <1>3, PublishedTypes
  <2>2. Open(s) => stream[s].job \in Jobs \ {j}
    BY <1>3 DEF Subscriptions, JobsAreStarted, OpenIsSubscribed, Open
  <2> QED
    BY <2>1, <2>2, CurrentKept, UpToDateIsCurrent
<1> QED
  BY <1>2, <1>3

(* UpToDate is kept by every step.                                         *)
LEMMA StepUpToDate ==
  ASSUME TypeOK, Subscriptions, UpToDate, [TrackerNext]_trackerVars
  PROVE  UpToDate'
<1>a. \A s \in Streams : Current(s)
  BY UpToDateIsCurrent
<1>b. SUFFICES \A s \in Streams : Current(s)'
  BY DEF UpToDate, Current, Latest
<1>c. ASSUME UNCHANGED stream,
             \A j \in Jobs : ops'[j] # NoOp =>
               ops[j] # NoOp /\ ops'[j].stamp = ops[j].stamp
      PROVE  \A s \in Streams : Current(s)'
  BY <1>a, <1>c, CurrentKept DEF Subscriptions, JobsAreStarted, Open
<1>1. ASSUME NEW j \in Jobs, NEW rest \in BOOLEAN, Start(j, rest)
      PROVE  \A s \in Streams : Current(s)'
  <2>1. \A i \in Jobs \ {j} : ops'[i] \in {ops[i], NoOp}
    <3> DEFINE started == [ops EXCEPT ![j] =
                 [state |-> "running", started |-> now, finished |-> 0, stamp |-> 1]]
    <3>1. started \in [Jobs -> Operation \cup {NoOp}] /\ \A i \in Jobs \ {j} : started[i] = ops[i]
      BY DEF TypeOK, Operation
    <3>2. ops' \in Trimmed(started)
      BY <1>1 DEF Start
    <3> HIDE DEF started
    <3> QED
      BY <3>1, <3>2, TrimmedKeepsOrDrops
  <2>2. UNCHANGED stream /\ \A s \in Streams : Open(s) => stream[s].job \in Jobs \ {j}
    BY <1>1 DEF Start, Subscriptions, JobsAreStarted, Open
  <2> QED
    BY <1>a, <2>1, <2>2, CurrentKept
<1>2. ASSUME NEW j \in Jobs, SetCancel(j)
      PROVE  \A s \in Streams : Current(s)'
  BY <1>2, <1>c DEF SetCancel
<1>3. ASSUME NEW j \in Jobs, Update(j)
      PROVE  \A s \in Streams : Current(s)'
  <2>1. /\ worker[j] # "done" /\ ops[j] # NoOp
        /\ ops'[j].stamp = ops[j].stamp + 1
        /\ \A i \in Jobs \ {j} : ops'[i] = ops[i]
        /\ stream' = Published(j, ops[j].stamp + 1)
    BY <1>3 DEF Update, TypeOK, Operation
  <2> QED
    BY <2>1, CurrentPublished
<1>4. ASSUME NEW j \in Jobs, NEW state \in {"ok", "failed"}, Finish(j, state)
      PROVE  \A s \in Streams : Current(s)'
  <2>1. CASE ops[j] = NoOp
    BY <1>4, <1>c, <2>1 DEF Finish
  <2>2. CASE ops[j] # NoOp
    <3>1. /\ worker[j] # "done"
          /\ ops'[j].stamp = ops[j].stamp + 1
          /\ \A i \in Jobs \ {j} : ops'[i] = ops[i]
          /\ stream' = ClosedSubscribers(j, Published(j, ops[j].stamp + 1))
      BY <1>4, <2>2 DEF Finish, TypeOK, Operation
    <3> DEFINE strs == Published(j, ops[j].stamp + 1)
    <3>2. \A s \in Streams : IF s \in Subscribers(j)
                               THEN stream'[s] = [strs[s] EXCEPT !.closed = TRUE]
                               ELSE stream'[s] = strs[s]
      <4> HIDE DEF strs
      <4>1. stream' = ClosedSubscribers(j, strs)
        BY <3>1 DEF strs
      <4> QED
        BY <4>1 DEF ClosedSubscribers
    <3> QED
      BY <2>2, <3>1, <3>2, CurrentPublished
  <2> QED
    BY <2>1, <2>2
<1>5. ASSUME NEW c \in Cancellers, NEW j \in Jobs, CancelGet(c, j)
      PROVE  \A s \in Streams : Current(s)'
  BY <1>5, <1>c DEF CancelGet
<1>6. ASSUME NEW c \in Cancellers, Cancel(c)
      PROVE  \A s \in Streams : Current(s)'
  <2>1. \A i \in Jobs : ops'[i] # NoOp => ops[i] # NoOp /\ ops'[i].stamp = ops[i].stamp
    BY <1>6 DEF Cancel, TypeOK, Operation
  <2> QED
    BY <1>6, <1>c, <2>1 DEF Cancel
<1>7. ASSUME NEW s \in Streams, NEW j \in Jobs, EventsGet(s, j)
      PROVE  \A x \in Streams : Current(x)'
  <2>1. /\ \A x \in Streams \ {s} : stream'[x] = stream[x]
        /\ stream'[s].at = "found" /\ UNCHANGED ops
    BY <1>7 DEF EventsGet, TypeOK, IdleStream
  <2> QED
    BY <1>a, <2>1, CurrentKept DEF Current, Open
<1>8. ASSUME NEW s \in Streams, Subscribe(s)
      PROVE  \A x \in Streams : Current(x)'
  <2>0. PICK j \in Jobs : j = stream[s].job
    BY <1>8 DEF Subscribe, Subscriptions, JobsAreStarted
  <2> DEFINE open == [stream[s] EXCEPT !.at = "open"]
             new == IF ops[j] # NoOp THEN Send(open, ops[j].stamp) ELSE open
  <2>1. UNCHANGED ops /\ stream' = [stream EXCEPT ![s] = new]
    BY <1>8, <2>0 DEF Subscribe
  <2>2. open \in Stream /\ open.job = j
    BY <2>0 DEF TypeOK, Stream
  <2>3. /\ new.job = j
        /\ ops[j] # NoOp /\ ~ new.dropped => Latest(new) = ops[j].stamp
    <3>1. open.queue \in Seq(Nat)
      BY <2>2 DEF Stream
    <3>2. CASE ops[j] = NoOp
      BY <2>2, <3>2
    <3>3. CASE ops[j] # NoOp
      <4>1. ops[j].stamp \in Nat
        BY <3>3 DEF TypeOK, Operation
      <4> DEFINE q == Append(open.queue, ops[j].stamp)
      <4>2. q # <<>> /\ q[Len(q)] = ops[j].stamp
        <5> HIDE DEF open
        <5> QED
          BY <3>1, <4>1, LastOfAppend
      <4>3. /\ Send(open, ops[j].stamp).job = j
            /\ \/ Send(open, ops[j].stamp).dropped
               \/ Send(open, ops[j].stamp).queue = q
        <5> HIDE DEF open
        <5> QED
          BY <2>2, <4>1, SendTypes DEF q
      <4>4. new = Send(open, ops[j].stamp)
        BY <3>3
      <4> HIDE DEF new, open, q
      <4> QED
        BY <4>2, <4>3, <4>4 DEF Latest
    <3> QED
      BY <3>2, <3>3
  <2> HIDE DEF new
  <2>4. stream'[s] = new /\ \A x \in Streams \ {s} : stream'[x] = stream[x]
    BY <2>1 DEF TypeOK
  <2>5. Current(s)'
    BY <2>1, <2>3, <2>4 DEF Current
  <2> QED
    BY <1>a, <2>1, <2>4, <2>5, CurrentKept
<1>9. ASSUME NEW s \in Streams, Receive(s)
      PROVE  \A x \in Streams : Current(x)'
  <2> DEFINE st == stream[s]
             read == [st EXCEPT !.seen = Head(st.queue), !.queue = Tail(st.queue)]
  <2>1. /\ st \in Stream /\ st.queue \in Seq(Nat) /\ st.queue # <<>>
        /\ st.at = "open"
    BY <1>9 DEF Receive, TypeOK, Stream
  <2>2. stream' = [stream EXCEPT ![s] = read] /\ UNCHANGED ops
    BY <1>9, <2>1 DEF Receive, TypeOK, Stream
  <2>3. /\ read.job = st.job /\ read.dropped = st.dropped
        /\ read.seen = Head(st.queue) /\ read.queue = Tail(st.queue)
    <3> HIDE DEF st
    <3> QED
      BY <2>1 DEF Stream
  <2>4. Latest(read) = Latest(st)
    <3>1. Latest(st) = st.queue[Len(st.queue)]
      BY <2>1 DEF Latest
    <3> HIDE DEF st, read
    <3>2. /\ Tail(st.queue) = <<>> => Head(st.queue) = st.queue[Len(st.queue)]
          /\ Tail(st.queue) # <<>> =>
               Tail(st.queue)[Len(Tail(st.queue))] = st.queue[Len(st.queue)]
      BY <2>1, LastOfTail
    <3> QED
      BY <2>3, <3>1, <3>2, Zenon DEF Latest
  <2> HIDE DEF read
  <2>5. stream'[s] = read /\ \A x \in Streams \ {s} : stream'[x] = stream[x]
    BY <2>2 DEF TypeOK
  <2>6. Current(s)'
    BY <1>a, <2>1, <2>2, <2>3, <2>4, <2>5 DEF Current, Open
  <2> QED
    BY <1>a, <2>2, <2>5, <2>6, CurrentKept
<1>10. ASSUME NEW s \in Streams, EndOfStream(s) \/ Disconnect(s)
       PROVE  \A x \in Streams : Current(x)'
  <2>1. /\ \A x \in Streams \ {s} : stream'[x] = stream[x]
        /\ stream'[s].at = "idle" /\ UNCHANGED ops
    BY <1>10 DEF EndOfStream, Disconnect, TypeOK, IdleStream
  <2> QED
    BY <1>a, <2>1, CurrentKept DEF Current, Open
<1>11. CASE Tick
  BY <1>11, <1>c DEF Tick
<1>12. CASE UNCHANGED trackerVars
  BY <1>12, <1>c DEF trackerVars
<1> QED
  BY <1>1, <1>2, <1>3, <1>4, <1>5, <1>6, <1>7, <1>8, <1>9, <1>10, <1>11, <1>12
     DEF TrackerNext, Job, Handler
-----------------------------------------------------------------------------
(* Cancelled contexts stay cancelled, and only Cancel marks an operation.  *)
LEMMA StepCancelling ==
  ASSUME TypeOK, CancellingIsCancelled, [TrackerNext]_trackerVars
  PROVE  CancellingIsCancelled'
<1>a. ASSUME cancelled \subseteq cancelled',
             \A j \in Jobs : ops'[j] = ops[j] \/ ops'[j] = NoOp \/ ops'[j].state # "cancelling"
      PROVE  CancellingIsCancelled'
  BY <1>a DEF CancellingIsCancelled
<1>1. ASSUME NEW j \in Jobs, NEW rest \in BOOLEAN, Start(j, rest)
      PROVE  CancellingIsCancelled'
  <2> DEFINE started == [ops EXCEPT ![j] =
               [state |-> "running", started |-> now, finished |-> 0, stamp |-> 1]]
  <2>1. /\ started \in [Jobs -> Operation \cup {NoOp}]
        /\ started[j].state = "running" /\ \A i \in Jobs \ {j} : started[i] = ops[i]
    BY DEF TypeOK, Operation
  <2>2. ops' \in Trimmed(started) /\ UNCHANGED cancelled
    BY <1>1 DEF Start
  <2> HIDE DEF started
  <2>3. \A i \in Jobs : ops'[i] \in {started[i], NoOp}
    BY <2>1, <2>2, TrimmedKeepsOrDrops
  <2> QED
    BY <1>a, <2>1, <2>2, <2>3
<1>2. ASSUME NEW j \in Jobs, Update(j)
      PROVE  CancellingIsCancelled'
  BY <1>a, <1>2 DEF Update, TypeOK, Operation
<1>3. ASSUME NEW j \in Jobs, NEW state \in {"ok", "failed"}, Finish(j, state)
      PROVE  CancellingIsCancelled'
  BY <1>a, <1>3 DEF Finish, TypeOK, Operation
<1>4. ASSUME NEW c \in Cancellers, Cancel(c)
      PROVE  CancellingIsCancelled'
  BY <1>4 DEF Cancel, TypeOK, Operation, CancellingIsCancelled
<1>5. CASE UNCHANGED <<ops, cancelled>>
  BY <1>5 DEF CancellingIsCancelled
<1> QED
  BY <1>1, <1>2, <1>3, <1>4, <1>5
     DEF TrackerNext, Job, Handler, SetCancel, CancelGet, EventsGet, Subscribe, Receive,
         EndOfStream, Disconnect, Tick, trackerVars

(* A finished operation stays as it is, or is trimmed.                     *)
LEMMA StepFinished ==
  ASSUME TypeOK, JobsAreStarted, FinishedIsDone, [TrackerNext]_trackerVars
  PROVE  /\ FinishedIsDone'
         /\ \A j \in Jobs : Finished(j) => ops'[j] \in {ops[j], NoOp}
<1> DEFINE Goal == /\ FinishedIsDone'
                   /\ \A j \in Jobs : Finished(j) => ops'[j] \in {ops[j], NoOp}
<1>1. ASSUME NEW j \in Jobs, NEW rest \in BOOLEAN, Start(j, rest)
      PROVE  Goal
  <2> DEFINE started == [ops EXCEPT ![j] =
               [state |-> "running", started |-> now, finished |-> 0, stamp |-> 1]]
  <2>1. /\ started \in [Jobs -> Operation \cup {NoOp}]
        /\ started[j].finished = 0 /\ \A i \in Jobs \ {j} : started[i] = ops[i]
    BY DEF TypeOK, Operation
  <2>2. /\ ops' \in Trimmed(started)
        /\ worker[j] = "none" /\ \A i \in Jobs \ {j} : worker'[i] = worker[i]
    BY <1>1 DEF Start, TypeOK
  <2> HIDE DEF started
  <2>3. \A i \in Jobs : ops'[i] \in {started[i], NoOp}
    BY <2>1, <2>2, TrimmedKeepsOrDrops
  <2> QED
    BY <2>1, <2>2, <2>3 DEF FinishedIsDone, Finished
<1>2. ASSUME NEW j \in Jobs, Update(j)
      PROVE  Goal
  BY <1>2 DEF Update, TypeOK, Operation, FinishedIsDone, Finished
<1>3. ASSUME NEW j \in Jobs, NEW state \in {"ok", "failed"}, Finish(j, state)
      PROVE  Goal
  BY <1>3 DEF Finish, TypeOK, Operation, FinishedIsDone, Finished
<1>4. ASSUME NEW c \in Cancellers, Cancel(c)
      PROVE  Goal
  BY <1>4 DEF Cancel, TypeOK, Operation, FinishedIsDone, Finished
<1>5. ASSUME NEW j \in Jobs, SetCancel(j)
      PROVE  Goal
  BY <1>5 DEF SetCancel, TypeOK, FinishedIsDone, Finished
<1>6. CASE UNCHANGED <<ops, worker>>
  BY <1>6 DEF FinishedIsDone, Finished
<1> QED
  BY <1>1, <1>2, <1>3, <1>4, <1>5, <1>6
     DEF TrackerNext, Job, Handler, CancelGet, EventsGet, Subscribe, Receive,
         EndOfStream, Disconnect, Tick, trackerVars
-----------------------------------------------------------------------------
(* The invariant holds of every behaviour of the tracker.                  *)
LEMMA TrackerInvariant == TrackerSpec => []IInv
<1>1. IInv /\ [TrackerNext]_trackerVars => IInv'
  BY StepTypes, StepSubscriptions, StepUpToDate, StepCancelling, StepFinished
     DEF IInv, Subscriptions
<1> QED
  BY <1>1, InitIInv, PTL DEF TrackerSpec

(* The tracker's state is well-typed.                                      *)
THEOREM TrackerTypes == TrackerSpec => []TypeOK
<1>1. IInv => TypeOK
  BY DEF IInv
<1> QED
  BY <1>1, TrackerInvariant, PTL

(* For any number of jobs, streams and buffers: no send on a channel that  *)
(* is closed and no second close, in whichever order Finish, unsubscribe   *)
(* and Subscribe come.                                                     *)
THEOREM NoDeadChannel == TrackerSpec => []ChannelsAreLive
<1>1. IInv => ChannelsAreLive
  BY DEF IInv, Subscriptions
<1> QED
  BY <1>1, TrackerInvariant, PTL

(* A stream whose channel never was full has, at the end of what it was    *)
(* sent, the current progress of its operation.                            *)
THEOREM StreamsAreUpToDate == TrackerSpec => []UpToDate
<1>1. IInv => UpToDate
  BY DEF IInv
<1> QED
  BY <1>1, TrackerInvariant, PTL

(* An operation shown as cancelling has had its context cancelled.         *)
THEOREM CancellingHasCancelled == TrackerSpec => []CancellingIsCancelled
<1>1. IInv => CancellingIsCancelled
  BY DEF IInv
<1> QED
  BY <1>1, TrackerInvariant, PTL

(* No step changes a finished operation, but for the trim that drops it.   *)
THEOREM FinishedStaysFinished == TrackerSpec => TerminalIsFinal
<1> DEFINE Final ==
  \A j \in Jobs : ops[j] # NoOp /\ ops[j].finished # 0 => ops'[j] \in {ops[j], NoOp}
<1>1. IInv /\ [TrackerNext]_trackerVars => [Final]_trackerVars
  BY StepFinished DEF IInv, Subscriptions, Finished
<1> QED
  BY <1>1, TrackerInvariant, PTL DEF TrackerSpec, TerminalIsFinal
-----------------------------------------------------------------------------
(***************************************************************************)
(* The PDF ingest.                                                         *)
(***************************************************************************)
(* The larger and the smaller of two, and the ends of an interval.         *)
LEMMA MaxOfTwo ==
  ASSUME NEW a \in Int, NEW b \in Int
  PROVE  /\ Max({a, b}) \in {a, b} /\ Max({a, b}) \in Int
         /\ Max({a, b}) >= a /\ Max({a, b}) >= b
<1> DEFINE S == {a, b}
<1>1. \E x \in S : \A y \in S : x >= y
  OBVIOUS
<1> HIDE DEF S
<1>2. Max(S) \in S /\ \A y \in S : Max(S) >= y
  BY <1>1, Zenon DEF Max
<1> QED
  BY <1>2 DEF S

LEMMA MinOfTwo ==
  ASSUME NEW a \in Int, NEW b \in Int
  PROVE  /\ Min({a, b}) \in {a, b} /\ Min({a, b}) \in Int
         /\ Min({a, b}) <= a /\ Min({a, b}) <= b
<1> DEFINE S == {a, b}
<1>1. \E x \in S : \A y \in S : x <= y
  OBVIOUS
<1> HIDE DEF S
<1>2. Min(S) \in S /\ \A y \in S : Min(S) <= y
  BY <1>1, Zenon DEF Min
<1> QED
  BY <1>2 DEF S

LEMMA EndsOfInterval ==
  ASSUME NEW lo \in Int, NEW hi \in Int, lo <= hi
  PROVE  Min(lo .. hi) = lo /\ Max(lo .. hi) = hi
<1> DEFINE S == lo .. hi
<1>1. (\E x \in S : \A y \in S : x <= y) /\ (\E x \in S : \A y \in S : x >= y)
  <2>1. lo \in S /\ hi \in S /\ \A y \in S : lo <= y /\ hi >= y
    OBVIOUS
  <2> QED
    BY <2>1
<1> HIDE DEF S
<1>2. Min(S) \in S /\ \A y \in S : Min(S) <= y
  BY <1>1, Zenon DEF Min
<1>3. Max(S) \in S /\ \A y \in S : Max(S) >= y
  BY <1>1, Zenon DEF Max
<1> QED
  BY <1>2, <1>3 DEF S
-----------------------------------------------------------------------------
(* The pages that a range of a document of n pages selects: never none.    *)
LEMMA SelectedPages ==
  ASSUME NEW range \in Nat \X Nat, NEW n \in Nat \ {0}
  PROVE  \E lo, hi \in 1 .. n : lo <= hi /\ Selected(range, n) = lo .. hi
<1> DEFINE end == IF range[2] = 0 \/ range[2] > n THEN n ELSE range[2]
           start == IF range[1] = 0 THEN 1 ELSE range[1]
           lo == Min({start, end})
<1>1. range[1] \in Nat /\ range[2] \in Nat
  OBVIOUS
<1>2. end \in 1 .. n /\ start \in Nat \ {0}
  BY <1>1
<1>3. Selected(range, n) = lo .. end
  BY DEF Selected
<1> HIDE DEF end, start
<1>4. lo \in {start, end} /\ lo <= end
  BY <1>2, MinOfTwo
<1> HIDE DEF lo
<1>5. lo \in 1 .. n
  BY <1>2, <1>4
<1> QED
  BY <1>2, <1>3, <1>4, <1>5

\* An outline as LoadBookmarks returns it.
Outline == Seq([from : Nat, thru : Int, titled : BOOLEAN])

LEMMA EndOfMark ==
  ASSUME NEW marks \in Outline, NEW i \in DOMAIN marks
  PROVE  /\ marks[i].from \in Nat
         /\ EndOf(marks, i) \in Int /\ EndOf(marks, i) >= marks[i].from
<1>1. /\ Len(marks) \in Nat /\ DOMAIN marks = 1 .. Len(marks)
      /\ \A k \in 1 .. Len(marks) : marks[k].from \in Nat /\ marks[k].thru \in Int
  <2> DEFINE M == [from : Nat, thru : Int, titled : BOOLEAN]
  <2>1. marks \in Seq(M)
    BY DEF Outline
  <2> HIDE DEF M
  <2>2. /\ Len(marks) \in Nat /\ DOMAIN marks = 1 .. Len(marks)
        /\ \A k \in 1 .. Len(marks) : marks[k] \in M
    BY <2>1, LenProperties, ElementOfSeq
  <2> QED
    BY <2>2 DEF M
<1>2. /\ Max({marks[i].from, marks[i].thru}) \in Int
      /\ Max({marks[i].from, marks[i].thru}) >= marks[i].from
  <2>1. marks[i].from \in Int /\ marks[i].thru \in Int
    BY <1>1
  <2> QED
    BY <2>1, MaxOfTwo
<1>3. CASE /\ i < Len(marks) /\ marks[i + 1].from > marks[i].from
           /\ marks[i].thru <= marks[i].from
  <2>1. EndOf(marks, i) = marks[i + 1].from - 1
    BY <1>3 DEF EndOf
  <2>2. i + 1 \in 1 .. Len(marks)
    BY <1>1, <1>3
  <2> QED
    BY <1>1, <1>3, <2>1, <2>2
<1>4. CASE ~ (/\ i < Len(marks) /\ marks[i + 1].from > marks[i].from
              /\ marks[i].thru <= marks[i].from)
  <2>1. EndOf(marks, i) = Max({marks[i].from, marks[i].thru})
    BY <1>4 DEF EndOf
  <2> QED
    BY <1>1, <1>2, <2>1
<1> QED
  BY <1>3, <1>4

(* Every section of BuildSections is a range of pages, in order, from the  *)
(* first selected page on.                                                 *)
LEMMA SectionsAreRanges ==
  ASSUME NEW first \in Nat \ {0}, NEW last \in Nat, first <= last, NEW marks \in Outline,
         NEW s \in Sections(first, last, marks)
  PROVE  /\ s.from \in Nat /\ s.thru \in Nat
         /\ first <= s.from /\ s.from <= s.thru
<1> DEFINE whole == [from |-> first, thru |-> last, titled |-> FALSE]
           opening == [from |-> first, thru |-> marks[1].from - 1, titled |-> FALSE]
           kept == {k \in DOMAIN marks :
                      marks[k].from <= last /\ Min({EndOf(marks, k), last}) >= first}
           entry(i) == [from |-> Max({marks[i].from, first}),
                        thru |-> Min({EndOf(marks, i), last}), titled |-> marks[i].titled]
           gap == IF marks # <<>> /\ marks[1].from > first THEN {opening} ELSE {}
           entries == {entry(i) : i \in kept}
<1>1. Sections(first, last, marks) = IF gap \cup entries = {} THEN {whole} ELSE gap \cup entries
  BY DEF Sections
<1>2. s = whole \/ s \in gap \/ s \in entries
  BY <1>1
<1>3. CASE s = whole
  BY <1>3
<1>4. CASE s \in gap
  <2>1. s = opening /\ marks # <<>> /\ marks[1].from > first
    BY <1>4
  <2>2. 1 \in DOMAIN marks
    BY <2>1, EmptySeq, LenProperties DEF Outline
  <2>3. marks[1].from \in Nat
    BY <2>2, EndOfMark
  <2> QED
    BY <2>1, <2>3
<1>5. CASE s \in entries
  <2>1. PICK i \in kept : s = entry(i)
    BY <1>5
  <2>2. /\ i \in DOMAIN marks /\ marks[i].from <= last
        /\ Min({EndOf(marks, i), last}) >= first
    BY <2>1
  <2>3. /\ marks[i].from \in Nat /\ EndOf(marks, i) \in Int
        /\ EndOf(marks, i) >= marks[i].from
    BY <2>2, EndOfMark
  <2> DEFINE f == Max({marks[i].from, first})
             t == Min({EndOf(marks, i), last})
  <2>4. f \in {marks[i].from, first} /\ f >= first
    <3>1. \A a, b \in Int : Max({a, b}) \in {a, b} /\ Max({a, b}) >= b
      BY MaxOfTwo
    <3> HIDE DEF entries, kept, entry, gap, opening, whole
    <3> QED
      BY <2>3, <3>1
  <2>5. t \in {EndOf(marks, i), last}
    <3>1. \A a, b \in Int : Min({a, b}) \in {a, b}
      BY MinOfTwo
    <3> HIDE DEF entries, kept, entry, gap, opening, whole
    <3> QED
      BY <2>3, <3>1
  <2>6. s.from = f /\ s.thru = t /\ t >= first
    BY <2>1, <2>2
  <2> HIDE DEF f, t
  <2> QED
    BY <2>2, <2>3, <2>4, <2>5, <2>6
<1> QED
  BY <1>2, <1>3, <1>4, <1>5

(* A chunk cites a range of pages that holds its text.                     *)
Cites(c) == 1 <= c.from /\ c.from <= c.thru /\ c.pages \subseteq c.from .. c.thru

LEMMA ChunksCite ==
  ASSUME NEW lo \in Nat \ {0}, NEW hi \in Nat, lo <= hi,
         NEW texts \in [lo .. hi -> 0 .. 2], NEW marks \in Outline,
         NEW c \in Chunks(texts, marks)
  PROVE  c \in Chunk /\ Cites(c) /\ c.pages \subseteq DOMAIN texts
<1> DEFINE ps == DOMAIN texts
           Spoken(s) == {p \in ps \cap (s.from .. s.thru) : texts[p] > 0}
<1>1. ps = lo .. hi
  OBVIOUS
<1>2. Min(ps) = lo /\ Max(ps) = hi
  BY <1>1, EndsOfInterval
<1>3. PICK s \in Sections(lo, hi, marks) :
        c = [from |-> s.from, thru |-> s.thru, pages |-> Spoken(s)]
  <2>1. Chunks(texts, marks) =
          {[from |-> s.from, thru |-> s.thru, pages |-> Spoken(s)] :
             s \in {t \in Sections(Min(ps), Max(ps), marks) : t.titled \/ Spoken(t) # {}}}
    BY DEF Chunks
  <2> HIDE DEF Spoken, ps
  <2> QED
    BY <1>2, <2>1
<1>4. s.from \in Nat /\ s.thru \in Nat /\ lo <= s.from /\ s.from <= s.thru
  BY SectionsAreRanges
<1>5. /\ Spoken(s) \subseteq lo .. hi /\ Spoken(s) \subseteq s.from .. s.thru
  BY <1>1
<1>6. lo .. hi \subseteq Nat
  OBVIOUS
<1> HIDE DEF Spoken
<1> QED
  BY <1>1, <1>3, <1>4, <1>5, <1>6 DEF Chunk, Cites
-----------------------------------------------------------------------------
(* The inductive invariant.                                                *)
TextRuns == UNION {[ps -> 0 .. 2] : ps \in SUBSET Nat}
PageRange(ps) == \E lo \in Nat \ {0}, hi \in Nat : lo <= hi /\ ps = lo .. hi

Ingest == [at : Stages \ {"removing"}, path : Paths, range : Ranges, force : BOOLEAN,
           count : Nat, hash : Files \cup {Missing}, texts : TextRuns,
           chunks : SUBSET Chunk, doc : Nat]
Removal == [at : {"removing"}, path : Paths]

JobTypes ==
  /\ DOMAIN job = Requests
  /\ \A r \in Requests : job[r] \in Ingest \cup Removal \cup {Idle}

AfterUpsert == {"written", "found"}
AfterChunks == {"chunked"} \cup AfterUpsert
AfterPages == {"extracted"} \cup AfterChunks
AfterHash == {"hashed", "missed"} \cup AfterPages

\* What a request has read or computed.
JobHoldsData ==
  \A r \in Requests :
    /\ job[r].at \in AfterHash => job[r].hash \in Files
    /\ job[r].at \in AfterPages => PageRange(DOMAIN job[r].texts)
    /\ job[r].at \in AfterChunks =>
         \A c \in job[r].chunks : Cites(c) /\ c.pages \subseteq DOMAIN job[r].texts

\* Ids are keys, below the next one.
DocumentIds ==
  /\ nextId >= 1 /\ \A d \in documents : d.id >= 1 /\ d.id < nextId
  /\ \A d, e \in documents : d.id = e.id => d = e

\* The document that a request has found is of its URI, or gone.
FoundIsOwn ==
  \A r \in Requests : job[r].at = "found" =>
    /\ job[r].doc >= 1 /\ job[r].doc < nextId
    /\ \A d \in documents : d.id = job[r].doc => d.uri = Uri(r)

\* The one request between its transactions wrote the document of a settled URI.
SettledByOne ==
  \A u \in Uris \ unsettled :
    /\ \A q, r \in Between(u) : q = r
    /\ \A r \in Between(u) : \A d \in DocumentOf(u) :
         /\ d.hash = job[r].hash /\ d.chunks = job[r].chunks
         /\ job[r].at = "found" => d.id = job[r].doc

PInv ==
  /\ PdfTypeOK /\ JobTypes /\ JobHoldsData /\ DocumentIds /\ FoundIsOwn /\ LinkIsOwnDocument
  /\ CitationsCoverText /\ SettledByOne /\ RowDescribesDocument
-----------------------------------------------------------------------------
(* What a request reads from a file.                                       *)
LEMMA BookmarksAreAnOutline ==
  ASSUME NEW file \in Files, NEW n \in Nat
  PROVE  Bookmarks(file, n) \in Outline
<1> DEFINE M == [from : Nat, thru : Int, titled : BOOLEAN]
           clamp(m) == [m EXCEPT !.thru = Min({Max({m.from, m.thru}), n})]
<1>1. file.marks \in Seq(Mark)
  BY FileAssumption
<1>2. /\ Len(file.marks) \in Nat /\ DOMAIN file.marks = 1 .. Len(file.marks)
      /\ \A i \in 1 .. Len(file.marks) : file.marks[i] \in Mark
  BY <1>1, LenProperties, ElementOfSeq
<1>3. ASSUME NEW m \in Mark PROVE clamp(m) \in M
  <2>1. m.from \in Int /\ m.thru \in Int /\ n \in Int
    BY DEF Mark
  <2>2. Max({m.from, m.thru}) \in Int
    BY <2>1, MaxOfTwo
  <2>3. Min({Max({m.from, m.thru}), n}) \in Int
    BY <2>1, <2>2, MinOfTwo
  <2> QED
    BY <2>3 DEF Mark
<1>4. Bookmarks(file, n) = [i \in 1 .. Len(file.marks) |-> clamp(file.marks[i])]
  BY <1>2 DEF Bookmarks
<1> HIDE DEF M, clamp
<1>5. \A i \in 1 .. Len(file.marks) : clamp(file.marks[i]) \in M
  BY <1>2, <1>3
<1>6. [i \in 1 .. Len(file.marks) |-> clamp(file.marks[i])] \in Seq(M)
  BY <1>2, <1>5
<1> QED
  BY <1>4, <1>6 DEF Outline, M

LEMMA TextsOfARange ==
  ASSUME NEW file \in Files, file.state = "plain", NEW range \in Ranges
  PROVE  Texts(file, range) \in TextRuns /\ PageRange(DOMAIN Texts(file, range))
<1>1. file.pages \in Seq(Page) /\ Len(file.pages) > 0
  BY FileAssumption
<1>2. /\ Len(file.pages) \in Nat \ {0}
      /\ \A p \in 1 .. Len(file.pages) : file.pages[p].own \in 0 .. 2
  <2>1. Len(file.pages) \in Nat /\ \A p \in 1 .. Len(file.pages) : file.pages[p] \in Page
    BY <1>1, LenProperties, ElementOfSeq
  <2> QED
    BY <1>1, <2>1 DEF Page
<1>3. PICK lo, hi \in 1 .. Len(file.pages) :
        lo <= hi /\ Selected(range, Len(file.pages)) = lo .. hi
  <2>1. range \in Nat \X Nat
    BY PdfAssumption
  <2>2. Len(file.pages) \in Nat \ {0}
    BY <1>2
  <2>3. \E lo, hi \in 1 .. Len(file.pages) :
          lo <= hi /\ Selected(range, Len(file.pages)) = lo .. hi
    BY <2>1, <2>2, SelectedPages, Zenon
  <2> QED
    BY <2>3
<1>4. Texts(file, range) \in [lo .. hi -> 0 .. 2]
  BY <1>2, <1>3 DEF Texts
<1>5. lo \in Nat \ {0} /\ hi \in Nat /\ lo .. hi \in SUBSET Nat
  BY <1>2, <1>3
<1>6. DOMAIN Texts(file, range) = lo .. hi
  BY <1>4
<1> QED
  BY <1>3, <1>4, <1>5, <1>6 DEF TextRuns, PageRange
-----------------------------------------------------------------------------
(* What a step of one request leaves of the others.                        *)
LEMMA IngestJob ==
  ASSUME JobTypes, NEW r \in Requests, job[r].at \in Stages, job[r].at # "removing"
  PROVE  job[r] \in Ingest /\ Uri(r) \in Uris
<1>1. job[r] \in Ingest
  BY DEF JobTypes, Removal, Idle, Stages
<1> QED
  BY <1>1, PdfAssumption DEF Ingest, Uri

LEMMA JobChanges ==
  ASSUME JobTypes, NEW r \in Requests, NEW v \in Ingest \cup Removal \cup {Idle}, Go(r, v)
  PROVE  /\ JobTypes' /\ job'[r] = v
         /\ \A q \in Requests \ {r} : job'[q] = job[q] /\ Uri(q)' = Uri(q)
BY DEF JobTypes, Go, Uri

LEMMA StagesOfJobs ==
  ASSUME JobTypes, NEW r \in Requests
  PROVE  job[r] = Idle \/ job[r].at \in Stages
BY DEF JobTypes, Ingest, Removal, Stages

\* Only the requests that have not written the document move.
EarlyJobsMove ==
  \A q \in Requests :
    job[q].at \in AfterUpsert \/ job'[q].at \in AfterUpsert => job'[q] = job[q]

LEMMA EarlyMovesKeepBetween ==
  ASSUME EarlyJobsMove, NEW u
  PROVE  Between(u)' = Between(u)
BY DEF EarlyJobsMove, Between, Uri, AfterUpsert

(* A step that writes no table and moves a request that has not written    *)
(* its document keeps the invariant.                                       *)
LEMMA QuietStep ==
  ASSUME PInv, UNCHANGED tables, EarlyJobsMove, JobTypes', JobHoldsData',
         disk' \in [Paths -> Files \cup {Missing}], starts' \in Nat, edits' \in Nat
  PROVE  PInv'
<1> USE DEF PInv, tables
<1>1. PdfTypeOK'
  <2>1. \A r \in Requests : (job[r] = Idle \/ job[r].at \in Stages)'
    BY DEF JobTypes, Ingest, Removal, Stages
  <2> QED
    BY <2>1 DEF PdfTypeOK
<1>2. DocumentIds' /\ LinkIsOwnDocument' /\ CitationsCoverText'
  BY DEF DocumentIds, LinkIsOwnDocument, CitationsCoverText, DocumentOf
<1>3. FoundIsOwn'
  BY DEF FoundIsOwn, EarlyJobsMove, AfterUpsert, Uri
<1>4. \A u : Between(u)' = Between(u) /\ DocumentOf(u)' = DocumentOf(u)
  BY EarlyMovesKeepBetween DEF DocumentOf
<1>5. \A u : \A r \in Between(u) : job'[r] = job[r]
  BY DEF EarlyJobsMove, Between, AfterUpsert
<1>6. SettledByOne'
  BY <1>4, <1>5 DEF SettledByOne
<1>7. RowDescribesDocument'
  BY <1>4 DEF RowDescribesDocument
<1> QED
  BY <1>1, <1>2, <1>3, <1>6, <1>7

\* What JobHoldsData says of one request in state v.
Holds(v) ==
  /\ v.at \in AfterHash => v.hash \in Files
  /\ v.at \in AfterPages => PageRange(DOMAIN v.texts)
  /\ v.at \in AfterChunks => \A c \in v.chunks : Cites(c) /\ c.pages \subseteq DOMAIN v.texts

LEMMA JobData ==
  ASSUME PInv, NEW r \in Requests, NEW v \in Ingest \cup Removal \cup {Idle}, Go(r, v), Holds(v)
  PROVE  JobTypes' /\ JobHoldsData'
<1>1. /\ JobTypes' /\ job'[r] = v
      /\ \A q \in Requests \ {r} : job'[q] = job[q]
  BY JobChanges DEF PInv
<1>2. ASSUME NEW q \in Requests PROVE Holds(job'[q])
  BY <1>1 DEF PInv, JobHoldsData, Holds
<1> QED
  BY <1>1, <1>2 DEF JobHoldsData, Holds

LEMMA EarlyStep ==
  ASSUME PInv, NEW r \in Requests, job[r].at \notin AfterUpsert,
         NEW v \in Ingest \cup Removal \cup {Idle}, v.at \notin AfterUpsert, Go(r, v), Holds(v),
         UNCHANGED tables, UNCHANGED <<disk, edits>>, starts' \in Nat
  PROVE  PInv'
<1>1. /\ job'[r] = v /\ \A q \in Requests \ {r} : job'[q] = job[q]
  BY JobChanges DEF PInv
<1>2. EarlyJobsMove
  BY <1>1 DEF EarlyJobsMove
<1>3. JobTypes' /\ JobHoldsData'
  BY JobData
<1>4. disk' \in [Paths -> Files \cup {Missing}] /\ edits' \in Nat
  BY DEF PInv, PdfTypeOK
<1> QED
  BY <1>2, <1>3, <1>4, QuietStep

LEMMA IdleHolds == Idle.at \notin AfterHash \cup AfterUpsert /\ Holds(Idle)
BY DEF Idle, Holds, AfterHash, AfterPages, AfterChunks, AfterUpsert

LEMMA EarlyEnd ==
  ASSUME PInv, NEW r \in Requests, job[r].at \notin AfterUpsert, End(r),
         UNCHANGED tables, UNCHANGED <<disk, starts, edits>>
  PROVE  PInv'
<1>1. Go(r, Idle)
  BY DEF End, Go
<1>2. starts' \in Nat
  BY DEF PInv, PdfTypeOK
<1> QED
  BY <1>1, <1>2, IdleHolds, EarlyStep

LEMMA InitPInv == Init => PInv
<1> SUFFICES ASSUME Init PROVE PInv
  OBVIOUS
<1> USE DEF Init
<1>1. JobTypes /\ PdfTypeOK
  BY PdfAssumption, FS_EmptySet DEF JobTypes, PdfTypeOK
<1>2. \A r \in Requests : job[r] = Idle /\ Idle.at = "idle"
  BY DEF Idle
<1>3. JobHoldsData /\ FoundIsOwn
  BY <1>2 DEF JobHoldsData, FoundIsOwn, AfterHash, AfterPages, AfterChunks, AfterUpsert
<1>4. DocumentIds /\ LinkIsOwnDocument /\ CitationsCoverText /\ RowDescribesDocument
  BY DEF DocumentIds, LinkIsOwnDocument, CitationsCoverText, RowDescribesDocument
<1>5. SettledByOne
  BY <1>2 DEF SettledByOne, Between
<1> QED
  BY <1>1, <1>3, <1>4, <1>5 DEF PInv
-----------------------------------------------------------------------------
(* The actions up to the first transaction.                                *)
LEMMA BeginKeeps ==
  ASSUME PInv, NEW r \in Requests, Begin(r)
  PROVE  PInv'
<1>1. PICK p \in Paths, range \in Ranges, force \in BOOLEAN :
        Go(r, [at |-> "begun", path |-> p, range |-> range, force |-> force,
               count |-> 0, hash |-> Missing, texts |-> <<>>, chunks |-> {}, doc |-> 0])
  BY DEF Begin
<1> DEFINE v == [at |-> "begun", path |-> p, range |-> range, force |-> force,
                 count |-> 0, hash |-> Missing, texts |-> <<>>, chunks |-> {}, doc |-> 0]
<1>2. v \in Ingest
  <2>1. <<>> \in TextRuns
    <3>1. <<>> \in [{} -> 0 .. 2]
      OBVIOUS
    <3> QED
      BY <3>1 DEF TextRuns
  <2> QED
    BY <2>1 DEF Ingest, Stages
<1>3. Holds(v) /\ v.at \notin AfterUpsert
  BY DEF Holds, AfterHash, AfterPages, AfterChunks, AfterUpsert
<1>4. job[r].at \notin AfterUpsert
  BY IdleHolds DEF Begin
<1>5. UNCHANGED tables /\ UNCHANGED <<disk, edits>> /\ starts' \in Nat
  BY DEF Begin, PInv, PdfTypeOK
<1> HIDE DEF v
<1> QED
  BY <1>1, <1>2, <1>3, <1>4, <1>5, EarlyStep DEF v

LEMMA InspectPDFKeeps ==
  ASSUME PInv, NEW r \in Requests, InspectPDF(r)
  PROVE  PInv'
<1> DEFINE v == [job[r] EXCEPT !.at = "inspected", !.count = Len(File(r).pages)]
<1>1. job[r].at = "begun" /\ job[r].at \notin AfterUpsert
  BY DEF InspectPDF, AfterUpsert
<1>2. UNCHANGED tables /\ UNCHANGED <<disk, starts, edits>>
  BY DEF InspectPDF
<1>3. CASE End(r)
  BY <1>1, <1>2, <1>3, EarlyEnd
<1>4. CASE File(r) # Missing /\ Go(r, v)
  <2>1. job[r] \in Ingest
    BY <1>1, IngestJob DEF PInv, Stages
  <2>2. Len(File(r).pages) \in Nat
    <3>1. File(r) \in Files
      BY <1>4, <2>1 DEF File, Ingest, PInv, PdfTypeOK
    <3>2. File(r).pages \in Seq(Page)
      BY <3>1, FileAssumption
    <3> QED
      BY <3>2, LenProperties
  <2>3. v \in Ingest /\ v.at = "inspected"
    BY <2>1, <2>2 DEF Ingest, Stages
  <2>4. Holds(v) /\ v.at \notin AfterUpsert
    BY <2>3 DEF Holds, AfterHash, AfterPages, AfterChunks, AfterUpsert
  <2>5. starts' \in Nat
    BY <1>2 DEF PInv, PdfTypeOK
  <2> HIDE DEF v
  <2> QED
    BY <1>1, <1>2, <1>4, <2>3, <2>4, <2>5, EarlyStep
<1> QED
  BY <1>3, <1>4 DEF InspectPDF

LEMMA HashFileKeeps ==
  ASSUME PInv, NEW r \in Requests, HashFile(r)
  PROVE  PInv'
<1> DEFINE v == [job[r] EXCEPT !.at = "hashed", !.hash = File(r)]
<1>1. job[r].at = "inspected" /\ job[r].at \notin AfterUpsert
  BY DEF HashFile, AfterUpsert
<1>2. UNCHANGED tables /\ UNCHANGED <<disk, starts, edits>>
  BY DEF HashFile
<1>3. CASE End(r)
  BY <1>1, <1>2, <1>3, EarlyEnd
<1>4. CASE File(r) # Missing /\ Go(r, v)
  <2>1. job[r] \in Ingest
    BY <1>1, IngestJob DEF PInv, Stages
  <2>2. File(r) \in Files
    BY <1>4, <2>1 DEF File, Ingest, PInv, PdfTypeOK
  <2>3. v \in Ingest /\ v.at = "hashed" /\ v.hash \in Files
    BY <2>1, <2>2 DEF Ingest, Stages
  <2>4. Holds(v) /\ v.at \notin AfterUpsert
    BY <2>3 DEF Holds, AfterHash, AfterPages, AfterChunks, AfterUpsert
  <2>5. starts' \in Nat
    BY <1>2 DEF PInv, PdfTypeOK
  <2> HIDE DEF v
  <2> QED
    BY <1>1, <1>2, <1>4, <2>3, <2>4, <2>5, EarlyStep
<1> QED
  BY <1>3, <1>4 DEF HashFile

LEMMA GetHashByURIKeeps ==
  ASSUME PInv, NEW r \in Requests, GetHashByURI(r)
  PROVE  PInv'
<1> DEFINE v == [job[r] EXCEPT !.at = "missed"]
<1>1. job[r].at = "hashed" /\ job[r].at \notin AfterUpsert
  BY DEF GetHashByURI, AfterUpsert
<1>2. UNCHANGED tables /\ UNCHANGED <<disk, starts, edits>>
  BY DEF GetHashByURI
<1>3. CASE End(r)
  BY <1>1, <1>2, <1>3, EarlyEnd
<1>4. CASE Go(r, v)
  <2>1. job[r] \in Ingest /\ job[r].hash \in Files
    BY <1>1, IngestJob DEF PInv, Stages, JobHoldsData, AfterHash
  <2>2. v \in Ingest /\ v.at = "missed" /\ v.hash \in Files
    BY <2>1 DEF Ingest, Stages
  <2>3. Holds(v) /\ v.at \notin AfterUpsert
    BY <2>2 DEF Holds, AfterPages, AfterChunks, AfterUpsert
  <2>4. starts' \in Nat
    BY <1>2 DEF PInv, PdfTypeOK
  <2> HIDE DEF v
  <2> QED
    BY <1>1, <1>2, <1>4, <2>2, <2>3, <2>4, EarlyStep
<1> QED
  BY <1>3, <1>4 DEF GetHashByURI

LEMMA ExtractPagesKeeps ==
  ASSUME PInv, NEW r \in Requests, ExtractPages(r)
  PROVE  PInv'
<1> DEFINE ts == Texts(File(r), job[r].range)
           v == [job[r] EXCEPT !.at = "extracted", !.texts = ts]
<1>1. job[r].at = "missed" /\ job[r].at \notin AfterUpsert
  BY DEF ExtractPages, AfterUpsert
<1>2. UNCHANGED tables /\ UNCHANGED <<disk, starts, edits>>
  BY DEF ExtractPages
<1>3. CASE End(r)
  BY <1>1, <1>2, <1>3, EarlyEnd
<1>4. CASE File(r) # Missing /\ File(r).state = "plain" /\ Go(r, v)
  <2>1. job[r] \in Ingest /\ job[r].hash \in Files
    BY <1>1, IngestJob DEF PInv, Stages, JobHoldsData, AfterHash
  <2>2. File(r) \in Files /\ job[r].range \in Ranges
    BY <1>4, <2>1 DEF File, Ingest, PInv, PdfTypeOK
  <2>3. ts \in TextRuns /\ PageRange(DOMAIN ts)
    BY <1>4, <2>2, TextsOfARange
  <2> HIDE DEF ts
  <2>4. v \in Ingest /\ v.at = "extracted" /\ v.hash \in Files /\ v.texts = ts
    BY <2>1, <2>3 DEF Ingest, Stages
  <2>5. Holds(v) /\ v.at \notin AfterUpsert
    BY <2>3, <2>4 DEF Holds, AfterChunks, AfterUpsert
  <2>6. starts' \in Nat
    BY <1>2 DEF PInv, PdfTypeOK
  <2> HIDE DEF v
  <2> QED
    BY <1>1, <1>2, <1>4, <2>4, <2>5, <2>6, EarlyStep
<1> QED
  BY <1>3, <1>4 DEF ExtractPages

LEMMA BuildChunksKeeps ==
  ASSUME PInv, NEW r \in Requests, BuildChunks(r)
  PROVE  PInv'
<1> DEFINE plain == File(r) # Missing /\ File(r).state = "plain"
           marks == IF plain THEN Bookmarks(File(r), job[r].count) ELSE <<>>
           cs == Chunks(job[r].texts, marks)
           v == [job[r] EXCEPT !.at = "chunked", !.chunks = cs]
<1>1. job[r].at = "extracted" /\ job[r].at \notin AfterUpsert
  BY DEF BuildChunks, AfterUpsert
<1>2. UNCHANGED tables /\ UNCHANGED <<disk, starts, edits>>
  BY DEF BuildChunks
<1>3. CASE End(r)
  BY <1>1, <1>2, <1>3, EarlyEnd
<1>4. CASE Go(r, v)
  <2>1. job[r] \in Ingest /\ job[r].hash \in Files /\ PageRange(DOMAIN job[r].texts)
    BY <1>1, IngestJob DEF PInv, Stages, JobHoldsData, AfterHash, AfterPages
  <2>2. marks \in Outline
    <3>1. CASE plain
      <4>1. File(r) \in Files /\ job[r].count \in Nat
        BY <3>1, <2>1 DEF File, Ingest, PInv, PdfTypeOK
      <4> QED
        BY <3>1, <4>1, BookmarksAreAnOutline
    <3>2. CASE ~ plain
      BY <3>2, EmptySeq DEF Outline
    <3> QED
      BY <3>1, <3>2
  <2> HIDE DEF marks
  <2>3. \A c \in cs : c \in Chunk /\ Cites(c) /\ c.pages \subseteq DOMAIN job[r].texts
    <3>1. PICK lo \in Nat \ {0}, hi \in Nat : lo <= hi /\ DOMAIN job[r].texts = lo .. hi
      BY <2>1 DEF PageRange
    <3>2. job[r].texts \in [lo .. hi -> 0 .. 2]
      BY <2>1, <3>1 DEF Ingest, TextRuns
    <3> QED
      BY <2>2, <3>1, <3>2, ChunksCite
  <2> HIDE DEF cs
  <2>4. v \in Ingest /\ v = [job[r] EXCEPT !.at = "chunked", !.chunks = cs]
    BY <2>1, <2>3 DEF Ingest, Stages
  <2>5. /\ v.at = "chunked" /\ v.hash = job[r].hash /\ v.texts = job[r].texts /\ v.chunks = cs
    BY <2>1 DEF Ingest
  <2>6. Holds(v) /\ v.at \notin AfterUpsert
    BY <2>1, <2>3, <2>5 DEF Holds, AfterUpsert
  <2>7. starts' \in Nat
    BY <1>2 DEF PInv, PdfTypeOK
  <2> HIDE DEF v
  <2> QED
    BY <1>1, <1>2, <1>4, <2>4, <2>6, <2>7, EarlyStep
<1> QED
  BY <1>3, <1>4 DEF BuildChunks

-----------------------------------------------------------------------------
(* The two transactions, and the lookup between them.                      *)

(* The request r is the one that moves, from or to the time between its    *)
(* transactions; the requests of the other URIs are what they were.        *)
LEMMA LateMove ==
  ASSUME PInv, NEW r \in Requests, NEW v \in Ingest \cup {Idle}, Go(r, v),
         job[r] \in Ingest, v = Idle \/ v.path = job[r].path, NEW u0, u0 = Uri(r)
  PROVE  /\ \A u : u # u0 => /\ Between(u)' = Between(u)
                             /\ \A q \in Between(u) : job'[q] = job[q]
         /\ v.at \notin AfterUpsert => Between(u0)' = Between(u0) \ {r}
         /\ v.at \in AfterUpsert => Between(u0)' = Between(u0) \cup {r}
<1>0. v \in Ingest \cup Removal \cup {Idle}
  OBVIOUS
<1>1. /\ job'[r] = v
      /\ \A q \in Requests \ {r} : job'[q] = job[q] /\ Uri(q)' = Uri(q)
  BY <1>0, JobChanges DEF PInv
<1>2. Idle.at \notin AfterUpsert
  BY IdleHolds
<1>3. v.at \in AfterUpsert => Uri(r)' = u0
  BY <1>1, <1>2 DEF Uri
<1>4. ASSUME NEW u
      PROVE  Between(u) = {q \in Requests : job[q].at \in AfterUpsert /\ Uri(q) = u}
  BY DEF Between, AfterUpsert
<1>5. ASSUME NEW u
      PROVE  Between(u)' = {q \in Requests : job'[q].at \in AfterUpsert /\ Uri(q)' = u}
  BY DEF Between, AfterUpsert
<1>6. ASSUME NEW u, u # u0
      PROVE  Between(u)' = Between(u) /\ \A q \in Between(u) : job'[q] = job[q]
  BY <1>1, <1>3, <1>4, <1>5, <1>6
<1>7. ASSUME v.at \notin AfterUpsert PROVE Between(u0)' = Between(u0) \ {r}
  BY <1>1, <1>4, <1>5, <1>7
<1>8. ASSUME v.at \in AfterUpsert PROVE Between(u0)' = Between(u0) \cup {r}
  BY <1>1, <1>3, <1>4, <1>5, <1>8
<1> QED
  BY <1>6, <1>7, <1>8

LEMMA WriteDocumentKeeps ==
  ASSUME PInv, NEW r \in Requests, UpsertDocument(r),
         \A d \in DocumentOf(Uri(r)) : d.hash # job[r].hash
  PROVE  PInv'
<1>0. PICK u0 : u0 = Uri(r)
  OBVIOUS
<1> DEFINE old == DocumentOf(u0)
           id == IF old = {} THEN nextId ELSE (CHOOSE d \in old : TRUE).id
           new == [id |-> id, uri |-> u0, hash |-> job[r].hash, chunks |-> job[r].chunks]
           v == [job[r] EXCEPT !.at = "written"]
<1> USE DEF PInv
<1>1. /\ job[r].at = "chunked"
      /\ documents' = (documents \ old) \cup {new} /\ nextId' = Max({nextId, id + 1})
      /\ Go(r, v)
      /\ unsettled' = IF Between(u0) = {} THEN unsettled \ {u0} ELSE unsettled \cup {u0}
      /\ UNCHANGED <<disk, sources, starts, edits>>
  BY <1>0, Zenon DEF UpsertDocument
<1>2. job[r] \in Ingest /\ u0 \in Uris
  BY <1>0, <1>1, IngestJob DEF Stages
<1>3. /\ job[r].hash \in Files
      /\ \A c \in job[r].chunks : Cites(c) /\ c.pages \subseteq DOMAIN job[r].texts
      /\ PageRange(DOMAIN job[r].texts)
  BY <1>1 DEF JobHoldsData, AfterHash, AfterPages, AfterChunks
<1>4. v \in Ingest /\ v.at = "written" /\ v.path = job[r].path
      /\ v.hash = job[r].hash /\ v.chunks = job[r].chunks /\ v.texts = job[r].texts
  BY <1>2 DEF Ingest, Stages
<1>5. Holds(v)
  BY <1>3, <1>4 DEF Holds
<1> HIDE DEF v
<1>6. JobTypes' /\ JobHoldsData'
  BY <1>1, <1>4, <1>5, JobData
<1>7. /\ \A u : u # u0 => /\ Between(u)' = Between(u)
                          /\ \A q \in Between(u) : job'[q] = job[q]
      /\ Between(u0)' = Between(u0) \cup {r}
      /\ job'[r] = v /\ \A q \in Requests \ {r} : job'[q] = job[q]
      /\ \A q \in Requests : Uri(q)' = Uri(q)
  <2>0. v \in Ingest \cup {Idle} /\ v \in Ingest \cup Removal \cup {Idle}
    BY <1>4
  <2>1. v.at \in AfterUpsert
    BY <1>4 DEF AfterUpsert
  <2>2. job'[r] = v /\ \A q \in Requests \ {r} : job'[q] = job[q] /\ Uri(q)' = Uri(q)
    BY <1>1, <2>0, JobChanges
  <2>3. Uri(r)' = Uri(r)
    BY <1>4, <2>2 DEF Uri
  <2> QED
    BY <1>0, <1>1, <1>2, <1>4, <2>0, <2>1, <2>2, <2>3, LateMove
<1>8. /\ id \in Nat /\ id >= 1 /\ id <= nextId /\ nextId \in Nat
      /\ \A d \in documents : d.uri # u0 => d.id # id
      /\ \A d \in old : d.id = id
      /\ \A d \in documents : d.id \in Nat /\ d.id >= 1 /\ d.id < nextId
  <2>1. nextId \in Nat /\ \A d \in documents : d.id \in Nat
    BY DEF PdfTypeOK, Document
  <2>2. CASE old = {}
    BY <2>1, <2>2 DEF DocumentIds, DocumentOf
  <2>3. CASE old # {}
    <3>1. PICK d \in old : id = d.id
      BY <2>3
    <3>2. d \in documents /\ d.uri = u0
      BY <3>1 DEF DocumentOf
    <3> QED
      BY <2>1, <3>1, <3>2 DEF DocumentIds, DocumentOf, PdfTypeOK
  <2> QED
    BY <2>2, <2>3
<1> HIDE DEF id
<1>9. nextId' \in Nat /\ nextId' > id /\ nextId' >= nextId
  <2>1. nextId \in Int /\ id + 1 \in Int
    BY <1>8
  <2>2. nextId' \in {nextId, id + 1} /\ nextId' >= nextId /\ nextId' >= id + 1
    BY <1>1, <2>1, MaxOfTwo
  <2> QED
    BY <1>8, <2>2
<1>10. /\ DocumentOf(u0)' = {new}
       /\ \A u : u # u0 => DocumentOf(u)' = DocumentOf(u)
  BY <1>1 DEF DocumentOf
<1>11. \A d \in documents' : d = new \/ (d \in documents /\ d.uri # u0)
  BY <1>1 DEF DocumentOf
<1>12. PdfTypeOK'
  <2>1. new \in Document
    BY <1>2, <1>3, <1>8 DEF Document, Ingest
  <2>2. documents' \subseteq Document
    BY <1>11, <2>1 DEF PdfTypeOK
  <2>3. IsFiniteSet(documents')
    <3>1. IsFiniteSet(documents \ old)
      BY FS_Difference DEF PdfTypeOK
    <3> QED
      BY <1>1, <3>1, FS_AddElement
  <2>4. \A d, e \in documents' : d.uri = e.uri => d = e
    BY <1>11 DEF PdfTypeOK
  <2>5. \A q \in Requests : job'[q] = Idle \/ job'[q].at \in Stages
    BY <1>6 DEF JobTypes, Ingest, Removal, Stages
  <2> QED
    BY <1>1, <1>2, <1>9, <2>2, <2>3, <2>4, <2>5 DEF PdfTypeOK
<1>13. DocumentIds'
  BY <1>8, <1>9, <1>11 DEF DocumentIds
<1>14. FoundIsOwn'
  <2> SUFFICES ASSUME NEW q \in Requests, job'[q].at = "found"
               PROVE  /\ job'[q].doc >= 1 /\ job'[q].doc < nextId'
                      /\ \A d \in documents' : d.id = job'[q].doc => d.uri = Uri(q)'
    BY DEF FoundIsOwn
  <2>1. q # r /\ job'[q] = job[q]
    BY <1>4, <1>7
  <2>2. /\ job[q].doc \in Nat /\ job[q].doc >= 1 /\ job[q].doc < nextId
        /\ \A d \in documents : d.id = job[q].doc => d.uri = Uri(q)
    <3>1. job[q] \in Ingest
      BY <2>1, IngestJob DEF Stages
    <3> QED
      BY <2>1, <3>1 DEF FoundIsOwn, Ingest
  <2>3. new.id = job[q].doc => Uri(q) = u0
    <3> SUFFICES ASSUME id = job[q].doc PROVE Uri(q) = u0
      OBVIOUS
    <3>1. id # nextId /\ old # {}
      BY <1>8, <2>2 DEF id
    <3>2. PICK d \in old : d.id = id
      BY <1>8, <3>1
    <3> QED
      BY <2>2, <3>2 DEF DocumentOf
  <2> QED
    BY <1>7, <1>8, <1>9, <1>11, <2>1, <2>2, <2>3
<1>15. LinkIsOwnDocument'
  <2> SUFFICES ASSUME NEW s \in sources, s.doc # 0
               PROVE  \E d \in DocumentOf(s.uri)' : d.id = s.doc
    BY <1>1 DEF LinkIsOwnDocument
  <2>1. PICK d \in DocumentOf(s.uri) : d.id = s.doc
    BY DEF LinkIsOwnDocument
  <2>2. CASE s.uri = u0
    BY <1>8, <1>10, <2>1, <2>2
  <2>3. CASE s.uri # u0
    BY <1>10, <2>1, <2>3
  <2> QED
    BY <2>2, <2>3
<1>16. CitationsCoverText'
  BY <1>3, <1>11 DEF CitationsCoverText, Cites
<1>17. SettledByOne'
  <2> SUFFICES ASSUME NEW u \in Uris, u \notin unsettled'
               PROVE  /\ \A q, x \in Between(u)' : q = x
                      /\ \A q \in Between(u)' : \A d \in DocumentOf(u)' :
                           /\ d.hash = job'[q].hash /\ d.chunks = job'[q].chunks
                           /\ job'[q].at = "found" => d.id = job'[q].doc
    BY DEF SettledByOne
  <2>1. CASE u = u0
    <3>1. Between(u0)' = {r}
      BY <1>1, <1>7, <2>1
    <3> QED
      BY <1>4, <1>7, <1>10, <2>1, <3>1
  <2>2. CASE u # u0
    <3>1. u \notin unsettled
      BY <1>1, <2>2
    <3> QED
      BY <1>7, <1>10, <2>2, <3>1 DEF SettledByOne
  <2> QED
    BY <2>1, <2>2
<1>18. RowDescribesDocument'
  <2> SUFFICES ASSUME NEW s \in sources, NEW d \in DocumentOf(s.uri)', s.doc = d.id,
                      s.uri \notin unsettled', Between(s.uri)' = {}
               PROVE  s.hash = d.hash /\ \A c \in d.chunks : c.pages \subseteq s.pages
    BY <1>1 DEF RowDescribesDocument
  <2>1. s.uri # u0
    BY <1>7
  <2> QED
    BY <1>1, <1>7, <1>10, <2>1 DEF RowDescribesDocument
<1> QED
  BY <1>6, <1>12, <1>13, <1>14, <1>15, <1>16, <1>17, <1>18

(* A step that writes no row: it may enter or leave the time between the   *)
(* transactions only when the URI becomes unsettled or has no document.    *)
LEMMA LateStep ==
  ASSUME PInv, NEW r \in Requests, NEW v \in Ingest \cup {Idle}, Go(r, v), Holds(v),
         job[r] \in Ingest, v = Idle \/ v.path = job[r].path, NEW u0 \in Uris, u0 = Uri(r),
         UNCHANGED <<disk, documents, sources, nextId, starts, edits>>,
         unsettled' \in {unsettled, unsettled \cup {u0}},
         v.at = "found" => /\ v.doc >= 1 /\ v.doc < nextId
                           /\ \A d \in documents : d.id = v.doc => d.uri = u0,
         \/ u0 \in unsettled'
         \/ DocumentOf(u0) = {} /\ v = Idle
         \/ /\ job[r].at \in AfterUpsert /\ v.at \in AfterUpsert
            /\ v.hash = job[r].hash /\ v.chunks = job[r].chunks
            /\ v.at = "found" => \A d \in DocumentOf(u0) : d.id = v.doc
  PROVE  PInv'
<1> USE DEF PInv
<1>0. v \in Ingest \cup Removal \cup {Idle} /\ Idle.at \notin AfterUpsert
  BY IdleHolds
<1>1. JobTypes' /\ JobHoldsData'
  BY <1>0, JobData
<1>2. job'[r] = v /\ \A q \in Requests \ {r} : job'[q] = job[q] /\ Uri(q)' = Uri(q)
  BY <1>0, JobChanges
<1>3. /\ \A u : u # u0 => /\ Between(u)' = Between(u)
                          /\ \A q \in Between(u) : job'[q] = job[q]
      /\ v.at \notin AfterUpsert => Between(u0)' = Between(u0) \ {r}
      /\ v.at \in AfterUpsert => Between(u0)' = Between(u0) \cup {r}
  BY LateMove
<1>4. \A u : DocumentOf(u)' = DocumentOf(u)
  BY DEF DocumentOf
<1>5. r \in Between(u0) <=> job[r].at \in AfterUpsert
  BY DEF Between, AfterUpsert
<1>6. PdfTypeOK'
  <2>1. \A q \in Requests : job'[q] = Idle \/ job'[q].at \in Stages
    BY <1>1 DEF JobTypes, Ingest, Removal, Stages
  <2> QED
    BY <2>1 DEF PdfTypeOK
<1>7. DocumentIds' /\ LinkIsOwnDocument' /\ CitationsCoverText'
  BY <1>4 DEF DocumentIds, LinkIsOwnDocument, CitationsCoverText
<1>8. FoundIsOwn'
  <2>1. v.at = "found" => Uri(r)' = u0
    BY <1>0, <1>2 DEF Uri, AfterUpsert
  <2> QED
    BY <1>2, <2>1 DEF FoundIsOwn
<1>9. SettledByOne'
  <2> SUFFICES ASSUME NEW u \in Uris, u \notin unsettled'
               PROVE  /\ \A q, x \in Between(u)' : q = x
                      /\ \A q \in Between(u)' : \A d \in DocumentOf(u)' :
                           /\ d.hash = job'[q].hash /\ d.chunks = job'[q].chunks
                           /\ job'[q].at = "found" => d.id = job'[q].doc
    BY DEF SettledByOne
  <2>1. u \notin unsettled
    OBVIOUS
  <2>2. CASE u # u0
    BY <1>3, <1>4, <2>1, <2>2 DEF SettledByOne
  <2>3. CASE u = u0 /\ DocumentOf(u0) = {} /\ v = Idle
    BY <1>0, <1>3, <1>4, <2>1, <2>3 DEF SettledByOne
  <2>4. CASE /\ u = u0
             /\ job[r].at \in AfterUpsert /\ v.at \in AfterUpsert
             /\ v.hash = job[r].hash /\ v.chunks = job[r].chunks
             /\ v.at = "found" => \A d \in DocumentOf(u0) : d.id = v.doc
    <3>1. r \in Between(u0) /\ Between(u0)' = Between(u0)
      BY <1>3, <1>5, <2>4
    <3>2. \A q, x \in Between(u0) : q = x
      BY <2>1, <2>4 DEF SettledByOne
    <3>3. Between(u0)' = {r}
      BY <3>1, <3>2
    <3>4. \A d \in DocumentOf(u0) : d.hash = job[r].hash /\ d.chunks = job[r].chunks
      BY <2>1, <2>4, <3>1 DEF SettledByOne
    <3> QED
      BY <1>2, <1>4, <2>4, <3>3, <3>4
  <2> QED
    BY <2>2, <2>3, <2>4
<1>10. RowDescribesDocument'
  <2> SUFFICES ASSUME NEW s \in sources, NEW d \in DocumentOf(s.uri), s.doc = d.id,
                      s.uri \notin unsettled', Between(s.uri)' = {}
               PROVE  s.hash = d.hash /\ \A c \in d.chunks : c.pages \subseteq s.pages
    BY <1>4 DEF RowDescribesDocument
  <2>1. s.uri # u0
    BY <1>3, <1>5
  <2>2. Between(s.uri) = {} /\ s.uri \notin unsettled
    BY <1>3, <2>1
  <2> QED
    BY <2>2 DEF RowDescribesDocument
<1> QED
  BY <1>1, <1>6, <1>7, <1>8, <1>9, <1>10

LEMMA UpsertDocumentKeeps ==
  ASSUME PInv, NEW r \in Requests, UpsertDocument(r)
  PROVE  PInv'
<1>0. PICK u0 : u0 = Uri(r)
  OBVIOUS
<1>1. job[r].at = "chunked" /\ UNCHANGED <<disk, sources, starts, edits>>
  BY DEF UpsertDocument
<1>2. job[r] \in Ingest /\ u0 \in Uris
  BY <1>0, <1>1, IngestJob DEF PInv, Stages
<1>3. CASE \A d \in DocumentOf(Uri(r)) : d.hash # job[r].hash
  BY <1>3, WriteDocumentKeeps
<1>4. CASE \E d \in DocumentOf(Uri(r)) : d.hash = job[r].hash
  <2> DEFINE v == [job[r] EXCEPT !.at = "written"]
  <2>1. /\ IF job[r].force THEN Go(r, v) ELSE End(r)
        /\ unsettled' = IF job[r].force THEN unsettled \cup {u0} ELSE unsettled
        /\ UNCHANGED <<documents, nextId>>
    BY <1>0, <1>4, Zenon DEF UpsertDocument
  <2>2. CASE job[r].force
    <3>1. /\ v \in Ingest /\ v.at = "written" /\ v.path = job[r].path
          /\ v.hash = job[r].hash /\ v.chunks = job[r].chunks /\ v.texts = job[r].texts
      BY <1>2 DEF Ingest, Stages
    <3>2. Holds(v)
      BY <1>1, <3>1 DEF Holds, PInv, JobHoldsData, AfterHash, AfterPages, AfterChunks
    <3> HIDE DEF v
    <3> QED
      BY <1>0, <1>1, <1>2, <2>1, <2>2, <3>1, <3>2, LateStep
  <2>3. CASE ~ job[r].force
    <3>1. job[r].at \notin AfterUpsert
      BY <1>1 DEF AfterUpsert
    <3> QED
      BY <1>1, <2>1, <2>3, <3>1, EarlyEnd DEF tables
  <2> QED
    BY <2>2, <2>3
<1> QED
  BY <1>3, <1>4

LEMMA GetDocumentByURIKeeps ==
  ASSUME PInv, NEW r \in Requests, GetDocumentByURI(r)
  PROVE  PInv'
<1>0. PICK u0 : u0 = Uri(r)
  OBVIOUS
<1>1. job[r].at = "written" /\ job[r].at \in AfterUpsert
      /\ UNCHANGED <<disk, documents, sources, nextId, unsettled, starts, edits>>
  BY DEF GetDocumentByURI, AfterUpsert, tables
<1>2. job[r] \in Ingest /\ u0 \in Uris
  BY <1>0, <1>1, IngestJob DEF PInv, Stages
<1>3. CASE DocumentOf(u0) = {}
  <2>1. Go(r, Idle)
    BY <1>0, <1>3 DEF GetDocumentByURI, End, Go
  <2>2. Holds(Idle) /\ Idle.at # "found"
    BY IdleHolds DEF AfterUpsert
  <2> QED
    BY <1>0, <1>1, <1>2, <1>3, <2>1, <2>2, LateStep
<1>4. CASE DocumentOf(u0) # {}
  <2>1. PICK d \in DocumentOf(u0) : Go(r, [job[r] EXCEPT !.at = "found", !.doc = d.id])
    BY <1>0, <1>4 DEF GetDocumentByURI
  <2> DEFINE v == [job[r] EXCEPT !.at = "found", !.doc = d.id]
  <2>2. /\ d \in documents /\ d.uri = u0 /\ d.id \in Nat
        /\ \A e \in DocumentOf(u0) : e = d
    BY <2>1 DEF DocumentOf, PInv, PdfTypeOK, Document
  <2>3. /\ v \in Ingest /\ v.at = "found" /\ v.path = job[r].path /\ v.doc = d.id
        /\ v.hash = job[r].hash /\ v.chunks = job[r].chunks /\ v.texts = job[r].texts
    BY <1>2, <2>2 DEF Ingest, Stages
  <2>4. Holds(v) /\ v.at \in AfterUpsert
    BY <1>1, <2>3 DEF Holds, PInv, JobHoldsData, AfterHash, AfterPages, AfterChunks, AfterUpsert
  <2>5. /\ v.doc >= 1 /\ v.doc < nextId
        /\ \A e \in documents : e.id = v.doc => e.uri = u0
    BY <2>2, <2>3 DEF PInv, DocumentIds
  <2>6. \A e \in DocumentOf(u0) : e.id = v.doc
    BY <2>2, <2>3
  <2>7. Go(r, v)
    BY <2>1
  <2> HIDE DEF v
  <2> QED
    BY <1>0, <1>1, <1>2, <2>3, <2>4, <2>5, <2>6, <2>7, LateStep
<1> QED
  BY <1>3, <1>4

LEMMA WriteSourceKeeps ==
  ASSUME PInv, NEW r \in Requests, UpsertPDFSource(r), NEW doc \in documents, doc.id = job[r].doc
  PROVE  PInv'
<1> USE DEF PInv
<1>0. PICK u0 : u0 = Uri(r)
  OBVIOUS
<1>1. /\ job[r].at = "found" /\ job[r].at \in AfterUpsert /\ Go(r, Idle)
      /\ sources' = {s \in sources : s.uri # u0} \cup {NewSource(r)}
      /\ UNCHANGED <<disk, documents, nextId, unsettled, starts, edits>>
  BY <1>0 DEF UpsertPDFSource, End, Go, AfterUpsert
<1>2. job[r] \in Ingest /\ u0 \in Uris
  BY <1>0, <1>1, IngestJob DEF Stages
<1>3. PICK new : new = NewSource(r)
  OBVIOUS
<1>4. /\ job[r].hash \in Files
      /\ \A c \in job[r].chunks : c.pages \subseteq DOMAIN job[r].texts
      /\ DOMAIN job[r].texts \subseteq Nat
  <2>1. job[r].hash \in Files /\ \A c \in job[r].chunks : c.pages \subseteq DOMAIN job[r].texts
    BY <1>1 DEF JobHoldsData, AfterHash, AfterPages, AfterChunks
  <2>2. PageRange(DOMAIN job[r].texts)
    BY <1>1 DEF JobHoldsData, AfterPages, AfterChunks
  <2>3. DOMAIN job[r].texts \subseteq Nat
    BY <2>2 DEF PageRange
  <2> QED
    BY <2>1, <2>3
<1>5. /\ new.uri = u0 /\ new.doc = job[r].doc /\ new.hash = job[r].hash
      /\ new.pages = DOMAIN job[r].texts /\ new \in Source
  BY <1>0, <1>2, <1>3, <1>4 DEF NewSource, Source, Ingest
<1>6. \A s \in sources' : s = new \/ (s \in sources /\ s.uri # u0)
  BY <1>1, <1>3
<1>7. /\ JobTypes' /\ JobHoldsData'
      /\ job'[r] = Idle /\ \A q \in Requests \ {r} : job'[q] = job[q] /\ Uri(q)' = Uri(q)
  BY <1>1, IdleHolds, JobData, JobChanges
<1>8. /\ \A u : u # u0 => /\ Between(u)' = Between(u)
                          /\ \A q \in Between(u) : job'[q] = job[q]
      /\ Between(u0)' = Between(u0) \ {r}
  BY <1>0, <1>1, <1>2, IdleHolds, LateMove
<1>9. \A u : DocumentOf(u)' = DocumentOf(u)
  BY <1>1 DEF DocumentOf
<1>10. doc.uri = u0
  BY <1>0, <1>1 DEF FoundIsOwn
<1>11. PdfTypeOK'
  <2>1. \A q \in Requests : job'[q] = Idle \/ job'[q].at \in Stages
    BY <1>7 DEF JobTypes, Ingest, Removal, Stages
  <2>2. sources' \subseteq Source /\ \A s, t \in sources' : s.uri = t.uri => s = t
    BY <1>5, <1>6 DEF PdfTypeOK
  <2> QED
    BY <1>1, <2>1, <2>2 DEF PdfTypeOK
<1>12. DocumentIds' /\ CitationsCoverText'
  BY <1>1 DEF DocumentIds, CitationsCoverText
<1>13. FoundIsOwn'
  <2>1. Idle.at # "found"
    BY IdleHolds DEF AfterUpsert
  <2> QED
    BY <1>1, <1>7, <2>1 DEF FoundIsOwn
<1>14. LinkIsOwnDocument'
  <2> SUFFICES ASSUME NEW s \in sources', s.doc # 0
               PROVE  \E d \in DocumentOf(s.uri) : d.id = s.doc
    BY <1>9 DEF LinkIsOwnDocument
  <2>1. CASE s = new
    <3>1. doc \in DocumentOf(s.uri)
      BY <1>5, <1>10, <2>1 DEF DocumentOf
    <3> QED
      BY <1>5, <2>1, <3>1
  <2>2. CASE s \in sources
    BY <2>2 DEF LinkIsOwnDocument
  <2> QED
    BY <1>6, <2>1, <2>2
<1>15. SettledByOne'
  <2> SUFFICES ASSUME NEW u \in Uris, u \notin unsettled
               PROVE  /\ \A q, x \in Between(u)' : q = x
                      /\ \A q \in Between(u)' : \A d \in DocumentOf(u) :
                           /\ d.hash = job'[q].hash /\ d.chunks = job'[q].chunks
                           /\ job'[q].at = "found" => d.id = job'[q].doc
    BY <1>1, <1>9 DEF SettledByOne
  <2>1. \A q \in Between(u)' : q \in Between(u) /\ job'[q] = job[q]
    <3>1. Between(u) \subseteq Requests
      BY DEF Between
    <3> QED
      BY <1>7, <1>8, <3>1
  <2> QED
    BY <2>1 DEF SettledByOne
<1>16. RowDescribesDocument'
  <2> SUFFICES ASSUME NEW s \in sources', NEW d \in DocumentOf(s.uri), s.doc = d.id,
                      s.uri \notin unsettled, Between(s.uri)' = {}
               PROVE  s.hash = d.hash /\ \A c \in d.chunks : c.pages \subseteq s.pages
    BY <1>1, <1>9 DEF RowDescribesDocument
  <2>1. CASE s = new
    <3>1. r \in Between(u0)
      BY <1>0, <1>1 DEF Between, AfterUpsert
    <3>2. d.hash = job[r].hash /\ d.chunks = job[r].chunks
      BY <1>2, <1>5, <2>1, <3>1 DEF SettledByOne
    <3> QED
      BY <1>4, <1>5, <2>1, <3>2
  <2>2. CASE s \in sources /\ s.uri # u0
    BY <1>8, <2>2 DEF RowDescribesDocument
  <2> QED
    BY <1>6, <2>1, <2>2
<1> QED
  BY <1>7, <1>11, <1>12, <1>13, <1>14, <1>15, <1>16

LEMMA UpsertPDFSourceKeeps ==
  ASSUME PInv, NEW r \in Requests, UpsertPDFSource(r)
  PROVE  PInv'
<1>1. CASE \E d \in documents : d.id = job[r].doc
  BY <1>1, WriteSourceKeeps
<1>2. CASE ~ \E d \in documents : d.id = job[r].doc
  <2>0. PICK u0 : u0 = Uri(r)
    OBVIOUS
  <2>1. /\ job[r].at = "found" /\ job[r].at \in AfterUpsert /\ Go(r, Idle)
        /\ UNCHANGED <<disk, documents, sources, nextId, unsettled, starts, edits>>
    BY <1>2 DEF UpsertPDFSource, End, Go, AfterUpsert
  <2>2. job[r] \in Ingest /\ u0 \in Uris
    BY <2>0, <2>1, IngestJob DEF PInv, Stages
  <2>3. Holds(Idle) /\ Idle.at # "found"
    BY IdleHolds DEF AfterUpsert
  <2>4. u0 \in unsettled \/ DocumentOf(u0) = {}
    <3>1. r \in Between(u0)
      BY <2>0, <2>1 DEF Between, AfterUpsert
    <3>2. DocumentOf(u0) \subseteq documents
      BY DEF DocumentOf
    <3> QED
      BY <1>2, <2>1, <2>2, <3>1, <3>2 DEF PInv, SettledByOne
  <2> QED
    BY <2>0, <2>1, <2>2, <2>3, <2>4, LateStep
<1> QED
  BY <1>1, <1>2

LEMMA StopKeeps ==
  ASSUME PInv, NEW r \in Requests, Stop(r)
  PROVE  PInv'
<1>1. End(r) /\ Go(r, Idle) /\ UNCHANGED <<disk, documents, sources, nextId, starts, edits>>
  BY DEF Stop, End, Go
<1>2. CASE job[r].at \in AfterUpsert
  <2>0. PICK u0 : u0 = Uri(r)
    OBVIOUS
  <2>1. job[r] \in Ingest /\ u0 \in Uris
    BY <1>2, <2>0, IngestJob DEF PInv, Stages, AfterUpsert
  <2>2. unsettled' = unsettled \cup {u0}
    BY <1>2, <2>0 DEF Stop, AfterUpsert
  <2>3. Holds(Idle) /\ Idle.at # "found"
    BY IdleHolds DEF AfterUpsert
  <2> QED
    BY <1>1, <2>0, <2>1, <2>2, <2>3, LateStep
<1>3. CASE job[r].at \notin AfterUpsert
  <2>1. UNCHANGED unsettled
    BY <1>3 DEF Stop, AfterUpsert
  <2> QED
    BY <1>1, <1>3, <2>1, EarlyEnd DEF tables
<1> QED
  BY <1>2, <1>3
-----------------------------------------------------------------------------
(* Deletes, and the owner of the files.                                    *)
LEMMA DropKeeps ==
  ASSUME PInv, NEW u0 \in Uris, DropDocument(u0), EarlyJobsMove, JobTypes', JobHoldsData',
         UNCHANGED <<disk, nextId, unsettled, starts, edits>>
  PROVE  PInv'
<1> USE DEF PInv
<1> DEFINE gone == {d.id : d \in DocumentOf(u0)}
           unlink(s) == IF s.doc \in gone THEN [s EXCEPT !.doc = 0] ELSE s
<1>1. documents' = documents \ DocumentOf(u0) /\ sources' = {unlink(s) : s \in sources}
  BY DEF DropDocument
<1>2. /\ DocumentOf(u0)' = {}
      /\ \A u : u # u0 => DocumentOf(u)' = DocumentOf(u)
  BY <1>1 DEF DocumentOf
<1>3. ASSUME NEW t \in sources'
      PROVE  \E s \in sources : /\ t.uri = s.uri /\ t.hash = s.hash /\ t.pages = s.pages
                                /\ t \in Source
                                /\ t.doc = 0 \/ (t = s /\ s.doc \notin gone)
  <2>1. PICK s \in sources : t = unlink(s)
    BY <1>1, <1>3
  <2>2. s \in Source
    BY DEF PdfTypeOK
  <2>3. CASE s.doc \in gone
    BY <2>1, <2>2, <2>3 DEF Source
  <2>4. CASE s.doc \notin gone
    BY <2>1, <2>2, <2>4
  <2> QED
    BY <2>3, <2>4
<1>4. PdfTypeOK'
  <2>1. \A q \in Requests : job'[q] = Idle \/ job'[q].at \in Stages
    BY DEF JobTypes, Ingest, Removal, Stages
  <2>2. sources' \subseteq Source
    BY <1>3
  <2>3. \A s, t \in sources' : s.uri = t.uri => s = t
    <3> SUFFICES ASSUME NEW s \in sources', NEW t \in sources', s.uri = t.uri PROVE s = t
      OBVIOUS
    <3>1. PICK x \in sources, y \in sources : s = unlink(x) /\ t = unlink(y)
      BY <1>1
    <3>2. x \in Source /\ y \in Source
      BY DEF PdfTypeOK
    <3>3. s.uri = x.uri /\ t.uri = y.uri
      BY <3>1, <3>2 DEF Source
    <3>4. x = y
      BY <3>3 DEF PdfTypeOK
    <3> QED
      BY <3>1, <3>4
  <2>4. IsFiniteSet(documents')
    BY <1>1, FS_Difference DEF PdfTypeOK
  <2> QED
    BY <1>1, <2>1, <2>2, <2>3, <2>4 DEF PdfTypeOK
<1> HIDE DEF unlink
<1>5. DocumentIds' /\ CitationsCoverText'
  BY <1>1 DEF DocumentIds, CitationsCoverText
<1>6. FoundIsOwn'
  BY <1>1 DEF FoundIsOwn, EarlyJobsMove, AfterUpsert, Uri
<1>7. \A u : Between(u)' = Between(u) /\ \A q \in Between(u) : job'[q] = job[q]
  BY EarlyMovesKeepBetween DEF EarlyJobsMove, Between, AfterUpsert
<1>8. LinkIsOwnDocument'
  <2> SUFFICES ASSUME NEW t \in sources', t.doc # 0
               PROVE  \E d \in DocumentOf(t.uri)' : d.id = t.doc
    BY DEF LinkIsOwnDocument
  <2>1. t \in sources /\ t.doc \notin gone
    BY <1>3
  <2>2. PICK d \in DocumentOf(t.uri) : d.id = t.doc
    BY <2>1 DEF LinkIsOwnDocument
  <2>3. t.uri # u0
    BY <2>1, <2>2
  <2> QED
    BY <1>2, <2>2, <2>3
<1>9. SettledByOne'
  <2> SUFFICES ASSUME NEW u \in Uris, u \notin unsettled
               PROVE  /\ \A q, x \in Between(u)' : q = x
                      /\ \A q \in Between(u)' : \A d \in DocumentOf(u)' :
                           /\ d.hash = job'[q].hash /\ d.chunks = job'[q].chunks
                           /\ job'[q].at = "found" => d.id = job'[q].doc
    BY DEF SettledByOne
  <2>1. DocumentOf(u)' \subseteq DocumentOf(u)
    BY <1>2
  <2> QED
    BY <1>7, <2>1 DEF SettledByOne
<1>10. RowDescribesDocument'
  <2> SUFFICES ASSUME NEW t \in sources', NEW d \in DocumentOf(t.uri)', t.doc = d.id,
                      t.uri \notin unsettled, Between(t.uri)' = {}
               PROVE  t.hash = d.hash /\ \A c \in d.chunks : c.pages \subseteq t.pages
    BY DEF RowDescribesDocument
  <2>1. d \in DocumentOf(t.uri) /\ d \in documents
    BY <1>2 DEF DocumentOf
  <2>2. t.doc # 0
    BY <2>1 DEF DocumentIds, PdfTypeOK, Document
  <2>3. t \in sources
    BY <1>3, <2>2
  <2> QED
    BY <1>7, <2>1, <2>3 DEF RowDescribesDocument
<1> QED
  BY <1>4, <1>5, <1>6, <1>8, <1>9, <1>10

LEMMA RemoveSourceKeeps ==
  ASSUME PInv, NEW r \in Requests, RemoveSource(r)
  PROVE  PInv'
<1>1. PICK p \in Paths : /\ sources' = {s \in sources : s.uri # UriOf[p]}
                         /\ Go(r, [at |-> "removing", path |-> p])
  BY DEF RemoveSource
<1>2. job[r] = Idle /\ UNCHANGED <<disk, documents, nextId, unsettled, edits>>
      /\ starts' \in Nat
  BY DEF RemoveSource, PInv, PdfTypeOK
<1> DEFINE v == [at |-> "removing", path |-> p]
<1>3. v \in Removal /\ v.at = "removing"
  BY DEF Removal
<1>4. Holds(v) /\ v.at \notin AfterUpsert
  BY <1>3 DEF Holds, AfterHash, AfterPages, AfterChunks, AfterUpsert
<1> HIDE DEF v
<1>5. JobTypes' /\ JobHoldsData' /\ job'[r] = v /\ \A q \in Requests \ {r} : job'[q] = job[q]
  <2>1. v \in Ingest \cup Removal \cup {Idle} /\ Go(r, v)
    BY <1>1, <1>3 DEF v
  <2> QED
    BY <1>4, <2>1, JobData, JobChanges DEF PInv
<1>6. EarlyJobsMove
  BY <1>2, <1>4, <1>5, IdleHolds DEF EarlyJobsMove
<1>7. \A u : /\ DocumentOf(u)' = DocumentOf(u) /\ Between(u)' = Between(u)
             /\ \A q \in Between(u) : job'[q] = job[q]
  <2>1. \A u : DocumentOf(u)' = DocumentOf(u)
    BY <1>2 DEF DocumentOf
  <2> QED
    BY <1>6, <2>1, EarlyMovesKeepBetween DEF EarlyJobsMove, Between, AfterUpsert
<1> USE DEF PInv
<1>8. PdfTypeOK'
  <2>1. \A q \in Requests : job'[q] = Idle \/ job'[q].at \in Stages
    BY <1>5 DEF JobTypes, Ingest, Removal, Stages
  <2> QED
    BY <1>1, <1>2, <2>1 DEF PdfTypeOK
<1>9. DocumentIds' /\ CitationsCoverText' /\ LinkIsOwnDocument'
  BY <1>1, <1>2, <1>7 DEF DocumentIds, CitationsCoverText, LinkIsOwnDocument
<1>10. FoundIsOwn'
  BY <1>2, <1>6 DEF FoundIsOwn, EarlyJobsMove, AfterUpsert, Uri
<1>11. SettledByOne' /\ RowDescribesDocument'
  BY <1>1, <1>2, <1>7 DEF SettledByOne, RowDescribesDocument
<1> QED
  BY <1>5, <1>8, <1>9, <1>10, <1>11

LEMMA RemoveDocumentKeeps ==
  ASSUME PInv, NEW r \in Requests, RemoveDocument(r)
  PROVE  PInv'
<1>0. PICK u0 : u0 = Uri(r)
  OBVIOUS
<1>1. /\ job[r].at = "removing" /\ DropDocument(u0) /\ Go(r, Idle)
      /\ UNCHANGED <<disk, nextId, unsettled, starts, edits>>
  BY <1>0 DEF RemoveDocument, End, Go
<1>2. u0 \in Uris
  <2>1. job[r] \in Removal
    BY <1>1 DEF PInv, JobTypes, Ingest, Idle
  <2> QED
    BY <1>0, <2>1, PdfAssumption DEF Removal, Uri
<1>3. /\ JobTypes' /\ JobHoldsData'
      /\ job'[r] = Idle /\ \A q \in Requests \ {r} : job'[q] = job[q]
  BY <1>1, IdleHolds, JobData, JobChanges DEF PInv
<1>4. EarlyJobsMove
  <2>1. job[r].at \notin AfterUpsert
    BY <1>1 DEF AfterUpsert
  <2> QED
    BY <1>3, <2>1, IdleHolds DEF EarlyJobsMove
<1> QED
  BY <1>1, <1>2, <1>3, <1>4, DropKeeps

LEMMA DeleteByPrefixKeeps ==
  ASSUME PInv, NEW u \in Uris, DeleteByPrefix(u)
  PROVE  PInv'
<1>1. DropDocument(u) /\ UNCHANGED job /\ UNCHANGED <<disk, nextId, unsettled, starts, edits>>
  BY DEF DeleteByPrefix
<1>2. EarlyJobsMove /\ JobTypes' /\ JobHoldsData'
  BY <1>1 DEF EarlyJobsMove, PInv, JobTypes, JobHoldsData
<1> QED
  BY <1>1, <1>2, DropKeeps

LEMMA EditFileKeeps ==
  ASSUME PInv, NEW p \in Paths, EditFile(p)
  PROVE  PInv'
<1>1. UNCHANGED tables /\ UNCHANGED job /\ starts' \in Nat /\ edits' \in Nat
  BY DEF EditFile, PInv, PdfTypeOK
<1>2. disk' \in [Paths -> Files \cup {Missing}]
  BY DEF EditFile, PInv, PdfTypeOK
<1>3. EarlyJobsMove /\ JobTypes' /\ JobHoldsData'
  BY <1>1 DEF EarlyJobsMove, PInv, JobTypes, JobHoldsData
<1> QED
  BY <1>1, <1>2, <1>3, QuietStep
-----------------------------------------------------------------------------
LEMMA NextPInv == PInv /\ [Next]_vars => PInv'
<1> SUFFICES ASSUME PInv, [Next]_vars PROVE PInv'
  OBVIOUS
<1>1. ASSUME NEW r \in Requests,
             \/ Begin(r) \/ InspectPDF(r) \/ HashFile(r) \/ GetHashByURI(r) \/ ExtractPages(r)
             \/ BuildChunks(r) \/ UpsertDocument(r) \/ GetDocumentByURI(r) \/ UpsertPDFSource(r)
             \/ Stop(r) \/ RemoveSource(r) \/ RemoveDocument(r)
      PROVE  PInv'
  BY <1>1, BeginKeeps, InspectPDFKeeps, HashFileKeeps, GetHashByURIKeeps, ExtractPagesKeeps,
     BuildChunksKeeps, UpsertDocumentKeeps, GetDocumentByURIKeeps, UpsertPDFSourceKeeps,
     StopKeeps, RemoveSourceKeeps, RemoveDocumentKeeps
<1>2. ASSUME NEW u \in Uris, DeleteByPrefix(u) PROVE PInv'
  BY <1>2, DeleteByPrefixKeeps
<1>3. ASSUME NEW p \in Paths, EditFile(p) PROVE PInv'
  BY <1>3, EditFileKeeps
<1>4. CASE UNCHANGED vars
  <2>1. /\ UNCHANGED tables /\ UNCHANGED job /\ UNCHANGED <<disk, starts, edits>>
    BY <1>4 DEF vars
  <2>2. EarlyJobsMove /\ JobTypes' /\ JobHoldsData'
    BY <2>1 DEF EarlyJobsMove, PInv, JobTypes, JobHoldsData
  <2>3. disk' \in [Paths -> Files \cup {Missing}] /\ starts' \in Nat /\ edits' \in Nat
    BY <2>1 DEF PInv, PdfTypeOK
  <2> QED
    BY <2>1, <2>2, <2>3, QuietStep
<1> QED
  BY <1>1, <1>2, <1>3, <1>4 DEF Next

LEMMA PInvHolds == Spec => []PInv
BY InitPInv, NextPInv, PTL DEF Spec

(* The tables keep their types and their unique URIs.                      *)
THEOREM PdfTypes == Spec => []PdfTypeOK
<1>1. PInv => PdfTypeOK
  BY DEF PInv
<1> QED
  BY <1>1, PInvHolds, PTL

(* A link in pdf_sources is NULL or the document of the same URI: the id   *)
(* that GetDocumentByURI returned may be of a deleted document when        *)
(* UpsertPDFSource stores it, but never of another one.                    *)
THEOREM LinksAreOwn == Spec => []LinkIsOwnDocument
<1>1. PInv => LinkIsOwnDocument
  BY DEF PInv
<1> QED
  BY <1>1, PInvHolds, PTL

(* Every chunk in the index cites an ordered range of pages that holds the *)
(* text it was made of, for every outline, page range and later edit of    *)
(* the file.                                                               *)
THEOREM CitationsHold == Spec => []CitationsCoverText
<1>1. PInv => CitationsCoverText
  BY DEF PInv
<1> QED
  BY <1>1, PInvHolds, PTL

(* A source row agrees with its document unless its URI is unsettled, with *)
(* any number of requests between their two transactions.                  *)
THEOREM RowsDescribe == Spec => []RowDescribesDocument
<1>1. PInv => RowDescribesDocument
  BY DEF PInv
<1> QED
  BY <1>1, PInvHolds, PTL
=============================================================================
