---------------------------- MODULE EventPipeline ----------------------------
(***************************************************************************)
(* The barrier between a running flow and its publishers, at the grain at  *)
(* which its threads interleave: one action per call on the shared queue,  *)
(* on the idle flag, or on a publisher (taskflow_meter/collect/pipeline.py)*)
(*                                                                         *)
(* Three kinds of process share the queue:                                 *)
(*   - Producers: the task and executor threads that call submit();        *)
(*   - Senders:   the threads start() creates to run _run(), one per start;*)
(*   - the controller: the thread that calls start(), flush() and stop().  *)
(*                                                                         *)
(* accepted, lost, handled and owed are history variables: no guard reads  *)
(* them.  Of PipelineStats only "dropped" is kept: the code writes the     *)
(* other counters and never reads them.                                    *)
(***************************************************************************)
EXTENDS Naturals, Sequences, FiniteSets

CONSTANTS Producers,       \* threads that submit events
          MaxSubmits,      \* BOUND: events each producer submits
          NPublishers,     \* publishers, delivered to in the order 1..NPublishers
          MaxQueue,        \* max_queue
          BatchSize,       \* batch_size
          MaxStarts,       \* BOUND: senders that are ever started
          JoinMayTimeOut,  \* may a delivery outlast stop()'s timeout?
          STOP             \* the _STOP sentinel

Event == [src : Producers, n : 1..MaxSubmits]
Publishers == 1..NPublishers
Senders == 1..MaxStarts

ASSUME PipelineAssumption ==
    /\ IsFiniteSet(Producers)
    /\ MaxSubmits \in Nat
    /\ NPublishers \in Nat
    /\ MaxQueue \in Nat \ {0}
    /\ BatchSize \in Nat \ {0}
    /\ MaxStarts \in Nat \ {0}
    /\ JoinMayTimeOut \in BOOLEAN
    /\ STOP \notin Event

VARIABLES
    queue,      \* the queue.Queue: events and STOP sentinels, oldest first
    idle,       \* the _idle threading.Event
    dropped,    \* stats.dropped
    ppc, next,  \* each producer's place in submit(), and its current event
    spc,        \* each sender's place in _run()
    batch,      \* the events each sender has taken and not yet handled
    pills,      \* how many STOPs are in what it has taken
    at,         \* the publisher its batch goes to next
    received,   \* what each publisher accepted, in order
    open,       \* publishers that are started
    thread,     \* the sender held in self._thread, 0 for None
    starts,     \* senders started so far
    ctl,        \* the controller's place in start(), flush() or stop()
    joining,    \* the sender stop() is waiting for
    accepted,   \* history: events in the order they entered the queue
    lost,       \* history: events discarded from the queue or refused by it
    handled,    \* history: events that were offered to every publisher
    owed        \* history: events in the pipeline when stop() was called

prodVars == <<ppc, next>>
sendVars == <<spc, batch, pills, at>>
ctlVars  == <<open, thread, starts, ctl, joining, owed>>
vars == <<queue, idle, dropped, prodVars, sendVars, received, ctlVars,
          accepted, lost, handled>>

Entries(q) == {q[i] : i \in DOMAIN q}

Full == Len(queue) >= MaxQueue

Ev(p) == [src |-> p, n |-> next[p]]

Init ==
    /\ queue = <<>> /\ idle = TRUE /\ dropped = 0
    /\ ppc = [p \in Producers |-> "ready"]
    /\ next = [p \in Producers |-> 1]
    /\ spc = [s \in Senders |-> "off"]
    /\ batch = [s \in Senders |-> <<>>]
    /\ pills = [s \in Senders |-> 0]
    /\ at = [s \in Senders |-> 1]
    /\ received = [i \in Publishers |-> <<>>]
    /\ open = {} /\ thread = 0 /\ starts = 0 /\ ctl = "ready" /\ joining = 0
    /\ accepted = <<>> /\ lost = {} /\ handled = {} /\ owed = {}

-----------------------------------------------------------------------------
(* The flow's side: submit() and _make_room_for().                         *)

\* A queue that serves the newest first.
EnqueueFirst(p) ==
    /\ queue' = <<Ev(p)>> \o queue
    /\ accepted' = Append(accepted, Ev(p))
    /\ ppc' = [ppc EXCEPT ![p] = "clear"]

Enqueue(p) ==
    /\ queue' = Append(queue, Ev(p))
    /\ accepted' = Append(accepted, Ev(p))
    /\ ppc' = [ppc EXCEPT ![p] = "clear"]

\* submit(): put_nowait() finds room, or raises queue.Full.
PutNowait(p) ==
    /\ ppc[p] = "ready" /\ next[p] <= MaxSubmits
    /\ \/ ~Full /\ Enqueue(p)
       \/ /\ Full
          /\ ppc' = [ppc EXCEPT ![p] = "full"]
          /\ UNCHANGED <<queue, accepted>>
    /\ UNCHANGED <<idle, dropped, next, sendVars, received, ctlVars, lost, handled>>

\* A drop that reads the oldest and leaves it queued.
DropPeeks(p) ==
    /\ ppc[p] = "full"
    /\ lost' = lost \cup ({queue[i] : i \in {1} \cap DOMAIN queue} \ {STOP})
    /\ dropped' = dropped + 1
    /\ ppc' = [ppc EXCEPT ![p] = "reput"]
    /\ UNCHANGED <<queue, idle, next, sendVars, received, ctlVars, accepted, handled>>

\* _make_room_for(): get_nowait() discards whatever is oldest by now, if
\* anything is; the drop is counted either way.
DropOldest(p) ==
    /\ ppc[p] = "full"
    /\ \/ /\ queue # <<>>
          /\ queue' = Tail(queue)
          /\ lost' = lost \cup ({Head(queue)} \ {STOP})
       \/ queue = <<>> /\ UNCHANGED <<queue, lost>>
    /\ dropped' = dropped + 1
    /\ ppc' = [ppc EXCEPT ![p] = "reput"]
    /\ UNCHANGED <<idle, next, sendVars, received, ctlVars, accepted, handled>>

\* submit() returns False: this event is the one that is lost.
RefuseUncounted(p) ==
    /\ lost' = lost \cup {Ev(p)}
    /\ ppc' = [ppc EXCEPT ![p] = "ready"]
    /\ next' = [next EXCEPT ![p] = @ + 1]
    /\ UNCHANGED <<queue, accepted, dropped>>

Refuse(p) ==
    /\ lost' = lost \cup {Ev(p)}
    /\ dropped' = dropped + 1
    /\ ppc' = [ppc EXCEPT ![p] = "ready"]
    /\ next' = [next EXCEPT ![p] = @ + 1]
    /\ UNCHANGED <<queue, accepted>>

\* _make_room_for(): the second put_nowait(); another producer may have
\* taken the room.
PutAgain(p) ==
    /\ ppc[p] = "reput"
    /\ \/ ~Full /\ Enqueue(p) /\ UNCHANGED <<dropped, next, lost>>
       \/ Full /\ Refuse(p)
    /\ UNCHANGED <<idle, sendVars, received, ctlVars, handled>>

\* submit() and _make_room_for(): _idle.clear(), after the put.
ClearIdle(p) ==
    /\ ppc[p] = "clear"
    /\ idle' = FALSE
    /\ ppc' = [ppc EXCEPT ![p] = "ready"]
    /\ next' = [next EXCEPT ![p] = @ + 1]
    /\ UNCHANGED <<queue, dropped, sendVars, received, ctlVars, accepted, lost, handled>>

Submit(p) == PutNowait(p) \/ DropOldest(p) \/ PutAgain(p) \/ ClearIdle(p)

-----------------------------------------------------------------------------
(* The sender's side: _run(), _take_more() and _deliver().                 *)

Taken(s) == Len(batch[s]) + pills[s]

Room(s) == Taken(s) < BatchSize

\* A batch that keeps only what was taken last.
TakeOverwrites(s) ==
    /\ queue' = Tail(queue)
    /\ IF Head(queue) = STOP
       THEN pills' = [pills EXCEPT ![s] = @ + 1] /\ UNCHANGED batch
       ELSE batch' = [batch EXCEPT ![s] = <<Head(queue)>>] /\ UNCHANGED pills

\* A sender that only notices a sentinel that comes first.
TakeSeesFirstOnly(s) ==
    /\ queue' = Tail(queue)
    /\ IF Head(queue) = STOP
       THEN /\ pills' = [pills EXCEPT ![s] = IF Taken(s) = 0 THEN 1 ELSE @]
            /\ UNCHANGED batch
       ELSE batch' = [batch EXCEPT ![s] = Append(@, Head(queue))] /\ UNCHANGED pills

Take(s) ==
    /\ queue' = Tail(queue)
    /\ IF Head(queue) = STOP
       THEN pills' = [pills EXCEPT ![s] = @ + 1] /\ UNCHANGED batch
       ELSE batch' = [batch EXCEPT ![s] = Append(@, Head(queue))] /\ UNCHANGED pills

\* _run(): the blocking get().
Get(s) ==
    /\ spc[s] = "get" /\ queue # <<>>
    /\ Take(s)
    /\ spc' = [spc EXCEPT ![s] = "more"]
    /\ UNCHANGED <<idle, dropped, prodVars, at, received, ctlVars, accepted, lost, handled>>

\* A sender that returns as soon as it finds the sentinel.
TakeMoreReturns(s) ==
    /\ spc[s] = "more"
    /\ \/ /\ Room(s) /\ queue # <<>> /\ pills[s] = 0
          /\ Take(s)
          /\ UNCHANGED <<spc, at>>
       \/ /\ ~Room(s) \/ queue = <<>> \/ pills[s] > 0
          /\ spc' = [spc EXCEPT ![s] = IF pills[s] > 0 THEN "exited" ELSE "deliver"]
          /\ at' = [at EXCEPT ![s] = IF batch[s] = <<>> THEN NPublishers + 1 ELSE 1]
          /\ UNCHANGED <<queue, batch, pills>>
    /\ UNCHANGED <<idle, dropped, prodVars, received, ctlVars, accepted, lost, handled>>

\* _take_more(): one get_nowait(), or the end of the loop.
TakeMore(s) ==
    /\ spc[s] = "more"
    /\ \/ /\ Room(s) /\ queue # <<>>
          /\ Take(s)
          /\ UNCHANGED <<spc, at>>
       \/ /\ ~Room(s) \/ queue = <<>>
          /\ spc' = [spc EXCEPT ![s] = "deliver"]
          /\ at' = [at EXCEPT ![s] = IF batch[s] = <<>> THEN NPublishers + 1 ELSE 1]
          /\ UNCHANGED <<queue, batch, pills>>
    /\ UNCHANGED <<idle, dropped, prodVars, received, ctlVars, accepted, lost, handled>>

\* A delivery whose exception ends the sender.
PublishUnguarded(s) ==
    /\ spc[s] = "deliver" /\ at[s] <= NPublishers
    /\ \/ received' = [received EXCEPT ![at[s]] = @ \o batch[s]] /\ UNCHANGED spc
       \/ UNCHANGED received /\ spc' = [spc EXCEPT ![s] = "exited"]
    /\ at' = [at EXCEPT ![s] = @ + 1]
    /\ UNCHANGED <<queue, idle, dropped, prodVars, batch, pills, ctlVars,
                   accepted, lost, handled>>

\* _deliver(): one publisher accepts the batch, or raises and is skipped.
Publish(s) ==
    /\ spc[s] = "deliver" /\ at[s] <= NPublishers
    /\ \/ received' = [received EXCEPT ![at[s]] = @ \o batch[s]]
       \/ UNCHANGED received
    /\ at' = [at EXCEPT ![s] = @ + 1]
    /\ UNCHANGED <<queue, idle, dropped, prodVars, spc, batch, pills, ctlVars,
                   accepted, lost, handled>>

\* _run(): after the last publisher, look whether the queue is empty ...
CheckEmpty(s) ==
    /\ spc[s] = "deliver" /\ at[s] > NPublishers
    /\ handled' = handled \cup Entries(batch[s])
    /\ batch' = [batch EXCEPT ![s] = <<>>]
    /\ spc' = [spc EXCEPT ![s] = IF queue = <<>> THEN "empty" ELSE "done"]
    /\ UNCHANGED <<queue, idle, dropped, prodVars, pills, at, received, ctlVars,
                   accepted, lost>>

\* ... and then, in a step of its own, say so.
SetIdle(s) ==
    /\ spc[s] = "empty"
    /\ idle' = TRUE
    /\ spc' = [spc EXCEPT ![s] = "done"]
    /\ UNCHANGED <<queue, dropped, prodVars, batch, pills, at, received, ctlVars,
                   accepted, lost, handled>>

\* _run(): return if a sentinel was anywhere in what was taken, else loop.
Again(s) ==
    /\ spc[s] = "done"
    /\ spc' = [spc EXCEPT ![s] = IF pills[s] > 0 THEN "exited" ELSE "get"]
    /\ UNCHANGED <<queue, idle, dropped, prodVars, batch, pills, at, received,
                   ctlVars, accepted, lost, handled>>

Send(s) ==
    Get(s) \/ TakeMore(s) \/ Publish(s) \/ CheckEmpty(s) \/ SetIdle(s) \/ Again(s)

Alive(s) == s \in Senders /\ spc[s] \notin {"off", "exited"}

-----------------------------------------------------------------------------
(* The controller: start(), flush() and stop(), called one at a time.      *)

\* start(): with no live sender, start the publishers and then a new one.
Start ==
    /\ ctl = "ready" /\ ~Alive(thread) /\ starts < MaxStarts
    /\ open' = Publishers
    /\ starts' = starts + 1
    /\ thread' = starts + 1
    /\ spc' = [spc EXCEPT ![starts + 1] = "get"]
    /\ UNCHANGED <<queue, idle, dropped, prodVars, batch, pills, at, received,
                   ctl, joining, owed, accepted, lost, handled>>

\* start(): a publisher raises; those before it stay started.
StartFails ==
    /\ ctl = "ready" /\ ~Alive(thread)
    /\ \E i \in Publishers : open' = open \cup 1..(i - 1)
    /\ UNCHANGED <<queue, idle, dropped, prodVars, sendVars, received, thread,
                   starts, ctl, joining, owed, accepted, lost, handled>>

Flush ==
    /\ ctl = "ready"
    /\ ctl' = "flush"
    /\ UNCHANGED <<queue, idle, dropped, prodVars, sendVars, received, open,
                   thread, starts, joining, owed, accepted, lost, handled>>

\* stop(): under the lock, take the thread ...
TakeThread == thread' = 0 /\ joining' = thread

\* ... then, if it is alive, drain it, or do not.
Stop ==
    /\ ctl = "ready"
    /\ TakeThread
    /\ IF Alive(thread)
       THEN /\ ctl' \in {"drain", "put"}
            /\ owed' = (Entries(queue) \ {STOP}) \cup
                       UNION {Entries(batch[s]) : s \in Senders}
       ELSE ctl' = "close" /\ owed' = {}
    /\ UNCHANGED <<queue, idle, dropped, prodVars, sendVars, received, open,
                   starts, accepted, lost, handled>>

AfterFlush == IF ctl = "flush" THEN "ready" ELSE "put"

\* flush(), called by itself or from stop(): _idle.wait() returns True ...
FlushReturnsTrue ==
    /\ ctl \in {"flush", "drain"} /\ idle
    /\ ctl' = AfterFlush
    /\ UNCHANGED <<queue, idle, dropped, prodVars, sendVars, received, open,
                   thread, starts, joining, owed, accepted, lost, handled>>

\* ... or gives up after the timeout.
FlushTimesOut ==
    /\ ctl \in {"flush", "drain"} /\ ~idle
    /\ ctl' = AfterFlush
    /\ UNCHANGED <<queue, idle, dropped, prodVars, sendVars, received, open,
                   thread, starts, joining, owed, accepted, lost, handled>>

\* stop(): put(_STOP), which blocks while the queue is full.
PutStop ==
    /\ ctl = "put" /\ ~Full
    /\ queue' = Append(queue, STOP)
    /\ ctl' = "join"
    /\ UNCHANGED <<idle, dropped, prodVars, sendVars, received, open, thread,
                   starts, joining, owed, accepted, lost, handled>>

\* A stop that does not wait for its sender.
JoinedAtOnce ==
    /\ ctl = "join"
    /\ ctl' = "close"
    /\ UNCHANGED <<queue, idle, dropped, prodVars, sendVars, received, open,
                   thread, starts, joining, owed, accepted, lost, handled>>

\* stop(): join() returns because the sender has, or after the timeout.
Joined ==
    /\ ctl = "join" /\ ~Alive(joining)
    /\ ctl' = "close"
    /\ UNCHANGED <<queue, idle, dropped, prodVars, sendVars, received, open,
                   thread, starts, joining, owed, accepted, lost, handled>>

JoinTimesOut ==
    /\ JoinMayTimeOut /\ ctl = "join" /\ Alive(joining)
    /\ ctl' = "close"
    /\ owed' = {}
    /\ UNCHANGED <<queue, idle, dropped, prodVars, sendVars, received, open,
                   thread, starts, joining, accepted, lost, handled>>

\* stop(): every publisher is stopped, one that raises included.
ClosePublishers ==
    /\ ctl = "close"
    /\ open' = {}
    /\ ctl' = "ready"
    /\ UNCHANGED <<queue, idle, dropped, prodVars, sendVars, received, thread,
                   starts, joining, owed, accepted, lost, handled>>

StopStep == FlushReturnsTrue \/ FlushTimesOut \/ PutStop \/ Joined \/ JoinTimesOut
            \/ ClosePublishers
Control == Start \/ StartFails \/ Flush \/ Stop \/ StopStep

Next == \/ \E p \in Producers : Submit(p)
        \/ \E s \in Senders : Send(s)
        \/ Control

Spec == Init /\ [][Next]_vars

\* A thread inside submit() keeps running; so does a sender, so every
\* publish() it calls returns or raises; and so does a stop() or flush()
\* under way.  Nobody has to submit, start, flush or stop.
Finish(p) == DropOldest(p) \/ PutAgain(p) \/ ClearIdle(p)

FairSpec == /\ Spec
            /\ \A p \in Producers : WF_vars(Finish(p))
            /\ \A s \in Senders : WF_vars(Send(s))
            /\ WF_vars(StopStep)

-----------------------------------------------------------------------------
(* Properties.                                                             *)

\* Every variable has its type, and the queue never outgrows max_queue.
TypeOK ==
    /\ queue \in Seq(Event \cup {STOP}) /\ Len(queue) <= MaxQueue
    /\ idle \in BOOLEAN /\ dropped \in Nat
    /\ ppc \in [Producers -> {"ready", "full", "reput", "clear"}]
    /\ next \in [Producers -> 1..(MaxSubmits + 1)]
    /\ spc \in [Senders -> {"off", "get", "more", "deliver", "empty", "done", "exited"}]
    /\ batch \in [Senders -> Seq(Event)]
    /\ pills \in [Senders -> Nat]
    /\ at \in [Senders -> 1..(NPublishers + 1)]
    /\ received \in [Publishers -> Seq(Event)]
    /\ open \subseteq Publishers
    /\ thread \in 0..MaxStarts /\ starts \in 0..MaxStarts /\ joining \in 0..MaxStarts
    /\ ctl \in {"ready", "flush", "drain", "put", "join", "close"}
    /\ accepted \in Seq(Event)
    /\ lost \subseteq Event /\ handled \subseteq Event /\ owed \subseteq Event

InFlight == Entries(queue) \cup UNION {Entries(batch[s]) : s \in Senders}

\* stats.dropped is what says whether something was lost (submit()'s
\* docstring): no interleaving of producers that find the queue full and
\* senders that drain it loses an event without counting one.
LossIsCounted == Cardinality(lost) <= dropped

\* An event that entered the queue is in it, in a sender's hands, handled,
\* or among the lost: none vanishes between two threads.
NothingVanishes == Entries(accepted) \subseteq InFlight \cup handled \cup lost

\* What was handled or lost is not waiting to be sent a second time, and
\* no event is both counted as lost and handed to the publishers.
FatesAreExclusive ==
    /\ InFlight \cap (handled \cup lost) = {}
    /\ handled \cap lost = {}

\* stop() "finishes delivering": when it returns because the sender has,
\* what was in the pipeline when it was called has been offered to every
\* publisher or counted as lost, whatever flush() answered on the way.
StopDelivers == ctl = "close" => owed \subseteq handled \cup lost

\* start() "begins delivering on a daemon thread", stop() ends that before it
\* closes the publishers: a started pipeline that is not being stopped has a
\* sender, and as long as no delivery outlasts stop()'s timeout, a batch is
\* only ever offered to a publisher that is started.
StartedMeansOpen ==
    /\ thread # 0 => Alive(thread)
    /\ \A s \in Senders : spc[s] \in {"more", "deliver"} => open = Publishers

\* Every publisher receives events in the order in which they entered the
\* queue, each at most once, and never a lost one; and losses are counted.
Contract == INSTANCE LossyBroadcast
BroadcastsInOrder == Contract!Spec

\* "One bad delivery is not a reason to stop watching": what is queued
\* while the pipeline is started is handled or lost, unless it is stopped.
EventuallyHandled ==
    \A e \in Event :
        (e \in Entries(queue) /\ thread # 0)
            ~> (e \in handled \cup lost \/ thread = 0)

\* "The sentinel can be picked up mid-batch" (the comment in _run()): a
\* sender to whom stop() sends it returns wherever it turns up, unless a
\* full queue has had something discarded from it.
SentinelIsObeyed ==
    \A s \in Senders : (ctl = "join" /\ joining = s) ~> (~Alive(s) \/ dropped > 0)

=============================================================================
