---------------------------- MODULE OsloDelivery ----------------------------
(***************************************************************************)
(* The collector's end of the oslo.messaging transport: how a delivery     *)
(* thread that must answer "handled" or "requeue" waits for a consumer     *)
(* that runs the handler (transports/oslo_messaging.py), while             *)
(* collect_command() loops, is interrupted, stops, dies and comes back.    *)
(*                                                                         *)
(* A delivery is one call of _Endpoint.info(); its record outlives the     *)
(* call as long as it sits in _pending.  External are the broker, which    *)
(* hands out again what was requeued or never answered, and the listener,  *)
(* which calls the endpoint on its threads until it is stopped, and whose  *)
(* wait() returns when those calls have.                                   *)
(***************************************************************************)
EXTENDS Naturals, Sequences, FiniteSets

CONSTANTS Batches,     \* the notifications on the bus
          Unreadable,  \* those from_payload() cannot read
          Deliveries,  \* BOUND: records alive at once, as 1..n
          MaxFailures, \* BOUND: handler calls that raise
          MaxGiveUps,  \* BOUND: deliveries that outwait park
          MaxCrashes,  \* BOUND: processes that die
          MaxLate,     \* BOUND: arrivals while stop() releases what is pending
          InterruptsHandler  \* may KeyboardInterrupt arrive inside the handler?

ASSUME DeliveryAssumption ==
    /\ Unreadable \subseteq Batches
    /\ Deliveries \in Nat \ {0}
    /\ MaxFailures \in Nat /\ MaxGiveUps \in Nat /\ MaxCrashes \in Nat /\ MaxLate \in Nat
    /\ InterruptsHandler \in BOOLEAN

Ids == 1..Deliveries
None == 0

VARIABLES
    broker,    \* where each batch is: queued, out (unanswered), acked
    ipc,       \* each endpoint call's place in info()
    batch,     \* the batch it carries
    settled, done, handled,  \* its _Delivery
    pending,   \* _pending, the queue of deliveries
    listening, \* does the listener take new notifications?
    cpc,       \* the consumer's place in consume(), stop() or between them
    cur,       \* the delivery it took
    stored,    \* history: batches the handler has returned for
    times,     \* history: how often it has
    failures, giveups, crashes, late  \* how much of each bound is used

deliveryVars == <<ipc, batch, settled, done, handled>>
counters == <<failures, giveups, crashes, late>>
history == <<stored, times>>
vars == <<broker, deliveryVars, pending, listening, cpc, cur, history, counters>>

Init ==
    /\ broker = [b \in Batches |-> "queued"]
    /\ ipc = [d \in Ids |-> "none"]
    /\ batch = [d \in Ids |-> None]
    /\ settled = [d \in Ids |-> FALSE]
    /\ done = [d \in Ids |-> FALSE]
    /\ handled = [d \in Ids |-> FALSE]
    /\ pending = <<>> /\ listening = TRUE
    /\ cpc = "loop" /\ cur = None
    /\ stored = {} /\ times = [b \in Batches |-> 0]
    /\ failures = 0 /\ giveups = 0 /\ crashes = 0 /\ late = 0

-----------------------------------------------------------------------------
(* _Endpoint.info(), on a thread of the listener.                          *)

Unused(d) == ipc[d] = "none" /\ cur # d /\ \A i \in DOMAIN pending : pending[i] # d

\* A notification that cannot be read is acknowledged and discarded.
Discard(b) ==
    /\ listening /\ broker[b] = "queued" /\ b \in Unreadable
    /\ broker' = [broker EXCEPT ![b] = "acked"]
    /\ UNCHANGED <<deliveryVars, pending, listening, cpc, cur, history, counters>>

\* A notification that is acknowledged when it arrives.
ArriveAcked(b, d) ==
    /\ listening /\ broker[b] = "queued" /\ b \notin Unreadable
    /\ Unused(d) /\ \A e \in 1..(d - 1) : ~Unused(e)
    /\ broker' = [broker EXCEPT ![b] = "acked"]
    /\ batch' = [batch EXCEPT ![d] = b]
    /\ settled' = [settled EXCEPT ![d] = FALSE]
    /\ pending' = Append(pending, d)
    /\ UNCHANGED <<ipc, done, handled, listening, cpc, cur, history, counters>>

\* One that can is put up for the consumer, and the thread parks.  What
\* stop() releases can come straight back, as the listener still runs: the
\* bound stands for the loop being quicker than a round trip to the broker.
Arrive(b, d) ==
    /\ listening /\ broker[b] = "queued" /\ b \notin Unreadable
    /\ Unused(d) /\ \A e \in 1..(d - 1) : ~Unused(e)
    /\ broker' = [broker EXCEPT ![b] = "out"]
    /\ ipc' = [ipc EXCEPT ![d] = "parked"]
    /\ batch' = [batch EXCEPT ![d] = b]
    /\ settled' = [settled EXCEPT ![d] = FALSE]
    /\ done' = [done EXCEPT ![d] = FALSE]
    /\ handled' = [handled EXCEPT ![d] = FALSE]
    /\ pending' = Append(pending, d)
    /\ IF cpc = "release" THEN late < MaxLate /\ late' = late + 1 ELSE UNCHANGED late
    /\ UNCHANGED <<listening, cpc, cur, history, failures, giveups, crashes>>

\* A wait without a timeout.
WaitsForever(d) == FALSE /\ UNCHANGED vars

\* done.wait(park) times out.  Once the collector waits for its listener
\* the bound does not apply: then every wait ends.
WaitTimesOut(d) ==
    /\ ipc[d] = "parked" /\ ~done[d]
    /\ \/ giveups < MaxGiveUps /\ giveups' = giveups + 1
       \/ cpc = "wait" /\ UNCHANGED giveups
    /\ ipc' = [ipc EXCEPT ![d] = "gaveup"]
    /\ UNCHANGED <<broker, batch, settled, done, handled, pending, listening,
                   cpc, cur, history, failures, crashes, late>>

\* The call returns its verdict, and the driver tells the broker.
Return(d, verdict) ==
    /\ ipc' = [ipc EXCEPT ![d] = "none"]
    /\ broker' = [broker EXCEPT ![batch[d]] = verdict]

\* Giving up on a delivery that somebody may have claimed.
GiveUpAnyway(d) ==
    /\ ipc[d] = "gaveup"
    /\ settled' = [settled EXCEPT ![d] = TRUE]
    /\ Return(d, "queued")
    /\ UNCHANGED <<batch, done, handled, pending, listening, cpc, cur, history, counters>>

\* settle(), after giving up: requeue what nobody has claimed, or wait for
\* the verdict of whoever has.
SettleOrWait(d) ==
    /\ ipc[d] = "gaveup"
    /\ \/ /\ ~settled[d]
          /\ settled' = [settled EXCEPT ![d] = TRUE]
          /\ Return(d, "queued")
       \/ /\ settled[d]
          /\ ipc' = [ipc EXCEPT ![d] = "waiting"]
          /\ UNCHANGED <<broker, settled>>
    /\ UNCHANGED <<batch, done, handled, pending, listening, cpc, cur, history, counters>>

Verdict(d) ==
    /\ ipc[d] \in {"parked", "waiting"} /\ done[d]
    /\ Return(d, IF handled[d] THEN "acked" ELSE "queued")
    /\ UNCHANGED <<batch, settled, done, handled, pending, listening, cpc, cur,
                   history, counters>>

Endpoint(d) == SettleOrWait(d) \/ Verdict(d)

-----------------------------------------------------------------------------
(* consume(), on the thread of collect_command().                          *)

\* Call consume() again; it starts the listener if it was stopped.
Consume ==
    /\ cpc = "loop"
    /\ cpc' = "get"
    /\ listening' = TRUE
    /\ UNCHANGED <<broker, deliveryVars, pending, cur, history, counters>>

\* _pending.get(timeout) returns a delivery, or raises Empty.
Get ==
    /\ cpc = "get"
    /\ \/ /\ pending # <<>>
          /\ cur' = Head(pending)
          /\ pending' = Tail(pending)
          /\ cpc' = "claim"
       \/ /\ pending = <<>>
          /\ cpc' = "loop"
          /\ UNCHANGED <<cur, pending>>
    /\ UNCHANGED <<broker, deliveryVars, listening, history, counters>>

\* settle(): own the delivery, or leave what went back to the broker.
Claim ==
    /\ cpc = "claim"
    /\ IF settled[cur]
       THEN cpc' = "get" /\ cur' = None /\ UNCHANGED settled
       ELSE cpc' = "handle" /\ settled' = [settled EXCEPT ![cur] = TRUE] /\ UNCHANGED cur
    /\ UNCHANGED <<broker, ipc, batch, done, handled, pending, listening, history, counters>>

HandlerReturns ==
    /\ cpc = "handle"
    /\ stored' = stored \cup {batch[cur]}
    /\ times' = [times EXCEPT ![batch[cur]] = @ + 1]
    /\ cpc' = "finish"
    /\ UNCHANGED <<broker, deliveryVars, pending, listening, cur, counters>>

\* A verdict that wakes nobody, and one that is always the same.
FinishSilently(d, ok) ==
    /\ handled' = [handled EXCEPT ![d] = ok]
    /\ UNCHANGED done

FinishForgets(d, ok) ==
    /\ done' = [done EXCEPT ![d] = TRUE]
    /\ UNCHANGED handled

\* finish(): hand the verdict to the waiting thread.
Finish(d, ok) ==
    /\ handled' = [handled EXCEPT ![d] = ok]
    /\ done' = [done EXCEPT ![d] = TRUE]

FinishHandled ==
    /\ cpc = "finish"
    /\ Finish(cur, TRUE)
    /\ cpc' = "get" /\ cur' = None
    /\ UNCHANGED <<broker, ipc, batch, settled, pending, listening, history, counters>>

\* The handler raises: leave the batch on the bus and stop draining.
HandlerFails ==
    /\ cpc = "handle" /\ failures < MaxFailures
    /\ Finish(cur, FALSE)
    /\ cpc' = "loop" /\ cur' = None
    /\ failures' = failures + 1
    /\ UNCHANGED <<broker, ipc, batch, settled, pending, listening, history,
                   giveups, crashes, late>>

Consumer == Consume \/ Get \/ Claim \/ HandlerReturns \/ FinishHandled

-----------------------------------------------------------------------------
(* KeyboardInterrupt, stop(), and the death of the process.                *)

\* KeyboardInterrupt is no Exception: it leaves consume() wherever it is,
\* and leaving the "with" block calls stop().
Interrupt ==
    /\ cpc \in {"loop", "get", "claim"} \cup
               IF InterruptsHandler THEN {"handle", "finish"} ELSE {}
    /\ cpc' = "release" /\ cur' = None
    /\ UNCHANGED <<broker, deliveryVars, pending, listening, history, counters>>

\* _release_pending(): one delivery, settled as unhandled unless it is
\* settled already.
Release ==
    /\ cpc = "release" /\ pending # <<>>
    /\ pending' = Tail(pending)
    /\ LET d == Head(pending)
       IN  IF settled[d] THEN UNCHANGED <<settled, handled, done>>
           ELSE settled' = [settled EXCEPT ![d] = TRUE] /\ Finish(d, FALSE)
    /\ UNCHANGED <<broker, ipc, batch, listening, cpc, cur, history, counters>>

Released ==
    /\ cpc = "release" /\ pending = <<>>
    /\ cpc' = "unlisten"
    /\ UNCHANGED <<broker, deliveryVars, pending, listening, cur, history, counters>>

\* listener.stop(): what arrived since the queue was found empty stays.
StopListener ==
    /\ cpc = "unlisten"
    /\ listening' = FALSE
    /\ cpc' = "wait"
    /\ UNCHANGED <<broker, deliveryVars, pending, cur, history, counters>>

\* listener.wait() returns once every endpoint call has.
ListenerStopped ==
    /\ cpc = "wait" /\ \A d \in Ids : ipc[d] = "none"
    /\ cpc' = "stopped"
    /\ UNCHANGED <<broker, deliveryVars, pending, listening, cur, history, counters>>

StopStep == Release \/ Released \/ StopListener \/ ListenerStopped

\* A process dies at any point, or ends; another takes its place, and the
\* broker has back whatever was not answered.
NewProcess ==
    /\ ipc' = [d \in Ids |-> "none"]
    /\ pending' = <<>> /\ listening' = TRUE
    /\ cpc' = "loop" /\ cur' = None
    /\ broker' = [b \in Batches |-> IF broker[b] = "out" THEN "queued" ELSE broker[b]]

Crash ==
    /\ crashes < MaxCrashes
    /\ NewProcess
    /\ crashes' = crashes + 1
    /\ UNCHANGED <<batch, settled, done, handled, history, failures, giveups, late>>

-----------------------------------------------------------------------------
Next == \/ \E b \in Batches : Discard(b) \/ \E d \in Ids : Arrive(b, d)
        \/ \E d \in Ids : WaitTimesOut(d) \/ Endpoint(d)
        \/ Consumer \/ HandlerFails \/ Interrupt \/ StopStep \/ Crash

Spec == Init /\ [][Next]_vars

\* The broker delivers, threads run, the handler returns or raises, and a
\* wait with a timeout ends.  Nothing has to crash or be interrupted.
FairSpec ==
    /\ Spec
    /\ \A b \in Batches : WF_vars(Discard(b) \/ \E d \in Ids : Arrive(b, d))
    /\ \A d \in Ids : WF_vars(Endpoint(d)) /\ WF_vars(WaitTimesOut(d))
    /\ WF_vars(Consumer \/ HandlerFails)
    /\ WF_vars(StopStep)

-----------------------------------------------------------------------------
(* Properties.                                                             *)

\* Every variable has its type; the broker is told one of two verdicts.
TypeOK ==
    /\ broker \in [Batches -> {"queued", "out", "acked"}]
    /\ ipc \in [Ids -> {"none", "parked", "gaveup", "waiting"}]
    /\ batch \in [Ids -> Batches \cup {None}]
    /\ settled \in [Ids -> BOOLEAN] /\ done \in [Ids -> BOOLEAN]
    /\ handled \in [Ids -> BOOLEAN]
    /\ pending \in Seq(Ids) /\ listening \in BOOLEAN
    /\ cpc \in {"loop", "get", "claim", "handle", "finish", "release", "unlisten", "wait",
               "stopped"}
    /\ cur \in Ids \cup {None}
    /\ stored \subseteq Batches /\ times \in [Batches -> Nat]
    /\ failures \in 0..MaxFailures /\ giveups \in 0..MaxGiveUps
    /\ crashes \in 0..MaxCrashes /\ late \in 0..MaxLate

\* "Silently dropping monitoring data is worse than redelivering it"
\* (docs/design.md): a batch leaves the broker only if it is unreadable or
\* the handler has returned for it, whatever times out, fails, is stopped
\* or dies in between.
AckedIsStored ==
    \A b \in Batches : broker[b] = "acked" => b \in stored \cup Unreadable

\* A delivery is settled once, "by whichever side gets there first": while
\* the handler runs on a batch, the thread that brought it still waits for
\* the verdict, and the broker has not handed the batch out again.
HandledWhileHeld ==
    cpc \in {"handle", "finish"} =>
        /\ ipc[cur] # "none" /\ broker[batch[cur]] = "out"
        /\ \A d \in Ids : d # cur /\ ipc[d] # "none" => batch[d] # batch[cur]

\* Redelivery costs a fault: the handler returns a second time for a batch
\* only if an interrupt or a crash came between it and its answer.
HandledOnce == \A b \in Batches : times[b] <= 1 + crashes

\* Every batch is handled in the end, though some deliveries outwait park,
\* some handler calls raise and the process dies, as long as collecting
\* goes on.
EventuallyAcked ==
    \A b \in Batches :
        broker[b] = "queued" ~>
            broker[b] = "acked" \/ cpc \in {"release", "unlisten", "wait", "stopped"}

\* stop() returns, and does not wait for what it could have released,
\* unless an interrupt took the consumer away from a delivery it claimed.
Abandoned(d) == cur # d /\ ipc[d] # "none" /\ settled[d] /\ ~done[d]
StopReturnsUnlessAbandoned ==
    cpc = "release" ~> (cpc \in {"stopped", "loop"} \/ \E d \in Ids : Abandoned(d))

=============================================================================
