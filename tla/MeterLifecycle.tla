---------------------------- MODULE MeterLifecycle ----------------------------
(***************************************************************************)
(* meter.py: the reference count of a Meter, shared by hosts that start    *)
(* and stop it, requests that only make sure it runs, and the interpreter's *)
(* exit; with the poll loops of poller.py that it starts, joins and, when  *)
(* the join times out, leaves behind; and with the backend of the          *)
(* persistence source, which whoever reads it opens.                       *)
(*                                                                         *)
(* A meter with a poller.  The lock is held over everything that a first   *)
(* start() or a last stop() does; the loops never take it.  Of what a poll *)
(* sees the model keeps one version number.                                *)
(***************************************************************************)
EXTENDS Integers, FiniteSets

CONSTANTS
    Hosts,          \* threads that call start() and, later, stop()
    Requests,       \* threads that call ensure_started()
    Loops,          \* threads for _loop()
    Nobody,         \* no thread
    MaxStarts,      \* BOUND: calls of start()
    MaxChanges,     \* BOUND: changes at the source
    MaxFailures,    \* BOUND: components that fail to start, and polls that fail
    MaxTimeouts     \* BOUND: joins that time out

AtExit == "atexit"
Callers == Hosts \cup Requests \cup {AtExit}

ASSUME LifecycleAssumption ==
    /\ MaxStarts \in Nat /\ MaxChanges \in Nat /\ MaxFailures \in Nat
    /\ MaxTimeouts \in Nat /\ IsFiniteSet(Loops) /\ Cardinality(Loops) > MaxTimeouts
    /\ IsFiniteSet(Hosts) /\ Nobody \notin Callers \cup Loops
    /\ Hosts \cap Requests = {} /\ AtExit \notin Hosts \cup Requests

VARIABLES
    pc,             \* each caller: "out", "in", or inside a call
    lock,           \* who holds the meter's lock
    holders, started, open,     \* the meter, and the source's backend
    thread, joining,            \* the poller's _thread, and whom stop() waits for
    stopping,                   \* the poller's _stopping
    loop, seen,                 \* each loop, and what its poll has read
    version, previous, told,    \* the source, _previous, and what the sink was last told
    starts, failures, timeouts, \* how much of each bound is used
    leaked,     \* history: references taken by a start() that then failed
    halfOpen,   \* history: a component failed to start with the source open
    reopened,   \* history: a loop opened the source of a stopped meter
    lazy        \* history: the meter was started by a request

meterVars == <<lock, holders, started>>
pollerVars == <<thread, joining, stopping>>
loopVars == <<loop, seen, previous, told>>
bounds == <<starts, failures, timeouts>>
history == <<leaked, halfOpen, reopened, lazy>>
vars == <<pc, meterVars, open, pollerVars, loopVars, version, bounds, history>>

Init ==
    /\ pc = [t \in Callers |-> "out"]
    /\ lock = Nobody /\ holders = 0 /\ started = FALSE /\ open = FALSE
    /\ thread = Nobody /\ joining = Nobody /\ stopping = FALSE
    /\ loop = [l \in Loops |-> "off"] /\ seen = [l \in Loops |-> 0]
    /\ version = 0 /\ previous = 0 /\ told = 0
    /\ starts = 0 /\ failures = 0 /\ timeouts = 0
    /\ leaked = 0 /\ halfOpen = FALSE /\ reopened = FALSE /\ lazy = FALSE

Enter(t, at) == pc[t] = "out" /\ pc' = [pc EXCEPT ![t] = at]
Free == lock = Nobody
Exited == pc[AtExit] # "out"

-----------------------------------------------------------------------------
(* start() and ensure_started(), and the _start_locked() of both           *)

Unlock == lock' = Nobody

\* A start() that counts only what it starts.
CountFirst(h) == starts < MaxStarts /\ starts' = starts + 1 /\ holders' = 1
\* A reference is taken first.
Count(h) == starts < MaxStarts /\ starts' = starts + 1 /\ holders' = holders + 1

Start(h) ==
    /\ Free /\ ~Exited
    /\ Count(h)
    /\ IF started THEN Enter(h, "in") /\ UNCHANGED lock
                  ELSE Enter(h, "opening") /\ lock' = h
    /\ UNCHANGED <<started, open, pollerVars, loopVars, version, failures, timeouts, history>>

\* A request on a meter that is running goes on at once.
EnsureStarted(r) ==
    /\ Free /\ ~started
    /\ Enter(r, "opening")
    /\ lock' = r
    /\ UNCHANGED <<holders, started, open, pollerVars, loopVars, version, bounds, history>>

OpenSource(t) ==
    /\ pc[t] = "opening"
    /\ open' = TRUE
    /\ pc' = [pc EXCEPT ![t] = "launching"]
    /\ UNCHANGED <<meterVars, pollerVars, loopVars, version, bounds, history>>

\* The source or the store raises: the lock is released, and nothing else.
StartFails(t) ==
    /\ pc[t] \in {"opening", "launching"}
    /\ failures < MaxFailures /\ failures' = failures + 1
    /\ Unlock
    /\ pc' = [pc EXCEPT ![t] = "out"]
    /\ leaked' = IF t \in Hosts THEN leaked + 1 ELSE leaked
    /\ halfOpen' = (halfOpen \/ pc[t] = "launching")
    /\ UNCHANGED <<holders, started, open, pollerVars, loopVars, version,
                   starts, timeouts, reopened, lazy>>

\* Poller.start(), the exit hook, and _started.
Launch(t) ==
    /\ pc[t] = "launching"
    /\ IF thread # Nobody /\ loop[thread] # "off"
       THEN UNCHANGED <<thread, stopping, loop>>
       ELSE \E l \in Loops :
                /\ loop[l] = "off"
                /\ stopping' = FALSE
                /\ thread' = l
                /\ loop' = [loop EXCEPT ![l] = "check"]
    /\ started' = TRUE
    /\ Unlock
    /\ pc' = [pc EXCEPT ![t] = IF t \in Hosts THEN "in" ELSE "out"]
    /\ lazy' = (t \in Requests)
    /\ UNCHANGED <<holders, open, joining, seen, previous, told, version, bounds,
                   leaked, halfOpen, reopened>>

-----------------------------------------------------------------------------
(* stop() and _atexit_stop(), and the _stop_locked() of both               *)

\* _started, and what Poller.stop() does before it waits.
BeginStop(t) ==
    /\ lock' = t
    /\ started' = FALSE
    /\ joining' = thread /\ thread' = Nobody
    /\ stopping' = TRUE
    /\ pc' = [pc EXCEPT ![t] = "joining"]

\* The count floors at zero; the meter stops when it gets or is there.
Stops(h) == holders <= 1 /\ started

Stop(h) ==
    /\ pc[h] = "in"
    /\ Free /\ ~Exited
    /\ holders' = IF holders > 0 THEN holders - 1 ELSE 0
    /\ IF Stops(h) THEN BeginStop(h)
       ELSE /\ pc' = [pc EXCEPT ![h] = "out"]
            /\ UNCHANGED <<lock, started, pollerVars>>
    /\ UNCHANGED <<open, loopVars, version, bounds, history>>

\* "Extra calls are harmless": one by a host that holds nothing, when nobody
\* does, stops a meter that a request has started.
ExtraStop(h) ==
    /\ pc[h] = "out"
    /\ Free /\ ~Exited
    /\ holders = 0 /\ started
    /\ BeginStop(h)
    /\ UNCHANGED <<holders, open, loopVars, version, bounds, history>>

\* The interpreter exits, with the hook registered or about to be unregistered.
Exit ==
    /\ started \/ (lock # Nobody /\ pc[lock] \in {"joining", "closing"})
    /\ Enter(AtExit, "called")
    /\ UNCHANGED <<meterVars, open, pollerVars, loopVars, version, bounds, history>>

ExitStop ==
    /\ pc[AtExit] = "called" /\ Free
    /\ holders' = 0
    /\ IF started THEN BeginStop(AtExit)
       ELSE /\ pc' = [pc EXCEPT ![AtExit] = "done"]
            /\ UNCHANGED <<lock, started, pollerVars>>
    /\ UNCHANGED <<open, loopVars, version, bounds, history>>

\* A stop() that does not wait for the loop.
JoinedAtOnce == TRUE
Joined == joining # Nobody => loop[joining] = "off"

Join(t) ==
    /\ pc[t] = "joining" /\ Joined
    /\ pc' = [pc EXCEPT ![t] = "closing"]
    /\ joining' = Nobody
    /\ UNCHANGED <<meterVars, open, thread, stopping, loopVars, version, bounds, history>>

JoinTimesOut(t) ==
    /\ pc[t] = "joining" /\ ~Joined
    /\ timeouts < MaxTimeouts /\ timeouts' = timeouts + 1
    /\ pc' = [pc EXCEPT ![t] = "closing"]
    /\ joining' = Nobody
    /\ UNCHANGED <<meterVars, open, thread, stopping, loopVars, version, starts, failures, history>>

\* A stop() that forgets to close what start() opened.
CloseNothing == UNCHANGED open
\* The store, then the source.
CloseSource == open' = FALSE

Close(t) ==
    /\ pc[t] = "closing"
    /\ CloseSource
    /\ Unlock
    /\ pc' = [pc EXCEPT ![t] = IF t = AtExit THEN "done" ELSE "out"]
    /\ halfOpen' = FALSE /\ reopened' = FALSE /\ lazy' = FALSE
    /\ UNCHANGED <<holders, started, pollerVars, loopVars, version, bounds, leaked>>

-----------------------------------------------------------------------------
(* Poller._loop() and poll_once()                                          *)

\* A loop that minds the flag only as the poller's own thread.
AskedAsOwn(l) == stopping /\ thread = l
Asked(l) == stopping

\* The flag is looked at once per turn, not while a poll goes on.
Check(l) ==
    /\ loop[l] = "check"
    /\ loop' = [loop EXCEPT ![l] = IF Asked(l) THEN "off" ELSE "read"]
    /\ UNCHANGED <<pc, meterVars, open, pollerVars, seen, previous, told, version, bounds, history>>

\* _read_all(), over a connection that opens the backend if need be.
ReadSource(l) ==
    /\ loop[l] = "read"
    /\ seen' = [seen EXCEPT ![l] = version]
    /\ loop' = [loop EXCEPT ![l] = "tell"]
    /\ open' = TRUE
    /\ reopened' = (reopened \/ (~open /\ ~started))
    /\ UNCHANGED <<pc, meterVars, pollerVars, previous, told, version, bounds,
                   leaked, halfOpen, lazy>>

\* The difference goes to the sink, and what was seen is remembered.
Tell(l) ==
    /\ loop[l] = "tell"
    /\ told' = IF seen[l] # previous THEN seen[l] ELSE told
    /\ previous' = seen[l]
    /\ seen' = [seen EXCEPT ![l] = 0]
    /\ loop' = [loop EXCEPT ![l] = "wait"]
    /\ UNCHANGED <<pc, meterVars, open, pollerVars, version, bounds, history>>

\* A loop that ends with the exception of its poll.
Ends == "off"
\* The exception is counted and logged.
GoesOn == "wait"

PollFails(l) ==
    /\ loop[l] \in {"read", "tell"}
    /\ failures < MaxFailures /\ failures' = failures + 1
    /\ seen' = [seen EXCEPT ![l] = 0]
    /\ loop' = [loop EXCEPT ![l] = GoesOn]
    /\ UNCHANGED <<pc, meterVars, open, pollerVars, previous, told, version,
                   starts, timeouts, history>>

\* _stopping.wait(interval) ends with the interval, or with the flag.
Wait(l) ==
    /\ loop[l] = "wait"
    /\ loop' = [loop EXCEPT ![l] = "check"]
    /\ UNCHANGED <<pc, meterVars, open, pollerVars, seen, previous, told, version, bounds, history>>

Poll(l) == Check(l) \/ ReadSource(l) \/ Tell(l) \/ Wait(l)

Change ==
    /\ version < MaxChanges /\ version' = version + 1
    /\ UNCHANGED <<pc, meterVars, open, pollerVars, loopVars, bounds, history>>

-----------------------------------------------------------------------------
\* What a caller does without being asked to: go on with its call.
GoOn(t) == OpenSource(t) \/ Launch(t) \/ Join(t) \/ Close(t)

Lifespan(h) == Start(h) \/ Stop(h) \/ ExtraStop(h)
AnyCall(t) == GoOn(t) \/ StartFails(t) \/ JoinTimesOut(t)

Next ==
    \/ \E h \in Hosts : Lifespan(h)
    \/ \E r \in Requests : EnsureStarted(r)
    \/ Exit \/ ExitStop
    \/ \E t \in Callers : AnyCall(t)
    \/ \E l \in Loops : Poll(l) \/ PollFails(l)
    \/ Change

Spec == Init /\ [][Next]_vars

\* Threads go on, and the interval passes; nobody has to call or to fail.
FairSpec ==
    Spec /\ WF_vars(ExitStop)
         /\ (\A t \in Callers : WF_vars(GoOn(t)))
         /\ (\A l \in Loops : WF_vars(Poll(l)))

-----------------------------------------------------------------------------
Steps == {"opening", "launching", "joining", "closing"}

\* Every variable keeps its type, and whoever is inside a call has the lock.
TypeOK ==
    /\ pc \in [Callers -> {"out", "in", "called", "done"} \cup Steps]
    /\ lock \in Callers \cup {Nobody}
    /\ \A t \in Callers : pc[t] \in Steps <=> lock = t
    /\ holders \in Nat /\ started \in BOOLEAN /\ open \in BOOLEAN
    /\ {thread, joining} \subseteq Loops \cup {Nobody} /\ stopping \in BOOLEAN
    /\ loop \in [Loops -> {"off", "check", "read", "tell", "wait"}]
    /\ seen \in [Loops -> 0..MaxChanges] /\ {previous, version, told} \subseteq 0..MaxChanges
    /\ starts \in 0..MaxStarts /\ failures \in 0..MaxFailures /\ timeouts \in 0..MaxTimeouts
    /\ leaked \in Nat /\ {halfOpen, reopened, lazy} \subseteq BOOLEAN

\* start() "takes a reference": as long as a host holds one, whatever the
\* others, requests and failures do, the meter is started, its source is
\* open, and a loop polls that nobody has asked to stop.
\* And "the poller stops when the last holder lets go": a meter nobody holds
\* runs only if a request has started it, or a start() that failed has
\* left its reference behind, which nobody will release.
RunsExactlyWhileHeld ==
    /\ (~Exited /\ \E h \in Hosts : pc[h] = "in")
          => started /\ open /\ thread # Nobody /\ loop[thread] # "off" /\ ~stopping
    /\ (Free /\ started)
          => (\E h \in Hosts : pc[h] = "in") \/ lazy \/ leaked > 0

\* Shutdown leaves nothing behind ("or the rest leak"): the source of a
\* meter that is not started is closed and no loop is left, unless the
\* store failed to start over it, or a join timed out.
StoppedMeansReleased ==
    (Free /\ ~started)
        => /\ open => halfOpen \/ reopened
           /\ (\E l \in Loops : loop[l] # "off") \/ reopened => timeouts > 0

\* What the store is told only ever moves forward, and nothing is told
\* twice, across any number of lives of the meter: two loops never poll
\* side by side unless one has outlasted a join.
ToldInOrder ==
    [][\A l \in Loops :
         (Tell(l) /\ seen[l] # previous /\ timeouts = 0) => seen[l] > told]_vars

\* A meter that stays started tells its store every change, though polls
\* fail and loops of an earlier life are still about.
ChangesAreTold ==
    \A v \in 1..MaxChanges :
        (version = v /\ started)
            ~> (told >= v \/ ~started)

\* No call of start(), stop() or ensure_started(), and no exit of the
\* interpreter, waits forever for a lock or a loop.
CallsReturn ==
    /\ \A t \in Hosts \cup Requests : pc[t] \in Steps ~> pc[t] \notin Steps
    /\ Exited ~> pc[AtExit] = "done"
=============================================================================
