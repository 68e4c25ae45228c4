------------------------ MODULE MeterLifecycleProofs ------------------------
(***************************************************************************)
(* For any number of hosts, requests and loops: that the meter runs while  *)
(* a host holds it, that a stopped meter has let go of its source and its  *)
(* loops, and that its store is told nothing out of order.                 *)
(*                                                                         *)
(* None of these is inductive.  They rest, in this order, on TypeOK (with  *)
(* it, on who holds the lock), on Running (what is true of a meter that is *)
(* started, and in each phase of starting and stopping one), on Counted    *)
(* (the reference count is the number of references) and on OneLoop (while *)
(* no join has timed out there is one loop at most).                       *)
(***************************************************************************)
EXTENDS MeterLifecycle, FiniteSetTheorems, TLAPS

LEMMA TypeAtFirst == Init => TypeOK
<1> SUFFICES ASSUME Init PROVE TypeOK
    OBVIOUS
<1>1. Nobody \notin Callers
    BY LifecycleAssumption
<1>2. \A t \in Callers : pc[t] \in Steps <=> lock = t
    BY <1>1 DEF Init, Steps
<1>3. /\ pc \in [Callers -> {"out", "in", "called", "done"} \cup Steps]
      /\ loop \in [Loops -> {"off", "check", "read", "tell", "wait"}]
      /\ seen \in [Loops -> 0..MaxChanges]
    BY LifecycleAssumption DEF Init
<1>4. /\ starts \in 0..MaxStarts /\ failures \in 0..MaxFailures /\ timeouts \in 0..MaxTimeouts
      /\ {previous, version, told} \subseteq 0..MaxChanges
    BY LifecycleAssumption DEF Init
<1>5. {halfOpen, reopened, lazy} \subseteq BOOLEAN
    BY DEF Init
<1> QED  BY <1>2, <1>3, <1>4, <1>5 DEF Init, TypeOK

\* Whoever begins to stop a meter takes the lock nobody had.
LEMMA BeginStopType ==
    ASSUME TypeOK, Free, NEW t \in Callers, BeginStop(t)
    PROVE  /\ pc' \in [Callers -> {"out", "in", "called", "done"} \cup Steps]
           /\ lock' \in Callers \cup {Nobody}
           /\ \A u \in Callers : pc'[u] \in Steps <=> lock' = u
           /\ {thread', joining'} \subseteq Loops \cup {Nobody}
           /\ stopping' \in BOOLEAN /\ started' \in BOOLEAN
<1> USE LifecycleAssumption DEF TypeOK, Free, BeginStop, Steps
<1>1. \A u \in Callers : pc[u] \notin Steps
    OBVIOUS
<1>2. \A u \in Callers : pc'[u] \in Steps <=> lock' = u
    BY <1>1
<1> QED  BY <1>2

\* One step per action.
LEMMA TypeKept == TypeOK /\ [Next]_vars => TypeOK'
<1> SUFFICES ASSUME TypeOK, [Next]_vars PROVE TypeOK'
    OBVIOUS
<1> USE LifecycleAssumption DEF TypeOK, Steps, Callers, meterVars, pollerVars, loopVars,
        bounds, history, Enter, Free, Unlock
<1>1. ASSUME NEW h \in Hosts, Start(h) PROVE TypeOK'
    BY <1>1 DEF Start, Count
<1>2. ASSUME NEW h \in Hosts, Stop(h) PROVE TypeOK'
    <2>1. CASE Stops(h)
        <3>1. Free /\ BeginStop(h) /\ h \in Callers
            BY <1>2, <2>1 DEF Stop
        <3>2. holders' \in Nat /\ UNCHANGED <<open, loopVars, version, bounds, history>>
            BY <1>2 DEF Stop
        <3> QED  BY <3>1, <3>2, BeginStopType
    <2>2. CASE ~Stops(h)
        BY <1>2, <2>2 DEF Stop
    <2> QED  BY <2>1, <2>2
<1>3. ASSUME NEW h \in Hosts, ExtraStop(h) PROVE TypeOK'
    BY <1>3, BeginStopType DEF ExtraStop
<1>4. ASSUME NEW r \in Requests, EnsureStarted(r) PROVE TypeOK'
    BY <1>4 DEF EnsureStarted
<1>5. CASE Exit
    BY <1>5 DEF Exit
<1>6. CASE ExitStop
    <2>1. AtExit \in Callers
        OBVIOUS
    <2>2. CASE started
        BY <1>6, <2>1, <2>2, BeginStopType DEF ExitStop
    <2>3. CASE ~started
        BY <1>6, <2>1, <2>3 DEF ExitStop
    <2> QED  BY <2>2, <2>3
<1>7. ASSUME NEW t \in Callers, OpenSource(t) PROVE TypeOK'
    BY <1>7 DEF OpenSource
<1>8. ASSUME NEW t \in Callers, Launch(t) PROVE TypeOK'
    <2>1. pc' \in [Callers -> {"out", "in", "called", "done"} \cup Steps]
          /\ lock' = Nobody /\ \A u \in Callers : pc'[u] \notin Steps
        BY <1>8 DEF Launch
    <2>2. /\ thread' \in Loops \cup {Nobody} /\ stopping' \in BOOLEAN
          /\ loop' \in [Loops -> {"off", "check", "read", "tell", "wait"}]
        BY <1>8 DEF Launch
    <2>3. lazy' \in BOOLEAN /\ started' \in BOOLEAN
        BY <1>8 DEF Launch
    <2>4. UNCHANGED <<holders, open, joining, seen, previous, told, version, bounds,
                      leaked, halfOpen, reopened>>
        BY <1>8 DEF Launch
    <2> QED  BY <2>1, <2>2, <2>3, <2>4
<1>9. ASSUME NEW t \in Callers, Join(t) \/ JoinTimesOut(t) PROVE TypeOK'
    BY <1>9 DEF Join, JoinTimesOut
<1>10. ASSUME NEW t \in Callers, Close(t) PROVE TypeOK'
    BY <1>10 DEF Close, CloseSource
<1>11. ASSUME NEW t \in Callers, StartFails(t) PROVE TypeOK'
    BY <1>11 DEF StartFails
<1>12. ASSUME NEW l \in Loops, Poll(l) PROVE TypeOK'
    <2>1. CASE Check(l)
        BY <2>1 DEF Check
    <2>2. CASE ReadSource(l)
        BY <2>2 DEF ReadSource
    <2>3. CASE Tell(l)
        BY <2>3 DEF Tell
    <2>4. CASE Wait(l)
        BY <2>4 DEF Wait
    <2> QED  BY <1>12, <2>1, <2>2, <2>3, <2>4 DEF Poll
<1>13. ASSUME NEW l \in Loops, PollFails(l) PROVE TypeOK'
    BY <1>13 DEF PollFails, GoesOn
<1>14. CASE Change
    BY <1>14 DEF Change
<1>15. CASE UNCHANGED vars
    BY <1>15 DEF vars
<1> QED
    BY <1>1, <1>2, <1>3, <1>4, <1>5, <1>6, <1>7, <1>8, <1>9, <1>10, <1>11, <1>12,
       <1>13, <1>14, <1>15 DEF Next, Lifespan, AnyCall, GoOn

\* Every variable keeps its type, and no two calls are under way at once.
THEOREM TypeCorrect == Spec => []TypeOK
    BY TypeAtFirst, TypeKept, PTL DEF Spec

-----------------------------------------------------------------------------
(* A meter that is started, and the phases of starting and stopping one.   *)

Running ==
    /\ \A t \in Callers : pc[t] = "in" => t \in Hosts
    /\ pc[AtExit] \notin {"in", "opening", "launching"}
    /\ \A t \in Callers : pc[t] \in {"launching", "joining"} => open
    /\ lock # Nobody => ~started
    /\ started => open /\ thread # Nobody /\ loop[thread] # "off" /\ ~stopping
    /\ ~started => thread = Nobody

LEMMA RunningAtFirst == Init => Running
    BY LifecycleAssumption DEF Init, Running, Callers

\* One step per action.
LEMMA RunningKept == TypeOK /\ Running /\ [Next]_vars => Running'
<1> SUFFICES ASSUME TypeOK, Running, [Next]_vars PROVE Running'
    OBVIOUS
<1> USE LifecycleAssumption DEF Running, TypeOK, Steps, meterVars, pollerVars, loopVars,
        bounds, history, Enter, Free, Unlock
<1>0. AtExit \in Callers /\ AtExit \notin Hosts \cup Requests
      /\ Hosts \subseteq Callers /\ Requests \subseteq Callers
    BY DEF Callers
<1>1. ASSUME NEW h \in Hosts, Start(h) PROVE Running'
    BY <1>0, <1>1 DEF Start, Count
<1>2. ASSUME NEW h \in Hosts, Stop(h) PROVE Running'
    <2>1. CASE Stops(h)
        BY <1>0, <1>2, <2>1 DEF Stop, Stops, BeginStop
    <2>2. CASE ~Stops(h)
        BY <1>0, <1>2, <2>2 DEF Stop
    <2> QED  BY <2>1, <2>2
<1>3. ASSUME NEW h \in Hosts, ExtraStop(h) PROVE Running'
    BY <1>0, <1>3 DEF ExtraStop, BeginStop
<1>4. ASSUME NEW r \in Requests, EnsureStarted(r) PROVE Running'
    BY <1>0, <1>4 DEF EnsureStarted
<1>5. CASE Exit
    BY <1>0, <1>5 DEF Exit
<1>6. CASE ExitStop
    <2>1. CASE started
        BY <1>0, <1>6, <2>1 DEF ExitStop, BeginStop
    <2>2. CASE ~started
        BY <1>0, <1>6, <2>2 DEF ExitStop
    <2> QED  BY <2>1, <2>2
<1>7. ASSUME NEW t \in Callers, OpenSource(t) PROVE Running'
    BY <1>0, <1>7 DEF OpenSource
<1>8. ASSUME NEW t \in Callers, Launch(t) PROVE Running'
    <2>1. lock = t /\ ~started /\ thread = Nobody
        BY <1>8 DEF Launch
    <2>2. PICK l \in Loops : /\ stopping' = FALSE /\ thread' = l
                             /\ loop' = [loop EXCEPT ![l] = "check"]
        BY <1>8, <2>1 DEF Launch
    <2>3. thread' # Nobody /\ loop'[thread'] # "off"
        BY <2>2
    <2>4. /\ lock' = Nobody /\ started' /\ open' = open /\ open
          /\ pc' = [pc EXCEPT ![t] = IF t \in Hosts THEN "in" ELSE "out"]
        BY <1>8 DEF Launch
    <2> QED  BY <1>0, <2>2, <2>3, <2>4
<1>9. ASSUME NEW t \in Callers, Join(t) \/ JoinTimesOut(t) PROVE Running'
    BY <1>0, <1>9 DEF Join, JoinTimesOut
<1>10. ASSUME NEW t \in Callers, Close(t) PROVE Running'
    <2>1. \A u \in Callers : pc'[u] \notin Steps
        BY <1>10 DEF Close
    <2>2. lock = t /\ ~started /\ UNCHANGED <<started, thread>>
        BY <1>10 DEF Close
    <2> QED  BY <1>0, <1>10, <2>1, <2>2 DEF Close, CloseSource
<1>11. ASSUME NEW t \in Callers, StartFails(t) PROVE Running'
    BY <1>0, <1>11 DEF StartFails
<1>12. ASSUME NEW l \in Loops, Poll(l) PROVE Running'
    <2>1. CASE Check(l)
        BY <2>1 DEF Check, Asked
    <2>2. CASE ReadSource(l)
        BY <2>2 DEF ReadSource
    <2>3. CASE Tell(l)
        BY <2>3 DEF Tell
    <2>4. CASE Wait(l)
        BY <2>4 DEF Wait
    <2> QED  BY <1>12, <2>1, <2>2, <2>3, <2>4 DEF Poll
<1>13. ASSUME NEW l \in Loops, PollFails(l) PROVE Running'
    BY <1>13 DEF PollFails, GoesOn
<1>14. CASE Change
    BY <1>14 DEF Change
<1>15. CASE UNCHANGED vars
    BY <1>15 DEF vars
<1> QED
    BY <1>1, <1>2, <1>3, <1>4, <1>5, <1>6, <1>7, <1>8, <1>9, <1>10, <1>11, <1>12,
       <1>13, <1>14, <1>15 DEF Next, Lifespan, AnyCall, GoOn

-----------------------------------------------------------------------------
(* The count.                                                              *)

\* The hosts that hold a reference, or are about to.
Holding == {h \in Hosts : pc[h] \in {"in", "opening", "launching"}}

\* Every reference is a host's, or was leaked by a start() that failed; a
\* meter somebody holds is started, and one that is started is held.
Counted ==
    /\ ~Exited => holders = Cardinality(Holding) + leaked
    /\ ~Exited /\ (\E h \in Hosts : pc[h] = "in") => started
    /\ Free /\ started => (\E h \in Hosts : pc[h] = "in") \/ lazy \/ leaked > 0

LEMMA HoldingIsFinite == IsFiniteSet(Holding) /\ Cardinality(Holding) \in Nat
    BY LifecycleAssumption, FS_Subset, FS_CardinalityType DEF Holding

\* A step that leaves alone who holds the meter.
LEMMA CountUntouched ==
    ASSUME Counted, Holding' = Holding, holders' = holders, leaked' = leaked,
           \A h \in Hosts : pc'[h] = "in" <=> pc[h] = "in",
           Exited => Exited', started => started',
           Free' /\ started' => Free /\ started /\ (lazy => lazy')
    PROVE  Counted'
    BY DEF Counted

LEMMA CountedAtFirst == Init => Counted
<1> SUFFICES ASSUME Init PROVE Counted
    OBVIOUS
<1>1. Holding = {}
    BY DEF Init, Holding, Callers
<1> QED  BY <1>1, FS_EmptySet DEF Init, Counted, Callers

\* One step per action that moves a reference, starts or stops the meter.
LEMMA CountedKept == TypeOK /\ Running /\ Counted /\ [Next]_vars => Counted'
<1> SUFFICES ASSUME TypeOK, Running, Counted, [Next]_vars PROVE Counted'
    OBVIOUS
<1> USE LifecycleAssumption, HoldingIsFinite
        DEF TypeOK, Steps, meterVars, pollerVars, loopVars, bounds, history, Enter, Free,
            Unlock, Exited
<1>0. AtExit \in Callers /\ AtExit \notin Hosts \cup Requests /\ Hosts \cap Requests = {}
      /\ Hosts \subseteq Callers /\ Requests \subseteq Callers
    BY DEF Callers
<1>a. ASSUME NEW h \in Hosts, h \notin Holding, Holding' = Holding \cup {h}
      PROVE  Cardinality(Holding') = Cardinality(Holding) + 1
    BY <1>a, FS_AddElement
<1>b. ASSUME NEW h \in Hosts, h \in Holding, Holding' = Holding \ {h}
      PROVE  /\ Cardinality(Holding') = Cardinality(Holding) - 1
             /\ Cardinality(Holding') \in Nat
             /\ Cardinality(Holding') = 0 => Holding' = {}
    <2>1. IsFiniteSet(Holding') /\ Cardinality(Holding') = Cardinality(Holding) - 1
        BY <1>b, FS_RemoveElement
    <2> QED  BY <2>1, FS_EmptySet, FS_CardinalityType
<1>1. ASSUME NEW h \in Hosts, Start(h) PROVE Counted'
    <2>1. h \notin Holding /\ Holding' = Holding \cup {h}
        BY <1>0, <1>1 DEF Start, Holding
    <2>2. Cardinality(Holding') = Cardinality(Holding) + 1
        BY <2>1, <1>a
    <2>3. pc'[AtExit] = pc[AtExit] /\ ~Exited
        BY <1>0, <1>1 DEF Start
    <2>4. holders' = holders + 1 /\ UNCHANGED <<leaked, started, lazy>>
        BY <1>1 DEF Start, Count
    <2>5. CASE started
        BY <1>0, <1>1, <2>2, <2>3, <2>4, <2>5 DEF Counted, Start
    <2>6. CASE ~started
        BY <1>0, <1>1, <2>2, <2>3, <2>4, <2>6 DEF Counted, Start
    <2> QED  BY <2>5, <2>6
<1>2. ASSUME NEW h \in Hosts, Stop(h) PROVE Counted'
    <2>1. h \in Holding /\ Holding' = Holding \ {h}
        BY <1>0, <1>2 DEF Stop, BeginStop, Holding
    <2>2. /\ Cardinality(Holding') = Cardinality(Holding) - 1
          /\ Cardinality(Holding') \in Nat
          /\ Cardinality(Holding') = 0 => Holding' = {}
        BY <2>1, <1>b
    <2>3. pc'[AtExit] = pc[AtExit] /\ ~Exited /\ Free
        BY <1>0, <1>2 DEF Stop, BeginStop
    <2>4. holders = Cardinality(Holding) + leaked
        BY <2>3 DEF Counted
    <2>5. holders' = holders - 1 /\ UNCHANGED <<leaked, lazy>>
        BY <1>2, <2>2, <2>4 DEF Stop
    <2>6. started
        BY <1>2, <2>3 DEF Counted, Stop
    <2>7. CASE Stops(h)
        <3>1. Holding' = {}
            BY <2>2, <2>4, <2>7 DEF Stops
        <3>2. ~started' /\ ~Free'
            BY <1>0, <1>2, <2>7 DEF Stop, BeginStop
        <3> QED  BY <2>2, <2>4, <2>5, <3>1, <3>2 DEF Counted, Holding
    <2>8. CASE ~Stops(h)
        <3>1. holders > 1 /\ UNCHANGED <<lock, started>>
            BY <1>2, <2>6, <2>8 DEF Stop, Stops
        <3>2. leaked > 0 \/ Cardinality(Holding') > 0
            BY <2>2, <2>4, <3>1
        <3>3. Holding' # {} => \E g \in Hosts : pc'[g] = "in"
            BY <1>0, <1>2, <2>3, <2>8 DEF Holding, Stop
        <3>4. Cardinality(Holding') > 0 => Holding' # {}
            BY FS_EmptySet
        <3> QED  BY <2>2, <2>3, <2>4, <2>5, <2>6, <3>1, <3>2, <3>3, <3>4 DEF Counted
    <2> QED  BY <2>7, <2>8
<1>3. ASSUME NEW h \in Hosts, ExtraStop(h) PROVE Counted'
    <2>1. Holding' = Holding /\ UNCHANGED <<leaked, holders>>
        BY <1>0, <1>3 DEF ExtraStop, BeginStop, Holding
    <2>2. pc'[AtExit] = pc[AtExit] /\ ~Exited
        BY <1>0, <1>3 DEF ExtraStop, BeginStop
    <2>3. Holding = {}
        BY <1>3, <2>2, FS_EmptySet DEF ExtraStop, Counted
    <2>4. ~started' /\ ~Free'
        BY <1>0, <1>3 DEF ExtraStop, BeginStop
    <2> QED  BY <2>1, <2>2, <2>3, <2>4 DEF Counted, Holding
<1>4. ASSUME NEW r \in Requests, EnsureStarted(r) PROVE Counted'
    <2>1. \A t \in Callers : t # r => pc'[t] = pc[t]
        BY <1>0, <1>4 DEF EnsureStarted
    <2>2. Holding' = Holding
        BY <1>0, <2>1 DEF Holding
    <2> QED  BY <1>0, <1>4, <2>1, <2>2, CountUntouched DEF EnsureStarted
<1>5. CASE Exit
    <2>1. \A t \in Callers : t # AtExit => pc'[t] = pc[t]
        BY <1>0, <1>5 DEF Exit
    <2>2. Holding' = Holding
        BY <1>0, <2>1 DEF Holding
    <2> QED  BY <1>0, <1>5, <2>1, <2>2, CountUntouched DEF Exit
<1>6. CASE ExitStop
    <2>1. pc'[AtExit] # "out"
        BY <1>0, <1>6 DEF ExitStop, BeginStop
    <2>2. ~started'
        BY <1>6 DEF ExitStop, BeginStop
    <2> QED  BY <2>1, <2>2 DEF Counted
<1>7. ASSUME NEW t \in Callers, OpenSource(t) PROVE Counted'
    <2>1. Holding' = Holding
        BY <1>7 DEF OpenSource, Holding, Callers
    <2> QED  BY <1>0, <1>7, <2>1, CountUntouched DEF OpenSource
<1>8. ASSUME NEW t \in Callers, Launch(t) PROVE Counted'
    <2>1. /\ pc[t] = "launching" /\ started' /\ UNCHANGED <<holders, leaked>>
          /\ pc' = [pc EXCEPT ![t] = IF t \in Hosts THEN "in" ELSE "out"]
          /\ lazy' = (t \in Requests)
        BY <1>8 DEF Launch
    <2>2. t \in Hosts \cup Requests
        BY <2>1 DEF Running, Callers
    <2>3. Holding' = Holding
        BY <1>0, <2>1, <2>2 DEF Holding
    <2> QED  BY <1>0, <2>1, <2>2, <2>3 DEF Counted
<1>9. ASSUME NEW t \in Callers, Join(t) \/ JoinTimesOut(t) PROVE Counted'
    <2>1. Holding' = Holding
        BY <1>9 DEF Join, JoinTimesOut, Holding, Callers
    <2> QED  BY <1>0, <1>9, <2>1, CountUntouched DEF Join, JoinTimesOut
<1>10. ASSUME NEW t \in Callers, Close(t) PROVE Counted'
    <2>1. Holding' = Holding
        BY <1>10 DEF Close, Holding, Callers
    <2>2. ~started
        BY <1>10 DEF Close, Running
    <2> QED  BY <1>0, <1>10, <2>1, <2>2, CountUntouched DEF Close
<1>11. ASSUME NEW t \in Callers, StartFails(t) PROVE Counted'
    <2>1. ~started /\ UNCHANGED <<holders, started, lazy>>
        BY <1>11 DEF StartFails, Running
    <2>2. CASE t \in Hosts
        <3>1. t \in Holding /\ Holding' = Holding \ {t}
            BY <1>0, <1>11, <2>2 DEF StartFails, Holding
        <3>2. Cardinality(Holding') = Cardinality(Holding) - 1
            BY <3>1, <2>2, <1>b
        <3>3. leaked' = leaked + 1 /\ pc'[AtExit] = pc[AtExit]
            BY <1>0, <1>11, <2>2 DEF StartFails
        <3>4. \A h \in Hosts : pc'[h] = "in" => pc[h] = "in"
            BY <1>0, <1>11 DEF StartFails
        <3> QED  BY <2>1, <3>2, <3>3, <3>4 DEF Counted
    <2>3. CASE t \notin Hosts
        <3>1. Holding' = Holding /\ \A h \in Hosts : pc'[h] = pc[h]
            BY <1>0, <1>11, <2>3 DEF StartFails, Holding
        <3>2. t # AtExit
            BY <1>11 DEF StartFails, Running
        <3> QED  BY <1>0, <1>11, <2>1, <2>3, <3>1, <3>2 DEF Counted, StartFails
    <2> QED  BY <2>2, <2>3
<1>12. ASSUME NEW l \in Loops, Poll(l) \/ PollFails(l) PROVE Counted'
    <2>1. UNCHANGED <<pc, meterVars, lazy, leaked>>
        BY <1>12 DEF Poll, PollFails, Check, ReadSource, Tell, Wait
    <2> QED  BY <2>1, CountUntouched DEF Holding
<1>13. CASE Change \/ UNCHANGED vars
    BY <1>13, CountUntouched DEF Change, vars, Holding
<1> QED
    BY <1>1, <1>2, <1>3, <1>4, <1>5, <1>6, <1>7, <1>8, <1>9, <1>10, <1>11, <1>12,
       <1>13 DEF Next, Lifespan, AnyCall, GoOn

LEMMA RunsWhileHeld == Running /\ Counted => RunsExactlyWhileHeld
    BY DEF Running, Counted, RunsExactlyWhileHeld

\* As long as a host holds a reference, whatever the others, requests and
\* failures do, the meter is started, its source open, and a loop polls that
\* nobody has asked to stop; and a meter nobody holds runs only because a
\* request started it, or a start() that failed has left its reference.
THEOREM HeldMeansRunning == Spec => []RunsExactlyWhileHeld
<1>1. Init => TypeOK /\ Running /\ Counted
    BY TypeAtFirst, RunningAtFirst, CountedAtFirst
<1>2. TypeOK /\ Running /\ Counted /\ [Next]_vars => (TypeOK /\ Running /\ Counted)'
    BY TypeKept, RunningKept, CountedKept
<1> QED  BY <1>1, <1>2, RunsWhileHeld, PTL DEF Spec

-----------------------------------------------------------------------------
(* What a stop leaves behind.                                              *)

\* A loop that runs is the poller's own or the one stop() waits for, as
\* long as no join has timed out.
OneLoop ==
    /\ joining # Nobody => \E t \in Callers : pc[t] = "joining"
    /\ timeouts = 0 => \A l \in Loops : loop[l] # "off" => l \in {thread, joining}

\* The source is open for a meter that is started, starting or stopping, or
\* because a component failed to start over it, or a stray loop reads it.
LetGo ==
    /\ open => \/ started \/ halfOpen \/ reopened
               \/ \E t \in Callers : pc[t] \in {"launching", "joining", "closing"}
    /\ reopened => timeouts > 0

Released == OneLoop /\ LetGo

LEMMA ReleasedAtFirst == Init => Released
    BY DEF Init, Released, OneLoop, LetGo

\* One step per action.
LEMMA ReleasedKept == TypeOK /\ Running /\ Released /\ [Next]_vars => Released'
<1> SUFFICES ASSUME TypeOK, Running, Released, [Next]_vars PROVE Released'
    OBVIOUS
<1> USE LifecycleAssumption
        DEF TypeOK, Running, Steps, meterVars, pollerVars, loopVars, bounds, history, Enter,
            Free, Unlock, Released, OneLoop, LetGo
<1>0. AtExit \in Callers /\ Hosts \subseteq Callers /\ Requests \subseteq Callers
    BY DEF Callers
<1>a. Free => joining = Nobody
    OBVIOUS
<1>b. timeouts \in Nat
    OBVIOUS
<1>c. ASSUME NEW t \in Callers, Free, started, BeginStop(t),
             UNCHANGED <<open, loopVars, version, timeouts, history>>
      PROVE  Released'
    <2>1. pc'[t] = "joining" /\ joining' = thread /\ thread' = Nobody
        BY <1>c DEF BeginStop
    <2> QED  BY <1>c, <1>a, <2>1
<1>1. ASSUME NEW h \in Hosts, Start(h) PROVE Released'
    <2>1. \A t \in Callers : t # h => pc'[t] = pc[t]
        BY <1>0, <1>1 DEF Start
    <2>2. pc[h] = "out" /\ UNCHANGED <<started, open, pollerVars, loop, timeouts, history>>
        BY <1>1 DEF Start
    <2> QED  BY <2>1, <2>2
<1>2. ASSUME NEW h \in Hosts, Stop(h) PROVE Released'
    <2>1. CASE Stops(h)
        BY <1>0, <1>c, <1>2, <2>1 DEF Stop, Stops
    <2>2. CASE ~Stops(h)
        BY <1>0, <1>2, <2>2 DEF Stop
    <2> QED  BY <2>1, <2>2
<1>3. ASSUME NEW h \in Hosts, ExtraStop(h) PROVE Released'
    BY <1>0, <1>c, <1>3 DEF ExtraStop
<1>4. ASSUME NEW r \in Requests, EnsureStarted(r) PROVE Released'
    BY <1>0, <1>4 DEF EnsureStarted
<1>5. CASE Exit
    BY <1>0, <1>5 DEF Exit
<1>6. CASE ExitStop
    <2>1. CASE started
        BY <1>0, <1>c, <1>6, <2>1 DEF ExitStop
    <2>2. CASE ~started
        BY <1>0, <1>6, <2>2 DEF ExitStop
    <2> QED  BY <2>1, <2>2
<1>7. ASSUME NEW t \in Callers, OpenSource(t) PROVE Released'
    BY <1>7 DEF OpenSource
<1>8. ASSUME NEW t \in Callers, Launch(t) PROVE Released'
    <2>1. lock = t /\ thread = Nobody /\ pc[t] = "launching"
        BY <1>8 DEF Launch
    <2>2. joining = Nobody
        BY <2>1
    <2>3. PICK l \in Loops : thread' = l /\ loop' = [loop EXCEPT ![l] = "check"]
        BY <1>8, <2>1 DEF Launch
    <2>4. started' /\ UNCHANGED <<joining, timeouts, reopened>>
        BY <1>8 DEF Launch
    <2> QED  BY <2>1, <2>2, <2>3, <2>4
<1>9. ASSUME NEW t \in Callers, Join(t) PROVE Released'
    <2>1. pc[t] = "joining" /\ pc'[t] = "closing" /\ joining' = Nobody
        BY <1>9 DEF Join
    <2>2. joining # Nobody => loop[joining] = "off"
        BY <1>9 DEF Join, Joined
    <2> QED  BY <1>9, <2>1, <2>2 DEF Join
<1>10. ASSUME NEW t \in Callers, JoinTimesOut(t) PROVE Released'
    <2>1. pc'[t] = "closing" /\ joining' = Nobody /\ timeouts' > 0
        BY <1>b, <1>10 DEF JoinTimesOut
    <2> QED  BY <1>10, <2>1 DEF JoinTimesOut
<1>11. ASSUME NEW t \in Callers, Close(t) PROVE Released'
    <2>1. joining = Nobody /\ ~open' /\ ~reopened'
        BY <1>11 DEF Close, CloseSource
    <2>2. UNCHANGED <<pollerVars, loop, timeouts>>
        BY <1>11 DEF Close
    <2> QED  BY <2>1, <2>2
<1>12. ASSUME NEW t \in Callers, StartFails(t) PROVE Released'
    <2>1. joining = Nobody /\ UNCHANGED <<open, started, pollerVars, loop, timeouts, reopened>>
        BY <1>12 DEF StartFails
    <2>2. CASE pc[t] = "launching"
        BY <1>12, <2>1, <2>2 DEF StartFails
    <2>3. CASE pc[t] = "opening"
        BY <1>12, <2>1, <2>3 DEF StartFails
    <2> QED  BY <1>12, <2>2, <2>3 DEF StartFails
<1>13. ASSUME NEW l \in Loops, Poll(l) PROVE Released'
    <2>1. CASE Check(l)
        BY <2>1 DEF Check
    <2>2. CASE ReadSource(l)
        <3>1. UNCHANGED <<pc, started, pollerVars, timeouts, halfOpen>> /\ loop[l] # "off"
            BY <2>2 DEF ReadSource
        <3>2. \A m \in Loops : loop'[m] # "off" => loop[m] # "off"
            BY <2>2 DEF ReadSource
        <3>3. ASSUME reopened', ~reopened PROVE timeouts > 0
            <4>1. ~open /\ ~started
                BY <2>2, <3>3 DEF ReadSource
            <4>2. l # thread /\ l # joining
                BY <4>1
            <4> QED  BY <1>b, <3>1, <4>2
        <3>4. reopened' \/ started \/ open
            BY <2>2 DEF ReadSource
        <3>5. reopened => reopened'
            BY <2>2 DEF ReadSource
        <3> QED  BY <3>1, <3>2, <3>3, <3>4, <3>5
    <2>3. CASE Tell(l)
        BY <2>3 DEF Tell
    <2>4. CASE Wait(l)
        BY <2>4 DEF Wait
    <2> QED  BY <1>13, <2>1, <2>2, <2>3, <2>4 DEF Poll
<1>14. ASSUME NEW l \in Loops, PollFails(l) PROVE Released'
    BY <1>14 DEF PollFails, GoesOn
<1>15. CASE Change
    BY <1>15 DEF Change
<1>16. CASE UNCHANGED vars
    BY <1>16 DEF vars
<1> QED
    BY <1>1, <1>2, <1>3, <1>4, <1>5, <1>6, <1>7, <1>8, <1>9, <1>10, <1>11, <1>12,
       <1>13, <1>14, <1>15, <1>16 DEF Next, Lifespan, AnyCall, GoOn

LEMMA ReleasedWhenStopped == TypeOK /\ Running /\ Released => StoppedMeansReleased
    BY LifecycleAssumption
       DEF TypeOK, Running, Released, OneLoop, LetGo, Steps, Free, StoppedMeansReleased

\* A stop leaves nothing behind: when the meter is not started and nobody is
\* inside a call, its source is closed and no loop is left, unless the store
\* failed to start over the source, or a join timed out.
THEOREM NothingIsLeftBehind == Spec => []StoppedMeansReleased
<1>1. Init => TypeOK /\ Running /\ Released
    BY TypeAtFirst, RunningAtFirst, ReleasedAtFirst
<1>2. TypeOK /\ Running /\ Released /\ [Next]_vars => (TypeOK /\ Running /\ Released)'
    BY TypeKept, RunningKept, ReleasedKept
<1> QED  BY <1>1, <1>2, ReleasedWhenStopped, PTL DEF Spec

-----------------------------------------------------------------------------
(* What the store is told.                                                 *)

\* The store was told what was seen last, and what a loop is about to tell
\* is no older than that.
InOrder ==
    /\ told = previous /\ previous <= version
    /\ \A l \in Loops : seen[l] <= version
    /\ timeouts = 0 => \A l \in Loops : loop[l] = "tell" => previous <= seen[l]

LEMMA InOrderAtFirst == Init => InOrder
    BY DEF Init, InOrder

\* Two loops do not run at once.
LEMMA OneAtATime ==
    ASSUME TypeOK, Running, OneLoop, timeouts = 0, NEW l \in Loops, NEW m \in Loops,
           loop[l] # "off", loop[m] # "off"
    PROVE  l = m
<1>1. joining # Nobody => thread = Nobody
    BY LifecycleAssumption DEF TypeOK, Running, OneLoop, Steps
<1> QED  BY <1>1, LifecycleAssumption DEF OneLoop

LEMMA InOrderKept == TypeOK /\ Running /\ Released /\ InOrder /\ [Next]_vars => InOrder'
<1> SUFFICES ASSUME TypeOK, Running, Released, InOrder, [Next]_vars PROVE InOrder'
    OBVIOUS
<1>0. /\ timeouts \in Nat /\ {previous, version, told} \subseteq Nat
      /\ seen \in [Loops -> Nat] /\ loop \in [Loops -> {"off", "check", "read", "tell", "wait"}]
    BY LifecycleAssumption DEF TypeOK
<1>1. ASSUME UNCHANGED <<seen, previous, told, version>>,
             timeouts' = 0 => timeouts = 0,
             \A l \in Loops : loop'[l] = "tell" => loop[l] = "tell"
      PROVE  InOrder'
    BY <1>1 DEF InOrder
<1>2. ASSUME NEW h \in Hosts, Lifespan(h) PROVE InOrder'
    BY <1>1, <1>2 DEF Lifespan, Start, Count, Stop, ExtraStop, BeginStop, loopVars, bounds
<1>3. ASSUME NEW r \in Requests, EnsureStarted(r) PROVE InOrder'
    BY <1>1, <1>3 DEF EnsureStarted, loopVars, bounds
<1>4. CASE Exit \/ ExitStop
    BY <1>1, <1>4 DEF Exit, ExitStop, loopVars, bounds
<1>5. ASSUME NEW t \in Callers, AnyCall(t) PROVE InOrder'
    <2>1. CASE Launch(t)
        <3>1. \A l \in Loops : loop'[l] = "tell" => loop[l] = "tell"
            BY <1>0, <2>1 DEF Launch
        <3> QED  BY <1>1, <2>1, <3>1 DEF Launch, bounds
    <2>2. CASE JoinTimesOut(t)
        BY <1>0, <1>1, <2>2 DEF JoinTimesOut, loopVars
    <2>3. CASE OpenSource(t) \/ Join(t) \/ Close(t) \/ StartFails(t)
        BY <1>1, <2>3 DEF OpenSource, Join, Close, StartFails, loopVars, bounds
    <2> QED  BY <1>5, <2>1, <2>2, <2>3 DEF AnyCall, GoOn
<1>6. ASSUME NEW l \in Loops, Poll(l) PROVE InOrder'
    <2>1. CASE Check(l) \/ Wait(l)
        BY <1>0, <1>1, <2>1 DEF Check, Wait, bounds
    <2>2. CASE ReadSource(l)
        BY <1>0, <2>2 DEF InOrder, ReadSource, bounds
    <2>3. CASE Tell(l)
        <3>1. timeouts = 0 => \A m \in Loops : loop[m] = "tell" => m = l
            BY <2>3, OneAtATime DEF Tell, Released
        <3>2. /\ told' = previous' /\ previous' = seen[l] /\ UNCHANGED <<version, timeouts>>
              /\ seen' = [seen EXCEPT ![l] = 0] /\ loop' = [loop EXCEPT ![l] = "wait"]
            BY <2>3 DEF Tell, InOrder, bounds
        <3> QED  BY <1>0, <3>1, <3>2 DEF InOrder
    <2> QED  BY <1>6, <2>1, <2>2, <2>3 DEF Poll
<1>7. ASSUME NEW l \in Loops, PollFails(l) PROVE InOrder'
    BY <1>0, <1>7 DEF InOrder, PollFails, GoesOn
<1>8. CASE Change
    BY <1>0, <1>8 DEF InOrder, Change, loopVars, bounds
<1>9. CASE UNCHANGED vars
    BY <1>1, <1>9 DEF vars, loopVars, bounds
<1> QED
    BY <1>2, <1>3, <1>4, <1>5, <1>6, <1>7, <1>8, <1>9 DEF Next

\* Across any number of lives of the meter the store is told each change at
\* most once, and later ones after earlier ones, as long as no loop has
\* outlasted the join that was to wait for it.
THEOREM NewsMovesForward == Spec => ToldInOrder
<1>1. Init => TypeOK /\ Running /\ Released /\ InOrder
    BY TypeAtFirst, RunningAtFirst, ReleasedAtFirst, InOrderAtFirst
<1>2. TypeOK /\ Running /\ Released /\ InOrder /\ [Next]_vars
         => (TypeOK /\ Running /\ Released /\ InOrder)'
    BY TypeKept, RunningKept, ReleasedKept, InOrderKept
<1>3. TypeOK /\ InOrder
         => [\A l \in Loops :
               (Tell(l) /\ seen[l] # previous /\ timeouts = 0) => seen[l] > told]_vars
    BY LifecycleAssumption DEF TypeOK, InOrder, Tell
<1> QED  BY <1>1, <1>2, <1>3, PTL DEF Spec, ToldInOrder
=============================================================================
