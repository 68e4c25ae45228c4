--------------------------- MODULE TransportProofs ---------------------------
(***************************************************************************)
(* What carries the events to the server, and from it to a client.         *)
(*                                                                         *)
(* OsloDelivery, for any notifications, deliveries, failures and crashes:  *)
(* that no batch is acknowledged that the handler has not returned for,    *)
(* that a batch is held by the thread that brought it while the handler    *)
(* runs, and that the handler returns for it once in the life of a         *)
(* process.  What carries these is the protocol between the two threads of *)
(* one delivery: Held says who may still settle it and who has.            *)
(*                                                                         *)
(* Serving, for any runs, mount points and proxies: that a link leads back *)
(* to what it stands for, and that a client is never left without the end  *)
(* of its response.  The first rests on what a path is: the lemmas go from *)
(* sequences, by the six templates, of which exactly one matches a path    *)
(* that is made of it (FoundIs), and the mount point, which every adapter  *)
(* takes off and puts back (LandsIs), to the answers of the handlers       *)
(* (HandleFits); Led says that the client holds no other links than those. *)
(* Wired ties the watcher and the response to the step the stream is at.   *)
(***************************************************************************)
EXTENDS OsloDelivery, Serving, SortedNumbersProofs

LEMMA TypeAtFirst == Init => TypeOK
<1> SUFFICES ASSUME Init PROVE TypeOK
    OBVIOUS
<1>1. pending \in Seq(Ids)
    BY EmptySeq DEF Init
<1>2. times \in [Batches -> Nat] /\ stored \subseteq Batches
    BY DEF Init
<1>3. /\ failures \in 0..MaxFailures /\ giveups \in 0..MaxGiveUps
      /\ crashes \in 0..MaxCrashes /\ late \in 0..MaxLate
    BY DeliveryAssumption DEF Init
<1> QED  BY <1>1, <1>2, <1>3 DEF Init, TypeOK, None

\* The queue of deliveries, when one is put up and when one is taken.
LEMMA PutUp ==
    ASSUME pending \in Seq(Ids), NEW d \in Ids, pending' = Append(pending, d)
    PROVE  /\ pending' \in Seq(Ids)
           /\ \A i \in DOMAIN pending' :
                  pending'[i] = d \/ (i \in DOMAIN pending /\ pending'[i] = pending[i])
<1>1. /\ pending' \in Seq(Ids) /\ Len(pending') = Len(pending) + 1
      /\ \A i \in 1..Len(pending) : pending'[i] = pending[i]
      /\ pending'[Len(pending) + 1] = d
    BY AppendProperties
<1>2. /\ Len(pending) \in Nat /\ DOMAIN pending = 1..Len(pending)
      /\ DOMAIN pending' = 1..(Len(pending) + 1)
    BY <1>1, LenProperties
<1> QED  BY <1>1, <1>2

LEMMA TakenOff ==
    ASSUME pending \in Seq(Ids), pending # <<>>
    PROVE  /\ Head(pending) \in Ids /\ Tail(pending) \in Seq(Ids)
           /\ 1 \in DOMAIN pending /\ Head(pending) = pending[1]
           /\ \A i \in DOMAIN Tail(pending) :
                  i + 1 \in DOMAIN pending /\ Tail(pending)[i] = pending[i + 1]
<1>1. /\ Head(pending) \in Ids /\ Tail(pending) \in Seq(Ids)
      /\ Len(Tail(pending)) = Len(pending) - 1 /\ Head(pending) = pending[1]
      /\ \A i \in 1..Len(Tail(pending)) : Tail(pending)[i] = pending[i + 1]
    BY HeadTailProperties
<1>2. /\ Len(pending) \in Nat /\ Len(pending) > 0 /\ DOMAIN pending = 1..Len(pending)
      /\ DOMAIN Tail(pending) = 1..(Len(pending) - 1)
    BY <1>1, LenProperties, EmptySeq
<1> QED  BY <1>1, <1>2

\* The consumer holds a delivery while it claims it, or handles its batch;
\* any other delivery is held by the thread that waits for a verdict.
\*  - a thread that waits holds a batch the broker waits for, and no other
\*    thread holds the same;
\*  - a verdict is given only for a delivery that was settled;
\*  - a thread whose delivery was not settled has not gone away;
\*  - the delivery being handled is settled, and its thread still waits.
Held ==
    /\ \A d \in Ids : ipc[d] # "none" => batch[d] \in Batches /\ broker[batch[d]] = "out"
    /\ \A d, e \in Ids :
           ipc[d] # "none" /\ ipc[e] # "none" /\ batch[d] = batch[e] => d = e
    /\ \A d \in Ids : done[d] => settled[d]
    /\ \A i \in DOMAIN pending : ipc[pending[i]] = "none" => settled[pending[i]]
    /\ cpc = "claim" => cur \in Ids /\ (ipc[cur] = "none" => settled[cur])
    /\ cpc \in {"handle", "finish"} =>
           cur \in Ids /\ ipc[cur] # "none" /\ settled[cur] /\ ~done[cur]

HeldInv == TypeOK /\ Held

LEMMA HeldAtFirst == Init => HeldInv
<1> SUFFICES ASSUME Init PROVE Held
    BY TypeAtFirst DEF HeldInv
<1>1. DOMAIN pending = {}
    BY DEF Init
<1> QED  BY <1>1 DEF Init, Held

\* One step per action.
LEMMA TypeKept == HeldInv /\ [Next]_vars => TypeOK'
<1> SUFFICES ASSUME HeldInv, [Next]_vars PROVE TypeOK'
    OBVIOUS
<1>0. TypeOK /\ Held
    BY DEF HeldInv
<1> USE DeliveryAssumption, <1>0 DEF TypeOK, deliveryVars, history, counters, Finish, Return
<1>1. ASSUME NEW b \in Batches, Discard(b) PROVE TypeOK'
    BY <1>1 DEF Discard
<1>2. ASSUME NEW b \in Batches, NEW d \in Ids, Arrive(b, d) PROVE TypeOK'
    <2>1. pending' \in Seq(Ids)
        BY <1>2, PutUp DEF Arrive
    <2>2. late' \in 0..MaxLate
        BY <1>2 DEF Arrive
    <2> QED  BY <1>2, <2>1, <2>2 DEF Arrive
<1>3. ASSUME NEW d \in Ids, WaitTimesOut(d) PROVE TypeOK'
    BY <1>3 DEF WaitTimesOut
<1>4. ASSUME NEW d \in Ids, Endpoint(d) PROVE TypeOK'
    BY <1>4 DEF Endpoint, SettleOrWait, Verdict
<1>5. CASE Consume \/ Claim
    BY <1>5 DEF Consume, Claim
<1>6. CASE Get
    <2>1. CASE pending # <<>>
        BY <1>6, <2>1, TakenOff DEF Get
    <2>2. CASE pending = <<>>
        BY <1>6, <2>2 DEF Get
    <2> QED  BY <2>1, <2>2
<1>7. CASE HandlerReturns
    <2>1. cur \in Ids /\ batch[cur] \in Batches
        BY <1>7 DEF HandlerReturns, Held
    <2> QED  BY <1>7, <2>1 DEF HandlerReturns
<1>8. CASE FinishHandled \/ HandlerFails
    <2>1. done' \in [Ids -> BOOLEAN] /\ handled' \in [Ids -> BOOLEAN] /\ cur' = None
        BY <1>8 DEF FinishHandled, HandlerFails
    <2>2. /\ failures' \in 0..MaxFailures /\ cpc' \in {"get", "loop"}
          /\ UNCHANGED <<broker, ipc, batch, settled, pending, listening, stored, times,
                         giveups, crashes, late>>
        BY <1>8 DEF FinishHandled, HandlerFails
    <2> QED  BY <2>1, <2>2
<1>9. CASE Interrupt
    BY <1>9 DEF Interrupt
<1>10. CASE Release
    BY <1>10, TakenOff DEF Release
<1>11. CASE Released \/ StopListener \/ ListenerStopped
    BY <1>11 DEF Released, StopListener, ListenerStopped
<1>12. CASE Crash
    <2>1. pending' \in Seq(Ids)
        BY <1>12, EmptySeq DEF Crash, NewProcess
    <2> QED  BY <1>12, <2>1 DEF Crash, NewProcess
<1>13. CASE UNCHANGED vars
    BY <1>13 DEF vars
<1> QED
    BY <1>1, <1>2, <1>3, <1>4, <1>5, <1>6, <1>7, <1>8, <1>9, <1>10, <1>11, <1>12,
       <1>13 DEF Next, Consumer, StopStep

\* One step per action.
LEMMA HeldKept == HeldInv /\ [Next]_vars => Held'
<1> SUFFICES ASSUME HeldInv, [Next]_vars PROVE Held'
    OBVIOUS
<1>0. TypeOK /\ Held
    BY DEF HeldInv
<1>p. ASSUME NEW b \in Batches, NEW d \in Ids, Arrive(b, d)
      PROVE  \A i \in DOMAIN pending' :
                 pending'[i] = d \/ (i \in DOMAIN pending /\ pending'[i] = pending[i])
    <2>1. pending \in Seq(Ids) /\ pending' = Append(pending, d)
        BY <1>0, <1>p DEF Arrive, TypeOK
    <2> QED  BY <2>1, PutUp
<1> USE <1>0 DEF TypeOK, Held, deliveryVars, history, counters, Finish, Return
<1>q. \A i \in DOMAIN pending : pending[i] \in Ids
    BY ElementOfSeq, LenProperties
<1>1. ASSUME NEW b \in Batches, Discard(b) PROVE Held'
    BY <1>1 DEF Discard
<1>2. ASSUME NEW b \in Batches, NEW d \in Ids, Arrive(b, d) PROVE Held'
    <2>1. \A i \in DOMAIN pending' :
              pending'[i] = d \/ (i \in DOMAIN pending /\ pending'[i] = pending[i])
        BY <1>2, <1>p
    <2>2. /\ ipc[d] = "none" /\ cur # d /\ ipc'[d] = "parked" /\ batch'[d] = b
          /\ broker[b] = "queued" /\ broker' = [broker EXCEPT ![b] = "out"] /\ ~done'[d]
          /\ UNCHANGED <<cpc, cur>>
        BY <1>2 DEF Arrive, Unused
    <2>3. \A e \in Ids : e # d => /\ ipc'[e] = ipc[e] /\ batch'[e] = batch[e]
                                  /\ done'[e] = done[e] /\ settled'[e] = settled[e]
        BY <1>2 DEF Arrive
    <2>4. \A e \in Ids : ipc[e] # "none" => batch[e] # b
        BY <2>2
    <2>5. \A e \in Ids : e # d /\ ipc[e] # "none" => broker'[batch[e]] = "out"
        BY <2>2, <2>4
    <2>6. \A e, f \in Ids :
             ipc'[e] # "none" /\ ipc'[f] # "none" /\ batch'[e] = batch'[f] => e = f
        BY <2>2, <2>3, <2>4
    <2>7. \A i \in DOMAIN pending' : ipc'[pending'[i]] = "none" => settled'[pending'[i]]
        BY <1>q, <2>1, <2>2, <2>3
    <2>8. \A e \in Ids : done'[e] => settled'[e]
        BY <2>2, <2>3
    <2> QED  BY <2>2, <2>3, <2>5, <2>6, <2>7, <2>8
<1>3. ASSUME NEW d \in Ids, WaitTimesOut(d) PROVE Held'
    BY <1>3 DEF WaitTimesOut
<1>4. ASSUME NEW d \in Ids, Endpoint(d) PROVE Held'
    <2>1. CASE ipc[d] = "gaveup" /\ settled[d] /\ SettleOrWait(d)
        <3>1. /\ ipc' = [ipc EXCEPT ![d] = "waiting"] /\ ipc[d] # "none"
              /\ UNCHANGED <<broker, batch, settled, done, pending, cpc, cur>>
            BY <2>1 DEF SettleOrWait
        <3>2. \A e \in Ids : ipc'[e] = "none" <=> ipc[e] = "none"
            BY <3>1
        <3> QED  BY <1>q, <3>1, <3>2
    <2>2. CASE (SettleOrWait(d) /\ ~settled[d]) \/ Verdict(d)
        <3>1. /\ ipc[d] # "none" /\ ipc' = [ipc EXCEPT ![d] = "none"]
              /\ \E v \in {"queued", "acked"} : broker' = [broker EXCEPT ![batch[d]] = v]
              /\ UNCHANGED <<batch, done, pending, cpc, cur>>
            BY <2>2 DEF SettleOrWait, Verdict
        <3>2. settled'[d] /\ \A e \in Ids : settled[e] => settled'[e]
          <4>1. CASE SettleOrWait(d) /\ ~settled[d]
            <5>1. settled' = [settled EXCEPT ![d] = TRUE] /\ settled \in [Ids -> BOOLEAN]
                BY <4>1 DEF SettleOrWait
            <5> QED  BY <5>1
          <4>2. CASE Verdict(d)
            <5>1. settled' = settled /\ done[d] /\ (done[d] => settled[d])
                BY <4>2 DEF Verdict
            <5> QED  BY <5>1
          <4> QED  BY <2>2, <4>1, <4>2
        <3>3. cpc \in {"handle", "finish"} => cur # d
            BY <2>2 DEF SettleOrWait, Verdict
        <3>4. \A e \in Ids : e # d /\ ipc[e] # "none" => batch[e] # batch[d]
            BY <3>1
        <3> QED  BY <1>q, <3>1, <3>2, <3>3, <3>4
    <2> QED  BY <1>4, <2>1, <2>2 DEF Endpoint, SettleOrWait
<1>5. CASE Consume \/ Claim
    <2>1. CASE Consume
        BY <2>1 DEF Consume
    <2>2. CASE Claim /\ settled[cur]
        BY <2>2 DEF Claim
    <2>3. CASE Claim /\ ~settled[cur]
        <3>1. /\ cur \in Ids /\ ipc[cur] # "none" /\ ~done[cur] /\ cpc' = "handle"
              /\ settled' = [settled EXCEPT ![cur] = TRUE]
              /\ UNCHANGED <<broker, ipc, batch, done, pending, cur>>
            BY <2>3 DEF Claim
        <3>2. settled'[cur] /\ \A e \in Ids : settled[e] => settled'[e]
            BY <3>1
        <3> QED  BY <1>q, <3>1, <3>2
    <2> QED  BY <1>5, <2>1, <2>2, <2>3
<1>6. CASE Get
    <2>1. CASE pending # <<>>
        <3>1. /\ cur' \in Ids /\ cur' = pending[1] /\ 1 \in DOMAIN pending
              /\ \A i \in DOMAIN pending' :
                     i + 1 \in DOMAIN pending /\ pending'[i] = pending[i + 1]
            BY <1>6, <2>1, TakenOff DEF Get
        <3> QED  BY <1>6, <2>1, <3>1 DEF Get
    <2>2. CASE pending = <<>>
        BY <1>6, <2>2 DEF Get
    <2> QED  BY <2>1, <2>2
<1>7. CASE HandlerReturns
    BY <1>7 DEF HandlerReturns
<1>8. CASE FinishHandled \/ HandlerFails
    <2>1. /\ cur \in Ids /\ settled[cur] /\ cpc' \in {"get", "loop"}
          /\ done' = [done EXCEPT ![cur] = TRUE]
          /\ UNCHANGED <<broker, ipc, batch, settled, pending>>
        BY <1>8 DEF FinishHandled, HandlerFails
    <2> QED  BY <2>1
<1>9. CASE Interrupt
    BY <1>9 DEF Interrupt
<1>10. CASE Release
    <2> DEFINE d == Head(pending)
    <2>1. /\ d \in Ids /\ cpc' = "release" /\ UNCHANGED <<broker, ipc, batch>>
          /\ \A i \in DOMAIN pending' :
                 i + 1 \in DOMAIN pending /\ pending'[i] = pending[i + 1]
        BY <1>10, TakenOff DEF Release
    <2>2. \A e \in Ids : settled[e] => settled'[e]
        BY <1>10, <2>1 DEF Release
    <2>3. \A e \in Ids : done'[e] => settled'[e]
        <3>1. CASE settled[d]
            BY <1>10, <3>1 DEF Release
        <3>2. CASE ~settled[d]
            <4>1. /\ settled' = [settled EXCEPT ![d] = TRUE]
                  /\ done' = [done EXCEPT ![d] = TRUE]
                BY <1>10, <3>2 DEF Release
            <4> HIDE DEF d
            <4> QED  BY <2>1, <4>1
        <3> QED  BY <3>1, <3>2
    <2> HIDE DEF d
    <2> QED  BY <1>q, <2>1, <2>2, <2>3
<1>11. CASE Released \/ StopListener \/ ListenerStopped
    BY <1>11 DEF Released, StopListener, ListenerStopped
<1>12. CASE Crash
    <2>1. DOMAIN pending' = {}
        BY <1>12 DEF Crash, NewProcess
    <2> QED  BY <1>12, <2>1 DEF Crash, NewProcess
<1>13. CASE UNCHANGED vars
    BY <1>13 DEF vars
<1> QED
    BY <1>1, <1>2, <1>3, <1>4, <1>5, <1>6, <1>7, <1>8, <1>9, <1>10, <1>11, <1>12,
       <1>13 DEF Next, Consumer, StopStep

LEMMA HeldNext == HeldInv /\ [Next]_vars => HeldInv'
    BY TypeKept, HeldKept DEF HeldInv

\* A delivery is settled once: while the handler runs on a batch, the thread
\* that brought it still waits for the verdict, and no other holds the batch.
THEOREM BatchIsHeld == Spec => []HandledWhileHeld
<1>1. HeldInv => HandledWhileHeld
    BY DEF HeldInv, Held, HandledWhileHeld
<1> QED  BY <1>1, HeldAtFirst, HeldNext, PTL DEF Spec

-----------------------------------------------------------------------------
(* What is acknowledged.                                                   *)

\* A verdict of "handled" is given for what the handler has returned for.
Stored ==
    /\ \A d \in Ids : ipc[d] # "none" /\ done[d] /\ handled[d] => batch[d] \in stored
    /\ cpc = "finish" => batch[cur] \in stored
    /\ \A b \in Batches : broker[b] = "acked" => b \in stored \cup Unreadable

LEMMA StoredAtFirst == Init => Stored
    BY DEF Init, Stored

\* A step that gives no verdict and acknowledges nothing.
LEMMA NothingAcked ==
    ASSUME HeldInv, Stored, stored \subseteq stored', UNCHANGED <<batch, done, handled>>,
           \A d \in Ids : ipc'[d] # "none" => ipc[d] # "none",
           \A b \in Batches : broker'[b] = "acked" => broker[b] = "acked",
           cpc' = "finish" => cpc = "finish" /\ cur' = cur
    PROVE  Stored'
    BY DEF HeldInv, Held, Stored

\* One step per action that acknowledges, or leads to it.
LEMMA StoredKept == HeldInv /\ Stored /\ [Next]_vars => Stored'
<1> SUFFICES ASSUME HeldInv, Stored, [Next]_vars PROVE Stored'
    OBVIOUS
<1>0. TypeOK /\ Held
    BY DEF HeldInv
<1> USE <1>0 DEF TypeOK, deliveryVars, history, counters
<1>1. ASSUME NEW b \in Batches, Discard(b) PROVE Stored'
    BY <1>1 DEF Discard, Stored
<1>2. ASSUME NEW b \in Batches, NEW d \in Ids, Arrive(b, d) PROVE Stored'
    <2>1. /\ ~done'[d] /\ cur # d /\ UNCHANGED <<stored, cpc, cur>>
          /\ broker' = [broker EXCEPT ![b] = "out"]
        BY <1>2 DEF Arrive, Unused
    <2>2. \A e \in Ids : e # d => /\ ipc'[e] = ipc[e] /\ batch'[e] = batch[e]
                                  /\ done'[e] = done[e] /\ handled'[e] = handled[e]
        BY <1>2 DEF Arrive
    <2>3. cpc = "finish" => batch'[cur] = batch[cur]
        BY <2>1, <2>2 DEF Held
    <2> QED  BY <2>1, <2>2, <2>3 DEF Stored
<1>3. ASSUME NEW d \in Ids, WaitTimesOut(d) PROVE Stored'
    BY <1>3, NothingAcked DEF WaitTimesOut
<1>4. ASSUME NEW d \in Ids, Endpoint(d) PROVE Stored'
    <2>1. CASE SettleOrWait(d)
        BY <2>1, NothingAcked DEF SettleOrWait, Return
    <2>2. CASE Verdict(d)
        <3>1. batch[d] \in Batches /\ (handled[d] => batch[d] \in stored)
            BY <2>2 DEF Verdict, Held, Stored
        <3>2. broker' = [broker EXCEPT ![batch[d]] = IF handled[d] THEN "acked" ELSE "queued"]
              /\ ipc' = [ipc EXCEPT ![d] = "none"]
              /\ UNCHANGED <<batch, done, handled, cpc, cur, stored>>
            BY <2>2 DEF Verdict, Return
        <3> QED  BY <3>1, <3>2 DEF Stored
    <2> QED  BY <1>4, <2>1, <2>2 DEF Endpoint
<1>5. CASE Consume \/ Get \/ Claim
    BY <1>5, NothingAcked DEF Consume, Get, Claim
<1>6. CASE HandlerReturns
    BY <1>6 DEF HandlerReturns, Stored, Held
<1>7. CASE FinishHandled
    <2>1. /\ cur \in Ids /\ batch[cur] \in stored /\ cpc' = "get"
          /\ done' = [done EXCEPT ![cur] = TRUE]
          /\ handled' = [handled EXCEPT ![cur] = TRUE]
          /\ UNCHANGED <<broker, ipc, batch, stored>>
        BY <1>7 DEF FinishHandled, Finish, Held, Stored
    <2> QED  BY <2>1 DEF Stored
<1>8. CASE HandlerFails
    <2>1. /\ cur \in Ids /\ cpc' = "loop"
          /\ done' = [done EXCEPT ![cur] = TRUE]
          /\ handled' = [handled EXCEPT ![cur] = FALSE]
          /\ UNCHANGED <<broker, ipc, batch, stored>>
        BY <1>8 DEF HandlerFails, Finish, Held
    <2> QED  BY <2>1 DEF Stored
<1>9. CASE Interrupt
    BY <1>9, NothingAcked DEF Interrupt
<1>10. CASE Release
    <2>1. Head(pending) \in Ids
        BY <1>10, TakenOff DEF Release
    <2>2. CASE settled[Head(pending)]
        BY <1>10, <2>2, NothingAcked DEF Release
    <2>3. CASE ~settled[Head(pending)]
        <3>1. /\ cpc' = "release"
              /\ done' = [done EXCEPT ![Head(pending)] = TRUE]
              /\ handled' = [handled EXCEPT ![Head(pending)] = FALSE]
              /\ UNCHANGED <<broker, ipc, batch, stored>>
            BY <1>10, <2>3 DEF Release, Finish
        <3> QED  BY <2>1, <3>1 DEF Stored
    <2> QED  BY <2>2, <2>3
<1>11. CASE Released \/ StopListener \/ ListenerStopped
    BY <1>11, NothingAcked DEF Released, StopListener, ListenerStopped
<1>12. CASE Crash
    BY <1>12, NothingAcked DEF Crash, NewProcess
<1>13. CASE UNCHANGED vars
    BY <1>13, NothingAcked DEF vars
<1> QED
    BY <1>1, <1>2, <1>3, <1>4, <1>5, <1>6, <1>7, <1>8, <1>9, <1>10, <1>11, <1>12,
       <1>13 DEF Next, Consumer, StopStep

\* Whatever times out, fails, is stopped or dies in between, a batch leaves
\* the broker only if it is unreadable or the handler has returned for it.
THEOREM NothingIsDropped == Spec => []AckedIsStored
<1>1. Stored => AckedIsStored
    BY DEF Stored, AckedIsStored
<1> QED  BY <1>1, HeldAtFirst, HeldNext, StoredAtFirst, StoredKept, PTL DEF Spec

-----------------------------------------------------------------------------
(* How often a batch is handled.                                           *)

\* A thread whose batch the handler has returned for: the consumer is past
\* the handler, and the verdict, if there is one, is that it was handled.
Served(d) ==
    /\ ipc[d] # "none" /\ settled[d] /\ (done[d] => handled[d])
    /\ ~(cpc = "handle" /\ cur = d)

\* Once per process: a batch that was handled in the life of this one is
\* acknowledged, or its thread still has to be told.
OncePerLife ==
    \A b \in Batches :
        /\ times[b] <= 1 + crashes
        /\ times[b] = 1 + crashes =>
              broker[b] = "acked" \/ \E d \in Ids : batch[d] = b /\ Served(d)

LEMMA OnceAtFirst == Init => OncePerLife
    BY DEF Init, OncePerLife

\* A step that leaves the threads that have to be told where they are.
LEMMA StillServed ==
    ASSUME OncePerLife, UNCHANGED <<times, crashes>>,
           \A b \in Batches : broker[b] = "acked" => broker'[b] = "acked",
           \A d \in Ids : Served(d) => (Served(d)' /\ batch'[d] = batch[d])
                                       \/ broker'[batch[d]] = "acked"
    PROVE  OncePerLife'
    BY DEF OncePerLife

\* One step per action.
LEMMA OnceKept == HeldInv /\ OncePerLife /\ [Next]_vars => OncePerLife'
<1> SUFFICES ASSUME HeldInv, OncePerLife, [Next]_vars PROVE OncePerLife'
    OBVIOUS
<1>0. TypeOK /\ Held
    BY DEF HeldInv
<1> USE <1>0 DEF TypeOK, deliveryVars, history, counters
<1>1. ASSUME NEW b \in Batches, Discard(b) PROVE OncePerLife'
    <2>1. \A d \in Ids : Served(d)' <=> Served(d)
        BY <1>1 DEF Discard, Served
    <2> QED  BY <1>1, <2>1, StillServed DEF Discard
<1>2. ASSUME NEW b \in Batches, NEW d \in Ids, Arrive(b, d) PROVE OncePerLife'
    <2>1. /\ ipc[d] = "none" /\ broker[b] = "queued" /\ UNCHANGED <<cpc, cur>>
          /\ broker' = [broker EXCEPT ![b] = "out"]
        BY <1>2 DEF Arrive, Unused
    <2>2. \A e \in Ids : e # d => /\ ipc'[e] = ipc[e] /\ batch'[e] = batch[e]
                                  /\ settled'[e] = settled[e]
                                  /\ done'[e] = done[e] /\ handled'[e] = handled[e]
        BY <1>2 DEF Arrive
    <2>3. \A e \in Ids : Served(e) => Served(e)' /\ batch'[e] = batch[e]
        BY <2>1, <2>2 DEF Served
    <2> QED  BY <1>2, <2>1, <2>3, StillServed DEF Arrive
<1>3. ASSUME NEW d \in Ids, WaitTimesOut(d) PROVE OncePerLife'
    <2>1. \A e \in Ids : Served(e) => Served(e)'
        BY <1>3 DEF WaitTimesOut, Served
    <2> QED  BY <1>3, <2>1, StillServed DEF WaitTimesOut
<1>4. ASSUME NEW d \in Ids, Endpoint(d) PROVE OncePerLife'
    <2>0. UNCHANGED <<batch, times, crashes>>
        BY <1>4 DEF Endpoint, SettleOrWait, Verdict
    <2>1. CASE SettleOrWait(d) /\ settled[d]
        <3>1. ipc' = [ipc EXCEPT ![d] = "waiting"]
              /\ UNCHANGED <<broker, settled, done, handled, cpc, cur>>
            BY <2>1 DEF SettleOrWait
        <3>2. \A e \in Ids : Served(e) => Served(e)'
            BY <3>1 DEF Served
        <3> QED  BY <2>0, <3>1, <3>2, StillServed
    <2>2. CASE SettleOrWait(d) /\ ~settled[d]
        <3>1. /\ ipc[d] # "none" /\ ipc' = [ipc EXCEPT ![d] = "none"]
              /\ settled' = [settled EXCEPT ![d] = TRUE]
              /\ broker' = [broker EXCEPT ![batch[d]] = "queued"]
              /\ UNCHANGED <<done, handled, cpc, cur>>
            BY <2>2 DEF SettleOrWait, Return
        <3>2. \A e \in Ids : Served(e) => Served(e)'
            BY <2>2, <3>1 DEF Served
        <3>3. \A b \in Batches : broker[b] = "acked" => broker'[b] = "acked"
            BY <3>1 DEF Held
        <3> QED  BY <2>0, <3>2, <3>3, StillServed
    <2>3. CASE Verdict(d)
        <3>1. /\ ipc[d] # "none" /\ done[d] /\ ipc' = [ipc EXCEPT ![d] = "none"]
              /\ broker' = [broker EXCEPT ![batch[d]] =
                                IF handled[d] THEN "acked" ELSE "queued"]
              /\ UNCHANGED <<settled, done, handled, cpc, cur>>
            BY <2>3 DEF Verdict, Return
        <3>2. batch[d] \in Batches /\ broker[batch[d]] = "out"
            BY <3>1 DEF Held
        <3>3. \A e \in Ids : Served(e) => Served(e)' \/ broker'[batch[e]] = "acked"
            BY <3>1, <3>2 DEF Served
        <3>4. \A b \in Batches : broker[b] = "acked" => broker'[b] = "acked"
            BY <3>1, <3>2
        <3> QED  BY <2>0, <3>3, <3>4, StillServed
    <2> QED  BY <1>4, <2>1, <2>2, <2>3 DEF Endpoint
<1>5. CASE Consume \/ Get
    <2>1. \A e \in Ids : Served(e) => Served(e)'
        BY <1>5 DEF Consume, Get, Served
    <2> QED  BY <1>5, <2>1, StillServed DEF Consume, Get
<1>6. CASE Claim
    <2>1. \A e \in Ids : Served(e) => Served(e)'
        BY <1>6 DEF Claim, Served
    <2> QED  BY <1>6, <2>1, StillServed DEF Claim
<1>7. CASE HandlerReturns
    <2>1. /\ cpc = "handle" /\ cur \in Ids /\ ipc[cur] # "none" /\ settled[cur] /\ ~done[cur]
          /\ batch[cur] \in Batches /\ broker[batch[cur]] = "out"
          /\ times' = [times EXCEPT ![batch[cur]] = @ + 1]
          /\ cpc' = "finish" /\ UNCHANGED <<broker, deliveryVars, cur, crashes>>
        BY <1>7 DEF HandlerReturns, Held
    <2>2. ASSUME NEW d \in Ids, batch[d] = batch[cur] PROVE ~Served(d)
        BY <2>1, <2>2 DEF Held, Served
    <2>3. times[batch[cur]] <= crashes
        <3>1. times[batch[cur]] # 1 + crashes
            BY <2>1, <2>2 DEF OncePerLife
        <3>2. times[batch[cur]] \in Nat /\ crashes \in Nat
            BY <2>1
        <3> QED  BY <2>1, <3>1, <3>2 DEF OncePerLife
    <2>4. Served(cur)' /\ batch'[cur] = batch[cur]
        BY <2>1 DEF Served
    <2>5. \A d \in Ids : Served(d) => Served(d)'
        BY <2>1 DEF Served
    <2>6. ASSUME NEW b \in Batches
          PROVE  /\ times'[b] <= 1 + crashes
                 /\ times'[b] = 1 + crashes =>
                       broker[b] = "acked" \/ \E d \in Ids : batch[d] = b /\ Served(d)'
        <3>1. CASE b = batch[cur]
            BY <2>1, <2>3, <2>4, <3>1
        <3>2. CASE b # batch[cur]
            BY <2>1, <2>5, <3>2 DEF OncePerLife
        <3> QED  BY <3>1, <3>2
    <2> QED  BY <2>1, <2>6 DEF OncePerLife
<1>8. CASE FinishHandled
    <2>1. \A e \in Ids : Served(e) => Served(e)'
        BY <1>8 DEF FinishHandled, Finish, Served
    <2> QED  BY <1>8, <2>1, StillServed DEF FinishHandled
<1>9. CASE HandlerFails
    <2>1. \A e \in Ids : Served(e) => Served(e)'
        BY <1>9 DEF HandlerFails, Finish, Served
    <2> QED  BY <1>9, <2>1, StillServed DEF HandlerFails
<1>10. CASE Interrupt
    <2>1. \A e \in Ids : Served(e) => Served(e)'
        BY <1>10 DEF Interrupt, Served
    <2> QED  BY <1>10, <2>1, StillServed DEF Interrupt
<1>11. CASE Release
    <2>1. \A e \in Ids : Served(e) => Served(e)'
        <3>1. CASE settled[Head(pending)]
            BY <1>11, <3>1 DEF Release, Served
        <3>2. CASE ~settled[Head(pending)]
            BY <1>11, <3>2 DEF Release, Finish, Served
        <3> QED  BY <3>1, <3>2
    <2> QED  BY <1>11, <2>1, StillServed DEF Release
<1>12. CASE Released \/ StopListener \/ ListenerStopped
    <2>1. \A e \in Ids : Served(e) => Served(e)'
        BY <1>12 DEF Released, StopListener, ListenerStopped, Served
    <2> QED  BY <1>12, <2>1, StillServed DEF Released, StopListener, ListenerStopped
<1>13. CASE Crash
    <2>1. crashes' = crashes + 1 /\ times' = times /\ crashes \in Nat
        BY <1>13 DEF Crash
    <2>2. \A b \in Batches : times[b] \in Nat /\ times[b] <= 1 + crashes
        BY DEF OncePerLife
    <2> QED  BY <2>1, <2>2 DEF OncePerLife
<1>14. CASE UNCHANGED vars
    <2>1. \A e \in Ids : Served(e) => Served(e)'
        BY <1>14 DEF vars, Served
    <2> QED  BY <1>14, <2>1, StillServed DEF vars
<1> QED
    BY <1>1, <1>2, <1>3, <1>4, <1>5, <1>6, <1>7, <1>8, <1>9, <1>10, <1>11, <1>12,
       <1>13, <1>14 DEF Next, Consumer, StopStep

\* Redelivery costs a fault: the handler returns for a batch once in the
\* life of a process, though deliveries outwait park, handlers raise and
\* notifications are handed out again.
THEOREM HandledOncePerLife == Spec => []HandledOnce
<1>1. OncePerLife => HandledOnce
    BY DEF OncePerLife, HandledOnce
<1> QED  BY <1>1, HeldAtFirst, HeldNext, OnceAtFirst, OnceKept, PTL DEF Spec

-----------------------------------------------------------------------------
(* Serving: the stream.                                                    *)

\* What the steps of a stream keep: the response is started and not ended
\* as long as one runs, a watcher runs beside it and no longer than it, and
\* only a client that had a stream may be gone.
Wired ==
    /\ watching <=> (Streaming /\ Async)
    /\ noticed => gone
    /\ gone => Streaming \/ at = "over"
    /\ Streaming => wire = "started"
    /\ at = "over" => wire \in {"started", "ended"} /\ (~gone => wire = "ended")
    /\ at \in {"idle", "asked", "answered"} => wire = "nothing"

-----------------------------------------------------------------------------
(* Serving: the links.                                                     *)

EndpointNames == {"health", "flows", "flow", "atoms", "events", "stream"}
OfRuns == {"flow", "atoms", "events", "stream"}

\* An endpoint and a run, or none: what a link may stand for.
StandsFor(name, run) ==
    /\ name \in EndpointNames
    /\ IF name \in OfRuns THEN run \in Runs ELSE run = "none"

\* A link leads where the meter is, to what it stands for.
Leads(url, name, run) ==
    /\ StandsFor(name, run)
    /\ url = (dep.forwarded \o dep.mount) \o PathOf(name, run)
    /\ name \in {"events", "stream"} => supports

Deployed ==
    /\ dep \in [host : Hosts, mount : Mounts, forwarded : Forwarded] /\ Unambiguous(dep)
    /\ supports \in BOOLEAN /\ kept \subseteq Runs

Led ==
    /\ \A link \in answer.links : Leads(link.to, link.of, link.run)
    /\ at = "asked" => Leads(asked.url, asked.of, asked.run)

-----------------------------------------------------------------------------
(* Serving: sequences of pieces.                                           *)

\* What is behind the first part of a sequence, and what is before the last.
LEMMA Behind ==
    ASSUME NEW S, NEW a \in Seq(S), NEW b \in Seq(S)
    PROVE  /\ a \o b \in Seq(S) /\ Len(a \o b) = Len(a) + Len(b)
           /\ SubSeq(a \o b, Len(a) + 1, Len(a \o b)) = b
           /\ SubSeq(a \o b, 1, Len(a \o b) - Len(b)) = a
<1> DEFINE c == a \o b
           m == Len(a)
           n == Len(b)
<1>1. /\ c \in Seq(S) /\ Len(c) = m + n /\ m \in Nat /\ n \in Nat
      /\ \A i \in 1..(m + n) : c[i] = IF i <= m THEN a[i] ELSE b[i - m]
    BY ConcatProperties
<1> HIDE DEF c
<1>2. \A i \in 1..(m + n) : c[i] \in S
    BY <1>1
<1>3. /\ SubSeq(c, m + 1, m + n) \in Seq(S)
      /\ Len(SubSeq(c, m + 1, m + n)) = n
      /\ \A i \in 1..n : SubSeq(c, m + 1, m + n)[i] = b[i]
  <2>1. /\ SubSeq(c, m + 1, m + n) \in Seq(S)
        /\ Len(SubSeq(c, m + 1, m + n)) = IF m + 1 <= m + n THEN (m + n) - (m + 1) + 1 ELSE 0
        /\ \A i \in 1..((m + n) - (m + 1) + 1) : SubSeq(c, m + 1, m + n)[i] = c[m + 1 + i - 1]
      BY <1>1, <1>2, SubSeqProperties
  <2>2. (m + n) - (m + 1) + 1 = n
      BY <1>1
  <2>3. ASSUME NEW i \in 1..n PROVE SubSeq(c, m + 1, m + n)[i] = b[i]
    <3>1. SubSeq(c, m + 1, m + n)[i] = c[m + 1 + i - 1]
        BY <2>1, <2>2
    <3>2. m + 1 + i - 1 \in 1..(m + n) /\ ~(m + 1 + i - 1 <= m) /\ m + 1 + i - 1 - m = i
        BY <1>1
    <3> DEFINE j == m + 1 + i - 1
    <3>3. j \in 1..(m + n) /\ ~(j <= m) /\ j - m = i
        BY <3>2
    <3> HIDE DEF j
    <3>4. c[j] = b[j - m]
        BY <1>1, <3>3
    <3>5. c[j] = b[i]
        BY <3>3, <3>4
    <3> QED  BY <3>1, <3>5 DEF j
  <2> QED  BY <1>1, <2>1, <2>2, <2>3
<1>4. SubSeq(c, m + 1, m + n) = b
    BY <1>3, SeqEqual
<1>5. /\ SubSeq(c, 1, m) \in Seq(S)
      /\ Len(SubSeq(c, 1, m)) = m
      /\ \A i \in 1..m : SubSeq(c, 1, m)[i] = a[i]
  <2>1. /\ SubSeq(c, 1, m) \in Seq(S)
        /\ Len(SubSeq(c, 1, m)) = IF 1 <= m THEN m - 1 + 1 ELSE 0
        /\ \A i \in 1..(m - 1 + 1) : SubSeq(c, 1, m)[i] = c[1 + i - 1]
    <3>1. \A i \in 1..m : c[i] \in S
        BY <1>1, <1>2
    <3> QED  BY <1>1, <3>1, SubSeqProperties
  <2>2. ASSUME NEW i \in 1..m PROVE SubSeq(c, 1, m)[i] = a[i]
    <3>1. 1 + i - 1 = i /\ i \in 1..(m - 1 + 1) /\ i \in 1..(m + n) /\ i <= m
        BY <1>1
    <3> QED  BY <1>1, <2>1, <3>1
  <2> QED  BY <1>1, <2>1, <2>2
<1>6. SubSeq(c, 1, m) = a
    BY <1>5, SeqEqual
<1>7. (m + n) - n = m
    BY <1>1
<1> QED  BY <1>1, <1>4, <1>6, <1>7 DEF c

\* A sequence begins with its first part.
LEMMA BeginsWith ==
    ASSUME NEW S, NEW a \in Seq(S), NEW b \in Seq(S)
    PROVE  IsPrefix(a, a \o b)
<1>1. /\ Len(a \o b) = Len(a) + Len(b) /\ Len(a) \in Nat /\ Len(b) \in Nat
      /\ SubSeq(a \o b, 1, Len(a \o b) - Len(b)) = a
    BY Behind
<1>2. Len(a \o b) - Len(b) = Len(a)
    BY <1>1
<1>3. SubSeq(a, 1, Len(a)) = a
    BY SubSeqFull
<1> QED  BY <1>1, <1>2, <1>3 DEF IsPrefix

LEMMA Reversed ==
    ASSUME NEW S, NEW a \in Seq(S)
    PROVE  /\ Reverse(a) \in Seq(S) /\ Len(Reverse(a)) = Len(a)
           /\ \A i \in 1..Len(a) : Reverse(a)[i] = a[Len(a) - i + 1]
<1>1. Len(a) \in Nat /\ \A i \in 1..Len(a) : Len(a) - i + 1 \in 1..Len(a) /\ a[Len(a) - i + 1] \in S
    OBVIOUS
<1> QED  BY <1>1 DEF Reverse

\* What one sequence begins with, piece by piece.
LEMMA PrefixIs ==
    ASSUME NEW S, NEW a \in Seq(S), NEW b \in Seq(S)
    PROVE  IsPrefix(a, b) <=> Len(a) <= Len(b) /\ \A i \in 1..Len(a) : a[i] = b[i]
<1> DEFINE m == Len(a)
<1>1. m \in Nat /\ Len(b) \in Nat /\ SubSeq(a, 1, m) = a /\ \A i \in 1..Len(b) : b[i] \in S
    BY SubSeqFull, LenProperties, ElementOfSeq
<1>2. CASE m <= Len(b)
  <2>1. \A i \in 1..m : b[i] \in S
      BY <1>1, <1>2
  <2>2. /\ SubSeq(b, 1, m) \in Seq(S)
        /\ Len(SubSeq(b, 1, m)) = IF 1 <= m THEN m - 1 + 1 ELSE 0
        /\ \A i \in 1..(m - 1 + 1) : SubSeq(b, 1, m)[i] = b[1 + i - 1]
      BY <1>1, <2>1, SubSeqProperties
  <2>3. ASSUME NEW i \in 1..m PROVE SubSeq(b, 1, m)[i] = b[i]
    <3>1. 1 + i - 1 = i /\ i \in 1..(m - 1 + 1)
        BY <1>1
    <3> QED  BY <2>2, <3>1
  <2>4. Len(SubSeq(b, 1, m)) = m
      BY <1>1, <2>2
  <2>5. a = SubSeq(b, 1, m) <=> \A i \in 1..m : a[i] = b[i]
    <3>1. ASSUME \A i \in 1..m : a[i] = b[i] PROVE a = SubSeq(b, 1, m)
      <4>1. \A i \in 1..m : a[i] = SubSeq(b, 1, m)[i]
          BY <2>3, <3>1
      <4> QED  BY <2>2, <2>4, <4>1, SeqEqual
    <3> QED  BY <2>3, <3>1
  <2> QED  BY <1>1, <1>2, <2>5 DEF IsPrefix
<1>3. CASE ~(m <= Len(b))
    BY <1>3 DEF IsPrefix
<1> QED  BY <1>2, <1>3

\* What one sequence ends with, piece by piece.
LEMMA SuffixIs ==
    ASSUME NEW S, NEW a \in Seq(S), NEW b \in Seq(S)
    PROVE  IsSuffix(a, b) <=>
              Len(a) <= Len(b) /\ \A i \in 1..Len(a) : a[Len(a) - i + 1] = b[Len(b) - i + 1]
<1>1. /\ Reverse(a) \in Seq(S) /\ Len(Reverse(a)) = Len(a)
      /\ \A i \in 1..Len(a) : Reverse(a)[i] = a[Len(a) - i + 1]
    BY Reversed
<1>2. /\ Reverse(b) \in Seq(S) /\ Len(Reverse(b)) = Len(b)
      /\ \A i \in 1..Len(b) : Reverse(b)[i] = b[Len(b) - i + 1]
    BY Reversed
<1>3. Len(a) \in Nat /\ Len(b) \in Nat
    OBVIOUS
<1>4. IsPrefix(Reverse(a), Reverse(b)) <=>
         Len(a) <= Len(b) /\ \A i \in 1..Len(a) : Reverse(a)[i] = Reverse(b)[i]
    BY <1>1, <1>2, PrefixIs
<1>5. Len(a) <= Len(b) => \A i \in 1..Len(a) : i \in 1..Len(b)
    BY <1>3
<1> HIDE DEF IsPrefix, Reverse
<1> QED  BY <1>1, <1>2, <1>4, <1>5 DEF IsSuffix

\* A sequence ends with its last part.
LEMMA EndsWith ==
    ASSUME NEW S, NEW a \in Seq(S), NEW b \in Seq(S)
    PROVE  IsSuffix(b, a \o b)
<1> DEFINE c == a \o b
           m == Len(a)
           n == Len(b)
<1>1. /\ c \in Seq(S) /\ Len(c) = m + n /\ m \in Nat /\ n \in Nat
      /\ \A i \in 1..(m + n) : c[i] = IF i <= m THEN a[i] ELSE b[i - m]
    BY ConcatProperties
<1> HIDE DEF c
<1>2. ASSUME NEW i \in 1..n PROVE b[n - i + 1] = c[Len(c) - i + 1]
  <2>1. /\ Len(c) - i + 1 \in 1..(m + n) /\ ~(Len(c) - i + 1 <= m)
        /\ Len(c) - i + 1 - m = n - i + 1
      BY <1>1
  <2> QED  BY <1>1, <2>1
<1>3. n <= Len(c)
    BY <1>1
<1> QED  BY <1>1, <1>2, <1>3, SuffixIs DEF c

-----------------------------------------------------------------------------
(* Serving: the paths of the endpoints.                                    *)

\* The pieces a path is made of.  (The provers do not know that a literal
\* is a string.)
Literals == {"/", "a", "pi", "v1", "flows", "healthz", "atoms", "events", "stream"}
Text == STRING \cup Literals

Stem == FLOWS \o <<"/">>

\* The templates, one by one: what a path begins and ends with.
Post(name) ==
    CASE name = "flow"   -> <<>>
      [] name = "atoms"  -> <<"/", "atoms">>
      [] name = "events" -> <<"/", "events">>
      [] name = "stream" -> <<"/", "stream">>

Begun(name) == IF name = "health" THEN <<"/", "healthz">> ELSE FLOWS

LEMMA RouteIs ==
    ASSUME NEW name \in EndpointNames
    PROVE  /\ RouteNamed(name) \in Routes
           /\ RouteNamed(name) = IF name \in OfRuns THEN PerRun(name, Post(name))
                                                    ELSE Plain(name, Begun(name))
<1>1. Routes = {Plain("health", Begun("health")), Plain("flows", Begun("flows")),
                PerRun("flow", Post("flow")), PerRun("atoms", Post("atoms")),
                PerRun("events", Post("events")), PerRun("stream", Post("stream"))}
    BY DEF Routes, Begun, Post
<1>2. \A n, p : Plain(n, p).name = n /\ PerRun(n, p).name = n
    BY DEF Plain, PerRun
<1> DEFINE it == IF name \in OfRuns THEN PerRun(name, Post(name)) ELSE Plain(name, Begun(name))
<1> HIDE DEF Post, Begun, Plain, PerRun, Routes
<1>3. it \in Routes /\ it.name = name
    BY <1>1, <1>2 DEF EndpointNames, OfRuns
<1>4. \A t \in Routes : t.name = name => t = it
    BY <1>1, <1>2 DEF EndpointNames, OfRuns
<1> HIDE DEF it
<1>5. RouteNamed(name) = it
    BY <1>3, <1>4 DEF RouteNamed
<1> QED  BY <1>3, <1>5 DEF it

LEMMA EveryRoute == \A t \in Routes : \E name \in EndpointNames : t = RouteNamed(name)
<1>1. Routes = {Plain("health", Begun("health")), Plain("flows", Begun("flows")),
                PerRun("flow", Post("flow")), PerRun("atoms", Post("atoms")),
                PerRun("events", Post("events")), PerRun("stream", Post("stream"))}
    BY DEF Routes, Begun, Post
<1>2. \A name \in EndpointNames :
         RouteNamed(name) = IF name \in OfRuns THEN PerRun(name, Post(name))
                                               ELSE Plain(name, Begun(name))
    BY RouteIs
<1> HIDE DEF Post, Begun, Plain, PerRun, Routes, RouteNamed
<1> QED  BY <1>1, <1>2 DEF EndpointNames, OfRuns

LEMMA Pieces ==
    /\ FLOWS \in Seq(Text) /\ Len(FLOWS) = 7
    /\ Stem \in Seq(Text) /\ Len(Stem) = 8
    /\ \A name \in EndpointNames \ OfRuns :
          Begun(name) \in Seq(Text) /\ Len(Begun(name)) = IF name = "health" THEN 2 ELSE 7
    /\ \A name \in OfRuns :
          Post(name) \in Seq(Text) /\ Len(Post(name)) = IF name = "flow" THEN 0 ELSE 2
<1>1. FLOWS \in Seq(Text) /\ Len(FLOWS) = 7
    BY DEF FLOWS, Text, Literals
<1>2. <<"/">> \in Seq(Text) /\ Len(<<"/">>) = 1
    BY DEF Text, Literals
<1> HIDE DEF FLOWS
<1>3. Stem \in Seq(Text) /\ Len(Stem) = 8
  <2>1. Stem \in Seq(Text) /\ Len(Stem) = Len(FLOWS) + Len(<<"/">>)
      BY <1>1, <1>2, ConcatProperties DEF Stem
  <2> QED  BY <1>1, <1>2, <2>1
<1>4. \A name \in EndpointNames \ OfRuns :
          Begun(name) \in Seq(Text) /\ Len(Begun(name)) = IF name = "health" THEN 2 ELSE 7
  <2>1. <<"/", "healthz">> \in Seq(Text) /\ Len(<<"/", "healthz">>) = 2
      BY DEF Text, Literals
  <2>2. \A name \in EndpointNames \ OfRuns : name \in {"health", "flows"}
      BY DEF EndpointNames, OfRuns
  <2> QED  BY <1>1, <2>1, <2>2 DEF Begun
<1>5. \A name \in OfRuns :
          Post(name) \in Seq(Text) /\ Len(Post(name)) = IF name = "flow" THEN 0 ELSE 2
  <2>1. \A piece \in Literals : <<"/", piece>> \in Seq(Text) /\ Len(<<"/", piece>>) = 2
      BY DEF Text, Literals
  <2>2. <<>> \in Seq(Text) /\ Len(<<>>) = 0
      OBVIOUS
  <2>3. /\ Post("flow") = <<>> /\ Post("atoms") = <<"/", "atoms">>
        /\ Post("events") = <<"/", "events">> /\ Post("stream") = <<"/", "stream">>
      BY DEF Post
  <2>4. {"atoms", "events", "stream"} \subseteq Literals
      BY DEF Literals
  <2> HIDE DEF Text, Literals, Post
  <2> QED  BY <2>1, <2>2, <2>3, <2>4 DEF OfRuns
<1> QED  BY <1>1, <1>3, <1>4, <1>5

\* The path of an endpoint of a run: the stem, the run, and the rest.
LEMMA RunPath ==
    ASSUME NEW name \in OfRuns, NEW run \in Runs
    PROVE  LET path == PathOf(name, run)
               k == Len(Post(name))
           IN  /\ path = Stem \o <<run>> \o Post(name)
               /\ path \in Seq(Text) /\ Len(path) = 9 + k
               /\ \A i \in 1..8 : path[i] = Stem[i]
               /\ path[9] = run
               /\ \A i \in 1..k : path[9 + i] = Post(name)[i]
<1> DEFINE path == PathOf(name, run)
           post == Post(name)
           k == Len(post)
           head == Stem \o <<run>>
<1>1. path = head \o post
  <2>1. RouteNamed(name) = PerRun(name, post)
      BY RouteIs DEF OfRuns, EndpointNames
  <2> QED  BY <2>1 DEF PathOf, PerRun, Stem
<1>2. /\ Stem \in Seq(Text) /\ Len(Stem) = 8 /\ post \in Seq(Text) /\ k \in Nat
    BY Pieces
<1>3. <<run>> \in Seq(Text) /\ Len(<<run>>) = 1 /\ <<run>>[1] = run
    BY RunsAreSegments DEF Text
<1> HIDE DEF post, path, k
<1>4. /\ head \in Seq(Text) /\ Len(head) = 9 /\ head[9] = run
      /\ \A i \in 1..8 : head[i] = Stem[i]
  <2>1. /\ head \in Seq(Text) /\ Len(head) = Len(Stem) + Len(<<run>>)
        /\ \A i \in 1..(Len(Stem) + Len(<<run>>)) :
              head[i] = IF i <= Len(Stem) THEN Stem[i] ELSE <<run>>[i - Len(Stem)]
      BY <1>2, <1>3, ConcatProperties
  <2> HIDE DEF head
  <2> QED  BY <1>2, <1>3, <2>1
<1> HIDE DEF head
<1>5. /\ path \in Seq(Text) /\ Len(path) = 9 + k
      /\ \A i \in 1..(9 + k) : path[i] = IF i <= 9 THEN head[i] ELSE post[i - 9]
  <2>1. /\ path \in Seq(Text) /\ Len(path) = Len(head) + Len(post)
        /\ \A i \in 1..(Len(head) + Len(post)) :
              path[i] = IF i <= Len(head) THEN head[i] ELSE post[i - Len(head)]
      BY <1>1, <1>2, <1>4, ConcatProperties
  <2> QED  BY <1>2, <1>4, <2>1 DEF k
<1>6. /\ \A i \in 1..8 : path[i] = Stem[i]
      /\ path[9] = run
    BY <1>2, <1>4, <1>5
<1>7. ASSUME NEW i \in 1..k PROVE path[9 + i] = post[i]
  <2>1. 9 + i \in 1..(9 + k) /\ ~(9 + i <= 9) /\ 9 + i - 9 = i
      BY <1>2
  <2> QED  BY <1>5, <2>1
<1> QED  BY <1>1, <1>5, <1>6, <1>7 DEF path, post, k, head

LEMMA PlainPath ==
    ASSUME NEW name \in EndpointNames \ OfRuns, NEW run
    PROVE  PathOf(name, run) = Begun(name)
<1>1. RouteNamed(name) = Plain(name, Begun(name))
    BY RouteIs
<1> QED  BY <1>1 DEF PathOf, Plain

\* What a template matches, by its kind.
LEMMA PlainMatches ==
    ASSUME NEW name \in EndpointNames \ OfRuns, NEW path
    PROVE  Matches(RouteNamed(name), path) <=> path = Begun(name)
<1>1. RouteNamed(name) = Plain(name, Begun(name))
    BY RouteIs
<1> QED  BY <1>1 DEF Matches, Plain

LEMMA RunMatches ==
    ASSUME NEW name \in OfRuns, NEW path
    PROVE  LET k == Len(Post(name))
               middle == SubSeq(path, 9, Len(path) - k)
           IN  /\ Middle(RouteNamed(name), path) = middle
               /\ Matches(RouteNamed(name), path) <=>
                     /\ IsPrefix(Stem, path) /\ IsSuffix(Post(name), path)
                     /\ Len(path) > 8 + k /\ "/" \notin ToSet(middle)
<1> DEFINE t == RouteNamed(name)
<1>1. t.param = TRUE /\ t.pre = Stem /\ t.post = Post(name)
  <2>1. t = PerRun(name, Post(name))
      BY RouteIs DEF OfRuns, EndpointNames
  <2> QED  BY <2>1 DEF PerRun, Stem
<1>2. Len(Stem) = 8
    BY Pieces
<1> HIDE DEF t, Stem
<1>3. Middle(t, path) = SubSeq(path, 9, Len(path) - Len(Post(name)))
    BY <1>1, <1>2 DEF Middle
<1>4. Matches(t, path) <=>
         /\ IsPrefix(Stem, path) /\ IsSuffix(Post(name), path)
         /\ Len(path) > 8 + Len(Post(name)) /\ "/" \notin ToSet(Middle(t, path))
    BY <1>1, <1>2 DEF Matches
<1> QED  BY <1>3, <1>4 DEF t

\* The path of a run's endpoint is matched by its template, and the
\* parameter stands for the run.
LEMMA MatchesItself ==
    ASSUME NEW name \in OfRuns, NEW run \in Runs
    PROVE  /\ Matches(RouteNamed(name), PathOf(name, run))
           /\ Middle(RouteNamed(name), PathOf(name, run))[1] = run
<1> DEFINE path == PathOf(name, run)
           post == Post(name)
           k == Len(post)
           middle == SubSeq(path, 9, Len(path) - k)
<1>1. /\ path \in Seq(Text) /\ Len(path) = 9 + k
      /\ \A i \in 1..8 : path[i] = Stem[i]
      /\ path[9] = run
      /\ \A i \in 1..k : path[9 + i] = post[i]
    BY RunPath
<1>2. /\ Stem \in Seq(Text) /\ Len(Stem) = 8 /\ post \in Seq(Text) /\ k \in Nat
    BY Pieces
<1>3. run \in Text /\ run # "/"
    BY RunsAreSegments DEF Text
<1> HIDE DEF path, post, k
<1>4. IsPrefix(Stem, path)
  <2>1. Len(Stem) <= Len(path) /\ \A i \in 1..Len(Stem) : Stem[i] = path[i]
      BY <1>1, <1>2
  <2> QED  BY <1>1, <1>2, <2>1, PrefixIs
<1>5. IsSuffix(post, path)
  <2>1. ASSUME NEW i \in 1..k PROVE post[k - i + 1] = path[Len(path) - i + 1]
    <3>1. k - i + 1 \in 1..k /\ Len(path) - i + 1 = 9 + (k - i + 1)
        BY <1>1, <1>2
    <3> QED  BY <1>1, <3>1
  <2>2. k <= Len(path) /\ Len(post) = k
      BY <1>1, <1>2 DEF k
  <2> QED  BY <1>1, <1>2, <2>1, <2>2, SuffixIs
<1>6. middle \in Seq(Text) /\ Len(middle) = 1 /\ middle[1] = run
  <2>1. Len(path) - k = 9
      BY <1>1, <1>2
  <2>2. \A i \in 9..9 : path[i] \in Text
      BY <1>1, <1>3
  <2>3. /\ SubSeq(path, 9, 9) \in Seq(Text) /\ Len(SubSeq(path, 9, 9)) = IF 9 <= 9 THEN 9 - 9 + 1 ELSE 0
        /\ \A i \in 1..(9 - 9 + 1) : SubSeq(path, 9, 9)[i] = path[9 + i - 1]
      BY <2>2, SubSeqProperties
  <2>4. SubSeq(path, 9, 9)[1] = path[9]
      BY <2>3
  <2> QED  BY <1>1, <2>1, <2>3, <2>4
<1> HIDE DEF middle
<1>7. "/" \notin ToSet(middle)
  <2>1. DOMAIN middle = 1..1
      BY <1>6
  <2> QED  BY <1>3, <1>6, <2>1 DEF ToSet
<1>8. /\ Middle(RouteNamed(name), path) = middle
      /\ Matches(RouteNamed(name), path) <=>
            IsPrefix(Stem, path) /\ IsSuffix(post, path) /\ Len(path) > 8 + k /\ "/" \notin ToSet(middle)
    BY RunMatches DEF middle, k, post
<1>9. Len(path) > 8 + k
    BY <1>1, <1>2
<1> QED  BY <1>4, <1>5, <1>6, <1>7, <1>8, <1>9 DEF path

\* It is matched by no other template.
LEMMA MatchesNoOther ==
    ASSUME NEW name \in OfRuns, NEW run \in Runs, NEW other \in EndpointNames,
           Matches(RouteNamed(other), PathOf(name, run))
    PROVE  other = name
<1> DEFINE path == PathOf(name, run)
           k == Len(Post(name))
<1>1. /\ path \in Seq(Text) /\ Len(path) = 9 + k
      /\ \A i \in 1..k : path[9 + i] = Post(name)[i]
    BY RunPath
<1>2. /\ Post(name) \in Seq(Text) /\ k = IF name = "flow" THEN 0 ELSE 2
    BY Pieces
<1>3. /\ Post("flow") = <<>> /\ Post("atoms") = <<"/", "atoms">>
      /\ Post("events") = <<"/", "events">> /\ Post("stream") = <<"/", "stream">>
    BY DEF Post
<1> HIDE DEF path
<1>4. CASE other \notin OfRuns
  <2>1. path = Begun(other)
      BY <1>4, PlainMatches DEF path
  <2>2. Len(Begun(other)) = IF other = "health" THEN 2 ELSE 7
      BY <1>4, Pieces
  <2>3. k \in Nat /\ Len(path) \in {2, 7}
      BY <1>2, <2>1, <2>2
  <2> HIDE DEF k
  <2> QED  BY <1>1, <2>3
<1>5. CASE other \in OfRuns
  <2> DEFINE n == Len(Post(other))
             middle == SubSeq(path, 9, Len(path) - n)
  <2>1. /\ IsSuffix(Post(other), path) /\ Len(path) > 8 + n /\ "/" \notin ToSet(middle)
      BY <1>5, RunMatches DEF path
  <2>2. Post(other) \in Seq(Text) /\ n = IF other = "flow" THEN 0 ELSE 2
      BY <1>5, Pieces
  <2>3. CASE other = "flow" /\ name # "flow"
    <3>1. k = 2 /\ n = 0 /\ Len(path) = 11 /\ Len(path) - n = 11
        BY <1>1, <1>2, <2>2, <2>3
    <3>2. \A i \in 9..11 : path[i] \in Text
      <4>1. \A i \in 9..11 : i \in 1..Len(path)
          BY <3>1
      <4> QED  BY <1>1, <4>1, ElementOfSeq
    <3>3. /\ middle \in Seq(Text) /\ Len(middle) = IF 9 <= 11 THEN 11 - 9 + 1 ELSE 0
          /\ \A i \in 1..(11 - 9 + 1) : middle[i] = path[9 + i - 1]
        BY <3>1, <3>2, SubSeqProperties
    <3> HIDE DEF middle
    <3>4. middle[2] = path[9 + 1] /\ 2 \in DOMAIN middle
        BY <3>3
    <3>5. Post(name)[1] = "/"
        BY <1>3, <2>3 DEF OfRuns
    <3>6. path[9 + 1] = Post(name)[1]
        BY <1>1, <3>1
    <3> QED  BY <2>1, <3>4, <3>5, <3>6 DEF ToSet
  <2>4. CASE other # "flow" /\ name = "flow"
      BY <1>1, <1>2, <2>1, <2>2, <2>4
  <2>5. CASE other # "flow" /\ name # "flow"
    <3>1. k = 2 /\ n = 2 /\ Len(path) = 11
        BY <1>1, <1>2, <2>2, <2>5
    <3>2. Post(other)[n - 1 + 1] = path[Len(path) - 1 + 1]
      <4>1. \A i \in 1..n : Post(other)[n - i + 1] = path[Len(path) - i + 1]
        <5>1. path \in Seq(Text) /\ Post(other) \in Seq(Text) /\ IsSuffix(Post(other), path)
            BY <1>1, <2>1, <2>2
        <5> HIDE DEF IsSuffix
        <5> QED  BY <5>1, SuffixIs
      <4> HIDE DEF n
      <4> QED  BY <3>1, <4>1
    <3>3. path[9 + 2] = Post(name)[2]
        BY <1>1, <3>1
    <3>4. Post(other)[2] = Post(name)[2]
        BY <3>1, <3>2, <3>3
    <3>5. \A x \in OfRuns \ {"flow"} : Post(x)[2] = x
        BY <1>3 DEF OfRuns
    <3> HIDE DEF n, k
    <3> QED  BY <1>5, <2>5, <3>4, <3>5
  <2> QED  BY <2>3, <2>4, <2>5
<1> QED  BY <1>4, <1>5

\* The router finds the endpoint a path is made for, and no other.
LEMMA FoundIs ==
    ASSUME NEW name, NEW run, StandsFor(name, run)
    PROVE  /\ Found(PathOf(name, run)) = {RouteNamed(name)}
           /\ name \in OfRuns => Middle(RouteNamed(name), PathOf(name, run))[1] = run
<1> DEFINE path == PathOf(name, run)
<1>0. name \in EndpointNames /\ (name \in OfRuns => run \in Runs)
    BY DEF StandsFor
<1>1. RouteNamed(name) \in Routes
    BY <1>0, RouteIs
<1>2. Matches(RouteNamed(name), path)
  <2>1. CASE name \in OfRuns
      BY <1>0, <2>1, MatchesItself
  <2>2. CASE name \notin OfRuns
      BY <1>0, <2>2, PlainMatches, PlainPath
  <2> QED  BY <2>1, <2>2
<1>3. ASSUME NEW other \in EndpointNames, Matches(RouteNamed(other), path)
      PROVE  other = name
  <2>1. CASE name \in OfRuns
      BY <1>0, <1>3, <2>1, MatchesNoOther
  <2>2. CASE name \notin OfRuns
    <3>1. path = Begun(name) /\ Begun(name) \in Seq(Text)
          /\ Len(path) = IF name = "health" THEN 2 ELSE 7
        BY <1>0, <2>2, PlainPath, Pieces
    <3>2. CASE other \in OfRuns
      <4>1. Len(path) > 8 + Len(Post(other)) /\ Len(Post(other)) \in Nat
        <5>1. Len(path) > 8 + Len(Post(other))
            BY <1>3, <3>2, RunMatches
        <5> QED  BY <3>2, <5>1, Pieces
      <4> QED  BY <3>1, <4>1
    <3>3. CASE other \notin OfRuns
      <4>1. path = Begun(other) /\ Len(Begun(other)) = IF other = "health" THEN 2 ELSE 7
          BY <1>3, <3>3, PlainMatches, Pieces
      <4>2. name \in {"health", "flows"} /\ other \in {"health", "flows"}
          BY <1>0, <2>2, <3>3 DEF EndpointNames, OfRuns
      <4>3. (IF name = "health" THEN 2 ELSE 7) = (IF other = "health" THEN 2 ELSE 7)
          BY <3>1, <4>1
      <4> QED  BY <4>2, <4>3
    <3> QED  BY <3>2, <3>3
  <2> QED  BY <2>1, <2>2
<1>4. \A t \in Routes : Matches(t, path) => t = RouteNamed(name)
    BY <1>3, EveryRoute
<1>5. name \in OfRuns => Middle(RouteNamed(name), path)[1] = run
    BY <1>0, MatchesItself
<1> HIDE DEF path
<1>6. Found(path) = {RouteNamed(name)}
    BY <1>1, <1>2, <1>4 DEF Found
<1> QED  BY <1>5, <1>6 DEF path

-----------------------------------------------------------------------------
(* Serving: where a request lands.                                         *)

\* The path of an endpoint is a path, and no empty one.
LEMMA PathIs ==
    ASSUME NEW name, NEW run, StandsFor(name, run)
    PROVE  LET path == PathOf(name, run)
           IN  path \in Seq(Text) /\ Len(path) \in Nat /\ Len(path) >= 2
<1> DEFINE path == PathOf(name, run)
<1>0. name \in EndpointNames /\ (name \in OfRuns => run \in Runs)
    BY DEF StandsFor
<1>1. CASE name \in OfRuns
  <2>1. path \in Seq(Text) /\ Len(path) = 9 + Len(Post(name))
      BY <1>0, <1>1, RunPath
  <2>2. Len(Post(name)) \in Nat
      BY <1>1, Pieces
  <2> HIDE DEF path
  <2> QED  BY <2>1, <2>2 DEF path
<1>2. CASE name \notin OfRuns
  <2>1. path \in Seq(Text) /\ Len(path) = IF name = "health" THEN 2 ELSE 7
      BY <1>0, <1>2, PlainPath, Pieces
  <2> HIDE DEF path
  <2> QED  BY <2>1 DEF path
<1> QED  BY <1>1, <1>2

\* The mount point is what precedes our own part of a path, and our part is
\* what is left when it is taken off.
LEMMA MountIs ==
    ASSUME NEW mount \in Seq(Text), NEW path \in Seq(Text), Len(path) >= 2
    PROVE  /\ MountPrefix(mount \o path, path) = mount
           /\ SplitPath(mount \o path, mount) = path
<1> DEFINE full == mount \o path
<1>1. /\ full \in Seq(Text) /\ Len(full) = Len(mount) + Len(path)
      /\ SubSeq(full, Len(mount) + 1, Len(full)) = path
      /\ SubSeq(full, 1, Len(full) - Len(path)) = mount
      /\ IsPrefix(mount, full) /\ IsSuffix(path, full)
      /\ Len(mount) \in Nat /\ Len(path) \in Nat
    BY Behind, BeginsWith, EndsWith, LenProperties
<1>2. path \notin {<<>>, <<"/">>}
  <2>1. Len(<<>>) = 0 /\ Len(<<"/">>) = 1
      OBVIOUS
  <2> QED  BY <2>1
<1>3. mount = <<>> => full = path
    BY ConcatEmptySeq
<1> HIDE DEF full, IsPrefix, IsSuffix
<1>4. Len(full) # Len(mount)
  <2>1. Len(full) = Len(mount) + Len(path) /\ Len(mount) \in Nat /\ Len(path) \in Nat /\ Len(path) >= 2
      BY <1>1
  <2> QED  BY ONLY <2>1
<1>5. MountPrefix(full, path) = mount
    BY <1>1, <1>2 DEF MountPrefix
<1>6. SplitPath(full, mount) = path
    BY <1>1, <1>3, <1>4 DEF SplitPath
<1> QED  BY <1>5, <1>6 DEF full

\* Through the proxy and the mount point, on every host: a link arrives as
\* our own path, with the prefix it was built with.
LEMMA LandsIs ==
    ASSUME Deployed, NEW name, NEW run, StandsFor(name, run)
    PROVE  LET path == PathOf(name, run)
               prefix == dep.forwarded \o dep.mount
           IN  Lands(dep, prefix \o path) = [path |-> path, prefix |-> prefix]
<1> DEFINE path == PathOf(name, run)
           fwd == dep.forwarded
           mount == dep.mount
           url == (fwd \o mount) \o path
           inner == SubSeq(url, Len(fwd) + 1, Len(url))
           own == SubSeq(inner, Len(mount) + 1, Len(inner))
<1>1. path \in Seq(Text) /\ Len(path) \in Nat /\ Len(path) >= 2
    BY PathIs
<1>2. fwd \in Seq(Text) /\ mount \in Seq(Text)
  <2>1. fwd \in Seq(STRING) /\ mount \in Seq(STRING)
      BY ServingAssumption DEF Deployed
  <2>2. STRING \subseteq Text
      BY DEF Text
  <2> HIDE DEF fwd, mount, Text
  <2> QED  BY <2>1, <2>2, SeqMonotonic
<1>3. dep.host \in {"whole", "stripped", "wsgi", "pecan"} \cup RouterHosts
    BY ServingAssumption DEF Deployed
<1>4. dep.host \in RouterHosts => fwd = <<>>
    BY DEF Deployed, Unambiguous
<1>5. dep.host = "stripped" => mount = <<>> \/ ~IsPrefix(mount, path)
  <2>1. RouteNamed(name) \in Routes /\ RouteNamed(name).name = name
    <3>1. name \in EndpointNames
        BY DEF StandsFor
    <3> QED  BY <3>1, RouteIs DEF Plain, PerRun
  <2>2. run \in Runs \cup {"none"}
      BY DEF StandsFor
  <2> HIDE DEF IsPrefix, Routes, RouteNamed
  <2> QED  BY <2>1, <2>2 DEF Deployed, Unambiguous
<1> HIDE DEF path, fwd, mount
<1>6. inner = mount \o path
  <2>a. mount \o path \in Seq(Text)
      BY <1>1, <1>2, ConcatProperties
  <2>b. url = fwd \o (mount \o path)
      BY <1>1, <1>2, ConcatAssociative
  <2>1. url = fwd \o (mount \o path) /\ mount \o path \in Seq(Text)
      BY <2>a, <2>b
  <2> QED  BY <1>2, <2>1, Behind
<1> HIDE DEF inner, url
<1>7. own = path
    BY <1>1, <1>2, <1>6, Behind
<1>8. /\ MountPrefix(inner, path) = mount /\ SplitPath(inner, mount) = path
    BY <1>1, <1>2, <1>6, MountIs
<1> HIDE DEF own
<1>9. path # <<>>
    BY <1>1
<1> DEFINE req == [path |-> path, prefix |-> fwd \o mount]
<1> HIDE DEF MountPrefix, SplitPath
<1>10. Lands(dep, url) =
         CASE dep.host = "whole"       -> AsgiRequest(mount, inner, fwd)
           [] dep.host = "stripped"    -> AsgiRequest(mount, path, fwd)
           [] dep.host = "wsgi"        -> WsgiRequest(mount, path, fwd)
           [] dep.host = "pecan"       -> PecanRequest(inner, path, fwd)
           [] dep.host \in RouterHosts -> RouterRequest(inner, path)
    BY <1>7, <1>9 DEF Lands, inner, own, fwd, mount
<1>11. AsgiRequest(mount, inner, fwd) = req
    BY <1>8 DEF AsgiRequest
<1>12. CASE dep.host = "stripped"
  <2>1. SplitPath(path, mount) = path
      BY <1>5, <1>12 DEF SplitPath
  <2> QED  BY <1>10, <1>12, <2>1 DEF AsgiRequest, RouterHosts, path, fwd, mount, url
<1>13. WsgiRequest(mount, path, fwd) = req /\ PecanRequest(inner, path, fwd) = req
    BY <1>8, <1>9 DEF WsgiRequest, PecanRequest
<1>14. CASE dep.host \in RouterHosts
  <2>1. fwd \o mount = mount
      BY <1>2, <1>4, <1>14, ConcatEmptySeq
  <2>2. RouterRequest(inner, path) = req
      BY <1>8, <2>1 DEF RouterRequest
  <2>3. Lands(dep, url) = RouterRequest(inner, path)
      BY <1>10, <1>14 DEF RouterHosts
  <2> QED  BY <2>2, <2>3 DEF path, fwd, mount, url
<1>15. CASE dep.host \in {"whole", "wsgi", "pecan"}
  <2>1. Lands(dep, url) = req
      BY <1>10, <1>11, <1>13, <1>15 DEF RouterHosts
  <2> QED  BY <2>1 DEF path, fwd, mount, url
<1> QED  BY <1>3, <1>12, <1>14, <1>15

-----------------------------------------------------------------------------
(* Serving: the answers.                                                   *)

\* What the dispatcher hands to a handler when a request for a path of ours
\* has landed.
Handed(name, run) ==
    [path |-> PathOf(name, run), prefix |-> dep.forwarded \o dep.mount, badQuery |-> asked.bad]

Statuses == {200, 400, 404}

\* The answer is the one that was asked for, or says why it is not.
Fits(result, name, run) ==
    \/ result.status = 200 /\ result.of = name /\ result.run = run
    \/ result.status = 404 /\ run \notin kept /\ run # "none"
    \/ result.status = 400 /\ asked.bad

LinksOf(result) == \A link \in result.links : Leads(link.to, link.of, link.run)

\* The links a handler builds lead back here.
LEMMA LinkLeads ==
    ASSUME NEW name, NEW run, StandsFor(name, run),
           name \in {"events", "stream"} => supports, NEW n, NEW r
    PROVE  LET link == Link(Handed(n, r), name, run)
           IN  Leads(link.to, link.of, link.run)
<1> HIDE DEF PathOf, StandsFor
<1> QED  BY DEF Link, Handed, Leads

LEMMA FlowLinksLead ==
    ASSUME NEW n, NEW r, NEW run \in Runs
    PROVE  \A link \in FlowLinks(Handed(n, r), run, supports) : Leads(link.to, link.of, link.run)
<1> SUFFICES ASSUME NEW link \in FlowLinks(Handed(n, r), run, supports)
             PROVE  Leads(link.to, link.of, link.run)
    OBVIOUS
<1>1. PICK name \in {"flow", "atoms"} \cup (IF supports THEN {"events", "stream"} ELSE {}) :
          link = Link(Handed(n, r), name, run)
    BY DEF FlowLinks
<1>2. StandsFor(name, run) /\ (name \in {"events", "stream"} => supports)
    BY <1>1 DEF StandsFor, EndpointNames, OfRuns
<1> QED  BY <1>1, <1>2, LinkLeads

\* The shapes of a response.
LEMMA Shapes ==
    /\ \A status : Error(status).status = status /\ Error(status).links = {} /\ ~Error(status).stream
    /\ \A name, run, links :
          LET json == Json(name, run, links)
          IN  json.status = 200 /\ json.of = name /\ json.run = run /\ json.links = links /\ ~json.stream
    /\ \A name, run, links :
          LET begun == [Json(name, run, links) EXCEPT !.stream = TRUE]
          IN  begun.status = 200 /\ begun.of = name /\ begun.run = run /\ begun.links = links /\ begun.stream
BY DEF Error, Json, NoAnswer

\* What the handlers answer.
LEMMA HandleFits ==
    ASSUME Deployed, NEW name, NEW run, StandsFor(name, run),
           name \in {"events", "stream"} => supports
    PROVE  LET result == Handle(name, run, Handed(name, run), kept, supports)
           IN  /\ Fits(result, name, run) /\ LinksOf(result) /\ result.status \in Statuses
               /\ result.stream => name = "stream"
<1> DEFINE req == Handed(name, run)
           result == Handle(name, run, req, kept, supports)
<1>1. name \in EndpointNames /\ (name \in OfRuns => run \in Runs) /\ (name \notin OfRuns => run = "none")
    BY DEF StandsFor
<1>2. kept \subseteq Runs /\ "none" \notin Runs
    BY RunsAreSegments DEF Deployed
<1>3. req.badQuery = asked.bad
    BY DEF Handed
<1> HIDE DEF req
<1> DEFINE Right(it) == /\ Fits(it, name, run) /\ LinksOf(it) /\ it.status \in Statuses
                        /\ it.stream => name = "stream"
<1>a. ASSUME name = "health" PROVE Right(result)
  <2>1. result = Json("health", "none", {})
      BY <1>a DEF Handle, health
  <2> HIDE DEF result
  <2> QED  BY <1>1, <1>a, <2>1, Shapes DEF OfRuns, Fits, LinksOf, Statuses
<1>b. ASSUME name = "flows" PROVE Right(result)
  <2> DEFINE links == {Link(req, "flows", "none")} \cup UNION {FlowLinks(req, r, supports) : r \in kept}
  <2>1. result = IF req.badQuery THEN Error(400) ELSE Json("flows", "none", links)
      BY <1>b DEF Handle, list_flows
  <2>2. \A link \in links : Leads(link.to, link.of, link.run)
    <3>1. LET link == Link(req, "flows", "none") IN Leads(link.to, link.of, link.run)
      <4>1. StandsFor("flows", "none")
          BY DEF StandsFor, EndpointNames, OfRuns
      <4> QED  BY <4>1, LinkLeads DEF req
    <3>2. \A r \in kept : \A link \in FlowLinks(req, r, supports) : Leads(link.to, link.of, link.run)
        BY <1>2, FlowLinksLead DEF req
    <3> HIDE DEF Leads, Link, FlowLinks
    <3> QED  BY <3>1, <3>2
  <2> HIDE DEF result, links
  <2> QED  BY <1>1, <1>3, <1>b, <2>1, <2>2, Shapes DEF OfRuns, Fits, LinksOf, Statuses
<1>c. ASSUME name = "flow" PROVE Right(result)
  <2> DEFINE links == FlowLinks(req, run, supports)
  <2>1. result = IF run \notin kept THEN Error(404) ELSE Json("flow", run, links)
      BY <1>c DEF Handle, get_flow
  <2>2. run \in Runs
      BY <1>1, <1>c DEF OfRuns
  <2>3. \A link \in links : Leads(link.to, link.of, link.run)
      BY <2>2, FlowLinksLead DEF req
  <2> HIDE DEF result, links
  <2> QED  BY <1>2, <1>c, <2>1, <2>2, <2>3, Shapes DEF Fits, LinksOf, Statuses
<1>d. ASSUME name = "atoms" PROVE Right(result)
  <2> DEFINE link1 == [to |-> req.prefix \o req.path, of |-> "atoms", run |-> run]
  <2>1. result = IF run \notin kept THEN Error(404) ELSE Json("atoms", run, {link1})
      BY <1>d DEF Handle, get_atoms
  <2>2. run \in Runs
      BY <1>1, <1>d DEF OfRuns
  <2>3. Leads(link1.to, link1.of, link1.run)
      BY <1>d DEF Leads, req, Handed
  <2> HIDE DEF result, link1
  <2> QED  BY <1>2, <1>d, <2>1, <2>2, <2>3, Shapes DEF Fits, LinksOf, Statuses
<1>e. ASSUME name = "events" PROVE Right(result)
  <2> DEFINE link1 == Link(req, "events", run)
  <2>1. result = IF run \notin kept THEN Error(404)
                 ELSE IF req.badQuery THEN Error(400) ELSE Json("events", run, {link1})
      BY <1>e DEF Handle, get_events
  <2>2. run \in Runs
      BY <1>1, <1>e DEF OfRuns
  <2>3. Leads(link1.to, link1.of, link1.run)
      BY <1>e, LinkLeads DEF req
  <2> HIDE DEF result, link1
  <2> QED  BY <1>2, <1>3, <1>e, <2>1, <2>2, <2>3, Shapes DEF Fits, LinksOf, Statuses
<1>f. ASSUME name = "stream" PROVE Right(result)
  <2>1. result = IF run \notin kept THEN Error(404)
                 ELSE IF req.badQuery THEN Error(400)
                 ELSE [Json("stream", run, {}) EXCEPT !.stream = TRUE]
      BY <1>f DEF Handle, stream
  <2>2. run \in Runs
      BY <1>1, <1>f DEF OfRuns
  <2> HIDE DEF result
  <2> QED  BY <1>2, <1>3, <1>f, <2>1, <2>2, Shapes DEF Fits, LinksOf, Statuses
<1> HIDE DEF result, Right
<1>4. Right(result)
    BY <1>1, <1>a, <1>b, <1>c, <1>d, <1>e, <1>f DEF EndpointNames
<1> QED  BY <1>4 DEF Right, result, req

\* What a client is answered that follows a link.
LEMMA AnswerFits ==
    ASSUME Deployed, NEW url, NEW name, NEW run, Leads(url, name, run), NEW method \in Methods
    PROVE  LET result == Answered(method, url)
           IN  /\ method \in {"GET", "HEAD"} => Fits(result, name, run)
               /\ LinksOf(result)
               /\ result.status \in Statuses \cup {204, 405}
<1> DEFINE path == PathOf(name, run)
           prefix == dep.forwarded \o dep.mount
           req == Handed(name, run)
           t == RouteNamed(name)
           result == Handle(name, run, req, kept, supports)
           final == Invoke(t, method, req, kept, supports)
<1>1. StandsFor(name, run) /\ url = prefix \o path /\ (name \in {"events", "stream"} => supports)
    BY DEF Leads
<1>2. Lands(dep, url) = [path |-> path, prefix |-> prefix]
    BY <1>1, LandsIs
<1>3. /\ Found(path) = {t}
      /\ name \in OfRuns => Middle(t, path)[1] = run
    BY <1>1, FoundIs
<1>4. t.name = name /\ (t.param <=> name \in OfRuns)
  <2>1. name \in EndpointNames
      BY <1>1 DEF StandsFor
  <2> QED  BY <2>1, RouteIs DEF Plain, PerRun
<1>5. Fits(result, name, run) /\ LinksOf(result) /\ result.status \in Statuses
    BY <1>1, HandleFits
<1>6. name \notin OfRuns => run = "none"
    BY <1>1 DEF StandsFor
<1> HIDE DEF path, prefix, t, Lands, Found, Middle
<1>7. req = [path |-> path, prefix |-> prefix, badQuery |-> asked.bad]
    BY DEF Handed, path, prefix
<1>8. final = IF method = "HEAD" /\ result.status = 200 /\ ~result.stream
              THEN [result EXCEPT !.body = FALSE] ELSE result
  <2>1. req.path = path
      BY <1>7
  <2> HIDE DEF req, Handle
  <2> QED  BY <1>3, <1>4, <1>6, <2>1 DEF Invoke
<1>9. /\ result.status = final.status /\ result.of = final.of
      /\ result.run = final.run /\ result.links = final.links
  <2> HIDE DEF result, final
  <2> QED  BY <1>8
<1>10. Fits(final, name, run) /\ LinksOf(final) /\ final.status \in Statuses
  <2> HIDE DEF result, final
  <2> QED  BY <1>5, <1>9 DEF Fits, LinksOf
<1>11. /\ Found(req.path) = {t} /\ (CHOOSE x \in {t} : TRUE) = t
    BY <1>3, <1>7
<1>12. Answered(method, url) = IF dep.host \in RouterHosts THEN RunRoute(method, req, kept, supports)
                               ELSE Dispatch(method, req, kept, supports)
    BY <1>2, <1>7 DEF Answered
<1> HIDE DEF req, Invoke, result
<1>13. RunRoute(method, req, kept, supports) = final
    BY <1>11 DEF RunRoute
<1>14. Dispatch(method, req, kept, supports) =
          IF method = "OPTIONS" THEN [NoAnswer EXCEPT !.status = 204, !.allow = Allow({"GET"})]
          ELSE IF method \notin {"GET", "HEAD"} THEN [Error(405) EXCEPT !.allow = Allow({"GET"})]
          ELSE final
    BY <1>11 DEF Dispatch
<1> HIDE DEF final
<1>15. \A a : LET x == [NoAnswer EXCEPT !.status = 204, !.allow = a]
                  y == [Error(405) EXCEPT !.allow = a]
              IN  x.status = 204 /\ y.status = 405 /\ x.links = {} /\ y.links = {}
    BY DEF NoAnswer, Error
<1> DEFINE it == Answered(method, url)
<1>16. \/ it = final
       \/ method \notin {"GET", "HEAD"} /\ it.links = {} /\ it.status \in {204, 405}
    BY <1>12, <1>13, <1>14, <1>15
<1> HIDE DEF it
<1>17. /\ method \in {"GET", "HEAD"} => Fits(it, name, run)
       /\ LinksOf(it) /\ it.status \in Statuses \cup {204, 405}
    BY <1>10, <1>16 DEF LinksOf
<1> QED  BY <1>17 DEF it

-----------------------------------------------------------------------------
(* Serving: the invariant.                                                 *)

\* A stream rests only when less than a heartbeat has passed in silence.
Rested == at \notin {"send", "close", "over"} => quiet < Beats

ServingInv == ServingTypeOK /\ Wired /\ Rested /\ Deployed /\ Led

LEMMA ServingAtFirst == ServingInit => ServingInv
<1> SUFFICES ASSUME ServingInit PROVE ServingInv
    OBVIOUS
<1>1. /\ dep \in [host : Hosts, mount : Mounts, forwarded : Forwarded] /\ Unambiguous(dep)
      /\ supports \in BOOLEAN /\ kept = {} /\ finished = {}
      /\ asked = Nothing /\ answer = NoAnswer /\ at = "idle"
      /\ todo = 0 /\ complete = FALSE /\ quiet = 0
      /\ gone = FALSE /\ noticed = FALSE /\ watching = FALSE /\ wire = "nothing"
    BY DEF ServingInit
<1>2. /\ asked.method \in Methods /\ asked.run = "none" /\ answer.status = 0 /\ answer.links = {}
    BY <1>1 DEF Nothing, NoAnswer, Methods
<1>3. /\ 0 \in 0..Max({MaxFrames, 1}) /\ 0 \in 0..Beats /\ 0 < Beats
  <2>1. MaxFrames \in Nat /\ Beats \in Nat \ {0}
      BY ServingAssumption
  <2>2. Max({MaxFrames, 1}) \in {MaxFrames, 1}
      BY <2>1, MaxOfTwo
  <2> QED  BY <2>1, <2>2
<1>4. ServingTypeOK
    BY <1>1, <1>2, <1>3 DEF ServingTypeOK
<1>5. Wired
    BY <1>1 DEF Wired, Streaming
<1>6. Rested /\ Deployed /\ Led
    BY <1>1, <1>2, <1>3 DEF Rested, Deployed, Led
<1> QED  BY <1>4, <1>5, <1>6 DEF ServingInv

\* A message, as long as the response is not over.
LEMMA Says ==
    ASSUME wire = "started"
    PROVE  (Put("chunk") => wire' = "started") /\ (Put("final") => wire' = "ended")
BY DEF Put

\* The deployment stays what it is, and so does where a link leads.
LEMMA WebStays ==
    ASSUME [ServingNext]_servingVars
    PROVE  /\ dep' = dep /\ supports' = supports
           /\ \A url, name, run : Leads(url, name, run)' <=> Leads(url, name, run)
<1>1. dep' = dep /\ supports' = supports
  <2>1. CASE UNCHANGED servingVars
      BY <2>1 DEF servingVars, webVars
  <2>2. CASE ServingNext
      BY <2>2 DEF ServingNext, Ask, Answer, Proceed, Observe, Complete, Forget, Open, Check, Poll,
                  SendFrame, Beat, Rest, Cancel, Close, Disconnect, Notice, webVars
  <2> QED  BY <2>1, <2>2
<1> QED  BY <1>1 DEF Leads

LEMMA DeployedKept == ServingInv /\ [ServingNext]_servingVars => Deployed'
<1> SUFFICES ASSUME ServingInv, [ServingNext]_servingVars PROVE Deployed'
    OBVIOUS
<1>1. dep' = dep /\ supports' = supports /\ Deployed
    BY WebStays DEF ServingInv
<1>2. kept' = kept \/ (\E r \in Runs : Observe(r) \/ Forget(r))
    BY DEF ServingNext, servingVars, storeVars, Ask, Answer, Proceed, Complete, Open, Check, Poll,
           SendFrame, Beat, Rest, Cancel, Close, Disconnect, Notice
<1>3. kept' \subseteq Runs
    BY <1>1, <1>2 DEF Deployed, Observe, Forget
<1> QED  BY <1>1, <1>3 DEF Deployed

\* The client knows only links that lead back here.
LEMMA KnownLead ==
    ASSUME Deployed, Led, NEW link \in Known
    PROVE  Leads(link.to, link.of, link.run)
<1>1. CASE link \in answer.links
    BY <1>1 DEF Led
<1>2. CASE link \notin answer.links
  <2>1. PICK name \in {"flows", "health"} :
            link = [to |-> dep.forwarded \o dep.mount \o PathOf(name, "none"), of |-> name, run |-> "none"]
      BY <1>2 DEF Known
  <2>2. StandsFor(name, "none")
      BY <2>1 DEF StandsFor, EndpointNames, OfRuns
  <2> HIDE DEF PathOf, StandsFor
  <2> QED  BY <2>1, <2>2 DEF Leads
<1> QED  BY <1>1, <1>2

\* Every answer carries links that lead back, and fits the question.
LEMMA AnsweredWell ==
    ASSUME ServingInv, Answer
    PROVE  /\ LinksOf(answer') /\ answer'.status \in Statuses \cup {204, 405}
           /\ asked.method \in {"GET", "HEAD"} => Fits(answer', asked.of, asked.run)
<1>1. /\ Leads(asked.url, asked.of, asked.run) /\ asked.method \in Methods /\ Deployed
      /\ answer' = Answered(asked.method, asked.url)
    BY DEF ServingInv, ServingTypeOK, Led, Answer
<1> DEFINE it == Answered(asked.method, asked.url)
<1>2. /\ asked.method \in {"GET", "HEAD"} => Fits(it, asked.of, asked.run)
      /\ LinksOf(it) /\ it.status \in Statuses \cup {204, 405}
    BY <1>1, AnswerFits
<1> HIDE DEF it
<1>3. answer' = it
    BY <1>1 DEF it
<1> QED  BY <1>2, <1>3

LEMMA LedKept == ServingInv /\ [ServingNext]_servingVars => Led'
<1> SUFFICES ASSUME ServingInv, [ServingNext]_servingVars PROVE Led'
    OBVIOUS
<1>0. \A url, name, run : Leads(url, name, run)' <=> Leads(url, name, run)
    BY WebStays
<1>1. Led /\ Deployed
    BY DEF ServingInv
<1> HIDE DEF Leads
<1>2. ASSUME NEW link \in Known, NEW method, NEW bad, Ask(link, method, bad) PROVE Led'
  <2>1. Leads(link.to, link.of, link.run)
      BY <1>1, KnownLead
  <2>2. asked'.url = link.to /\ asked'.of = link.of /\ asked'.run = link.run /\ answer' = answer
      BY <1>2 DEF Ask
  <2> QED  BY <1>0, <1>1, <2>1, <2>2 DEF Led
<1>3. CASE Answer
  <2>1. LinksOf(answer')
      BY <1>3, AnsweredWell
  <2>2. at' # "asked"
      BY <1>3 DEF Answer
  <2> HIDE DEF Answer
  <2> QED  BY <1>0, <2>1, <2>2 DEF Led, LinksOf
<1>4. CASE Proceed
  <2>1. answer'.links = answer.links /\ at' = "idle"
      BY <1>4 DEF Proceed, NoAnswer
  <2> QED  BY <1>0, <1>1, <2>1 DEF Led
<1>5. CASE UNCHANGED <<askVars>> /\ (at' # "asked" \/ at' = at)
    BY <1>0, <1>1, <1>5 DEF Led, askVars
<1>6. \/ \E link \in Known, method \in Verbs, bad \in BOOLEAN : Ask(link, method, bad)
      \/ Answer \/ Proceed
      \/ UNCHANGED <<askVars>> /\ (at' # "asked" \/ at' = at)
    BY DEF ServingNext, servingVars, Observe, Complete, Forget, Open, Sends, Check, Poll,
           SendFrame, Beat, Rest, Cancel, Close, Disconnect, Notice
<1> QED  BY <1>2, <1>3, <1>4, <1>5, <1>6

LEMMA WiredKept == ServingInv /\ [ServingNext]_servingVars => Wired'
<1> SUFFICES ASSUME ServingInv, [ServingNext]_servingVars PROVE Wired'
    OBVIOUS
<1>1. Wired /\ ServingTypeOK
    BY DEF ServingInv
<1>2. Async' <=> Async
    BY WebStays DEF Async
<1>3. /\ at \in {"idle", "asked", "answered", "over"} \/ Streaming
      /\ watching \in BOOLEAN /\ gone \in BOOLEAN /\ noticed \in BOOLEAN
    BY <1>1 DEF ServingTypeOK
<1> USE DEF Wired, Streaming
<1> HIDE DEF Async
<1>4. CASE \E link \in Known, method \in Verbs, bad \in BOOLEAN : Ask(link, method, bad)
    BY <1>1, <1>2, <1>4 DEF Ask, streamVars
<1>5. CASE Answer
    BY <1>1, <1>2, <1>5 DEF Answer
<1>6. CASE Proceed
    BY <1>1, <1>2, <1>6 DEF Proceed
<1>7. CASE UNCHANGED <<at, streamVars, wire>>
    BY <1>1, <1>2, <1>7 DEF streamVars
<1>8. CASE Open
    BY <1>1, <1>2, <1>8, Says DEF Open, Sends, streamVars
<1>9. CASE Check \/ Rest \/ Cancel
    BY <1>1, <1>2, <1>9 DEF Check, Rest, Cancel, streamVars
<1>10. CASE Poll
    BY <1>1, <1>2, <1>10 DEF Poll
<1>11. CASE SendFrame
    BY <1>1, <1>2, <1>11, Says DEF SendFrame, Sends
<1>12. CASE Beat
    BY <1>1, <1>2, <1>12, Says DEF Beat, Sends
<1>13. CASE Close
    BY <1>1, <1>2, <1>13, Says DEF Close
<1>14. CASE Disconnect
    BY <1>1, <1>2, <1>14 DEF Disconnect
<1>15. CASE Notice
    BY <1>1, <1>2, <1>15 DEF Notice
<1>16. ASSUME NEW r \in Runs, Observe(r) \/ Complete(r) \/ Forget(r)
       PROVE  UNCHANGED <<at, streamVars, wire>>
    BY <1>16 DEF Observe, Complete, Forget
<1> QED  BY <1>4, <1>5, <1>6, <1>7, <1>8, <1>9, <1>10, <1>11, <1>12, <1>13, <1>14, <1>15, <1>16
         DEF ServingNext, servingVars

\* What a poll may leave to be sent.
LEMMA Bounds ==
    /\ MaxFrames \in Nat /\ Beats \in Nat \ {0} /\ Max({MaxFrames, 1}) \in Nat
    /\ MaxFrames <= Max({MaxFrames, 1}) /\ 1 <= Max({MaxFrames, 1})
<1>1. MaxFrames \in Nat /\ Beats \in Nat \ {0}
    BY ServingAssumption
<1>2. /\ Max({MaxFrames, 1}) \in {MaxFrames, 1}
      /\ MaxFrames <= Max({MaxFrames, 1}) /\ 1 <= Max({MaxFrames, 1})
    BY <1>1, MaxOfTwo
<1> QED  BY <1>1, <1>2

\* How much is still to be sent, and for how long nothing was said.
Counted == todo \in 0..Max({MaxFrames, 1}) /\ quiet \in 0..Beats /\ complete \in BOOLEAN /\ Rested

LEMMA CountedKept == ServingInv /\ [ServingNext]_servingVars => Counted'
<1> SUFFICES ASSUME ServingInv, [ServingNext]_servingVars PROVE Counted'
    OBVIOUS
<1> DEFINE most == Max({MaxFrames, 1})
<1>1. /\ todo \in 0..most /\ quiet \in 0..Beats /\ complete \in BOOLEAN
      /\ at \notin {"send", "close", "over"} => quiet < Beats
    BY DEF ServingInv, ServingTypeOK, Rested
<1>2. /\ MaxFrames \in Nat /\ Beats \in Nat \ {0} /\ most \in Nat /\ MaxFrames <= most /\ 1 <= most
    BY Bounds
<1> SUFFICES /\ todo' \in 0..most /\ quiet' \in 0..Beats /\ complete' \in BOOLEAN
             /\ at' \notin {"send", "close", "over"} => quiet' < Beats
    BY DEF Counted, Rested
<1> HIDE DEF most
<1>3. CASE \/ \E link \in Known, method \in Verbs, bad \in BOOLEAN : Ask(link, method, bad)
           \/ Answer \/ Check \/ Rest \/ Cancel
    BY <1>1, <1>3 DEF Ask, Answer, Check, Rest, Cancel, streamVars
<1>4. CASE Proceed
  <2>1. todo' = 0 /\ complete' = FALSE /\ quiet' = 0
      BY <1>4 DEF Proceed
  <2>2. 0 \in 0..most /\ 0 \in 0..Beats /\ 0 < Beats
      BY <1>2
  <2>3. todo' \in 0..most /\ quiet' \in 0..Beats /\ quiet' < Beats
      BY <2>1, <2>2
  <2>4. complete' \in BOOLEAN
      BY <2>1
  <2> QED  BY <2>3, <2>4
<1>5. CASE UNCHANGED <<at, todo, complete, quiet>>
    BY <1>1, <1>5
<1>6. CASE Open
    BY <1>1, <1>6 DEF Open, Sends, streamVars
<1>7. CASE Poll
  <2>1. CASE at' = "close" /\ UNCHANGED <<todo, complete, quiet>>
      BY <1>1, <2>1
  <2>2. ASSUME NEW k \in 0..MaxFrames, NEW ends \in BOOLEAN,
               todo' = (IF ends THEN 1 ELSE k), complete' = ends,
               quiet' = (IF todo' > 0 THEN 0 ELSE quiet + 1), at' = "send", at = "poll"
        PROVE  todo' \in 0..most /\ quiet' \in 0..Beats /\ complete' \in BOOLEAN /\ at' = "send"
    <3>1. todo' \in 0..most
        BY <1>2, <2>2
    <3>2. quiet' \in 0..Beats
        BY <1>1, <1>2, <2>2
    <3> QED  BY <2>2, <3>1, <3>2
  <2>3. at = "poll"
      BY <1>7 DEF Poll
  <2>4. CASE \E k \in 0..MaxFrames :
                LET ends == k = 0 /\ asked.run \in finished
                IN  /\ todo' = IF ends THEN 1 ELSE k
                    /\ complete' = ends
                    /\ quiet' = IF todo' > 0 THEN 0 ELSE quiet + 1
                    /\ at' = "send"
    <3>1. PICK k \in 0..MaxFrames :
             /\ todo' = IF (k = 0 /\ asked.run \in finished) THEN 1 ELSE k
             /\ complete' = (k = 0 /\ asked.run \in finished)
             /\ quiet' = IF todo' > 0 THEN 0 ELSE quiet + 1
             /\ at' = "send"
        BY <2>4
    <3> DEFINE ends == k = 0 /\ asked.run \in finished
    <3>2. ends \in BOOLEAN
        OBVIOUS
    <3> HIDE DEF ends
    <3>3. /\ todo' = (IF ends THEN 1 ELSE k) /\ complete' = ends
          /\ quiet' = (IF todo' > 0 THEN 0 ELSE quiet + 1)
        BY <3>1 DEF ends
    <3>4. todo' \in 0..most /\ quiet' \in 0..Beats /\ complete' \in BOOLEAN /\ at' = "send"
        BY <2>2, <2>3, <3>1, <3>2, <3>3
    <3> QED  BY <3>4
  <2> QED  BY <1>7, <2>1, <2>4 DEF Poll
<1>8. CASE SendFrame
    BY <1>1, <1>2, <1>8 DEF SendFrame, Sends
<1>9. CASE Beat
    BY <1>1, <1>2, <1>9 DEF Beat, Sends
<1>10. CASE Close
    BY <1>1, <1>10 DEF Close
<1>11. CASE Disconnect \/ Notice \/ \E r \in Runs : Observe(r) \/ Complete(r) \/ Forget(r)
    BY <1>5, <1>11 DEF Disconnect, Notice, Observe, Complete, Forget, streamVars
<1>12. CASE UNCHANGED servingVars
    BY <1>5, <1>12 DEF servingVars, streamVars
<1> QED  BY <1>3, <1>4, <1>6, <1>7, <1>8, <1>9, <1>10, <1>11, <1>12 DEF ServingNext

LEMMA ServingTypeKept == ServingInv /\ [ServingNext]_servingVars => ServingTypeOK'
<1> SUFFICES ASSUME ServingInv, [ServingNext]_servingVars PROVE ServingTypeOK'
    OBVIOUS
<1>1. ServingTypeOK
    BY DEF ServingInv
<1>2. Counted' /\ Wired' /\ Deployed'
    BY CountedKept, WiredKept, DeployedKept
<1>3. /\ dep'.host \in Hosts /\ dep'.mount \in Mounts /\ dep'.forwarded \in Forwarded
      /\ supports' \in BOOLEAN /\ kept' \subseteq Runs
    BY <1>2 DEF Deployed
<1>4. finished' \subseteq kept'
    BY <1>1 DEF ServingTypeOK, ServingNext, servingVars, storeVars, Observe, Complete, Forget, Ask, Answer,
           Proceed, Open, Check, Poll, SendFrame, Beat, Rest, Cancel, Close, Disconnect, Notice
<1>5. at' \in {"idle", "asked", "answered", "over"} \/ Streaming'
    BY <1>1 DEF ServingTypeOK, Streaming, ServingNext, servingVars, Observe, Complete, Forget, Ask, Answer,
           Proceed, Open, Sends, Check, Poll, SendFrame, Beat, Rest, Cancel, Close, Disconnect, Notice
<1>6. gone' \in BOOLEAN /\ noticed' \in BOOLEAN /\ watching' \in BOOLEAN
  <2>1. gone' \in {gone, TRUE, FALSE} /\ noticed' \in {noticed, TRUE, FALSE}
      BY DEF ServingNext, servingVars, streamVars, Observe, Complete, Forget, Ask,
             Answer, Proceed, Open, Check, Poll, SendFrame, Beat, Rest, Cancel, Close, Disconnect, Notice
  <2>2. watching' = watching \/ watching' = FALSE \/ watching' = Async
      BY DEF ServingNext, servingVars, streamVars, Observe, Complete, Forget, Ask,
             Answer, Proceed, Open, Check, Poll, SendFrame, Beat, Rest, Cancel, Close, Disconnect, Notice
  <2>3. Async \in BOOLEAN
      BY DEF Async
  <2> HIDE DEF Async
  <2>4. gone \in BOOLEAN /\ noticed \in BOOLEAN /\ watching \in BOOLEAN
      BY <1>1 DEF ServingTypeOK
  <2>5. gone' \in BOOLEAN /\ noticed' \in BOOLEAN
      BY <2>1, <2>4
  <2>6. watching' \in BOOLEAN
      BY <2>2, <2>3, <2>4
  <2> QED  BY <2>5, <2>6
<1>7. wire' \in {"nothing", "started", "ended"}
    BY <1>2, <1>5 DEF Wired
<1>8. asked'.method \in Methods /\ asked'.run \in Runs \cup {"none"}
  <2>1. ASSUME NEW link \in Known, NEW method \in Verbs, NEW bad, Ask(link, method, bad)
        PROVE  asked'.method \in Methods /\ asked'.run \in Runs \cup {"none"}
    <3>1. StandsFor(link.of, link.run)
      <4>1. Leads(link.to, link.of, link.run)
          BY KnownLead DEF ServingInv
      <4> QED  BY <4>1 DEF Leads
    <3>2. method \in Methods
        BY DEF Verbs, Methods
    <3>3. asked'.method = method /\ asked'.run = link.run
        BY <2>1 DEF Ask
    <3> QED  BY <3>1, <3>2, <3>3 DEF StandsFor
  <2>2. CASE Proceed
      BY <2>2 DEF Proceed, Nothing, Methods
  <2>3. CASE asked' = asked
      BY <1>1, <2>3 DEF ServingTypeOK
  <2>4. \/ \E link \in Known, method \in Verbs, bad \in BOOLEAN : Ask(link, method, bad)
        \/ Proceed \/ asked' = asked
      BY DEF ServingNext, servingVars, askVars, Observe, Complete, Forget, Answer, Open, Check, Poll,
             SendFrame, Beat, Rest, Cancel, Close, Disconnect, Notice
  <2> QED  BY <2>1, <2>2, <2>3, <2>4
<1>9. answer'.status \in {0, 200, 204, 400, 404, 405, 501}
  <2>1. CASE Answer
    <3>1. answer'.status \in Statuses \cup {204, 405}
        BY <2>1, AnsweredWell
    <3> QED  BY <3>1 DEF Statuses
  <2>2. CASE Proceed
    <3>1. answer'.status = 0
        BY <2>2 DEF Proceed, NoAnswer
    <3> QED  BY <3>1
  <2>3. CASE answer' = answer
      BY <1>1, <2>3 DEF ServingTypeOK
  <2>4. Answer \/ Proceed \/ answer' = answer
      BY DEF ServingNext, servingVars, askVars, Observe, Complete, Forget, Ask, Open, Check, Poll,
             SendFrame, Beat, Rest, Cancel, Close, Disconnect, Notice
  <2> QED  BY <2>1, <2>2, <2>3, <2>4
<1>10. todo' \in 0..Max({MaxFrames, 1}) /\ quiet' \in 0..Beats /\ complete' \in BOOLEAN
    BY <1>2 DEF Counted
<1> QED  BY <1>3, <1>4, <1>5, <1>6, <1>7, <1>8, <1>9, <1>10 DEF ServingTypeOK

LEMMA ServingKept == ServingInv /\ [ServingNext]_servingVars => ServingInv'
BY ServingTypeKept, WiredKept, CountedKept, DeployedKept, LedKept DEF ServingInv, Counted

\* Every variable of Serving has its type, whatever the deployment: where
\* the meter is mounted, what a proxy strips, and which adapter serves it.
THEOREM ServingTypeCorrect == ServingSpec => []ServingTypeOK
<1>1. ServingInv => ServingTypeOK
    BY DEF ServingInv
<1> QED  BY <1>1, ServingAtFirst, ServingKept, PTL DEF ServingSpec

\* No client that is still there is left without the end of its response,
\* and no watcher outlives the stream it was spawned for (ASGIApp._stream,
\* iter_frames), whether the stream ends, fails or is cancelled.
THEOREM ClientsAreReleased == ServingSpec => []ClientIsReleased
<1>1. ServingInv => ClientIsReleased
    BY DEF ServingInv, Wired, ClientIsReleased, Streaming
<1> QED  BY <1>1, ServingAtFirst, ServingKept, PTL DEF ServingSpec

\* A link the meter gave out leads to what it stands for (MeterRequest.url,
\* Router.match), at any mount point and behind any proxy that a deployment
\* may have.
THEOREM LinksLeadBack == ServingSpec => LinksLead
<1> DEFINE Step == at = "asked" /\ at' # "asked" /\ asked.method \in {"GET", "HEAD"} =>
                      \/ answer'.status = 200 /\ answer'.of = asked.of /\ answer'.run = asked.run
                      \/ answer'.status = 404 /\ asked.run \notin kept /\ asked.run # "none"
                      \/ answer'.status = 400 /\ asked.bad
<1>1. ServingInv /\ [ServingNext]_servingVars => [Step]_servingVars
  <2> SUFFICES ASSUME ServingInv, [ServingNext]_servingVars, at = "asked", at' # "asked",
                      asked.method \in {"GET", "HEAD"}
               PROVE  Fits(answer', asked.of, asked.run)
      BY DEF Fits
  <2>1. Answer
      BY DEF ServingNext, servingVars, Ask, Proceed, Observe, Complete, Forget, Open, Check, Poll,
             SendFrame, Beat, Rest, Cancel, Close, Disconnect, Notice, Streaming
  <2> QED  BY <2>1, AnsweredWell
<1> QED  BY <1>1, ServingAtFirst, ServingKept, PTL DEF ServingSpec, LinksLead

=============================================================================
