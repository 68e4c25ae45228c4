------------------------- MODULE EventPipelineProofs -------------------------
(***************************************************************************)
(* For any number of producers, publishers, senders and events, and any    *)
(* queue and batch size: the pipeline's types, that no loss goes uncounted, *)
(* and that no event vanishes or has two fates.  While no delivery outlasts *)
(* stop()'s timeout also: that a started pipeline has a sender and open    *)
(* publishers, that stop() delivers what it found, and that the pipeline   *)
(* implements LossyBroadcast.                                              *)
(*                                                                         *)
(* The invariants build on each other: TypeInv, PlacedInv (the places where *)
(* an event may be), LifeInv (in which phase of its life the pipeline is, and *)
(* who its one sender is), OwedInv (what stop() still owes) and ToldInv (who *)
(* has been told of a batch).                                              *)
(***************************************************************************)
EXTENDS EventPipeline, FiniteSetTheorems, SequenceTheorems, TLAPS

-----------------------------------------------------------------------------
(* The two facts about sequences that the queue operations rest on.        *)

\* Appending adds the one entry.
LEMMA EntriesAppend ==
    ASSUME NEW S, NEW q \in Seq(S), NEW e \in S
    PROVE  Entries(Append(q, e)) = Entries(q) \cup {e}
BY AppendProperties DEF Entries

\* A nonempty queue holds its head and the entries of its tail.
LEMMA EntriesHeadTail ==
    ASSUME NEW S, NEW q \in Seq(S), q # <<>>
    PROVE  /\ Head(q) \in S /\ Tail(q) \in Seq(S) /\ Len(Tail(q)) < Len(q)
           /\ Entries(q) = {Head(q)} \cup Entries(Tail(q))
<1>1. /\ Head(q) \in S /\ Tail(q) \in Seq(S) /\ Len(Tail(q)) = Len(q) - 1
      /\ Head(q) = q[1] /\ \A i \in 1..Len(Tail(q)) : Tail(q)[i] = q[i + 1]
    BY HeadTailProperties
<1>2. Len(q) \in Nat /\ Len(q) >= 1 /\ DOMAIN q = 1..Len(q)
    BY EmptySeq, LenProperties
<1>3. DOMAIN Tail(q) = 1..(Len(q) - 1)
    BY <1>1, LenProperties
<1>4. Entries(q) \subseteq {Head(q)} \cup Entries(Tail(q))
    <2> SUFFICES ASSUME NEW i \in 1..Len(q), i # 1
                 PROVE  q[i] \in Entries(Tail(q))
        BY <1>1, <1>2 DEF Entries
    <2>1. i - 1 \in 1..(Len(q) - 1) /\ (i - 1) + 1 = i
        BY <1>2
    <2> QED  BY <2>1, <1>1, <1>3 DEF Entries
<1>5. {Head(q)} \cup Entries(Tail(q)) \subseteq Entries(q)
    <2>1. Head(q) \in Entries(q)
        BY <1>1, <1>2 DEF Entries
    <2>2. ASSUME NEW i \in 1..(Len(q) - 1)  PROVE  Tail(q)[i] \in Entries(q)
        <3>1. i + 1 \in 1..Len(q) /\ Tail(q)[i] = q[i + 1]
            BY <1>1, <1>2
        <3> QED  BY <3>1, <1>2 DEF Entries
    <2> QED  BY <2>1, <2>2, <1>3 DEF Entries
<1> QED  BY <1>1, <1>2, <1>4, <1>5

-----------------------------------------------------------------------------
\* A producer inside submit() has an event to submit: what makes its next
\* event an Event, and so the types inductive.
InSubmit == \A p \in Producers : ppc[p] # "ready" => next[p] <= MaxSubmits

TypeInv == TypeOK /\ InSubmit

\* The constructor establishes the types, and no submit() is under way.
LEMMA TypeInit == Init => TypeInv
<1> SUFFICES ASSUME Init PROVE TypeInv
    OBVIOUS
<1> USE PipelineAssumption
<1>1. TypeOK
    <2>1. queue \in Seq(Event \cup {STOP}) /\ Len(queue) <= MaxQueue
        BY EmptySeq DEF Init
    <2>2. batch \in [Senders -> Seq(Event)] /\ received \in [Publishers -> Seq(Event)]
          /\ accepted \in Seq(Event)
        BY EmptySeq DEF Init
    <2> QED  BY <2>1, <2>2 DEF Init, TypeOK, Senders, Publishers
<1>2. InSubmit
    BY DEF Init, InSubmit
<1> QED  BY <1>1, <1>2 DEF TypeInv

\* The event a producer has in hand.
LEMMA EvType ==
    ASSUME TypeOK, NEW p \in Producers, next[p] <= MaxSubmits
    PROVE  Ev(p) \in Event
BY DEF TypeOK, Ev, Event

\* Putting the event in hand on a queue that has room.
LEMMA EnqueueType ==
    ASSUME TypeInv, NEW p \in Producers, next[p] <= MaxSubmits, ~Full, Enqueue(p)
    PROVE  /\ queue' \in Seq(Event \cup {STOP}) /\ Len(queue') <= MaxQueue
           /\ accepted' \in Seq(Event)
           /\ Entries(queue') = Entries(queue) \cup {Ev(p)}
           /\ Entries(accepted') = Entries(accepted) \cup {Ev(p)}
<1> USE PipelineAssumption
<1>1. Ev(p) \in Event /\ queue \in Seq(Event \cup {STOP}) /\ accepted \in Seq(Event)
    BY EvType DEF TypeInv, TypeOK
<1>2. Len(queue) < MaxQueue /\ Len(queue) \in Nat
    BY <1>1, LenProperties DEF Full
<1>3. Append(queue, Ev(p)) \in Seq(Event \cup {STOP})
      /\ Len(Append(queue, Ev(p))) = Len(queue) + 1
    BY <1>1, AppendProperties
<1>4. Append(accepted, Ev(p)) \in Seq(Event)
    BY <1>1, AppendProperties
<1>5. queue' = Append(queue, Ev(p)) /\ accepted' = Append(accepted, Ev(p))
    BY DEF Enqueue
<1>6. Entries(queue') = Entries(queue) \cup {Ev(p)}
    BY <1>1, <1>5, EntriesAppend
<1>7. Entries(accepted') = Entries(accepted) \cup {Ev(p)}
    BY <1>1, <1>5, EntriesAppend
<1>8. Len(queue) + 1 <= MaxQueue
    BY <1>2
<1> QED  BY <1>3, <1>4, <1>5, <1>6, <1>7, <1>8

\* Every step of submit() keeps the types.
LEMMA SubmitType ==
    ASSUME TypeInv, NEW p \in Producers, Submit(p)
    PROVE  TypeInv'
<1> USE PipelineAssumption DEF TypeInv
<1>0. \A q \in Producers : next[q] \in 1..(MaxSubmits + 1)
    BY DEF TypeOK
<1>1. CASE PutNowait(p)
    <2>1. CASE ~Full /\ Enqueue(p)
        <3>1. /\ queue' \in Seq(Event \cup {STOP}) /\ Len(queue') <= MaxQueue
              /\ accepted' \in Seq(Event)
            BY <1>1, <2>1, EnqueueType DEF PutNowait
        <3> QED  BY <3>1, <1>1, <2>1
                 DEF PutNowait, Enqueue, TypeOK, InSubmit, sendVars, ctlVars
    <2>2. CASE Full /\ ppc' = [ppc EXCEPT ![p] = "full"] /\ UNCHANGED <<queue, accepted>>
        BY <1>1, <2>2 DEF PutNowait, TypeOK, InSubmit, sendVars, ctlVars
    <2> QED  BY <1>1, <2>1, <2>2 DEF PutNowait
<1>2. CASE DropOldest(p)
    <2>1. /\ queue' \in Seq(Event \cup {STOP}) /\ Len(queue') <= MaxQueue
          /\ lost' \subseteq Event
        <3>1. CASE queue # <<>> /\ queue' = Tail(queue)
                   /\ lost' = lost \cup ({Head(queue)} \ {STOP})
            <4>1. Len(queue) \in Nat /\ Len(Tail(queue)) \in Nat
                BY <3>1, EntriesHeadTail, LenProperties DEF TypeOK
            <4> QED  BY <3>1, <4>1, EntriesHeadTail DEF TypeOK
        <3>2. CASE queue = <<>> /\ UNCHANGED <<queue, lost>>
            BY <3>2 DEF TypeOK
        <3> QED  BY <1>2, <3>1, <3>2 DEF DropOldest
    <2> QED  BY <1>2, <2>1 DEF DropOldest, TypeOK, InSubmit, sendVars, ctlVars
<1>3. CASE PutAgain(p)
    <2>0. next[p] <= MaxSubmits
        BY <1>3 DEF PutAgain, InSubmit
    <2>1. CASE ~Full /\ Enqueue(p) /\ UNCHANGED <<dropped, next, lost>>
        <3>1. /\ queue' \in Seq(Event \cup {STOP}) /\ Len(queue') <= MaxQueue
              /\ accepted' \in Seq(Event)
            BY <2>0, <2>1, EnqueueType
        <3> QED  BY <3>1, <1>3, <2>1
                 DEF PutAgain, Enqueue, TypeOK, InSubmit, sendVars, ctlVars
    <2>2. CASE Refuse(p)
        <3>1. next[p] + 1 \in 1..(MaxSubmits + 1)
            BY <1>0, <2>0
        <3>2. Ev(p) \in Event
            BY <2>0, EvType
        <3> QED  BY <3>1, <3>2, <1>3, <2>2
                 DEF PutAgain, Refuse, TypeOK, InSubmit, sendVars, ctlVars
    <2> QED  BY <1>3, <2>1, <2>2 DEF PutAgain
<1>4. CASE ClearIdle(p)
    <2>1. next[p] + 1 \in 1..(MaxSubmits + 1)
        BY <1>0, <1>4 DEF ClearIdle, InSubmit
    <2> QED  BY <2>1, <1>4 DEF ClearIdle, TypeOK, InSubmit, sendVars, ctlVars
<1> QED  BY <1>1, <1>2, <1>3, <1>4 DEF Submit

\* Taking the head of the queue into a sender's batch.
LEMMA TakeType ==
    ASSUME TypeInv, NEW s \in Senders, queue # <<>>, Take(s)
    PROVE  /\ queue' \in Seq(Event \cup {STOP}) /\ Len(queue') <= MaxQueue
           /\ batch' \in [Senders -> Seq(Event)] /\ pills' \in [Senders -> Nat]
           /\ Entries(queue) \ {STOP} \subseteq Entries(queue') \cup Entries(batch'[s])
           /\ \A t \in Senders : Entries(batch[t]) \subseteq Entries(batch'[t])
<1> USE PipelineAssumption DEF TypeInv
<1>1. /\ queue \in Seq(Event \cup {STOP}) /\ Len(queue) <= MaxQueue
      /\ batch \in [Senders -> Seq(Event)] /\ pills \in [Senders -> Nat]
    BY DEF TypeOK
<1>2. /\ Head(queue) \in Event \cup {STOP} /\ Tail(queue) \in Seq(Event \cup {STOP})
      /\ Len(Tail(queue)) < Len(queue)
      /\ Entries(queue) = {Head(queue)} \cup Entries(Tail(queue))
    BY <1>1, EntriesHeadTail
<1>3. Len(queue) \in Nat /\ Len(Tail(queue)) \in Nat
    BY <1>1, <1>2, LenProperties
<1>4. CASE Head(queue) = STOP
    BY <1>1, <1>2, <1>3, <1>4 DEF Take
<1>5. CASE Head(queue) # STOP
    <2>1. /\ Append(batch[s], Head(queue)) \in Seq(Event)
          /\ Entries(Append(batch[s], Head(queue))) = Entries(batch[s]) \cup {Head(queue)}
        <3>1. batch[s] \in Seq(Event) /\ Head(queue) \in Event
            BY <1>1, <1>2, <1>5
        <3> QED  BY <3>1, AppendProperties, EntriesAppend
    <2>2. batch' = [batch EXCEPT ![s] = Append(batch[s], Head(queue))] /\ pills' = pills
          /\ queue' = Tail(queue)
        BY <1>5 DEF Take
    <2> QED  BY <1>1, <1>2, <1>3, <2>1, <2>2
<1> QED  BY <1>4, <1>5

\* Every step of a sender keeps the types.
LEMMA SendType ==
    ASSUME TypeInv, NEW s \in Senders, Send(s)
    PROVE  TypeInv'
<1> USE PipelineAssumption DEF TypeInv
<1>1. CASE Get(s)
    <2>1. /\ queue' \in Seq(Event \cup {STOP}) /\ Len(queue') <= MaxQueue
          /\ batch' \in [Senders -> Seq(Event)] /\ pills' \in [Senders -> Nat]
        BY <1>1, TakeType DEF Get
    <2> QED  BY <2>1, <1>1 DEF Get, TypeOK, InSubmit, prodVars, ctlVars
<1>2. CASE TakeMore(s)
    <2>1. CASE queue # <<>> /\ Take(s) /\ UNCHANGED <<spc, at>>
        <3>1. /\ queue' \in Seq(Event \cup {STOP}) /\ Len(queue') <= MaxQueue
              /\ batch' \in [Senders -> Seq(Event)] /\ pills' \in [Senders -> Nat]
            BY <2>1, TakeType
        <3> QED  BY <3>1, <1>2, <2>1 DEF TakeMore, TypeOK, InSubmit, prodVars, ctlVars
    <2>2. CASE /\ spc' = [spc EXCEPT ![s] = "deliver"]
               /\ at' = [at EXCEPT ![s] = IF batch[s] = <<>> THEN NPublishers + 1 ELSE 1]
               /\ UNCHANGED <<queue, batch, pills>>
        <3>1. (IF batch[s] = <<>> THEN NPublishers + 1 ELSE 1) \in 1..(NPublishers + 1)
            OBVIOUS
        <3>2. at' \in [Senders -> 1..(NPublishers + 1)]
            BY <3>1, <2>2 DEF TypeOK
        <3> QED  BY <3>2, <1>2, <2>2 DEF TakeMore, TypeOK, InSubmit, prodVars, ctlVars
    <2> QED  BY <1>2, <2>1, <2>2 DEF TakeMore
<1>3. CASE Publish(s)
    <2>1. at[s] \in Publishers /\ at[s] + 1 \in 1..(NPublishers + 1)
        BY <1>3 DEF Publish, TypeOK, Publishers
    <2>2. received' \in [Publishers -> Seq(Event)]
        <3>1. received[at[s]] \o batch[s] \in Seq(Event)
            BY <2>1, ConcatProperties DEF TypeOK
        <3> QED  BY <3>1, <2>1, <1>3 DEF Publish, TypeOK
    <2> QED  BY <2>1, <2>2, <1>3 DEF Publish, TypeOK, InSubmit, prodVars, ctlVars
<1>4. CASE CheckEmpty(s)
    <2>1. Entries(batch[s]) \subseteq Event
        <3>1. \A i \in DOMAIN batch[s] : batch[s][i] \in Event
            BY ElementOfSeq, LenProperties DEF TypeOK
        <3> QED  BY <3>1 DEF Entries
    <2>2. batch' \in [Senders -> Seq(Event)]
        BY <1>4, EmptySeq DEF CheckEmpty, TypeOK
    <2> QED  BY <2>1, <2>2, <1>4 DEF CheckEmpty, TypeOK, InSubmit, prodVars, ctlVars
<1>5. CASE SetIdle(s)
    BY <1>5 DEF SetIdle, TypeOK, InSubmit, prodVars, ctlVars
<1>6. CASE Again(s)
    BY <1>6 DEF Again, TypeOK, InSubmit, prodVars, ctlVars
<1> QED  BY <1>1, <1>2, <1>3, <1>4, <1>5, <1>6 DEF Send

\* Every step of start(), flush() and stop() keeps the types.
LEMMA ControlType ==
    ASSUME TypeInv, Control
    PROVE  TypeInv'
<1> USE PipelineAssumption DEF TypeInv
<1>1. CASE Start
    <2>1. starts + 1 \in 0..MaxStarts
        BY <1>1 DEF Start, TypeOK
    <2> QED  BY <2>1, <1>1 DEF Start, TypeOK, InSubmit, prodVars
<1>2. CASE StartFails
    <2>1. open' \subseteq Publishers
        BY <1>2 DEF StartFails, TypeOK, Publishers
    <2> QED  BY <2>1, <1>2 DEF StartFails, TypeOK, InSubmit, prodVars, sendVars
<1>3. CASE Flush
    BY <1>3 DEF Flush, TypeOK, InSubmit, prodVars, sendVars
<1>4. CASE Stop
    <2>1. owed' \subseteq Event
        <3>1. Entries(queue) \subseteq Event \cup {STOP}
            BY ElementOfSeq, LenProperties DEF TypeOK, Entries
        <3>2. \A s \in Senders : Entries(batch[s]) \subseteq Event
            BY ElementOfSeq, LenProperties DEF TypeOK, Entries
        <3> QED  BY <3>1, <3>2, <1>4 DEF Stop
    <2>2. ctl' \in {"drain", "put", "close"}
        BY <1>4 DEF Stop
    <2>3. thread' = 0 /\ joining' = thread
        BY <1>4 DEF Stop, TakeThread
    <2>4. UNCHANGED <<ppc, next, sendVars, queue, idle, open, dropped, accepted, received, lost,
                      handled, starts>>
        BY <1>4 DEF Stop, prodVars
    <2>5. TypeOK'
        BY <2>1, <2>2, <2>3, <2>4 DEF TypeOK, sendVars
    <2> QED  BY <2>4, <2>5 DEF InSubmit
<1>5. CASE FlushReturnsTrue
    BY <1>5 DEF FlushReturnsTrue, AfterFlush, TypeOK, InSubmit, prodVars, sendVars
<1>6. CASE FlushTimesOut
    BY <1>6 DEF FlushTimesOut, AfterFlush, TypeOK, InSubmit, prodVars, sendVars
<1>7. CASE PutStop
    <2>1. queue' \in Seq(Event \cup {STOP}) /\ Len(queue') <= MaxQueue
        <3>1. queue \in Seq(Event \cup {STOP}) /\ Len(queue) < MaxQueue /\ Len(queue) \in Nat
            BY <1>7, LenProperties DEF PutStop, Full, TypeOK
        <3> QED  BY <3>1, <1>7, AppendProperties DEF PutStop
    <2> QED  BY <2>1, <1>7 DEF PutStop, TakeThread, TypeOK, InSubmit, prodVars, sendVars
<1>8. CASE Joined
    BY <1>8 DEF Joined, TypeOK, InSubmit, prodVars, sendVars
<1>9. CASE JoinTimesOut
    BY <1>9 DEF JoinTimesOut, TypeOK, InSubmit, prodVars, sendVars
<1>10. CASE ClosePublishers
    BY <1>10 DEF ClosePublishers, TypeOK, InSubmit, prodVars, sendVars
<1> QED  BY <1>1, <1>2, <1>3, <1>4, <1>5, <1>6, <1>7, <1>8, <1>9, <1>10
         DEF Control, StopStep

\* Whatever thread takes the next step, the types are kept.
LEMMA TypeNext == TypeInv /\ [Next]_vars => TypeInv'
<1> SUFFICES ASSUME TypeInv, [Next]_vars PROVE TypeInv'
    OBVIOUS
<1>1. CASE UNCHANGED vars
    BY <1>1 DEF vars, prodVars, sendVars, ctlVars, TypeInv, TypeOK, InSubmit
<1>2. CASE Next
    BY <1>2, SubmitType, SendType, ControlType DEF Next
<1> QED  BY <1>1, <1>2

\* In every reachable state the variables have their types; in particular
\* the queue is never longer than max_queue, so a flow that outruns its
\* publishers cannot grow it without limit.
THEOREM TypeCorrect == Spec => []TypeOK
<1>1. Init => TypeInv  BY TypeInit
<1>2. TypeInv /\ [Next]_vars => TypeInv'  BY TypeNext
<1>3. TypeInv => TypeOK  BY DEF TypeInv
<1> QED  BY <1>1, <1>2, <1>3, PTL DEF Spec

-----------------------------------------------------------------------------
(* No loss goes uncounted.  A loss adds one event to lost at most; every   *)
(* step that adds one adds one to the count as well, and the count also    *)
(* grows when the "oldest" was a sentinel or had been taken already.       *)

LossInv == IsFiniteSet(lost) /\ LossIsCounted

\* Adding to a finite set of losses adds one event at most.
LEMMA LoseOne ==
    ASSUME LossInv, dropped \in Nat, NEW e, lost' \subseteq lost \cup {e},
           lost \subseteq lost', dropped' = dropped + 1
    PROVE  LossInv'
<1>1. /\ IsFiniteSet(lost \cup {e}) /\ Cardinality(lost \cup {e}) <= Cardinality(lost) + 1
      /\ Cardinality(lost) \in Nat /\ Cardinality(lost \cup {e}) \in Nat
    <2>1. IsFiniteSet(lost)
        BY DEF LossInv
    <2>2. /\ IsFiniteSet(lost \cup {e})
          /\ Cardinality(lost \cup {e}) =
                IF e \in lost THEN Cardinality(lost) ELSE Cardinality(lost) + 1
        BY <2>1, FS_AddElement
    <2>3. Cardinality(lost) \in Nat
        BY <2>1, FS_CardinalityType
    <2> QED  BY <2>2, <2>3
<1>2. /\ IsFiniteSet(lost') /\ Cardinality(lost') <= Cardinality(lost \cup {e})
      /\ Cardinality(lost') \in Nat
    BY <1>1, FS_Subset, FS_CardinalityType
<1> QED  BY <1>1, <1>2 DEF LossInv, LossIsCounted

\* Every step that loses an event counts it: the two of submit() that do
\* are DropOldest and Refuse.
LEMMA LossNext == TypeInv /\ LossInv /\ [Next]_vars => LossInv'
<1> SUFFICES ASSUME TypeInv, LossInv, [Next]_vars PROVE LossInv'
    OBVIOUS
<1>0. dropped \in Nat
    BY DEF TypeInv, TypeOK
<1>1. ASSUME UNCHANGED <<lost, dropped>> PROVE LossInv'
    BY <1>1 DEF LossInv, LossIsCounted
<1>2. ASSUME NEW p \in Producers, Submit(p) PROVE LossInv'
    <2>1. CASE PutNowait(p)
        BY <2>1, <1>1 DEF PutNowait
    <2>2. CASE DropOldest(p)
        <3>1. lost \subseteq lost' /\ lost' \subseteq lost \cup {Head(queue)}
              /\ dropped' = dropped + 1
            BY <2>2 DEF DropOldest
        <3> QED  BY <3>1, <1>0, LoseOne
    <2>3. CASE PutAgain(p)
        <3>1. CASE UNCHANGED <<dropped, next, lost>>
            BY <3>1, <1>1
        <3>2. CASE Refuse(p)
            BY <3>2, <1>0, LoseOne DEF Refuse
        <3> QED  BY <2>3, <3>1, <3>2 DEF PutAgain
    <2>4. CASE ClearIdle(p)
        BY <2>4, <1>1 DEF ClearIdle
    <2> QED  BY <1>2, <2>1, <2>2, <2>3, <2>4 DEF Submit
<1>3. ASSUME NEW s \in Senders, Send(s) PROVE LossInv'
    BY <1>3, <1>1 DEF Send, Get, TakeMore, Publish, CheckEmpty, SetIdle, Again
<1>4. ASSUME Control PROVE LossInv'
    BY <1>4, <1>1 DEF Control, StopStep, Start, StartFails, Flush, Stop,
       FlushReturnsTrue, FlushTimesOut, PutStop, Joined, JoinTimesOut, ClosePublishers
<1>5. CASE UNCHANGED vars
    BY <1>5, <1>1 DEF vars
<1> QED  BY <1>2, <1>3, <1>4, <1>5 DEF Next

\* However producers race each other and the senders for the last place in
\* the queue, stats.dropped is at least the number of events lost.
THEOREM EveryLossIsCounted == Spec => []LossIsCounted
<1>1. Init => TypeInv /\ LossInv
    <2>1. Init => IsFiniteSet(lost) /\ Cardinality(lost) = 0 /\ dropped = 0
        BY FS_EmptySet DEF Init
    <2> QED  BY <2>1, TypeInit DEF LossInv, LossIsCounted
<1>2. TypeInv /\ LossInv /\ [Next]_vars => (TypeInv /\ LossInv)'
    BY TypeNext, LossNext
<1>3. LossInv => LossIsCounted
    BY DEF LossInv
<1> QED  BY <1>1, <1>2, <1>3, PTL DEF Spec

-----------------------------------------------------------------------------
(* No event vanishes.  Each step moves an event from one place to the next *)
(* and the lemmas on the queue say that nothing else leaves it.            *)

Somewhere == (InFlight \cup handled \cup lost) \ {STOP}

\* No step takes an event out of the queue or a batch without putting it
\* into a batch, a publisher's hands or the losses.
LEMMA NothingLeaves == TypeInv /\ [Next]_vars => Somewhere \subseteq Somewhere'
<1> SUFFICES ASSUME TypeInv, [Next]_vars PROVE Somewhere \subseteq Somewhere'
    OBVIOUS
<1>0. queue \in Seq(Event \cup {STOP}) /\ batch \in [Senders -> Seq(Event)]
    BY DEF TypeInv, TypeOK
<1>1. ASSUME UNCHANGED <<queue, batch, lost, handled>> PROVE Somewhere \subseteq Somewhere'
    BY <1>1 DEF Somewhere, InFlight
<1>2. ASSUME NEW p \in Producers, next[p] <= MaxSubmits, ~Full, Enqueue(p),
             UNCHANGED <<batch, lost, handled>>
      PROVE  Somewhere \subseteq Somewhere'
    BY <1>2, EnqueueType DEF Somewhere, InFlight
<1>3. ASSUME NEW p \in Producers, Submit(p) PROVE Somewhere \subseteq Somewhere'
    <2>1. CASE PutNowait(p)
        BY <2>1, <1>1, <1>2 DEF PutNowait, sendVars
    <2>2. CASE DropOldest(p)
        <3>1. UNCHANGED <<batch, handled>>
            BY <2>2 DEF DropOldest, sendVars
        <3>2. CASE queue # <<>> /\ queue' = Tail(queue)
                   /\ lost' = lost \cup ({Head(queue)} \ {STOP})
            <4>1. Entries(queue) = {Head(queue)} \cup Entries(queue')
                BY <3>2, <1>0, EntriesHeadTail
            <4> QED  BY <3>1, <3>2, <4>1 DEF Somewhere, InFlight
        <3>3. CASE UNCHANGED <<queue, lost>>
            BY <3>1, <3>3, <1>1
        <3> QED  BY <2>2, <3>2, <3>3 DEF DropOldest
    <2>3. CASE PutAgain(p)
        <3>1. next[p] <= MaxSubmits
            BY <2>3 DEF PutAgain, TypeInv, InSubmit
        <3>2. CASE ~Full /\ Enqueue(p) /\ UNCHANGED lost
            BY <2>3, <3>1, <3>2, <1>2 DEF PutAgain, sendVars
        <3>3. CASE Refuse(p)
            BY <2>3, <3>3 DEF PutAgain, Refuse, sendVars, Somewhere, InFlight
        <3> QED  BY <2>3, <3>2, <3>3 DEF PutAgain
    <2>4. CASE ClearIdle(p)
        BY <2>4, <1>1 DEF ClearIdle, sendVars
    <2> QED  BY <1>3, <2>1, <2>2, <2>3, <2>4 DEF Submit
<1>4. ASSUME NEW s \in Senders, Send(s) PROVE Somewhere \subseteq Somewhere'
    <2>1. ASSUME queue # <<>>, Take(s), UNCHANGED <<lost, handled>>
          PROVE  Somewhere \subseteq Somewhere'
        <3>1. Entries(queue) \ {STOP} \subseteq Entries(queue') \cup Entries(batch'[s])
            BY <2>1, TakeType
        <3>2. \A t \in Senders : Entries(batch[t]) \subseteq Entries(batch'[t])
            BY <2>1, TakeType
        <3>3. InFlight \ {STOP} \subseteq InFlight'
            BY <3>1, <3>2 DEF InFlight
        <3> QED  BY <2>1, <3>3 DEF Somewhere
    <2>2. CASE Get(s)
        BY <2>1, <2>2 DEF Get
    <2>3. CASE TakeMore(s)
        BY <2>1, <2>3, <1>1 DEF TakeMore
    <2>4. CASE CheckEmpty(s)
        <3>1. /\ handled' = handled \cup Entries(batch[s])
              /\ batch' = [batch EXCEPT ![s] = <<>>]
              /\ UNCHANGED <<queue, lost>>
            BY <2>4 DEF CheckEmpty
        <3>2. \A t \in Senders : t # s => batch'[t] = batch[t]
            BY <3>1, <1>0
        <3>3. InFlight \subseteq InFlight' \cup handled'
            BY <3>1, <3>2 DEF InFlight
        <3> QED  BY <3>1, <3>3 DEF Somewhere
    <2>5. CASE Publish(s) \/ SetIdle(s) \/ Again(s)
        BY <2>5, <1>1 DEF Publish, SetIdle, Again
    <2> QED  BY <1>4, <2>2, <2>3, <2>4, <2>5 DEF Send
<1>5. ASSUME Control PROVE Somewhere \subseteq Somewhere'
    <2>1. CASE PutStop
        <3>1. Entries(queue') = Entries(queue) \cup {STOP}
            BY <2>1, <1>0, EntriesAppend DEF PutStop
        <3> QED  BY <2>1, <3>1 DEF PutStop, sendVars, Somewhere, InFlight
    <2>2. CASE ~PutStop
        BY <1>5, <2>2, <1>1 DEF Control, StopStep, Start, StartFails, Flush, Stop,
           FlushReturnsTrue, FlushTimesOut, Joined, JoinTimesOut, ClosePublishers, sendVars
    <2> QED  BY <2>1, <2>2
<1>6. CASE UNCHANGED vars
    BY <1>6, <1>1 DEF vars, sendVars
<1> QED  BY <1>3, <1>4, <1>5, <1>6 DEF Next

\* An event enters at the end of the queue, and in no other way.
LEMMA EntersTheQueue ==
    ASSUME TypeInv, [Next]_vars
    PROVE  /\ Entries(accepted) \subseteq Entries(accepted')
           /\ Entries(accepted') \subseteq Entries(accepted) \cup Somewhere'
<1>1. CASE accepted' = accepted
    BY <1>1
<1>2. ASSUME NEW p \in Producers, next[p] <= MaxSubmits, ~Full, Enqueue(p)
      PROVE  /\ Entries(accepted) \subseteq Entries(accepted')
             /\ Entries(accepted') \subseteq Entries(accepted) \cup Somewhere'
  <2>1. /\ Entries(queue') = Entries(queue) \cup {Ev(p)}
        /\ Entries(accepted') = Entries(accepted) \cup {Ev(p)}
      BY <1>2, EnqueueType
  <2>2. Ev(p) # STOP
      BY <1>2, EvType, PipelineAssumption DEF TypeInv
  <2> QED  BY <2>1, <2>2 DEF Somewhere, InFlight
<1>3. ASSUME NEW p \in Producers, Submit(p)
      PROVE  accepted' = accepted \/ (next[p] <= MaxSubmits /\ ~Full /\ Enqueue(p))
    BY <1>3 DEF Submit, PutNowait, DropOldest, PutAgain, Refuse, ClearIdle, TypeInv, InSubmit
<1>4. ASSUME NEW s \in Senders, Send(s) PROVE accepted' = accepted
    BY <1>4 DEF Send, Get, TakeMore, Publish, CheckEmpty, SetIdle, Again
<1>5. Control => accepted' = accepted
    BY DEF Control, StopStep, Start, StartFails, Flush, Stop, FlushReturnsTrue, FlushTimesOut,
       PutStop, Joined, JoinTimesOut, ClosePublishers
<1>6. UNCHANGED vars => accepted' = accepted
    BY DEF vars
<1> QED  BY <1>1, <1>2, <1>3, <1>4, <1>5, <1>6 DEF Next

LEMMA VanishNext == TypeInv /\ NothingVanishes /\ [Next]_vars => NothingVanishes'
<1> SUFFICES ASSUME TypeInv, NothingVanishes, [Next]_vars PROVE NothingVanishes'
    OBVIOUS
<1>1. STOP \notin Entries(accepted)
    BY PipelineAssumption, ElementOfSeq, LenProperties DEF Entries, TypeInv, TypeOK
<1>2. Entries(accepted) \subseteq Somewhere
    BY <1>1 DEF NothingVanishes, Somewhere
<1> QED  BY <1>2, NothingLeaves, EntersTheQueue DEF NothingVanishes, Somewhere

\* An event that entered the queue is still in it, in the hands of a
\* sender, handled or lost, also while several senders share the queue.
THEOREM NoEventVanishes == Spec => []NothingVanishes
<1>1. Init => TypeInv /\ NothingVanishes
    <2>1. Init => Entries(accepted) = {}
        BY DEF Init, Entries
    <2> QED  BY <2>1, TypeInit DEF NothingVanishes
<1>2. TypeInv /\ NothingVanishes /\ [Next]_vars => (TypeInv /\ NothingVanishes)'
    BY TypeNext, VanishNext
<1> QED  BY <1>1, <1>2, PTL DEF Spec

-----------------------------------------------------------------------------
(* The line the events stand in.  Every place in the pipeline holds them   *)
(* in the order in which they entered: what one thread takes from the head *)
(* of the queue comes before all that is left in it.                       *)

\* e entered before f, a being the events in the order they entered.
Before(a, e, f) == \E i, j \in DOMAIN a : i < j /\ a[i] = e /\ a[j] = f
AllBefore(a, S, T) == \A e \in S, f \in T : Before(a, e, f)
Distinct(a) == \A i, j \in DOMAIN a : a[i] = a[j] => i = j

Events(q) == Entries(q) \ {STOP}
InLine(a, q) ==
    \A i, j \in DOMAIN q : i < j /\ q[i] # STOP /\ q[j] # STOP => Before(a, q[i], q[j])

\* Only what a producer has already submitted has entered or been lost.
Fresh ==
    \A e \in Entries(accepted) \cup lost :
        e.n < next[e.src] \/ (e.n = next[e.src] /\ ppc[e.src] = "clear")

\* The places an event can be in, and that it is in one of them only.
Placed ==
    /\ Fresh /\ Distinct(accepted)
    /\ Events(queue) \cup handled \subseteq Entries(accepted) /\ InLine(accepted, queue)
    /\ \A s \in Senders : /\ Entries(batch[s]) \subseteq Entries(accepted)
                          /\ InLine(accepted, batch[s])
                          /\ AllBefore(accepted, Entries(batch[s]), Events(queue))
    /\ \A s, t \in Senders : s # t => Entries(batch[s]) \cap Entries(batch[t]) = {}
    /\ FatesAreExclusive

PlacedInv == TypeInv /\ Placed

\* Appending to the events that entered keeps who came before whom, and puts
\* the new one behind all others.
LEMMA LineGrows ==
    ASSUME NEW S, NEW a \in Seq(S), NEW x \in S, NEW b, b = Append(a, x)
    PROVE  /\ \A e, f : Before(a, e, f) => Before(b, e, f)
           /\ \A e \in Entries(a) : Before(b, e, x)
           /\ Distinct(a) /\ x \notin Entries(a) => Distinct(b)
           /\ \A q : InLine(a, q) => InLine(b, q)
           /\ \A T, U : AllBefore(a, T, U) => AllBefore(b, T, U)
           /\ Entries(b) = Entries(a) \cup {x}
<1>1. /\ Len(a) \in Nat /\ DOMAIN a = 1..Len(a) /\ DOMAIN b = 1..(Len(a) + 1)
      /\ (\A i \in 1..Len(a) : b[i] = a[i]) /\ b[Len(a) + 1] = x
    BY AppendProperties, LenProperties
<1>2. \A e, f : Before(a, e, f) => Before(b, e, f)
    BY <1>1 DEF Before
<1>3. \A e \in Entries(a) : Before(b, e, x)
  <2> SUFFICES ASSUME NEW i \in 1..Len(a) PROVE Before(b, a[i], x)
      BY <1>1 DEF Entries
  <2>1. i \in DOMAIN b /\ Len(a) + 1 \in DOMAIN b /\ i < Len(a) + 1 /\ b[i] = a[i]
      BY <1>1
  <2> QED  BY <1>1, <2>1 DEF Before
<1>4. Distinct(a) /\ x \notin Entries(a) => Distinct(b)
    BY <1>1 DEF Distinct, Entries
<1>5. Entries(b) = Entries(a) \cup {x}
    BY EntriesAppend
<1>6. \A q : InLine(a, q) => InLine(b, q)
    BY <1>2 DEF InLine
<1>7. \A T, U : AllBefore(a, T, U) => AllBefore(b, T, U)
    BY <1>2 DEF AllBefore
<1> QED  BY <1>2, <1>3, <1>4, <1>5, <1>6, <1>7

\* What came before an event is another one.
LEMMA BeforeAnother ==
    ASSUME NEW S, NEW a \in Seq(S), Distinct(a), NEW e, NEW f, Before(a, e, f)
    PROVE  e # f
<1>1. DOMAIN a = 1..Len(a) /\ Len(a) \in Nat
    BY LenProperties
<1> QED  BY <1>1 DEF Before, Distinct

\* A line from which the first is taken, that another joins at the end, or
\* to which another line is added.
LEMMA LineTail ==
    ASSUME NEW S, NEW q \in Seq(S), q # <<>>, NEW a, InLine(a, q)
    PROVE  /\ InLine(a, Tail(q)) /\ Entries(Tail(q)) \subseteq Entries(q)
           /\ Head(q) # STOP => AllBefore(a, {Head(q)}, Events(Tail(q)))
<1>1. /\ Head(q) = q[1] /\ Len(q) \in Nat /\ 1 \in DOMAIN q /\ DOMAIN q = 1..Len(q)
      /\ DOMAIN Tail(q) = 1..(Len(q) - 1)
      /\ \A i \in 1..(Len(q) - 1) : Tail(q)[i] = q[i + 1] /\ i + 1 \in DOMAIN q
  <2>1. /\ Tail(q) \in Seq(S) /\ Len(Tail(q)) = Len(q) - 1 /\ Head(q) = q[1]
        /\ \A i \in 1..Len(Tail(q)) : Tail(q)[i] = q[i + 1]
      BY HeadTailProperties
  <2>2. Len(q) \in Nat /\ Len(q) >= 1 /\ DOMAIN q = 1..Len(q)
      BY EmptySeq, LenProperties
  <2> QED  BY <2>1, <2>2, LenProperties
<1>2. InLine(a, Tail(q))
  <2> SUFFICES ASSUME NEW i \in 1..(Len(q) - 1), NEW j \in 1..(Len(q) - 1), i < j,
                      Tail(q)[i] # STOP, Tail(q)[j] # STOP
               PROVE  Before(a, Tail(q)[i], Tail(q)[j])
      BY <1>1 DEF InLine
  <2>1. i + 1 < j + 1 /\ i + 1 \in DOMAIN q /\ j + 1 \in DOMAIN q
        /\ Tail(q)[i] = q[i + 1] /\ Tail(q)[j] = q[j + 1]
      BY <1>1
  <2> QED  BY <2>1 DEF InLine
<1>3. ASSUME Head(q) # STOP PROVE AllBefore(a, {Head(q)}, Events(Tail(q)))
  <2> SUFFICES ASSUME NEW i \in 1..(Len(q) - 1), Tail(q)[i] # STOP
               PROVE  Before(a, Head(q), Tail(q)[i])
      BY <1>1 DEF AllBefore, Events, Entries
  <2>1. 1 < i + 1 /\ i + 1 \in DOMAIN q /\ 1 \in DOMAIN q /\ Tail(q)[i] = q[i + 1] /\ Head(q) = q[1]
      BY <1>1
  <2> QED  BY <1>3, <2>1 DEF InLine
<1>4. Entries(Tail(q)) \subseteq Entries(q)
    BY EntriesHeadTail
<1> QED  BY <1>2, <1>3, <1>4

LEMMA LineAppend ==
    ASSUME NEW S, NEW q \in Seq(S), NEW x \in S, NEW a, InLine(a, q),
           x = STOP \/ AllBefore(a, Events(q), {x})
    PROVE  InLine(a, Append(q, x))
<1> DEFINE r == Append(q, x)
<1>1. /\ Len(q) \in Nat /\ DOMAIN q = 1..Len(q) /\ DOMAIN r = 1..(Len(q) + 1)
      /\ (\A i \in 1..Len(q) : r[i] = q[i]) /\ r[Len(q) + 1] = x
    BY AppendProperties, LenProperties
<1> HIDE DEF r
<1> SUFFICES ASSUME NEW i \in 1..(Len(q) + 1), NEW j \in 1..(Len(q) + 1), i < j,
                    r[i] # STOP, r[j] # STOP
             PROVE  Before(a, r[i], r[j])
    BY <1>1 DEF InLine, r
<1>2. i \in DOMAIN q /\ r[i] = q[i]
    BY <1>1
<1>3. CASE j \in DOMAIN q
    BY <1>1, <1>2, <1>3 DEF InLine
<1>4. CASE j = Len(q) + 1
  <2>1. r[i] \in Events(q) /\ r[j] = x /\ x # STOP
      BY <1>1, <1>2, <1>4 DEF Events, Entries
  <2> QED  BY <2>1 DEF AllBefore
<1> QED  BY <1>1, <1>3, <1>4

LEMMA LineConcat ==
    ASSUME NEW S, NEW q \in Seq(S), NEW r \in Seq(S), NEW a, InLine(a, q), InLine(a, r),
           AllBefore(a, Entries(q), Entries(r))
    PROVE  InLine(a, q \o r) /\ Entries(q \o r) = Entries(q) \cup Entries(r)
<1> DEFINE t == q \o r
<1>1. /\ Len(q) \in Nat /\ Len(r) \in Nat /\ DOMAIN q = 1..Len(q) /\ DOMAIN r = 1..Len(r)
      /\ DOMAIN t = 1..(Len(q) + Len(r))
      /\ \A i \in 1..(Len(q) + Len(r)) : t[i] = IF i <= Len(q) THEN q[i] ELSE r[i - Len(q)]
    BY ConcatProperties, LenProperties
<1> HIDE DEF t
<1>2. \A i \in DOMAIN t : \/ i \in DOMAIN q /\ t[i] = q[i]
                          \/ i > Len(q) /\ i - Len(q) \in DOMAIN r /\ t[i] = r[i - Len(q)]
    BY <1>1
<1>3. InLine(a, t)
  <2> SUFFICES ASSUME NEW i \in DOMAIN t, NEW j \in DOMAIN t, i < j, t[i] # STOP, t[j] # STOP
               PROVE  Before(a, t[i], t[j])
      BY DEF InLine
  <2>1. CASE j \in DOMAIN q
    <3>1. i \in DOMAIN q /\ t[i] = q[i] /\ t[j] = q[j]
        BY <1>1, <2>1
    <3> QED  BY <2>1, <3>1 DEF InLine
  <2>2. CASE i \notin DOMAIN q
    <3>1. /\ i - Len(q) \in DOMAIN r /\ j - Len(q) \in DOMAIN r /\ i - Len(q) < j - Len(q)
          /\ t[i] = r[i - Len(q)] /\ t[j] = r[j - Len(q)]
        BY <1>1, <2>2
    <3> QED  BY <3>1 DEF InLine
  <2>3. CASE i \in DOMAIN q /\ j \notin DOMAIN q
    <3>1. t[i] = q[i] /\ j - Len(q) \in DOMAIN r /\ t[j] = r[j - Len(q)]
        BY <1>1, <2>3
    <3> QED  BY <2>3, <3>1 DEF AllBefore, Entries
  <2> QED  BY <2>1, <2>2, <2>3
<1>4. Entries(t) \subseteq Entries(q) \cup Entries(r)
    BY <1>2 DEF Entries
<1>5. Entries(q) \subseteq Entries(t)
  <2> SUFFICES ASSUME NEW i \in DOMAIN q PROVE q[i] \in Entries(t)
      BY DEF Entries
  <2>1. i \in DOMAIN t /\ t[i] = q[i]
      BY <1>1
  <2> QED  BY <2>1 DEF Entries
<1>6. Entries(r) \subseteq Entries(t)
  <2> SUFFICES ASSUME NEW i \in DOMAIN r PROVE r[i] \in Entries(t)
      BY DEF Entries
  <2>1. i + Len(q) \in DOMAIN t /\ t[i + Len(q)] = r[i]
      BY <1>1
  <2> QED  BY <2>1 DEF Entries
<1> QED  BY <1>3, <1>4, <1>5, <1>6 DEF t

-----------------------------------------------------------------------------
(* Every event is in one place.                                            *)

LEMMA PlacedAtFirst == Init => PlacedInv
<1> SUFFICES ASSUME Init PROVE Placed
    BY TypeInit DEF PlacedInv
<1>1. /\ Entries(accepted) = {} /\ Events(queue) = {} /\ DOMAIN accepted = {} /\ DOMAIN queue = {}
      /\ \A s \in Senders : Entries(batch[s]) = {} /\ DOMAIN batch[s] = {}
      /\ lost = {} /\ handled = {}
    BY DEF Init, Entries, Events
<1> QED  BY <1>1 DEF Placed, Fresh, Distinct, InLine, AllBefore, FatesAreExclusive

\* The event in hand has not been anywhere yet.
LEMMA InHandIsFresh ==
    ASSUME PlacedInv, NEW p \in Producers, ppc[p] # "clear", next[p] <= MaxSubmits
    PROVE  Ev(p) \in Event /\ Ev(p) \notin Entries(accepted) \cup lost /\ Ev(p) # STOP
<1>1. TypeOK /\ Fresh /\ next[p] \in Nat
    BY PipelineAssumption DEF PlacedInv, TypeInv, TypeOK, Placed
<1>2. Ev(p) \in Event /\ Ev(p).src = p /\ Ev(p).n = next[p]
    BY <1>1, EvType DEF Ev
<1> QED  BY <1>1, <1>2, PipelineAssumption DEF Fresh

\* The event in hand joins the line behind all others.
LEMMA EventEnters ==
    ASSUME PlacedInv, NEW p \in Producers, ppc[p] # "clear", next[p] <= MaxSubmits,
           ~Full, Enqueue(p), UNCHANGED <<batch, lost, handled, next>>
    PROVE  Placed'
<1> DEFINE x == Ev(p)
<1>0. TypeOK /\ Placed /\ TypeInv
    BY DEF PlacedInv, TypeInv
<1>1. x \in Event /\ x \notin Entries(accepted) \cup lost /\ x # STOP /\ x.src = p /\ x.n = next[p]
    BY InHandIsFresh DEF Ev
<1>2. /\ accepted \in Seq(Event) /\ queue \in Seq(Event \cup {STOP})
      /\ queue' = Append(queue, x) /\ accepted' = Append(accepted, x)
      /\ ppc' = [ppc EXCEPT ![p] = "clear"] /\ ppc \in [Producers -> {"ready", "full", "reput", "clear"}]
    BY <1>0 DEF Enqueue, TypeOK
<1> HIDE DEF x
<1>3. /\ \A q : InLine(accepted, q) => InLine(accepted', q)
      /\ \A T, U : AllBefore(accepted, T, U) => AllBefore(accepted', T, U)
      /\ Distinct(accepted') /\ \A e \in Entries(accepted) : Before(accepted', e, x)
      /\ Entries(accepted') = Entries(accepted) \cup {x}
    BY <1>0, <1>1, <1>2, LineGrows DEF Placed
<1>4. Entries(queue') = Entries(queue) \cup {x} /\ Events(queue') = Events(queue) \cup {x}
  <2>1. x \in Event \cup {STOP}
      BY <1>1
  <2>2. Entries(queue') = Entries(queue) \cup {x}
      BY <1>2, <2>1, EntriesAppend
  <2> QED  BY <1>1, <2>2 DEF Events
<1>5. InLine(accepted', queue')
  <2>1. AllBefore(accepted', Events(queue), {x})
      BY <1>0, <1>3 DEF Placed, AllBefore
  <2> QED  BY <1>0, <1>1, <1>2, <1>3, <2>1, LineAppend DEF Placed
<1>6. \A s \in Senders : /\ Entries(batch'[s]) \subseteq Entries(accepted')
                         /\ InLine(accepted', batch'[s])
                         /\ AllBefore(accepted', Entries(batch'[s]), Events(queue'))
  <2> SUFFICES ASSUME NEW s \in Senders
               PROVE  /\ Entries(batch[s]) \subseteq Entries(accepted')
                      /\ InLine(accepted', batch[s])
                      /\ AllBefore(accepted', Entries(batch[s]), Events(queue'))
      OBVIOUS
  <2>1. /\ Entries(batch[s]) \subseteq Entries(accepted) /\ InLine(accepted, batch[s])
        /\ AllBefore(accepted, Entries(batch[s]), Events(queue))
      BY <1>0 DEF Placed
  <2>2. AllBefore(accepted', Entries(batch[s]), Events(queue)) /\ InLine(accepted', batch[s])
      BY <1>3, <2>1
  <2> QED  BY <1>3, <1>4, <2>1, <2>2 DEF AllBefore
<1>7. Fresh'
    BY <1>0, <1>1, <1>2, <1>3 DEF Placed, Fresh
<1>8. FatesAreExclusive'
  <2>1. x \notin handled \cup lost
      BY <1>0, <1>1 DEF Placed
  <2>2. InFlight' = InFlight \cup {x}
      BY <1>4 DEF InFlight
  <2> QED  BY <1>0, <2>1, <2>2 DEF Placed, FatesAreExclusive
<1>9. Events(queue') \cup handled' \subseteq Entries(accepted')
    BY <1>0, <1>3, <1>4 DEF Placed
<1>10. \A s, t \in Senders : s # t => Entries(batch'[s]) \cap Entries(batch'[t]) = {}
    BY <1>0 DEF Placed
<1> QED  BY <1>3, <1>5, <1>6, <1>7, <1>8, <1>9, <1>10 DEF Placed

\* The first in line leaves the queue, where nothing came before it.
LEMMA FirstLeaves ==
    ASSUME PlacedInv, queue # <<>>, NEW h, h = Head(queue), queue' = Tail(queue)
    PROVE  /\ InLine(accepted, queue') /\ Events(queue') \subseteq Events(queue)
           /\ Events(queue) \subseteq Events(queue') \cup {h}
           /\ h # STOP => /\ h \in Events(queue) /\ AllBefore(accepted, {h}, Events(queue'))
                          /\ h \in Event /\ h \notin Events(queue')
                          /\ \A s \in Senders : h \notin Entries(batch[s])
<1>1. /\ TypeOK /\ queue \in Seq(Event \cup {STOP}) /\ accepted \in Seq(Event)
      /\ InLine(accepted, queue) /\ Distinct(accepted)
    BY DEF PlacedInv, TypeInv, TypeOK, Placed
<1>2. /\ Entries(queue) = {h} \cup Entries(queue') /\ h \in Event \cup {STOP}
    BY <1>1, EntriesHeadTail
<1>3. InLine(accepted, queue') /\ (h # STOP => AllBefore(accepted, {h}, Events(queue')))
    BY <1>1, LineTail
<1>4. ASSUME h # STOP PROVE h \notin Events(queue') /\ \A s \in Senders : h \notin Entries(batch[s])
  <2>1. h \in Events(queue)
      BY <1>2, <1>4 DEF Events
  <2>2. h \notin Events(queue')
      BY <1>1, <1>3, <1>4, BeforeAnother DEF AllBefore
  <2>3. ASSUME NEW s \in Senders PROVE h \notin Entries(batch[s])
    <3>1. AllBefore(accepted, Entries(batch[s]), Events(queue))
        BY DEF PlacedInv, Placed
    <3> QED  BY <1>1, <2>1, <3>1, BeforeAnother DEF AllBefore
  <2> QED  BY <2>2, <2>3
<1> QED  BY <1>2, <1>3, <1>4 DEF Events

\* What a sender takes: the first in line, which is behind what it has.
LEMMA SenderTakes ==
    ASSUME PlacedInv, NEW s \in Senders, queue # <<>>, Take(s), NEW h, h = Head(queue)
    PROVE  /\ \A t \in Senders : t # s => batch'[t] = batch[t] /\ pills'[t] = pills[t]
           /\ h = STOP => batch'[s] = batch[s] /\ pills'[s] = pills[s] + 1
           /\ h # STOP => batch'[s] = Append(batch[s], h) /\ pills'[s] = pills[s]
           /\ Entries(batch'[s]) = Entries(batch[s]) \cup ({h} \ {STOP})
           /\ InLine(accepted, batch'[s])
<1>1. /\ batch \in [Senders -> Seq(Event)] /\ pills \in [Senders -> Nat]
      /\ queue \in Seq(Event \cup {STOP})
    BY DEF PlacedInv, TypeInv, TypeOK
<1>2. InLine(accepted, batch[s]) /\ AllBefore(accepted, Entries(batch[s]), Events(queue))
    BY DEF PlacedInv, Placed
<1>3. CASE h = STOP
  <2>1. pills' = [pills EXCEPT ![s] = @ + 1] /\ batch' = batch
      BY <1>3 DEF Take
  <2> QED  BY <1>1, <1>2, <1>3, <2>1
<1>4. CASE h # STOP
  <2>1. batch' = [batch EXCEPT ![s] = Append(@, h)] /\ pills' = pills
      BY <1>4 DEF Take
  <2>2. batch'[s] = Append(batch[s], h) /\ \A t \in Senders : t # s => batch'[t] = batch[t]
      BY <1>1, <2>1
  <2>3. h \in Event /\ batch[s] \in Seq(Event) /\ h \in Events(queue)
      BY <1>1, <1>4, FirstLeaves DEF Take
  <2>4. Entries(batch'[s]) = Entries(batch[s]) \cup {h}
      BY <2>2, <2>3, EntriesAppend
  <2>5. AllBefore(accepted, Events(batch[s]), {h})
      BY <1>2, <2>3 DEF AllBefore, Events
  <2>6. InLine(accepted, batch'[s])
      BY <1>2, <2>2, <2>3, <2>5, LineAppend
  <2> QED  BY <1>4, <2>1, <2>2, <2>4, <2>6
<1> QED  BY <1>3, <1>4

\* A sender takes an event out of the line, and it is in no other place.
LEMMA EventTaken ==
    ASSUME PlacedInv, NEW s \in Senders, queue # <<>>, Take(s),
           UNCHANGED <<accepted, lost, handled, next, ppc>>
    PROVE  Placed'
<1> DEFINE h == Head(queue)
<1>0. TypeOK /\ Placed
    BY DEF PlacedInv, TypeInv
<1>1. /\ InLine(accepted, queue') /\ Events(queue') \subseteq Events(queue)
      /\ h # STOP => /\ h \in Events(queue) /\ AllBefore(accepted, {h}, Events(queue'))
                     /\ h \in Event /\ h \notin Events(queue')
                     /\ \A t \in Senders : h \notin Entries(batch[t])
    BY FirstLeaves DEF Take
<1>2. /\ \A t \in Senders : t # s => batch'[t] = batch[t]
      /\ Entries(batch'[s]) = Entries(batch[s]) \cup ({h} \ {STOP})
      /\ InLine(accepted, batch'[s])
    BY SenderTakes
<1> HIDE DEF h
<1>3. ASSUME NEW t \in Senders
      PROVE  /\ Entries(batch'[t]) \subseteq Entries(accepted) /\ InLine(accepted, batch'[t])
             /\ AllBefore(accepted, Entries(batch'[t]), Events(queue'))
  <2>1. /\ Entries(batch[t]) \subseteq Entries(accepted) /\ InLine(accepted, batch[t])
        /\ AllBefore(accepted, Entries(batch[t]), Events(queue'))
      BY <1>0, <1>1 DEF Placed, AllBefore
  <2>2. CASE t # s
      BY <1>2, <2>1, <2>2
  <2>3. CASE t = s
    <3>1. Entries(batch'[s]) \subseteq Entries(accepted)
        BY <1>0, <1>1, <1>2, <2>1, <2>3 DEF Placed
    <3>2. AllBefore(accepted, Entries(batch'[s]), Events(queue'))
        BY <1>1, <1>2, <2>1, <2>3 DEF AllBefore
    <3> QED  BY <1>2, <2>3, <3>1, <3>2
  <2> QED  BY <2>2, <2>3
<1>4. ASSUME NEW t \in Senders, NEW u \in Senders, t # u
      PROVE  Entries(batch'[t]) \cap Entries(batch'[u]) = {}
    BY <1>0, <1>1, <1>2, <1>4 DEF Placed
<1>5. FatesAreExclusive'
  <2>1. STOP \notin handled \cup lost
      BY <1>0, PipelineAssumption DEF TypeOK
  <2>2. \A e \in InFlight' : e = STOP \/ e \in InFlight
    <3>1. \A t \in Senders : Entries(batch'[t]) \subseteq Entries(batch[t]) \cup (Events(queue) \cap {h})
        BY <1>1, <1>2
    <3> QED  BY <1>1, <3>1 DEF InFlight, Events
  <2> QED  BY <1>0, <2>1, <2>2 DEF Placed, FatesAreExclusive
<1>6. Fresh' /\ Distinct(accepted') /\ Events(queue') \cup handled' \subseteq Entries(accepted')
    BY <1>0, <1>1 DEF Placed, Fresh
<1> QED  BY <1>1, <1>3, <1>4, <1>5, <1>6 DEF Placed

\* Whatever thread takes the next step, every event is in one place.
LEMMA PlacedNext == PlacedInv /\ [Next]_vars => Placed'
<1> SUFFICES ASSUME PlacedInv, [Next]_vars PROVE Placed'
    OBVIOUS
<1>0. TypeOK /\ Placed /\ InSubmit
    BY DEF PlacedInv, TypeInv
<1>a. /\ queue \in Seq(Event \cup {STOP}) /\ batch \in [Senders -> Seq(Event)]
      /\ STOP \notin handled \cup lost /\ ppc \in [Producers -> {"ready", "full", "reput", "clear"}]
      /\ next \in [Producers -> Nat]
    BY <1>0, PipelineAssumption DEF TypeOK
<1> USE DEF prodVars, sendVars, ctlVars
\* A step that moves no event and lets no producer go on.
<1>1. ASSUME UNCHANGED <<queue, batch, accepted, lost, handled>>, Fresh' PROVE Placed'
    BY <1>0, <1>1 DEF Placed, FatesAreExclusive, InFlight
<1>2. ASSUME UNCHANGED <<queue, batch, accepted, lost, handled, ppc, next>> PROVE Placed'
    BY <1>0, <1>1, <1>2 DEF Placed, Fresh
<1>3. ASSUME NEW p \in Producers, Submit(p) PROVE Placed'
  <2>1. CASE PutNowait(p)
    <3>1. CASE ~Full /\ Enqueue(p)
        BY <2>1, <3>1, EventEnters DEF PutNowait
    <3>2. CASE ppc' = [ppc EXCEPT ![p] = "full"] /\ UNCHANGED <<queue, accepted>>
      <4>1. Fresh'
          BY <1>0, <1>a, <2>1, <3>2 DEF PutNowait, Placed, Fresh
      <4> QED  BY <1>1, <2>1, <3>2, <4>1 DEF PutNowait
    <3> QED  BY <2>1, <3>1, <3>2 DEF PutNowait
  <2>2. CASE DropOldest(p)
    <3>1. /\ ppc[p] = "full" /\ ppc' = [ppc EXCEPT ![p] = "reput"]
          /\ UNCHANGED <<batch, accepted, handled, next>>
        BY <2>2 DEF DropOldest
    <3>2. CASE queue # <<>> /\ queue' = Tail(queue) /\ lost' = lost \cup ({Head(queue)} \ {STOP})
      <4> DEFINE h == Head(queue)
      <4>1. /\ InLine(accepted, queue') /\ Events(queue') \subseteq Events(queue)
            /\ h # STOP => /\ h \in Events(queue) /\ h \notin Events(queue')
                           /\ \A t \in Senders : h \notin Entries(batch[t])
          BY <3>2, FirstLeaves
      <4> HIDE DEF h
      <4>2. lost' = lost \cup ({h} \ {STOP})
          BY <3>2 DEF h
      <4>3. Fresh'
        <5>1. \A e \in Entries(accepted') \cup lost' : e \in Entries(accepted) \cup lost
            BY <1>0, <3>1, <4>1, <4>2 DEF Placed
        <5> QED  BY <1>0, <1>a, <3>1, <5>1 DEF Placed, Fresh
      <4>4. FatesAreExclusive'
        <5>1. \A e \in InFlight' : e = STOP \/ (e \in InFlight /\ e # h)
            BY <3>1, <4>1, <4>2 DEF InFlight, Events
        <5>2. STOP \notin handled' \cup lost'
            BY <1>a, <3>1, <4>2
        <5>3. h # STOP => h \notin handled
            BY <1>0, <4>1 DEF Placed, FatesAreExclusive, InFlight, Events
        <5> QED  BY <1>0, <3>1, <4>2, <5>1, <5>2, <5>3 DEF Placed, FatesAreExclusive
      <4>5. /\ Events(queue') \cup handled' \subseteq Entries(accepted')
            /\ \A s \in Senders : AllBefore(accepted', Entries(batch'[s]), Events(queue'))
          BY <1>0, <3>1, <4>1 DEF Placed, AllBefore
      <4> QED  BY <1>0, <3>1, <4>1, <4>3, <4>4, <4>5 DEF Placed
    <3>3. CASE UNCHANGED <<queue, lost>>
      <4>1. Fresh'
          BY <1>0, <1>a, <3>1, <3>3 DEF Placed, Fresh
      <4> QED  BY <1>1, <3>1, <3>3, <4>1
    <3> QED  BY <2>2, <3>2, <3>3 DEF DropOldest
  <2>3. CASE PutAgain(p)
    <3>1. next[p] <= MaxSubmits /\ ppc[p] = "reput" /\ UNCHANGED <<batch, handled>>
        BY <1>0, <2>3 DEF PutAgain, InSubmit
    <3>2. CASE ~Full /\ Enqueue(p) /\ UNCHANGED <<dropped, next, lost>>
        BY <3>1, <3>2, EventEnters
    <3>3. CASE Refuse(p)
      <4> DEFINE x == Ev(p)
      <4>1. x \notin Entries(accepted) \cup lost /\ x # STOP /\ x.src = p /\ x.n = next[p]
          BY <3>1, InHandIsFresh DEF Ev
      <4> HIDE DEF x
      <4>2. /\ lost' = lost \cup {x} /\ UNCHANGED <<queue, accepted>>
            /\ ppc' = [ppc EXCEPT ![p] = "ready"] /\ next' = [next EXCEPT ![p] = @ + 1]
          BY <3>3 DEF Refuse, x
      <4>3. next'[p] = next[p] + 1 /\ \A q \in Producers : q # p => next'[q] = next[q] /\ ppc'[q] = ppc[q]
          BY <1>a, <4>2
      <4>4. Fresh'
        <5> SUFFICES ASSUME NEW e \in Entries(accepted) \cup lost \cup {x}
                     PROVE  e.n < next'[e.src] \/ (e.n = next'[e.src] /\ ppc'[e.src] = "clear")
            BY <4>2 DEF Fresh
        <5>0. e \in Event /\ e.n \in Nat /\ e.src \in Producers
          <6>1. Entries(accepted) \subseteq Event
              BY <1>0, ElementOfSeq, LenProperties DEF TypeOK, Entries
          <6>2. x \in Event
              BY <3>1, InHandIsFresh DEF x
          <6>3. e \in Event
              BY <1>0, <6>1, <6>2 DEF TypeOK
          <6> QED  BY <6>3 DEF Event
        <5>1. CASE e = x
            BY <1>a, <4>1, <4>3, <5>1
        <5>2. CASE e \in Entries(accepted) \cup lost
          <6>1. e.n < next[e.src] \/ (e.n = next[e.src] /\ ppc[e.src] = "clear")
              BY <1>0, <5>2 DEF Placed, Fresh
          <6> QED  BY <1>a, <4>3, <5>0, <6>1
        <5> QED  BY <5>1, <5>2
      <4>5. FatesAreExclusive'
        <5>1. x \notin InFlight
            BY <1>0, <4>1 DEF Placed, InFlight, Events
        <5>2. x \notin handled /\ InFlight' = InFlight
            BY <1>0, <3>1, <4>1, <4>2 DEF Placed, InFlight
        <5> QED  BY <1>0, <3>1, <4>2, <5>1, <5>2 DEF Placed, FatesAreExclusive
      <4> QED  BY <1>0, <3>1, <4>2, <4>4, <4>5 DEF Placed
    <3> QED  BY <2>3, <3>2, <3>3 DEF PutAgain
  <2>4. CASE ClearIdle(p)
    <3>1. /\ ppc[p] = "clear" /\ ppc' = [ppc EXCEPT ![p] = "ready"] /\ next' = [next EXCEPT ![p] = @ + 1]
          /\ UNCHANGED <<queue, batch, accepted, lost, handled>>
        BY <2>4 DEF ClearIdle
    <3>2. next'[p] = next[p] + 1 /\ \A q \in Producers : q # p => next'[q] = next[q] /\ ppc'[q] = ppc[q]
        BY <1>a, <3>1
    <3>3. Fresh'
      <4> SUFFICES ASSUME NEW e \in Entries(accepted) \cup lost
                   PROVE  e.n < next'[e.src] \/ (e.n = next'[e.src] /\ ppc'[e.src] = "clear")
          BY <3>1 DEF Fresh
      <4>1. e \in Event /\ e.n \in Nat /\ e.src \in Producers
        <5>1. Entries(accepted) \subseteq Event
            BY <1>0, ElementOfSeq, LenProperties DEF TypeOK, Entries
        <5>2. e \in Event
            BY <1>0, <5>1 DEF TypeOK
        <5> QED  BY <5>2 DEF Event
      <4>2. e.n < next[e.src] \/ (e.n = next[e.src] /\ ppc[e.src] = "clear")
          BY <1>0 DEF Placed, Fresh
      <4> QED  BY <1>a, <3>1, <3>2, <4>1, <4>2
    <3> QED  BY <1>1, <3>1, <3>3
  <2> QED  BY <1>3, <2>1, <2>2, <2>3, <2>4 DEF Submit
<1>4. ASSUME NEW s \in Senders, Send(s) PROVE Placed'
  <2>1. CASE Get(s)
      BY <2>1, EventTaken DEF Get
  <2>2. CASE TakeMore(s)
      BY <1>2, <2>2, EventTaken DEF TakeMore
  <2>3. CASE CheckEmpty(s)
    <3>1. /\ handled' = handled \cup Entries(batch[s]) /\ batch' = [batch EXCEPT ![s] = <<>>]
          /\ UNCHANGED <<queue, accepted, lost, next, ppc>>
        BY <2>3 DEF CheckEmpty
    <3>2. /\ Entries(batch'[s]) = {} /\ DOMAIN batch'[s] = {}
          /\ \A t \in Senders : t # s => batch'[t] = batch[t]
        BY <1>a, <3>1 DEF Entries
    <3>3. \A t \in Senders : /\ Entries(batch'[t]) \subseteq Entries(accepted)
                             /\ InLine(accepted, batch'[t])
                             /\ AllBefore(accepted, Entries(batch'[t]), Events(queue))
        BY <1>0, <3>2 DEF Placed, InLine, AllBefore
    <3>4. FatesAreExclusive'
      <4>1. \A t \in Senders : Entries(batch'[t]) \subseteq Entries(batch[t]) \ Entries(batch[s])
          BY <1>0, <3>2 DEF Placed
      <4>2. Entries(batch[s]) \cap Events(queue) = {}
        <5>1. accepted \in Seq(Event) /\ Distinct(accepted)
              /\ AllBefore(accepted, Entries(batch[s]), Events(queue))
            BY <1>0 DEF TypeOK, Placed
        <5> QED  BY <5>1, BeforeAnother DEF AllBefore
      <4>3. STOP \notin Entries(batch[s])
        <5>1. batch[s] \in Seq(Event)
            BY <1>a
        <5>2. Entries(batch[s]) \subseteq Event
            BY <5>1, ElementOfSeq, LenProperties DEF Entries
        <5> QED  BY <5>2, PipelineAssumption
      <4>4. InFlight' \subseteq InFlight \ Entries(batch[s])
          BY <3>1, <4>1, <4>2, <4>3 DEF InFlight, Events
      <4>5. Entries(batch[s]) \cap lost = {}
          BY <1>0 DEF Placed, FatesAreExclusive, InFlight
      <4> QED  BY <1>0, <3>1, <4>4, <4>5 DEF Placed, FatesAreExclusive
    <3>5. Fresh' /\ Distinct(accepted') /\ InLine(accepted', queue')
          /\ Events(queue') \cup handled' \subseteq Entries(accepted')
        BY <1>0, <3>1 DEF Placed, Fresh
    <3>6. \A t, u \in Senders : t # u => Entries(batch'[t]) \cap Entries(batch'[u]) = {}
        BY <1>0, <3>2 DEF Placed
    <3> QED  BY <3>1, <3>3, <3>4, <3>5, <3>6 DEF Placed
  <2>4. CASE Publish(s) \/ SetIdle(s) \/ Again(s)
      BY <1>2, <2>4 DEF Publish, SetIdle, Again
  <2> QED  BY <1>4, <2>1, <2>2, <2>3, <2>4 DEF Send
<1>5. CASE PutStop
  <2>1. /\ queue' = Append(queue, STOP) /\ UNCHANGED <<batch, accepted, lost, handled, next, ppc>>
      BY <1>5 DEF PutStop
  <2>2. Entries(queue') = Entries(queue) \cup {STOP} /\ Events(queue') = Events(queue)
    <3>1. STOP \in Event \cup {STOP} /\ queue \in Seq(Event \cup {STOP})
        BY <1>a
    <3>2. Entries(Append(queue, STOP)) = Entries(queue) \cup {STOP}
        BY <3>1, EntriesAppend
    <3> QED  BY <2>1, <3>2 DEF Events
  <2>3. InLine(accepted, queue')
    <3>1. STOP \in Event \cup {STOP} /\ queue \in Seq(Event \cup {STOP}) /\ InLine(accepted, queue)
        BY <1>0, <1>a DEF Placed
    <3>2. InLine(accepted, Append(queue, STOP))
        BY <3>1, LineAppend
    <3> QED  BY <2>1, <3>2
  <2>4. FatesAreExclusive'
      BY <1>0, <1>a, <2>1, <2>2 DEF Placed, FatesAreExclusive, InFlight
  <2>5. Fresh'
      BY <1>0, <2>1 DEF Placed, Fresh
  <2> QED  BY <1>0, <2>1, <2>2, <2>3, <2>4, <2>5 DEF Placed
<1>6. ASSUME Control, ~PutStop PROVE Placed'
    BY <1>2, <1>6 DEF Control, StopStep, Start, StartFails, Flush, Stop,
       FlushReturnsTrue, FlushTimesOut, Joined, JoinTimesOut, ClosePublishers
<1>7. CASE UNCHANGED vars
    BY <1>2, <1>7 DEF vars
<1> QED  BY <1>3, <1>4, <1>5, <1>6, <1>7 DEF Next

\* No event is lost and handed to the publishers, and none that was either is
\* waiting to be sent again, whoever discards from the queue and takes from it
\* at once (_make_room_for() and _take_more()).
THEOREM NoEventHasTwoFates == Spec => []FatesAreExclusive
<1>1. PlacedInv /\ [Next]_vars => PlacedInv'
    BY TypeNext, PlacedNext DEF PlacedInv
<1>2. PlacedInv => FatesAreExclusive
    BY DEF PlacedInv, Placed
<1> QED  BY PlacedAtFirst, <1>1, <1>2, PTL DEF Spec

-----------------------------------------------------------------------------
(* Starting and stopping, when no delivery outlasts stop()'s timeout.      *)

\* What a sender holds: nothing when it waits, and a batch that is not empty
\* when there is a publisher to hand it to.
Hands ==
    \A s \in Senders :
        /\ Len(batch[s]) + pills[s] <= BatchSize
        /\ spc[s] \in {"off", "get"} => pills[s] = 0
        /\ spc[s] = "exited" => pills[s] > 0
        /\ spc[s] \notin {"more", "deliver"} => batch[s] = <<>>
        /\ spc[s] = "deliver" /\ at[s] <= NPublishers => batch[s] # <<>>
        /\ s > starts => spc[s] = "off"

\* There is one sender, the one in self._thread or the one stop() waits for,
\* and while it lives the publishers are started.  A sentinel is in the
\* pipeline only while stop() waits, once, for a sender that still lives.
OneStop(q) == \A i, j \in DOMAIN q : q[i] = STOP /\ q[j] = STOP => i = j

OneSender ==
    /\ thread # 0 => ctl \in {"ready", "flush"} /\ Alive(thread)
    /\ ctl \in {"drain", "put"} => Alive(joining)
    /\ ctl = "join" => joining \in Senders /\ spc[joining] # "off"
    /\ \A s \in Senders : Alive(s) =>
           /\ s = IF ctl \in {"ready", "flush"} THEN thread ELSE joining
           /\ ctl # "close" /\ open = Publishers
           /\ pills[s] > 0 => ctl = "join" /\ STOP \notin Entries(queue)
    /\ STOP \in Entries(queue) => ctl = "join" /\ Alive(joining)
    /\ OneStop(queue)

Ahead(q, S) == \A i, j \in DOMAIN q : q[i] = STOP /\ q[j] \in S => j < i

\* What stop() owes is where it can still be found; in the queue it is ahead
\* of the sentinel, so none of it is left there once the sentinel was taken.
Owing ==
    /\ ctl \in {"drain", "put", "join"} =>
           owed \subseteq Entries(accepted) /\ owed \subseteq InFlight \cup handled \cup lost
    /\ ctl = "join" =>
           /\ Ahead(queue, owed)
           /\ pills[joining] > 0 => Entries(queue) \cap owed = {}
    /\ StopDelivers

LifeInv == PlacedInv /\ Hands /\ OneSender
OwedInv == LifeInv /\ Owing

\* Each publisher has received events in line and none that is lost, and all
\* of them before those that are still to come to it.
Told ==
    \A i \in Publishers :
        /\ Entries(received[i]) \subseteq Entries(accepted) \ lost
        /\ InLine(accepted, received[i])
        /\ AllBefore(accepted, Entries(received[i]), Events(queue))
        /\ \A s \in Senders : spc[s] # "deliver" \/ at[s] <= i =>
               AllBefore(accepted, Entries(received[i]), Entries(batch[s]))

ToldInv == LifeInv /\ Told

\* A line from which the first is taken, or that another joins at the end,
\* has no more sentinels than before.
LEMMA StopsTail ==
    ASSUME NEW S, NEW q \in Seq(S), q # <<>>, OneStop(q)
    PROVE  /\ OneStop(Tail(q)) /\ Entries(Tail(q)) \subseteq Entries(q)
           /\ Head(q) = STOP => STOP \in Entries(q) /\ STOP \notin Entries(Tail(q))
<1>1. /\ Head(q) = q[1] /\ Len(q) \in Nat /\ 1 \in DOMAIN q /\ DOMAIN q = 1..Len(q)
      /\ DOMAIN Tail(q) = 1..(Len(q) - 1)
      /\ \A i \in 1..(Len(q) - 1) : Tail(q)[i] = q[i + 1] /\ i + 1 \in DOMAIN q
  <2>1. /\ Tail(q) \in Seq(S) /\ Len(Tail(q)) = Len(q) - 1 /\ Head(q) = q[1]
        /\ \A i \in 1..Len(Tail(q)) : Tail(q)[i] = q[i + 1]
      BY HeadTailProperties
  <2>2. Len(q) \in Nat /\ Len(q) >= 1 /\ DOMAIN q = 1..Len(q)
      BY EmptySeq, LenProperties
  <2> QED  BY <2>1, <2>2, LenProperties
<1>2. OneStop(Tail(q))
  <2> SUFFICES ASSUME NEW i \in 1..(Len(q) - 1), NEW j \in 1..(Len(q) - 1),
                      Tail(q)[i] = STOP, Tail(q)[j] = STOP
               PROVE  i = j
      BY <1>1 DEF OneStop
  <2>1. i + 1 = j + 1
      BY <1>1 DEF OneStop
  <2> QED  BY <2>1
<1>3. Head(q) = STOP => STOP \in Entries(q) /\ STOP \notin Entries(Tail(q))
  <2> SUFFICES ASSUME Head(q) = STOP, NEW i \in 1..(Len(q) - 1), Tail(q)[i] = STOP PROVE FALSE
      BY <1>1 DEF Entries
  <2>1. 1 = i + 1
      BY <1>1 DEF OneStop
  <2> QED  BY <2>1
<1> QED  BY <1>2, <1>3, EntriesHeadTail

LEMMA StopsAppend ==
    ASSUME NEW S, NEW q \in Seq(S), NEW x \in S, OneStop(q), x # STOP \/ STOP \notin Entries(q)
    PROVE  OneStop(Append(q, x))
<1>1. /\ Len(q) \in Nat /\ DOMAIN q = 1..Len(q) /\ DOMAIN Append(q, x) = 1..(Len(q) + 1)
      /\ (\A i \in 1..Len(q) : Append(q, x)[i] = q[i]) /\ Append(q, x)[Len(q) + 1] = x
    BY AppendProperties, LenProperties
<1> QED  BY <1>1 DEF OneStop, Entries

LEMMA LifeAtFirst == Init => LifeInv
<1> SUFFICES ASSUME Init PROVE Hands /\ OneSender
    BY PlacedAtFirst DEF LifeInv
<1>1. Len(<<>>) = 0 /\ BatchSize \in Nat
    BY PipelineAssumption, EmptySeq
<1>2. Hands
    BY <1>1 DEF Init, Hands
<1>3. Entries(queue) = {} /\ DOMAIN queue = {}
    BY DEF Init, Entries
<1> QED  BY <1>2, <1>3 DEF Init, OneSender, Alive, OneStop

\* Taking one more keeps a batch within its size, and grows it by one.
LEMMA HandGrows ==
    ASSUME PlacedInv, NEW s \in Senders, queue # <<>>, Take(s)
    PROVE  /\ Len(batch'[s]) + pills'[s] = Len(batch[s]) + pills[s] + 1
           /\ Len(batch'[s]) \in Nat /\ pills'[s] \in Nat
           /\ Len(batch[s]) \in Nat /\ pills[s] \in Nat
<1> DEFINE h == Head(queue)
<1>1. batch[s] \in Seq(Event) /\ pills[s] \in Nat
    BY DEF PlacedInv, TypeInv, TypeOK
<1>2. Len(batch[s]) \in Nat
    BY <1>1, LenProperties
<1>3. CASE h = STOP
    BY <1>1, <1>2, <1>3, SenderTakes
<1>4. CASE h # STOP
  <2>1. batch'[s] = Append(batch[s], h) /\ pills'[s] = pills[s]
      BY <1>4, SenderTakes
  <2>2. h \in Event
      BY <1>4, FirstLeaves DEF Take
  <2>3. Len(batch'[s]) = Len(batch[s]) + 1
      BY <1>1, <2>1, <2>2, AppendProperties
  <2> QED  BY <1>1, <1>2, <2>1, <2>3
<1> QED  BY <1>3, <1>4

LEMMA HandsNext == LifeInv /\ [Next]_vars => Hands'
<1> SUFFICES ASSUME LifeInv, [Next]_vars PROVE Hands'
    OBVIOUS
<1>0. PlacedInv /\ Hands
    BY DEF LifeInv
<1>a. /\ spc \in [Senders -> {"off", "get", "more", "deliver", "empty", "done", "exited"}]
      /\ batch \in [Senders -> Seq(Event)] /\ pills \in [Senders -> Nat]
      /\ at \in [Senders -> 1..(NPublishers + 1)] /\ starts \in 0..MaxStarts
      /\ NPublishers \in Nat /\ BatchSize \in Nat /\ BatchSize >= 1 /\ Senders \subseteq Nat
    BY <1>0, PipelineAssumption DEF PlacedInv, TypeInv, TypeOK, Senders
<1> DEFINE Hand(s) ==
        /\ Len(batch[s]) + pills[s] <= BatchSize
        /\ spc[s] \in {"off", "get"} => pills[s] = 0
        /\ spc[s] = "exited" => pills[s] > 0
        /\ spc[s] \notin {"more", "deliver"} => batch[s] = <<>>
        /\ spc[s] = "deliver" /\ at[s] <= NPublishers => batch[s] # <<>>
        /\ s > starts => spc[s] = "off"
<1>b. \A s \in Senders : Hand(s)
    BY <1>0 DEF Hands
<1>c. (\A s \in Senders : Hand(s)') => Hands'
    BY DEF Hands
<1> USE DEF prodVars, sendVars, ctlVars
<1>1. ASSUME UNCHANGED <<spc, batch, pills, at, starts>> PROVE Hands'
    BY <1>0, <1>1 DEF Hands
<1>2. ASSUME NEW p \in Producers, Submit(p) PROVE Hands'
    BY <1>1, <1>2 DEF Submit, PutNowait, DropOldest, PutAgain, ClearIdle
<1>3. ASSUME NEW s \in Senders, Send(s) PROVE Hands'
  <2>0. starts' = starts /\ spc[s] # "off"
      BY <1>3 DEF Send, Get, TakeMore, Publish, CheckEmpty, SetIdle, Again
  \* The other senders keep what they have.
  <2>a. ASSUME \A t \in Senders : t # s => /\ batch'[t] = batch[t] /\ pills'[t] = pills[t]
                                           /\ spc'[t] = spc[t] /\ at'[t] = at[t],
               Hand(s)'
        PROVE  Hands'
    <3>1. ASSUME NEW t \in Senders PROVE Hand(t)'
      <4>1. CASE t = s
          BY <2>a, <4>1
      <4>2. CASE t # s
          BY <1>b, <2>0, <2>a, <4>2
      <4> QED  BY <4>1, <4>2
    <3> QED  BY <1>c, <3>1
  <2>1. CASE Get(s)
    <3>1. /\ queue # <<>> /\ Take(s) /\ spc[s] = "get" /\ spc' = [spc EXCEPT ![s] = "more"] /\ at' = at
        BY <2>1 DEF Get
    <3>2. Len(batch[s]) = 0 /\ pills[s] = 0
        BY <1>b, <3>1, EmptySeq
    <3>3. Len(batch'[s]) + pills'[s] = 1
        BY <1>0, <3>1, <3>2, HandGrows
    <3>4. spc'[s] = "more" /\ \A t \in Senders : t # s => spc'[t] = spc[t] /\ at'[t] = at[t]
        BY <1>a, <3>1
    <3>5. \A t \in Senders : t # s => batch'[t] = batch[t] /\ pills'[t] = pills[t]
        BY <1>0, <3>1, SenderTakes
    <3>6. Hand(s)'
        BY <1>a, <1>b, <2>0, <3>3, <3>4, <3>1
    <3> QED  BY <2>a, <3>4, <3>5, <3>6
  <2>2. CASE TakeMore(s)
    <3>1. CASE Room(s) /\ queue # <<>> /\ Take(s) /\ UNCHANGED <<spc, at>>
      <4>1. Len(batch'[s]) + pills'[s] <= BatchSize /\ spc'[s] = "more" /\ spc[s] = "more"
        <5>1. Len(batch[s]) + pills[s] < BatchSize
            BY <3>1 DEF Room, Taken
        <5>2. spc[s] = "more"
            BY <2>2 DEF TakeMore
        <5> QED  BY <1>0, <1>a, <3>1, <5>1, <5>2, HandGrows
      <4>2. \A t \in Senders : t # s => batch'[t] = batch[t] /\ pills'[t] = pills[t]
          BY <1>0, <3>1, SenderTakes
      <4>3. Hand(s)'
          BY <1>b, <2>0, <4>1
      <4> QED  BY <2>a, <3>1, <4>2, <4>3
    <3>2. CASE /\ spc' = [spc EXCEPT ![s] = "deliver"]
               /\ at' = [at EXCEPT ![s] = IF batch[s] = <<>> THEN NPublishers + 1 ELSE 1]
               /\ UNCHANGED <<queue, batch, pills>>
      <4>1. /\ spc'[s] = "deliver" /\ at'[s] = IF batch[s] = <<>> THEN NPublishers + 1 ELSE 1
            /\ \A t \in Senders : t # s => spc'[t] = spc[t] /\ at'[t] = at[t]
          BY <1>a, <3>2
      <4>2. Hand(s)'
          BY <1>a, <1>b, <2>0, <3>2, <4>1
      <4> QED  BY <2>a, <3>2, <4>1, <4>2
    <3> QED  BY <2>2, <3>1, <3>2 DEF TakeMore
  <2>3. CASE Publish(s)
    <3>1. /\ spc[s] = "deliver" /\ at[s] <= NPublishers /\ at' = [at EXCEPT ![s] = @ + 1]
          /\ UNCHANGED <<spc, batch, pills>>
        BY <2>3 DEF Publish
    <3>2. Hand(s)' /\ \A t \in Senders : t # s => at'[t] = at[t]
        BY <1>a, <1>b, <2>0, <3>1
    <3> QED  BY <2>a, <3>1, <3>2
  <2>4. CASE CheckEmpty(s)
    <3>1. /\ batch' = [batch EXCEPT ![s] = <<>>]
          /\ spc' = [spc EXCEPT ![s] = IF queue = <<>> THEN "empty" ELSE "done"]
          /\ UNCHANGED <<pills, at>>
        BY <2>4 DEF CheckEmpty
    <3>2. /\ batch'[s] = <<>> /\ spc'[s] \in {"empty", "done"} /\ pills'[s] = pills[s]
          /\ \A t \in Senders : t # s => batch'[t] = batch[t] /\ spc'[t] = spc[t]
        BY <1>a, <3>1
    <3>3. Len(batch[s]) \in Nat /\ Len(batch'[s]) = 0
        BY <1>a, <3>2, LenProperties, EmptySeq
    <3>4. Hand(s)'
        BY <1>a, <1>b, <2>0, <3>2, <3>3
    <3> QED  BY <2>a, <3>1, <3>2, <3>4
  <2>5. CASE SetIdle(s) \/ Again(s)
    <3>1. /\ UNCHANGED <<batch, pills, at>> /\ spc[s] \in {"empty", "done"}
          /\ \/ spc' = [spc EXCEPT ![s] = "done"]
             \/ spc' = [spc EXCEPT ![s] = IF pills[s] > 0 THEN "exited" ELSE "get"]
        BY <2>5 DEF SetIdle, Again
    <3>2. /\ spc'[s] = "done" \/ spc'[s] = IF pills[s] > 0 THEN "exited" ELSE "get"
          /\ \A t \in Senders : t # s => spc'[t] = spc[t]
        BY <1>a, <3>1
    <3>3. Hand(s)'
        BY <1>a, <1>b, <2>0, <3>1, <3>2
    <3> QED  BY <2>a, <3>1, <3>2, <3>3
  <2> QED  BY <1>3, <2>1, <2>2, <2>3, <2>4, <2>5 DEF Send
<1>4. CASE Start
  <2>1. /\ starts < MaxStarts /\ starts' = starts + 1 /\ spc' = [spc EXCEPT ![starts + 1] = "get"]
        /\ UNCHANGED <<batch, pills, at>>
      BY <1>4 DEF Start
  <2>2. starts + 1 \in Senders /\ starts + 1 > starts
      BY <1>a, <2>1, PipelineAssumption DEF Senders
  <2>3. spc[starts + 1] = "off"
      BY <1>b, <2>2
  <2>4. ASSUME NEW t \in Senders PROVE Hand(t)'
    <3>1. CASE t = starts + 1
        BY <1>a, <1>b, <2>1, <2>2, <2>3, <3>1
    <3>2. CASE t # starts + 1
      <4>1. spc'[t] = spc[t] /\ (t > starts' => t > starts)
          BY <1>a, <2>1, <3>2
      <4> QED  BY <1>b, <2>1, <4>1
    <3> QED  BY <3>1, <3>2
  <2> QED  BY <1>c, <2>4
<1>5. ASSUME Control, ~Start PROVE Hands'
    BY <1>1, <1>5 DEF Control, StopStep, StartFails, Flush, Stop, PutStop,
       FlushReturnsTrue, FlushTimesOut, Joined, JoinTimesOut, ClosePublishers
<1>6. CASE UNCHANGED vars
    BY <1>1, <1>6 DEF vars
<1> QED  BY <1>2, <1>3, <1>4, <1>5, <1>6 DEF Next

\* When no delivery outlasts stop()'s timeout, no step of any thread leaves a
\* second sender alive, or a sentinel that nobody is to take.
LEMMA OneSenderNext ==
    ASSUME ~JoinMayTimeOut, LifeInv, [Next]_vars
    PROVE  OneSender'
<1>0. PlacedInv /\ Hands /\ OneSender /\ TypeInv
    BY DEF LifeInv, PlacedInv
<1>a. /\ spc \in [Senders -> {"off", "get", "more", "deliver", "empty", "done", "exited"}]
      /\ pills \in [Senders -> Nat] /\ queue \in Seq(Event \cup {STOP})
      /\ starts \in Nat /\ 0 \notin Senders
    BY <1>0, PipelineAssumption DEF TypeInv, TypeOK, Senders
<1>b. OneStop(queue)
    BY <1>0 DEF OneSender
<1> USE DEF prodVars, sendVars, ctlVars
\* A step that starts and ends no sender, and adds no sentinel.
<1>1. ASSUME UNCHANGED <<spc, pills, open, thread, ctl, joining>>, OneStop(queue'),
             STOP \in Entries(queue') => STOP \in Entries(queue)
      PROVE  OneSender'
    BY <1>0, <1>1 DEF OneSender, Alive
<1>2. ASSUME NEW p \in Producers, Submit(p) PROVE OneSender'
  <2>1. UNCHANGED <<spc, pills, open, thread, ctl, joining>>
      BY <1>2 DEF Submit, PutNowait, DropOldest, PutAgain, ClearIdle
  <2>2. CASE UNCHANGED queue
      BY <1>1, <1>b, <2>1, <2>2
  <2>3. CASE Enqueue(p) /\ ppc[p] # "clear" /\ next[p] <= MaxSubmits
    <3>1. queue' = Append(queue, Ev(p)) /\ Ev(p) \in Event /\ Ev(p) # STOP
        BY <1>0, <2>3, InHandIsFresh DEF Enqueue
    <3>2. OneStop(queue') /\ Entries(queue') = Entries(queue) \cup {Ev(p)}
        BY <1>a, <1>b, <3>1, StopsAppend, EntriesAppend
    <3> QED  BY <1>1, <2>1, <3>1, <3>2
  <2>4. CASE queue # <<>> /\ queue' = Tail(queue)
    <3>1. OneStop(queue') /\ Entries(queue') \subseteq Entries(queue)
        BY <1>a, <1>b, <2>4, StopsTail
    <3> QED  BY <1>1, <2>1, <3>1
  <2> QED  BY <1>0, <1>2, <2>2, <2>3, <2>4
           DEF Submit, PutNowait, DropOldest, PutAgain, ClearIdle, Refuse, TypeInv, InSubmit
<1>3. ASSUME NEW s \in Senders, queue # <<>>, Take(s), Alive(s), Alive(s)',
             \A t \in Senders : t # s => spc'[t] = spc[t],
             UNCHANGED <<open, thread, ctl, joining>>
      PROVE  OneSender'
  <2>1. /\ queue' = Tail(queue) /\ OneStop(queue') /\ Entries(queue') \subseteq Entries(queue)
        /\ Head(queue) = STOP => STOP \in Entries(queue) /\ STOP \notin Entries(queue')
      BY <1>a, <1>b, <1>3, StopsTail DEF Take
  <2>2. \A t \in Senders : (Alive(t) <=> Alive(t)') /\ (t # s => pills'[t] = pills[t])
      BY <1>0, <1>3, SenderTakes DEF Alive
  <2>3. (thread # 0 => Alive(thread)) => (thread' # 0 => Alive(thread)')
      BY <1>3, <2>2 DEF Alive
  <2>4. Alive(joining) => Alive(joining)'
      BY <1>3, <2>2 DEF Alive
  <2>5. ctl = "join" => joining \in Senders /\ spc'[joining] # "off"
    <3>1. ctl = "join" => joining \in Senders /\ spc[joining] # "off"
        BY <1>0 DEF OneSender
    <3> QED  BY <1>3, <3>1 DEF Alive
  <2>6. ASSUME NEW t \in Senders, Alive(t)', pills'[t] > 0
        PROVE  ctl = "join" /\ STOP \notin Entries(queue')
    <3>1. CASE Head(queue) = STOP
        BY <1>0, <2>1, <3>1 DEF OneSender
    <3>2. CASE Head(queue) # STOP
      <4>1. pills'[t] = pills[t]
          BY <1>0, <1>3, <2>2, <3>2, SenderTakes
      <4> QED  BY <1>0, <2>1, <2>2, <2>6, <4>1 DEF OneSender
    <3> QED  BY <3>1, <3>2
  <2>7. \A t \in Senders : Alive(t)' =>
            /\ t = IF ctl' \in {"ready", "flush"} THEN thread' ELSE joining'
            /\ ctl' # "close" /\ open' = Publishers
      BY <1>0, <1>3, <2>2 DEF OneSender
  <2>8. STOP \in Entries(queue') => ctl' = "join" /\ Alive(joining)'
      BY <1>0, <1>3, <2>1, <2>4 DEF OneSender
  <2>9. thread' # 0 => ctl' \in {"ready", "flush"} /\ Alive(thread)'
      BY <1>0, <1>3, <2>3 DEF OneSender
  <2>10. /\ ctl' \in {"drain", "put"} => Alive(joining)'
         /\ ctl' = "join" => joining' \in Senders /\ spc'[joining'] # "off"
      BY <1>0, <1>3, <2>4, <2>5 DEF OneSender
  <2> QED  BY <1>3, <2>1, <2>6, <2>7, <2>8, <2>9, <2>10 DEF OneSender
<1>4. ASSUME NEW s \in Senders, Send(s) PROVE OneSender'
  <2>0. Alive(s) /\ UNCHANGED <<open, thread, ctl, joining>>
      BY <1>4 DEF Send, Get, TakeMore, Publish, CheckEmpty, SetIdle, Again, Alive
  <2>1. CASE Get(s)
    <3>1. spc'[s] = "more" /\ \A t \in Senders : t # s => spc'[t] = spc[t]
        BY <1>a, <2>1 DEF Get
    <3> QED  BY <1>3, <2>0, <2>1, <3>1 DEF Get, Alive
  <2>2. CASE TakeMore(s) /\ Take(s) /\ queue # <<>> /\ UNCHANGED spc
      BY <1>3, <2>0, <2>2 DEF Alive
  \* One that takes nothing, and lives on.
  <2>3. ASSUME UNCHANGED <<queue, pills>>, spc'[s] \notin {"off", "exited"},
               \A t \in Senders : t # s => spc'[t] = spc[t]
        PROVE  OneSender'
    <3>1. \A t : Alive(t) <=> Alive(t)'
        BY <2>0, <2>3 DEF Alive
    <3>2. ctl = "join" => joining \in Senders /\ spc'[joining] # "off"
        BY <1>0, <2>3 DEF OneSender
    <3> QED  BY <1>0, <2>0, <2>3, <3>1, <3>2 DEF OneSender
  <2>4. CASE TakeMore(s) /\ spc' = [spc EXCEPT ![s] = "deliver"] /\ UNCHANGED <<queue, batch, pills>>
    <3>1. spc'[s] = "deliver" /\ \A t \in Senders : t # s => spc'[t] = spc[t]
        BY <1>a, <2>4
    <3> QED  BY <2>3, <2>4, <3>1
  <2>5. CASE Publish(s)
    <3>1. UNCHANGED <<queue, pills, spc>>
        BY <2>5 DEF Publish
    <3> QED  BY <2>0, <2>3, <3>1 DEF Alive
  <2>6. CASE CheckEmpty(s) \/ SetIdle(s)
    <3>1. UNCHANGED <<queue, pills>> /\ \/ spc' = [spc EXCEPT ![s] = "done"]
                                        \/ spc' = [spc EXCEPT ![s] = "empty"]
        BY <2>6 DEF CheckEmpty, SetIdle
    <3>2. spc'[s] \in {"empty", "done"} /\ \A t \in Senders : t # s => spc'[t] = spc[t]
        BY <1>a, <3>1
    <3> QED  BY <2>3, <3>1, <3>2
  <2>7. CASE Again(s)
    <3>1. /\ UNCHANGED <<queue, pills>>
          /\ spc' = [spc EXCEPT ![s] = IF pills[s] > 0 THEN "exited" ELSE "get"]
        BY <2>7 DEF Again
    <3>2. CASE pills[s] > 0
      <4>1. ctl = "join" /\ STOP \notin Entries(queue) /\ thread = 0 /\ s = joining
          BY <1>0, <2>0, <3>2 DEF OneSender
      <4>2. spc'[s] = "exited" /\ \A t \in Senders : t # s => spc'[t] = spc[t]
          BY <1>a, <3>1, <3>2
      <4>3. \A t \in Senders : ~Alive(t)'
        <5>1. \A t \in Senders : Alive(t) => t = s
            BY <1>0, <4>1 DEF OneSender
        <5> QED  BY <4>2, <5>1 DEF Alive
      <4> QED  BY <1>b, <2>0, <3>1, <4>1, <4>2, <4>3 DEF OneSender
    <3>3. CASE ~(pills[s] > 0)
      <4>1. spc'[s] = "get" /\ \A t \in Senders : t # s => spc'[t] = spc[t]
          BY <1>a, <3>1, <3>3
      <4> QED  BY <2>3, <3>1, <4>1
    <3> QED  BY <3>2, <3>3
  <2> QED  BY <1>4, <2>1, <2>2, <2>4, <2>5, <2>6, <2>7 DEF Send, TakeMore
\* Between two calls of stop() the only sender is the one in self._thread.
<1>c. ASSUME ctl = "ready", ~Alive(thread)
      PROVE  thread = 0 /\ STOP \notin Entries(queue) /\ \A s \in Senders : ~Alive(s)
    BY <1>0, <1>c DEF OneSender
<1>5. CASE Start
  <2>1. /\ ctl = "ready" /\ ~Alive(thread) /\ starts < MaxStarts
        /\ open' = Publishers /\ thread' = starts + 1 /\ spc' = [spc EXCEPT ![starts + 1] = "get"]
        /\ UNCHANGED <<queue, pills, ctl, joining>>
      BY <1>5 DEF Start
  <2>2. starts + 1 \in Senders /\ starts + 1 > starts
      BY <1>a, <2>1, PipelineAssumption DEF Senders
  <2>3. pills[starts + 1] = 0
      BY <1>0, <2>2 DEF Hands
  <2>4. spc'[starts + 1] = "get" /\ \A t \in Senders : t # starts + 1 => spc'[t] = spc[t]
      BY <1>a, <2>1, <2>2
  <2>5. Alive(thread)' /\ \A t \in Senders : Alive(t)' => t = starts + 1
      BY <1>c, <2>1, <2>2, <2>4 DEF Alive
  <2> QED  BY <1>b, <1>c, <2>1, <2>2, <2>3, <2>5 DEF OneSender
<1>6. CASE StartFails
  <2>1. ctl = "ready" /\ ~Alive(thread) /\ UNCHANGED <<queue, spc, pills, ctl, thread, joining>>
      BY <1>6 DEF StartFails
  <2>2. \A s \in Senders : ~Alive(s)'
      BY <1>c, <2>1 DEF Alive
  <2> QED  BY <1>b, <1>c, <2>1, <2>2 DEF OneSender
<1>7. CASE Flush \/ FlushReturnsTrue \/ FlushTimesOut
  <2>1. /\ UNCHANGED <<queue, spc, pills, open, thread, joining>>
        /\ \/ ctl = "ready" /\ ctl' = "flush"
           \/ ctl = "flush" /\ ctl' = "ready"
           \/ ctl = "drain" /\ ctl' = "put"
      BY <1>7 DEF Flush, FlushReturnsTrue, FlushTimesOut, AfterFlush
  <2>2. \A s : Alive(s) <=> Alive(s)'
      BY <2>1 DEF Alive
  <2> QED  BY <1>0, <2>1, <2>2 DEF OneSender
<1>8. CASE Stop
  <2>1. /\ ctl = "ready" /\ thread' = 0 /\ joining' = thread /\ UNCHANGED <<queue, spc, pills, open>>
      BY <1>8 DEF Stop, TakeThread
  <2>2. \A s : Alive(s) <=> Alive(s)'
      BY <2>1 DEF Alive
  <2>3. CASE Alive(thread)
    <3>1. ctl' \in {"drain", "put"}
        BY <1>8, <2>3 DEF Stop
    <3> QED  BY <1>0, <2>1, <2>2, <2>3, <3>1 DEF OneSender
  <2>4. CASE ~Alive(thread)
    <3>1. ctl' = "close"
        BY <1>8, <2>4 DEF Stop
    <3> QED  BY <1>b, <1>c, <2>1, <2>2, <2>4, <3>1 DEF OneSender
  <2> QED  BY <2>3, <2>4
<1>9. CASE PutStop
  <2>1. /\ ctl = "put" /\ ctl' = "join" /\ queue' = Append(queue, STOP)
        /\ UNCHANGED <<spc, pills, open, thread, joining>>
      BY <1>9 DEF PutStop
  <2>2. Alive(joining) /\ STOP \notin Entries(queue) /\ thread = 0
      BY <1>0, <2>1 DEF OneSender
  <2>3. OneStop(queue')
      BY <1>a, <1>b, <2>1, <2>2, StopsAppend
  <2>4. \A s : Alive(s) <=> Alive(s)'
      BY <2>1 DEF Alive
  <2>5. \A s \in Senders : Alive(s) => s = joining /\ open = Publishers /\ ~(pills[s] > 0)
      BY <1>0, <2>1 DEF OneSender
  <2> QED  BY <2>1, <2>2, <2>3, <2>4, <2>5 DEF OneSender, Alive
<1>10. CASE Joined
  <2>1. ctl = "join" /\ ~Alive(joining) /\ ctl' = "close" /\ UNCHANGED <<queue, spc, pills, open, thread, joining>>
      BY <1>10 DEF Joined
  <2>2. thread = 0 /\ STOP \notin Entries(queue) /\ \A s \in Senders : ~Alive(s)
      BY <1>0, <2>1 DEF OneSender
  <2> QED  BY <1>b, <2>1, <2>2 DEF OneSender, Alive
<1>11. CASE ClosePublishers
  <2>1. ctl = "close" /\ ctl' = "ready" /\ UNCHANGED <<queue, spc, pills, thread, joining>>
      BY <1>11 DEF ClosePublishers
  <2>2. thread = 0 /\ STOP \notin Entries(queue) /\ \A s \in Senders : ~Alive(s)
      BY <1>0, <2>1 DEF OneSender
  <2> QED  BY <1>b, <2>1, <2>2 DEF OneSender, Alive
<1>12. ~JoinTimesOut
    BY DEF JoinTimesOut
<1>13. CASE UNCHANGED vars
    BY <1>0, <1>1, <1>b, <1>13 DEF vars
<1> QED  BY <1>2, <1>4, <1>5, <1>6, <1>7, <1>8, <1>9, <1>10, <1>11, <1>12, <1>13
         DEF Next, Control, StopStep

LEMMA LifeNext ==
    ASSUME ~JoinMayTimeOut
    PROVE  LifeInv /\ [Next]_vars => LifeInv'
BY TypeNext, PlacedNext, HandsNext, OneSenderNext DEF LifeInv, PlacedInv

\* A pipeline that was started and is not being stopped has a sender, and a
\* sender that has taken events finds its publishers started, also after
\* restarts and failed starts, as long as no delivery outlasts stop()'s timeout.
THEOREM SenderFindsPublishersOpen ==
    ASSUME ~JoinMayTimeOut
    PROVE  Spec => []StartedMeansOpen
<1>1. LifeInv => StartedMeansOpen
    BY DEF LifeInv, OneSender, StartedMeansOpen, Alive
<1> QED  BY LifeAtFirst, LifeNext, <1>1, PTL DEF Spec

-----------------------------------------------------------------------------
(* What stop() finishes.                                                   *)

LEMMA OwedAtFirst == Init => OwedInv
<1>1. Init => Owing
    BY DEF Init, Owing, StopDelivers
<1> QED  BY <1>1, LifeAtFirst DEF OwedInv


\* What a producer or a sender does to the queue, and that what was handled or
\* lost remains so.
LEMMA QueueMoves ==
    ASSUME PlacedInv, (\E p \in Producers : Submit(p)) \/ (\E s \in Senders : Send(s))
    PROVE  /\ \/ queue' = queue
              \/ queue # <<>> /\ queue' = Tail(queue)
              \/ \E x \in Event : queue' = Append(queue, x) /\ x \notin Entries(accepted)
           /\ handled \subseteq handled' /\ lost \subseteq lost'
           /\ UNCHANGED <<ctl, owed, joining>>
<1>1. TypeInv
    BY DEF PlacedInv
<1>2. ASSUME NEW p \in Producers, Submit(p)
      PROVE  \/ UNCHANGED queue
             \/ queue # <<>> /\ queue' = Tail(queue)
             \/ Enqueue(p) /\ ppc[p] # "clear" /\ next[p] <= MaxSubmits
    BY <1>1, <1>2 DEF Submit, PutNowait, DropOldest, PutAgain, Refuse, ClearIdle, TypeInv, InSubmit
<1>3. ASSUME NEW p \in Producers, Submit(p)
      PROVE  handled \subseteq handled' /\ lost \subseteq lost' /\ UNCHANGED <<ctl, owed, joining>>
    BY <1>3 DEF Submit, PutNowait, DropOldest, PutAgain, Refuse, ClearIdle, ctlVars
<1>4. ASSUME NEW p \in Producers, Enqueue(p), ppc[p] # "clear", next[p] <= MaxSubmits
      PROVE  \E x \in Event : queue' = Append(queue, x) /\ x \notin Entries(accepted)
    BY <1>4, InHandIsFresh DEF Enqueue
<1>5. ASSUME NEW s \in Senders, Send(s)
      PROVE  /\ UNCHANGED queue \/ (queue # <<>> /\ queue' = Tail(queue))
             /\ handled \subseteq handled' /\ lost \subseteq lost' /\ UNCHANGED <<ctl, owed, joining>>
    BY <1>5 DEF Send, Get, TakeMore, Take, Publish, CheckEmpty, SetIdle, Again, ctlVars
<1> QED  BY <1>2, <1>3, <1>4, <1>5

\* Entries of S stay ahead of the sentinel.
LEMMA AheadKept ==
    ASSUME NEW T, NEW q \in Seq(T), NEW S
    PROVE  /\ q # <<>> /\ Ahead(q, S) => Ahead(Tail(q), S) /\ (Head(q) = STOP => Entries(q) \cap S = {})
           /\ \A x \in T : Ahead(q, S) /\ x # STOP /\ x \notin S => Ahead(Append(q, x), S)
           /\ STOP \in T /\ STOP \notin Entries(q) /\ STOP \notin S => Ahead(Append(q, STOP), S)
<1>1. Len(q) \in Nat /\ DOMAIN q = 1..Len(q)
    BY LenProperties
<1>2. ASSUME q # <<>>, Ahead(q, S)
      PROVE  Ahead(Tail(q), S) /\ (Head(q) = STOP => Entries(q) \cap S = {})
  <2>1. /\ Head(q) = q[1] /\ 1 \in DOMAIN q /\ DOMAIN Tail(q) = 1..(Len(q) - 1)
        /\ \A i \in 1..(Len(q) - 1) : Tail(q)[i] = q[i + 1] /\ i + 1 \in DOMAIN q
    <3>1. /\ Tail(q) \in Seq(T) /\ Len(Tail(q)) = Len(q) - 1 /\ Head(q) = q[1]
          /\ \A i \in 1..Len(Tail(q)) : Tail(q)[i] = q[i + 1]
        BY <1>2, HeadTailProperties
    <3>2. Len(q) >= 1
        BY <1>1, <1>2, EmptySeq
    <3> QED  BY <1>1, <3>1, <3>2, LenProperties
  <2>2. Ahead(Tail(q), S)
    <3> SUFFICES ASSUME NEW i \in 1..(Len(q) - 1), NEW j \in 1..(Len(q) - 1),
                        Tail(q)[i] = STOP, Tail(q)[j] \in S
                 PROVE  j < i
        BY <2>1 DEF Ahead
    <3>1. j + 1 < i + 1
        BY <1>2, <2>1 DEF Ahead
    <3> QED  BY <3>1
  <2>3. ASSUME Head(q) = STOP PROVE Entries(q) \cap S = {}
    <3> SUFFICES ASSUME NEW j \in 1..Len(q), q[j] \in S PROVE FALSE
        BY <1>1 DEF Entries
    <3>1. j < 1
        BY <1>1, <1>2, <2>1, <2>3 DEF Ahead
    <3> QED  BY <3>1
  <2> QED  BY <2>2, <2>3
<1>3. ASSUME NEW x \in T
      PROVE  /\ DOMAIN Append(q, x) = 1..(Len(q) + 1) /\ Append(q, x)[Len(q) + 1] = x
             /\ \A i \in 1..Len(q) : Append(q, x)[i] = q[i]
    BY AppendProperties, LenProperties
<1>4. ASSUME NEW x \in T, Ahead(q, S), x # STOP, x \notin S PROVE Ahead(Append(q, x), S)
    BY <1>1, <1>3, <1>4 DEF Ahead
<1>5. ASSUME STOP \in T, STOP \notin Entries(q), STOP \notin S PROVE Ahead(Append(q, STOP), S)
    BY <1>1, <1>3, <1>5 DEF Ahead, Entries
<1> QED  BY <1>2, <1>4, <1>5

LEMMA OwingNext ==
    ASSUME ~JoinMayTimeOut, OwedInv, [Next]_vars
    PROVE  Owing'
<1>0. LifeInv /\ PlacedInv /\ TypeInv /\ Placed /\ Hands /\ OneSender /\ Owing
    BY DEF OwedInv, LifeInv, PlacedInv
<1>a. /\ queue \in Seq(Event \cup {STOP}) /\ STOP \notin Event /\ owed \subseteq Event
      /\ batch \in [Senders -> Seq(Event)] /\ pills \in [Senders -> Nat]
      /\ spc \in [Senders -> {"off", "get", "more", "deliver", "empty", "done", "exited"}]
    BY <1>0, PipelineAssumption DEF TypeInv, TypeOK
\* What was owed is somewhere still.
<1>b. ASSUME ctl \in {"drain", "put", "join"}
      PROVE  owed \subseteq Entries(accepted') /\ owed \subseteq (InFlight \cup handled \cup lost)'
  <2>1. owed \subseteq Entries(accepted) /\ owed \subseteq Somewhere
      BY <1>0, <1>a, <1>b DEF Owing, Somewhere
  <2> QED  BY <1>0, <2>1, NothingLeaves, EntersTheQueue DEF Somewhere
<1> USE DEF prodVars, sendVars, ctlVars
<1>1. ASSUME (\E p \in Producers : Submit(p)) \/ (\E s \in Senders : Send(s)) PROVE Owing'
  <2>1. /\ \/ queue' = queue
           \/ queue # <<>> /\ queue' = Tail(queue)
           \/ \E x \in Event : queue' = Append(queue, x) /\ x \notin Entries(accepted)
        /\ handled \subseteq handled' /\ lost \subseteq lost'
        /\ UNCHANGED <<ctl, owed, joining>>
      BY <1>0, <1>1, QueueMoves
  <2>2. ASSUME ctl = "join"
        PROVE  Ahead(queue', owed) /\ Entries(queue') \cap owed \subseteq Entries(queue)
    <3>0. Ahead(queue, owed) /\ owed \subseteq Entries(accepted)
        BY <1>0, <2>2 DEF Owing
    <3>1. CASE queue' = queue
        BY <3>0, <3>1
    <3>2. CASE queue # <<>> /\ queue' = Tail(queue)
        BY <1>a, <3>0, <3>2, AheadKept, EntriesHeadTail
    <3>3. ASSUME NEW x \in Event, queue' = Append(queue, x), x \notin Entries(accepted)
          PROVE  Ahead(queue', owed) /\ Entries(queue') \cap owed \subseteq Entries(queue)
      <4>1. x \notin owed /\ x # STOP /\ x \in Event \cup {STOP}
          BY <1>a, <3>0, <3>3
      <4> QED  BY <1>a, <3>0, <3>3, <4>1, AheadKept, EntriesAppend
    <3> QED  BY <2>1, <3>1, <3>2, <3>3
  <2>3. ASSUME ctl = "join", pills'[joining] > 0 PROVE Entries(queue') \cap owed = {}
    <3>1. CASE pills[joining] > 0
        BY <1>0, <2>2, <2>3, <3>1 DEF Owing
    <3>2. CASE ~(pills[joining] > 0)
      <4>0. joining \in Senders
          BY <1>0, <2>3 DEF OneSender
      <4>1. \E s \in Senders : queue # <<>> /\ Take(s)
        <5>1. pills' # pills
            BY <2>3, <3>2
        <5>2. ASSUME NEW p \in Producers, Submit(p) PROVE pills' = pills
            BY <5>2 DEF Submit, PutNowait, DropOldest, PutAgain, ClearIdle
        <5>3. ASSUME NEW s \in Senders, Send(s)
              PROVE  pills' = pills \/ (queue # <<>> /\ Take(s))
            BY <5>3 DEF Send, Get, TakeMore, Publish, CheckEmpty, SetIdle, Again
        <5> QED  BY <1>1, <5>1, <5>2, <5>3
      <4>2. PICK s \in Senders : queue # <<>> /\ Take(s)
          BY <4>1
      <4>3. Head(queue) = STOP
        <5>1. CASE Head(queue) # STOP
          <6>1. pills' = pills
              BY <4>2, <5>1 DEF Take
          <6> QED  BY <2>3, <3>2, <6>1
        <5> QED  BY <5>1
      <4>4. Entries(queue) \cap owed = {}
          BY <1>0, <1>a, <2>3, <4>2, <4>3, AheadKept DEF Owing
      <4> QED  BY <2>2, <2>3, <4>4
    <3> QED  BY <3>1, <3>2
  <2>4. StopDelivers'
      BY <1>0, <2>1 DEF Owing, StopDelivers
  <2> QED  BY <1>b, <2>1, <2>2, <2>3, <2>4 DEF Owing
<1>2. CASE Start \/ StartFails \/ Flush
    BY <1>2 DEF Start, StartFails, Flush, Owing, StopDelivers
<1>3. CASE Stop
  <2>1. CASE Alive(thread)
    <3>1. /\ ctl' \in {"drain", "put"} /\ UNCHANGED <<queue, batch, accepted>>
          /\ owed' = Events(queue) \cup UNION {Entries(batch[s]) : s \in Senders}
        BY <1>3, <2>1 DEF Stop, Events
    <3>2. owed' \subseteq Entries(accepted) /\ owed' \subseteq InFlight'
        BY <1>0, <3>1 DEF Placed, InFlight, Events
    <3> QED  BY <3>1, <3>2 DEF Owing, StopDelivers
  <2>2. CASE ~Alive(thread)
      BY <1>3, <2>2 DEF Stop, Owing, StopDelivers
  <2> QED  BY <2>1, <2>2
<1>4. CASE FlushReturnsTrue \/ FlushTimesOut
  <2>1. /\ owed' = owed
        /\ (ctl = "flush" /\ ctl' = "ready") \/ (ctl = "drain" /\ ctl' = "put")
      BY <1>4 DEF FlushReturnsTrue, FlushTimesOut, AfterFlush
  <2> QED  BY <1>b, <2>1 DEF Owing, StopDelivers
<1>5. CASE PutStop
  <2>1. /\ ctl = "put" /\ ctl' = "join" /\ queue' = Append(queue, STOP)
        /\ UNCHANGED <<owed, joining, pills>>
      BY <1>5 DEF PutStop
  <2>2. Alive(joining) /\ STOP \notin Entries(queue) /\ ~(pills[joining] > 0)
      BY <1>0, <2>1 DEF OneSender, Alive
  <2>3. Ahead(queue', owed)
      BY <1>a, <2>1, <2>2, AheadKept
  <2> QED  BY <1>b, <2>1, <2>2, <2>3 DEF Owing, StopDelivers
<1>6. CASE Joined
  <2>1. ctl = "join" /\ ~Alive(joining) /\ ctl' = "close" /\ UNCHANGED <<queue, batch, owed, handled, lost>>
      BY <1>6 DEF Joined
  <2>2. joining \in Senders /\ spc[joining] = "exited"
      BY <1>0, <1>a, <2>1 DEF OneSender, Alive
  <2>3. pills[joining] > 0 /\ Entries(queue) \cap owed = {}
      BY <1>0, <2>1, <2>2 DEF Hands, Owing
  <2>4. \A s \in Senders : Entries(batch[s]) = {}
    <3> SUFFICES ASSUME NEW s \in Senders PROVE Entries(batch[s]) = {}
        OBVIOUS
    <3>1. ~Alive(s)
        BY <1>0, <2>1 DEF OneSender
    <3>2. batch[s] = <<>>
        BY <1>0, <3>1 DEF Hands, Alive
    <3> QED  BY <3>2 DEF Entries
  <2>5. owed \subseteq handled \cup lost
      BY <1>0, <2>1, <2>3, <2>4 DEF Owing, InFlight
  <2> QED  BY <2>1, <2>5 DEF Owing, StopDelivers
<1>7. CASE ClosePublishers
    BY <1>7 DEF ClosePublishers, Owing, StopDelivers
<1>8. ~JoinTimesOut
    BY DEF JoinTimesOut
<1>9. CASE UNCHANGED vars
  <2>1. UNCHANGED <<queue, batch, handled, lost, owed, ctl, joining, pills, accepted>>
      BY <1>9 DEF vars
  <2> QED  BY <1>0, <2>1 DEF Owing, StopDelivers, InFlight
<1> QED  BY <1>1, <1>2, <1>3, <1>4, <1>5, <1>6, <1>7, <1>8, <1>9 DEF Next, Control, StopStep

\* When stop() goes on to close the publishers, every event that was in the
\* pipeline when it was called was handed to them or counted as lost, whatever
\* flush() answered, wherever the sentinel turned up and whatever was dropped.
THEOREM StopFinishesDelivering ==
    ASSUME ~JoinMayTimeOut
    PROVE  Spec => []StopDelivers
<1>1. OwedInv /\ [Next]_vars => OwedInv'
    BY LifeNext, OwingNext DEF OwedInv
<1>2. OwedInv => StopDelivers
    BY DEF OwedInv, Owing
<1> QED  BY OwedAtFirst, <1>1, <1>2, PTL DEF Spec

-----------------------------------------------------------------------------
(* What every publisher is told, and the abstract broadcast.               *)

LEMMA ToldAtFirst == Init => ToldInv
<1> SUFFICES ASSUME Init PROVE Told
    BY LifeAtFirst DEF ToldInv
<1>1. /\ \A i \in Publishers : Entries(received[i]) = {} /\ DOMAIN received[i] = {}
    BY DEF Init, Entries
<1> QED  BY <1>1 DEF Told, InLine, AllBefore

\* A sender with a batch in its hands is the only one that has any.
LEMMA OnlyHands ==
    ASSUME LifeInv, NEW s \in Senders, spc[s] = "deliver", NEW t \in Senders, t # s
    PROVE  Entries(batch[t]) = {}
<1>1. Alive(s) /\ Hands /\ OneSender
    BY DEF LifeInv, Alive
<1>2. ~Alive(t)
    BY <1>1 DEF OneSender
<1>3. batch[t] = <<>>
    BY <1>1, <1>2 DEF Hands, Alive
<1> QED  BY <1>3 DEF Entries

LEMMA ToldNext ==
    ASSUME ToldInv, [Next]_vars
    PROVE  Told'
<1>0. LifeInv /\ PlacedInv /\ TypeInv /\ Placed /\ Hands /\ Told
    BY DEF ToldInv, LifeInv, PlacedInv
<1>a. /\ queue \in Seq(Event \cup {STOP}) /\ accepted \in Seq(Event) /\ Distinct(accepted)
      /\ batch \in [Senders -> Seq(Event)] /\ received \in [Publishers -> Seq(Event)]
      /\ spc \in [Senders -> {"off", "get", "more", "deliver", "empty", "done", "exited"}]
      /\ at \in [Senders -> 1..(NPublishers + 1)] /\ Publishers \subseteq Nat
      /\ STOP \notin Event
    BY <1>0, PipelineAssumption DEF TypeInv, TypeOK, Placed, Publishers
<1> USE DEF prodVars, sendVars, ctlVars
\* A step that tells nobody anything, brings nothing into the pipeline and
\* leaves each sender with nothing it had not and nothing it had to hand on.
<1>1. ASSUME UNCHANGED <<accepted, received, lost>>, Events(queue') \subseteq Events(queue),
             \A s \in Senders :
                 \/ Entries(batch'[s]) = {}
                 \/ /\ Entries(batch'[s]) \subseteq Entries(batch[s]) \cup Events(queue)
                    /\ spc[s] # "deliver" \/ (UNCHANGED <<spc, at>>)
      PROVE  Told'
  <2> SUFFICES ASSUME NEW i \in Publishers
               PROVE  /\ AllBefore(accepted, Entries(received[i]), Events(queue'))
                      /\ \A s \in Senders : spc'[s] # "deliver" \/ at'[s] <= i =>
                             AllBefore(accepted, Entries(received[i]), Entries(batch'[s]))
      BY <1>0, <1>1 DEF Told
  <2>1. AllBefore(accepted, Entries(received[i]), Events(queue'))
      BY <1>0, <1>1 DEF Told, AllBefore
  <2>2. ASSUME NEW s \in Senders, spc'[s] # "deliver" \/ at'[s] <= i
        PROVE  AllBefore(accepted, Entries(received[i]), Entries(batch'[s]))
    <3>1. CASE Entries(batch'[s]) = {}
        BY <3>1 DEF AllBefore
    <3>2. CASE /\ Entries(batch'[s]) \subseteq Entries(batch[s]) \cup Events(queue)
               /\ spc[s] # "deliver" \/ (UNCHANGED <<spc, at>>)
      <4>1. spc[s] # "deliver" \/ at[s] <= i
          BY <2>2, <3>2
      <4>2. /\ AllBefore(accepted, Entries(received[i]), Entries(batch[s]))
            /\ AllBefore(accepted, Entries(received[i]), Events(queue))
          BY <1>0, <4>1 DEF Told
      <4> QED  BY <3>2, <4>2 DEF AllBefore
    <3> QED  BY <1>1, <3>1, <3>2
  <2> QED  BY <2>1, <2>2
<1>2. ASSUME UNCHANGED <<accepted, received, lost, batch, spc, at>>, Events(queue') \subseteq Events(queue)
      PROVE  Told'
    BY <1>1, <1>2
\* An event enters.
<1>3. ASSUME NEW p \in Producers, Enqueue(p), ppc[p] # "clear", next[p] <= MaxSubmits,
             UNCHANGED <<received, lost, batch, spc, at>>
      PROVE  Told'
  <2> DEFINE x == Ev(p)
  <2>1. /\ x \in Event /\ x # STOP /\ x \notin lost
        /\ queue' = Append(queue, x) /\ accepted' = Append(accepted, x)
      BY <1>0, <1>3, InHandIsFresh DEF Enqueue
  <2> HIDE DEF x
  <2>2. /\ \A q : InLine(accepted, q) => InLine(accepted', q)
        /\ \A T, U : AllBefore(accepted, T, U) => AllBefore(accepted', T, U)
        /\ \A e \in Entries(accepted) : Before(accepted', e, x)
        /\ Entries(accepted') = Entries(accepted) \cup {x}
      BY <1>a, <2>1, LineGrows
  <2>3. Events(queue') = Events(queue) \cup {x}
    <3>1. x \in Event \cup {STOP}
        BY <2>1
    <3>2. Entries(queue') = Entries(queue) \cup {x}
        BY <1>a, <2>1, <3>1, EntriesAppend
    <3> QED  BY <2>1, <3>2 DEF Events
  <2> SUFFICES ASSUME NEW i \in Publishers
               PROVE  /\ Entries(received[i]) \subseteq Entries(accepted') \ lost
                      /\ InLine(accepted', received[i])
                      /\ AllBefore(accepted', Entries(received[i]), Events(queue'))
                      /\ \A s \in Senders : spc[s] # "deliver" \/ at[s] <= i =>
                             AllBefore(accepted', Entries(received[i]), Entries(batch[s]))
      BY <1>3 DEF Told
  <2>4. /\ Entries(received[i]) \subseteq Entries(accepted) \ lost
        /\ InLine(accepted, received[i])
        /\ AllBefore(accepted, Entries(received[i]), Events(queue))
        /\ \A s \in Senders : spc[s] # "deliver" \/ at[s] <= i =>
               AllBefore(accepted, Entries(received[i]), Entries(batch[s]))
      BY <1>0 DEF Told
  <2>5. AllBefore(accepted', Entries(received[i]), Events(queue'))
    <3>1. AllBefore(accepted', Entries(received[i]), Events(queue))
        BY <2>2, <2>4
    <3> QED  BY <2>2, <2>3, <2>4, <3>1 DEF AllBefore
  <2> QED  BY <2>2, <2>4, <2>5
\* An event is lost that no publisher was told of.
<1>4. ASSUME NEW x, lost' = lost \cup {x}, \A i \in Publishers : x \notin Entries(received[i]),
             UNCHANGED <<accepted, received, batch, spc, at>>, Events(queue') \subseteq Events(queue)
      PROVE  Told'
    BY <1>0, <1>4 DEF Told, AllBefore
<1>5. ASSUME NEW p \in Producers, Submit(p) PROVE Told'
  <2>1. UNCHANGED <<received, batch, spc, at>>
      BY <1>5 DEF Submit, PutNowait, DropOldest, PutAgain, ClearIdle
  <2>2. CASE UNCHANGED <<queue, accepted, lost>>
      BY <1>2, <2>1, <2>2
  <2>3. CASE PutNowait(p)
      BY <1>3, <2>1, <2>2, <2>3 DEF PutNowait
  <2>4. CASE DropOldest(p)
    <3>1. CASE queue # <<>> /\ queue' = Tail(queue) /\ lost' = lost \cup ({Head(queue)} \ {STOP})
      <4> DEFINE h == Head(queue)
      <4>1. Events(queue') \subseteq Events(queue) /\ (h # STOP => h \in Events(queue))
            /\ accepted' = accepted
          BY <1>0, <2>4, <3>1, FirstLeaves DEF DropOldest
      <4>2. CASE h = STOP
          BY <1>2, <2>1, <3>1, <4>1, <4>2
      <4>3. CASE h # STOP
        <5>1. ASSUME NEW i \in Publishers PROVE h \notin Entries(received[i])
          <6>1. AllBefore(accepted, Entries(received[i]), Events(queue))
              BY <1>0 DEF Told
          <6> QED  BY <1>a, <4>1, <4>3, <6>1, BeforeAnother DEF AllBefore
        <5>2. lost' = lost \cup {h}
            BY <3>1, <4>3
        <5> HIDE DEF h
        <5> QED  BY <1>4, <2>1, <4>1, <5>1, <5>2
      <4> QED  BY <4>2, <4>3
    <3>2. CASE UNCHANGED <<queue, lost>>
        BY <2>2, <2>4, <3>2 DEF DropOldest
    <3> QED  BY <2>4, <3>1, <3>2 DEF DropOldest
  <2>5. CASE PutAgain(p)
    <3>0. next[p] <= MaxSubmits /\ ppc[p] # "clear"
        BY <1>0, <2>5 DEF PutAgain, TypeInv, InSubmit
    <3>1. CASE Enqueue(p) /\ UNCHANGED lost
        BY <1>3, <2>1, <3>0, <3>1
    <3>2. CASE Refuse(p)
      <4>1. Ev(p) \notin Entries(accepted)
          BY <1>0, <3>0, InHandIsFresh
      <4>2. \A i \in Publishers : Ev(p) \notin Entries(received[i])
          BY <1>0, <4>1 DEF Told
      <4> QED  BY <1>4, <2>1, <3>2, <4>2 DEF Refuse
    <3> QED  BY <2>5, <3>1, <3>2 DEF PutAgain
  <2>6. CASE ClearIdle(p)
      BY <2>2, <2>6 DEF ClearIdle
  <2> QED  BY <1>5, <2>3, <2>4, <2>5, <2>6 DEF Submit
<1>6. ASSUME NEW s \in Senders, Send(s) PROVE Told'
  <2>1. ASSUME queue # <<>>, Take(s), UNCHANGED <<accepted, received, lost, at>>,
               \A t \in Senders : spc'[t] = "deliver" <=> spc[t] = "deliver"
        PROVE  Told'
    <3>1. Events(queue') \subseteq Events(queue)
          /\ (Head(queue) # STOP => Head(queue) \in Events(queue))
        BY <1>0, <2>1, FirstLeaves DEF Take
    <3>2. /\ \A t \in Senders : t # s => batch'[t] = batch[t]
          /\ Entries(batch'[s]) = Entries(batch[s]) \cup ({Head(queue)} \ {STOP})
        BY <1>0, <2>1, SenderTakes
    <3> SUFFICES ASSUME NEW i \in Publishers
                 PROVE  /\ AllBefore(accepted, Entries(received[i]), Events(queue'))
                        /\ \A t \in Senders : spc'[t] # "deliver" \/ at[t] <= i =>
                               AllBefore(accepted, Entries(received[i]), Entries(batch'[t]))
        BY <1>0, <2>1 DEF Told
    <3>3. AllBefore(accepted, Entries(received[i]), Events(queue))
        BY <1>0 DEF Told
    <3>4. AllBefore(accepted, Entries(received[i]), Events(queue'))
        BY <3>1, <3>3 DEF AllBefore
    <3>5. ASSUME NEW t \in Senders, spc'[t] # "deliver" \/ at[t] <= i
          PROVE  AllBefore(accepted, Entries(received[i]), Entries(batch'[t]))
      <4>1. AllBefore(accepted, Entries(received[i]), Entries(batch[t]))
          BY <1>0, <2>1, <3>5 DEF Told
      <4>2. Entries(batch'[t]) \subseteq Entries(batch[t]) \cup Events(queue)
          BY <3>1, <3>2
      <4> QED  BY <3>3, <4>1, <4>2 DEF AllBefore
    <3> QED  BY <3>4, <3>5
  <2>2. CASE Get(s)
    <3>1. \A t \in Senders : spc'[t] = "deliver" <=> spc[t] = "deliver"
        BY <1>a, <2>2 DEF Get
    <3> QED  BY <2>1, <2>2, <3>1 DEF Get
  <2>3. CASE TakeMore(s)
    <3>1. CASE queue # <<>> /\ Take(s) /\ UNCHANGED <<spc, at>>
        BY <2>1, <2>3, <3>1 DEF TakeMore
    <3>2. CASE /\ spc' = [spc EXCEPT ![s] = "deliver"] /\ UNCHANGED <<queue, batch, pills>>
               /\ at' = [at EXCEPT ![s] = IF batch[s] = <<>> THEN NPublishers + 1 ELSE 1]
      <4>1. spc[s] # "deliver" /\ UNCHANGED <<accepted, received, lost>>
          BY <2>3 DEF TakeMore
      <4>2. \A t \in Senders : t # s => spc'[t] = spc[t] /\ at'[t] = at[t]
          BY <1>a, <3>2
      <4> SUFFICES ASSUME NEW i \in Publishers, NEW t \in Senders, spc'[t] # "deliver" \/ at'[t] <= i
                   PROVE  AllBefore(accepted, Entries(received[i]), Entries(batch[t]))
          BY <1>0, <3>2, <4>1 DEF Told
      <4>3. spc[t] # "deliver" \/ at[t] <= i
          BY <4>1, <4>2
      <4> QED  BY <1>0, <4>3 DEF Told
    <3> QED  BY <2>3, <3>1, <3>2 DEF TakeMore
  <2>4. CASE Publish(s)
    <3>1. /\ spc[s] = "deliver" /\ at[s] <= NPublishers /\ at' = [at EXCEPT ![s] = @ + 1]
          /\ UNCHANGED <<accepted, lost, queue, batch, spc>>
        BY <2>4 DEF Publish
    <3> DEFINE k == at[s]
    <3>2. k \in Publishers /\ at'[s] = k + 1 /\ \A t \in Senders : t # s => at'[t] = at[t]
        BY <1>a, <3>1 DEF Publishers
    <3>3. \A t \in Senders : t # s => Entries(batch[t]) = {}
        BY <1>0, <3>1, OnlyHands
    <3> HIDE DEF k
    <3>4. ASSUME NEW i \in Publishers, NEW t \in Senders, spc[t] # "deliver" \/ at'[t] <= i
          PROVE  Entries(batch[t]) = {} \/ (t = s /\ at[s] <= i /\ i # k)
      <4>1. t = s => k + 1 <= i
          BY <3>1, <3>2, <3>4
      <4> QED  BY <1>a, <3>2, <3>3, <4>1 DEF k
    \* Told in line, at the end.
    <3>5. CASE received' = [received EXCEPT ![at[s]] = @ \o batch[s]]
      <4>1. /\ received'[k] = received[k] \o batch[s]
            /\ \A i \in Publishers : i # k => received'[i] = received[i]
          BY <1>a, <3>2, <3>5 DEF k
      <4>2. /\ Entries(received[k]) \subseteq Entries(accepted) \ lost
            /\ InLine(accepted, received[k])
            /\ AllBefore(accepted, Entries(received[k]), Events(queue))
            /\ AllBefore(accepted, Entries(received[k]), Entries(batch[s]))
          BY <1>0, <1>a, <3>2 DEF Told, k
      <4>3. /\ Entries(batch[s]) \subseteq Entries(accepted) /\ InLine(accepted, batch[s])
            /\ AllBefore(accepted, Entries(batch[s]), Events(queue))
            /\ Entries(batch[s]) \cap lost = {}
          BY <1>0 DEF Placed, FatesAreExclusive, InFlight
      <4>4. received[k] \in Seq(Event) /\ batch[s] \in Seq(Event)
          BY <1>a, <3>2
      <4>5. /\ InLine(accepted, received'[k])
            /\ Entries(received'[k]) = Entries(received[k]) \cup Entries(batch[s])
          BY <4>1, <4>2, <4>3, <4>4, LineConcat
      <4> SUFFICES ASSUME NEW i \in Publishers
                   PROVE  /\ Entries(received'[i]) \subseteq Entries(accepted) \ lost
                          /\ InLine(accepted, received'[i])
                          /\ AllBefore(accepted, Entries(received'[i]), Events(queue))
                          /\ \A t \in Senders : spc[t] # "deliver" \/ at'[t] <= i =>
                                 AllBefore(accepted, Entries(received'[i]), Entries(batch[t]))
          BY <3>1 DEF Told
      <4>6. CASE i = k
        <5>1. AllBefore(accepted, Entries(received'[k]), Events(queue))
            BY <4>2, <4>3, <4>5 DEF AllBefore
        <5>2. \A t \in Senders : spc[t] # "deliver" \/ at'[t] <= k => Entries(batch[t]) = {}
            BY <3>2, <3>4
        <5> QED  BY <4>2, <4>3, <4>5, <4>6, <5>1, <5>2 DEF AllBefore
      <4>7. CASE i # k
        <5>1. received'[i] = received[i]
            BY <4>1, <4>7
        <5>2. ASSUME NEW t \in Senders, spc[t] # "deliver" \/ at'[t] <= i
              PROVE  AllBefore(accepted, Entries(received[i]), Entries(batch[t]))
          <6>1. Entries(batch[t]) = {} \/ (t = s /\ at[s] <= i)
              BY <3>4, <5>2
          <6> QED  BY <1>0, <6>1 DEF Told, AllBefore
        <5> QED  BY <1>0, <5>1, <5>2 DEF Told
      <4> QED  BY <4>6, <4>7
    <3>6. CASE UNCHANGED received
      <4> SUFFICES ASSUME NEW i \in Publishers, NEW t \in Senders, spc[t] # "deliver" \/ at'[t] <= i
                   PROVE  AllBefore(accepted, Entries(received[i]), Entries(batch[t]))
          BY <1>0, <3>1, <3>6 DEF Told
      <4>1. Entries(batch[t]) = {} \/ (t = s /\ at[s] <= i)
          BY <3>4
      <4> QED  BY <1>0, <4>1 DEF Told, AllBefore
    <3> QED  BY <2>4, <3>5, <3>6 DEF Publish
  <2>5. CASE CheckEmpty(s) \/ SetIdle(s) \/ Again(s)
    <3>1. /\ UNCHANGED <<accepted, received, lost, queue, at>>
          /\ batch' = [batch EXCEPT ![s] = <<>>] \/ (batch' = batch /\ batch[s] = <<>>)
          /\ spc' = [spc EXCEPT ![s] = spc'[s]]
        BY <1>0, <1>a, <2>5 DEF CheckEmpty, SetIdle, Again, Hands
    <3>2. /\ Entries(batch'[s]) = {}
          /\ \A t \in Senders : t # s => batch'[t] = batch[t] /\ spc'[t] = spc[t]
        BY <1>a, <3>1 DEF Entries
    <3> SUFFICES ASSUME NEW i \in Publishers, NEW t \in Senders, spc'[t] # "deliver" \/ at[t] <= i
                 PROVE  AllBefore(accepted, Entries(received[i]), Entries(batch'[t]))
        BY <1>0, <3>1 DEF Told
    <3> QED  BY <1>0, <3>2 DEF Told, AllBefore
  <2> QED  BY <1>6, <2>2, <2>3, <2>4, <2>5 DEF Send
<1>7. CASE Start
  <2>1. /\ spc' = [spc EXCEPT ![starts + 1] = "get"] /\ starts < MaxStarts
        /\ UNCHANGED <<accepted, received, lost, queue, batch, at>>
      BY <1>7 DEF Start
  <2>2. starts + 1 \in Senders /\ starts + 1 > starts
      BY <1>0, <2>1, PipelineAssumption DEF TypeInv, TypeOK, Senders
  <2>3. Entries(batch[starts + 1]) = {}
      BY <1>0, <2>2 DEF Hands, Entries
  <2>4. \A t \in Senders : t # starts + 1 => spc'[t] = spc[t]
      BY <1>a, <2>1
  <2> SUFFICES ASSUME NEW i \in Publishers, NEW t \in Senders, spc'[t] # "deliver" \/ at[t] <= i
               PROVE  AllBefore(accepted, Entries(received[i]), Entries(batch[t]))
      BY <1>0, <2>1 DEF Told
  <2> QED  BY <1>0, <2>3, <2>4 DEF Told, AllBefore
<1>8. CASE PutStop
  <2>1. Events(queue') = Events(queue)
    <3>1. queue' = Append(queue, STOP) /\ queue \in Seq(Event \cup {STOP})
        BY <1>8, <1>a DEF PutStop
    <3>2. Entries(queue') = Entries(queue) \cup {STOP}
        BY <3>1, EntriesAppend
    <3> QED  BY <3>2 DEF Events
  <2> QED  BY <1>2, <1>8, <2>1 DEF PutStop
<1>9. ASSUME Control, ~PutStop, ~Start PROVE Told'
    BY <1>2, <1>9 DEF Control, StopStep, StartFails, Flush, Stop,
       FlushReturnsTrue, FlushTimesOut, Joined, JoinTimesOut, ClosePublishers
<1>10. CASE UNCHANGED vars
    BY <1>2, <1>10 DEF vars
<1> QED  BY <1>5, <1>6, <1>7, <1>8, <1>9, <1>10 DEF Next

\* The place of an event among those that entered, and the lines kept by the
\* abstract broadcast.
LEMMA PositionOf ==
    ASSUME TypeInv, Distinct(accepted), NEW i \in DOMAIN accepted
    PROVE  Contract!Position(accepted[i]) = i
BY DEF Contract!Position, Distinct

LEMMA LineIsInOrder ==
    ASSUME TypeInv, Distinct(accepted), NEW q \in Seq(Event), InLine(accepted, q)
    PROVE  Contract!InOrder(q)
<1> SUFFICES ASSUME NEW j \in DOMAIN q, NEW k \in DOMAIN q, j < k
             PROVE  Contract!Position(q[j]) < Contract!Position(q[k])
    BY DEF Contract!InOrder
<1>1. q[j] # STOP /\ q[k] # STOP
    BY ElementOfSeq, LenProperties, PipelineAssumption
<1>2. PICK m, n \in DOMAIN accepted : m < n /\ accepted[m] = q[j] /\ accepted[n] = q[k]
    BY <1>1 DEF InLine, Before
<1>3. Contract!Position(q[j]) = m /\ Contract!Position(q[k]) = n
    BY <1>2, PositionOf
<1> QED  BY <1>2, <1>3

\* A batch handed to a publisher is one step of the broadcast.
LEMMA PublishEmits ==
    ASSUME ToldInv, ToldInv', NEW s \in Senders, Publish(s)
    PROVE  Contract!Next \/ UNCHANGED Contract!vars
<1>0. TypeInv /\ Placed /\ Hands /\ TypeInv' /\ Told'
    BY DEF ToldInv, LifeInv, PlacedInv
<1>1. /\ spc[s] = "deliver" /\ at[s] <= NPublishers /\ UNCHANGED <<accepted, lost, dropped>>
      /\ received' = [received EXCEPT ![at[s]] = @ \o batch[s]] \/ UNCHANGED received
    BY DEF Publish
<1>2. CASE UNCHANGED received
    BY <1>1, <1>2 DEF Contract!vars
<1>3. CASE received' = [received EXCEPT ![at[s]] = @ \o batch[s]]
  <2> DEFINE k == at[s]
             n == Len(batch[s])
             f == [m \in 1..n |-> Contract!Position(batch[s][m])]
             es == [m \in 1..n |-> accepted[f[m]]]
  <2>1. /\ k \in Publishers /\ batch[s] \in Seq(Event) /\ batch[s] # <<>>
        /\ received \in [Publishers -> Seq(Event)] /\ pills[s] \in Nat /\ n + pills[s] <= BatchSize
      BY <1>0, <1>1 DEF TypeInv, TypeOK, Hands, Publishers
  <2>2. n \in 1..BatchSize /\ batch[s] \in [1..n -> Event] /\ n \in Nat
    <3>1. n \in Nat \ {0}
        BY <2>1, EmptySeq
    <3>2. batch[s] \in [1..n -> Event]
        BY <2>1, LenProperties
    <3> QED  BY <2>1, <3>1, <3>2, PipelineAssumption
  <2> HIDE DEF n, k
  <2>3. ASSUME NEW m \in 1..n
        PROVE  /\ Contract!Position(batch[s][m]) \in DOMAIN accepted
               /\ accepted[Contract!Position(batch[s][m])] = batch[s][m]
    <3>1. batch[s][m] \in Entries(accepted)
        BY <1>0, <2>2 DEF Placed, Entries
    <3>2. PICK i \in DOMAIN accepted : accepted[i] = batch[s][m]
        BY <3>1 DEF Entries
    <3>3. Contract!Position(batch[s][m]) = i
        BY <1>0, <3>2, PositionOf DEF Placed
    <3> QED  BY <3>2, <3>3
  <2>4. f \in [1..n -> DOMAIN accepted] /\ es = batch[s]
      BY <2>2, <2>3
  <2> HIDE DEF f
  <2>5. Contract!Elements(es) \cap lost = {}
    <3>1. Entries(batch[s]) \cap lost = {}
        BY <1>0 DEF Placed, FatesAreExclusive, InFlight
    <3> QED  BY <2>4, <3>1 DEF Contract!Elements, Entries
  <2>6. received' = [received EXCEPT ![k] = @ \o es]
      BY <1>3, <2>4 DEF k
  <2>7. Contract!InOrder(received[k] \o es)
    <3>1. received'[k] = received[k] \o es /\ received'[k] \in Seq(Event)
        BY <1>0, <2>1, <2>6 DEF TypeInv, TypeOK, k
    <3>2. InLine(accepted, received'[k])
        BY <1>0, <1>1, <2>1 DEF Told, k
    <3> QED  BY <1>0, <3>1, <3>2, LineIsInOrder DEF Placed
  <2>8. Contract!Emit(k)
    <3>1. \E g \in [1..n -> DOMAIN accepted] :
              LET e == [m \in 1..n |-> accepted[g[m]]]
              IN  /\ Contract!Elements(e) \cap lost = {}
                  /\ Contract!InOrder(received[k] \o e)
                  /\ received' = [received EXCEPT ![k] = @ \o e]
                  /\ UNCHANGED <<accepted, lost, dropped>>
        BY <1>1, <2>4, <2>5, <2>6, <2>7
    <3> QED  BY <2>2, <3>1 DEF Contract!Emit
  <2> QED  BY <2>1, <2>8 DEF Contract!Next, k
<1> QED  BY <1>1, <1>2, <1>3

LEMMA SubmitBroadcasts ==
    ASSUME ToldInv, NEW p \in Producers, Submit(p)
    PROVE  Contract!Next \/ UNCHANGED Contract!vars
<1>0. PlacedInv /\ TypeInv /\ Placed /\ Told
    BY DEF ToldInv, LifeInv, PlacedInv
<1>1. CASE UNCHANGED <<accepted, received, lost, dropped>>
    BY <1>1 DEF Contract!vars
<1>2. CASE Enqueue(p) /\ ppc[p] # "clear" /\ next[p] <= MaxSubmits /\ UNCHANGED <<received, lost, dropped>>
  <2>1. Ev(p) \in Event /\ Ev(p) \notin Entries(accepted) \cup lost
      BY <1>0, <1>2, InHandIsFresh
  <2>2. Contract!Accept(Ev(p))
      BY <1>2, <2>1 DEF Enqueue, Contract!Accept, Contract!Elements, Entries
  <2> QED  BY <2>1, <2>2 DEF Contract!Next
\* An event is lost, or the count grows for none.
<1>3. ASSUME NEW x \in Event, x \notin lost, \A i \in Publishers : x \notin Entries(received[i]),
             lost' = lost \cup {x}, dropped' = dropped + 1, UNCHANGED <<accepted, received>>
      PROVE  Contract!Next
  <2>1. Contract!Lose(x)
      BY <1>3 DEF Contract!Lose, Contract!Elements, Entries
  <2> QED  BY <2>1 DEF Contract!Next
<1>4. CASE UNCHANGED <<accepted, received, lost>> /\ dropped' = dropped + 1
    BY <1>4 DEF Contract!Next, Contract!CountTooMany
<1>5. CASE DropOldest(p)
  <2>1. UNCHANGED <<accepted, received>> /\ dropped' = dropped + 1
      BY <1>5 DEF DropOldest
  <2>2. CASE queue # <<>> /\ queue' = Tail(queue) /\ lost' = lost \cup ({Head(queue)} \ {STOP})
    <3> DEFINE h == Head(queue)
    <3>1. CASE h = STOP
        BY <1>4, <2>1, <2>2, <3>1
    <3>2. CASE h # STOP
      <4>1. h \in Event /\ h \in Events(queue) /\ lost' = lost \cup {h}
          BY <1>0, <2>2, <3>2, FirstLeaves
      <4>2. h \notin lost
          BY <1>0, <4>1 DEF Placed, FatesAreExclusive, InFlight, Events
      <4>3. ASSUME NEW i \in Publishers PROVE h \notin Entries(received[i])
        <5>1. AllBefore(accepted, Entries(received[i]), Events(queue))
              /\ accepted \in Seq(Event) /\ Distinct(accepted)
            BY <1>0 DEF Told, Placed, TypeInv, TypeOK
        <5> QED  BY <4>1, <5>1, BeforeAnother DEF AllBefore
      <4> HIDE DEF h
      <4> QED  BY <1>3, <2>1, <4>1, <4>2, <4>3
    <3> QED  BY <3>1, <3>2
  <2>3. CASE UNCHANGED lost
      BY <1>4, <2>1, <2>3
  <2> QED  BY <1>5, <2>2, <2>3 DEF DropOldest
<1>6. CASE PutAgain(p)
  <2>1. next[p] <= MaxSubmits /\ ppc[p] # "clear" /\ received' = received
      BY <1>0, <1>6 DEF PutAgain, TypeInv, InSubmit
  <2>2. CASE Refuse(p)
    <3>1. Ev(p) \in Event /\ Ev(p) \notin Entries(accepted) \cup lost
        BY <1>0, <2>1, InHandIsFresh
    <3>2. \A i \in Publishers : Ev(p) \notin Entries(received[i])
        BY <1>0, <3>1 DEF Told
    <3>3. lost' = lost \cup {Ev(p)} /\ dropped' = dropped + 1 /\ accepted' = accepted
        BY <2>2 DEF Refuse
    <3> QED  BY <1>3, <2>1, <3>1, <3>2, <3>3
  <2> QED  BY <1>2, <1>6, <2>1, <2>2 DEF PutAgain
<1>7. CASE PutNowait(p) \/ ClearIdle(p)
    BY <1>0, <1>1, <1>2, <1>7 DEF PutNowait, ClearIdle, TypeInv, InSubmit
<1> QED  BY <1>5, <1>6, <1>7 DEF Submit

\* The pipeline is a lossy broadcast: every publisher receives events in the
\* order in which they entered the queue, each at most once and never a lost
\* one, and no loss goes uncounted, also across restarts, as long as no
\* delivery outlasts stop()'s timeout (two senders could then overtake each
\* other).
THEOREM PipelineBroadcasts ==
    ASSUME ~JoinMayTimeOut
    PROVE  Spec => BroadcastsInOrder
<1>1. Init => Contract!Init
    BY DEF Init, Contract!Init
<1>2. ToldInv /\ [Next]_vars => ToldInv'
    BY LifeNext, ToldNext DEF ToldInv
<1>3. ToldInv /\ ToldInv' /\ [Next]_vars => [Contract!Next]_Contract!vars
  <2> SUFFICES ASSUME ToldInv, ToldInv', [Next]_vars
               PROVE  Contract!Next \/ UNCHANGED Contract!vars
      OBVIOUS
  <2>1. ASSUME UNCHANGED <<accepted, received, lost, dropped>> PROVE UNCHANGED Contract!vars
      BY <2>1 DEF Contract!vars
  <2>2. ASSUME NEW p \in Producers, Submit(p) PROVE Contract!Next \/ UNCHANGED Contract!vars
      BY <2>2, SubmitBroadcasts
  <2>3. ASSUME NEW s \in Senders, Send(s) PROVE Contract!Next \/ UNCHANGED Contract!vars
    <3>1. CASE Publish(s)
        BY <3>1, PublishEmits
    <3>2. CASE ~Publish(s)
        BY <2>1, <2>3, <3>2 DEF Send, Get, TakeMore, CheckEmpty, SetIdle, Again
    <3> QED  BY <3>1, <3>2
  <2>4. Control => UNCHANGED <<accepted, received, lost, dropped>>
      BY DEF Control, StopStep, Start, StartFails, Flush, Stop, PutStop,
         FlushReturnsTrue, FlushTimesOut, Joined, JoinTimesOut, ClosePublishers
  <2>5. UNCHANGED vars => UNCHANGED <<accepted, received, lost, dropped>>
      BY DEF vars
  <2> QED  BY <2>1, <2>2, <2>3, <2>4, <2>5 DEF Next
<1> QED  BY ToldAtFirst, <1>1, <1>2, <1>3, PTL DEF Spec, BroadcastsInOrder, Contract!Spec
=============================================================================
