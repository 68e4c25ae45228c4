----------------------------- MODULE EventStream -----------------------------
(***************************************************************************)
(* One run's events from the threads that number them to the clients that  *)
(* stream them, in one process: SequenceAllocator, the listener and the    *)
(* progress tap, the pipeline, MemoryDataSource and EventCursor.           *)
(*                                                                         *)
(* The pipeline is its contract: LossyBroadcast with one publisher, the    *)
(* DataSourcePublisher, and sequence numbers for events.  A client is an   *)
(* EventSource: it remembers the last id it received, and reconnects with  *)
(* it until it is sent the end frame.                                      *)
(***************************************************************************)
EXTENDS EventWindow, SortedNumbers

CONSTANTS Threads,    \* threads of the flow: they number events and hand them on
          Clients,    \* clients of the stream
          MaxSeq,     \* BOUND: events numbered in the run
          MaxEvents,  \* max_events_per_run
          Limit,      \* a cursor's batch_limit
          MaxBreaks,  \* BOUND: connections each client loses
          CanLose     \* may an event that was numbered fail to reach the store?

ASSUME StreamAssumption ==
    /\ MaxSeq \in Nat /\ MaxBreaks \in Nat
    /\ MaxEvents \in Nat \ {0} /\ Limit \in Nat \ {0}
    /\ CanLose \in BOOLEAN

VARIABLES
    counter,    \* SequenceAllocator: the last number handed out
    hand,       \* the number each thread has allocated and not handed on, or 0
    final,      \* the number of the event that finishes the flow, or 0
    accepted, received, lost, dropped,  \* the pipeline, see LossyBroadcast
    window,     \* _Run.events, in order of arrival
    finished,   \* _Run.flow.is_finished
    cpc,        \* each client's connection: what its cursor does next
    since,      \* the cursor's since_seq
    frames,     \* what the client has received: event ids, and Gap frames
    breaks      \* connections each client has lost

prodVars == <<counter, hand, final>>
pipeVars == <<accepted, received, lost, dropped>>
storeVars == <<window, finished>>
clientVars == <<cpc, since, frames, breaks>>
vars == <<prodVars, pipeVars, storeVars, clientVars>>

Gap == 0  \* the frame that announces a hole; events are numbered from 1

Pipe == INSTANCE LossyBroadcast
            WITH Event <- 1..MaxSeq, Publishers <- {1}, BatchSize <- 1

Init ==
    /\ counter = 0 /\ hand = [t \in Threads |-> 0] /\ final = 0
    /\ Pipe!Init
    /\ window = <<>> /\ finished = FALSE
    /\ cpc = [c \in Clients |-> "away"]
    /\ since = [c \in Clients |-> 0]
    /\ frames = [c \in Clients |-> <<>>]
    /\ breaks = [c \in Clients |-> 0]

-----------------------------------------------------------------------------
(* The flow's threads.  Numbering an event and handing it on are two steps:*)
(* under the parallel engine two threads can invert.                       *)

Number(t) ==
    /\ final = 0 /\ counter < MaxSeq
    /\ counter' = counter + 1
    /\ hand' = [hand EXCEPT ![t] = counter + 1]
    /\ UNCHANGED <<pipeVars, storeVars, clientVars>>

Allocate(t) ==
    /\ hand[t] = 0
    /\ Number(t)
    /\ UNCHANGED final

\* The engine reports the flow's final state when its tasks have returned:
\* no other event is in hand by then, and none is numbered later.
Finish(t) ==
    /\ \A u \in Threads : hand[u] = 0
    /\ Number(t)
    /\ final' = counter + 1

\* submit(): the event enters the pipeline.
HandOn(t) ==
    /\ hand[t] # 0
    /\ Pipe!Accept(hand[t])
    /\ hand' = [hand EXCEPT ![t] = 0]
    /\ UNCHANGED <<counter, final, storeVars, clientVars>>

\* Building an event fails after it was numbered, say because a task's
\* progress is not a number; the number is never used again.
Abandon(t) ==
    /\ CanLose /\ hand[t] # 0
    /\ hand' = [hand EXCEPT ![t] = 0]
    /\ UNCHANGED <<counter, final, pipeVars, storeVars, clientVars>>

-----------------------------------------------------------------------------
(* The pipeline and the store.                                             *)

Lose ==
    /\ CanLose
    /\ \E e \in Stored(accepted) : Pipe!Lose(e)
    /\ UNCHANGED <<prodVars, storeVars, clientVars>>

\* MemoryDataSource.apply() under its lock: fold the event into the
\* snapshot, and record it.
Apply ==
    /\ Pipe!Emit(1)
    /\ CanLose \/ received'[1] = SubSeq(accepted, 1, Len(received'[1]))
    /\ LET e == received'[1][Len(received'[1])]
       IN  /\ window' = Record(window, e, MaxEvents)
           /\ finished' = (finished \/ e = final)
    /\ UNCHANGED <<prodVars, clientVars>>

-----------------------------------------------------------------------------
(* The clients.                                                            *)

\* The last id among the frames a client received, 0 if there is none.
LastId(fs) ==
    LET ids == {i \in DOMAIN fs : fs[i] # Gap}
    IN  IF ids = {} THEN 0 ELSE fs[Max(ids)]

\* stream(): a cursor for a run the store knows, resuming after the
\* client's Last-Event-ID.
Connect(c) ==
    /\ cpc[c] = "away" /\ window # <<>>
    /\ since' = [since EXCEPT ![c] = LastId(frames[c])]
    /\ cpc' = [cpc EXCEPT ![c] = "read"]
    /\ UNCHANGED <<prodVars, pipeVars, storeVars, frames, breaks>>

\* EventCursor.poll(): the frames of one page, oldest event first.
NewFrames(c) ==
    LET S    == Stored(window)
        page == Page(S, since[c], Limit)
    IN  (IF Truncated(S, since[c]) THEN <<Gap>> ELSE <<>>)
            \o Ascending(page)

\* poll(): read a page and send it.
ReadEvents(c) ==
    /\ cpc[c] = "read"
    /\ frames' = [frames EXCEPT ![c] = @ \o NewFrames(c)]
    /\ since' = [since EXCEPT ![c] = NextSeq(Stored(window), @, Limit)]
    /\ cpc' = [cpc EXCEPT ![c] = IF NewFrames(c) = <<>> THEN "check" ELSE "read"]
    /\ UNCHANGED <<prodVars, pipeVars, storeVars, breaks>>

\* A cursor that ends only once it has sent the newest event.
CheckDrained(c) ==
    /\ cpc[c] = "check"
    /\ cpc' = [cpc EXCEPT ![c] =
                  IF finished /\ since[c] = Max(Stored(window)) THEN "done" ELSE "read"]
    /\ UNCHANGED <<prodVars, pipeVars, storeVars, since, frames, breaks>>

\* poll(): only after an empty page, and in a read of its own, ask whether
\* the flow has finished; if so send the end frame, and the client closes.
CheckFinished(c) ==
    /\ cpc[c] = "check"
    /\ cpc' = [cpc EXCEPT ![c] = IF finished THEN "done" ELSE "read"]
    /\ UNCHANGED <<prodVars, pipeVars, storeVars, since, frames, breaks>>

Poll(c) == ReadEvents(c) \/ CheckFinished(c)

\* The connection breaks: between two polls, or while a page is being sent.
Break(c) ==
    /\ cpc[c] \in {"read", "check"} /\ breaks[c] < MaxBreaks
    /\ \/ UNCHANGED frames
       \/ /\ cpc[c] = "read"
          /\ \E k \in DOMAIN NewFrames(c) :
                frames' = [frames EXCEPT ![c] = @ \o SubSeq(NewFrames(c), 1, k)]
    /\ cpc' = [cpc EXCEPT ![c] = "away"]
    /\ breaks' = [breaks EXCEPT ![c] = @ + 1]
    /\ UNCHANGED <<prodVars, pipeVars, storeVars, since>>

-----------------------------------------------------------------------------
Next == \/ \E t \in Threads : Allocate(t) \/ Finish(t) \/ HandOn(t) \/ Abandon(t)
        \/ Lose \/ Apply
        \/ \E c \in Clients : Connect(c) \/ Poll(c) \/ Break(c)

Spec == Init /\ [][Next]_vars

\* An event that was numbered is handed on, the pipeline's sender delivers
\* what it accepted, and an open stream keeps polling.  No flow has to
\* finish, and no client has to connect.
FairSpec == /\ Spec
            /\ \A t \in Threads : WF_vars(HandOn(t))
            /\ WF_vars(Apply)
            /\ \A c \in Clients : WF_vars(Poll(c))

-----------------------------------------------------------------------------
(* Properties.                                                             *)

\* Every variable has its type; the window never outgrows max_events.
TypeOK ==
    /\ counter \in 0..MaxSeq /\ hand \in [Threads -> 0..MaxSeq] /\ final \in 0..MaxSeq
    /\ accepted \in Seq(1..MaxSeq) /\ received \in [{1} -> Seq(1..MaxSeq)]
    /\ lost \subseteq 1..MaxSeq /\ dropped \in Nat
    /\ window \in Seq(1..MaxSeq) /\ Len(window) <= MaxEvents
    /\ finished \in BOOLEAN
    /\ cpc \in [Clients -> {"away", "read", "check", "done"}]
    /\ since \in [Clients -> 0..MaxSeq]
    /\ frames \in [Clients -> Seq(0..MaxSeq)]
    /\ breaks \in [Clients -> 0..MaxBreaks]

\* However events are reordered, lost and evicted on the way, and however
\* often its connection breaks, a client never stitches a hole into a
\* history it believes is continuous: each event it receives is the next
\* one, or comes right after a gap frame, and none comes twice.
FramesAreContiguous ==
    \A c \in Clients : \A i \in DOMAIN frames[c] :
        LET id   == frames[c][i]
            last == LastId(SubSeq(frames[c], 1, i - 1))
        IN  id # Gap =>
              \/ id = last + 1
              \/ id > last /\ i > 1 /\ frames[c][i - 1] = Gap

\* The set the specification uses is the list the code returns, in order,
\* whatever order the events of the window arrived in, wherever the reader
\* is and however long its pages are (events_since(), contiguous_from()).
PageIsTheLoop ==
    \A sorted \in Sortings(window), from \in 0..MaxSeq, n \in 1..(MaxSeq + 1) :
        LoopPage(sorted, from, n) = Ascending(Page(Stored(window), from, n))

\* What is beyond a gap "is held back until the gap fills" (events_since):
\* an event in the store reaches every client that stays connected.
EveryEventIsShown ==
    \A c \in Clients : \A e \in 1..MaxSeq :
        (e \in Stored(window) /\ cpc[c] = "read")
            ~> (LastId(frames[c]) >= e \/ cpc[c] \in {"away", "done"})

\* The same, except behind a number that is missing from the middle of the
\* window for good: one that is neither stored nor on its way to the store.
OnItsWay ==
    {hand[t] : t \in Threads} \cup
    ({accepted[i] : i \in {j \in DOMAIN accepted :
        \A k \in DOMAIN accepted : accepted[k] \in Stored(received[1]) => k < j}} \ lost)
HoleInside ==
    \E n \in 1..counter : n \notin Stored(window) \cup OnItsWay /\ \E e \in Stored(window) : e < n
OnlyAHoleHoldsBack ==
    \A c \in Clients : \A e \in 1..MaxSeq :
        (e \in Stored(window) /\ cpc[c] = "read")
            ~> (LastId(frames[c]) >= e \/ cpc[c] \in {"away", "done"} \/ HoleInside)

\* iter_frames() ends once the flow has finished: the end frame is sent
\* also when a hole in the history keeps its last events from being sent.
StreamEnds ==
    \A c \in Clients :
        (finished /\ cpc[c] = "read") ~> cpc[c] \in {"away", "done"}
=============================================================================
