----------------------------- MODULE Attachment -----------------------------
(***************************************************************************)
(* attach(engine): the blocks that watch one engine, each with a listener, *)
(* a tap on every task's progress, an allocator of numbers and a pipeline  *)
(* that delivers to the block's store, and for some to a collector by HTTP.*)
(* The engine runs its tasks in threads of its own, before, while and      *)
(* after a block is entered and left; a notification copies the callbacks  *)
(* it finds and calls them one by one, so that one of them may run after   *)
(* it was deregistered.                                                    *)
(*                                                                         *)
(* The pipeline is an unbounded queue with a sender here: what a full one  *)
(* discards, and stop() in detail, is the subject of EventPipeline.        *)
(***************************************************************************)
EXTENDS Integers, Sequences, FiniteSets

CONSTANTS Blocks,   \* the attachments to the engine
          Remote,   \* those with an HTTPTransport among their publishers
          Tasks,    \* the atoms that are tasks and accept progress listeners
          Retries,  \* HTTPTransport.retries
          MaxNotes  \* BOUND: notifications of the engine

ASSUME AttachmentAssumption ==
    /\ Remote \subseteq Blocks
    /\ Retries \in Nat /\ MaxNotes \in Nat

STOP == [number |-> 0, odd |-> FALSE]  \* _STOP

VARIABLES
    stage,      \* where each block is in attach()
    compiled,   \* the engine has been compiled
    hears,      \* <<b, t>>: task t's notifier has the callback of block b
    bound,      \* ProgressTap._bound: the tasks it believes to have bound
    listening,  \* the blocks whose MeterListener is registered with the engine
    calls,      \* callbacks that a notification has found and not called yet
    notes,      \* notifications so far
    given,      \* the last number of each block's allocator
    queue,      \* EventPipeline._queue
    sender,     \* its thread: off, wait, apply, or post
    batch,      \* what the sender has taken
    attempt,    \* HTTPTransport.publish(): the attempts that failed
    store,      \* the numbers in the block's own store
    received,   \* the numbers the collector has received from it
    returned,   \* the numbers for which publish() has returned
    failed,     \* [number, why, tries] of those for which it has raised
    owed        \* history: the numbers queued before the sentinel

blockVars == <<stage, compiled, hears, bound, listening>>
callVars == <<calls, notes>>
sendVars == <<sender, batch, attempt, store, received, returned, failed>>
vars == <<blockVars, callVars, given, queue, owed, sendVars>>

Kinds == {"plain",  \* can be built and written as JSON
          "odd",    \* carries something that JSON has no form for
          "bad"}    \* cannot be built: its progress is not a number
Stages == {"out", "tap", "inside", "untap", "unlisten", "stop", "left"}

Init ==
    /\ stage = [b \in Blocks |-> "out"] /\ compiled = FALSE
    /\ hears = {} /\ bound = [b \in Blocks |-> {}] /\ listening = {}
    /\ calls = {} /\ notes = 0
    /\ given = [b \in Blocks |-> 0]
    /\ queue = [b \in Blocks |-> <<>>] /\ owed = [b \in Blocks |-> {}]
    /\ sender = [b \in Blocks |-> "off"] /\ batch = [b \in Blocks |-> <<>>]
    /\ attempt = [b \in Blocks |-> 0]
    /\ store = [b \in Blocks |-> {}] /\ received = [b \in Blocks |-> {}]
    /\ returned = [b \in Blocks |-> {}] /\ failed = [b \in Blocks |-> {}]

Goes(b, s) == stage' = [stage EXCEPT ![b] = s]

\* EventPipeline.submit() of an event under its number.
Submit(b, number, odd) ==
    /\ queue' = [queue EXCEPT ![b] = Append(@, [number |-> number, odd |-> odd])]
    /\ owed' = IF stage[b] = "left" THEN owed ELSE [owed EXCEPT ![b] = @ \cup {number}]

-----------------------------------------------------------------------------
(* Entering a block.                                                       *)

\* pipeline.start(): neither publisher has anything to acquire.  And with
\* listener: it is registered for flow, task and retry notifications.
Enter(b) ==
    /\ stage[b] = "out"
    /\ sender' = [sender EXCEPT ![b] = "wait"]
    /\ listening' = listening \cup {b}
    /\ Goes(b, "tap")
    /\ UNCHANGED <<compiled, hears, bound, callVars, given, queue, owed, batch,
                   attempt, store, received, returned, failed>>

\* tap.register(): atoms_of() compiles the engine first, which may raise.
\* That is outside of the inner try, and nothing is bound yet.
Compile(b) ==
    /\ stage[b] = "tap" /\ ~compiled
    /\ \/ compiled' = TRUE /\ UNCHANGED stage
       \/ UNCHANGED compiled /\ Goes(b, "unlisten")
    /\ UNCHANGED <<hears, bound, listening, callVars, given, queue, owed, sendVars>>

\* One task after the other; retry controllers and the tasks whose notifier
\* does not take progress listeners are passed over.
Register(b, t) ==
    /\ stage[b] = "tap" /\ compiled /\ t \notin bound[b]
    /\ hears' = hears \cup {<<b, t>>}
    /\ bound' = [bound EXCEPT ![b] = @ \cup {t}]
    /\ UNCHANGED <<stage, compiled, listening, callVars, given, queue, owed, sendVars>>

\* All are bound; _emit_structure(): the graph, unless it is not wanted or
\* describing it fails.
EmitStructure(b) ==
    /\ stage[b] = "tap" /\ compiled /\ bound[b] = Tasks
    /\ \/ /\ given' = [given EXCEPT ![b] = @ + 1]
          /\ Submit(b, given'[b], FALSE)
       \/ UNCHANGED <<given, queue, owed>>
    /\ Goes(b, "inside")
    /\ UNCHANGED <<compiled, hears, bound, listening, callVars, sendVars>>

-----------------------------------------------------------------------------
(* Leaving it.                                                             *)

\* The body raises, past a deregister() that is not in a finally.
EndRaises(b) ==
    /\ stage[b] = "inside"
    /\ \E s \in {"untap", "unlisten"} : Goes(b, s)
    /\ UNCHANGED <<compiled, hears, bound, listening, callVars, given, queue, owed, sendVars>>

\* The body is done or raises: either way the finally clauses run.
End(b) ==
    /\ stage[b] = "inside"
    /\ Goes(b, "untap")
    /\ UNCHANGED <<compiled, hears, bound, listening, callVars, given, queue, owed, sendVars>>

\* tap.deregister(): each callback it has bound, and no other's.
Deregister(b, t) ==
    /\ stage[b] = "untap" /\ t \in bound[b]
    /\ hears' = hears \ {<<b, t>>}
    /\ bound' = [bound EXCEPT ![b] = @ \ {t}]
    /\ UNCHANGED <<stage, compiled, listening, callVars, given, queue, owed, sendVars>>

\* None is bound any more, or none ever was: the listener is next.
Unlisten(b) ==
    /\ stage[b] = "unlisten" \/ (stage[b] = "untap" /\ bound[b] = {})
    /\ listening' = listening \ {b}
    /\ Goes(b, "stop")
    /\ UNCHANGED <<compiled, hears, bound, callVars, given, queue, owed, sendVars>>

\* pipeline.stop(): the sentinel, after a flush() that answers or times out.
\* Whether join() then sees the sender return is nothing to this model.
Stop(b) ==
    /\ stage[b] = "stop"
    /\ queue' = [queue EXCEPT ![b] = Append(@, STOP)]
    /\ Goes(b, "left")
    /\ UNCHANGED <<compiled, hears, bound, listening, callVars, given, owed, sendVars>>

-----------------------------------------------------------------------------
(* The engine and its tasks.                                               *)

\* External: a task reports progress, or the engine a state.  The callbacks
\* are copied, then called.
Notify(blocks) ==
    /\ notes < MaxNotes
    /\ notes' = notes + 1
    /\ \E kind \in Kinds :
          calls' = calls \cup {[block |-> b, note |-> notes', kind |-> kind] : b \in blocks}
    /\ UNCHANGED <<blockVars, given, queue, owed, sendVars>>

Hearing(t) == {b \in Blocks : <<b, t>> \in hears}
Report(t) == Notify(Hearing(t))
Change == Notify(listening)

\* on_progress(), _safely(): the number is allocated while the event is
\* built; one that cannot be built is logged, and its number is gone.
Call(c) ==
    /\ c \in calls
    /\ calls' = calls \ {c}
    /\ given' = [given EXCEPT ![c.block] = @ + 1]
    /\ IF c.kind = "bad" THEN UNCHANGED <<queue, owed>>
                         ELSE Submit(c.block, given'[c.block], c.kind = "odd")
    /\ UNCHANGED <<blockVars, notes, sendVars>>

-----------------------------------------------------------------------------
(* The sender, and HTTPTransport.publish() on it.                          *)

Numbers(s) == {s[i].number : i \in DOMAIN s}
InBatch(b) == Numbers(batch[b])

\* What is queued, up to the sentinel.
Take(b) ==
    /\ sender[b] = "wait" /\ queue[b] # <<>>
    /\ \/ /\ Head(queue[b]) = STOP
          /\ queue' = [queue EXCEPT ![b] = Tail(@)]
          /\ sender' = [sender EXCEPT ![b] = "off"]
          /\ UNCHANGED batch
       \/ \E n \in 1..Len(queue[b]) :
            /\ \A i \in 1..n : queue[b][i] # STOP
            /\ n < Len(queue[b]) => queue[b][n + 1] = STOP
            /\ batch' = [batch EXCEPT ![b] = SubSeq(queue[b], 1, n)]
            /\ queue' = [queue EXCEPT ![b] = SubSeq(@, n + 1, Len(@))]
            /\ sender' = [sender EXCEPT ![b] = "apply"]
    /\ UNCHANGED <<blockVars, callVars, given, owed, attempt, store, received, returned, failed>>

\* A batch is dealt with, and the sender goes on.
Done(b) ==
    /\ sender' = [sender EXCEPT ![b] = "wait"]
    /\ batch' = [batch EXCEPT ![b] = <<>>]
    /\ attempt' = [attempt EXCEPT ![b] = 0]

\* DataSourcePublisher, the first of the sinks.
ApplyMany(b) ==
    /\ sender[b] = "apply"
    /\ store' = [store EXCEPT ![b] = @ \cup InBatch(b)]
    /\ IF b \in Remote
       THEN sender' = [sender EXCEPT ![b] = "post"] /\ UNCHANGED <<batch, attempt>>
       ELSE Done(b)
    /\ UNCHANGED <<blockVars, callVars, given, queue, owed, received, returned, failed>>

\* publish() returns, or raises; _deliver() goes on to the next batch.
Returns(b) ==
    /\ returned' = [returned EXCEPT ![b] = @ \cup InBatch(b)]
    /\ Done(b) /\ UNCHANGED failed

\* A sender that an exception of its publisher ends.
RaisesThrough(b, why, tries) ==
    /\ failed' = [failed EXCEPT ![b] =
                    @ \cup {[number |-> n, why |-> why, tries |-> tries] : n \in InBatch(b)}]
    /\ sender' = [sender EXCEPT ![b] = "off"]
    /\ UNCHANGED <<batch, attempt, returned>>

Raises(b, why, tries) ==
    /\ failed' = [failed EXCEPT ![b] =
                    @ \cup {[number |-> n, why |-> why, tries |-> tries] : n \in InBatch(b)}]
    /\ Done(b) /\ UNCHANGED returned

\* A loop that does not make the last of its attempts.
TryLess(b) ==
    IF attempt[b] + 1 < Retries
    THEN attempt' = [attempt EXCEPT ![b] = @ + 1] /\ UNCHANGED <<sender, batch, returned, failed>>
    ELSE Raises(b, "tried", attempt[b] + 1)

\* What failed may succeed the next time: sleep and try, or give up.
TryAgain(b) ==
    IF attempt[b] < Retries
    THEN attempt' = [attempt EXCEPT ![b] = @ + 1] /\ UNCHANGED <<sender, batch, returned, failed>>
    ELSE Raises(b, "tried", attempt[b] + 1)

Arrives(b) == received' = [received EXCEPT ![b] = @ \cup InBatch(b)]

\* One event that JSON has no form for fails its batch before any attempt.
Unwritable(b) ==
    /\ \E i \in DOMAIN batch[b] : batch[b][i].odd
    /\ Raises(b, "odd", 0) /\ UNCHANGED received

\* 2xx.
Accepted(b) == Arrives(b) /\ Returns(b)

\* A status in RETRYABLE_STATUSES, or an OSError: no connection, or no answer
\* within the timeout.  The collector may have the batch all the same.
Retryable(b) ==
    /\ Arrives(b) \/ UNCHANGED received
    /\ TryAgain(b)

\* Any other: the request will be just as wrong the second time.
Rejected(b) == Raises(b, "rejected", attempt[b] + 1) /\ UNCHANGED received

Post(b) ==
    /\ sender[b] = "post"
    /\ IF \E i \in DOMAIN batch[b] : batch[b][i].odd
       THEN Unwritable(b)
       ELSE Accepted(b) \/ Retryable(b) \/ Rejected(b)
    /\ UNCHANGED <<blockVars, callVars, given, queue, owed, store>>

-----------------------------------------------------------------------------
With(b) == \/ Enter(b) \/ Compile(b) \/ EmitStructure(b)
           \/ End(b) \/ Unlisten(b) \/ Stop(b)
           \/ \E t \in Tasks : Register(b, t) \/ Deregister(b, t)
Deliver(b) == Take(b) \/ ApplyMany(b) \/ Post(b)
Engine == \/ \E t \in Tasks : Report(t)
          \/ Change
          \/ \E c \in calls : Call(c)
Next == Engine \/ \E b \in Blocks : With(b) \/ Deliver(b)

Spec == Init /\ [][Next]_vars

\* The sender runs, and urlopen() has a timeout.  No block need be left.
FairSpec == Spec /\ \A b \in Blocks : WF_vars(Deliver(b))

-----------------------------------------------------------------------------
(* Properties.                                                             *)

\* Every variable has its type.
TypeOK ==
    /\ stage \in [Blocks -> Stages] /\ compiled \in BOOLEAN
    /\ hears \subseteq Blocks \X Tasks /\ bound \in [Blocks -> SUBSET Tasks]
    /\ listening \subseteq Blocks
    /\ calls \subseteq [block : Blocks, note : Nat, kind : Kinds] /\ notes \in Nat
    /\ sender \in [Blocks -> {"off", "wait", "apply", "post"}]

\* "Everything is torn down on the way out, including when the flow raises"
\* (attach()): however the blocks around one engine overlap, and however each
\* is left, inside a block every task's notifier has its callback, and after
\* it none has; the same of its listener; and leaving one takes nothing from
\* another.
WatchesWhileInside ==
    \A b \in Blocks :
        /\ stage[b] = "inside" =>
              b \in listening /\ \A t \in Tasks : <<b, t>> \in hears
        /\ stage[b] \in {"out", "unlisten", "stop", "left"} =>
              \A t \in Tasks : <<b, t>> \notin hears
        /\ stage[b] \in {"out", "stop", "left"} => b \notin listening

\* publish() means what it says: it returns only when the collector has the
\* batch, and raises only for a batch that no attempt can help or when all
\* of its attempts have failed, though one of them may have reached the collector.
PublishIsHonest ==
    \A b \in Blocks :
        /\ returned[b] \subseteq received[b]
        /\ \A f \in failed[b] : f.why \in {"odd", "rejected"} \/ f.tries = Retries + 1

\* Every event of a block, from a callback that outlives its registration
\* too, reaches the block's store, and is published or counted as failed,
\* whatever became of the batches before it; unless it comes after the
\* sentinel.
EmittedIsSettled ==
    \A b \in Blocks : \A n \in 1..(MaxNotes + 1) :
        n \in owed[b] ~>
            /\ n \in store[b]
            /\ b \in Remote => n \in returned[b] \/ \E f \in failed[b] : f.number = n
=============================================================================
