-------------------------- MODULE AttachmentProofs --------------------------
(***************************************************************************)
(* That a block tears down what it has set up, that publish() says what    *)
(* happened, and that no event queued before the sentinel is lost, for any *)
(* number of blocks, tasks and retries.                                    *)
(*                                                                         *)
(* WatchesWhileInside is not inductive: it says nothing of a block on its  *)
(* way in or out.  BlocksOK adds what ties the three records of one block  *)
(* together: its place in attach(), what its tap believes to have bound,   *)
(* and what the notifiers hold.  KeptOK does the same for the pipeline:    *)
(* what is queued, what the sender holds, and what has been settled.       *)
(***************************************************************************)
EXTENDS Attachment, TLAPS

Apart(b) == stage[b] \in {"out", "unlisten", "stop", "left"}

BlockOK(b) ==
    /\ \A t \in Tasks : <<b, t>> \in hears <=> t \in bound[b]
    /\ Apart(b) => bound[b] = {}
    /\ stage[b] = "tap" /\ ~compiled => bound[b] = {}
    /\ stage[b] = "inside" => bound[b] = Tasks
    /\ stage[b] \in {"tap", "inside"} => b \in listening
    /\ stage[b] \in {"out", "stop", "left"} => b \notin listening

BlocksOK ==
    /\ stage \in [Blocks -> Stages] /\ bound \in [Blocks -> SUBSET Tasks]
    /\ \A b \in Blocks : BlockOK(b)

-----------------------------------------------------------------------------
(* A block's own step leaves every other block as it was. *)
Elsewhere(b) ==
    \A c \in Blocks \ {b} :
        /\ stage'[c] = stage[c] /\ bound'[c] = bound[c]
        /\ c \in listening' <=> c \in listening
        /\ \A t \in Tasks : <<c, t>> \in hears' <=> <<c, t>> \in hears

LEMMA OthersKeepTheirs ==
    ASSUME BlocksOK, NEW b \in Blocks, Elsewhere(b), compiled => compiled',
           stage' \in [Blocks -> Stages], bound' \in [Blocks -> SUBSET Tasks],
           BlockOK(b)'
    PROVE  BlocksOK'
<1> SUFFICES ASSUME NEW c \in Blocks, c # b
             PROVE  BlockOK(c)'
    BY DEF BlocksOK
<1>1. BlockOK(c)
    BY DEF BlocksOK
<1>2. /\ stage'[c] = stage[c] /\ bound'[c] = bound[c]
      /\ c \in listening' <=> c \in listening
      /\ \A t \in Tasks : <<c, t>> \in hears' <=> <<c, t>> \in hears
    BY DEF Elsewhere
<1> QED  BY <1>1, <1>2 DEF BlockOK, Apart

\* What leaves the places of the blocks alone leaves the invariant alone.
LEMMA NoBlockMoves == BlocksOK /\ UNCHANGED blockVars => BlocksOK'
    BY DEF BlocksOK, BlockOK, Apart, blockVars

-----------------------------------------------------------------------------
LEMMA BlocksAtFirst == Init => BlocksOK
    BY DEF Init, BlocksOK, BlockOK, Apart, Stages

\* One step per action of a block.
LEMMA BlockSteps ==
    ASSUME BlocksOK, NEW b \in Blocks, With(b)
    PROVE  BlocksOK'
<1> USE DEF Goes, Elsewhere, BlockOK, Apart, Stages
<1>0. BlockOK(b) /\ stage \in [Blocks -> Stages] /\ bound \in [Blocks -> SUBSET Tasks]
    BY DEF BlocksOK
<1>1. CASE Enter(b)
    <2>1. Elsewhere(b)  BY <1>0, <1>1 DEF Enter
    <2>2. BlockOK(b)'   BY <1>0, <1>1 DEF Enter
    <2> QED  BY <1>0, <1>1, <2>1, <2>2, OthersKeepTheirs DEF Enter
<1>2. CASE Compile(b)
    <2>1. Elsewhere(b)  BY <1>0, <1>2 DEF Compile
    <2>2. BlockOK(b)'   BY <1>0, <1>2 DEF Compile
    <2> QED  BY <1>0, <1>2, <2>1, <2>2, OthersKeepTheirs DEF Compile
<1>3. CASE EmitStructure(b)
    <2>1. Elsewhere(b)  BY <1>0, <1>3 DEF EmitStructure
    <2>2. BlockOK(b)'   BY <1>0, <1>3 DEF EmitStructure
    <2> QED  BY <1>0, <1>3, <2>1, <2>2, OthersKeepTheirs DEF EmitStructure
<1>4. CASE End(b)
    <2>1. Elsewhere(b)  BY <1>0, <1>4 DEF End
    <2>2. BlockOK(b)'   BY <1>0, <1>4 DEF End
    <2> QED  BY <1>0, <1>4, <2>1, <2>2, OthersKeepTheirs DEF End
<1>5. CASE Unlisten(b)
    <2>1. Elsewhere(b)  BY <1>0, <1>5 DEF Unlisten
    <2>2. BlockOK(b)'   BY <1>0, <1>5 DEF Unlisten
    <2> QED  BY <1>0, <1>5, <2>1, <2>2, OthersKeepTheirs DEF Unlisten
<1>6. CASE Stop(b)
    <2>1. Elsewhere(b)  BY <1>0, <1>6 DEF Stop
    <2>2. BlockOK(b)'   BY <1>0, <1>6 DEF Stop
    <2> QED  BY <1>0, <1>6, <2>1, <2>2, OthersKeepTheirs DEF Stop
<1>7. CASE \E t \in Tasks : Register(b, t)
    <2> PICK t \in Tasks : Register(b, t)  BY <1>7
    <2>1. Elsewhere(b)  BY <1>0 DEF Register
    <2>2. BlockOK(b)'   BY <1>0 DEF Register
    <2>3. bound' \in [Blocks -> SUBSET Tasks]  BY <1>0 DEF Register
    <2> QED  BY <1>0, <2>1, <2>2, <2>3, OthersKeepTheirs DEF Register
<1>8. CASE \E t \in Tasks : Deregister(b, t)
    <2> PICK t \in Tasks : Deregister(b, t)  BY <1>8
    <2>1. Elsewhere(b)  BY <1>0 DEF Deregister
    <2>2. BlockOK(b)'   BY <1>0 DEF Deregister
    <2>3. bound' \in [Blocks -> SUBSET Tasks]  BY <1>0 DEF Deregister
    <2> QED  BY <1>0, <2>1, <2>2, <2>3, OthersKeepTheirs DEF Deregister
<1> QED  BY <1>1, <1>2, <1>3, <1>4, <1>5, <1>6, <1>7, <1>8 DEF With

LEMMA BlocksKept == BlocksOK /\ [Next]_vars => BlocksOK'
<1> SUFFICES ASSUME BlocksOK, [Next]_vars PROVE BlocksOK'
    OBVIOUS
<1>1. CASE Engine
    BY <1>1, NoBlockMoves DEF Engine, Report, Change, Notify, Call
<1>2. CASE \E b \in Blocks : With(b)
    BY <1>2, BlockSteps
<1>3. CASE \E b \in Blocks : Deliver(b)
    BY <1>3, NoBlockMoves DEF Deliver, Take, ApplyMany, Post
<1>4. CASE UNCHANGED vars
    BY <1>4, NoBlockMoves DEF vars, blockVars
<1> QED  BY <1>1, <1>2, <1>3, <1>4 DEF Next

LEMMA BlocksOKSuffices == BlocksOK => WatchesWhileInside
<1> SUFFICES ASSUME BlocksOK, NEW b \in Blocks
             PROVE  /\ stage[b] = "inside" =>
                          b \in listening /\ \A t \in Tasks : <<b, t>> \in hears
                    /\ stage[b] \in {"out", "unlisten", "stop", "left"} =>
                          \A t \in Tasks : <<b, t>> \notin hears
                    /\ stage[b] \in {"out", "stop", "left"} => b \notin listening
    BY DEF WatchesWhileInside
<1> QED  BY DEF BlocksOK, BlockOK, Apart

-----------------------------------------------------------------------------
\* attach() tears down what it has set up (WatchesWhileInside), for every set
\* of blocks around the engine, every set of tasks, however the blocks
\* overlap, and whatever the engine, the senders and the collector do.
THEOREM TornDownOnTheWayOut == Spec => []WatchesWhileInside
<1>1. Spec => []BlocksOK
    BY BlocksAtFirst, BlocksKept, PTL DEF Spec
<1> QED  BY <1>1, BlocksOKSuffices, PTL

-----------------------------------------------------------------------------
(* PublishIsHonest.  The count of attempts is what makes it inductive: a   *)
(* batch is given up at the last of them, so the count cannot pass it.     *)

HonestOK ==
    /\ attempt \in [Blocks -> 0..Retries]
    /\ DOMAIN received = Blocks /\ DOMAIN returned = Blocks /\ DOMAIN failed = Blocks
    /\ PublishIsHonest

LEMMA HonestAtFirst == Init => HonestOK
    BY AttachmentAssumption DEF Init, HonestOK, PublishIsHonest

\* What is neither sent nor given up leaves the record alone.
LEMMA NothingPublished ==
    HonestOK /\ UNCHANGED <<attempt, received, returned, failed>> => HonestOK'
    BY DEF HonestOK, PublishIsHonest

\* The four ways a request ends, and the end of a batch without one.
LEMMA PublishingIsHonest ==
    ASSUME HonestOK, NEW b \in Blocks, Post(b) \/ ApplyMany(b)
    PROVE  HonestOK'
<1> USE AttachmentAssumption DEF HonestOK, PublishIsHonest
<1>1. CASE ApplyMany(b)
    BY <1>1 DEF ApplyMany, Done
<1>2. CASE Post(b) /\ Unwritable(b)
    BY <1>2 DEF Unwritable, Raises, Done
<1>3. CASE Post(b) /\ Accepted(b)
    BY <1>3 DEF Accepted, Arrives, Returns, Done
<1>4. CASE Post(b) /\ Rejected(b)
    BY <1>4 DEF Rejected, Raises, Done
<1>5. CASE Post(b) /\ Retryable(b)
    <2>1. /\ DOMAIN received' = Blocks
          /\ \A c \in Blocks : received[c] \subseteq received'[c]
        BY <1>5 DEF Retryable, Arrives
    <2>2. CASE attempt[b] < Retries
        <3>1. /\ attempt' = [attempt EXCEPT ![b] = @ + 1]
              /\ UNCHANGED <<returned, failed>>
            BY <1>5, <2>2 DEF Retryable, TryAgain
        <3> QED  BY <2>1, <2>2, <3>1
    <2>3. CASE ~(attempt[b] < Retries)
        <3>1. Raises(b, "tried", attempt[b] + 1)
            BY <1>5, <2>3 DEF Retryable, TryAgain
        <3>2. attempt[b] + 1 = Retries + 1
            BY <2>3
        <3> QED  BY <2>1, <3>1, <3>2 DEF Raises, Done
    <2> QED  BY <2>2, <2>3
<1> QED  BY <1>1, <1>2, <1>3, <1>4, <1>5 DEF Post

LEMMA HonestKept == HonestOK /\ [Next]_vars => HonestOK'
<1> SUFFICES ASSUME HonestOK, [Next]_vars PROVE HonestOK'
    OBVIOUS
<1>1. CASE Engine
    BY <1>1, NothingPublished DEF Engine, Report, Change, Notify, Call, sendVars
<1>2. CASE \E b \in Blocks : With(b)
    BY <1>2, NothingPublished DEF With, Enter, Compile, EmitStructure, End, Unlisten, Stop,
                                  Register, Deregister, sendVars
<1>3. CASE \E b \in Blocks : Deliver(b)
    <2> PICK b \in Blocks : Deliver(b)  BY <1>3
    <2>1. CASE Take(b)
        BY <2>1, NothingPublished DEF Take
    <2>2. CASE ApplyMany(b) \/ Post(b)
        BY <2>2, PublishingIsHonest
    <2> QED  BY <2>1, <2>2 DEF Deliver
<1>4. CASE UNCHANGED vars
    BY <1>4, NothingPublished DEF vars, sendVars
<1> QED  BY <1>1, <1>2, <1>3, <1>4 DEF Next

\* HTTPTransport.publish() returns only for a batch that the collector has,
\* and raises only when trying again is pointless or has been done Retries
\* times, for any number of retries and any answers.
THEOREM PublishSaysWhatHappened == Spec => []PublishIsHonest
<1>1. Spec => []HonestOK
    BY HonestAtFirst, HonestKept, PTL DEF Spec
<1>2. HonestOK => PublishIsHonest
    BY DEF HonestOK
<1> QED  BY <1>1, <1>2, PTL

-----------------------------------------------------------------------------
LEMMA TypeAtFirst == Init => TypeOK
<1> SUFFICES ASSUME Init PROVE TypeOK
    OBVIOUS
<1>1. stage \in [Blocks -> Stages] /\ compiled \in BOOLEAN
    BY DEF Init, Stages
<1>2. hears = {} /\ listening = {} /\ calls = {} /\ notes = 0
    BY DEF Init
<1>3. bound \in [Blocks -> SUBSET Tasks]
    BY DEF Init
<1>4. sender \in [Blocks -> {"off", "wait", "apply", "post"}]
    BY DEF Init
<1> QED  BY <1>1, <1>2, <1>3, <1>4 DEF TypeOK

\* Callbacks that a notification finds are those of blocks.
LEMMA TypeKeptByNotify ==
    ASSUME TypeOK, NEW blocks \in SUBSET Blocks, Notify(blocks)
    PROVE  TypeOK'
<1>1. PICK kind \in Kinds :
        calls' = calls \cup {[block |-> b, note |-> notes', kind |-> kind] : b \in blocks}
    BY DEF Notify
<1>2. notes' \in Nat
    BY DEF Notify, TypeOK
<1>3. calls' \subseteq [block : Blocks, note : Nat, kind : Kinds]
    BY <1>1, <1>2 DEF TypeOK
<1> QED  BY <1>2, <1>3 DEF Notify, TypeOK, blockVars, sendVars

LEMMA TypeKept == TypeOK /\ [Next]_vars => TypeOK'
<1> SUFFICES ASSUME TypeOK, [Next]_vars PROVE TypeOK'
    OBVIOUS
<1>1. CASE Engine
  <2>1. CASE \E t \in Tasks : Report(t)
    <3>1. \A t \in Tasks : Hearing(t) \in SUBSET Blocks
        BY DEF Hearing
    <3> QED  BY <2>1, <3>1, TypeKeptByNotify DEF Report
  <2>2. CASE Change
    <3>1. listening \in SUBSET Blocks
        BY DEF TypeOK
    <3> QED  BY <2>2, <3>1, TypeKeptByNotify DEF Change
  <2>3. CASE \E c \in calls : Call(c)
      BY <2>3 DEF Call, TypeOK, blockVars, sendVars
  <2> QED  BY <1>1, <2>1, <2>2, <2>3 DEF Engine
<1>2. CASE \E b \in Blocks : With(b)
  <2> PICK b \in Blocks : With(b)
      BY <1>2
  <2> USE DEF TypeOK, Goes, Stages, callVars, sendVars
  <2>1. CASE Enter(b)
      BY <2>1 DEF Enter
  <2>2. CASE Compile(b)
      BY <2>2 DEF Compile
  <2>3. CASE EmitStructure(b)
      BY <2>3 DEF EmitStructure
  <2>4. CASE End(b)
      BY <2>4 DEF End
  <2>5. CASE Unlisten(b)
      BY <2>5 DEF Unlisten
  <2>6. CASE Stop(b)
      BY <2>6 DEF Stop
  <2>7. CASE \E t \in Tasks : Register(b, t)
    <3> PICK t \in Tasks : Register(b, t)
        BY <2>7
    <3>1. hears' \subseteq Blocks \X Tasks /\ bound' \in [Blocks -> SUBSET Tasks]
        BY DEF Register
    <3> QED  BY <3>1 DEF Register
  <2>8. CASE \E t \in Tasks : Deregister(b, t)
    <3> PICK t \in Tasks : Deregister(b, t)
        BY <2>8
    <3>1. hears' \subseteq Blocks \X Tasks /\ bound' \in [Blocks -> SUBSET Tasks]
        BY DEF Deregister
    <3> QED  BY <3>1 DEF Deregister
  <2> QED  BY <2>1, <2>2, <2>3, <2>4, <2>5, <2>6, <2>7, <2>8 DEF With
<1>3. CASE \E b \in Blocks : Deliver(b)
  <2> PICK b \in Blocks : Deliver(b)
      BY <1>3
  <2>1. UNCHANGED <<blockVars, callVars>>
      BY DEF Deliver, Take, ApplyMany, Post
  <2>2. sender' \in [Blocks -> {"off", "wait", "apply", "post"}]
    <3> USE DEF TypeOK
    <3>1. CASE Take(b)
        BY <3>1 DEF Take
    <3>2. CASE ApplyMany(b)
        BY <3>2 DEF ApplyMany, Done
    <3>3. CASE Post(b)
        BY <3>3 DEF Post, Unwritable, Accepted, Returns, Retryable, TryAgain, Rejected, Raises, Done
    <3> QED  BY <3>1, <3>2, <3>3 DEF Deliver
  <2> QED  BY <2>1, <2>2 DEF TypeOK, blockVars, callVars
<1>4. CASE UNCHANGED vars
    BY <1>4 DEF TypeOK, vars, blockVars, callVars, sendVars
<1> QED  BY <1>1, <1>2, <1>3, <1>4 DEF Next

\* Every variable of the blocks and the engine keeps its type, for any blocks,
\* tasks and notifications.
THEOREM TypeCorrect == Spec => []TypeOK
<1> QED  BY TypeAtFirst, TypeKept, PTL DEF Spec

-----------------------------------------------------------------------------
(* What becomes of an event.  EmittedIsSettled says that it is settled in  *)
(* the end, which takes fairness; that it is never lost on the way does    *)
(* not.  What is owed is in the queue ahead of the sentinel, or with the   *)
(* sender, or settled.                                                     *)

Entry == [number : Nat, odd : BOOLEAN]

NoStop(q) == \A i \in DOMAIN q : q[i] # STOP
Ahead(q, n) == \E i \in DOMAIN q : q[i].number = n /\ \A j \in 1..i : q[j] # STOP

Settled(b, n) ==
    /\ n \in store[b]
    /\ b \in Remote => n \in returned[b] \/ \E f \in failed[b] : f.number = n

EmittedIsKept ==
    \A b \in Blocks : \A n \in owed[b] : Ahead(queue[b], n) \/ n \in InBatch(b) \/ Settled(b, n)

\* The sender holds a batch only while it deals with it, and posts what it
\* has stored; there is no sentinel before stop().
BlockKept(b) ==
    /\ queue[b] \in Seq(Entry) /\ batch[b] \in Seq(Entry) /\ given[b] \in Nat
    /\ sender[b] \in {"off", "wait"} => batch[b] = <<>>
    /\ sender[b] = "post" => b \in Remote /\ InBatch(b) \subseteq store[b]
    /\ stage[b] = "out" => sender[b] = "off"
    /\ stage[b] # "left" => NoStop(queue[b])
    /\ \A n \in owed[b] : Ahead(queue[b], n) \/ n \in InBatch(b) \/ Settled(b, n)

Functions ==
    /\ DOMAIN queue = Blocks /\ DOMAIN batch = Blocks /\ DOMAIN given = Blocks
    /\ DOMAIN owed = Blocks /\ DOMAIN store = Blocks /\ DOMAIN attempt = Blocks
    /\ DOMAIN received = Blocks /\ DOMAIN returned = Blocks /\ DOMAIN failed = Blocks

KeptOK == TypeOK /\ Functions /\ \A b \in Blocks : BlockKept(b)

\* What is submitted stands in line behind the rest.
LEMMA SubmittedIsAhead ==
    ASSUME NEW q \in Seq(Entry), NEW e \in Entry
    PROVE  /\ Append(q, e) \in Seq(Entry)
           /\ \A n : Ahead(q, n) => Ahead(Append(q, e), n)
           /\ NoStop(q) /\ e # STOP => NoStop(Append(q, e)) /\ Ahead(Append(q, e), e.number)
<1>1. /\ Len(q) \in Nat /\ DOMAIN q = 1..Len(q)
      /\ Append(q, e) \in Seq(Entry) /\ DOMAIN Append(q, e) = 1..(Len(q) + 1)
      /\ \A i \in 1..Len(q) : Append(q, e)[i] = q[i]
      /\ Append(q, e)[Len(q) + 1] = e
    OBVIOUS
<1> DEFINE r == Append(q, e)
<1> HIDE DEF r
<1>2. ASSUME NEW n, Ahead(q, n) PROVE Ahead(r, n)
  <2>1. PICK i \in 1..Len(q) : q[i].number = n /\ \A j \in 1..i : q[j] # STOP
      BY <1>1, <1>2 DEF Ahead
  <2>2. i \in DOMAIN r /\ r[i].number = n /\ \A j \in 1..i : r[j] # STOP
      BY <1>1, <2>1 DEF r
  <2> QED  BY <2>2 DEF Ahead
<1>3. ASSUME NoStop(q), e # STOP PROVE NoStop(r) /\ Ahead(r, e.number)
  <2>1. \A i \in 1..(Len(q) + 1) : r[i] # STOP
      BY <1>1, <1>3 DEF NoStop, r
  <2>2. Len(q) + 1 \in DOMAIN r /\ r[Len(q) + 1].number = e.number
      BY <1>1 DEF r
  <2> QED  BY <1>1, <2>1, <2>2 DEF NoStop, Ahead, r
<1> QED  BY <1>1, <1>2, <1>3 DEF r

\* What a sender takes, and what it leaves.
LEMMA TakenOrAhead ==
    ASSUME NEW q \in Seq(Entry), NEW n \in 1..Len(q)
    PROVE  /\ SubSeq(q, 1, n) \in Seq(Entry) /\ SubSeq(q, n + 1, Len(q)) \in Seq(Entry)
           /\ NoStop(q) => NoStop(SubSeq(q, n + 1, Len(q)))
           /\ \A k : Ahead(q, k) =>
                  k \in Numbers(SubSeq(q, 1, n)) \/ Ahead(SubSeq(q, n + 1, Len(q)), k)
<1> DEFINE s == SubSeq(q, 1, n)
           r == SubSeq(q, n + 1, Len(q))
<1>0. Len(q) \in Nat /\ DOMAIN q = 1..Len(q)
    OBVIOUS
<1>1. /\ s \in Seq(Entry) /\ DOMAIN s = 1..n /\ \A i \in 1..n : s[i] = q[i]
    BY <1>0
<1>2. /\ r \in Seq(Entry) /\ DOMAIN r = 1..(Len(q) - n)
      /\ \A i \in 1..(Len(q) - n) : r[i] = q[n + i]
    BY <1>0
<1> HIDE DEF s, r
<1>3. NoStop(q) => NoStop(r)
    BY <1>0, <1>2 DEF NoStop
<1>4. ASSUME NEW k, Ahead(q, k) PROVE k \in Numbers(s) \/ Ahead(r, k)
  <2>1. PICK i \in 1..Len(q) : q[i].number = k /\ \A j \in 1..i : q[j] # STOP
      BY <1>0, <1>4 DEF Ahead
  <2>2. CASE i <= n
    <3>1. i \in DOMAIN s /\ s[i].number = k
        BY <1>1, <2>1, <2>2
    <3> QED  BY <3>1 DEF Numbers
  <2>3. CASE ~(i <= n)
    <3>1. i - n \in DOMAIN r /\ r[i - n] = q[i]
        BY <1>0, <1>2, <2>3
    <3>2. \A j \in 1..(i - n) : r[j] # STOP
        BY <1>0, <1>2, <2>1, <2>3
    <3> QED  BY <2>1, <3>1, <3>2 DEF Ahead
  <2> QED  BY <2>2, <2>3
<1> QED  BY <1>1, <1>2, <1>3, <1>4 DEF s, r

\* A step of one block, or none.
LEMMA OthersAreKept ==
    ASSUME KeptOK, TypeOK', Functions', NEW b \in Blocks, BlockKept(b)',
           \A c \in Blocks \ {b} :
              /\ queue'[c] = queue[c] /\ batch'[c] = batch[c] /\ given'[c] = given[c]
              /\ sender'[c] = sender[c] /\ stage'[c] = stage[c] /\ owed'[c] = owed[c]
              /\ store'[c] = store[c] /\ returned'[c] = returned[c] /\ failed'[c] = failed[c]
    PROVE  KeptOK'
<1> SUFFICES ASSUME NEW c \in Blocks \ {b} PROVE BlockKept(c)'
    BY DEF KeptOK
<1>1. BlockKept(c)
    BY DEF KeptOK
<1>2. /\ queue'[c] = queue[c] /\ batch'[c] = batch[c] /\ given'[c] = given[c]
      /\ sender'[c] = sender[c] /\ stage'[c] = stage[c] /\ owed'[c] = owed[c]
    OBVIOUS
<1>3. InBatch(c)' = InBatch(c)
    BY <1>2 DEF InBatch
<1>4. \A k : Settled(c, k)' <=> Settled(c, k)
    BY DEF Settled
<1> QED  BY <1>1, <1>2, <1>3, <1>4 DEF BlockKept

LEMMA NothingHappens ==
    ASSUME KeptOK, TypeOK',
           UNCHANGED <<queue, batch, given, sender, stage, owed, store, attempt,
                       received, returned, failed>>
    PROVE  KeptOK'
<1>1. Functions'
    BY DEF KeptOK, Functions
<1>2. \A b \in Blocks : BlockKept(b)'
    BY DEF KeptOK, BlockKept, InBatch, Settled
<1> QED  BY <1>1, <1>2 DEF KeptOK

LEMMA KeptAtFirst == Init => KeptOK
<1> SUFFICES ASSUME Init PROVE KeptOK
    OBVIOUS
<1>1. TypeOK /\ Functions
    BY TypeAtFirst DEF Init, Functions
<1>2. ASSUME NEW b \in Blocks PROVE BlockKept(b)
  <2>1. /\ queue[b] = <<>> /\ batch[b] = <<>> /\ given[b] = 0 /\ sender[b] = "off" /\ owed[b] = {}
      BY DEF Init
  <2>2. <<>> \in Seq(Entry) /\ DOMAIN <<>> = {}
      OBVIOUS
  <2> QED  BY <2>1, <2>2 DEF BlockKept, NoStop
<1> QED  BY <1>1, <1>2 DEF KeptOK

\* An event is numbered and submitted: it is owed, unless it comes after the
\* sentinel.
LEMMA KeptBySubmit ==
    ASSUME KeptOK, TypeOK', NEW b \in Blocks, NEW odd \in BOOLEAN,
           given' = [given EXCEPT ![b] = @ + 1], Submit(b, given'[b], odd),
           stage'[b] = stage[b] \/ (stage[b] = "tap" /\ stage'[b] = "inside"),
           \A c \in Blocks \ {b} : stage'[c] = stage[c],
           UNCHANGED <<batch, sender, store, attempt, received, returned, failed>>
    PROVE  KeptOK'
<1> DEFINE n == given'[b]
           e == [number |-> n, odd |-> odd]
<1>0. BlockKept(b) /\ Functions
    BY DEF KeptOK
<1>1. n \in Nat /\ n # 0 /\ given'[b] = n
    BY <1>0 DEF Functions, BlockKept
<1>2. /\ queue' = [queue EXCEPT ![b] = Append(queue[b], e)]
      /\ owed' = IF stage[b] = "left" THEN owed ELSE [owed EXCEPT ![b] = @ \cup {n}]
    BY DEF Submit
<1>3. Functions'
    BY <1>0, <1>2 DEF Functions
<1> HIDE DEF n
<1>4. e \in Entry /\ e # STOP /\ e.number = n
    BY <1>1 DEF Entry, STOP
<1> HIDE DEF e
<1>5. /\ queue'[b] = Append(queue[b], e) /\ queue[b] \in Seq(Entry)
      /\ owed'[b] = IF stage[b] = "left" THEN owed[b] ELSE owed[b] \cup {n}
      /\ \A c \in Blocks \ {b} :
            queue'[c] = queue[c] /\ owed'[c] = owed[c] /\ given'[c] = given[c]
    BY <1>0, <1>2 DEF Functions, BlockKept
<1>6. /\ queue'[b] \in Seq(Entry)
      /\ \A k : Ahead(queue[b], k) => Ahead(queue'[b], k)
      /\ stage[b] # "left" => NoStop(queue'[b]) /\ Ahead(queue'[b], n)
    BY <1>0, <1>4, <1>5, SubmittedIsAhead DEF BlockKept
<1>7. \A k \in owed'[b] : Ahead(queue'[b], k) \/ k \in InBatch(b) \/ Settled(b, k)
    BY <1>0, <1>5, <1>6 DEF BlockKept
<1>8. InBatch(b)' = InBatch(b) /\ \A k : Settled(b, k)' <=> Settled(b, k)
    BY DEF InBatch, Settled
<1>9. BlockKept(b)'
  <2>1. stage'[b] # "out" \/ stage[b] = "out"
      OBVIOUS
  <2>2. stage'[b] # "left" => NoStop(queue'[b])
      BY <1>6
  <2> QED  BY <1>0, <1>1, <1>6, <1>7, <1>8, <2>1, <2>2 DEF BlockKept
<1> QED  BY <1>3, <1>5, <1>9, OthersAreKept

\* One step per action of a block.
LEMMA KeptByBlocks ==
    ASSUME KeptOK, TypeOK', NEW b \in Blocks, With(b)
    PROVE  KeptOK'
<1>0. BlockKept(b) /\ Functions /\ stage \in [Blocks -> Stages]
    /\ sender \in [Blocks -> {"off", "wait", "apply", "post"}]
    BY DEF KeptOK, TypeOK
<1>1. CASE Enter(b)
  <2>1. /\ stage[b] = "out" /\ stage'[b] = "tap" /\ sender'[b] = "wait"
        /\ \A c \in Blocks \ {b} : stage'[c] = stage[c] /\ sender'[c] = sender[c]
        /\ UNCHANGED <<queue, batch, given, owed, store, attempt, received, returned, failed>>
      BY <1>0, <1>1 DEF Enter, Goes
  <2>2. BlockKept(b)'
      BY <1>0, <2>1 DEF BlockKept, InBatch, Settled
  <2>3. Functions'
      BY <1>0, <2>1 DEF Functions
  <2> QED  BY <2>1, <2>2, <2>3, OthersAreKept
<1>2. CASE EmitStructure(b)
  <2>1. /\ stage[b] = "tap" /\ stage'[b] = "inside" /\ \A c \in Blocks \ {b} : stage'[c] = stage[c]
        /\ UNCHANGED <<batch, sender, store, attempt, received, returned, failed>>
      BY <1>0, <1>2 DEF EmitStructure, Goes, sendVars
  <2>2. CASE given' = [given EXCEPT ![b] = @ + 1] /\ Submit(b, given'[b], FALSE)
      BY <2>1, <2>2, KeptBySubmit
  <2>3. CASE UNCHANGED <<given, queue, owed>>
    <3>1. BlockKept(b)'
        BY <1>0, <2>1, <2>3 DEF BlockKept, InBatch, Settled
    <3>2. Functions'
        BY <1>0, <2>1, <2>3 DEF Functions
    <3> QED  BY <2>1, <2>3, <3>1, <3>2, OthersAreKept
  <2> QED  BY <1>2, <2>2, <2>3 DEF EmitStructure
<1>3. CASE Stop(b)
  <2>1. /\ queue' = [queue EXCEPT ![b] = Append(queue[b], STOP)]
        /\ stage[b] = "stop" /\ stage'[b] = "left" /\ \A c \in Blocks \ {b} : stage'[c] = stage[c]
        /\ UNCHANGED <<batch, given, sender, owed, store, attempt, received, returned, failed>>
      BY <1>0, <1>3 DEF Stop, Goes, sendVars
  <2>2. /\ queue'[b] = Append(queue[b], STOP) /\ \A c \in Blocks \ {b} : queue'[c] = queue[c]
        /\ Functions'
      BY <1>0, <2>1 DEF Functions
  <2>3. STOP \in Entry
      BY DEF STOP, Entry
  <2>4. queue'[b] \in Seq(Entry) /\ \A k : Ahead(queue[b], k) => Ahead(queue'[b], k)
      BY <1>0, <2>2, <2>3, SubmittedIsAhead DEF BlockKept
  <2>5. BlockKept(b)'
      BY <1>0, <2>1, <2>4 DEF BlockKept, InBatch, Settled
  <2> QED  BY <2>1, <2>2, <2>5, OthersAreKept
<1>4. CASE Compile(b) \/ End(b) \/ Unlisten(b) \/ \E t \in Tasks : Register(b, t) \/ Deregister(b, t)
  <2>1. /\ UNCHANGED <<queue, batch, given, sender, owed, store, attempt, received, returned, failed>>
        /\ stage'[b] \in {"untap", "unlisten", "stop"} \/ stage'[b] = stage[b]
        /\ stage[b] \notin {"out", "left"}
        /\ \A c \in Blocks \ {b} : stage'[c] = stage[c]
      BY <1>0, <1>4 DEF Compile, End, Unlisten, Register, Deregister, Goes, sendVars
  <2>2. BlockKept(b)'
      BY <1>0, <2>1 DEF BlockKept, InBatch, Settled
  <2>3. Functions'
      BY <1>0, <2>1 DEF Functions
  <2> QED  BY <2>1, <2>2, <2>3, OthersAreKept
<1> QED  BY <1>1, <1>2, <1>3, <1>4 DEF With

\* The sender takes what is ahead of the sentinel, or the sentinel.
LEMMA KeptByTake ==
    ASSUME KeptOK, TypeOK', NEW b \in Blocks, Take(b)
    PROVE  KeptOK'
<1>0. BlockKept(b) /\ Functions /\ sender \in [Blocks -> {"off", "wait", "apply", "post"}]
    BY DEF KeptOK, TypeOK
<1> DEFINE q == queue[b]
<1>1. /\ sender[b] = "wait" /\ q # <<>> /\ q \in Seq(Entry) /\ batch[b] = <<>>
      /\ UNCHANGED <<stage, given, owed, attempt, store, received, returned, failed>>
    BY <1>0 DEF Take, BlockKept, blockVars
<1>2. InBatch(b) = {}
  <2>1. DOMAIN <<>> = {}
      OBVIOUS
  <2> QED  BY <1>1, <2>1 DEF InBatch, Numbers
<1>3. \A k \in owed[b] : Ahead(q, k) \/ Settled(b, k)
    BY <1>0, <1>2 DEF BlockKept
<1>4. \A k : Settled(b, k)' <=> Settled(b, k)
    BY <1>1 DEF Settled
<1>5. CASE /\ Head(q) = STOP
           /\ queue' = [queue EXCEPT ![b] = Tail(@)]
           /\ sender' = [sender EXCEPT ![b] = "off"]
           /\ UNCHANGED batch
  <2>1. /\ queue'[b] = Tail(q) /\ sender'[b] = "off" /\ batch'[b] = <<>> /\ Functions'
        /\ \A c \in Blocks \ {b} : queue'[c] = queue[c] /\ sender'[c] = sender[c] /\ batch'[c] = batch[c]
      BY <1>0, <1>1, <1>5 DEF Functions
  <2> HIDE DEF q
  <2>2. Tail(q) \in Seq(Entry) /\ 1 \in DOMAIN q /\ q[1] = STOP /\ \A i \in DOMAIN q : 1 \in 1..i
      BY <1>1, <1>5
  <2>3. \A k : ~Ahead(q, k)
      BY <2>2 DEF Ahead
  <2>4. stage[b] = "left"
      BY <1>0, <2>2 DEF BlockKept, NoStop, q
  <2>5. BlockKept(b)'
      BY <1>0, <1>1, <1>3, <1>4, <2>1, <2>2, <2>3, <2>4 DEF BlockKept
  <2> QED  BY <1>1, <2>1, <2>5, OthersAreKept
<1>6. ASSUME NEW n \in 1..Len(q),
             batch' = [batch EXCEPT ![b] = SubSeq(queue[b], 1, n)],
             queue' = [queue EXCEPT ![b] = SubSeq(@, n + 1, Len(@))],
             sender' = [sender EXCEPT ![b] = "apply"]
      PROVE  KeptOK'
  <2>1. /\ queue'[b] = SubSeq(q, n + 1, Len(q)) /\ batch'[b] = SubSeq(q, 1, n)
        /\ sender'[b] = "apply"
        /\ \A c \in Blocks \ {b} : queue'[c] = queue[c] /\ sender'[c] = sender[c] /\ batch'[c] = batch[c]
      BY <1>0, <1>6 DEF Functions
  <2>4. Functions'
      BY <1>0, <1>1, <1>6 DEF Functions
  <2>2. /\ queue'[b] \in Seq(Entry) /\ batch'[b] \in Seq(Entry)
        /\ NoStop(q) => NoStop(queue'[b])
        /\ \A k : Ahead(q, k) => k \in Numbers(batch'[b]) \/ Ahead(queue'[b], k)
      BY <1>1, <2>1, TakenOrAhead
  <2>3. BlockKept(b)'
      BY <1>0, <1>1, <1>3, <1>4, <2>1, <2>2 DEF BlockKept, InBatch
  <2> QED  BY <1>1, <2>1, <2>3, <2>4, OthersAreKept
<1> QED  BY <1>5, <1>6 DEF Take

\* The sender is done with a batch once all of it is settled.
LEMMA KeptByDone ==
    ASSUME KeptOK, TypeOK', NEW b \in Blocks,
           batch' = [batch EXCEPT ![b] = <<>>], sender' = [sender EXCEPT ![b] = "wait"],
           sender[b] \in {"apply", "post"}, Functions',
           UNCHANGED <<stage, given, queue, owed>>,
           \A k \in InBatch(b) : Settled(b, k)',
           \A k : Settled(b, k) => Settled(b, k)',
           \A c \in Blocks \ {b} :
              store'[c] = store[c] /\ returned'[c] = returned[c] /\ failed'[c] = failed[c]
    PROVE  KeptOK'
<1>0. BlockKept(b) /\ Functions /\ sender \in [Blocks -> {"off", "wait", "apply", "post"}]
    BY DEF KeptOK, TypeOK
<1>1. /\ batch'[b] = <<>> /\ sender'[b] = "wait"
      /\ \A c \in Blocks \ {b} : batch'[c] = batch[c] /\ sender'[c] = sender[c]
    BY <1>0 DEF Functions
<1>2. <<>> \in Seq(Entry)
    OBVIOUS
<1>3. \A k \in owed'[b] : Ahead(queue'[b], k) \/ Settled(b, k)'
    BY <1>0 DEF BlockKept
<1>4. stage'[b] # "out"
    BY <1>0 DEF BlockKept
<1>5. BlockKept(b)'
    BY <1>0, <1>1, <1>2, <1>3, <1>4 DEF BlockKept
<1> QED  BY <1>1, <1>5, OthersAreKept

LEMMA KeptByApplying ==
    ASSUME KeptOK, TypeOK', NEW b \in Blocks, ApplyMany(b)
    PROVE  KeptOK'
<1>0. BlockKept(b) /\ Functions /\ sender \in [Blocks -> {"off", "wait", "apply", "post"}]
    BY DEF KeptOK, TypeOK
<1>1. /\ sender[b] = "apply"
      /\ store' = [store EXCEPT ![b] = @ \cup InBatch(b)]
      /\ UNCHANGED <<stage, given, queue, owed, received, returned, failed>>
    BY DEF ApplyMany, blockVars
<1>2. /\ store'[b] = store[b] \cup InBatch(b) /\ \A c \in Blocks \ {b} : store'[c] = store[c]
      /\ DOMAIN store' = Blocks
    BY <1>0, <1>1 DEF Functions
<1>3. \A k : Settled(b, k) => Settled(b, k)'
    BY <1>1, <1>2 DEF Settled
<1>4. CASE b \in Remote
  <2>1. sender' = [sender EXCEPT ![b] = "post"] /\ UNCHANGED <<batch, attempt>>
      BY <1>4 DEF ApplyMany
  <2>2. /\ sender'[b] = "post" /\ \A c \in Blocks \ {b} : sender'[c] = sender[c]
        /\ InBatch(b)' = InBatch(b) /\ Functions'
      BY <1>0, <1>1, <1>2, <2>1 DEF InBatch, Functions
  <2>3. BlockKept(b)'
      BY <1>0, <1>1, <1>2, <1>3, <1>4, <2>1, <2>2 DEF BlockKept
  <2> QED  BY <1>1, <1>2, <2>1, <2>2, <2>3, OthersAreKept
<1>5. CASE b \notin Remote
  <2>1. Done(b)
      BY <1>5 DEF ApplyMany
  <2>2. Functions'
      BY <1>0, <1>1, <1>2, <2>1 DEF Done, Functions
  <2>3. \A k \in InBatch(b) : Settled(b, k)'
      BY <1>2, <1>5 DEF Settled
  <2> QED  BY <1>1, <1>2, <1>3, <2>1, <2>2, <2>3, KeptByDone DEF Done
<1> QED  BY <1>4, <1>5

\* publish() returns, raises, or tries again with the same batch.
LEMMA KeptByPosting ==
    ASSUME KeptOK, TypeOK', NEW b \in Blocks, Post(b)
    PROVE  KeptOK'
<1>0. /\ BlockKept(b) /\ Functions /\ sender \in [Blocks -> {"off", "wait", "apply", "post"}]
    BY DEF KeptOK, TypeOK
<1>1. /\ sender[b] = "post" /\ UNCHANGED <<stage, given, queue, owed, store>>
    BY DEF Post, blockVars
<1>2. InBatch(b) \subseteq store[b]
    BY <1>0, <1>1 DEF BlockKept
<1>3. DOMAIN received' = Blocks
    BY <1>0 DEF Post, Unwritable, Accepted, Arrives, Retryable, Rejected, Functions
<1>4. ASSUME NEW why, NEW tries, Raises(b, why, tries) PROVE KeptOK'
  <2>1. /\ failed' = [failed EXCEPT ![b] =
              @ \cup {[number |-> n, why |-> why, tries |-> tries] : n \in InBatch(b)}]
        /\ Done(b) /\ UNCHANGED returned
      BY <1>4 DEF Raises
  <2>2. /\ failed'[b] = failed[b] \cup {[number |-> n, why |-> why, tries |-> tries] : n \in InBatch(b)}
        /\ Functions' /\ \A c \in Blocks \ {b} : failed'[c] = failed[c]
      BY <1>0, <1>1, <1>3, <2>1 DEF Functions, Done
  <2>3. ASSUME NEW k \in InBatch(b) PROVE \E f \in failed'[b] : f.number = k
    <3>1. [number |-> k, why |-> why, tries |-> tries] \in failed'[b]
        BY <2>2
    <3> QED  BY <3>1
  <2>4. \A k \in InBatch(b) : Settled(b, k)'
      BY <1>1, <1>2, <2>3 DEF Settled
  <2>5. \A k : Settled(b, k) => Settled(b, k)'
      BY <1>1, <2>1, <2>2 DEF Settled
  <2> QED  BY <1>1, <2>1, <2>2, <2>4, <2>5, KeptByDone DEF Done
<1>5. CASE Returns(b)
  <2>1. returned' = [returned EXCEPT ![b] = @ \cup InBatch(b)] /\ Done(b) /\ UNCHANGED failed
      BY <1>5 DEF Returns
  <2>2. /\ returned'[b] = returned[b] \cup InBatch(b)
        /\ Functions' /\ \A c \in Blocks \ {b} : returned'[c] = returned[c]
      BY <1>0, <1>1, <1>3, <2>1 DEF Functions, Done
  <2>3. \A k \in InBatch(b) : Settled(b, k)'
      BY <1>1, <1>2, <2>2 DEF Settled
  <2>4. \A k : Settled(b, k) => Settled(b, k)'
      BY <1>1, <2>1, <2>2 DEF Settled
  <2> QED  BY <1>1, <2>1, <2>2, <2>3, <2>4, KeptByDone DEF Done
<1>6. ASSUME attempt' = [attempt EXCEPT ![b] = @ + 1], UNCHANGED <<sender, batch, returned, failed>>
      PROVE  KeptOK'
  <2>1. Functions'
      BY <1>0, <1>1, <1>3, <1>6 DEF Functions
  <2>2. BlockKept(b)'
      BY <1>0, <1>1, <1>6 DEF BlockKept, InBatch, Settled
  <2> QED  BY <1>1, <1>6, <2>1, <2>2, OthersAreKept
<1>7. CASE Unwritable(b)
    BY <1>4, <1>7 DEF Unwritable
<1>8. CASE Accepted(b)
    BY <1>5, <1>8 DEF Accepted
<1>9. CASE Retryable(b)
    BY <1>4, <1>6, <1>9 DEF Retryable, TryAgain
<1>10. CASE Rejected(b)
    BY <1>4, <1>10 DEF Rejected
<1> QED  BY <1>7, <1>8, <1>9, <1>10 DEF Post

LEMMA KeptNext == KeptOK /\ [Next]_vars => KeptOK'
<1> SUFFICES ASSUME KeptOK, [Next]_vars PROVE KeptOK'
    OBVIOUS
<1>0. TypeOK /\ TypeOK'
    BY TypeKept DEF KeptOK
<1>1. CASE Engine
  <2>1. CASE (\E t \in Tasks : Report(t)) \/ Change
    <3>1. UNCHANGED <<blockVars, given, queue, owed, sendVars>>
        BY <2>1 DEF Report, Change, Notify
    <3> QED  BY <1>0, <3>1, NothingHappens DEF blockVars, sendVars
  <2>2. ASSUME NEW c \in calls, Call(c) PROVE KeptOK'
    <3>1. /\ c.block \in Blocks /\ given' = [given EXCEPT ![c.block] = @ + 1]
          /\ UNCHANGED <<blockVars, notes, sendVars>>
        BY <1>0, <2>2 DEF Call, TypeOK
    <3>2. CASE c.kind = "bad"
      <4>1. UNCHANGED <<queue, owed>>
          BY <2>2, <3>2 DEF Call
      <4>2. Functions' /\ given'[c.block] = given[c.block] + 1
            /\ \A b \in Blocks \ {c.block} : given'[b] = given[b]
          BY <3>1, <4>1 DEF KeptOK, Functions, sendVars
      <4>3. BlockKept(c.block)'
          BY <3>1, <4>1, <4>2 DEF KeptOK, BlockKept, InBatch, Settled, blockVars, sendVars
      <4> QED  BY <1>0, <3>1, <4>1, <4>2, <4>3, OthersAreKept DEF blockVars, sendVars
    <3>3. CASE c.kind # "bad"
      <4>1. Submit(c.block, given'[c.block], c.kind = "odd") /\ (c.kind = "odd") \in BOOLEAN
          BY <2>2, <3>3 DEF Call
      <4> QED  BY <1>0, <3>1, <4>1, KeptBySubmit DEF blockVars, sendVars
    <3> QED  BY <3>2, <3>3
  <2> QED  BY <1>1, <2>1, <2>2 DEF Engine
<1>2. CASE \E b \in Blocks : With(b)
    BY <1>0, <1>2, KeptByBlocks
<1>3. CASE \E b \in Blocks : Deliver(b)
    BY <1>0, <1>3, KeptByTake, KeptByApplying, KeptByPosting DEF Deliver
<1>4. CASE UNCHANGED vars
    BY <1>0, <1>4, NothingHappens DEF vars, blockVars, sendVars
<1> QED  BY <1>1, <1>2, <1>3, <1>4 DEF Next

\* No event that was emitted before the sentinel is lost on its way: it is
\* queued ahead of the sentinel, with the sender, or in the block's store and
\* published or counted as failed; whatever publish() raises, and also for a
\* callback that outlives its registration (EventPipeline._run(), publish()).
\* That it does not stay on its way for ever is EmittedIsSettled.
THEOREM NothingEmittedIsLost == Spec => []EmittedIsKept
<1>1. KeptOK => EmittedIsKept
    BY DEF KeptOK, BlockKept, EmittedIsKept
<1> QED  BY <1>1, KeptAtFirst, KeptNext, PTL DEF Spec
=============================================================================
