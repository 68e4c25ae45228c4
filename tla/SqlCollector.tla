----------------------------- MODULE SqlCollector -----------------------------
(***************************************************************************)
(* The collector deployment: one run's events over a durable queue of the  *)
(* broker (transports/amqp.py) into the meter's own database               *)
(* (datasource/sqlalchemy), written by one or more collectors, and an API  *)
(* worker that follows the run (events_since() on the same tables).        *)
(*                                                                         *)
(* A batch is one event about one atom: it is handled and committed as a   *)
(* whole.  An event is its place in published; of the atom it is about the *)
(* snapshot keeps the last event folded in.  Transactions see what was     *)
(* committed at each statement (READ COMMITTED).                           *)
(***************************************************************************)
EXTENDS EventWindow, SequencesExt

CONSTANTS
    Collectors,
    Atoms,
    MaxEvents,      \* BOUND: events published
    MaxProcesses,   \* BOUND: processes the flow runs in, one after the other
    MaxFailures,    \* BOUND: transactions that fail
    MaxCrashes,     \* BOUND: collectors that die or lose their connection
    MaxPrunes,      \* BOUND: times retention drops the run
    Limit           \* of the reader's pages

ASSUME CollectorAssumption ==
    /\ MaxEvents \in Nat /\ MaxProcesses \in Nat \ {0}
    /\ MaxFailures \in Nat /\ MaxCrashes \in Nat /\ MaxPrunes \in Nat
    /\ Limit \in Nat \ {0}

VARIABLES
    process, counter,   \* the flow's process, and its SequenceAllocator
    published,          \* history: the events, as [seq, atom]
    ready,              \* the broker's queue: events by place in published
    cpc,                \* each collector: "idle", "got", "loaded", "stored"
    msg,                \* the message it has not yet acknowledged
    row,                \* the flow's row as its transaction read it
    flow,               \* the flow's row: the last event folded in of each atom
    events,             \* the events table: (seq, event) for its primary key
    acked,              \* history: the events acknowledged to the broker
    applied,            \* history: the latest event that was ever stored
    rewritten,          \* history: who loaded a row that was written since
    overtaken,          \* history: one of them wrote over it, or in other order
    rpc, since, oldest, \* the reader: its place, its cursor and its first read
    failures, crashes, prunes   \* how much of each bound is used

flowVars == <<process, counter, published>>
collectorVars == <<cpc, msg, row>>
tables == <<flow, events>>
history == <<acked, applied, rewritten, overtaken>>
readerVars == <<rpc, since, oldest>>
bounds == <<failures, crashes, prunes>>
vars == <<flowVars, ready, collectorVars, tables, history, readerVars, bounds>>

Nothing == [a \in Atoms |-> 0]

Init ==
    /\ process = 1 /\ counter = 0 /\ published = <<>>
    /\ ready = <<>>
    /\ cpc = [c \in Collectors |-> "idle"]
    /\ msg = [c \in Collectors |-> 0]
    /\ row = [c \in Collectors |-> Nothing]
    /\ flow = Nothing /\ events = {}
    /\ acked = {} /\ applied = 0 /\ rewritten = {} /\ overtaken = FALSE
    /\ rpc = "oldest" /\ since = 0 /\ oldest = {}
    /\ failures = 0 /\ crashes = 0 /\ prunes = 0

-----------------------------------------------------------------------------
(* The flow: one event after the other is numbered and published.          *)

Publish(a) ==
    /\ Len(published) < MaxEvents
    /\ counter' = counter + 1
    /\ published' = Append(published, [seq |-> counter + 1, atom |-> a])
    /\ ready' = Append(ready, Len(published) + 1)
    /\ UNCHANGED <<process, collectorVars, tables, history, readerVars, bounds>>

\* A flow that was suspended goes on in another process, as the same run.
\* Its allocator starts anew: nothing calls resume_from().
Resume ==
    /\ process < MaxProcesses
    /\ process' = process + 1
    /\ counter' = 0
    /\ UNCHANGED <<published, ready, collectorVars, tables, history, readerVars, bounds>>

-----------------------------------------------------------------------------
(* consume() and apply_many()                                              *)

\* A message that is rejected.
Reject(m) == UNCHANGED ready
\* What was not acknowledged is delivered again: before what follows it,
\* or after what the broker has already sent on to a collector.
Redeliver(m) == ready' \in {<<m>> \o ready, Append(ready, m)}

Deliver(c) ==
    /\ cpc[c] = "idle" /\ ready # <<>>
    /\ msg' = [msg EXCEPT ![c] = Head(ready)]
    /\ ready' = Tail(ready)
    /\ cpc' = [cpc EXCEPT ![c] = "got"]
    /\ UNCHANGED <<flowVars, row, tables, history, readerVars, bounds>>

\* _load_flow(); a run that is not there is seeded from the event.
LoadedBlank(c) == Nothing
Loaded(c) == flow

LoadFlow(c) ==
    /\ cpc[c] = "got"
    /\ row' = [row EXCEPT ![c] = Loaded(c)]
    /\ cpc' = [cpc EXCEPT ![c] = "loaded"]
    /\ rewritten' = rewritten \ {c}
    /\ UNCHANGED <<flowVars, ready, msg, tables, acked, applied, overtaken, readerVars, bounds>>

\* The rows of the events table with this one, unless its key is taken:
\* IntegrityError is taken to mean that it is stored already.
Inserted(m) ==
    IF \E e \in events : e.seq = published[m].seq
    THEN events ELSE events \cup {[seq |-> published[m].seq, event |-> m]}

\* fold(), _save_flow(), the insertion and the commit.
Commit(c) ==
    LET m == msg[c]
    IN  /\ cpc[c] = "loaded"
        /\ flow' = [row[c] EXCEPT ![published[m].atom] = m]
        /\ events' = Inserted(m)
        /\ applied' = Max({applied, m})
        /\ overtaken' = (overtaken \/ m < applied \/ c \in rewritten)
        /\ rewritten' = {d \in Collectors : cpc[d] = "loaded"}
        /\ cpc' = [cpc EXCEPT ![c] = "stored"]
        /\ UNCHANGED <<flowVars, ready, msg, row, acked, readerVars, bounds>>

Released(c) ==
    /\ cpc' = [cpc EXCEPT ![c] = "idle"]
    /\ msg' = [msg EXCEPT ![c] = 0]
    /\ row' = [row EXCEPT ![c] = Nothing]

\* An acknowledgement sent before the handler returns.
AckEarly(c) ==
    /\ cpc[c] \in {"got", "stored"}
    /\ acked' = acked \cup {msg[c]}
    /\ Released(c)
    /\ UNCHANGED <<flowVars, ready, tables, applied, rewritten, overtaken, readerVars, bounds>>

Ack(c) ==
    /\ cpc[c] = "stored"
    /\ acked' = acked \cup {msg[c]}
    /\ Released(c)
    /\ UNCHANGED <<flowVars, ready, tables, applied, rewritten, overtaken, readerVars, bounds>>

\* The transaction raises and is rolled back: requeue, and give up for now.
HandlerFails(c) ==
    /\ cpc[c] \in {"got", "loaded"}
    /\ failures < MaxFailures /\ failures' = failures + 1
    /\ Redeliver(msg[c])
    /\ Released(c)
    /\ UNCHANGED <<flowVars, tables, history, readerVars, crashes, prunes>>

\* The collector dies, is interrupted or loses its connection, and comes
\* back: the same, and also between the commit and the acknowledgement.
Crash(c) ==
    /\ cpc[c] # "idle"
    /\ crashes < MaxCrashes /\ crashes' = crashes + 1
    /\ Redeliver(msg[c])
    /\ Released(c)
    /\ UNCHANGED <<flowVars, tables, history, readerVars, failures, prunes>>

Collect(c) == Deliver(c) \/ LoadFlow(c) \/ Commit(c) \/ Ack(c)

\* prune() drops the run and its events in one transaction.
Prune ==
    /\ prunes < MaxPrunes /\ prunes' = prunes + 1
    /\ flow' = Nothing /\ events' = {}
    /\ UNCHANGED <<flowVars, ready, collectorVars, history, readerVars, failures, crashes>>

-----------------------------------------------------------------------------
(* events_since(), whose two queries are two statements                    *)

Seqs == {e.seq : e \in events}

\* min(seq), as a set of at most one number.
ReadOldest ==
    /\ rpc = "oldest"
    /\ oldest' = IF Seqs = {} THEN {} ELSE {Min(Seqs)}
    /\ rpc' = "rows"
    /\ UNCHANGED <<flowVars, ready, collectorVars, tables, history, since, bounds>>

\* The first rows after since: ORDER BY seq LIMIT limit.
Rows == {s \in Seqs : s > since /\ Cardinality({t \in Seqs : since < t /\ t < s}) < Limit}

Expected == IF \E s \in oldest : since + 1 < s THEN Min(oldest) ELSE since + 1
\* A page that starts wherever the rows do.
SelectedAll == Rows
Selected == Contiguous(Rows, Expected, Limit)

ReadRows ==
    /\ rpc = "rows"
    /\ since' = IF Selected = {} THEN since ELSE Max(Selected)
    /\ rpc' = "oldest"
    /\ UNCHANGED <<flowVars, ready, collectorVars, tables, history, oldest, bounds>>

Read == ReadOldest \/ ReadRows

-----------------------------------------------------------------------------
Next ==
    \/ \E a \in Atoms : Publish(a)
    \/ Resume
    \/ \E c \in Collectors : Collect(c) \/ HandlerFails(c) \/ Crash(c)
    \/ Prune
    \/ Read

Spec == Init /\ [][Next]_vars

\* A collector keeps consuming (collect_command()), and the reader polling.
FairSpec == Spec /\ (\A c \in Collectors : WF_vars(Collect(c))) /\ WF_vars(Read)

-----------------------------------------------------------------------------
\* Every variable keeps its type, and only what was published is about.
Published == DOMAIN published
TypeOK ==
    /\ process \in 1..MaxProcesses /\ counter \in Nat
    /\ published \in Seq([seq : Nat \ {0}, atom : Atoms])
    /\ ready \in Seq(Published)
    /\ cpc \in [Collectors -> {"idle", "got", "loaded", "stored"}]
    /\ \A c \in Collectors : IF cpc[c] = "idle" THEN msg[c] = 0 ELSE msg[c] \in Published
    /\ row \in [Collectors -> [Atoms -> Published \cup {0}]]
    /\ flow \in [Atoms -> Published \cup {0}]
    /\ events \subseteq [seq : Nat, event : Published]
    /\ acked \subseteq Published /\ applied \in Published \cup {0} /\ overtaken \in BOOLEAN
    /\ rewritten \subseteq Collectors
    /\ rpc \in {"oldest", "rows"} /\ since \in Nat
    /\ oldest \subseteq Nat
    /\ failures \in 0..MaxFailures /\ crashes \in 0..MaxCrashes /\ prunes \in 0..MaxPrunes

\* "Dropping monitoring data silently is the one outcome worse than
\* redelivering it": a message is acknowledged only when its number is in
\* the table, with its event as long as the flow runs in its first process,
\* unless retention has dropped it again.
AckedIsStored ==
    prunes = 0 =>
        \A m \in acked :
            \E e \in events : e.seq = published[m].seq /\ (e.event = m \/ process > 1)

\* The snapshot and the events agree: when all is handled, each atom shows
\* the latest event about it.  That holds as long as no batch was folded
\* after a later one, or into a row another collector has rewritten since.
LatestOf(a) == Max({0} \cup {m \in Published : published[m].atom = a})
SnapshotIsLatest ==
    (acked = Published /\ ready = <<>> /\ prunes = 0 /\ ~overtaken
        /\ \A c \in Collectors : cpc[c] = "idle")
    => \A a \in Atoms : flow[a] = LatestOf(a)

\* Whatever is inserted or pruned between its two queries, a page has no
\* hole in it, and one in front of it only if the first query found one.
PagesAreContiguous ==
    [][ReadRows /\ Selected # {} =>
         /\ Selected = Min(Selected)..Max(Selected)
         /\ Min(Selected) = since + 1 \/ (Min(Selected) > since + 1 /\ Min(Selected) \in oldest)]_vars

\* Whatever fails or is delivered out of order, every event published by the
\* first process is passed by a reader who keeps asking: it got the event,
\* or was told of a hole in front of its page.  Unless retention drops events.
EventuallyRead ==
    \A n \in 1..MaxEvents : (Len(published) = n /\ process = 1) ~> (since >= n \/ prunes > 0)
=============================================================================
