-------------------------------- MODULE Poller --------------------------------
(***************************************************************************)
(* The poller (poller.py): poll_once(), again and again, reads every flow  *)
(* the source offers, compares each with what it saw last and tells the    *)
(* store the difference.                                                   *)
(*                                                                         *)
(* The source is taskflow's persistence, which changes on its own between  *)
(* polls and during them.  A store takes the events of a run one by one    *)
(* (memory) or in one transaction that can fail (sqlalchemy).              *)
(*                                                                         *)
(* Left out: the counters, the interval, on_error, a read that raises (it  *)
(* changes nothing), paging (a poll reads all runs at once), and start()   *)
(* and stop(), between which _previous stays as it is.                     *)
(***************************************************************************)
EXTENDS DiffFold, FiniteSets

CONSTANTS
    Runs, AtomNames,    \* run ids, and the atoms of each
    MaxChanges,         \* bound: changes of the source
    MaxFailures         \* bound: transactions that fail

ASSUME PollerAssumption ==
    /\ AtomNames \subseteq Nat /\ IsFiniteSet(AtomNames)
    /\ MaxChanges \in Nat /\ MaxFailures \in Nat

VARIABLES
    kind,       \* of the store: "memory" or "sqlalchemy"
    source,     \* each run as persistence has it
    visible,    \* the runs that list_flows() offers
    previous,   \* _previous: what the last poll saw, by run
    counter,    \* the allocator's counter of each run
    sink,       \* the snapshot the store keeps of each run
    log,        \* the numbers of the events stored for each run, as they came
    polling,    \* poll_once() is on its way
    seen,       \* what this poll read, by run
    todo,       \* the runs not yet told to the store
    out,        \* events on their way into a memory store
    changes, failures,  \* count the bounded choices
    mislaid     \* history: runs the store knows otherwise than previous says

sourceVars == <<source, visible, changes>>
storeVars == <<counter, sink, log>>
pollVars == <<polling, seen, todo, out>>
vars == <<kind, sourceVars, previous, storeVars, pollVars, failures, mislaid>>

-----------------------------------------------------------------------------
(* taskflow: what a run goes through in persistence                        *)

Snapshot(state, atom) == [state |-> state, atoms |-> [a \in AtomNames |-> atom]]

Pending == [Fresh EXCEPT !.state = "PENDING", !.intention = "EXECUTE"]

AtomSteps(atom) ==
    CASE atom.state = "PENDING" ->
            {[atom EXCEPT !.state = "RUNNING"]}
      [] atom.state = "RUNNING" ->
            {[atom EXCEPT !.progress = 1, !.details = "said"],
             [atom EXCEPT !.state = "SUCCESS", !.progress = 2, !.result = TRUE],
             [atom EXCEPT !.state = "FAILURE", !.failure = "failed"]}
      [] atom.state \in {"SUCCESS", "FAILURE"} ->
            {[atom EXCEPT !.state = "REVERTED", !.intention = "REVERT", !.progress = 2]}
      [] atom.state = "REVERTED" ->     \* a retry starts over
            {[atom EXCEPT !.state = "PENDING", !.intention = "EXECUTE",
                          !.failure = None, !.result = FALSE]}

FlowSteps(flow) ==
    LET AllIn(states) == \A a \in DOMAIN flow.atoms : flow.atoms[a].state \in states
    IN  CASE flow.state \in {"PENDING", "SUSPENDED"} -> {"RUNNING"}
          [] flow.state = "RUNNING" ->
                (IF AllIn({"SUCCESS"}) THEN {"SUCCESS"} ELSE {})
                \cup (IF AllIn({"REVERTED"}) THEN {"REVERTED"} ELSE {})
                \cup (IF \A a \in DOMAIN flow.atoms : flow.atoms[a].state # "RUNNING"
                      THEN {"SUSPENDED"} ELSE {})
          [] OTHER -> {}

Steps(flow) ==
    {[flow EXCEPT !.state = s] : s \in FlowSteps(flow)}
        \cup IF flow.state = "RUNNING"
             THEN UNION {{[flow EXCEPT !.atoms[a] = atom] : atom \in AtomSteps(flow.atoms[a])} :
                         a \in DOMAIN flow.atoms}
             ELSE {}

SourceChanges ==
    /\ changes < MaxChanges
    /\ changes' = changes + 1
    /\ \E r \in Runs :
         \/ \E flow \in Steps(source[r]) :
              source' = [source EXCEPT ![r] = flow] /\ UNCHANGED visible
         \* The logbook is created, or retention or a failed read hides it.
         \/ /\ visible' = IF r \in visible THEN visible \ {r} ELSE visible \cup {r}
            /\ UNCHANGED source
    /\ UNCHANGED <<kind, previous, storeVars, pollVars, failures, mislaid>>

-----------------------------------------------------------------------------
Init ==
    /\ kind \in {"memory", "sqlalchemy"}
    /\ source \in [Runs -> {Snapshot("PENDING", Pending),
                            Snapshot("RUNNING", [Pending EXCEPT !.state = "RUNNING"])}]
    /\ visible = Runs
    /\ previous = <<>>
    /\ counter = [r \in Runs |-> 0]
    /\ sink = [r \in Runs |-> EmptyFlow]
    /\ log = [r \in Runs |-> <<>>]
    /\ polling = FALSE /\ seen = <<>> /\ todo = {} /\ out = <<>>
    /\ changes = 0 /\ failures = 0
    /\ mislaid = {}

-----------------------------------------------------------------------------
(* poll_once()                                                             *)

Remembered(r) == IF r \in DOMAIN previous THEN previous[r] ELSE NoFlow

\* What a store that has taken these events shows.
Folded(flow, events) ==
    LET after[n \in 0..Len(events)] ==
            IF n = 0 THEN flow ELSE Fold(after[n - 1], events[n])
    IN  after[Len(events)]

\* The numbers, when the second event is stamped without allocating.
NumbersAgain(r, n) == [i \in 1..n |-> counter[r] + IF i = 1 THEN 1 ELSE i - 1]
\* The numbers allocated to a run's n next events.
Numbers(r, n) == [i \in 1..n |-> counter[r] + i]

PollEnds ==
    /\ polling' = FALSE
    /\ seen' = <<>>
    /\ todo' = {}

\* _read_all()
Read ==
    /\ ~polling
    /\ polling' = TRUE
    /\ seen' = [r \in visible |-> source[r]]
    /\ todo' = visible
    /\ UNCHANGED <<kind, sourceVars, previous, storeVars, out, failures, mislaid>>

\* apply_many() of a memory store takes the events one at a time ...
Hand(r, events) ==
    /\ kind = "memory"
    /\ out' = [i \in DOMAIN events |->
                 [run |-> r, seq |-> Numbers(r, Len(events))[i], event |-> events[i]]]
    /\ UNCHANGED <<sink, log>>

\* ... and that of a sqlalchemy store all or none.
Commit(r, events) ==
    /\ kind = "sqlalchemy"
    /\ sink' = [sink EXCEPT ![r] = Folded(@, events)]
    /\ log' = [log EXCEPT ![r] = @ \o Numbers(r, Len(events))]
    /\ UNCHANGED out

\* The events of one flow, allocated to it and given to the store.
Tell(r) ==
    /\ out = <<>> /\ r \in todo
    /\ \E events \in {Diff(Remembered(r), seen[r])} :
         /\ counter' = [counter EXCEPT ![r] = @ + Len(events)]
         /\ Hand(r, events) \/ Commit(r, events)
    /\ todo' = todo \ {r}
    /\ UNCHANGED <<kind, sourceVars, previous, polling, seen, failures, mislaid>>

Apply ==
    /\ out # <<>>
    /\ LET e == Head(out)
       IN  /\ sink' = [sink EXCEPT ![e.run] = Fold(@, e.event)]
           /\ log' = [log EXCEPT ![e.run] = Append(@, e.seq)]
    /\ out' = Tail(out)
    /\ UNCHANGED <<kind, sourceVars, previous, counter, polling, seen, todo, failures, mislaid>>

\* A poll that fails and remembers what it saw all the same.
AfterFailureAll == seen
\* What a poll that fails remembers.
AfterFailure == previous

\* A transaction fails: the poll is over, its numbers are used up and what it
\* saw is not remembered, although the store was told of other runs.
TransactionFails(r) ==
    LET events == Diff(Remembered(r), seen[r])
        told == {x \in DOMAIN seen \ todo : Remembered(x) # seen[x]}
    IN  /\ kind = "sqlalchemy" /\ r \in todo /\ events # <<>>
        /\ failures < MaxFailures
        /\ failures' = failures + 1
        /\ counter' = [counter EXCEPT ![r] = @ + Len(events)]
        /\ previous' = AfterFailure
        /\ mislaid' = mislaid \cup told
        /\ PollEnds
        /\ UNCHANGED <<kind, sourceVars, sink, log, out>>

\* A run that was not seen is forgotten, though the store still has it.
Finish ==
    /\ polling /\ todo = {} /\ out = <<>>
    /\ previous' = seen
    /\ mislaid' = mislaid \cup (DOMAIN previous \ DOMAIN seen)
    /\ PollEnds
    /\ UNCHANGED <<kind, sourceVars, storeVars, out, failures>>

Poll ==
    \/ Read
    \/ \E r \in Runs : Tell(r) \/ TransactionFails(r)
    \/ Apply
    \/ Finish

Next == SourceChanges \/ Poll

Spec == Init /\ [][Next]_vars

\* The loop goes on polling for as long as it is not stopped (_loop()).
FairSpec == Spec /\ WF_vars(Poll)

-----------------------------------------------------------------------------
\* Every variable keeps its type, and what is under way belongs to a poll.
TypeOK ==
    /\ kind \in {"memory", "sqlalchemy"}
    /\ visible \subseteq Runs
    /\ DOMAIN previous \subseteq Runs /\ DOMAIN seen \subseteq Runs
    /\ todo \subseteq DOMAIN seen
    /\ polling \in BOOLEAN
    /\ ~polling => seen = <<>> /\ out = <<>>
    /\ out # <<>> => kind = "memory"
    /\ counter \in [Runs -> Nat]
    /\ \A r \in Runs : \A i \in DOMAIN log[r] : log[r][i] \in 1..counter[r]
    /\ changes \in 0..MaxChanges /\ failures \in 0..MaxFailures
    /\ mislaid \subseteq Runs

\* The poll under way has not told the store anything of this run.
Untouched(r) == r \in DOMAIN seen => r \in todo

\* Until the next poll tells more, the store shows of every run exactly what
\* the last poll saw of it: the flow's state, its atoms, and each one's state
\* and progress (fold.py:15).  Excepted are the runs that a poll failing
\* half-way, or a source hiding them, has left the store with other news of.
SinkShowsWhatWasSeen ==
    \A r \in DOMAIN previous \ mislaid : Untouched(r) =>
        /\ sink[r].state = previous[r].state
        /\ DOMAIN sink[r].atoms = DOMAIN previous[r].atoms
        /\ \A a \in DOMAIN sink[r].atoms : Shown(sink[r].atoms[a]) = Shown(previous[r].atoms[a])

\* Whoever reads the store, in the middle of a batch too, never sees a
\* finished flow with an atom that still runs (the order in diff_flow()).
FinishedFlowsAreQuiet ==
    \A r \in Runs \ mislaid : sink[r].state \in FlowFinishStates =>
        \A a \in DOMAIN sink[r].atoms : sink[r].atoms[a].state # "RUNNING"

\* No number is given to two events of a run, the events of one that failed
\* and were told again included; and as long as no transaction failed the
\* numbers stored leave no hole that would hold back the readers of
\* events_since() (diff.py:63).
NumbersAreKept ==
    \A r \in Runs :
        /\ IsInjective(log[r])
        /\ failures = 0 /\ out = <<>> => Range(log[r]) = 1..counter[r]

Current(r) ==
    /\ sink[r].state = source[r].state
    /\ \A a \in AtomNames :
         a \in DOMAIN sink[r].atoms /\ Shown(sink[r].atoms[a]) = Shown(source[r].atoms[a])

\* Once the source rests, the store catches up with every run it shows, for
\* good, a transaction having failed or not (_loop() goes on).
CatchesUp == \A r \in Runs : <>[](r \in visible \ mislaid) => <>[]Current(r)
=============================================================================
