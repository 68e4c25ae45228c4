------------------------------- MODULE DiffFold -------------------------------
(***************************************************************************)
(* The one event vocabulary of both producers: the events that explain the *)
(* difference between two snapshots (diff.py), and what a datasource makes *)
(* of an event (fold.py).                                                  *)
(*                                                                         *)
(* A snapshot is a flow's state and its atoms by name; names are numbers,  *)
(* in name order.  What never changes or is treated alike is left out: an  *)
(* atom's uuid and type, and revert_failure, which goes with failure.      *)
(***************************************************************************)
EXTENDS SortedNumbers, SequencesExt

None == "none"

\* AtomSnapshot(name=...): what is assumed of an atom before any event.
Fresh == [state |-> None, intention |-> None, progress |-> 0, details |-> None,
          failure |-> None, result |-> FALSE]

\* A run, and an atom, that was not there at the last observation: there is
\* nothing to tell from, so its state counts as changed whatever it is.
NoFlow == [state |-> "unseen", atoms |-> <<>>]
NoAtom == [Fresh EXCEPT !.state = "unseen"]

FlowFinishStates == {"SUCCESS", "FAILURE", "REVERTED", "SUSPENDED"}

-----------------------------------------------------------------------------
(* diff_flow()                                                             *)

\* Fields an event does not carry.
Blank == [kind |-> "", atom |-> 0, state |-> None, intention |-> None,
          progress |-> 0, details |-> None, failure |-> None, result |-> FALSE]

FlowEvent(new) == [Blank EXCEPT !.kind = "FLOW_STATE", !.state = new.state]

\* A failure is carried when it is new, a result whenever there is one.
StateEvent(a, before, current) ==
    [Blank EXCEPT !.kind = "ATOM_STATE", !.atom = a,
                  !.state = current.state,
                  !.intention = current.intention,
                  !.progress = current.progress,
                  !.failure = IF before.failure = current.failure THEN None ELSE current.failure,
                  !.result = current.result]

ProgressEvent(a, current) ==
    [Blank EXCEPT !.kind = "ATOM_PROGRESS", !.atom = a,
                  !.state = current.state,
                  !.intention = current.intention,
                  !.progress = current.progress,
                  !.details = current.details]

StateChanged(before, current) == before.state # current.state
ProgressChanged(before, current) ==
    before.progress # current.progress \/ before.details # current.details

EventsIf(condition, e) == IF condition THEN <<e>> ELSE <<>>

\* One event per atom at most.
AtomEventsEither(a, before, current) ==
    IF StateChanged(before, current)
    THEN <<StateEvent(a, before, current)>>
    ELSE EventsIf(ProgressChanged(before, current), ProgressEvent(a, current))

\* The state event precedes the progress event.
AtomEvents(a, before, current) ==
    EventsIf(StateChanged(before, current), StateEvent(a, before, current))
        \o EventsIf(ProgressChanged(before, current), ProgressEvent(a, current))

AllAtomEvents(old, new) ==
    LET names == Ascending(DOMAIN new.atoms)
        Before(a) == IF a \in DOMAIN old.atoms THEN old.atoms[a] ELSE NoAtom
    IN  FlattenSeq([i \in DOMAIN names |->
            AtomEvents(names[i], Before(names[i]), new.atoms[names[i]])])

FlowEvents(old, new) == EventsIf(old.state # new.state, FlowEvent(new))

\* A diff that always tells the flow's state first.
DiffFlowFirst(old, new) == FlowEvents(old, new) \o AllAtomEvents(old, new)

\* A flow does not finish before its atoms do.
Diff(old, new) ==
    IF new.state \in FlowFinishStates
    THEN AllAtomEvents(old, new) \o FlowEvents(old, new)
    ELSE FlowEvents(old, new) \o AllAtomEvents(old, new)

-----------------------------------------------------------------------------
(* fold()                                                                  *)

Or(value, default) == IF value = None THEN default ELSE value

\* fold_atom(): a field an event does not carry stays as it is, except the
\* details of a progress event.  An event of either producer that is about
\* an atom carries its progress here.
FoldAtom(atom, e) ==
    IF e.kind = "ATOM_STATE"
    THEN [atom EXCEPT !.state = e.state,
                      !.intention = Or(e.intention, @),
                      !.progress = e.progress,
                      !.failure = Or(e.failure, @),
                      !.result = @ \/ e.result]
    ELSE [atom EXCEPT !.intention = Or(e.intention, @),
                      !.progress = e.progress,
                      !.details = e.details]

\* fold(), and flow_from_event() for a run's first event.
EmptyFlow == [state |-> None, atoms |-> <<>>]

AtomOf(flow, a) == IF a \in DOMAIN flow.atoms THEN flow.atoms[a] ELSE Fresh

Fold(flow, e) ==
    IF e.kind = "FLOW_STATE"
    THEN [flow EXCEPT !.state = e.state]
    ELSE [flow EXCEPT !.atoms =
            [a \in DOMAIN flow.atoms \cup {e.atom} |->
                IF a = e.atom THEN FoldAtom(AtomOf(flow, a), e) ELSE flow.atoms[a]]]

-----------------------------------------------------------------------------
\* What the events of a diff reproduce of an atom.  They do not reproduce
\* what is cleared or what changes while the state stays: a failure, a
\* result and an intention are told with a state event, and never untold.
Shown(atom) == [state |-> atom.state, progress |-> atom.progress, details |-> atom.details]
=============================================================================
