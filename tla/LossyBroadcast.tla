---------------------------- MODULE LossyBroadcast ----------------------------
(***************************************************************************)
(* What an event pipeline promises, with no queue, no threads and no batch *)
(* in it.  Events enter in one order; every publisher receives some of     *)
(* them, in that order and at most once; an event that is lost reaches     *)
(* nobody, before or after; and no more events are lost than are counted.  *)
(***************************************************************************)
EXTENDS Naturals, Sequences, FiniteSets

CONSTANTS Event, Publishers, BatchSize

VARIABLES accepted,  \* events in the order they entered
          received,  \* what each publisher has received
          lost,      \* events that will reach nobody
          dropped    \* the count of losses that is reported

vars == <<accepted, received, lost, dropped>>

Elements(s) == {s[i] : i \in DOMAIN s}

\* Position of an event among those accepted; they are distinct.
Position(e) == CHOOSE i \in DOMAIN accepted : accepted[i] = e

InOrder(s) ==
    \A j, k \in DOMAIN s : j < k => Position(s[j]) < Position(s[k])

Init ==
    /\ accepted = <<>> /\ lost = {} /\ dropped = 0
    /\ received = [i \in Publishers |-> <<>>]

Accept(e) ==
    /\ e \notin Elements(accepted) \cup lost
    /\ accepted' = Append(accepted, e)
    /\ UNCHANGED <<received, lost, dropped>>

Lose(e) ==
    /\ e \notin lost /\ \A i \in Publishers : e \notin Elements(received[i])
    /\ lost' = lost \cup {e}
    /\ dropped' = dropped + 1
    /\ UNCHANGED <<accepted, received>>

\* The count may run ahead of the losses, never behind.
CountTooMany ==
    /\ dropped' = dropped + 1
    /\ UNCHANGED <<accepted, received, lost>>

\* Publisher i receives the accepted events at f[1] < f[2] < ... < f[n].
Emit(i) ==
    \E n \in 1..BatchSize : \E f \in [1..n -> DOMAIN accepted] :
        LET es == [k \in 1..n |-> accepted[f[k]]]
        IN  /\ Elements(es) \cap lost = {}
            /\ InOrder(received[i] \o es)
            /\ received' = [received EXCEPT ![i] = @ \o es]
            /\ UNCHANGED <<accepted, lost, dropped>>

Next == \/ \E e \in Event : Accept(e) \/ Lose(e)
        \/ CountTooMany
        \/ \E i \in Publishers : Emit(i)

Spec == Init /\ [][Next]_vars
=============================================================================
