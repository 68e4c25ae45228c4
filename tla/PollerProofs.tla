----------------------------- MODULE PollerProofs -----------------------------
(***************************************************************************)
(* What the poller's loop keeps, for any runs, any atoms, and any changes  *)
(* of the source:                                                          *)
(*   - what the events of a diff make of an atom, for every state,         *)
(*     progress, details, failure, result and intention;                   *)
(*   - the numbers it gives to the events, whatever the events are;        *)
(*   - what the store shows, at every event, of what the poller has seen.  *)
(***************************************************************************)
EXTENDS Poller, SortedNumbersProofs

CONSTANTS States, Intentions, Details, Failures

Atom == [state : States, intention : Intentions, progress : Nat, details : Details,
         failure : Failures, result : BOOLEAN]

\* An atom after the state event, and after both events, of one diff: they
\* are the events of AtomEvents, and fold() takes them in this order.
AfterState(a, stored, before, current) ==
    IF StateChanged(before, current)
    THEN FoldAtom(stored, StateEvent(a, before, current)) ELSE stored

AfterBoth(a, stored, before, current) ==
    IF ProgressChanged(before, current)
    THEN FoldAtom(AfterState(a, stored, before, current), ProgressEvent(a, current))
    ELSE AfterState(a, stored, before, current)

\* The stored atom agrees with the snapshot the diff starts from on all that
\* the diff finds unchanged.
Agrees(stored, before, current) ==
    /\ stored.progress = before.progress
    /\ stored.details = before.details
    /\ StateChanged(before, current) \/ stored.state = before.state

-----------------------------------------------------------------------------
\* The events of AtomEvents are these two, each when its condition holds.
LEMMA EventsOfAnAtom ==
    ASSUME NEW a, NEW before, NEW current
    PROVE  AtomEvents(a, before, current) =
             (IF StateChanged(before, current) THEN <<StateEvent(a, before, current)>> ELSE <<>>)
             \o (IF ProgressChanged(before, current) THEN <<ProgressEvent(a, current)>> ELSE <<>>)
BY DEF AtomEvents, EventsIf

\* Fields of the events that fold_atom() reads.
LEMMA StateEventFields ==
    ASSUME NEW a, NEW before, NEW current
    PROVE  LET e == StateEvent(a, before, current)
           IN  /\ e.kind = "ATOM_STATE" /\ e.atom = a
               /\ e.state = current.state
               /\ e.progress = current.progress
               /\ e.intention = current.intention
               /\ e.result = current.result
BY DEF StateEvent, Blank

LEMMA ProgressEventFields ==
    ASSUME NEW a, NEW current
    PROVE  LET e == ProgressEvent(a, current)
           IN  /\ e.kind = "ATOM_PROGRESS" /\ e.atom = a
               /\ e.progress = current.progress
               /\ e.details = current.details
BY DEF ProgressEvent, Blank

\* A state event brings state and progress up to date and keeps the details.
LEMMA FoldState ==
    ASSUME NEW a, NEW stored \in Atom, NEW before, NEW current \in Atom
    PROVE  LET after == FoldAtom(stored, StateEvent(a, before, current))
           IN  /\ after.state = current.state
               /\ after.progress = current.progress
               /\ after.details = stored.details
BY StateEventFields DEF FoldAtom, Atom

\* A progress event brings progress and details up to date and keeps the state.
LEMMA FoldProgress ==
    ASSUME NEW a, NEW stored, NEW current \in Atom,
           DOMAIN stored = DOMAIN Fresh
    PROVE  LET after == FoldAtom(stored, ProgressEvent(a, current))
           IN  /\ after.state = stored.state
               /\ after.progress = current.progress
               /\ after.details = current.details
BY ProgressEventFields DEF FoldAtom, Atom, Fresh

\* Whatever the store made of an atom's failures, results and intentions,
\* after the events of a diff it shows the state, the progress and the
\* details of the snapshot the diff came to (fold.py:15, as far as it is so).
THEOREM DiffReproducesWhatIsShown ==
    ASSUME NEW a, NEW stored \in Atom, NEW before, NEW current \in Atom,
           Agrees(stored, before, current)
    PROVE  Shown(AfterBoth(a, stored, before, current)) = Shown(current)
<1> DEFINE mid == AfterState(a, stored, before, current)
<1>1. mid.state = current.state /\ mid.details = before.details /\ DOMAIN mid = DOMAIN Fresh
  <2>1. CASE StateChanged(before, current)
    BY <2>1, FoldState, StateEventFields DEF AfterState, Agrees, FoldAtom, Atom, Fresh
  <2>2. CASE ~StateChanged(before, current)
    BY <2>2 DEF AfterState, Agrees, StateChanged, Atom, Fresh
  <2> QED BY <2>1, <2>2
<1>2. CASE ProgressChanged(before, current)
  BY <1>1, <1>2, FoldProgress DEF AfterBoth, Shown
<1>3. CASE ~ProgressChanged(before, current)
  <2>1. mid.progress = current.progress
    BY <1>3, FoldState DEF AfterState, Agrees, ProgressChanged
  <2> QED BY <1>1, <1>3, <2>1 DEF AfterBoth, Shown, ProgressChanged
<1> QED BY <1>2, <1>3

\* The same for an atom seen for the first time, which the store has not.
COROLLARY FirstSightIsShown ==
    ASSUME NEW a, NEW current \in Atom, Fresh \in Atom, current.state # "unseen"
    PROVE  Shown(AfterBoth(a, Fresh, NoAtom, current)) = Shown(current)
<1>1. Agrees(Fresh, NoAtom, current)
  BY DEF Agrees, NoAtom, Fresh, StateChanged
<1> QED BY <1>1, DiffReproducesWhatIsShown
-----------------------------------------------------------------------------
(* The events of a diff are a sequence, which nobody writes down: they are *)
(* flattened from a sequence of sequences, by recursion.                   *)

\* The recursion of FlattenSeq over the first n sequences.
Flattens(f, ss, n) ==
    f = [i \in 1..n |-> IF i = 1 THEN ss[i] ELSE f[i - 1] \o ss[i]]

LEMMA FlattenExists ==
    ASSUME NEW X, NEW ss \in Seq(Seq(X)), Len(ss) # 0
    PROVE  \E f : Flattens(f, ss, Len(ss))
<1> DEFINE Bad == {n \in 1..Len(ss) : ~ \E f : Flattens(f, ss, n)}
<1>1. Bad = {}
  <2> SUFFICES ASSUME Bad # {} PROVE FALSE
      OBVIOUS
  <2>1. Bad \in SUBSET Nat
      OBVIOUS
  <2>2. PICK n \in Bad : \A k \in Bad : n <= k
      BY <2>1, Smallest
  <2>3. n \in Nat /\ n \in 1..Len(ss) /\ ~ \E f : Flattens(f, ss, n)
      OBVIOUS
  <2>4. CASE n = 1
    <3> DEFINE g == [i \in 1..1 |-> ss[i]]
    <3>1. g = [i \in 1..1 |-> IF i = 1 THEN ss[i] ELSE g[i - 1] \o ss[i]]
        OBVIOUS
    <3> QED  BY <2>3, <2>4, <3>1 DEF Flattens
  <2>5. CASE n # 1
    <3>1. n - 1 \in 1..Len(ss) /\ n - 1 \notin Bad
      <4>1. n - 1 \in 1..Len(ss) /\ n - 1 \in Nat /\ ~(n <= n - 1)
          BY <2>3, <2>5
      <4> HIDE DEF Bad
      <4> QED  BY <2>2, <4>1
    <3>2. PICK f : Flattens(f, ss, n - 1)
        BY <3>1
    <3> DEFINE g == [i \in 1..n |-> IF i = n THEN f[n - 1] \o ss[n] ELSE f[i]]
    <3>3. ASSUME NEW i \in 1..n
          PROVE  g[i] = IF i = 1 THEN ss[i] ELSE g[i - 1] \o ss[i]
      <4>1. CASE i = n
        <5>1. n - 1 \in 1..n /\ n - 1 # n /\ g[n - 1] = f[n - 1]
            BY <2>3, <2>5
        <5> QED  BY <2>3, <2>5, <4>1, <5>1
      <4>2. CASE i # n
        <5>1. i \in 1..(n - 1) /\ g[i] = f[i]
            BY <2>3, <4>2
        <5>2. f[i] = IF i = 1 THEN ss[i] ELSE f[i - 1] \o ss[i]
            BY <3>2, <5>1 DEF Flattens
        <5>3. i # 1 => i - 1 \in 1..n /\ i - 1 # n /\ g[i - 1] = f[i - 1]
            BY <2>3, <4>2
        <5> QED  BY <5>1, <5>2, <5>3
      <4> QED  BY <4>1, <4>2
    <3>4. g = [i \in 1..n |-> IF i = 1 THEN ss[i] ELSE g[i - 1] \o ss[i]]
        BY <3>3
    <3> QED  BY <2>3, <3>4 DEF Flattens
  <2> QED  BY <2>4, <2>5
<1>2. Len(ss) \in 1..Len(ss)
    OBVIOUS
<1> QED  BY <1>1, <1>2

\* What a sequence holds, and what two of them hold one behind the other.
Holds(s, x) == \E i \in DOMAIN s : s[i] = x

LEMMA ConcatHolds ==
    ASSUME NEW X, NEW s \in Seq(X), NEW t \in Seq(X)
    PROVE  /\ s \o t \in Seq(X)
           /\ \A x : Holds(s \o t, x) <=> Holds(s, x) \/ Holds(t, x)
<1>1. /\ Len(s) \in Nat /\ Len(t) \in Nat /\ DOMAIN s = 1..Len(s) /\ DOMAIN t = 1..Len(t)
    BY LenProperties
<1>2. /\ s \o t \in Seq(X) /\ Len(s \o t) = Len(s) + Len(t)
      /\ \A i \in 1..(Len(s) + Len(t)) :
            (s \o t)[i] = IF i <= Len(s) THEN s[i] ELSE t[i - Len(s)]
    BY ConcatProperties
<1> DEFINE u == s \o t
<1>3. DOMAIN u = 1..(Len(s) + Len(t))
    BY <1>2, LenProperties
<1> HIDE DEF u
<1>4. ASSUME NEW x, Holds(u, x) PROVE Holds(s, x) \/ Holds(t, x)
  <2>1. PICK i \in 1..(Len(s) + Len(t)) : u[i] = x
      BY <1>3, <1>4 DEF Holds
  <2>2. CASE i <= Len(s)
    <3>1. i \in DOMAIN s /\ s[i] = x
        BY <1>1, <1>2, <2>1, <2>2 DEF u
    <3> QED  BY <3>1 DEF Holds
  <2>3. CASE ~(i <= Len(s))
    <3>1. i - Len(s) \in DOMAIN t /\ t[i - Len(s)] = x
        BY <1>1, <1>2, <2>1, <2>3 DEF u
    <3> QED  BY <3>1 DEF Holds
  <2> QED  BY <2>2, <2>3
<1>5. ASSUME NEW x, Holds(s, x) PROVE Holds(u, x)
  <2>1. PICK i \in DOMAIN s : s[i] = x
      BY <1>5 DEF Holds
  <2>2. i \in 1..(Len(s) + Len(t)) /\ i <= Len(s)
      BY <1>1
  <2>3. u[i] = x
      BY <1>2, <2>1, <2>2 DEF u
  <2> QED  BY <1>3, <2>2, <2>3 DEF Holds
<1>6. ASSUME NEW x, Holds(t, x) PROVE Holds(u, x)
  <2>1. PICK i \in DOMAIN t : t[i] = x
      BY <1>6 DEF Holds
  <2>2. Len(s) + i \in 1..(Len(s) + Len(t)) /\ ~(Len(s) + i <= Len(s)) /\ (Len(s) + i) - Len(s) = i
      BY <1>1
  <2>3. u[Len(s) + i] = x
      BY <1>2, <2>1, <2>2 DEF u
  <2> QED  BY <1>3, <2>2, <2>3 DEF Holds
<1> QED  BY <1>2, <1>4, <1>5, <1>6 DEF u

\* Flattening gives a sequence of what the sequences hold.
LEMMA FlattenHolds ==
    ASSUME NEW X, NEW ss \in Seq(Seq(X))
    PROVE  /\ FlattenSeq(ss) \in Seq(X)
           /\ \A x : Holds(FlattenSeq(ss), x) <=> \E i \in DOMAIN ss : Holds(ss[i], x)
<1>0. Len(ss) \in Nat /\ DOMAIN ss = 1..Len(ss)
    BY LenProperties
<1>1. CASE Len(ss) = 0
  <2>1. ss = <<>> /\ FlattenSeq(ss) = <<>>
      BY <1>1 DEF FlattenSeq
  <2>2. <<>> \in Seq(X) /\ DOMAIN ss = {} /\ DOMAIN <<>> = {}
      BY <1>0, <1>1
  <2>3. \A x : ~Holds(<<>>, x)
      BY <2>2 DEF Holds
  <2> QED  BY <2>1, <2>2, <2>3
<1>2. CASE Len(ss) # 0
  <2> DEFINE f == CHOOSE f : f = [i \in 1..Len(ss) |-> IF i = 1 THEN ss[i] ELSE f[i - 1] \o ss[i]]
  <2>1. \E h : h = [i \in 1..Len(ss) |-> IF i = 1 THEN ss[i] ELSE h[i - 1] \o ss[i]]
      BY <1>2, FlattenExists DEF Flattens
  <2>2. f = [i \in 1..Len(ss) |-> IF i = 1 THEN ss[i] ELSE f[i - 1] \o ss[i]]
      BY <2>1
  <2>3. FlattenSeq(ss) = f[Len(ss)]
      BY <1>2 DEF FlattenSeq
  <2> HIDE DEF f
  <2>4. \A i \in 1..Len(ss) : f[i] = IF i = 1 THEN ss[i] ELSE f[i - 1] \o ss[i]
      BY <2>2
  <2> DEFINE Good(i) == /\ f[i] \in Seq(X)
                        /\ \A x : Holds(f[i], x) <=> \E k \in 1..i : Holds(ss[k], x)
             Bad == {i \in 1..Len(ss) : ~Good(i)}
  <2>5. Bad = {}
    <3> SUFFICES ASSUME Bad # {} PROVE FALSE
        OBVIOUS
    <3>1. Bad \in SUBSET Nat
        OBVIOUS
    <3>2. PICK i \in Bad : \A k \in Bad : i <= k
        BY <3>1, Smallest
    <3>3. i \in 1..Len(ss) /\ ~Good(i) /\ ss[i] \in Seq(X)
        OBVIOUS
    <3> HIDE DEF Good
    <3>4. CASE i = 1
      <4>1. f[1] = ss[1] /\ 1..1 = {1}
          BY <2>4, <3>3, <3>4
      <4> QED  BY <3>3, <3>4, <4>1 DEF Good
    <3>5. CASE i # 1
      <4>1. i - 1 \in 1..Len(ss) /\ i - 1 \notin Bad
          BY <3>2, <3>3, <3>5
      <4>2. Good(i - 1)
          BY <4>1
      <4>3. f[i] = f[i - 1] \o ss[i]
          BY <2>4, <3>3, <3>5
      <4>4. /\ f[i] \in Seq(X)
            /\ \A x : Holds(f[i], x) <=> Holds(f[i - 1], x) \/ Holds(ss[i], x)
          BY <3>3, <4>2, <4>3, ConcatHolds DEF Good
      <4>5. 1..i = 1..(i - 1) \cup {i}
          BY <3>3, <3>5
      <4>6. \A x : Holds(f[i - 1], x) <=> \E k \in 1..(i - 1) : Holds(ss[k], x)
          BY <4>2 DEF Good
      <4>7. \A x : Holds(f[i], x) <=> \E k \in 1..i : Holds(ss[k], x)
          BY <4>4, <4>5, <4>6
      <4> QED  BY <3>3, <4>4, <4>7 DEF Good
    <3> QED  BY <3>4, <3>5
  <2>6. Good(Len(ss))
    <3>1. Len(ss) \in 1..Len(ss)
        BY <1>0, <1>2
    <3> HIDE DEF Good
    <3>2. \A i \in 1..Len(ss) : Good(i)
        BY <2>5
    <3> QED  BY <3>1, <3>2
  <2> QED  BY <1>0, <2>3, <2>6
<1> QED  BY <1>1, <1>2

\* The atom that a diff compares with.
Was(old, a) == IF a \in DOMAIN old.atoms THEN old.atoms[a] ELSE NoAtom

\* The events of an atom, when its state or its progress has changed.
Tells(e, a, old, new) ==
    \/ /\ StateChanged(Was(old, a), new.atoms[a])
       /\ e = StateEvent(a, Was(old, a), new.atoms[a])
    \/ /\ ProgressChanged(Was(old, a), new.atoms[a])
       /\ e = ProgressEvent(a, new.atoms[a])

\* The events explain how old became new: all that changed, and nothing else.
Explains(events, old, new) ==
    \A e : Holds(events, e) <=>
        \/ old.state # new.state /\ e = FlowEvent(new)
        \/ \E a \in DOMAIN new.atoms : Tells(e, a, old, new)

\* The flow's own event comes last if the flow finishes, and else first.
InTurn(events, new) ==
    \A i \in DOMAIN events : events[i].kind = "FLOW_STATE" =>
        i = IF new.state \in FlowFinishStates THEN Len(events) ELSE 1

LEMMA EventsIfHolds ==
    ASSUME NEW X, NEW e \in X, NEW condition \in BOOLEAN
    PROVE  /\ EventsIf(condition, e) \in Seq(X)
           /\ \A x : Holds(EventsIf(condition, e), x) <=> condition /\ x = e
<1>1. CASE condition
  <2>1. EventsIf(condition, e) = <<e>> /\ DOMAIN <<e>> = {1} /\ <<e>>[1] = e /\ <<e>> \in Seq(X)
      BY <1>1 DEF EventsIf
  <2> QED  BY <1>1, <2>1 DEF Holds
<1>2. CASE ~condition
  <2>1. EventsIf(condition, e) = <<>> /\ DOMAIN <<>> = {} /\ <<>> \in Seq(X)
      BY <1>2 DEF EventsIf
  <2> QED  BY <1>2, <2>1 DEF Holds
<1> QED  BY <1>1, <1>2

\* The events of the atoms, in a sequence of whatever the events are.
LEMMA AllAtomEventsHold ==
    ASSUME NEW old, NEW new, DOMAIN new.atoms \in SUBSET Nat, IsFiniteSet(DOMAIN new.atoms),
           NEW X, \A a \in DOMAIN new.atoms :
                    StateEvent(a, Was(old, a), new.atoms[a]) \in X
                    /\ ProgressEvent(a, new.atoms[a]) \in X
    PROVE  /\ AllAtomEvents(old, new) \in Seq(X)
           /\ \A e : Holds(AllAtomEvents(old, new), e) <=>
                        \E a \in DOMAIN new.atoms : Tells(e, a, old, new)
<1> DEFINE n == Cardinality(DOMAIN new.atoms)
           names == Ascending(DOMAIN new.atoms)
           ss == [i \in DOMAIN names |->
                    AtomEvents(names[i], Was(old, names[i]), new.atoms[names[i]])]
<1>1. n \in Nat
    BY FS_CardinalityType
<1>2. names \in [1..n -> DOMAIN new.atoms] /\ \A a \in DOMAIN new.atoms : \E i \in 1..n : names[i] = a
    BY AscendingSorts, AscendingCovers DEF Sorts
<1>3. \A a \in DOMAIN new.atoms :
        /\ AtomEvents(a, Was(old, a), new.atoms[a]) \in Seq(X)
        /\ \A e : Holds(AtomEvents(a, Was(old, a), new.atoms[a]), e) <=> Tells(e, a, old, new)
  <2> SUFFICES ASSUME NEW a \in DOMAIN new.atoms
               PROVE  /\ AtomEvents(a, Was(old, a), new.atoms[a]) \in Seq(X)
                      /\ \A e : Holds(AtomEvents(a, Was(old, a), new.atoms[a]), e)
                                    <=> Tells(e, a, old, new)
      OBVIOUS
  <2> DEFINE p == StateChanged(Was(old, a), new.atoms[a])
             q == ProgressChanged(Was(old, a), new.atoms[a])
             d == StateEvent(a, Was(old, a), new.atoms[a])
             e == ProgressEvent(a, new.atoms[a])
  <2>1. d \in X /\ e \in X /\ p \in BOOLEAN /\ q \in BOOLEAN
      BY DEF StateChanged, ProgressChanged
  <2>2. AtomEvents(a, Was(old, a), new.atoms[a]) = EventsIf(p, d) \o EventsIf(q, e)
      BY DEF AtomEvents
  <2>3. \A x : Tells(x, a, old, new) <=> (p /\ x = d) \/ (q /\ x = e)
      BY DEF Tells
  <2> HIDE DEF p, q, d, e
  <2>4. /\ EventsIf(p, d) \in Seq(X) /\ EventsIf(q, e) \in Seq(X)
        /\ \A x : Holds(EventsIf(p, d), x) <=> p /\ x = d
        /\ \A x : Holds(EventsIf(q, e), x) <=> q /\ x = e
      BY <2>1, EventsIfHolds
  <2>5. /\ EventsIf(p, d) \o EventsIf(q, e) \in Seq(X)
        /\ \A x : Holds(EventsIf(p, d) \o EventsIf(q, e), x)
                    <=> Holds(EventsIf(p, d), x) \/ Holds(EventsIf(q, e), x)
      BY <2>4, ConcatHolds
  <2> QED  BY <2>2, <2>3, <2>4, <2>5
<1>4. AllAtomEvents(old, new) = FlattenSeq(ss)
    BY DEF AllAtomEvents, Was
<1> HIDE DEF names, n
<1>5. ss \in Seq(Seq(X)) /\ DOMAIN ss = 1..n
    BY <1>1, <1>2, <1>3
<1>6. \A i \in 1..n : ss[i] = AtomEvents(names[i], Was(old, names[i]), new.atoms[names[i]])
    BY <1>2
<1> HIDE DEF ss
<1>7. \A e : (\E i \in DOMAIN ss : Holds(ss[i], e)) <=>
                \E a \in DOMAIN new.atoms : Tells(e, a, old, new)
  <2>1. ASSUME NEW e, NEW i \in 1..n, Holds(ss[i], e)
        PROVE  \E a \in DOMAIN new.atoms : Tells(e, a, old, new)
    <3>1. names[i] \in DOMAIN new.atoms
        BY <1>2
    <3> QED  BY <1>3, <1>6, <2>1, <3>1
  <2>2. ASSUME NEW e, NEW a \in DOMAIN new.atoms, Tells(e, a, old, new)
        PROVE  \E i \in 1..n : Holds(ss[i], e)
    <3>1. PICK i \in 1..n : names[i] = a
        BY <1>2
    <3>2. Holds(ss[i], e)
        BY <1>3, <1>6, <2>2, <3>1
    <3> QED  BY <3>2
  <2> QED  BY <1>5, <2>1, <2>2
<1> QED  BY <1>4, <1>5, <1>7, FlattenHolds

\* A diff is a sequence of the events that explain it, in turn.
LEMMA DiffExplains ==
    ASSUME NEW old, NEW new, DOMAIN new.atoms \in SUBSET Nat, IsFiniteSet(DOMAIN new.atoms)
    PROVE  /\ \E X : Diff(old, new) \in Seq(X)
           /\ Explains(Diff(old, new), old, new)
           /\ InTurn(Diff(old, new), new)
<1> DEFINE X == {StateEvent(a, Was(old, a), new.atoms[a]) : a \in DOMAIN new.atoms}
                \cup {ProgressEvent(a, new.atoms[a]) : a \in DOMAIN new.atoms} \cup {FlowEvent(new)}
           all == AllAtomEvents(old, new)
           own == FlowEvents(old, new)
<1>1. FlowEvent(new) \in X
    OBVIOUS
<1>2. \A a \in DOMAIN new.atoms : StateEvent(a, Was(old, a), new.atoms[a]) \in X
                                  /\ ProgressEvent(a, new.atoms[a]) \in X
    OBVIOUS
<1> HIDE DEF X
<1>3. /\ all \in Seq(X)
      /\ \A e : Holds(all, e) <=> \E a \in DOMAIN new.atoms : Tells(e, a, old, new)
    BY <1>2, AllAtomEventsHold
<1>4. /\ own \in Seq(X)
      /\ \A e : Holds(own, e) <=> old.state # new.state /\ e = FlowEvent(new)
    BY <1>1, EventsIfHolds DEF FlowEvents
<1>5. Len(own) \in 0..1
    BY DEF FlowEvents, EventsIf
<1>6. \A i \in DOMAIN all : all[i].kind # "FLOW_STATE"
  <2> SUFFICES ASSUME NEW i \in DOMAIN all PROVE all[i].kind # "FLOW_STATE"
      OBVIOUS
  <2> HIDE DEF all
  <2>1. PICK a \in DOMAIN new.atoms : Tells(all[i], a, old, new)
      BY <1>3 DEF Holds
  <2> QED  BY <2>1, StateEventFields, ProgressEventFields DEF Tells
<1> HIDE DEF all, own
<1>7. /\ Len(all) \in Nat /\ DOMAIN all = 1..Len(all)
    BY <1>3, LenProperties
<1>8. CASE new.state \in FlowFinishStates
  <2>1. Diff(old, new) = all \o own
      BY <1>8 DEF Diff, all, own
  <2>2. /\ all \o own \in Seq(X)
        /\ \A e : Holds(all \o own, e) <=> Holds(all, e) \/ Holds(own, e)
      BY <1>3, <1>4, ConcatHolds
  <2>3. Explains(all \o own, old, new)
      BY <1>3, <1>4, <2>2 DEF Explains
  <2>4. InTurn(all \o own, new)
    <3> DEFINE u == all \o own
    <3>1. /\ Len(u) = Len(all) + Len(own) /\ DOMAIN u = 1..(Len(all) + Len(own))
          /\ \A i \in 1..(Len(all) + Len(own)) :
                u[i] = IF i <= Len(all) THEN all[i] ELSE own[i - Len(all)]
        BY <1>3, <1>4, <2>2, ConcatProperties, LenProperties
    <3> HIDE DEF u
    <3> SUFFICES ASSUME NEW i \in DOMAIN u, u[i].kind = "FLOW_STATE" PROVE i = Len(u)
        BY <1>8 DEF InTurn, u
    <3>2. ~(i <= Len(all))
        BY <1>6, <1>7, <3>1
    <3> QED  BY <1>5, <1>7, <3>1, <3>2
  <2> QED  BY <2>1, <2>2, <2>3, <2>4
<1>9. CASE new.state \notin FlowFinishStates
  <2>1. Diff(old, new) = own \o all
      BY <1>9 DEF Diff, all, own
  <2>2. /\ own \o all \in Seq(X)
        /\ \A e : Holds(own \o all, e) <=> Holds(own, e) \/ Holds(all, e)
      BY <1>3, <1>4, ConcatHolds
  <2>3. Explains(own \o all, old, new)
      BY <1>3, <1>4, <2>2 DEF Explains
  <2>4. InTurn(own \o all, new)
    <3> DEFINE u == own \o all
    <3>1. /\ DOMAIN u = 1..(Len(own) + Len(all))
          /\ \A i \in 1..(Len(own) + Len(all)) :
                u[i] = IF i <= Len(own) THEN own[i] ELSE all[i - Len(own)]
        BY <1>3, <1>4, <2>2, ConcatProperties, LenProperties
    <3> HIDE DEF u
    <3> SUFFICES ASSUME NEW i \in DOMAIN u, u[i].kind = "FLOW_STATE" PROVE i = 1
        BY <1>9 DEF InTurn, u
    <3>2. i <= Len(own)
      <4> SUFFICES ASSUME ~(i <= Len(own)) PROVE FALSE
          OBVIOUS
      <4>1. u[i] = all[i - Len(own)] /\ i - Len(own) \in DOMAIN all
          BY <1>5, <1>7, <3>1
      <4> QED  BY <1>6, <4>1
    <3> QED  BY <1>5, <1>7, <3>1, <3>2
  <2> QED  BY <2>1, <2>2, <2>3, <2>4
<1> QED  BY <1>8, <1>9
-----------------------------------------------------------------------------
(* Types, with the shape of the snapshots: a diff goes through the atoms   *)
(* of the newer one.                                                       *)

Shaped(flow) == {"state", "atoms"} \subseteq DOMAIN flow /\ DOMAIN flow.atoms = AtomNames

TypeInv ==
    /\ TypeOK
    /\ source \in [Runs -> Range(source)] /\ \A r \in Runs : Shaped(source[r])
    /\ \A r \in DOMAIN seen : Shaped(seen[r])
    /\ log \in [Runs -> Seq(Nat)]
    /\ \E X : out \in Seq(X)

\* The last number of a run that is stored, once its log has no hole: what
\* has been allocated, but for the events on their way into a memory store.
Settled(r) == IF out # <<>> /\ out[1].run = r THEN counter[r] - Len(out) ELSE counter[r]

\* The events on their way are of one run, numbered in their order up to the
\* run's counter.
InFlight ==
    \A i \in DOMAIN out :
        /\ out[i].run = out[1].run /\ out[i].run \in Runs
        /\ out[i].seq = counter[out[1].run] - Len(out) + i

\* A run's numbers are stored in their order, and are those up to the ones
\* on their way; as long as no transaction failed they are all there.
Ordered ==
    \A r \in Runs :
        /\ Settled(r) \in Nat
        /\ \A i, j \in DOMAIN log[r] : i < j => log[r][i] < log[r][j]
        /\ \A i \in DOMAIN log[r] : log[r][i] \in 1..Settled(r)
        /\ failures = 0 => Len(log[r]) = Settled(r) /\ \A i \in DOMAIN log[r] : log[r][i] = i

NumbersInv == InFlight /\ Ordered

LEMMA TypeInit == Init => TypeInv
<1> SUFFICES ASSUME Init PROVE TypeInv
    OBVIOUS
<1>1. /\ kind \in {"memory", "sqlalchemy"} /\ visible = Runs
      /\ previous = <<>> /\ seen = <<>> /\ todo = {} /\ out = <<>> /\ polling = FALSE
      /\ counter = [r \in Runs |-> 0] /\ log = [r \in Runs |-> <<>>]
      /\ changes = 0 /\ failures = 0 /\ mislaid = {}
    BY DEF Init
<1>2. DOMAIN previous = {} /\ DOMAIN seen = {}
    BY <1>1
<1>3. \A r \in Runs : Len(log[r]) = 0 /\ DOMAIN log[r] = {} /\ log[r] \in Seq(Nat)
    BY <1>1
<1>4. log \in [Runs -> Seq(Nat)]
    BY <1>1, <1>3
<1>5. TypeOK
  <2>1. counter \in [Runs -> Nat] /\ \A r \in Runs : \A i \in DOMAIN log[r] : log[r][i] \in 1..counter[r]
      BY <1>1, <1>3
  <2>2. changes \in 0..MaxChanges /\ failures \in 0..MaxFailures
      BY <1>1, PollerAssumption
  <2>3. /\ visible \subseteq Runs /\ DOMAIN previous \subseteq Runs /\ DOMAIN seen \subseteq Runs
        /\ todo \subseteq DOMAIN seen /\ mislaid \subseteq Runs
      BY <1>1, <1>2
  <2>4. /\ kind \in {"memory", "sqlalchemy"} /\ polling \in BOOLEAN
        /\ (~polling => seen = <<>> /\ out = <<>>) /\ (out # <<>> => kind = "memory")
      BY <1>1
  <2> QED  BY <2>1, <2>2, <2>3, <2>4 DEF TypeOK
<1>6. \A r \in Runs : Shaped(source[r])
  <2> SUFFICES ASSUME NEW r \in Runs PROVE Shaped(source[r])
      OBVIOUS
  <2>1. PICK s, atom : source[r] = Snapshot(s, atom)
      BY DEF Init
  <2> QED  BY <2>1 DEF Shaped, Snapshot
<1>7. source \in [Runs -> Range(source)]
    BY DEF Init, Range
<1>8. out \in Seq({})
    BY <1>1
<1> QED  BY <1>2, <1>4, <1>5, <1>6, <1>7, <1>8 DEF TypeInv

\* A step of a run keeps its atoms.
LEMMA StepsKeepShape ==
    ASSUME NEW flow, Shaped(flow), NEW next \in Steps(flow)
    PROVE  Shaped(next)
<1>1. CASE \E s \in FlowSteps(flow) : next = [flow EXCEPT !.state = s]
    BY <1>1 DEF Shaped
<1>2. CASE \E a \in DOMAIN flow.atoms : \E atom \in AtomSteps(flow.atoms[a]) :
              next = [flow EXCEPT !.atoms[a] = atom]
    BY <1>2 DEF Shaped
<1>3. CASE flow.state = "RUNNING"
    BY <1>1, <1>2, <1>3 DEF Steps
<1>4. CASE flow.state # "RUNNING"
    BY <1>1, <1>4 DEF Steps
<1> QED  BY <1>3, <1>4

LEMMA TypeKeptBySource == TypeInv /\ SourceChanges => TypeInv'
<1> SUFFICES ASSUME TypeInv, SourceChanges PROVE TypeInv'
    OBVIOUS
<1>1. /\ changes < MaxChanges /\ changes' = changes + 1
      /\ UNCHANGED <<kind, previous, storeVars, pollVars, failures, mislaid>>
    BY DEF SourceChanges
<1>2. TypeOK
    BY DEF TypeInv
<1>3. PICK r \in Runs :
        \/ \E flow \in Steps(source[r]) :
              source' = [source EXCEPT ![r] = flow] /\ UNCHANGED visible
        \/ /\ visible' = IF r \in visible THEN visible \ {r} ELSE visible \cup {r}
           /\ UNCHANGED source
    BY DEF SourceChanges
<1>4. visible' \subseteq Runs
    BY <1>2, <1>3 DEF TypeOK
<1>5. source' \in [Runs -> Range(source')] /\ \A x \in Runs : Shaped(source'[x])
  <2>1. CASE UNCHANGED source
      BY <2>1 DEF TypeInv, Range
  <2>2. CASE \E flow \in Steps(source[r]) : source' = [source EXCEPT ![r] = flow]
    <3>1. PICK flow \in Steps(source[r]) : source' = [source EXCEPT ![r] = flow]
        BY <2>2
    <3>2. Shaped(flow)
        BY <3>1, StepsKeepShape DEF TypeInv
    <3>3. \A x \in Runs : source'[x] = IF x = r THEN flow ELSE source[x]
        BY <3>1 DEF TypeInv
    <3>4. source' \in [Runs -> Range(source')]
        BY <3>1 DEF TypeInv, Range
    <3>5. \A x \in Runs : Shaped(source'[x])
        BY <3>2, <3>3 DEF TypeInv
    <3> QED  BY <3>4, <3>5
  <2> QED  BY <1>3, <2>1, <2>2
<1>6. changes' \in 0..MaxChanges
    BY <1>1, <1>2, PollerAssumption DEF TypeOK
<1>7. TypeOK'
    BY <1>1, <1>2, <1>4, <1>6 DEF TypeOK, storeVars, pollVars
<1> QED  BY <1>1, <1>5, <1>7 DEF TypeInv, storeVars, pollVars, Shaped, Range

LEMMA TypeKeptByRead == TypeInv /\ Read => TypeInv'
<1> SUFFICES ASSUME TypeInv, Read PROVE TypeInv'
    OBVIOUS
<1>1. /\ polling' = TRUE /\ seen' = [r \in visible |-> source[r]] /\ todo' = visible
      /\ UNCHANGED <<kind, sourceVars, previous, storeVars, out, failures, mislaid>>
    BY DEF Read
<1>2. TypeOK'
    BY <1>1 DEF TypeInv, TypeOK, sourceVars, storeVars
<1>3. \A r \in DOMAIN seen' : Shaped(seen'[r])
    BY <1>1 DEF TypeInv, TypeOK
<1> QED  BY <1>1, <1>2, <1>3 DEF TypeInv, sourceVars, storeVars, Shaped, Range

\* Every poll ends: nothing is seen and nothing is left to tell.
LEMMA TypeKeptByFinish == TypeInv /\ Finish => TypeInv'
<1> SUFFICES ASSUME TypeInv, Finish PROVE TypeInv'
    OBVIOUS
<1>1. /\ out = <<>> /\ previous' = seen
      /\ mislaid' = mislaid \cup (DOMAIN previous \ DOMAIN seen)
      /\ polling' = FALSE /\ seen' = <<>> /\ todo' = {}
      /\ UNCHANGED <<kind, sourceVars, storeVars, out, failures>>
    BY DEF Finish, PollEnds
<1>2. DOMAIN seen' = {}
    BY <1>1
<1>3. TypeOK'
    BY <1>1, <1>2 DEF TypeInv, TypeOK, sourceVars, storeVars
<1> QED  BY <1>1, <1>2, <1>3 DEF TypeInv, sourceVars, storeVars, Shaped, Range

LEMMA NumbersKeptByOthers ==
    NumbersInv /\ UNCHANGED <<counter, log, out, failures>> => NumbersInv'
BY DEF NumbersInv, InFlight, Ordered, Settled

\* The events of the diff that a poll finds in a run.
LEMMA EventsOfARun ==
    ASSUME TypeInv, NEW r \in todo
    PROVE  /\ r \in Runs
           /\ \E X : Diff(Remembered(r), seen[r]) \in Seq(X)
<1>1. r \in DOMAIN seen /\ r \in Runs
    BY DEF TypeInv, TypeOK
<1>2. DOMAIN seen[r].atoms = AtomNames
    BY <1>1 DEF TypeInv, Shaped
<1>3. DOMAIN seen[r].atoms \in SUBSET Nat /\ IsFiniteSet(DOMAIN seen[r].atoms)
    BY <1>2, PollerAssumption
<1> QED  BY <1>1, <1>3, DiffExplains

\* The events are numbered, and are on their way or stored.
LEMMA KeptByTell ==
    ASSUME TypeInv, NumbersInv, NEW r \in Runs, Tell(r)
    PROVE  TypeInv' /\ NumbersInv'
<1>0. TypeOK /\ InFlight /\ Ordered
    BY DEF TypeInv, NumbersInv
<1> DEFINE events == Diff(Remembered(r), seen[r])
           n == Len(events)
<1>1. r \in todo /\ out = <<>>
    BY DEF Tell
<1>2. /\ counter' = [counter EXCEPT ![r] = @ + Len(events)]
      /\ Hand(r, events) \/ Commit(r, events)
      /\ todo' = todo \ {r}
      /\ UNCHANGED <<kind, sourceVars, previous, polling, seen, failures, mislaid>>
    BY DEF Tell
<1>3. PICK X : events \in Seq(X)
    BY <1>1, EventsOfARun
<1> HIDE DEF events
<1>4. n \in Nat /\ DOMAIN events = 1..n
    BY <1>3
<1> HIDE DEF n
<1>5. /\ counter \in [Runs -> Nat] /\ log \in [Runs -> Seq(Nat)]
      /\ \A x \in Runs : counter'[x] = IF x = r THEN counter[r] + n ELSE counter[x]
      /\ counter' \in [Runs -> Nat]
    BY <1>0, <1>2, <1>4 DEF TypeInv, TypeOK, n
<1>6. \A x \in Runs : Settled(x) = counter[x]
    BY <1>1 DEF Settled
<1>a. polling
    BY <1>0, <1>1 DEF TypeOK
<1>7. CASE Hand(r, events)
  <2>1. /\ kind = "memory" /\ log' = log
        /\ out' = [i \in 1..n |-> [run |-> r, seq |-> Numbers(r, n)[i], event |-> events[i]]]
      BY <1>4, <1>7 DEF Hand, n
  <2>2. \A i \in 1..n : out'[i].run = r /\ out'[i].seq = counter[r] + i
      BY <2>1 DEF Numbers
  <2>3. out' \in Seq(Range(out')) /\ Len(out') = n /\ DOMAIN out' = 1..n
    <3>1. out' \in [1..n -> Range(out')]
        BY <2>1 DEF Range
    <3> QED  BY <1>4, <3>1
  <2>4. out' # <<>> <=> n # 0
      BY <1>4, <2>3
  <2>5. TypeOK'
    <3>1. \A x \in Runs : \A i \in DOMAIN log'[x] : log'[x][i] \in 1..counter'[x]
      <4> SUFFICES ASSUME NEW x \in Runs, NEW i \in DOMAIN log[x] PROVE log[x][i] \in 1..counter'[x]
          BY <2>1
      <4>1. log[x][i] \in 1..counter[x] /\ counter[x] \in Nat
          BY <1>0, <1>5 DEF TypeOK
      <4>2. counter'[x] \in Nat /\ counter[x] <= counter'[x]
        <5>1. CASE x = r
            BY <1>4, <1>5, <4>1, <5>1
        <5>2. CASE x # r
            BY <1>5, <4>1, <5>2
        <5> QED  BY <5>1, <5>2
      <4> QED  BY <4>1, <4>2
    <3> QED  BY <1>0, <1>2, <1>5, <1>a, <2>1, <3>1 DEF TypeOK, sourceVars
  <2>6. TypeInv'
      BY <1>2, <2>1, <2>3, <2>5 DEF TypeInv, sourceVars, Shaped, Range
  <2>7. InFlight'
    <3> SUFFICES ASSUME NEW i \in 1..n
                 PROVE  /\ out'[i].run = out'[1].run /\ out'[i].run \in Runs
                        /\ out'[i].seq = counter'[out'[1].run] - Len(out') + i
        BY <2>3 DEF InFlight
    <3>1. 1 \in 1..n /\ out'[1].run = r /\ out'[i].run = r
        BY <1>4, <2>2
    <3>2. counter'[r] - Len(out') + i = counter[r] + i
        BY <1>4, <1>5, <2>3
    <3> QED  BY <2>2, <3>1, <3>2
  <2>8. \A x \in Runs : Settled(x)' = counter[x]
    <3> SUFFICES ASSUME NEW x \in Runs PROVE Settled(x)' = counter[x]
        OBVIOUS
    <3>1. CASE n = 0
      <4>1. counter'[x] = counter[x] /\ out' = <<>>
          BY <1>5, <2>4, <3>1
      <4> QED  BY <4>1 DEF Settled
    <3>2. CASE n # 0
      <4>1. out' # <<>> /\ out'[1].run = r
          BY <1>4, <2>2, <2>4, <3>2
      <4>2. CASE x = r
        <5>1. Settled(x)' = counter'[r] - n
            BY <2>3, <4>1, <4>2 DEF Settled
        <5> QED  BY <1>4, <1>5, <4>2, <5>1
      <4>3. CASE x # r
          BY <1>5, <4>1, <4>3 DEF Settled
      <4> QED  BY <4>2, <4>3
    <3> QED  BY <3>1, <3>2
  <2>9. Ordered'
      BY <1>0, <1>2, <1>6, <2>1, <2>8 DEF Ordered
  <2> QED  BY <2>6, <2>7, <2>9 DEF NumbersInv
<1>8. CASE Commit(r, events)
  <2>1. /\ kind = "sqlalchemy" /\ out' = out
        /\ log' = [log EXCEPT ![r] = log[r] \o Numbers(r, n)]
      BY <1>8 DEF Commit, n
  <2> DEFINE before == log[r]
             c == counter[r]
             more == Numbers(r, n)
             after == before \o more
  <2>2. before \in Seq(Nat) /\ Len(before) \in Nat /\ c \in Nat
      BY <1>5
  <2>3. more \in Seq(Nat) /\ Len(more) = n /\ \A i \in 1..n : more[i] = c + i
    <3>1. more = [i \in 1..n |-> c + i]
        BY DEF Numbers
    <3>2. \A i \in 1..n : c + i \in Nat
        BY <1>4, <2>2
    <3> HIDE DEF c, more
    <3> QED  BY <1>4, <3>1, <3>2
  <2> HIDE DEF before, c, more
  <2>4. /\ after \in Seq(Nat) /\ Len(after) = Len(before) + n
        /\ \A i \in 1..(Len(before) + n) :
             after[i] = IF i <= Len(before) THEN before[i] ELSE more[i - Len(before)]
      BY <2>2, <2>3, ConcatProperties
  <2>5. /\ \A i, j \in 1..Len(before) : i < j => before[i] < before[j]
        /\ \A i \in 1..Len(before) : before[i] \in 1..c
        /\ failures = 0 => Len(before) = c /\ \A i \in 1..Len(before) : before[i] = i
    <3>1. DOMAIN before = 1..Len(before) /\ Settled(r) = c
        BY <1>6, <2>2 DEF c
    <3> QED  BY <1>0, <3>1 DEF Ordered, before
  <2> HIDE DEF after
  <2>6. ASSUME NEW i \in 1..(Len(before) + n)
        PROVE  /\ i <= Len(before) => i \in 1..Len(before) /\ after[i] = before[i]
               /\ i > Len(before) => after[i] = c + (i - Len(before))
    <3>1. CASE i <= Len(before)
        BY <1>4, <2>2, <2>4, <3>1
    <3>2. CASE i > Len(before)
      <4>1. i - Len(before) \in 1..n /\ ~(i <= Len(before))
          BY <1>4, <2>2, <3>2
      <4> QED  BY <2>3, <2>4, <3>2, <4>1
    <3> QED  BY <1>4, <2>2, <3>1, <3>2
  <2>7. \A i \in 1..(Len(before) + n) : after[i] \in 1..(c + n)
    <3> SUFFICES ASSUME NEW i \in 1..(Len(before) + n) PROVE after[i] \in 1..(c + n)
        OBVIOUS
    <3>1. CASE i <= Len(before)
      <4>1. after[i] \in 1..c
          BY <2>5, <2>6, <3>1
      <4> QED  BY <1>4, <2>2, <4>1
    <3>2. CASE i > Len(before)
      <4>1. after[i] = c + (i - Len(before))
          BY <2>6, <3>2
      <4> QED  BY <1>4, <2>2, <3>2, <4>1
    <3> QED  BY <1>4, <2>2, <3>1, <3>2
  <2>8. \A i, j \in 1..(Len(before) + n) : i < j => after[i] < after[j]
    <3> SUFFICES ASSUME NEW i \in 1..(Len(before) + n), NEW j \in 1..(Len(before) + n), i < j
                 PROVE  after[i] < after[j]
        OBVIOUS
    <3>1. CASE j <= Len(before)
      <4>1. i <= Len(before)
          BY <1>4, <2>2, <3>1
      <4> QED  BY <2>5, <2>6, <3>1, <4>1
    <3>2. CASE i <= Len(before) /\ j > Len(before)
      <4>1. after[i] \in 1..c /\ after[j] = c + (j - Len(before))
          BY <2>5, <2>6, <3>2
      <4> QED  BY <1>4, <2>2, <3>2, <4>1
    <3>3. CASE i > Len(before)
      <4>1. j > Len(before)
          BY <1>4, <2>2, <3>3
      <4>2. after[i] = c + (i - Len(before)) /\ after[j] = c + (j - Len(before))
          BY <2>6, <3>3, <4>1
      <4> QED  BY <1>4, <2>2, <4>2
    <3> QED  BY <1>4, <2>2, <3>1, <3>2, <3>3
  <2>9. failures = 0 => /\ Len(after) = c + n
                        /\ \A i \in 1..(Len(before) + n) : after[i] = i
    <3> SUFFICES ASSUME failures = 0
                 PROVE  Len(after) = c + n /\ \A i \in 1..(Len(before) + n) : after[i] = i
        OBVIOUS
    <3>1. Len(before) = c /\ \A i \in 1..Len(before) : before[i] = i
        BY <2>5
    <3>2. ASSUME NEW i \in 1..(Len(before) + n) PROVE after[i] = i
      <4>1. CASE i <= Len(before)
          BY <2>6, <3>1, <4>1
      <4>2. CASE i > Len(before)
        <5>1. after[i] = c + (i - Len(before))
            BY <2>6, <4>2
        <5> QED  BY <1>4, <2>2, <3>1, <5>1
      <4> QED  BY <1>4, <2>2, <4>1, <4>2
    <3> QED  BY <2>4, <3>1, <3>2
  <2>10. /\ log' \in [Runs -> Seq(Nat)]
         /\ \A x \in Runs : log'[x] = IF x = r THEN after ELSE log[x]
         /\ DOMAIN after = 1..(Len(before) + n) /\ counter'[r] = c + n
      BY <1>5, <2>1, <2>4 DEF after, before, more, c
  <2>11. TypeOK'
    <3>1. ASSUME NEW x \in Runs, NEW i \in DOMAIN log'[x]
          PROVE  log'[x][i] \in 1..counter'[x]
      <4>1. CASE x = r
          BY <2>7, <2>10, <3>1, <4>1
      <4>2. CASE x # r
        <5>1. log'[x] = log[x] /\ counter'[x] = counter[x]
            BY <1>5, <2>10, <4>2
        <5> QED  BY <1>0, <3>1, <5>1 DEF TypeOK
      <4> QED  BY <4>1, <4>2
    <3> QED  BY <1>0, <1>1, <1>2, <1>5, <1>a, <2>1, <3>1 DEF TypeOK, sourceVars
  <2>12. TypeInv'
      BY <1>2, <2>1, <2>10, <2>11 DEF TypeInv, sourceVars, Shaped, Range
  <2>13. InFlight'
    <3>1. DOMAIN out' = {}
        BY <1>1, <2>1
    <3> QED  BY <3>1 DEF InFlight
  <2>14. \A x \in Runs : Settled(x)' = counter'[x]
      BY <1>1, <2>1 DEF Settled
  <2>15. ASSUME NEW x \in Runs
         PROVE  /\ Settled(x)' \in Nat
                /\ \A i, j \in DOMAIN log'[x] : i < j => log'[x][i] < log'[x][j]
                /\ \A i \in DOMAIN log'[x] : log'[x][i] \in 1..Settled(x)'
                /\ failures' = 0 => /\ Len(log'[x]) = Settled(x)'
                                    /\ \A i \in DOMAIN log'[x] : log'[x][i] = i
    <3>0. Settled(x)' = counter'[x] /\ counter'[x] \in Nat /\ failures' = failures
        BY <1>2, <1>5, <2>14
    <3>1. CASE x = r
      <4>1. log'[x] = after /\ Settled(x)' = c + n /\ DOMAIN log'[x] = 1..(Len(before) + n)
          BY <2>10, <3>0, <3>1
      <4> QED  BY <2>7, <2>8, <2>9, <3>0, <4>1
    <3>2. CASE x # r
      <4>1. log'[x] = log[x] /\ Settled(x)' = Settled(x)
          BY <1>5, <1>6, <2>10, <3>0, <3>2
      <4> QED  BY <1>0, <3>0, <4>1 DEF Ordered
    <3> QED  BY <3>1, <3>2
  <2>16. Ordered'
      BY <2>15 DEF Ordered
  <2> QED  BY <2>12, <2>13, <2>16 DEF NumbersInv
<1> QED  BY <1>2, <1>7, <1>8

\* The numbers of a transaction that fails are used up: they are behind the
\* counter and will never be stored.
LEMMA KeptByFailing ==
    ASSUME TypeInv, NumbersInv, NEW r \in Runs, TransactionFails(r)
    PROVE  TypeInv' /\ NumbersInv'
<1>0. TypeOK /\ InFlight /\ Ordered
    BY DEF TypeInv, NumbersInv
<1> DEFINE events == Diff(Remembered(r), seen[r])
           n == Len(events)
<1>1. /\ kind = "sqlalchemy" /\ r \in todo
      /\ failures < MaxFailures /\ failures' = failures + 1
      /\ counter' = [counter EXCEPT ![r] = @ + Len(events)]
      /\ previous' = previous
      /\ mislaid' \subseteq mislaid \cup DOMAIN seen
      /\ polling' = FALSE /\ seen' = <<>> /\ todo' = {}
      /\ UNCHANGED <<kind, sourceVars, sink, log, out>>
    BY DEF TransactionFails, AfterFailure, PollEnds
<1>2. PICK X : events \in Seq(X)
    BY <1>1, EventsOfARun
<1> HIDE DEF events
<1>3. n \in Nat
    BY <1>2
<1> HIDE DEF n
<1>4. out = <<>>
    BY <1>0, <1>1 DEF TypeOK
<1>5. /\ counter \in [Runs -> Nat] /\ counter' \in [Runs -> Nat]
      /\ \A x \in Runs : counter'[x] \in Nat /\ counter[x] <= counter'[x]
    BY <1>0, <1>1, <1>3 DEF TypeOK, n
<1>6. DOMAIN seen' = {}
    BY <1>1
<1>7. TypeOK'
  <2>1. \A x \in Runs : \A i \in DOMAIN log'[x] : log'[x][i] \in 1..counter'[x]
    <3> SUFFICES ASSUME NEW x \in Runs, NEW i \in DOMAIN log[x] PROVE log[x][i] \in 1..counter'[x]
        BY <1>1
    <3>1. log[x][i] \in 1..counter[x] /\ counter[x] \in Nat
        BY <1>0, <1>5 DEF TypeOK
    <3> QED  BY <1>5, <3>1
  <2>2. failures' \in 0..MaxFailures
      BY <1>0, <1>1, PollerAssumption DEF TypeOK
  <2>3. mislaid' \subseteq Runs
      BY <1>0, <1>1 DEF TypeOK
  <2> QED  BY <1>0, <1>1, <1>4, <1>5, <1>6, <2>1, <2>2, <2>3 DEF TypeOK, sourceVars
<1>8. TypeInv'
    BY <1>1, <1>6, <1>7 DEF TypeInv, sourceVars, Shaped, Range
<1>9. InFlight'
  <2>1. DOMAIN out' = {}
      BY <1>1, <1>4
  <2> QED  BY <2>1 DEF InFlight
<1>10. \A x \in Runs : Settled(x)' = counter'[x] /\ Settled(x) = counter[x]
    BY <1>1, <1>4 DEF Settled
<1>11. failures' # 0
    BY <1>0, <1>1 DEF TypeOK
<1>12. ASSUME NEW x \in Runs
       PROVE  /\ Settled(x)' \in Nat
              /\ \A i, j \in DOMAIN log'[x] : i < j => log'[x][i] < log'[x][j]
              /\ \A i \in DOMAIN log'[x] : log'[x][i] \in 1..Settled(x)'
  <2>1. log'[x] = log[x] /\ counter'[x] \in Nat /\ counter[x] \in Nat /\ counter[x] <= counter'[x]
      BY <1>1, <1>5
  <2>2. \A i \in DOMAIN log[x] : log[x][i] \in 1..counter[x]
      BY <1>0, <1>10 DEF Ordered
  <2>3. \A i \in DOMAIN log'[x] : log'[x][i] \in 1..Settled(x)'
      BY <1>10, <2>1, <2>2
  <2> QED  BY <1>0, <1>10, <2>1, <2>3 DEF Ordered
<1>13. Ordered'
    BY <1>11, <1>12 DEF Ordered
<1> QED  BY <1>8, <1>9, <1>13 DEF NumbersInv

\* The event that is stored is the next of its run.
LEMMA KeptByApply ==
    ASSUME TypeInv, NumbersInv, Apply
    PROVE  TypeInv' /\ NumbersInv'
<1>0. TypeOK /\ InFlight /\ Ordered
    BY DEF TypeInv, NumbersInv
<1>1. PICK X : out \in Seq(X)
    BY DEF TypeInv
<1> DEFINE n == Len(out)
           r == out[1].run
           c == counter[r]
           before == log[r]
           after == Append(before, out[1].seq)
<1>2. out # <<>> /\ out' = Tail(out) /\ n \in Nat \ {0} /\ DOMAIN out = 1..n /\ Head(out) = out[1]
    BY <1>1 DEF Apply
<1>3. /\ log' = [log EXCEPT ![r] = Append(log[r], out[1].seq)]
      /\ UNCHANGED <<kind, sourceVars, previous, counter, polling, seen, todo, failures, mislaid>>
    BY <1>2 DEF Apply
<1>4. /\ out' \in Seq(X) /\ Len(out') = n - 1 /\ DOMAIN out' = 1..(n - 1)
      /\ \A i \in 1..(n - 1) : out'[i] = out[i + 1]
    BY <1>1, <1>2
<1>5. 1 \in DOMAIN out
    BY <1>2
<1>6. r \in Runs /\ out[1].seq = c - n + 1
    BY <1>0, <1>2, <1>5 DEF InFlight
<1>7. counter \in [Runs -> Nat] /\ log \in [Runs -> Seq(Nat)]
      /\ before \in Seq(Nat) /\ Len(before) \in Nat /\ c \in Nat /\ DOMAIN before = 1..Len(before)
    BY <1>0, <1>6 DEF TypeInv, TypeOK
<1>8. Settled(r) = c - n /\ c - n \in Nat
  <2>1. Settled(r) = c - n
      BY <1>2 DEF Settled
  <2> QED  BY <1>0, <1>6, <2>1 DEF Ordered
<1> HIDE DEF n, r, c, before
<1>9. /\ \A i, j \in 1..Len(before) : i < j => before[i] < before[j]
      /\ \A i \in 1..Len(before) : before[i] \in 1..(c - n)
      /\ failures = 0 => Len(before) = c - n /\ \A i \in 1..Len(before) : before[i] = i
    BY <1>0, <1>6, <1>7, <1>8 DEF Ordered, before
<1>10. /\ after \in Seq(Nat) /\ Len(after) = Len(before) + 1
       /\ \A i \in 1..Len(before) : after[i] = before[i]
       /\ after[Len(before) + 1] = c - n + 1
  <2>1. out[1].seq \in Nat
      BY <1>6, <1>8, <1>2, <1>7
  <2> DEFINE q == out[1].seq
  <2> HIDE DEF q
  <2>2. q \in Nat /\ q = c - n + 1
      BY <1>6, <2>1 DEF q
  <2>3. /\ Append(before, q) \in Seq(Nat) /\ Len(Append(before, q)) = Len(before) + 1
        /\ \A i \in 1..Len(before) : Append(before, q)[i] = before[i]
        /\ Append(before, q)[Len(before) + 1] = q
      BY <1>7, <2>2, AppendProperties
  <2> QED  BY <2>2, <2>3 DEF q
<1> HIDE DEF after
<1>11. ASSUME NEW i \in 1..(Len(before) + 1)
       PROVE  /\ i <= Len(before) => i \in 1..Len(before) /\ after[i] = before[i]
              /\ i > Len(before) => i = Len(before) + 1 /\ after[i] = c - n + 1
    BY <1>7, <1>10
<1>12. /\ \A i, j \in 1..(Len(before) + 1) : i < j => after[i] < after[j]
       /\ \A i \in 1..(Len(before) + 1) : after[i] \in 1..(c - n + 1)
       /\ failures = 0 => /\ Len(after) = c - n + 1
                          /\ \A i \in 1..(Len(before) + 1) : after[i] = i
  <2>1. ASSUME NEW i \in 1..(Len(before) + 1) PROVE after[i] \in 1..(c - n + 1)
    <3>1. CASE i <= Len(before)
      <4>1. after[i] \in 1..(c - n)
          BY <1>9, <1>11, <3>1
      <4> QED  BY <1>8, <4>1
    <3>2. CASE i > Len(before)
        BY <1>8, <1>11, <3>2
    <3> QED  BY <1>7, <3>1, <3>2
  <2>2. ASSUME NEW i \in 1..(Len(before) + 1), NEW j \in 1..(Len(before) + 1), i < j
        PROVE  after[i] < after[j]
    <3>1. i <= Len(before) /\ i \in 1..Len(before) /\ after[i] = before[i] /\ after[i] \in 1..(c - n)
      <4>1. i <= Len(before)
          BY <1>7, <2>2
      <4> QED  BY <1>9, <1>11, <4>1
    <3>2. CASE j <= Len(before)
        BY <1>9, <1>11, <2>2, <3>1, <3>2
    <3>3. CASE j > Len(before)
        BY <1>8, <1>11, <3>1, <3>3
    <3> QED  BY <1>7, <3>2, <3>3
  <2>3. ASSUME failures = 0, NEW i \in 1..(Len(before) + 1) PROVE after[i] = i
    <3>1. CASE i <= Len(before)
        BY <1>9, <1>11, <2>3, <3>1
    <3>2. CASE i > Len(before)
        BY <1>9, <1>11, <2>3, <3>2
    <3> QED  BY <1>7, <3>1, <3>2
  <2>4. failures = 0 => Len(after) = c - n + 1
      BY <1>8, <1>9, <1>10
  <2> QED  BY <2>1, <2>2, <2>3, <2>4
<1>13. /\ log' \in [Runs -> Seq(Nat)]
       /\ \A x \in Runs : log'[x] = IF x = r THEN after ELSE log[x]
       /\ DOMAIN after = 1..(Len(before) + 1)
  <2>1. log' = [log EXCEPT ![r] = after]
      BY <1>3 DEF after, before, r
  <2> QED  BY <1>6, <1>7, <1>10, <2>1
<1>14. TypeOK'
  <2>1. ASSUME NEW x \in Runs, NEW i \in DOMAIN log'[x]
        PROVE  log'[x][i] \in 1..counter'[x]
    <3>1. CASE x = r
      <4>1. log'[x][i] \in 1..(c - n + 1) /\ counter'[x] = c
          BY <1>3, <1>12, <1>13, <2>1, <3>1 DEF c
      <4> QED  BY <1>2, <1>7, <1>8, <4>1
    <3>2. CASE x # r
        BY <1>0, <1>3, <1>13, <2>1, <3>2 DEF TypeOK
    <3> QED  BY <3>1, <3>2
  <2>2. polling
      BY <1>0, <1>2 DEF TypeOK
  <2>3. kind = "memory"
      BY <1>0, <1>2 DEF TypeOK
  <2> QED  BY <1>0, <1>3, <2>1, <2>2, <2>3 DEF TypeOK, sourceVars
<1>15. TypeInv'
    BY <1>3, <1>4, <1>13, <1>14 DEF TypeInv, sourceVars, Shaped, Range
<1>16. InFlight'
  <2> SUFFICES ASSUME NEW i \in 1..(n - 1)
               PROVE  /\ out'[i].run = out'[1].run /\ out'[i].run \in Runs
                      /\ out'[i].seq = counter'[out'[1].run] - Len(out') + i
      BY <1>4 DEF InFlight
  <2>1. 1 \in 1..(n - 1) /\ i + 1 \in 1..n /\ 2 \in 1..n
      BY <1>2
  <2>2. out'[i] = out[i + 1] /\ out'[1] = out[1 + 1]
      BY <1>4, <2>1
  <2>3. /\ out[i + 1].run = r /\ out[1 + 1].run = r
        /\ out[i + 1].seq = c - n + (i + 1)
      BY <1>0, <1>2, <2>1 DEF InFlight, r, c, n
  <2>4. counter'[r] - Len(out') + i = c - n + (i + 1)
    <3>1. counter'[r] = c /\ Len(out') = n - 1
        BY <1>3, <1>4 DEF c
    <3>2. i \in Int /\ n \in Int /\ c \in Int
        BY <1>2, <1>7
    <3> QED  BY <3>1, <3>2
  <2> QED  BY <1>6, <2>2, <2>3, <2>4
<1>17. ASSUME NEW x \in Runs
       PROVE  Settled(x)' = IF x = r THEN c - n + 1 ELSE counter[x]
  <2>1. CASE n = 1
    <3>1. out' = <<>>
        BY <1>4, <2>1
    <3>2. Settled(x)' = counter[x]
        BY <1>3, <3>1 DEF Settled
    <3>3. c - n + 1 = c
        BY <1>7, <2>1
    <3> QED  BY <3>2, <3>3 DEF c
  <2>2. CASE n # 1
    <3>0. n - 1 \in Nat \ {0}
        BY <1>2, <2>2
    <3>1. out' # <<>> /\ 1 \in 1..(n - 1) /\ 2 \in 1..n
      <4>1. Len(out') # 0
          BY <1>4, <3>0
      <4> QED  BY <1>2, <3>0, <4>1
    <3>2. out'[1] = out[1 + 1]
        BY <1>4, <3>1
    <3>3. out'[1].run = r
        BY <1>0, <1>2, <3>1, <3>2 DEF InFlight, r
    <3>4. Settled(x)' = IF r = x THEN counter[x] - (n - 1) ELSE counter[x]
        BY <1>3, <1>4, <3>1, <3>3 DEF Settled
    <3>5. c - (n - 1) = c - n + 1
        BY <1>2, <1>7
    <3> QED  BY <3>4, <3>5 DEF c
  <2> QED  BY <2>1, <2>2
<1>18. \A x \in Runs : x # r => Settled(x) = counter[x]
    BY DEF Settled, r
<1>19. ASSUME NEW x \in Runs
       PROVE  /\ Settled(x)' \in Nat
              /\ \A i, j \in DOMAIN log'[x] : i < j => log'[x][i] < log'[x][j]
              /\ \A i \in DOMAIN log'[x] : log'[x][i] \in 1..Settled(x)'
              /\ failures' = 0 => /\ Len(log'[x]) = Settled(x)'
                                  /\ \A i \in DOMAIN log'[x] : log'[x][i] = i
  <2>1. CASE x = r
    <3>1. log'[x] = after /\ Settled(x)' = c - n + 1 /\ DOMAIN log'[x] = 1..(Len(before) + 1)
        BY <1>13, <1>17, <2>1
    <3>2. c - n + 1 \in Nat /\ failures' = failures
        BY <1>3, <1>8
    <3> QED  BY <1>12, <3>1, <3>2
  <2>2. CASE x # r
    <3>1. log'[x] = log[x] /\ Settled(x)' = Settled(x) /\ failures' = failures
        BY <1>3, <1>13, <1>17, <1>18, <2>2
    <3> QED  BY <1>0, <3>1 DEF Ordered
  <2> QED  BY <2>1, <2>2
<1>20. Ordered'
    BY <1>19 DEF Ordered
<1> QED  BY <1>15, <1>16, <1>20 DEF NumbersInv

LEMMA PollerInit == Init => TypeInv /\ NumbersInv
<1> SUFFICES ASSUME Init PROVE NumbersInv
    BY TypeInit
<1>1. /\ out = <<>> /\ failures = 0
      /\ \A r \in Runs : counter[r] = 0 /\ log[r] = <<>> /\ DOMAIN log[r] = {} /\ Len(log[r]) = 0
    BY DEF Init
<1>2. DOMAIN out = {}
    BY <1>1
<1>3. \A r \in Runs : Settled(r) = 0
    BY <1>1 DEF Settled
<1> QED  BY <1>1, <1>2, <1>3 DEF NumbersInv, InFlight, Ordered

LEMMA PollerNext == TypeInv /\ NumbersInv /\ [Next]_vars => TypeInv' /\ NumbersInv'
<1> SUFFICES ASSUME TypeInv, NumbersInv, [Next]_vars PROVE TypeInv' /\ NumbersInv'
    OBVIOUS
<1>1. CASE SourceChanges
  <2>1. UNCHANGED <<counter, log, out, failures>>
      BY <1>1 DEF SourceChanges, storeVars, pollVars
  <2> QED  BY <1>1, <2>1, TypeKeptBySource, NumbersKeptByOthers
<1>2. CASE Read
  <2>1. UNCHANGED <<counter, log, out, failures>>
      BY <1>2 DEF Read, storeVars
  <2> QED  BY <1>2, <2>1, TypeKeptByRead, NumbersKeptByOthers
<1>3. ASSUME NEW r \in Runs, Tell(r) PROVE TypeInv' /\ NumbersInv'
    BY <1>3, KeptByTell
<1>4. ASSUME NEW r \in Runs, TransactionFails(r) PROVE TypeInv' /\ NumbersInv'
    BY <1>4, KeptByFailing
<1>5. CASE Apply
    BY <1>5, KeptByApply
<1>6. CASE Finish
  <2>1. UNCHANGED <<counter, log, out, failures>>
      BY <1>6 DEF Finish, storeVars
  <2> QED  BY <1>6, <2>1, TypeKeptByFinish, NumbersKeptByOthers
<1>7. CASE UNCHANGED vars
  <2>1. UNCHANGED <<counter, log, out, failures>>
      BY <1>7 DEF vars, storeVars, pollVars
  <2>2. TypeOK'
      BY <1>7 DEF TypeInv, TypeOK, vars, sourceVars, storeVars, pollVars
  <2>3. TypeInv'
      BY <1>7, <2>2 DEF TypeInv, vars, sourceVars, storeVars, pollVars, Shaped, Range
  <2> QED  BY <2>1, <2>3, NumbersKeptByOthers
<1> QED  BY <1>1, <1>2, <1>3, <1>4, <1>5, <1>6, <1>7 DEF Next, Poll

LEMMA OrderedNumbersAreKept == TypeInv /\ NumbersInv => NumbersAreKept
<1> SUFFICES ASSUME TypeInv, NumbersInv, NEW r \in Runs
             PROVE  /\ IsInjective(log[r])
                    /\ failures = 0 /\ out = <<>> => Range(log[r]) = 1..counter[r]
    BY DEF NumbersAreKept
<1>1. log[r] \in Seq(Nat) /\ DOMAIN log[r] = 1..Len(log[r]) /\ Len(log[r]) \in Nat
  <2>1. log[r] \in Seq(Nat)
      BY DEF TypeInv
  <2> QED  BY <2>1
<1>2. ASSUME NEW i \in 1..Len(log[r]), NEW j \in 1..Len(log[r]), log[r][i] = log[r][j]
      PROVE  i = j
  <2>1. (i < j => log[r][i] < log[r][j]) /\ (j < i => log[r][j] < log[r][i])
      BY <1>1 DEF NumbersInv, Ordered
  <2>2. log[r][i] \in Nat /\ log[r][j] \in Nat
      BY <1>1
  <2> QED  BY <1>1, <1>2, <2>1, <2>2
<1>3. IsInjective(log[r])
    BY <1>1, <1>2 DEF IsInjective
<1>4. ASSUME failures = 0, out = <<>> PROVE Range(log[r]) = 1..counter[r]
  <2>1. Settled(r) = counter[r]
      BY <1>4 DEF Settled
  <2>2. Len(log[r]) = counter[r] /\ \A i \in DOMAIN log[r] : log[r][i] = i
      BY <1>4, <2>1 DEF NumbersInv, Ordered
  <2> QED  BY <1>1, <2>2 DEF Range
<1> QED  BY <1>3, <1>4

\* Every variable of the poller keeps its type, and nothing is on its way to
\* a store that takes its events in one transaction.
THEOREM TypeCorrect == Spec => []TypeOK
<1>1. TypeInv => TypeOK
    BY DEF TypeInv
<1> QED  BY <1>1, PollerInit, PollerNext, PTL DEF Spec

\* No number is given to two events of a run, also when a transaction fails
\* and the poll after it tells the same news again; and where none failed,
\* the numbers stored have no hole (allocate() and apply_many(), diff.py:63).
THEOREM NoNumberIsUsedTwice == Spec => []NumbersAreKept
<1> QED  BY OrderedNumbersAreKept, PollerInit, PollerNext, PTL DEF Spec

-----------------------------------------------------------------------------
(* What a store shows of a run while it is told the events of a diff.      *)

\* What a store that shows old has of an atom: it makes up what it was not
\* told (AtomSnapshot(name=...)).
Known(old, a) == IF a \in DOMAIN old.atoms THEN old.atoms[a] ELSE Fresh

\* What the first n events are about.
FlowTold(events, n) == \E i \in 1..n : events[i].kind = "FLOW_STATE"
StateTold(events, n, a) == \E i \in 1..n : events[i].kind = "ATOM_STATE" /\ events[i].atom = a
ProgressTold(events, n, a) ==
    \E i \in 1..n : events[i].kind = "ATOM_PROGRESS" /\ events[i].atom = a

\* An atom, and a snapshot, that the first n events of a diff have brought
\* part of the way from the old snapshot to the new one.
Fields == {"state", "intention", "progress", "details", "failure", "result"}

PartwayAtom(atom, was, current, state, progress) ==
    /\ Fields \subseteq DOMAIN atom
    /\ atom.state = IF state THEN current.state ELSE was.state
    /\ atom.progress = IF state \/ progress THEN current.progress ELSE was.progress
    /\ atom.details = IF progress THEN current.details ELSE was.details

Partway(flow, events, old, new, n) ==
    /\ {"state", "atoms"} \subseteq DOMAIN flow
    /\ flow.state = IF FlowTold(events, n) THEN new.state
                    ELSE IF old.state = "unseen" THEN None ELSE old.state
    /\ \A a : a \in DOMAIN flow.atoms <=>
                 a \in DOMAIN old.atoms \/ StateTold(events, n, a) \/ ProgressTold(events, n, a)
    /\ \A a \in DOMAIN flow.atoms :
          PartwayAtom(flow.atoms[a], Known(old, a), new.atoms[a],
                      StateTold(events, n, a), ProgressTold(events, n, a))

LEMMA StateBrings ==
    ASSUME NEW atom, NEW was, NEW current, NEW state \in BOOLEAN, NEW progress \in BOOLEAN,
           PartwayAtom(atom, was, current, state, progress), NEW a, NEW before
    PROVE  PartwayAtom(FoldAtom(atom, StateEvent(a, before, current)), was, current, TRUE, progress)
<1> DEFINE e == StateEvent(a, before, current)
           after == FoldAtom(atom, e)
<1>1. e.kind = "ATOM_STATE" /\ e.state = current.state /\ e.progress = current.progress
    BY StateEventFields
<1> HIDE DEF e
<1>2. DOMAIN after = DOMAIN atom
    BY <1>1 DEF FoldAtom
<1>3. /\ after.state = e.state /\ after.progress = e.progress
      /\ after.details = atom.details
    BY <1>1 DEF FoldAtom, PartwayAtom, Fields
<1> HIDE DEF after
<1> QED  BY <1>1, <1>2, <1>3 DEF PartwayAtom, after, e

LEMMA ProgressBrings ==
    ASSUME NEW atom, NEW was, NEW current, NEW state \in BOOLEAN, NEW progress \in BOOLEAN,
           PartwayAtom(atom, was, current, state, progress), NEW a
    PROVE  PartwayAtom(FoldAtom(atom, ProgressEvent(a, current)), was, current, state, TRUE)
<1> DEFINE e == ProgressEvent(a, current)
           after == FoldAtom(atom, e)
<1>1. e.kind = "ATOM_PROGRESS" /\ e.progress = current.progress /\ e.details = current.details
    BY ProgressEventFields
<1> HIDE DEF e
<1>2. DOMAIN after = DOMAIN atom
    BY <1>1 DEF FoldAtom
<1>3. /\ after.state = atom.state /\ after.progress = e.progress
      /\ after.details = e.details
    BY <1>1 DEF FoldAtom, PartwayAtom, Fields
<1> HIDE DEF after
<1> QED  BY <1>1, <1>2, <1>3 DEF PartwayAtom, after, e

LEMMA OneMoreTold ==
    ASSUME NEW events, NEW n \in Nat
    PROVE  LET e == events[n + 1]
           IN  /\ FlowTold(events, n + 1) <=> FlowTold(events, n) \/ e.kind = "FLOW_STATE"
               /\ \A a : StateTold(events, n + 1, a) <=>
                            StateTold(events, n, a) \/ (e.kind = "ATOM_STATE" /\ e.atom = a)
               /\ \A a : ProgressTold(events, n + 1, a) <=>
                            ProgressTold(events, n, a) \/ (e.kind = "ATOM_PROGRESS" /\ e.atom = a)
<1>1. 1..(n + 1) = 1..n \cup {n + 1}
    OBVIOUS
<1>2. FlowTold(events, n + 1) <=> FlowTold(events, n) \/ events[n + 1].kind = "FLOW_STATE"
    BY <1>1, Zenon DEF FlowTold
<1>3. \A a : StateTold(events, n + 1, a) <=>
                StateTold(events, n, a) \/ (events[n + 1].kind = "ATOM_STATE" /\ events[n + 1].atom = a)
    BY <1>1, Zenon DEF StateTold
<1>4. \A a : ProgressTold(events, n + 1, a) <=>
                ProgressTold(events, n, a) \/ (events[n + 1].kind = "ATOM_PROGRESS" /\ events[n + 1].atom = a)
    BY <1>1, Zenon DEF ProgressTold
<1> QED  BY <1>2, <1>3, <1>4

\* The next event brings the snapshot one event further.
LEMMA OneMore ==
    ASSUME NEW old, NEW new, NEW events, Explains(events, old, new),
           NEW n \in Nat, n + 1 \in DOMAIN events,
           NEW flow, Partway(flow, events, old, new, n)
    PROVE  Partway(Fold(flow, events[n + 1]), events, old, new, n + 1)
<1> DEFINE e == events[n + 1]
           after == Fold(flow, e)
<1>0. /\ FlowTold(events, n + 1) <=> FlowTold(events, n) \/ e.kind = "FLOW_STATE"
      /\ \A a : StateTold(events, n + 1, a) <=>
                   StateTold(events, n, a) \/ (e.kind = "ATOM_STATE" /\ e.atom = a)
      /\ \A a : ProgressTold(events, n + 1, a) <=>
                   ProgressTold(events, n, a) \/ (e.kind = "ATOM_PROGRESS" /\ e.atom = a)
    BY OneMoreTold
<1>1. Holds(events, e)
    BY DEF Holds
<1> HIDE DEF e
<1>2. CASE e = FlowEvent(new)
  <2>1. e.kind = "FLOW_STATE" /\ e.state = new.state
      BY <1>2 DEF FlowEvent, Blank
  <2>2. after = [flow EXCEPT !.state = e.state]
      BY <2>1 DEF Fold
  <2>3. DOMAIN after = DOMAIN flow /\ after.state = new.state /\ after.atoms = flow.atoms
      BY <2>1, <2>2 DEF Partway
  <2> HIDE DEF after
  <2>4. \A a : /\ StateTold(events, n + 1, a) <=> StateTold(events, n, a)
               /\ ProgressTold(events, n + 1, a) <=> ProgressTold(events, n, a)
      BY <1>0, <2>1
  <2>5. \A a \in DOMAIN after.atoms :
            PartwayAtom(after.atoms[a], Known(old, a), new.atoms[a],
                        StateTold(events, n + 1, a), ProgressTold(events, n + 1, a))
      BY <2>3, <2>4 DEF Partway, PartwayAtom
  <2>6. \A a : a \in DOMAIN after.atoms <=>
                  a \in DOMAIN old.atoms \/ StateTold(events, n + 1, a) \/ ProgressTold(events, n + 1, a)
      BY <2>3, <2>4 DEF Partway
  <2>7. FlowTold(events, n + 1)
      BY <1>0, <2>1
  <2> QED  BY <2>3, <2>5, <2>6, <2>7 DEF Partway, after, e
<1>3. ASSUME NEW a \in DOMAIN new.atoms, Tells(e, a, old, new)
      PROVE  Partway(after, events, old, new, n + 1)
  <2> DEFINE s(x) == StateTold(events, n, x)
             p(x) == ProgressTold(events, n, x)
  <2>1. e.atom = a /\ e.kind \in {"ATOM_STATE", "ATOM_PROGRESS"}
      BY <1>3, StateEventFields, ProgressEventFields DEF Tells
  <2>2. after = [flow EXCEPT !.atoms =
                    [x \in DOMAIN flow.atoms \cup {a} |->
                        IF x = a THEN FoldAtom(AtomOf(flow, a), e) ELSE flow.atoms[x]]]
      BY <2>1 DEF Fold
  <2>3. /\ DOMAIN after = DOMAIN flow /\ after.state = flow.state
        /\ DOMAIN after.atoms = DOMAIN flow.atoms \cup {a}
        /\ after.atoms[a] = FoldAtom(AtomOf(flow, a), e)
        /\ \A x \in DOMAIN flow.atoms : x # a => after.atoms[x] = flow.atoms[x]
      BY <2>2 DEF Partway
  <2> HIDE DEF after
  <2>4. PartwayAtom(AtomOf(flow, a), Known(old, a), new.atoms[a], s(a), p(a))
    <3>1. CASE a \in DOMAIN flow.atoms
        BY <3>1 DEF Partway, AtomOf
    <3>2. CASE a \notin DOMAIN flow.atoms
      <4>1. a \notin DOMAIN old.atoms /\ ~s(a) /\ ~p(a)
          BY <3>2 DEF Partway
      <4>2. AtomOf(flow, a) = Fresh /\ Known(old, a) = Fresh
          BY <3>2, <4>1 DEF AtomOf, Known
      <4>3. Fields \subseteq DOMAIN Fresh
          BY DEF Fields, Fresh
      <4> HIDE DEF s, p
      <4> QED  BY <4>1, <4>2, <4>3 DEF PartwayAtom
    <3> QED  BY <3>1, <3>2
  <2>5. s(a) \in BOOLEAN /\ p(a) \in BOOLEAN
      BY DEF StateTold, ProgressTold
  <2>6. PartwayAtom(after.atoms[a], Known(old, a), new.atoms[a],
                    StateTold(events, n + 1, a), ProgressTold(events, n + 1, a))
    <3> HIDE DEF s, p
    <3>1. CASE e = StateEvent(a, Was(old, a), new.atoms[a])
      <4>1. e.kind = "ATOM_STATE"
          BY <3>1, StateEventFields
      <4>2. StateTold(events, n + 1, a) /\ (ProgressTold(events, n + 1, a) <=> p(a))
          BY <1>0, <2>1, <4>1 DEF p
      <4>3. PartwayAtom(after.atoms[a], Known(old, a), new.atoms[a], TRUE, p(a))
          BY <2>3, <2>4, <2>5, <3>1, StateBrings
      <4> QED  BY <4>2, <4>3 DEF PartwayAtom
    <3>2. CASE e = ProgressEvent(a, new.atoms[a])
      <4>1. e.kind = "ATOM_PROGRESS"
          BY <3>2, ProgressEventFields
      <4>2. ProgressTold(events, n + 1, a) /\ (StateTold(events, n + 1, a) <=> s(a))
          BY <1>0, <2>1, <4>1 DEF s
      <4>3. PartwayAtom(after.atoms[a], Known(old, a), new.atoms[a], s(a), TRUE)
          BY <2>3, <2>4, <2>5, <3>2, ProgressBrings
      <4> QED  BY <4>2, <4>3 DEF PartwayAtom
    <3> QED  BY <1>3, <3>1, <3>2 DEF Tells
  <2>7. \A x : x # a => /\ StateTold(events, n + 1, x) <=> s(x)
                        /\ ProgressTold(events, n + 1, x) <=> p(x)
      BY <1>0, <2>1
  <2>8. ASSUME NEW x \in DOMAIN after.atoms
        PROVE  PartwayAtom(after.atoms[x], Known(old, x), new.atoms[x],
                           StateTold(events, n + 1, x), ProgressTold(events, n + 1, x))
    <3>1. CASE x = a
        BY <2>6, <3>1
    <3>2. CASE x # a
      <4>1. x \in DOMAIN flow.atoms /\ after.atoms[x] = flow.atoms[x]
          BY <2>3, <2>8, <3>2
      <4>2. PartwayAtom(flow.atoms[x], Known(old, x), new.atoms[x], s(x), p(x))
          BY <4>1 DEF Partway
      <4> HIDE DEF s, p
      <4> QED  BY <2>7, <3>2, <4>1, <4>2 DEF PartwayAtom
    <3> QED  BY <3>1, <3>2
  <2>9. \A x : x \in DOMAIN after.atoms <=>
                  x \in DOMAIN old.atoms \/ StateTold(events, n + 1, x) \/ ProgressTold(events, n + 1, x)
    <3> SUFFICES ASSUME NEW x
                 PROVE  x \in DOMAIN after.atoms <=>
                          x \in DOMAIN old.atoms \/ StateTold(events, n + 1, x)
                            \/ ProgressTold(events, n + 1, x)
        OBVIOUS
    <3>1. CASE x = a
        BY <1>0, <2>1, <2>3, <3>1
    <3>2. CASE x # a
        BY <2>3, <2>7, <3>2 DEF Partway
    <3> QED  BY <3>1, <3>2
  <2>10. FlowTold(events, n + 1) <=> FlowTold(events, n)
      BY <1>0, <2>1
  <2> QED  BY <2>3, <2>8, <2>9, <2>10 DEF Partway
<1> QED  BY <1>1, <1>2, <1>3 DEF Explains, after, e

\* A snapshot persistence offers has this run's atoms, each in one of the
\* states an atom goes through, and none that runs once the flow finished.
AtomStates == {"PENDING", "RUNNING", "SUCCESS", "FAILURE", "REVERTED"}

Quiet(flow) ==
    flow.state \in FlowFinishStates =>
        \A a \in DOMAIN flow.atoms : flow.atoms[a].state # "RUNNING"

Offered(flow) ==
    /\ Shaped(flow) /\ flow.state # "unseen" /\ Quiet(flow)
    /\ \A a \in AtomNames : "state" \in DOMAIN flow.atoms[a] /\ flow.atoms[a].state \in AtomStates

\* What a diff compares with.
OfferedBefore(old) == old = NoFlow \/ Offered(old)

\* The store shows this snapshot; a run never seen it does not show.
Shows(flow, snapshot) ==
    /\ {"state", "atoms"} \subseteq DOMAIN flow
    /\ flow.state = snapshot.state
    /\ DOMAIN flow.atoms = DOMAIN snapshot.atoms
    /\ \A a \in DOMAIN flow.atoms :
          Fields \subseteq DOMAIN flow.atoms[a] /\ Shown(flow.atoms[a]) = Shown(snapshot.atoms[a])

ShowsWhatWas(flow, old) ==
    IF old.state = "unseen" THEN flow = EmptyFlow ELSE Shows(flow, old)

LEMMA OldShapes ==
    ASSUME NEW old, OfferedBefore(old)
    PROVE  \/ old.state = "unseen" /\ old = NoFlow /\ DOMAIN old.atoms = {}
           \/ old.state # "unseen" /\ Offered(old) /\ DOMAIN old.atoms = AtomNames
<1>1. CASE old = NoFlow
    BY <1>1 DEF NoFlow
<1>2. CASE Offered(old)
    BY <1>2 DEF Offered, Shaped
<1> QED  BY <1>1, <1>2 DEF OfferedBefore

\* Before the first event the store shows what the diff compares with.
LEMMA NoneTold ==
    ASSUME NEW old, OfferedBefore(old), NEW flow, ShowsWhatWas(flow, old), NEW events, NEW new
    PROVE  Partway(flow, events, old, new, 0)
<1>1. 1..0 = {}
    OBVIOUS
<1>2. /\ ~FlowTold(events, 0)
      /\ \A a : ~StateTold(events, 0, a) /\ ~ProgressTold(events, 0, a)
    BY <1>1 DEF FlowTold, StateTold, ProgressTold
<1>3. CASE old.state = "unseen"
  <2>1. /\ flow = EmptyFlow /\ DOMAIN old.atoms = {}
      BY <1>3, OldShapes DEF ShowsWhatWas
  <2>2. /\ {"state", "atoms"} \subseteq DOMAIN flow /\ flow.state = None
        /\ DOMAIN flow.atoms = {}
      BY <2>1 DEF EmptyFlow
  <2> QED  BY <1>2, <1>3, <2>1, <2>2 DEF Partway
<1>4. CASE old.state # "unseen"
  <2>1. Shows(flow, old)
      BY <1>4 DEF ShowsWhatWas
  <2>2. ASSUME NEW a \in DOMAIN flow.atoms
        PROVE  PartwayAtom(flow.atoms[a], Known(old, a), new.atoms[a],
                           StateTold(events, 0, a), ProgressTold(events, 0, a))
    <3>1. /\ Known(old, a) = old.atoms[a] /\ Fields \subseteq DOMAIN flow.atoms[a]
          /\ Shown(flow.atoms[a]) = Shown(old.atoms[a])
        BY <2>1 DEF Shows, Known
    <3>2. /\ flow.atoms[a].state = old.atoms[a].state
          /\ flow.atoms[a].progress = old.atoms[a].progress
          /\ flow.atoms[a].details = old.atoms[a].details
        BY <3>1 DEF Shown
    <3> QED  BY <1>2, <3>1, <3>2 DEF PartwayAtom
  <2> QED  BY <1>2, <1>4, <2>1, <2>2 DEF Partway, Shows
<1> QED  BY <1>3, <1>4

\* The events are about atoms of the new snapshot, and once all are told they
\* have told everything that changed.
LEMMA OnlyNewsIsTold ==
    ASSUME NEW X, NEW events \in Seq(X), NEW old, NEW new, Explains(events, old, new),
           NEW n \in 0..Len(events), NEW a
    PROVE  /\ StateTold(events, n, a) =>
                a \in DOMAIN new.atoms /\ StateChanged(Was(old, a), new.atoms[a])
           /\ ProgressTold(events, n, a) =>
                a \in DOMAIN new.atoms /\ ProgressChanged(Was(old, a), new.atoms[a])
<1>1. Len(events) \in Nat /\ DOMAIN events = 1..Len(events)
    BY LenProperties
<1>2. ASSUME NEW i \in 1..n
      PROVE  \/ events[i] = FlowEvent(new)
             \/ \E b \in DOMAIN new.atoms : Tells(events[i], b, old, new)
  <2>1. Holds(events, events[i])
      BY <1>1 DEF Holds
  <2> QED  BY <2>1 DEF Explains
<1>3. FlowEvent(new).kind = "FLOW_STATE"
    BY DEF FlowEvent, Blank
<1>4. ASSUME StateTold(events, n, a)
      PROVE  a \in DOMAIN new.atoms /\ StateChanged(Was(old, a), new.atoms[a])
  <2>1. PICK i \in 1..n : events[i].kind = "ATOM_STATE" /\ events[i].atom = a
      BY <1>4 DEF StateTold
  <2>2. PICK b \in DOMAIN new.atoms : Tells(events[i], b, old, new)
      BY <1>2, <1>3, <2>1
  <2> QED  BY <2>1, <2>2, StateEventFields, ProgressEventFields DEF Tells
<1>5. ASSUME ProgressTold(events, n, a)
      PROVE  a \in DOMAIN new.atoms /\ ProgressChanged(Was(old, a), new.atoms[a])
  <2>1. PICK i \in 1..n : events[i].kind = "ATOM_PROGRESS" /\ events[i].atom = a
      BY <1>5 DEF ProgressTold
  <2>2. PICK b \in DOMAIN new.atoms : Tells(events[i], b, old, new)
      BY <1>2, <1>3, <2>1
  <2> QED  BY <2>1, <2>2, StateEventFields, ProgressEventFields DEF Tells
<1> QED  BY <1>4, <1>5

LEMMA AllNewsIsTold ==
    ASSUME NEW X, NEW events \in Seq(X), NEW old, NEW new, Explains(events, old, new)
    PROVE  /\ old.state # new.state => FlowTold(events, Len(events))
           /\ \A a \in DOMAIN new.atoms :
                /\ StateChanged(Was(old, a), new.atoms[a]) => StateTold(events, Len(events), a)
                /\ ProgressChanged(Was(old, a), new.atoms[a]) => ProgressTold(events, Len(events), a)
<1>1. DOMAIN events = 1..Len(events)
    BY LenProperties
<1>2. ASSUME old.state # new.state PROVE FlowTold(events, Len(events))
  <2>1. Holds(events, FlowEvent(new))
      BY <1>2 DEF Explains
  <2>2. PICK i \in 1..Len(events) : events[i] = FlowEvent(new)
      BY <1>1, <2>1 DEF Holds
  <2>3. events[i].kind = "FLOW_STATE"
      BY <2>2 DEF FlowEvent, Blank
  <2> QED  BY <2>3 DEF FlowTold
<1>3. ASSUME NEW a \in DOMAIN new.atoms, StateChanged(Was(old, a), new.atoms[a])
      PROVE  StateTold(events, Len(events), a)
  <2>1. Holds(events, StateEvent(a, Was(old, a), new.atoms[a]))
      BY <1>3 DEF Explains, Tells
  <2>2. PICK i \in 1..Len(events) : events[i] = StateEvent(a, Was(old, a), new.atoms[a])
      BY <1>1, <2>1 DEF Holds
  <2>3. events[i].kind = "ATOM_STATE" /\ events[i].atom = a
      BY <2>2, StateEventFields
  <2> QED  BY <2>3 DEF StateTold
<1>4. ASSUME NEW a \in DOMAIN new.atoms, ProgressChanged(Was(old, a), new.atoms[a])
      PROVE  ProgressTold(events, Len(events), a)
  <2>1. Holds(events, ProgressEvent(a, new.atoms[a]))
      BY <1>4 DEF Explains, Tells
  <2>2. PICK i \in 1..Len(events) : events[i] = ProgressEvent(a, new.atoms[a])
      BY <1>1, <2>1 DEF Holds
  <2>3. events[i].kind = "ATOM_PROGRESS" /\ events[i].atom = a
      BY <2>2, ProgressEventFields
  <2> QED  BY <2>3 DEF ProgressTold
<1> QED  BY <1>2, <1>3, <1>4

\* After the last event the store shows the new snapshot.
LEMMA AllTold ==
    ASSUME NEW X, NEW events \in Seq(X), NEW old, OfferedBefore(old), NEW new, Offered(new),
           Explains(events, old, new),
           NEW flow, Partway(flow, events, old, new, Len(events))
    PROVE  Shows(flow, new)
<1> DEFINE n == Len(events)
<1>1. n \in 0..n
    BY LenProperties
<1>2. DOMAIN new.atoms = AtomNames /\ new.state # "unseen"
    BY DEF Offered, Shaped
<1>3. flow.state = new.state
    BY <1>2, AllNewsIsTold DEF Partway
<1>4. ASSUME NEW a \in AtomNames
      PROVE  /\ StateTold(events, n, a) <=> StateChanged(Was(old, a), new.atoms[a])
             /\ ProgressTold(events, n, a) <=> ProgressChanged(Was(old, a), new.atoms[a])
    BY <1>1, <1>2, AllNewsIsTold, OnlyNewsIsTold
<1>5. \A a \in AtomNames : a \notin DOMAIN old.atoms => StateChanged(Was(old, a), new.atoms[a])
  <2> SUFFICES ASSUME NEW a \in AtomNames, a \notin DOMAIN old.atoms
               PROVE  StateChanged(Was(old, a), new.atoms[a])
      OBVIOUS
  <2>1. Was(old, a).state = "unseen"
      BY DEF Was, NoAtom, Fresh
  <2>2. new.atoms[a].state # "unseen"
      BY DEF Offered, AtomStates
  <2> QED  BY <2>1, <2>2 DEF StateChanged
<1>6. DOMAIN flow.atoms = AtomNames
  <2>1. \A a : a \in DOMAIN flow.atoms =>
                 a \in DOMAIN old.atoms \/ StateTold(events, n, a) \/ ProgressTold(events, n, a)
      BY DEF Partway
  <2>2. \A a : StateTold(events, n, a) \/ ProgressTold(events, n, a) => a \in AtomNames
      BY <1>1, <1>2, OnlyNewsIsTold
  <2>3. DOMAIN old.atoms \subseteq AtomNames
      BY OldShapes
  <2>4. \A a \in AtomNames : a \in DOMAIN flow.atoms
      BY <1>4, <1>5 DEF Partway
  <2> QED  BY <2>1, <2>2, <2>3, <2>4
<1>7. ASSUME NEW a \in AtomNames
      PROVE  Fields \subseteq DOMAIN flow.atoms[a] /\ Shown(flow.atoms[a]) = Shown(new.atoms[a])
  <2> DEFINE atom == flow.atoms[a]
             was == Known(old, a)
             current == new.atoms[a]
  <2>1. PartwayAtom(atom, was, current, StateTold(events, n, a), ProgressTold(events, n, a))
      BY <1>6 DEF Partway
  <2>2. /\ was.progress = Was(old, a).progress /\ was.details = Was(old, a).details
        /\ a \in DOMAIN old.atoms => was.state = Was(old, a).state
      BY DEF Known, Was, NoAtom, Fresh
  <2> HIDE DEF atom, was, current
  <2>3. atom.state = current.state
    <3>1. CASE StateTold(events, n, a)
        BY <2>1, <3>1 DEF PartwayAtom
    <3>2. CASE ~StateTold(events, n, a)
        BY <1>4, <1>5, <2>1, <2>2, <3>2 DEF PartwayAtom, StateChanged, current
    <3> QED  BY <3>1, <3>2
  <2>4. atom.progress = current.progress /\ atom.details = current.details
    <3>1. CASE ProgressTold(events, n, a)
        BY <2>1, <3>1 DEF PartwayAtom
    <3>2. CASE ~ProgressTold(events, n, a)
      <4>1. was.progress = current.progress /\ was.details = current.details
          BY <1>4, <2>2, <3>2 DEF ProgressChanged, current
      <4> QED  BY <2>1, <3>2, <4>1 DEF PartwayAtom
    <3> QED  BY <3>1, <3>2
  <2> QED  BY <2>1, <2>3, <2>4 DEF PartwayAtom, Shown, atom, current
<1> QED  BY <1>2, <1>3, <1>6, <1>7 DEF Shows, Partway

\* At no event in between does the store show a finished flow with an atom
\* that runs: the flow's own event is in its place.
LEMMA QuietPartway ==
    ASSUME NEW X, NEW events \in Seq(X), NEW old, OfferedBefore(old), NEW new, Offered(new),
           Explains(events, old, new), InTurn(events, new),
           NEW n \in 0..Len(events), NEW flow, Partway(flow, events, old, new, n)
    PROVE  Quiet(flow)
<1> SUFFICES ASSUME flow.state \in FlowFinishStates, NEW a \in DOMAIN flow.atoms
             PROVE  flow.atoms[a].state # "RUNNING"
    BY DEF Quiet
<1>0. Len(events) \in Nat /\ DOMAIN events = 1..Len(events)
    BY LenProperties
<1>1. CASE FlowTold(events, n)
  <2>1. new.state \in FlowFinishStates
      BY <1>1 DEF Partway
  <2>2. PICK i \in 1..n : events[i].kind = "FLOW_STATE"
      BY <1>1 DEF FlowTold
  <2>3. i = Len(events)
      BY <1>0, <2>1, <2>2 DEF InTurn
  <2>4. n = Len(events)
    <3> DEFINE m == Len(events)
    <3>1. m \in Nat /\ n \in 0..m /\ i \in 1..n /\ i = m
        BY <1>0, <2>3
    <3> HIDE DEF m
    <3>2. n = m
        BY <3>1
    <3> QED  BY <3>2 DEF m
  <2>5. Shows(flow, new) /\ Quiet(new)
      BY <2>4, AllTold DEF Offered
  <2>6. a \in DOMAIN new.atoms /\ Shown(flow.atoms[a]) = Shown(new.atoms[a])
      BY <2>5 DEF Shows
  <2>7. flow.atoms[a].state = new.atoms[a].state
      BY <2>6 DEF Shown
  <2> QED  BY <2>1, <2>5, <2>6, <2>7 DEF Quiet
<1>2. CASE ~FlowTold(events, n)
  <2>1. old.state # "unseen" /\ flow.state = old.state
    <3>1. None \notin FlowFinishStates
        BY DEF None, FlowFinishStates
    <3> QED  BY <1>2, <3>1 DEF Partway
  <2>2. Offered(old) /\ DOMAIN old.atoms = AtomNames /\ DOMAIN new.atoms = AtomNames
      BY <2>1, OldShapes DEF Offered, Shaped
  <2>3. a \in AtomNames
    <3>1. a \in DOMAIN old.atoms \/ StateTold(events, n, a) \/ ProgressTold(events, n, a)
        BY DEF Partway
    <3> QED  BY <2>2, <3>1, OnlyNewsIsTold
  <2>4. /\ Known(old, a) = old.atoms[a] /\ old.atoms[a].state # "RUNNING"
      BY <2>1, <2>2, <2>3 DEF Known, Offered, Quiet
  <2>5. flow.atoms[a].state = IF StateTold(events, n, a) THEN new.atoms[a].state
                              ELSE old.atoms[a].state
      BY <2>4 DEF Partway, PartwayAtom
  <2>6. CASE new.state \in FlowFinishStates
    <3>1. new.atoms[a].state # "RUNNING"
        BY <2>2, <2>3, <2>6 DEF Offered, Quiet
    <3> QED  BY <2>4, <2>5, <3>1
  <2>7. CASE new.state \notin FlowFinishStates
    <3>1. old.state # new.state
        BY <2>1, <2>7
    <3>2. PICK i \in 1..Len(events) : events[i].kind = "FLOW_STATE"
        BY <3>1, AllNewsIsTold DEF FlowTold
    <3>3. i = 1
        BY <1>0, <2>7, <3>2 DEF InTurn
    <3>4. n = 0
      <4>1. ~(1 \in 1..n)
          BY <1>2, <3>2, <3>3 DEF FlowTold
      <4> QED  BY <1>0, <4>1
    <3>5. ~StateTold(events, n, a)
        BY <3>4 DEF StateTold
    <3> QED  BY <2>4, <2>5, <3>5
  <2> QED  BY <2>6, <2>7
<1> QED  BY <1>1, <1>2

\* The recursion of Folded over the first n events.
FoldsTo(f, flow, events, n) ==
    f = [k \in 0..n |-> IF k = 0 THEN flow ELSE Fold(f[k - 1], events[k])]

LEMMA FoldsExist ==
    ASSUME NEW flow, NEW events, NEW N \in Nat
    PROVE  \E f : FoldsTo(f, flow, events, N)
<1> DEFINE Bad == {n \in 0..N : ~ \E f : FoldsTo(f, flow, events, n)}
<1>1. Bad = {}
  <2> SUFFICES ASSUME Bad # {} PROVE FALSE
      OBVIOUS
  <2>1. Bad \in SUBSET Nat
      OBVIOUS
  <2>2. PICK n \in Bad : \A k \in Bad : n <= k
      BY <2>1, Smallest
  <2>3. n \in Nat /\ n \in 0..N /\ ~ \E f : FoldsTo(f, flow, events, n)
      OBVIOUS
  <2>4. CASE n = 0
    <3> DEFINE g == [k \in 0..0 |-> flow]
    <3>1. g = [k \in 0..0 |-> IF k = 0 THEN flow ELSE Fold(g[k - 1], events[k])]
        OBVIOUS
    <3> QED  BY <2>3, <2>4, <3>1 DEF FoldsTo
  <2>5. CASE n # 0
    <3>1. n - 1 \in 0..N /\ n - 1 \notin Bad
      <4>1. n - 1 \in 0..N /\ n - 1 \in Nat /\ ~(n <= n - 1)
          BY <2>3, <2>5
      <4> HIDE DEF Bad
      <4> QED  BY <2>2, <4>1
    <3>2. PICK f : FoldsTo(f, flow, events, n - 1)
        BY <3>1
    <3> DEFINE g == [k \in 0..n |-> IF k = n THEN Fold(f[n - 1], events[n]) ELSE f[k]]
    <3>3. ASSUME NEW k \in 0..n
          PROVE  g[k] = IF k = 0 THEN flow ELSE Fold(g[k - 1], events[k])
      <4>1. CASE k = n
        <5>1. n - 1 \in 0..n /\ n - 1 # n /\ g[n - 1] = f[n - 1]
            BY <2>3, <2>5
        <5> QED  BY <2>3, <2>5, <4>1, <5>1
      <4>2. CASE k # n
        <5>1. k \in 0..(n - 1) /\ g[k] = f[k]
            BY <2>3, <4>2
        <5>2. f[k] = IF k = 0 THEN flow ELSE Fold(f[k - 1], events[k])
            BY <3>2, <5>1 DEF FoldsTo
        <5>3. k # 0 => k - 1 \in 0..n /\ k - 1 # n /\ g[k - 1] = f[k - 1]
            BY <2>3, <4>2
        <5> QED  BY <5>1, <5>2, <5>3
      <4> QED  BY <4>1, <4>2
    <3>4. g = [k \in 0..n |-> IF k = 0 THEN flow ELSE Fold(g[k - 1], events[k])]
        BY <3>3
    <3> QED  BY <2>3, <3>4 DEF FoldsTo
  <2> QED  BY <2>4, <2>5
<1>2. N \in 0..N
    OBVIOUS
<1> QED  BY <1>1, <1>2

\* A store that takes all events at once is brought all the way.
LEMMA FoldedGoesAllTheWay ==
    ASSUME NEW X, NEW events \in Seq(X), NEW old, NEW new, Explains(events, old, new),
           NEW flow, Partway(flow, events, old, new, 0)
    PROVE  Partway(Folded(flow, events), events, old, new, Len(events))
<1> DEFINE N == Len(events)
           after == CHOOSE f : f = [k \in 0..N |-> IF k = 0 THEN flow ELSE Fold(f[k - 1], events[k])]
<1>1. N \in Nat /\ DOMAIN events = 1..N
    BY LenProperties
<1>2. \E f : f = [k \in 0..N |-> IF k = 0 THEN flow ELSE Fold(f[k - 1], events[k])]
  <2>1. \E f : FoldsTo(f, flow, events, N)
      BY <1>1, FoldsExist
  <2> QED  BY <2>1 DEF FoldsTo
<1>3. after = [k \in 0..N |-> IF k = 0 THEN flow ELSE Fold(after[k - 1], events[k])]
    BY <1>2
<1>4. Folded(flow, events) = after[N]
    BY DEF Folded
<1> HIDE DEF after, N
<1>5. \A k \in 0..N : after[k] = IF k = 0 THEN flow ELSE Fold(after[k - 1], events[k])
    BY <1>3
<1> DEFINE Good(k) == Partway(after[k], events, old, new, k)
           Bad == {k \in 0..N : ~Good(k)}
<1>6. Bad = {}
  <2> SUFFICES ASSUME Bad # {} PROVE FALSE
      OBVIOUS
  <2>1. Bad \in SUBSET Nat
      OBVIOUS
  <2>2. PICK k \in Bad : \A j \in Bad : k <= j
      BY <2>1, Smallest
  <2>3. k \in 0..N /\ ~Good(k)
      OBVIOUS
  <2> HIDE DEF Good
  <2>4. CASE k = 0
    <3>1. after[0] = flow
        BY <1>1, <1>5
    <3> QED  BY <2>3, <2>4, <3>1 DEF Good
  <2>5. CASE k # 0
    <3>1. k - 1 \in Nat /\ k - 1 \in 0..N /\ (k - 1) + 1 = k /\ k \in DOMAIN events /\ ~(k <= k - 1)
        BY <1>1, <2>3, <2>5
    <3>2. Good(k - 1)
        BY <2>2, <3>1
    <3>3. after[k] = Fold(after[k - 1], events[k])
        BY <1>5, <2>3, <2>5
    <3>4. Partway(Fold(after[k - 1], events[(k - 1) + 1]), events, old, new, (k - 1) + 1)
        BY <3>1, <3>2, OneMore DEF Good
    <3> QED  BY <2>3, <3>1, <3>3, <3>4 DEF Good
  <2> QED  BY <2>4, <2>5
<1>7. Good(N)
    BY <1>1, <1>6
<1> QED  BY <1>4, <1>7 DEF N

-----------------------------------------------------------------------------
(* Why the store shows what the poller has seen                            *)

\* Persistence offers well-made snapshots only, and a poll reads no others.
SourceInv ==
    /\ \A r \in Runs : Offered(source[r])
    /\ \A r \in DOMAIN previous : Offered(previous[r])
    /\ \A r \in DOMAIN seen : Offered(seen[r])

LEMMA StepsKeepOffered ==
    ASSUME NEW flow, Offered(flow), NEW next \in Steps(flow)
    PROVE  Offered(next)
<1>0. /\ {"state", "atoms"} \subseteq DOMAIN flow /\ DOMAIN flow.atoms = AtomNames
      /\ flow.state # "unseen"
      /\ \A a \in AtomNames : "state" \in DOMAIN flow.atoms[a] /\ flow.atoms[a].state \in AtomStates
    BY DEF Offered, Shaped
<1>1. Shaped(next)
    BY StepsKeepShape DEF Offered
<1>2. ASSUME NEW s \in FlowSteps(flow), next = [flow EXCEPT !.state = s]
      PROVE  Offered(next)
  <2>1. next.state = s /\ next.atoms = flow.atoms
      BY <1>0, <1>2
  <2>2. s \in {"RUNNING", "SUCCESS", "REVERTED", "SUSPENDED"}
      BY <1>2 DEF FlowSteps
  <2>3. s # "RUNNING" => \A a \in DOMAIN flow.atoms : flow.atoms[a].state # "RUNNING"
      BY <1>2 DEF FlowSteps
  <2>4. Quiet(next)
      BY <2>1, <2>3 DEF Quiet, FlowFinishStates
  <2> QED  BY <1>0, <1>1, <2>1, <2>2, <2>4 DEF Offered
<1>3. ASSUME flow.state = "RUNNING", NEW a \in DOMAIN flow.atoms,
             NEW atom \in AtomSteps(flow.atoms[a]), next = [flow EXCEPT !.atoms[a] = atom]
      PROVE  Offered(next)
  <2>1. /\ next.state = "RUNNING"
        /\ \A b \in AtomNames : next.atoms[b] = IF b = a THEN atom ELSE flow.atoms[b]
      BY <1>0, <1>3
  <2>2. Quiet(next)
      BY <2>1 DEF Quiet, FlowFinishStates
  <2>3. "state" \in DOMAIN atom /\ atom.state \in AtomStates
    <3> DEFINE was == flow.atoms[a]
    <3>1. "state" \in DOMAIN was /\ was.state \in AtomStates /\ atom \in AtomSteps(was)
        BY <1>0, <1>3
    <3> HIDE DEF was
    <3>2. CASE was.state = "PENDING"
        BY <3>1, <3>2 DEF AtomSteps, AtomStates
    <3>3. CASE was.state = "RUNNING"
        BY <3>1, <3>3 DEF AtomSteps, AtomStates
    <3>4. CASE was.state \in {"SUCCESS", "FAILURE"}
        BY <3>1, <3>4 DEF AtomSteps, AtomStates
    <3>5. CASE was.state = "REVERTED"
        BY <3>1, <3>5 DEF AtomSteps, AtomStates
    <3> QED  BY <3>1, <3>2, <3>3, <3>4, <3>5 DEF AtomStates
  <2> QED  BY <1>0, <1>1, <2>1, <2>2, <2>3 DEF Offered
<1>4. CASE flow.state = "RUNNING"
    BY <1>2, <1>3, <1>4 DEF Steps
<1>5. CASE flow.state # "RUNNING"
    BY <1>2, <1>5 DEF Steps
<1> QED  BY <1>4, <1>5

LEMMA SourceInit == Init => SourceInv
<1> SUFFICES ASSUME Init PROVE SourceInv
    OBVIOUS
<1>1. DOMAIN previous = {} /\ DOMAIN seen = {}
    BY DEF Init
<1>2. Pending.state = "PENDING" /\ "state" \in DOMAIN Pending
    BY DEF Pending, Fresh
<1>3. ASSUME NEW r \in Runs PROVE Offered(source[r])
  <2>1. CASE source[r] = Snapshot("PENDING", Pending)
    <3>1. source[r].state = "PENDING" /\ \A a \in AtomNames : source[r].atoms[a] = Pending
        BY <2>1 DEF Snapshot
    <3>2. Shaped(source[r])
        BY <2>1 DEF Snapshot, Shaped
    <3> QED  BY <1>2, <3>1, <3>2 DEF Offered, Quiet, FlowFinishStates, AtomStates
  <2>2. CASE source[r] = Snapshot("RUNNING", [Pending EXCEPT !.state = "RUNNING"])
    <3> DEFINE atom == [Pending EXCEPT !.state = "RUNNING"]
    <3>1. atom.state = "RUNNING" /\ "state" \in DOMAIN atom
        BY <1>2
    <3> HIDE DEF atom
    <3>2. source[r].state = "RUNNING" /\ \A a \in AtomNames : source[r].atoms[a] = atom
        BY <2>2 DEF Snapshot, atom
    <3>3. Shaped(source[r])
        BY <2>2 DEF Snapshot, Shaped
    <3> QED  BY <3>1, <3>2, <3>3 DEF Offered, Quiet, FlowFinishStates, AtomStates
  <2> QED  BY <2>1, <2>2 DEF Init
<1> QED  BY <1>1, <1>3 DEF SourceInv

LEMMA SourceNext == TypeInv /\ SourceInv /\ [Next]_vars => SourceInv'
<1> SUFFICES ASSUME TypeInv, SourceInv, [Next]_vars PROVE SourceInv'
    OBVIOUS
<1>1. CASE SourceChanges
  <2>1. UNCHANGED <<previous, seen>>
      BY <1>1 DEF SourceChanges, pollVars
  <2>2. PICK r \in Runs : \/ \E flow \in Steps(source[r]) : source' = [source EXCEPT ![r] = flow]
                          \/ UNCHANGED source
      BY <1>1 DEF SourceChanges
  <2>3. \A x \in Runs : Offered(source'[x])
    <3>1. CASE UNCHANGED source
        BY <3>1 DEF SourceInv
    <3>2. CASE \E flow \in Steps(source[r]) : source' = [source EXCEPT ![r] = flow]
      <4>1. PICK flow \in Steps(source[r]) : source' = [source EXCEPT ![r] = flow]
          BY <3>2
      <4>2. Offered(flow)
          BY <4>1, StepsKeepOffered DEF SourceInv
      <4>3. \A x \in Runs : source'[x] = IF x = r THEN flow ELSE source[x]
          BY <4>1 DEF TypeInv
      <4> QED  BY <4>2, <4>3 DEF SourceInv
    <3> QED  BY <2>2, <3>1, <3>2
  <2> QED  BY <2>1, <2>3 DEF SourceInv
<1>2. CASE Read
  <2>1. seen' = [r \in visible |-> source[r]] /\ visible \subseteq Runs
        /\ UNCHANGED <<previous, source>>
      BY <1>2 DEF Read, TypeInv, TypeOK, sourceVars
  <2> QED  BY <2>1 DEF SourceInv
<1>3. CASE \E r \in Runs : Tell(r)
  <2>1. UNCHANGED <<previous, seen, source>>
      BY <1>3 DEF Tell, sourceVars
  <2> QED  BY <2>1 DEF SourceInv
<1>4. CASE \E r \in Runs : TransactionFails(r)
  <2>1. seen' = <<>> /\ UNCHANGED <<previous, source>>
      BY <1>4 DEF TransactionFails, AfterFailure, PollEnds, sourceVars
  <2>2. DOMAIN seen' = {}
      BY <2>1
  <2> QED  BY <2>1, <2>2 DEF SourceInv
<1>5. CASE Apply
  <2>1. UNCHANGED <<previous, seen, source>>
      BY <1>5 DEF Apply, sourceVars
  <2> QED  BY <2>1 DEF SourceInv
<1>6. CASE Finish
  <2>1. seen' = <<>> /\ previous' = seen /\ UNCHANGED source
      BY <1>6 DEF Finish, PollEnds, sourceVars
  <2>2. DOMAIN seen' = {}
      BY <2>1
  <2> QED  BY <2>1, <2>2 DEF SourceInv
<1>7. CASE UNCHANGED vars
  <2>1. UNCHANGED <<previous, seen, source>>
      BY <1>7 DEF vars, sourceVars, pollVars
  <2> QED  BY <2>1 DEF SourceInv
<1> QED  BY <1>1, <1>2, <1>3, <1>4, <1>5, <1>6, <1>7 DEF Next, Poll

\* The events the poll has found in a run, whether some of them are on their
\* way, and how many the store has taken of a run it was told about.
News(r) == Diff(Remembered(r), seen[r])
OnTheirWay(r) == out # <<>> /\ out[1].run = r
Taken(r) == Len(News(r)) - IF OnTheirWay(r) THEN Len(out) ELSE 0

\* Of a run that this poll has not told, the store shows what the last poll
\* saw; of the others it shows the events it has taken, no more and no less,
\* and the rest are on their way.
ShownOf(r) ==
    IF Untouched(r)
    THEN ShowsWhatWas(sink[r], Remembered(r))
    ELSE /\ Taken(r) \in 0..Len(News(r))
         /\ Partway(sink[r], News(r), Remembered(r), seen[r], Taken(r))
         /\ OnTheirWay(r) => \A i \in DOMAIN out : out[i].event = News(r)[Taken(r) + i]

ShownInv ==
    /\ DOMAIN sink = Runs
    /\ \A i \in DOMAIN out : out[i].run = out[1].run
    /\ out # <<>> => out[1].run \in DOMAIN seen \ todo
    /\ \A r \in Runs \ mislaid : ShownOf(r)

\* The news of a run that the poll has read.
LEMMA NewsExplains ==
    ASSUME TypeInv, SourceInv, NEW r \in DOMAIN seen
    PROVE  /\ \E X : News(r) \in Seq(X)
           /\ Explains(News(r), Remembered(r), seen[r]) /\ InTurn(News(r), seen[r])
           /\ OfferedBefore(Remembered(r)) /\ Offered(seen[r])
           /\ Len(News(r)) \in Nat /\ DOMAIN News(r) = 1..Len(News(r))
<1>1. DOMAIN seen[r].atoms = AtomNames
    BY DEF TypeInv, Shaped
<1>2. DOMAIN seen[r].atoms \in SUBSET Nat /\ IsFiniteSet(DOMAIN seen[r].atoms)
    BY <1>1, PollerAssumption
<1>3. /\ \E X : News(r) \in Seq(X)
      /\ Explains(News(r), Remembered(r), seen[r]) /\ InTurn(News(r), seen[r])
    BY <1>2, DiffExplains DEF News
<1>4. OfferedBefore(Remembered(r)) /\ Offered(seen[r])
    BY DEF SourceInv, OfferedBefore, Remembered
<1>5. Len(News(r)) \in Nat /\ DOMAIN News(r) = 1..Len(News(r))
  <2>1. PICK X : News(r) \in Seq(X)
      BY <1>3
  <2> QED  BY <2>1, LenProperties
<1> QED  BY <1>3, <1>4, <1>5

\* Once nothing is on its way, the store shows what the poll saw of a run.
LEMMA ToldIsShown ==
    ASSUME TypeInv, SourceInv, ShownInv, out = <<>>, NEW r \in Runs \ mislaid,
           r \in DOMAIN seen, r \notin todo
    PROVE  Shows(sink[r], seen[r])
<1>1. ShownOf(r) /\ ~Untouched(r)
    BY DEF ShownInv, Untouched
<1>2. Len(News(r)) \in Nat
    BY NewsExplains
<1>3. Taken(r) = Len(News(r))
    BY <1>2 DEF Taken, OnTheirWay
<1>4. Partway(sink[r], News(r), Remembered(r), seen[r], Len(News(r)))
    BY <1>1, <1>3 DEF ShownOf
<1>5. PICK X : News(r) \in Seq(X)
    BY NewsExplains
<1> QED  BY <1>4, <1>5, NewsExplains, AllTold

\* Nothing happens to a run of which nothing is on its way.
LEMMA ShownOfOthers ==
    ASSUME NEW r, ShownOf(r), ~OnTheirWay(r), ~OnTheirWay(r)',
           UNCHANGED <<previous, seen>>, sink'[r] = sink[r], r \in todo' <=> r \in todo
    PROVE  ShownOf(r)'
<1>1. /\ Untouched(r)' <=> Untouched(r)
      /\ Remembered(r)' = Remembered(r)
    BY DEF Untouched, Remembered
<1>2. News(r)' = News(r)
    BY <1>1 DEF News
<1>3. Taken(r)' = Taken(r)
    BY <1>2 DEF Taken
<1>4. CASE Untouched(r)
    BY <1>1, <1>4 DEF ShownOf
<1>5. CASE ~Untouched(r)
  <2>1. /\ Taken(r)' \in 0..Len(News(r)')
        /\ Partway(sink'[r], News(r)', Remembered(r)', seen'[r], Taken(r)')
      BY <1>1, <1>2, <1>3, <1>5 DEF ShownOf
  <2> QED  BY <1>1, <1>5, <2>1 DEF ShownOf
<1> QED  BY <1>4, <1>5

LEMMA ShownInit == Init => ShownInv
<1> SUFFICES ASSUME Init PROVE ShownInv
    OBVIOUS
<1>1. /\ previous = <<>> /\ seen = <<>> /\ out = <<>>
      /\ sink = [r \in Runs |-> EmptyFlow]
    BY DEF Init
<1>2. DOMAIN previous = {} /\ DOMAIN seen = {} /\ DOMAIN out = {}
    BY <1>1
<1>3. ASSUME NEW r \in Runs PROVE ShownOf(r)
  <2>1. Untouched(r) /\ Remembered(r) = NoFlow /\ sink[r] = EmptyFlow
      BY <1>1, <1>2 DEF Untouched, Remembered
  <2> QED  BY <2>1 DEF ShownOf, ShowsWhatWas, NoFlow
<1> QED  BY <1>1, <1>2, <1>3 DEF ShownInv

\* The source's changes, and a poll that begins, tell the store nothing.
LEMMA ShownWhenNothingIsTold ==
    ASSUME ShownInv, UNCHANGED <<previous, seen, todo, sink, out, mislaid>>
    PROVE  ShownInv'
<1>1. \A r \in Runs \ mislaid : ShownOf(r)'
  <2> SUFFICES ASSUME NEW r \in Runs \ mislaid PROVE ShownOf(r)'
      OBVIOUS
  <2>1. ShownOf(r)
      BY DEF ShownInv
  <2>2. (Untouched(r)' <=> Untouched(r)) /\ Remembered(r)' = Remembered(r) /\ seen'[r] = seen[r]
      BY DEF Untouched, Remembered
  <2>3. News(r)' = News(r) /\ (OnTheirWay(r)' <=> OnTheirWay(r))
      BY <2>2 DEF News, OnTheirWay
  <2>4. Taken(r)' = Taken(r)
      BY <2>3 DEF Taken
  <2>5. CASE Untouched(r)
      BY <2>1, <2>2, <2>5 DEF ShownOf
  <2>6. CASE ~Untouched(r)
      BY <2>1, <2>2, <2>3, <2>4, <2>6 DEF ShownOf
  <2> QED  BY <2>5, <2>6
<1> QED  BY <1>1 DEF ShownInv

LEMMA ShownWhenRead == TypeInv /\ ShownInv /\ Read => ShownInv'
<1> SUFFICES ASSUME TypeInv, ShownInv, Read PROVE ShownInv'
    OBVIOUS
<1>1. /\ seen = <<>> /\ out = <<>>
      /\ seen' = [r \in visible |-> source[r]] /\ todo' = visible
      /\ UNCHANGED <<previous, sink, out, mislaid>>
    BY DEF Read, TypeInv, TypeOK, storeVars
<1>2. DOMAIN seen = {} /\ DOMAIN seen' = visible /\ DOMAIN out' = {}
    BY <1>1
<1>3. ASSUME NEW r \in Runs \ mislaid PROVE ShownOf(r)'
  <2>1. Untouched(r) /\ Untouched(r)' /\ Remembered(r)' = Remembered(r) /\ sink'[r] = sink[r]
      BY <1>1, <1>2 DEF Untouched, Remembered
  <2>2. ShownOf(r)
      BY DEF ShownInv
  <2> QED  BY <2>1, <2>2 DEF ShownOf
<1> QED  BY <1>1, <1>2, <1>3 DEF ShownInv

\* A memory store is handed the events one by one: it has taken none yet.  A
\* sqlalchemy store has taken them all.
LEMMA ShownWhenTold ==
    ASSUME TypeInv, SourceInv, ShownInv, NEW r \in Runs, Tell(r)
    PROVE  ShownInv'
<1> DEFINE events == News(r)
           n == Len(events)
<1>1. /\ out = <<>> /\ r \in todo /\ todo' = todo \ {r}
      /\ UNCHANGED <<previous, seen, mislaid>>
      /\ Hand(r, events) \/ Commit(r, events)
    BY DEF Tell, News
<1>2. r \in DOMAIN seen
    BY <1>1 DEF TypeInv, TypeOK
<1>3. /\ Explains(events, Remembered(r), seen[r])
      /\ OfferedBefore(Remembered(r))
      /\ n \in Nat /\ DOMAIN events = 1..n
    BY <1>2, NewsExplains
<1>4. News(r)' = events /\ Remembered(r)' = Remembered(r)
    BY <1>1 DEF News, Remembered
<1>5. ~Untouched(r)' /\ Untouched(r)
    BY <1>1, <1>2 DEF Untouched
<1>6. r \notin mislaid => Partway(sink[r], events, Remembered(r), seen[r], 0)
  <2>1. r \notin mislaid => ShowsWhatWas(sink[r], Remembered(r))
      BY <1>5 DEF ShownInv, ShownOf
  <2> QED  BY <1>3, <2>1, NoneTold
<1> HIDE DEF events
<1>7. ASSUME NEW x \in Runs \ mislaid, x # r, sink'[x] = sink[x],
             out' # <<>> => out'[1].run = r
      PROVE  ShownOf(x)'
  <2>1. ShownOf(x) /\ ~OnTheirWay(x) /\ ~OnTheirWay(x)' /\ (x \in todo' <=> x \in todo)
      BY <1>1, <1>7 DEF ShownInv, OnTheirWay
  <2> QED  BY <1>1, <1>7, <2>1, ShownOfOthers
<1>8. CASE Hand(r, events)
  <2> HIDE DEF n
  <2>1. sink' = sink /\ out' = [i \in 1..n |->
            [run |-> r, seq |-> Numbers(r, Len(events))[i], event |-> events[i]]]
      BY <1>3, <1>8 DEF Hand
  <2>2. /\ DOMAIN out' = 1..n
        /\ \A i \in 1..n : out'[i].run = r /\ out'[i].event = events[i]
      BY <2>1
  <2>3. out' \in Seq(Range(out')) /\ Len(out') = n
    <3>1. out' \in [1..n -> Range(out')]
        BY <2>1 DEF Range
    <3> QED  BY <1>3, <3>1
  <2>4. (out' = <<>> <=> n = 0) /\ (out' # <<>> => 1 \in 1..n /\ out'[1].run = r)
    <3>1. out' = <<>> <=> n = 0
        BY <1>3, <2>3
    <3>2. n # 0 => 1 \in 1..n
        BY <1>3
    <3> QED  BY <2>2, <3>1, <3>2
  <2>5. Taken(r)' = 0
    <3>1. CASE n = 0
      <4>1. ~OnTheirWay(r)' /\ Taken(r)' = n - 0
          BY <1>4, <2>4, <3>1 DEF Taken, OnTheirWay, n
      <4> QED  BY <3>1, <4>1
    <3>2. CASE n # 0
      <4>1. OnTheirWay(r)'
          BY <2>4, <3>2 DEF OnTheirWay
      <4>2. Taken(r)' = n - n
          BY <1>4, <2>3, <4>1 DEF Taken, n
      <4> QED  BY <1>3, <4>2
    <3> QED  BY <3>1, <3>2
  <2>6. r \notin mislaid => ShownOf(r)'
    <3> SUFFICES ASSUME r \notin mislaid PROVE ShownOf(r)'
        OBVIOUS
    <3>1. Taken(r)' \in 0..Len(News(r)')
        BY <1>3, <1>4, <2>5 DEF n
    <3>2. Partway(sink'[r], News(r)', Remembered(r)', seen'[r], Taken(r)')
        BY <1>1, <1>4, <1>6, <2>1, <2>5
    <3>3. \A i \in DOMAIN out' : out'[i].event = News(r)'[Taken(r)' + i]
        BY <1>3, <1>4, <2>2, <2>5
    <3> QED  BY <1>5, <3>1, <3>2, <3>3 DEF ShownOf
  <2>7. \A x \in Runs \ mislaid' : ShownOf(x)'
      BY <1>1, <1>7, <2>1, <2>4, <2>6
  <2>8. /\ DOMAIN sink' = Runs
        /\ \A i \in DOMAIN out' : out'[i].run = out'[1].run
        /\ out' # <<>> => out'[1].run \in DOMAIN seen' \ todo'
      BY <1>1, <1>2, <2>1, <2>2, <2>4 DEF ShownInv
  <2> QED  BY <2>7, <2>8 DEF ShownInv
<1>9. CASE Commit(r, events)
  <2>1. out' = out /\ sink' = [sink EXCEPT ![r] = Folded(sink[r], events)]
      BY <1>9 DEF Commit
  <2>2. /\ DOMAIN sink' = Runs /\ sink'[r] = Folded(sink[r], events)
        /\ \A x \in Runs : x # r => sink'[x] = sink[x]
      BY <2>1 DEF ShownInv
  <2>3. out' = <<>> /\ DOMAIN out' = {}
      BY <1>1, <2>1
  <2>4. Taken(r)' = n - 0 /\ ~OnTheirWay(r)'
      BY <1>4, <2>3 DEF Taken, OnTheirWay
  <2>5. r \notin mislaid => ShownOf(r)'
    <3> SUFFICES ASSUME r \notin mislaid PROVE ShownOf(r)'
        OBVIOUS
    <3>1. PICK X : events \in Seq(X)
        BY <1>2, NewsExplains DEF events
    <3>2. Partway(sink'[r], events, Remembered(r), seen[r], n)
        BY <1>3, <1>6, <2>2, <3>1, FoldedGoesAllTheWay
    <3>3. Taken(r)' = n /\ Taken(r)' \in 0..Len(News(r)')
        BY <1>3, <1>4, <2>4
    <3>4. Partway(sink'[r], News(r)', Remembered(r)', seen'[r], Taken(r)')
        BY <1>1, <1>4, <3>2, <3>3
    <3> QED  BY <1>5, <2>4, <3>3, <3>4 DEF ShownOf
  <2>6. \A x \in Runs \ mislaid' : ShownOf(x)'
      BY <1>1, <1>7, <2>2, <2>3, <2>5
  <2> QED  BY <2>2, <2>3, <2>6 DEF ShownInv
<1> QED  BY <1>1, <1>8, <1>9

\* The next event of the run whose events are on their way.
LEMMA ShownWhenApplied ==
    ASSUME TypeInv, SourceInv, ShownInv, Apply
    PROVE  ShownInv'
<1> DEFINE m == Len(out)
<1>0. PICK r : r = out[1].run
    OBVIOUS
<1>1. PICK X : out \in Seq(X)
    BY DEF TypeInv
<1>2. /\ out # <<>> /\ out' = Tail(out) /\ Head(out) = out[1]
      /\ m \in Nat \ {0} /\ DOMAIN out = 1..m
    BY <1>1 DEF Apply
<1>3. /\ sink' = [sink EXCEPT ![r] = Fold(sink[r], out[1].event)]
      /\ UNCHANGED <<previous, seen, todo, mislaid>>
    BY <1>0, <1>2 DEF Apply
<1>4. /\ out' \in Seq(X) /\ Len(out') = m - 1 /\ DOMAIN out' = 1..(m - 1)
      /\ \A i \in 1..(m - 1) : i + 1 \in DOMAIN out /\ out'[i] = out[i + 1]
    BY <1>1, <1>2
<1>5. r \in DOMAIN seen \ todo /\ \A i \in DOMAIN out : out[i].run = r
    BY <1>0, <1>2 DEF ShownInv
<1>6. r \in Runs
    BY <1>5 DEF TypeInv, TypeOK
<1>7. \A i \in DOMAIN out' : out'[i].run = r
    BY <1>4, <1>5
<1>8. out' # <<>> => 1 \in DOMAIN out' /\ out'[1].run = r
  <2>1. out' # <<>> => 1 \in DOMAIN out'
      BY <1>4
  <2> QED  BY <1>7, <2>1
<1>9. /\ DOMAIN sink' = Runs /\ sink'[r] = Fold(sink[r], out[1].event)
      /\ \A x \in Runs : x # r => sink'[x] = sink[x]
    BY <1>3, <1>6 DEF ShownInv
<1> HIDE DEF m
<1>10. ASSUME NEW x \in Runs \ mislaid, x # r PROVE ShownOf(x)'
  <2>1. ShownOf(x) /\ ~OnTheirWay(x) /\ ~OnTheirWay(x)' /\ sink'[x] = sink[x]
      BY <1>0, <1>8, <1>9, <1>10 DEF ShownInv, OnTheirWay
  <2> QED  BY <1>3, <2>1, ShownOfOthers
<1>11. ASSUME r \notin mislaid PROVE ShownOf(r)'
  <2> DEFINE events == News(r)
             n == Len(events)
             t == n - m
  <2>1. /\ Explains(events, Remembered(r), seen[r])
        /\ n \in Nat /\ DOMAIN events = 1..n
      BY <1>5, NewsExplains
  <2>2. News(r)' = events /\ Remembered(r)' = Remembered(r)
      BY <1>3 DEF News, Remembered
  <2>3. OnTheirWay(r) /\ Taken(r) = t
      BY <1>0, <1>2 DEF OnTheirWay, Taken, m
  <2>4. ~Untouched(r) /\ ~Untouched(r)'
      BY <1>3, <1>5 DEF Untouched
  <2>5. /\ t \in 0..n /\ Partway(sink[r], events, Remembered(r), seen[r], t)
        /\ \A i \in DOMAIN out : out[i].event = events[t + i]
    <3>1. ShownOf(r)
        BY <1>6, <1>11 DEF ShownInv
    <3> QED  BY <2>3, <2>4, <3>1 DEF ShownOf
  <2> HIDE DEF events, n
  <2>6. t \in Nat /\ t + 1 \in 1..n
      BY <1>2, <2>1, <2>5
  <2>7. Taken(r)' = t + 1
    <3>1. CASE m = 1
      <4>1. out' = <<>>
          BY <1>4, <3>1
      <4>2. Taken(r)' = n - 0
          BY <2>2, <4>1 DEF Taken, OnTheirWay, n
      <4> QED  BY <2>1, <3>1, <4>2
    <3>2. CASE m # 1
      <4>1. out' # <<>>
          BY <1>2, <1>4, <3>2
      <4>2. OnTheirWay(r)'
          BY <1>8, <4>1 DEF OnTheirWay
      <4>3. Taken(r)' = n - (m - 1)
          BY <1>4, <2>2, <4>2 DEF Taken, n
      <4> QED  BY <1>2, <2>1, <4>3
    <3> QED  BY <3>1, <3>2
  <2>8. Partway(sink'[r], events, Remembered(r), seen[r], t + 1)
    <3>1. 1 \in DOMAIN out
        BY <1>2
    <3>2. out[1].event = events[t + 1]
        BY <2>5, <3>1
    <3> HIDE DEF t
    <3> QED  BY <1>9, <2>1, <2>5, <2>6, <3>2, OneMore
  <2>9. ASSUME NEW i \in DOMAIN out' PROVE out'[i].event = events[(t + 1) + i]
    <3>1. i \in Nat /\ i + 1 \in DOMAIN out /\ out'[i] = out[i + 1]
        BY <1>4, <2>9
    <3>2. out[i + 1].event = events[t + (i + 1)]
        BY <2>5, <3>1
    <3>3. t + (i + 1) = (t + 1) + i
        BY <2>6, <3>1
    <3> QED  BY <3>1, <3>2, <3>3
  <2>10. Taken(r)' \in 0..Len(News(r)')
      BY <2>1, <2>2, <2>6, <2>7 DEF n
  <2>11. Partway(sink'[r], News(r)', Remembered(r)', seen'[r], Taken(r)')
      BY <1>3, <2>2, <2>7, <2>8
  <2>12. \A i \in DOMAIN out' : out'[i].event = News(r)'[Taken(r)' + i]
      BY <2>2, <2>7, <2>9
  <2> HIDE DEF t
  <2> QED  BY <2>4, <2>10, <2>11, <2>12 DEF ShownOf
<1>12. \A x \in Runs \ mislaid' : ShownOf(x)'
    BY <1>3, <1>10, <1>11
<1>13. /\ \A i \in DOMAIN out' : out'[i].run = out'[1].run
       /\ out' # <<>> => out'[1].run \in DOMAIN seen' \ todo'
  <2>1. \A i \in DOMAIN out' : out' # <<>>
      BY <1>4
  <2> QED  BY <1>3, <1>5, <1>7, <1>8, <2>1
<1> QED  BY <1>9, <1>12, <1>13 DEF ShownInv

\* A poll that failed remembers what was seen before it: the runs it told the
\* store other news of are mislaid.
LEMMA ShownWhenFailed ==
    ASSUME TypeInv, SourceInv, ShownInv, NEW r \in Runs, TransactionFails(r)
    PROVE  ShownInv'
<1>1. /\ previous' = previous /\ seen' = <<>> /\ todo' = {} /\ UNCHANGED <<sink, out>>
      /\ mislaid' = mislaid \cup {x \in DOMAIN seen \ todo : Remembered(x) # seen[x]}
      /\ out = <<>>
    BY DEF TransactionFails, AfterFailure, PollEnds, TypeInv, TypeOK
<1>2. DOMAIN seen' = {} /\ DOMAIN out' = {}
    BY <1>1
<1>3. ASSUME NEW x \in Runs \ mislaid' PROVE ShownOf(x)'
  <2>1. Untouched(x)' /\ Remembered(x)' = Remembered(x) /\ sink'[x] = sink[x]
      BY <1>1, <1>2 DEF Untouched, Remembered
  <2>2. x \in Runs \ mislaid
      BY <1>1, <1>3
  <2>3. CASE Untouched(x)
      BY <2>1, <2>2, <2>3 DEF ShownInv, ShownOf
  <2>4. CASE ~Untouched(x)
    <3>1. x \in DOMAIN seen /\ x \notin todo
        BY <2>4 DEF Untouched
    <3>2. Remembered(x) = seen[x]
        BY <1>1, <1>3, <3>1
    <3>3. Shows(sink[x], seen[x])
        BY <1>1, <2>2, <3>1, ToldIsShown
    <3>4. seen[x].state # "unseen"
        BY <3>1 DEF SourceInv, Offered
    <3>5. ShowsWhatWas(sink'[x], Remembered(x)')
        BY <2>1, <3>2, <3>3, <3>4 DEF ShowsWhatWas
    <3> QED  BY <2>1, <3>5 DEF ShownOf
  <2> QED  BY <2>3, <2>4
<1> QED  BY <1>1, <1>2, <1>3 DEF ShownInv

\* A poll that is through remembers what it saw, and that is what the store
\* shows.
LEMMA ShownWhenFinished ==
    TypeInv /\ SourceInv /\ ShownInv /\ Finish => ShownInv'
<1> SUFFICES ASSUME TypeInv, SourceInv, ShownInv, Finish PROVE ShownInv'
    OBVIOUS
<1>1. /\ previous' = seen /\ seen' = <<>> /\ todo = {} /\ todo' = {} /\ out = <<>>
      /\ mislaid' = mislaid \cup (DOMAIN previous \ DOMAIN seen)
      /\ UNCHANGED <<sink, out>>
    BY DEF Finish, PollEnds, storeVars
<1>2. DOMAIN seen' = {} /\ DOMAIN out' = {}
    BY <1>1
<1>3. ASSUME NEW x \in Runs \ mislaid' PROVE ShownOf(x)'
  <2>1. Untouched(x)' /\ sink'[x] = sink[x] /\ x \in Runs \ mislaid
      BY <1>1, <1>2, <1>3 DEF Untouched
  <2>2. CASE x \in DOMAIN seen
    <3>1. Shows(sink[x], seen[x])
        BY <1>1, <2>1, <2>2, ToldIsShown
    <3>2. Remembered(x)' = seen[x] /\ seen[x].state # "unseen"
        BY <1>1, <2>2 DEF Remembered, SourceInv, Offered
    <3>3. ShowsWhatWas(sink'[x], Remembered(x)')
        BY <2>1, <3>1, <3>2 DEF ShowsWhatWas
    <3> QED  BY <2>1, <3>3 DEF ShownOf
  <2>3. CASE x \notin DOMAIN seen
    <3>1. x \notin DOMAIN previous /\ Untouched(x)
        BY <1>1, <1>3, <2>3 DEF Untouched
    <3>2. Remembered(x)' = Remembered(x)
        BY <1>1, <2>3, <3>1 DEF Remembered
    <3> QED  BY <2>1, <3>1, <3>2 DEF ShownInv, ShownOf
  <2> QED  BY <2>2, <2>3
<1> QED  BY <1>1, <1>2, <1>3 DEF ShownInv

LEMMA ShownNext == TypeInv /\ SourceInv /\ ShownInv /\ [Next]_vars => ShownInv'
<1> SUFFICES ASSUME TypeInv, SourceInv, ShownInv, [Next]_vars PROVE ShownInv'
    OBVIOUS
<1>1. CASE SourceChanges
  <2>1. UNCHANGED <<previous, seen, todo, sink, out, mislaid>>
      BY <1>1 DEF SourceChanges, storeVars, pollVars
  <2> QED  BY <2>1, ShownWhenNothingIsTold
<1>2. CASE Read
    BY <1>2, ShownWhenRead
<1>3. ASSUME NEW r \in Runs, Tell(r) PROVE ShownInv'
    BY <1>3, ShownWhenTold
<1>4. ASSUME NEW r \in Runs, TransactionFails(r) PROVE ShownInv'
    BY <1>4, ShownWhenFailed
<1>5. CASE Apply
    BY <1>5, ShownWhenApplied
<1>6. CASE Finish
    BY <1>6, ShownWhenFinished
<1>7. CASE UNCHANGED vars
  <2>1. UNCHANGED <<previous, seen, todo, sink, out, mislaid>>
      BY <1>7 DEF vars, storeVars, pollVars
  <2> QED  BY <2>1, ShownWhenNothingIsTold
<1> QED  BY <1>1, <1>2, <1>3, <1>4, <1>5, <1>6, <1>7 DEF Next, Poll

LEMMA WhatWasSeenIsShown == TypeInv /\ SourceInv /\ ShownInv => SinkShowsWhatWasSeen
<1> SUFFICES ASSUME TypeInv, SourceInv, ShownInv, NEW r \in DOMAIN previous \ mislaid, Untouched(r)
             PROVE  Shows(sink[r], previous[r])
    BY DEF SinkShowsWhatWasSeen, Shows
<1>0. r \in Runs \ mislaid
    BY DEF TypeInv, TypeOK
<1>1. ShowsWhatWas(sink[r], Remembered(r))
    BY <1>0 DEF ShownInv, ShownOf
<1>2. Remembered(r) = previous[r] /\ previous[r].state # "unseen"
    BY DEF Remembered, SourceInv, Offered
<1> QED  BY <1>1, <1>2 DEF ShowsWhatWas

LEMMA WhatIsShownIsQuiet == TypeInv /\ SourceInv /\ ShownInv => FinishedFlowsAreQuiet
<1> SUFFICES ASSUME TypeInv, SourceInv, ShownInv, NEW r \in Runs \ mislaid
             PROVE  Quiet(sink[r])
    BY DEF FinishedFlowsAreQuiet, Quiet
<1>1. ShownOf(r)
    BY DEF ShownInv
<1>2. CASE Untouched(r)
  <2>1. ShowsWhatWas(sink[r], Remembered(r))
      BY <1>1, <1>2 DEF ShownOf
  <2>2. CASE Remembered(r).state = "unseen"
    <3>1. sink[r].state = None
        BY <2>1, <2>2 DEF ShowsWhatWas, EmptyFlow
    <3> QED  BY <3>1 DEF Quiet, None, FlowFinishStates
  <2>3. CASE Remembered(r).state # "unseen"
    <3>1. Shows(sink[r], Remembered(r))
        BY <2>1, <2>3 DEF ShowsWhatWas
    <3>2. Quiet(Remembered(r))
        BY <2>3 DEF SourceInv, Offered, Remembered, NoFlow
    <3>3. \A a \in DOMAIN sink[r].atoms : sink[r].atoms[a].state = Remembered(r).atoms[a].state
        BY <3>1 DEF Shows, Shown
    <3> QED  BY <3>1, <3>2, <3>3 DEF Quiet, Shows
  <2> QED  BY <2>2, <2>3
<1>3. CASE ~Untouched(r)
  <2>1. r \in DOMAIN seen
      BY <1>3 DEF Untouched
  <2>2. PICK X : News(r) \in Seq(X)
      BY <2>1, NewsExplains
  <2>3. /\ Taken(r) \in 0..Len(News(r))
        /\ Partway(sink[r], News(r), Remembered(r), seen[r], Taken(r))
      BY <1>1, <1>3 DEF ShownOf
  <2> QED  BY <2>1, <2>2, <2>3, NewsExplains, QuietPartway
<1> QED  BY <1>2, <1>3

\* Until the next poll tells more, the store shows of every run, but for the
\* mislaid ones, exactly what the last poll saw of it: whatever changed in
\* between, whichever kind of store it is, and although what is stored is
\* folded from events that carry what changed only (fold.py:15, diff.py).
THEOREM StoreShowsWhatWasSeen == Spec => []SinkShowsWhatWasSeen
<1> QED  BY WhatWasSeenIsShown, PollerInit, PollerNext, SourceInit, SourceNext,
            ShownInit, ShownNext, PTL DEF Spec

\* At no event of a batch does a reader of the store meet a finished flow
\* with an atom that still runs (the order in diff_flow()).
THEOREM FinishedFlowsStayQuiet == Spec => []FinishedFlowsAreQuiet
<1> QED  BY WhatIsShownIsQuiet, PollerInit, PollerNext, SourceInit, SourceNext,
            ShownInit, ShownNext, PTL DEF Spec
===============================================================================
