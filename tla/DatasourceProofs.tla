--------------------------- MODULE DatasourceProofs ---------------------------
(***************************************************************************)
(* What the datasources promise, for any number of runs, collectors and    *)
(* writes.  Two models: SqlCollector, the events of one flow in the        *)
(* database, and FlowListing, the listing of all flows and a client's walk *)
(* through its pages.                                                      *)
(*                                                                         *)
(* The first part shows, for any collectors, failures and crashes, that no *)
(* event is acknowledged to the broker before it is in the database, that  *)
(* the snapshot and the events agree when all is handled, and that no page *)
(* a reader is given has a hole in it.  Numbered ties the primary key of a *)
(* row to the event it stands for, and Folded ties the flow's row to what  *)
(* has been committed; a collector that has yet to commit holds a row that *)
(* is either that or marked.                                               *)
(*                                                                         *)
(* The second part shows that the page a query by key gives is the one     *)
(* that sorting and slicing gives, that eviction drops what was observed   *)
(* first, and that a walk misses nothing.  What is listed is described by  *)
(* the order it comes in: every set of runs has exactly one (OrderedOrders,*)
(* OrderIsUnique), and what comes after a member is the order of the rest  *)
(* (OrderedRest), which is why a key and a position agree.  AheadOfMarker  *)
(* says that what a walk has yet to list comes after its marker, whatever  *)
(* is written; EvictedBefore is why that stays so when the memory store    *)
(* evicts the marker's own run, and an event brings it back.               *)
(***************************************************************************)
EXTENDS SqlCollector, FlowListing, SortedNumbersProofs

\* What is appended to a sequence, and what a sequence over more is.
LEMMA Appended ==
    ASSUME NEW S, NEW q \in Seq(S), NEW x \in S, NEW r, r = Append(q, x)
    PROVE  /\ r \in Seq(S) /\ Len(r) = Len(q) + 1 /\ DOMAIN q = 1..Len(q)
           /\ DOMAIN r = 1..(Len(q) + 1) /\ Len(q) \in Nat
           /\ (\A i \in 1..Len(q) : r[i] = q[i]) /\ r[Len(q) + 1] = x
BY AppendProperties, LenProperties

LEMMA Widened ==
    ASSUME NEW S, NEW T, S \subseteq T, NEW q \in Seq(S)
    PROVE  q \in Seq(T)
<1>1. Len(q) \in Nat /\ \A i \in 1..Len(q) : q[i] \in T
    BY LenProperties, ElementOfSeq
<1>2. SubSeq(q, 1, Len(q)) \in Seq(T)
    BY <1>1, SubSeqProperties
<1> QED  BY <1>2, SubSeqFull

LEMMA PutInFront ==
    ASSUME NEW S, NEW q \in Seq(S), NEW x \in S
    PROVE  <<x>> \o q \in Seq(S)
BY ConcatProperties

-----------------------------------------------------------------------------
\* The types that TypeOK leaves to what the actions put there: who holds no
\* message holds none, and the reader's first query finds one number at most.
Held == msg \in [Collectors -> Nat]
OneOldest == \A s, t \in oldest : s = t

TypeInv == TypeOK /\ Held /\ OneOldest

LEMMA TypeAtFirst == Init => TypeInv
<1> SUFFICES ASSUME Init PROVE TypeInv
    OBVIOUS
<1>1. /\ published \in Seq([seq : Nat \ {0}, atom : Atoms]) /\ ready \in Seq(Published)
    BY EmptySeq DEF Init
<1>2. process \in 1..MaxProcesses /\ failures \in 0..MaxFailures
      /\ crashes \in 0..MaxCrashes /\ prunes \in 0..MaxPrunes
    BY CollectorAssumption DEF Init
<1>3. events \subseteq [seq : Nat, event : Published] /\ acked \subseteq Published
      /\ applied \in Published \cup {0} /\ oldest \subseteq Nat
    BY DEF Init
<1>4. Nothing \in [Atoms -> Published \cup {0}]
    BY DEF Nothing
<1> QED  BY <1>1, <1>2, <1>3, <1>4 DEF Init, TypeInv, TypeOK, Held, OneOldest

\* The places of what is published, and the event a collector holds.
LEMMA RowOrder ==
    ASSUME TypeInv
    PROVE  /\ Published = 1..Len(published) /\ Len(published) \in Nat
           /\ Published \subseteq Nat
           /\ \A m \in Published : /\ published[m] \in [seq : Nat \ {0}, atom : Atoms]
                                   /\ published[m].seq \in Nat /\ published[m].atom \in Atoms
           /\ Seqs \in SUBSET Nat
<1>1. published \in Seq([seq : Nat \ {0}, atom : Atoms]) /\ events \subseteq [seq : Nat, event : Published]
    BY DEF TypeInv, TypeOK
<1>2. Published = 1..Len(published) /\ Len(published) \in Nat
    BY <1>1, LenProperties DEF Published
<1>3. \A m \in Published : published[m] \in [seq : Nat \ {0}, atom : Atoms]
    BY <1>1, <1>2, ElementOfSeq
<1>4. Seqs \in SUBSET Nat
    BY <1>1 DEF Seqs
<1> QED  BY <1>2, <1>3, <1>4

\* What is published stays where it is, and the queue only holds that.
LEMMA Growing ==
    ASSUME TypeInv, NEW a \in Atoms, Publish(a)
    PROVE  /\ published' \in Seq([seq : Nat \ {0}, atom : Atoms])
           /\ Published \subseteq Published' /\ Len(published) + 1 \in Published'
           /\ Published' = Published \cup {Len(published) + 1}
           /\ \A m \in Published : published'[m] = published[m]
           /\ published'[Len(published) + 1] = [seq |-> counter + 1, atom |-> a]
           /\ ready' \in Seq(Published')
<1>1. /\ published \in Seq([seq : Nat \ {0}, atom : Atoms]) /\ ready \in Seq(Published)
      /\ [seq |-> counter + 1, atom |-> a] \in [seq : Nat \ {0}, atom : Atoms]
    BY DEF TypeInv, TypeOK
<1>2. /\ published' \in Seq([seq : Nat \ {0}, atom : Atoms])
      /\ DOMAIN published = 1..Len(published) /\ Len(published) \in Nat
      /\ DOMAIN published' = 1..(Len(published) + 1)
      /\ \A m \in 1..Len(published) : published'[m] = published[m]
      /\ published'[Len(published) + 1] = [seq |-> counter + 1, atom |-> a]
    BY <1>1, Appended DEF Publish
<1>3. /\ Published = 1..Len(published) /\ Published' = 1..(Len(published) + 1)
      /\ Published \subseteq Published' /\ Len(published) + 1 \in Published'
      /\ Published' = Published \cup {Len(published) + 1}
    BY <1>2 DEF Published
<1>4. ready \in Seq(Published')
    BY <1>1, <1>3, Widened
<1>5. ready' \in Seq(Published')
    BY <1>3, <1>4, Appended DEF Publish
<1> QED  BY <1>2, <1>3, <1>5

LEMMA Returned ==
    ASSUME TypeInv, NEW m \in Published, Redeliver(m)
    PROVE  ready' \in Seq(Published)
<1>1. ready \in Seq(Published)
    BY DEF TypeInv, TypeOK
<1>2. CASE ready' = <<m>> \o ready
    BY <1>1, <1>2, PutInFront
<1>3. CASE ready' = Append(ready, m)
    BY <1>1, <1>3, Appended
<1> QED  BY <1>2, <1>3 DEF Redeliver

\* A page of the reader's: where it starts, and what it holds.
LEMMA EventsRead ==
    ASSUME TypeInv, Selected # {}
    PROVE  /\ Min(Selected) = Expected /\ Max(Selected) \in Nat
           /\ Selected = Expected..Max(Selected)
           /\ Expected = since + 1 \/ (Expected > since + 1 /\ Expected \in oldest)
<1>1. since \in Nat /\ oldest \subseteq Nat /\ OneOldest
    BY DEF TypeInv, TypeOK
<1>2. Rows \in SUBSET Nat
    BY RowOrder DEF Rows
<1>3. Expected = since + 1 \/ (Expected > since + 1 /\ Expected \in oldest)
  <2>1. CASE \E s \in oldest : since + 1 < s
    <3>1. PICK s \in oldest : since + 1 < s
        BY <2>1
    <3>2. Min(oldest) \in oldest
        BY <1>1, <3>1, Smallest
    <3>3. Min(oldest) = s
        BY <1>1, <3>1, <3>2 DEF OneOldest
    <3> QED  BY <1>1, <2>1, <3>1, <3>3 DEF Expected
  <2>2. CASE ~ \E s \in oldest : since + 1 < s
      BY <2>2 DEF Expected
  <2> QED  BY <2>1, <2>2
<1>4. Expected \in Nat /\ Limit \in Nat
  <2>1. Expected = since + 1 => Expected \in Nat
      BY <1>1
  <2>2. Expected \in oldest => Expected \in Nat
      BY <1>1
  <2> QED  BY <1>3, <2>1, <2>2, CollectorAssumption
<1>5. /\ Min(Selected) = Expected /\ Max(Selected) \in Selected
      /\ Selected = Expected..Max(Selected) /\ Selected \subseteq Rows
  <2>1. IsUnbroken(Selected, Rows, Expected, Limit)
      BY DEF IsUnbroken, Selected, Contiguous
  <2> QED  BY <1>2, <1>4, <2>1, UnbrokenRun
<1> QED  BY <1>2, <1>3, <1>5

\* One step per action.
LEMMA TypeKept == TypeInv /\ [Next]_vars => TypeInv'
<1> SUFFICES ASSUME TypeInv, [Next]_vars PROVE TypeInv'
    OBVIOUS
<1>0. TypeOK /\ Held /\ OneOldest
    BY DEF TypeInv
<1> USE CollectorAssumption DEF flowVars, collectorVars, tables, history, readerVars, bounds
<1>a. ASSUME NEW c \in Collectors, cpc[c] # "idle" PROVE msg[c] \in Published
    BY <1>0, <1>a DEF TypeOK
<1>b. Nothing \in [Atoms -> Published \cup {0}]
    BY DEF Nothing
\* Giving up the message, which all ways to end do.
<1>c. ASSUME NEW c \in Collectors, Released(c)
      PROVE  /\ cpc' \in [Collectors -> {"idle", "got", "loaded", "stored"}]
             /\ \A d \in Collectors : IF cpc'[d] = "idle" THEN msg'[d] = 0 ELSE msg'[d] \in Published
             /\ row' \in [Collectors -> [Atoms -> Published \cup {0}]]
             /\ msg' \in [Collectors -> Nat]
    BY <1>0, <1>b, <1>c DEF Released, TypeOK, Held
<1>1. ASSUME NEW a \in Atoms, Publish(a) PROVE TypeInv'
  <2>1. /\ published' \in Seq([seq : Nat \ {0}, atom : Atoms]) /\ ready' \in Seq(Published')
        /\ Published \subseteq Published'
      BY <1>1, Growing
  <2>2. /\ row' \in [Collectors -> [Atoms -> Published' \cup {0}]]
        /\ flow' \in [Atoms -> Published' \cup {0}]
    <3>1. [Atoms -> Published \cup {0}] \subseteq [Atoms -> Published' \cup {0}]
        BY <2>1
    <3> HIDE DEF Published
    <3> QED  BY <1>0, <1>1, <3>1 DEF Publish, TypeOK
  <2>3. /\ events' \subseteq [seq : Nat, event : Published'] /\ acked' \subseteq Published'
        /\ applied' \in Published' \cup {0}
        /\ \A c \in Collectors : IF cpc'[c] = "idle" THEN msg'[c] = 0 ELSE msg'[c] \in Published'
      BY <1>0, <1>1, <2>1 DEF Publish, TypeOK
  <2>4. /\ process' \in 1..MaxProcesses /\ counter' \in Nat
        /\ cpc' \in [Collectors -> {"idle", "got", "loaded", "stored"}]
        /\ overtaken' \in BOOLEAN /\ rewritten' \subseteq Collectors
        /\ rpc' \in {"oldest", "rows"} /\ since' \in Nat /\ oldest' \subseteq Nat
        /\ failures' \in 0..MaxFailures /\ crashes' \in 0..MaxCrashes /\ prunes' \in 0..MaxPrunes
        /\ Held' /\ OneOldest'
      BY <1>0, <1>1 DEF Publish, TypeOK, Held, OneOldest
  <2> QED  BY <2>1, <2>2, <2>3, <2>4 DEF TypeInv, TypeOK
<1>2. CASE Resume
    BY <1>0, <1>2 DEF Resume, TypeInv, TypeOK, Held, OneOldest, Published
<1>3. ASSUME NEW c \in Collectors, Deliver(c) PROVE TypeInv'
  <2>1. Head(ready) \in Published /\ Tail(ready) \in Seq(Published) /\ Published \subseteq Nat
      BY <1>0, <1>3, HeadTailProperties, RowOrder DEF Deliver, TypeOK
  <2>2. /\ cpc' \in [Collectors -> {"idle", "got", "loaded", "stored"}]
        /\ \A d \in Collectors : IF cpc'[d] = "idle" THEN msg'[d] = 0 ELSE msg'[d] \in Published
        /\ msg' \in [Collectors -> Nat] /\ ready' \in Seq(Published)
      BY <1>0, <1>3, <2>1 DEF Deliver, TypeOK, Held
  <2> QED  BY <1>0, <1>3, <2>2 DEF Deliver, TypeInv, TypeOK, Held, OneOldest, Published
<1>4. ASSUME NEW c \in Collectors, LoadFlow(c) PROVE TypeInv'
  <2>1. /\ cpc' \in [Collectors -> {"idle", "got", "loaded", "stored"}]
        /\ \A d \in Collectors : IF cpc'[d] = "idle" THEN msg'[d] = 0 ELSE msg'[d] \in Published
        /\ row' \in [Collectors -> [Atoms -> Published \cup {0}]]
        /\ rewritten' \subseteq Collectors
      BY <1>0, <1>4 DEF LoadFlow, Loaded, TypeOK
  <2> QED  BY <1>0, <1>4, <2>1 DEF LoadFlow, TypeInv, TypeOK, Held, OneOldest, Published
<1>5. ASSUME NEW c \in Collectors, Commit(c) PROVE TypeInv'
  <2>1. cpc[c] = "loaded" /\ msg[c] \in Published
      BY <1>5, <1>a DEF Commit
  <2>2. published[msg[c]].atom \in Atoms /\ published[msg[c]].seq \in Nat /\ Published \subseteq Nat
      BY <2>1, RowOrder
  <2>3. flow' \in [Atoms -> Published \cup {0}]
    <3>1. row[c] \in [Atoms -> Published \cup {0}]
        BY <1>0 DEF TypeOK
    <3> QED  BY <1>5, <2>1, <2>2, <3>1 DEF Commit
  <2>4. events' \subseteq [seq : Nat, event : Published]
    <3>1. [seq |-> published[msg[c]].seq, event |-> msg[c]] \in [seq : Nat, event : Published]
        BY <2>1, <2>2
    <3> QED  BY <1>0, <1>5, <3>1 DEF Commit, Inserted, TypeOK
  <2>5. applied' \in Published \cup {0}
    <3>1. applied \in Nat /\ msg[c] \in Nat
        BY <1>0, <2>1, <2>2 DEF TypeOK
    <3>2. Max({applied, msg[c]}) \in {applied, msg[c]}
        BY <3>1, MaxOfTwo
    <3> QED  BY <1>0, <1>5, <2>1, <3>2 DEF Commit, TypeOK
  <2>6. /\ cpc' \in [Collectors -> {"idle", "got", "loaded", "stored"}]
        /\ \A d \in Collectors : IF cpc'[d] = "idle" THEN msg'[d] = 0 ELSE msg'[d] \in Published
        /\ rewritten' \subseteq Collectors /\ overtaken' \in BOOLEAN
    <3>1. overtaken' \in BOOLEAN /\ rewritten' \subseteq Collectors
        BY <1>5 DEF Commit
    <3> QED  BY <1>0, <1>5, <2>1, <3>1 DEF Commit, TypeOK
  <2> QED  BY <1>0, <1>5, <2>3, <2>4, <2>5, <2>6
           DEF Commit, TypeInv, TypeOK, Held, OneOldest, Published
<1>6. ASSUME NEW c \in Collectors, Ack(c) PROVE TypeInv'
  <2>1. acked' \subseteq Published
      BY <1>0, <1>6, <1>a DEF Ack, TypeOK
  <2> QED  BY <1>0, <1>6, <1>c, <2>1 DEF Ack, TypeInv, TypeOK, Held, OneOldest, Published
<1>7. ASSUME NEW c \in Collectors, HandlerFails(c) \/ Crash(c) PROVE TypeInv'
  <2>1. ready' \in Seq(Published) /\ Released(c)
      BY <1>7, <1>a, Returned DEF HandlerFails, Crash
  <2>2. failures' \in 0..MaxFailures /\ crashes' \in 0..MaxCrashes
      BY <1>0, <1>7 DEF HandlerFails, Crash, TypeOK
  <2>3. UNCHANGED <<process, counter, published, flow, events, acked, applied, rewritten,
                    overtaken, rpc, since, oldest, prunes>>
      BY <1>7 DEF HandlerFails, Crash
  <2> QED  BY <1>0, <1>c, <2>1, <2>2, <2>3 DEF TypeInv, TypeOK, Held, OneOldest, Published
<1>8. CASE Prune
  <2>1. prunes' \in 0..MaxPrunes /\ flow' \in [Atoms -> Published \cup {0}] /\ events' = {}
      BY <1>0, <1>8, <1>b DEF Prune, TypeOK
  <2> QED  BY <1>0, <1>8, <2>1 DEF Prune, TypeInv, TypeOK, Held, OneOldest, Published
<1>9. CASE ReadOldest
  <2>1. oldest' \subseteq Nat /\ OneOldest'
    <3>1. CASE Seqs = {}
        BY <1>9, <3>1 DEF ReadOldest, OneOldest
    <3>2. CASE Seqs # {}
      <4>1. Min(Seqs) \in Nat
          BY <3>2, Smallest, RowOrder
      <4> QED  BY <1>9, <3>2, <4>1 DEF ReadOldest, OneOldest
    <3> QED  BY <3>1, <3>2
  <2>2. rpc' \in {"oldest", "rows"}
      BY <1>9 DEF ReadOldest
  <2> QED  BY <1>0, <1>9, <2>1, <2>2 DEF ReadOldest, TypeInv, TypeOK, Held, Published
<1>10. CASE ReadRows
  <2>1. since' \in Nat
      BY <1>0, <1>10, EventsRead DEF ReadRows, TypeOK
  <2>2. rpc' \in {"oldest", "rows"}
      BY <1>10 DEF ReadRows
  <2> QED  BY <1>0, <1>10, <2>1, <2>2 DEF ReadRows, TypeInv, TypeOK, Held, OneOldest, Published
<1>11. CASE UNCHANGED vars
    BY <1>0, <1>11 DEF vars, TypeInv, TypeOK, Held, OneOldest, Published
<1> QED  BY <1>1, <1>2, <1>3, <1>4, <1>5, <1>6, <1>7, <1>8, <1>9, <1>10, <1>11
         DEF Next, Collect, Read

\* Every variable of the collectors, the broker, the table and the reader keeps
\* its type, and a collector has a message exactly while it is handling one.
THEOREM TypeCorrect == Spec => []TypeOK
<1>1. TypeInv => TypeOK
    BY DEF TypeInv
<1> QED  BY TypeAtFirst, TypeKept, <1>1, PTL DEF Spec

-----------------------------------------------------------------------------
\* Whatever is inserted or pruned between its two queries, a page of the
\* reader's has no hole in it, and starts right after what it has unless the
\* first query found something later (events_since()).
THEOREM NoPageHasAHole == Spec => PagesAreContiguous
<1>1. TypeInv =>
        (ReadRows /\ Selected # {} =>
           /\ Selected = Min(Selected)..Max(Selected)
           /\ Min(Selected) = since + 1 \/ (Min(Selected) > since + 1 /\ Min(Selected) \in oldest))
    BY EventsRead
<1> QED  BY TypeAtFirst, TypeKept, <1>1, PTL DEF Spec, PagesAreContiguous

-----------------------------------------------------------------------------
(* The events are in the table before they are acknowledged.               *)

\* A row is keyed by the number its event was published under; as long as the
\* flow has not moved to another process, that number is its place.
Numbered ==
    /\ \A e \in events : e.seq = published[e.event].seq
    /\ process = 1 => /\ counter = Len(published)
                      /\ \A m \in Published : published[m].seq = m

\* An event is in the table: under its number, and itself unless a later
\* process has used the number before it.
Stands(m) == \E e \in events : e.seq = published[m].seq /\ (e.event = m \/ process > 1)

\* What was acknowledged and what a collector has just committed.
Done == acked \cup {msg[c] : c \in {d \in Collectors : cpc[d] = "stored"}}

Standing == prunes = 0 => \A m \in Done : Stands(m)

StoredInv == TypeInv /\ Numbered /\ Standing

LEMMA StoredAtFirst == Init => StoredInv
<1> SUFFICES ASSUME Init PROVE Numbered /\ Standing
    BY TypeAtFirst DEF StoredInv
<1>1. Published = {} /\ Len(published) = 0 /\ events = {} /\ counter = 0
    BY EmptySeq DEF Init, Published
<1>2. Done = {}
    BY DEF Init, Done
<1> QED  BY <1>1, <1>2 DEF Numbered, Standing

\* What is done is published, and an action that commits nothing and gives up
\* nothing that is committed leaves no more done than before.
LEMMA DonePublished == ASSUME TypeInv PROVE Done \subseteq Published
BY DEF TypeInv, TypeOK, Done

LEMMA NumberedKept == StoredInv /\ [Next]_vars => Numbered'
<1> SUFFICES ASSUME StoredInv, [Next]_vars PROVE Numbered'
    OBVIOUS
<1>0. TypeInv /\ Numbered
    BY DEF StoredInv
<1>a. /\ Published = 1..Len(published) /\ Len(published) \in Nat
      /\ events \subseteq [seq : Nat, event : Published]
      /\ process \in 1..MaxProcesses /\ counter \in Nat
      /\ published \in Seq([seq : Nat \ {0}, atom : Atoms])
    BY <1>0, RowOrder DEF TypeInv, TypeOK
<1> USE DEF flowVars, tables
<1>1. ASSUME NEW a \in Atoms, Publish(a) PROVE Numbered'
  <2>1. \A e \in events' : e.seq = published'[e.event].seq
      BY <1>0, <1>1, <1>a, Growing DEF Publish, Numbered
  <2>2. ASSUME process' = 1
        PROVE  counter' = Len(published') /\ \A m \in Published' : published'[m].seq = m
    <3>1. process = 1 /\ counter' = counter + 1 /\ counter = Len(published)
        BY <1>0, <1>1, <2>2 DEF Publish, Numbered
    <3>2. Len(published') = Len(published) + 1
      <4>1. [seq |-> counter + 1, atom |-> a] \in [seq : Nat \ {0}, atom : Atoms]
          BY <1>a
      <4> QED  BY <1>1, <1>a, <4>1, Appended DEF Publish
    <3>3. \A m \in Published : published'[m].seq = m
        BY <1>0, <1>1, <3>1, Growing DEF Numbered
    <3>4. published'[Len(published) + 1].seq = Len(published) + 1
      <4>1. published'[Len(published) + 1] = [seq |-> counter + 1, atom |-> a]
          BY <1>0, <1>1, Growing
      <4> QED  BY <3>1, <4>1
    <3>5. Published' = Published \cup {Len(published) + 1}
        BY <1>0, <1>1, Growing
    <3> QED  BY <3>1, <3>2, <3>3, <3>4, <3>5
  <2> QED  BY <2>1, <2>2 DEF Numbered
<1>2. CASE Resume
  <2>1. process' # 1 /\ UNCHANGED <<published, events>>
      BY <1>2, <1>a DEF Resume
  <2> QED  BY <1>0, <2>1 DEF Numbered
<1>3. ASSUME NEW c \in Collectors, Commit(c) PROVE Numbered'
  <2>1. \A e \in events' : e \in events \/ e = [seq |-> published[msg[c]].seq, event |-> msg[c]]
      BY <1>3 DEF Commit, Inserted
  <2>2. \A e \in events' : e.seq = published[e.event].seq
      BY <1>0, <2>1 DEF Numbered
  <2>3. UNCHANGED <<process, counter, published>>
      BY <1>3 DEF Commit
  <2> QED  BY <1>0, <2>2, <2>3 DEF Numbered, Published
<1>4. CASE Prune
    BY <1>0, <1>4 DEF Prune, Numbered, Published
<1>5. ASSUME UNCHANGED <<process, counter, published, events>> PROVE Numbered'
    BY <1>0, <1>5 DEF Numbered, Published
<1>6. ASSUME NEW c \in Collectors,
             Deliver(c) \/ LoadFlow(c) \/ Ack(c) \/ HandlerFails(c) \/ Crash(c)
      PROVE Numbered'
    BY <1>5, <1>6 DEF Deliver, LoadFlow, Ack, HandlerFails, Crash
<1>7. CASE ReadOldest \/ ReadRows \/ UNCHANGED vars
    BY <1>5, <1>7 DEF ReadOldest, ReadRows, vars
<1> QED  BY <1>1, <1>2, <1>3, <1>4, <1>6, <1>7 DEF Next, Collect, Read

LEMMA StandingKept == StoredInv /\ [Next]_vars => Standing'
<1> SUFFICES ASSUME StoredInv, [Next]_vars, prunes' = 0 PROVE \A m \in Done' : Stands(m)'
    BY DEF Standing
<1>0. TypeInv /\ Numbered /\ Standing
    BY DEF StoredInv
<1>a. /\ Done \subseteq Published /\ events \subseteq [seq : Nat, event : Published]
      /\ process \in Nat /\ prunes \in Nat
    BY <1>0, DonePublished DEF TypeInv, TypeOK
<1>b. ASSUME NEW c \in Collectors, cpc[c] = "stored" PROVE msg[c] \in Done
    BY <1>b DEF Done
<1>c. ASSUME NEW c \in Collectors, Released(c)
      PROVE  \A d \in Collectors : cpc'[d] = "stored" => cpc[d] = "stored" /\ msg'[d] = msg[d]
    BY <1>0, <1>c DEF Released, TypeInv, TypeOK, Held
<1> USE DEF flowVars, collectorVars, tables, history, bounds
\* What stood for an event does so still.
<1>d. ASSUME UNCHANGED <<process, published, events, prunes>>, Done' \subseteq Done
      PROVE  \A m \in Done' : Stands(m)'
    BY <1>0, <1>d DEF Standing, Stands
<1>1. ASSUME NEW a \in Atoms, Publish(a) PROVE \A m \in Done' : Stands(m)'
  <2>1. Done' = Done /\ UNCHANGED <<process, events, prunes>>
      BY <1>1 DEF Publish, Done
  <2>2. \A m \in Done : Stands(m)
      BY <1>0, <2>1 DEF Standing
  <2>3. \A m \in Published : published'[m] = published[m]
      BY <1>0, <1>1, Growing
  <2> QED  BY <1>a, <2>1, <2>2, <2>3 DEF Stands
<1>2. CASE Resume
  <2>1. Done' = Done /\ UNCHANGED <<events, prunes, published>> /\ process' = process + 1
      BY <1>2 DEF Resume, Done
  <2>2. \A m \in Done : Stands(m)
      BY <1>0, <2>1 DEF Standing
  <2>3. process > 1 => process' > 1
      BY <1>a, <2>1
  <2> QED  BY <2>1, <2>2, <2>3 DEF Stands
<1>3. ASSUME NEW c \in Collectors, Deliver(c) \/ LoadFlow(c) PROVE \A m \in Done' : Stands(m)'
  <2>1. \A d \in Collectors : cpc'[d] = "stored" => cpc[d] = "stored" /\ msg'[d] = msg[d]
      BY <1>0, <1>3 DEF Deliver, LoadFlow, TypeInv, TypeOK, Held
  <2>2. acked' = acked /\ UNCHANGED <<process, published, events, prunes>>
      BY <1>3 DEF Deliver, LoadFlow
  <2>3. Done' \subseteq Done
      BY <2>1, <2>2 DEF Done
  <2> QED  BY <1>d, <2>2, <2>3
<1>4. ASSUME NEW c \in Collectors, Commit(c) PROVE \A m \in Done' : Stands(m)'
  <2>1. /\ msg[c] \in Published /\ UNCHANGED <<process, published, prunes, msg, acked>>
        /\ events' = Inserted(msg[c])
      BY <1>0, <1>4 DEF Commit, TypeInv, TypeOK
  <2>2. Done' \subseteq Done \cup {msg[c]}
    <3>1. \A d \in Collectors : cpc'[d] = "stored" => d = c \/ cpc[d] = "stored"
        BY <1>0, <1>4 DEF Commit, TypeInv, TypeOK
    <3> QED  BY <2>1, <3>1 DEF Done
  <2>3. events \subseteq events'
      BY <2>1 DEF Inserted
  <2>4. \A m \in Done : Stands(m)'
      BY <1>0, <2>1, <2>3 DEF Standing, Stands
  <2>5. Stands(msg[c])'
    <3>1. \E e \in events' : e.seq = published[msg[c]].seq /\ (e \in events \/ e.event = msg[c])
      <4>1. CASE \E e \in events : e.seq = published[msg[c]].seq
          BY <2>1, <4>1 DEF Inserted
      <4>2. CASE ~ \E e \in events : e.seq = published[msg[c]].seq
        <5>1. [seq |-> published[msg[c]].seq, event |-> msg[c]] \in events'
            BY <2>1, <4>2 DEF Inserted
        <5> QED  BY <5>1
      <4> QED  BY <4>1, <4>2
    <3>2. PICK e \in events' :
              e.seq = published[msg[c]].seq /\ (e \in events \/ e.event = msg[c])
        BY <3>1
    <3>3. CASE e.event = msg[c]
        BY <2>1, <3>2, <3>3 DEF Stands
    <3>4. CASE e \in events /\ process = 1
      <4>1. e.event \in Published
          BY <1>a, <3>4
      <4>2. e.seq = e.event /\ published[msg[c]].seq = msg[c]
          BY <1>0, <2>1, <3>4, <4>1 DEF Numbered
      <4> QED  BY <3>2, <3>3, <4>2
    <3>5. CASE process # 1
      <4>1. process' > 1
          BY <1>0, <2>1, <3>5 DEF TypeInv, TypeOK
      <4> QED  BY <2>1, <3>2, <4>1 DEF Stands
    <3> QED  BY <3>2, <3>3, <3>4, <3>5
  <2> QED  BY <2>1, <2>2, <2>4, <2>5 DEF Stands
<1>5. ASSUME NEW c \in Collectors, Ack(c) PROVE \A m \in Done' : Stands(m)'
  <2>1. /\ msg[c] \in Done /\ acked' = acked \cup {msg[c]} /\ Released(c)
        /\ UNCHANGED <<process, published, events, prunes>>
      BY <1>5, <1>b DEF Ack
  <2>2. Done' \subseteq Done
      BY <1>c, <2>1 DEF Done
  <2> QED  BY <1>d, <2>1, <2>2
<1>6. ASSUME NEW c \in Collectors, HandlerFails(c) \/ Crash(c) PROVE \A m \in Done' : Stands(m)'
  <2>1. acked' = acked /\ Released(c) /\ UNCHANGED <<process, published, events, prunes>>
      BY <1>6 DEF HandlerFails, Crash
  <2>2. Done' \subseteq Done
      BY <1>c, <2>1 DEF Done
  <2> QED  BY <1>d, <2>1, <2>2
<1>7. CASE Prune
    BY <1>7, <1>a DEF Prune
<1>8. CASE ReadOldest \/ ReadRows \/ UNCHANGED vars
  <2>1. Done' = Done /\ UNCHANGED <<process, published, events, prunes>>
      BY <1>8 DEF ReadOldest, ReadRows, vars, Done
  <2> QED  BY <1>d, <2>1
<1> QED  BY <1>1, <1>2, <1>3, <1>4, <1>5, <1>6, <1>7, <1>8 DEF Next, Collect, Read

LEMMA StoredKept == StoredInv /\ [Next]_vars => StoredInv'
BY TypeKept, NumberedKept, StandingKept DEF StoredInv

\* No event is acknowledged to the broker that is not in the table, whatever
\* fails or is delivered again in between (apply_many(), consume()): a number
\* already taken is that of the same event until the flow has moved on.
THEOREM NothingIsDropped == Spec => []AckedIsStored
<1>1. StoredInv => AckedIsStored
    BY DEF StoredInv, Standing, Done, Stands, AckedIsStored
<1> QED  BY StoredAtFirst, StoredKept, <1>1, PTL DEF Spec

-----------------------------------------------------------------------------
(* The snapshot and the events agree.                                      *)

\* Nothing that was done is later than what the flow's row shows of its atom,
\* and the row shows nothing of another atom, or that was never stored.  A
\* collector that folds into a row it has read has read this one, or is among
\* those that will be seen to have written over it.
Folded ==
    prunes = 0 /\ ~overtaken =>
        /\ \A a \in Atoms : flow[a] # 0 => published[flow[a]].atom = a
        /\ \A a \in Atoms : flow[a] <= applied
        /\ \A m \in Done : m <= flow[published[m].atom]
        /\ \A c \in Collectors : cpc[c] = "loaded" /\ c \notin rewritten => row[c] = flow

FoldedInv == TypeInv /\ Folded

LEMMA FoldedAtFirst == Init => FoldedInv
<1> SUFFICES ASSUME Init PROVE Folded
    BY TypeAtFirst DEF FoldedInv
<1>1. Done = {}
    BY DEF Init, Done
<1>2. \A a \in Atoms : flow[a] = 0 /\ flow[a] <= applied
    BY DEF Init, Nothing
<1> QED  BY <1>1, <1>2 DEF Init, Folded

LEMMA FoldedKept == FoldedInv /\ [Next]_vars => Folded'
<1> SUFFICES ASSUME FoldedInv, [Next]_vars, prunes' = 0, ~overtaken' PROVE Folded'
    BY DEF Folded
<1>0. TypeInv /\ Folded
    BY DEF FoldedInv
<1>a. /\ Done \subseteq Published /\ Published \subseteq Nat /\ prunes \in Nat /\ applied \in Nat
      /\ flow \in [Atoms -> Published \cup {0}] /\ overtaken \in BOOLEAN
      /\ \A m \in Published : published[m].atom \in Atoms
  <2>1. Done \subseteq Published
      BY <1>0, DonePublished
  <2>2. Published \subseteq Nat /\ \A m \in Published : published[m].atom \in Atoms
      BY <1>0, RowOrder
  <2>3. /\ applied \in Published \cup {0} /\ flow \in [Atoms -> Published \cup {0}]
        /\ overtaken \in BOOLEAN /\ prunes \in 0..MaxPrunes
      BY <1>0 DEF TypeInv, TypeOK
  <2>4. applied \in Nat /\ prunes \in Nat
      BY <2>2, <2>3
  <2> QED  BY <2>1, <2>2, <2>3, <2>4
<1>b. ASSUME NEW c \in Collectors, cpc[c] = "stored" PROVE msg[c] \in Done
    BY <1>b DEF Done
<1>c. ASSUME NEW c \in Collectors, Released(c)
      PROVE  \A d \in Collectors : cpc'[d] # "idle" => /\ cpc'[d] = cpc[d] /\ msg'[d] = msg[d]
                                                       /\ row'[d] = row[d]
    BY <1>0, <1>c DEF Released, TypeInv, TypeOK, Held
<1> USE DEF flowVars, collectorVars, tables, history, bounds
\* What had been folded is so still, in a step that writes no row.
<1>d. ASSUME UNCHANGED <<published, flow, applied, overtaken, prunes>>, Done' \subseteq Done,
             \A c \in Collectors : cpc'[c] = "loaded" /\ c \notin rewritten' => row'[c] = flow
      PROVE  Folded'
    BY <1>0, <1>d DEF Folded
<1>1. ASSUME NEW a \in Atoms, Publish(a) PROVE Folded'
  <2>1. Done' = Done /\ UNCHANGED <<flow, applied, overtaken, prunes, cpc, row, rewritten>>
      BY <1>1 DEF Publish, Done
  <2>2. \A m \in Published : published'[m] = published[m]
      BY <1>0, <1>1, Growing
  <2>3. \A b \in Atoms : flow[b] # 0 => flow[b] \in Published
      BY <1>a
  <2>4. \A b \in Atoms : flow[b] # 0 => published'[flow[b]].atom = b
      BY <1>0, <2>1, <2>2, <2>3 DEF Folded
  <2>5. \A m \in Done : m <= flow[published'[m].atom]
      BY <1>0, <1>a, <2>1, <2>2 DEF Folded
  <2> QED  BY <1>0, <2>1, <2>4, <2>5 DEF Folded
<1>2. CASE Resume
  <2>1. Done' = Done /\ UNCHANGED <<published, flow, applied, overtaken, prunes, cpc, row, rewritten>>
      BY <1>2 DEF Resume, Done
  <2> QED  BY <1>0, <2>1 DEF Folded
<1>3. ASSUME NEW c \in Collectors, Deliver(c) PROVE Folded'
  <2>1. /\ \A d \in Collectors : cpc'[d] = "stored" => cpc[d] = "stored" /\ msg'[d] = msg[d]
        /\ \A d \in Collectors : cpc'[d] = "loaded" => cpc[d] = "loaded"
      BY <1>0, <1>3 DEF Deliver, TypeInv, TypeOK, Held
  <2>2. UNCHANGED <<published, acked, row, rewritten, flow, applied, overtaken, prunes>>
      BY <1>3 DEF Deliver
  <2>3. Done' \subseteq Done
      BY <2>1, <2>2 DEF Done
  <2>4. \A d \in Collectors : cpc'[d] = "loaded" /\ d \notin rewritten' => row'[d] = flow
      BY <1>0, <2>1, <2>2 DEF Folded
  <2> QED  BY <1>d, <2>2, <2>3, <2>4
<1>4. ASSUME NEW c \in Collectors, LoadFlow(c) PROVE Folded'
  <2>1. /\ \A d \in Collectors : cpc'[d] = "stored" => cpc[d] = "stored"
        /\ \A d \in Collectors : cpc'[d] = "loaded" /\ d # c => cpc[d] = "loaded" /\ row'[d] = row[d]
        /\ row'[c] = flow /\ rewritten' = rewritten \ {c}
      BY <1>0, <1>4 DEF LoadFlow, Loaded, TypeInv, TypeOK
  <2>2. UNCHANGED <<published, acked, msg, flow, applied, overtaken, prunes>>
      BY <1>4 DEF LoadFlow
  <2>3. Done' \subseteq Done
      BY <2>1, <2>2 DEF Done
  <2>4. \A d \in Collectors : cpc'[d] = "loaded" /\ d \notin rewritten' => row'[d] = flow
      BY <1>0, <2>1, <2>2 DEF Folded
  <2> QED  BY <1>d, <2>2, <2>3, <2>4
<1>5. ASSUME NEW c \in Collectors, Commit(c) PROVE Folded'
  <2> DEFINE m == msg[c]
             at == published[m].atom
  <2>1. /\ cpc[c] = "loaded" /\ m \in Published /\ at \in Atoms /\ m \in Nat
        /\ ~overtaken /\ prunes = 0 /\ ~(m < applied) /\ c \notin rewritten
        /\ UNCHANGED <<published, acked, msg, row>>
      BY <1>0, <1>5, <1>a DEF Commit, TypeInv, TypeOK
  <2>2. row[c] = flow
      BY <1>0, <2>1 DEF Folded
  <2>3. flow' = [flow EXCEPT ![at] = m]
      BY <1>5, <2>2 DEF Commit
  <2>4. applied' \in Nat /\ applied <= applied' /\ m <= applied'
      BY <1>5, <1>a, <2>1, MaxOfTwo DEF Commit
  <2>5. \A a \in Atoms : flow[a] \in Nat /\ flow[a] <= applied /\ flow[a] <= m
    <3>1. \A a \in Atoms : flow[a] <= applied
        BY <1>0, <2>1 DEF Folded
    <3>2. \A a \in Atoms : flow[a] \in Nat
      <4>1. flow \in [Atoms -> Published \cup {0}] /\ Published \cup {0} \subseteq Nat
          BY <1>a
      <4> HIDE DEF Published
      <4> QED  BY <4>1
    <3>3. applied \in Nat /\ applied <= m
        BY <1>a, <2>1
    <3> HIDE DEF m
    <3> QED  BY <2>1, <3>1, <3>2, <3>3
  <2>6. Done' \subseteq Done \cup {m}
    <3>1. \A d \in Collectors : cpc'[d] = "stored" => d = c \/ cpc[d] = "stored"
        BY <1>0, <1>5 DEF Commit, TypeInv, TypeOK
    <3> QED  BY <2>1, <3>1 DEF Done
  <2>7. \A d \in Collectors : cpc'[d] = "loaded" => d \in rewritten'
    <3>1. cpc' = [cpc EXCEPT ![c] = "stored"] /\ rewritten' = {d \in Collectors : cpc[d] = "loaded"}
        BY <1>5 DEF Commit
    <3> QED  BY <1>0, <3>1 DEF TypeInv, TypeOK
  <2> HIDE DEF m
  <2>8. \A a \in Atoms : flow'[a] # 0 => published[flow'[a]].atom = a
      BY <1>0, <1>a, <2>1, <2>3 DEF Folded
  <2>9. \A a \in Atoms : flow'[a] <= applied'
      BY <1>a, <2>1, <2>3, <2>4, <2>5
  <2>10. \A n \in Done \cup {m} : n <= flow'[published[n].atom]
    <3> SUFFICES ASSUME NEW n \in Done \cup {m} PROVE n <= flow'[published[n].atom]
        OBVIOUS
    <3>1. n \in Published /\ n \in Nat /\ published[n].atom \in Atoms
        BY <1>a, <2>1
    <3>2. CASE n = m
        BY <1>a, <2>1, <2>3, <3>2
    <3>3. CASE n \in Done
      <4>1. n <= flow[published[n].atom] /\ flow[published[n].atom] <= m
          BY <1>0, <2>1, <2>5, <3>1, <3>3 DEF Folded
      <4>2. flow'[published[n].atom] \in {m, flow[published[n].atom]}
          BY <1>a, <2>3, <3>1
      <4>3. n <= m
          BY <1>a, <2>1, <2>5, <3>1, <4>1
      <4> QED  BY <4>1, <4>2, <4>3
    <3> QED  BY <3>2, <3>3
  <2> QED  BY <2>1, <2>6, <2>7, <2>8, <2>9, <2>10 DEF Folded
<1>6. ASSUME NEW c \in Collectors, Ack(c) \/ HandlerFails(c) \/ Crash(c) PROVE Folded'
  <2>1. /\ Released(c) /\ UNCHANGED <<published, rewritten, flow, applied, overtaken, prunes>>
        /\ acked' = acked \/ (cpc[c] = "stored" /\ acked' = acked \cup {msg[c]})
      BY <1>6 DEF Ack, HandlerFails, Crash
  <2>2. acked' \subseteq Done
      BY <2>1, <1>b DEF Done
  <2>3. Done' \subseteq Done
      BY <1>c, <2>1, <2>2 DEF Done
  <2>4. \A d \in Collectors : cpc'[d] = "loaded" /\ d \notin rewritten' => row'[d] = flow
      BY <1>0, <1>c, <2>1 DEF Folded
  <2> QED  BY <1>d, <2>1, <2>3, <2>4
<1>7. CASE Prune
    BY <1>7, <1>a DEF Prune
<1>8. CASE ReadOldest \/ ReadRows \/ UNCHANGED vars
  <2>1. /\ Done' = Done
        /\ UNCHANGED <<published, flow, applied, overtaken, prunes, cpc, row, rewritten>>
      BY <1>8 DEF ReadOldest, ReadRows, vars, Done
  <2> QED  BY <1>0, <2>1 DEF Folded
<1> QED  BY <1>1, <1>2, <1>3, <1>4, <1>5, <1>6, <1>7, <1>8 DEF Next, Collect, Read

\* When everything published has been handled, the snapshot shows the latest
\* event of each atom, provided no batch was folded after a later one or into
\* a row that was written since it was read (apply_many()).
THEOREM SnapshotAgrees == Spec => []SnapshotIsLatest
<1>1. FoldedInv => SnapshotIsLatest
  <2> SUFFICES ASSUME FoldedInv, acked = Published, prunes = 0, ~overtaken, NEW a \in Atoms
               PROVE  flow[a] = LatestOf(a)
      BY DEF SnapshotIsLatest
  <2> DEFINE about == {m \in Published : published[m].atom = a}
             shown == {0} \cup about
  <2>1. TypeInv /\ Folded /\ Published \subseteq Nat /\ Published \subseteq Done
      BY RowOrder DEF FoldedInv, Done
  <2>2. flow[a] \in Published \cup {0} /\ (flow[a] # 0 => published[flow[a]].atom = a)
      BY <2>1 DEF Folded, TypeInv, TypeOK
  <2>3. flow[a] \in shown /\ flow[a] \in Nat
    <3>1. CASE flow[a] = 0
        BY <3>1
    <3>2. CASE flow[a] # 0
      <4>1. flow[a] \in about
          BY <2>2, <3>2
      <4> QED  BY <2>1, <2>2, <3>2, <4>1
    <3> QED  BY <3>1, <3>2
  <2>4. \A m \in shown : m \in Nat /\ m <= flow[a]
      BY <2>1, <2>3 DEF Folded
  <2>5. shown \in SUBSET Nat /\ shown # {}
      BY <2>3, <2>4
  <2>6. Max(shown) \in shown /\ \A m \in shown : m <= Max(shown)
      BY <2>3, <2>4, <2>5, Largest
  <2>7. Max(shown) = flow[a]
      BY <2>3, <2>4, <2>5, <2>6
  <2> QED  BY <2>7 DEF LatestOf
<1>2. FoldedInv /\ [Next]_vars => FoldedInv'
    BY TypeKept, FoldedKept DEF FoldedInv
<1> QED  BY FoldedAtFirst, <1>1, <1>2, PTL DEF Spec

-----------------------------------------------------------------------------
(* FlowListing.                                                            *)

-----------------------------------------------------------------------------
(* The order of a listing.  A clock says when each run was last observed.  *)

Clock(obs) == \E b \in Nat : obs \in [Run -> 0..b]

OrderedBy(f, S, obs) ==
    /\ f \in [1..Cardinality(S) -> S]
    /\ \A i, j \in 1..Cardinality(S) : i < j => Before(obs, f[i], f[j])

\* Before is a total order of the runs.
LEMMA BeforeOrders ==
    ASSUME NEW obs, Clock(obs), NEW a \in Run, NEW b \in Run, NEW c \in Run
    PROVE  /\ a = b \/ Before(obs, a, b) \/ Before(obs, b, a)
           /\ ~Before(obs, a, a)
           /\ ~(Before(obs, a, b) /\ Before(obs, b, a))
           /\ Before(obs, a, b) /\ Before(obs, b, c) => Before(obs, a, c)
<1>1. obs[a] \in Nat /\ obs[b] \in Nat /\ obs[c] \in Nat
    BY DEF Clock
<1>2. a \in Nat /\ b \in Nat /\ c \in Nat
    BY ListingAssumption DEF Run
<1> QED  BY <1>1, <1>2 DEF Before

LEMMA FiniteRuns ==
    /\ IsFiniteSet(Run)
    /\ \A S \in SUBSET Run : IsFiniteSet(S) /\ Cardinality(S) \in Nat
<1>1. NRuns \in Int /\ 1 \in Int
    BY ListingAssumption
<1>2. IsFiniteSet(Run)
    BY <1>1, FS_Interval DEF Run
<1> QED  BY <1>2, FS_Subset, FS_CardinalityType

\* Of some runs one comes before all others: of those observed last the one
\* with the smallest id.
LEMMA FirstOfSome ==
    ASSUME NEW obs, Clock(obs), NEW S \in SUBSET Run, S # {}
    PROVE  \E x \in S : \A y \in S \ {x} : Before(obs, x, y)
<1>1. PICK b \in Nat : obs \in [Run -> 0..b]
    BY DEF Clock
<1> DEFINE times == {obs[r] : r \in S}
           top == Max(times)
           last == {r \in S : obs[r] = top}
<1>2. times \in SUBSET Nat /\ times # {} /\ \A n \in times : n <= b
    BY <1>1
<1>3. top \in times /\ \A n \in times : n <= top
    BY <1>2, Largest
<1>4. \A r \in S : obs[r] \in Nat /\ obs[r] <= top /\ top \in Nat
    BY <1>2, <1>3
<1>5. last # {} /\ last \in SUBSET Nat
  <2>1. \A r \in Run : r \in Nat
      BY ListingAssumption DEF Run
  <2>2. \E r \in S : obs[r] = top
      BY <1>3
  <2> QED  BY <2>1, <2>2
<1> HIDE DEF top
<1>6. Min(last) \in last /\ \A n \in last : Min(last) <= n
    BY <1>5, Smallest
<1> DEFINE x == Min(last)
<1> HIDE DEF x
<1>7. x \in S /\ obs[x] = top /\ \A r \in S : obs[r] = top => x <= r
    BY <1>6 DEF x
<1>8. ASSUME NEW y \in S \ {x} PROVE Before(obs, x, y)
  <2>1. y \in Nat /\ x \in Nat /\ y # x
      BY <1>7, ListingAssumption DEF Run
  <2>2. obs[y] \in Nat /\ obs[y] <= top /\ (obs[y] = top => x <= y) /\ top \in Nat
      BY <1>4, <1>7
  <2> QED  BY <1>7, <2>1, <2>2 DEF Before
<1> QED  BY <1>7, <1>8

\* Every set of runs can be put in this order: a smallest set that cannot
\* be, could be after all, its first run in front.
LEMMA OrderedOrders ==
    ASSUME NEW obs, Clock(obs), NEW S \in SUBSET Run
    PROVE  OrderedBy(Ordered(S, obs), S, obs)
<1> DEFINE Bad == {n \in Nat : \E T \in SUBSET Run : /\ Cardinality(T) = n
                                                     /\ ~ \E f : OrderedBy(f, T, obs)}
<1>1. Bad = {}
  <2> SUFFICES ASSUME Bad # {} PROVE FALSE
      OBVIOUS
  <2> DEFINE n == Min(Bad)
  <2>1. n \in Bad /\ \A k \in Bad : n <= k
      BY Smallest
  <2>2. PICK T \in SUBSET Run : Cardinality(T) = n /\ ~ \E f : OrderedBy(f, T, obs)
      BY <2>1
  <2>3. n \in Nat
      BY <2>1
  <2>4. T # {}
    <3> SUFFICES ASSUME T = {} PROVE FALSE
        OBVIOUS
    <3>1. Cardinality(T) = 0
        BY FS_EmptySet
    <3>2. OrderedBy([i \in 1..0 |-> 0], T, obs)
        BY <3>1 DEF OrderedBy
    <3> QED  BY <2>2, <3>2
  <2>5. PICK x \in T : \A y \in T \ {x} : Before(obs, x, y)
      BY <2>4, FirstOfSome
  <2> DEFINE R == T \ {x}
  <2> HIDE DEF n, Bad
  <2>6. Cardinality(R) = n - 1 /\ R \in SUBSET Run
      BY <2>2, <2>5, FiniteRuns, FS_RemoveElement
  <2>7. n - 1 \in Nat
      BY <2>6, FiniteRuns
  <2>8. n - 1 \notin Bad
      BY <2>1, <2>3
  <2>9. PICK f : OrderedBy(f, R, obs)
      BY <2>6, <2>7, <2>8 DEF Bad
  <2> DEFINE g == [i \in 1..n |-> IF i = 1 THEN x ELSE f[i - 1]]
  <2>a. f \in [1..(n - 1) -> R]
      BY <2>6, <2>9 DEF OrderedBy
  <2>10. \A i \in 1..n : i # 1 => i - 1 \in 1..(n - 1) /\ f[i - 1] \in R
      BY <2>3, <2>a
  <2>11. \A i \in 1..n : g[i] \in T
      BY <2>5, <2>10
  <2>12. \A i, j \in 1..n : i < j => Before(obs, g[i], g[j])
    <3> SUFFICES ASSUME NEW i \in 1..n, NEW j \in 1..n, i < j PROVE Before(obs, g[i], g[j])
        OBVIOUS
    <3>1. j # 1 /\ j - 1 \in 1..(n - 1) /\ f[j - 1] \in R /\ g[j] = f[j - 1]
        BY <2>3, <2>10
    <3>2. CASE i = 1
        BY <2>5, <3>1, <3>2
    <3>3. CASE i # 1
      <4>1. i - 1 \in 1..(n - 1) /\ g[i] = f[i - 1] /\ i - 1 < j - 1
          BY <2>3, <2>10, <3>3
      <4> QED  BY <2>6, <2>9, <3>1, <4>1 DEF OrderedBy
    <3> QED  BY <3>2, <3>3
  <2>13. OrderedBy(g, T, obs)
      BY <2>2, <2>11, <2>12 DEF OrderedBy
  <2> QED  BY <2>2, <2>13
<1>2. \E f : OrderedBy(f, S, obs)
    BY <1>1, FiniteRuns
<1> QED  BY <1>2 DEF Ordered, OrderedBy

\* What is ordered has all that there was, each once.
LEMMA OrderCovers ==
    ASSUME NEW obs, Clock(obs), NEW S \in SUBSET Run, NEW f, OrderedBy(f, S, obs)
    PROVE  /\ \A i, j \in 1..Cardinality(S) : f[i] = f[j] => i = j
           /\ \A x \in S : \E i \in 1..Cardinality(S) : f[i] = x
<1> DEFINE n == Cardinality(S)
<1>1. n \in Nat /\ IsFiniteSet(S)
    BY FiniteRuns
<1>2. f \in [1..n -> S] /\ \A i, j \in 1..n : i < j => Before(obs, f[i], f[j])
    BY DEF OrderedBy
<1>3. IsFiniteSet(1..n) /\ Cardinality(1..n) = Cardinality(S)
    BY <1>1, FS_Interval
<1> HIDE DEF n
<1>4. \A i, j \in 1..n : f[i] = f[j] => i = j
  <2> SUFFICES ASSUME NEW i \in 1..n, NEW j \in 1..n, f[i] = f[j] PROVE i = j
      OBVIOUS
  <2>1. f[i] \in Run /\ f[j] \in Run
      BY <1>2
  <2>2. ~(i < j) /\ ~(j < i)
      BY <1>2, <2>1, BeforeOrders
  <2> QED  BY <1>1, <2>2
<1>5. f \in Injection(1..n, S)
    BY <1>2, <1>4 DEF Injection, IsInjective
<1>6. f \in Surjection(1..n, S)
    BY <1>1, <1>3, <1>5, FS_Injection
<1>7. \A x \in S : \E i \in 1..n : f[i] = x
    BY <1>6 DEF Surjection
<1> QED  BY <1>4, <1>7 DEF n

\* There is one such order.
LEMMA OrderIsUnique ==
    ASSUME NEW obs, Clock(obs), NEW S \in SUBSET Run,
           NEW f, OrderedBy(f, S, obs), NEW g, OrderedBy(g, S, obs)
    PROVE  f = g
<1> DEFINE n == Cardinality(S)
<1>1. n \in Nat
    BY FiniteRuns
<1>2. /\ f \in [1..n -> S] /\ \A i, j \in 1..n : i < j => Before(obs, f[i], f[j])
      /\ g \in [1..n -> S] /\ \A i, j \in 1..n : i < j => Before(obs, g[i], g[j])
    BY DEF OrderedBy
<1>3. /\ \A i, j \in 1..n : f[i] = f[j] => i = j
      /\ \A i, j \in 1..n : g[i] = g[j] => i = j
      /\ \A x \in S : \E i \in 1..n : f[i] = x
      /\ \A x \in S : \E i \in 1..n : g[i] = x
    BY OrderCovers
<1> HIDE DEF n
<1> DEFINE Differ == {i \in 1..n : f[i] # g[i]}
<1>4. Differ = {}
  <2> SUFFICES ASSUME Differ # {} PROVE FALSE
      OBVIOUS
  <2>1. Differ \in SUBSET Nat
      BY <1>1
  <2>2. PICK i \in Differ : \A k \in Differ : i <= k
      BY <2>1, Smallest
  <2>3. i \in 1..n /\ f[i] # g[i] /\ f[i] \in S /\ g[i] \in S
      BY <1>2
  <2>4. \A k \in 1..n : k < i => f[k] = g[k]
      BY <1>1, <2>2, <2>3
  <2>5. PICK j \in 1..n : f[j] = g[i]
      BY <1>3, <2>3
  <2>6. PICK k \in 1..n : g[k] = f[i]
      BY <1>3, <2>3
  <2>7. i < j
    <3>1. j # i
        BY <2>3, <2>5
    <3>2. ~(j < i)
      <4> SUFFICES ASSUME j < i PROVE FALSE
          OBVIOUS
      <4>1. g[j] = g[i]
          BY <2>4, <2>5
      <4> QED  BY <1>3, <2>3, <3>1, <4>1
    <3> QED  BY <1>1, <2>3, <3>1, <3>2
  <2>8. i < k
    <3>1. k # i
        BY <2>3, <2>6
    <3>2. ~(k < i)
      <4> SUFFICES ASSUME k < i PROVE FALSE
          OBVIOUS
      <4>1. f[k] = f[i]
          BY <2>4, <2>6
      <4> QED  BY <1>3, <2>3, <3>1, <4>1
    <3> QED  BY <1>1, <2>3, <3>1, <3>2
  <2>9. Before(obs, f[i], g[i]) /\ Before(obs, g[i], f[i])
      BY <1>2, <2>3, <2>5, <2>6, <2>7, <2>8
  <2> QED  BY <2>3, <2>9, BeforeOrders
<1>5. \A i \in 1..n : f[i] = g[i]
    BY <1>4
<1>6. f \in [1..n -> S] /\ g \in [1..n -> S]
    BY <1>2
<1>7. f = [i \in 1..n |-> f[i]] /\ g = [i \in 1..n |-> g[i]]
    BY <1>6
<1>8. [i \in 1..n |-> f[i]] = [i \in 1..n |-> g[i]]
    BY <1>5
<1> QED  BY <1>7, <1>8

\* What comes after some place of an order is ordered the same.
LEMMA OrderedRest ==
    ASSUME NEW obs, Clock(obs), NEW S \in SUBSET Run,
           NEW f, OrderedBy(f, S, obs), NEW p \in 1..Cardinality(S),
           NEW R, \A r : r \in R <=> r \in S /\ Before(obs, f[p], r)
    PROVE  /\ Cardinality(R) = Cardinality(S) - p
           /\ Ordered(R, obs) = [i \in 1..(Cardinality(S) - p) |-> f[p + i]]
<1> DEFINE n == Cardinality(S)
           g == [i \in 1..(n - p) |-> f[p + i]]
<1>1. n \in Nat /\ p \in 1..n /\ n - p \in Nat
    BY FiniteRuns
<1>2. f \in [1..n -> S] /\ \A i, j \in 1..n : i < j => Before(obs, f[i], f[j])
    BY DEF OrderedBy
<1>3. /\ \A i, j \in 1..n : f[i] = f[j] => i = j
      /\ \A x \in S : \E i \in 1..n : f[i] = x
    BY OrderCovers
<1> HIDE DEF n
<1>4. \A i \in 1..(n - p) : p + i \in 1..n /\ p < p + i /\ g[i] = f[p + i]
    BY <1>1
<1>5. g \in [1..(n - p) -> R]
    BY <1>1, <1>2, <1>4
<1>6. \A i, j \in 1..(n - p) : g[i] = g[j] => i = j
    BY <1>1, <1>3, <1>4
<1>7. \A x \in R : \E i \in 1..(n - p) : g[i] = x
  <2> SUFFICES ASSUME NEW x \in R PROVE \E i \in 1..(n - p) : g[i] = x
      OBVIOUS
  <2>1. x \in S /\ Before(obs, f[p], x) /\ f[p] \in S
      BY <1>1, <1>2
  <2>2. PICK k \in 1..n : f[k] = x
      BY <1>3, <2>1
  <2>3. ~(k <= p)
    <3> SUFFICES ASSUME k <= p PROVE FALSE
        OBVIOUS
    <3>1. k = p \/ Before(obs, x, f[p])
        BY <1>1, <1>2, <2>2
    <3> QED  BY <2>1, <2>2, <3>1, BeforeOrders
  <2>4. k - p \in 1..(n - p) /\ p + (k - p) = k
      BY <1>1, <2>3
  <2> QED  BY <1>4, <2>2, <2>4
<1> HIDE DEF g
<1>8. Cardinality(R) = n - p
  <2>1. g \in Injection(1..(n - p), R) /\ g \in Surjection(1..(n - p), R)
      BY <1>5, <1>6, <1>7 DEF Injection, Surjection, IsInjective
  <2>2. ExistsBijection(1..(n - p), R)
      BY <2>1 DEF ExistsBijection, Bijection
  <2> QED  BY <1>1, <2>2, FS_CountingElements
<1>9. R \in SUBSET Run
    OBVIOUS
<1>10. OrderedBy(g, R, obs)
  <2>1. \A i, j \in 1..(n - p) : i < j => Before(obs, g[i], g[j])
      BY <1>1, <1>2, <1>4
  <2> QED  BY <1>5, <1>8, <2>1 DEF OrderedBy
<1>11. OrderedBy(Ordered(R, obs), R, obs)
    BY <1>9, OrderedOrders
<1>12. Ordered(R, obs) = g
    BY <1>9, <1>10, <1>11, OrderIsUnique
<1> QED  BY <1>8, <1>12 DEF g, n

\* The order of some runs is a sequence of them.
LEMMA OrderIsSeq ==
    ASSUME NEW obs, Clock(obs), NEW S \in SUBSET Run
    PROVE  /\ Ordered(S, obs) \in Seq(S) /\ Len(Ordered(S, obs)) = Cardinality(S)
           /\ Cardinality(S) \in Nat
           /\ DOMAIN Ordered(S, obs) = 1..Cardinality(S)
<1>1. Cardinality(S) \in Nat
    BY FiniteRuns
<1>2. Ordered(S, obs) \in [1..Cardinality(S) -> S]
    BY OrderedOrders DEF OrderedBy
<1> QED  BY <1>1, <1>2

-----------------------------------------------------------------------------
(* A page.                                                                 *)

\* The page from a place of a sequence on.
LEMMA PageOfSeq ==
    ASSUME NEW S, NEW list \in Seq(S), NEW start \in 0..Len(list), limit \in Nat \ {0}
    PROVE  LET page == PageFrom(list, start)
               size == Min({limit, Len(list) - start})
           IN  /\ page.items \in Seq(S) /\ Len(page.items) = size
               /\ \A i \in 1..size : page.items[i] = list[start + i]
               /\ page.more <=> Len(list) > start + limit
               /\ page.more => size = limit
               /\ ~page.more => size = Len(list) - start
               /\ size \in Nat
<1> DEFINE n == Len(list)
           top == Min({start + limit, n})
           size == Min({limit, n - start})
           items == SubSeq(list, start + 1, top)
<1>1. n \in Nat /\ start \in Nat /\ start <= n /\ \A i \in 1..n : list[i] \in S
    OBVIOUS
<1> HIDE DEF n
<1>2. /\ start + limit <= n => top = start + limit /\ size = limit
      /\ ~(start + limit <= n) => top = n /\ size = n - start
  <2>1. start + limit \in Nat /\ n - start \in Nat /\ limit \in Nat
      BY <1>1
  <2>2. /\ {start + limit, n} \in SUBSET Nat /\ {start + limit, n} # {}
        /\ {limit, n - start} \in SUBSET Nat /\ {limit, n - start} # {}
      BY <1>1, <2>1
  <2>3. /\ top \in {start + limit, n} /\ top <= start + limit /\ top <= n
        /\ size \in {limit, n - start} /\ size <= limit /\ size <= n - start
      BY <2>2, Smallest
  <2> HIDE DEF top, size
  <2> QED  BY <1>1, <2>1, <2>3
<1> HIDE DEF top, size
<1>3. top \in Nat /\ top <= n /\ size \in Nat /\ size = top - start /\ size <= n - start
    BY <1>1, <1>2
<1>4. \A i \in (start + 1)..top : list[i] \in S
    BY <1>1, <1>3
<1>5. /\ items \in Seq(S) /\ Len(items) = size
      /\ \A i \in 1..size : items[i] = list[start + i]
  <2>1. /\ items \in Seq(S)
        /\ Len(items) = IF start + 1 <= top THEN top - (start + 1) + 1 ELSE 0
        /\ \A i \in 1..(top - (start + 1) + 1) : items[i] = list[(start + 1) + i - 1]
      BY <1>1, <1>3, <1>4, SubSeqProperties
  <2> HIDE DEF items
  <2>2. top - (start + 1) + 1 = size /\ \A i \in 1..size : (start + 1) + i - 1 = start + i
      BY <1>1, <1>3
  <2>3. Len(items) = size
      BY <1>1, <1>3, <2>1, <2>2
  <2> QED  BY <2>1, <2>2, <2>3
<1> DEFINE page == PageFrom(list, start)
<1>6. page.items = items /\ (page.more <=> n > start + limit)
    BY DEF PageFrom, top, n
<1> HIDE DEF items, page
<1>7. (page.more => size = limit) /\ (~page.more => size = n - start)
    BY <1>1, <1>2, <1>6
<1> QED  BY <1>3, <1>5, <1>6, <1>7 DEF page, size, n

\* What sorting and slicing gives for a marker, the keyset query gives too.
LEMMA KeyIsPosition ==
    ASSUME NEW obs, Clock(obs), Candidates \in SUBSET Run, limit \in Nat \ {0},
           NEW m \in Candidates \cup {None}
    PROVE  PageByKey(obs, m) = PageByPosition(obs, m)
<1> DEFINE list == Listing(obs)
           rest == Ordered(AfterKey(obs, m), obs)
           n == Cardinality(Candidates)
<1>1. /\ list \in Seq(Candidates) /\ Len(list) = n /\ n \in Nat /\ DOMAIN list = 1..n
      /\ OrderedBy(list, Candidates, obs)
    BY OrderIsSeq, OrderedOrders DEF Listing
<1>0. None \notin Run
    BY ListingAssumption DEF Run, None
<1>2. CASE m = None
  <2>1. AfterKey(obs, m) = Candidates
      BY <1>2 DEF AfterKey
  <2> QED  BY <1>2, <2>1 DEF PageByKey, PageByPosition, Listing
<1>3. CASE m # None
  <2>1. m \in Candidates /\ m \in Run
      BY <1>3
  <2>2. \E i \in 1..n : list[i] = m
      BY <1>1, <2>1, OrderCovers
  <2> DEFINE p == CHOOSE i \in DOMAIN list : list[i] = m
  <2>3. p \in 1..n /\ list[p] = m
      BY <1>1, <2>2
  <2>4. PageByPosition(obs, m) = PageFrom(list, p) /\ PageByKey(obs, m) = PageFrom(rest, 0)
      BY <1>3 DEF PageByPosition, PageByKey
  <2>5. AfterKey(obs, m) = {r \in Candidates : Before(obs, list[p], r)}
      BY <1>3, <2>3 DEF AfterKey
  <2> HIDE DEF p, list, rest
  <2>6. /\ Cardinality(AfterKey(obs, m)) = n - p
        /\ rest = [i \in 1..(n - p) |-> list[p + i]]
    <3> DEFINE R == AfterKey(obs, m)
    <3>1. p \in 1..Cardinality(Candidates) /\ OrderedBy(list, Candidates, obs)
        BY <1>1, <2>3
    <3>2. \A r : r \in R <=> r \in Candidates /\ Before(obs, list[p], r)
        BY <2>5
    <3> HIDE DEF R
    <3>3. /\ Cardinality(R) = Cardinality(Candidates) - p
          /\ Ordered(R, obs) = [i \in 1..(Cardinality(Candidates) - p) |-> list[p + i]]
        BY <3>1, <3>2, OrderedRest
    <3> QED  BY <3>3 DEF R, rest
  <2>7. rest \in Seq(Candidates) /\ Len(rest) = n - p
    <3>1. n - p \in Nat /\ \A i \in 1..(n - p) : p + i \in 1..n
        BY <1>1, <2>3
    <3>2. \A i \in 1..(n - p) : list[p + i] \in Candidates
        BY <1>1, <3>1
    <3> QED  BY <2>6, <3>1, <3>2
  <2> DEFINE at == PageFrom(list, p)
             by == PageFrom(rest, 0)
             size == Min({limit, n - p})
  <2>8. /\ at.items \in Seq(Candidates) /\ Len(at.items) = size
        /\ \A i \in 1..size : at.items[i] = list[p + i]
        /\ size \in Nat
        /\ (at.more => size = limit) /\ (~at.more => size = n - p)
        /\ (at.more <=> n > p + limit)
    <3>1. p \in 0..Len(list) /\ list \in Seq(Candidates) /\ Len(list) = n
        BY <1>1, <2>3
    <3> DEFINE s == Min({limit, Len(list) - p})
    <3>2. /\ at.items \in Seq(Candidates) /\ Len(at.items) = s
          /\ \A i \in 1..s : at.items[i] = list[p + i]
          /\ s \in Nat
          /\ (at.more => s = limit) /\ (~at.more => s = Len(list) - p)
          /\ (at.more <=> Len(list) > p + limit)
        BY <3>1, PageOfSeq
    <3>3. s = size
        BY <3>1
    <3> HIDE DEF at, s, size
    <3> QED  BY <3>1, <3>2, <3>3
  <2>9. /\ by.items \in Seq(Candidates) /\ Len(by.items) = size
        /\ \A i \in 1..size : by.items[i] = rest[0 + i]
        /\ (by.more <=> n - p > 0 + limit)
    <3>1. 0 \in 0..Len(rest) /\ rest \in Seq(Candidates) /\ Len(rest) - 0 = n - p
        BY <1>1, <2>3, <2>7
    <3> DEFINE s == Min({limit, Len(rest) - 0})
    <3>2. /\ by.items \in Seq(Candidates) /\ Len(by.items) = s
          /\ \A i \in 1..s : by.items[i] = rest[0 + i]
          /\ (by.more <=> Len(rest) > 0 + limit)
        BY <3>1, PageOfSeq
    <3>3. s = size
        BY <3>1
    <3> HIDE DEF by, s, size
    <3> QED  BY <2>7, <3>2, <3>3
  <2> HIDE DEF at, by, size
  <2>10. size <= n - p
      BY <1>1, <2>3, <2>8
  <2>11. \A i \in 1..size : by.items[i] = at.items[i]
    <3> SUFFICES ASSUME NEW i \in 1..size PROVE by.items[i] = at.items[i]
        OBVIOUS
    <3>1. i \in 1..(n - p) /\ 0 + i = i
        BY <1>1, <2>3, <2>8, <2>10
    <3>2. rest[i] = list[p + i]
        BY <2>6, <3>1
    <3> QED  BY <2>8, <2>9, <3>1, <3>2
  <2>12. at.items = by.items
      BY <2>8, <2>9, <2>11, SeqEqual
  <2>13. at.more <=> by.more
      BY <1>1, <2>3, <2>8, <2>9
  <2>14. /\ at = [items |-> at.items, more |-> at.more] /\ by = [items |-> by.items, more |-> by.more]
         /\ at.more \in BOOLEAN /\ by.more \in BOOLEAN
      BY DEF at, by, PageFrom
  <2> QED  BY <2>4, <2>12, <2>13, <2>14 DEF at, by
<1> QED  BY <1>2, <1>3

\* The page after a key: the first of what comes after it, all of that if
\* there is no more, and else what is left comes after the last of the page.
LEMMA PageAfterKey ==
    ASSUME NEW obs, Clock(obs), Candidates \in SUBSET Run, limit \in Nat \ {0}, NEW m
    PROVE  LET page == PageByKey(obs, m)
               S == AfterKey(obs, m)
           IN  /\ page.items \in Seq(Run) /\ ToSet(page.items) \subseteq S
               /\ ~page.more => S \subseteq ToSet(page.items)
               /\ page.more => /\ Len(page.items) # 0 /\ Last(page.items) \in S
                               /\ \A r \in S \ ToSet(page.items) : Before(obs, Last(page.items), r)
<1> DEFINE S == AfterKey(obs, m)
           f == Ordered(S, obs)
           n == Cardinality(S)
           page == PageByKey(obs, m)
           size == Min({limit, n - 0})
<1>1. S \in SUBSET Run
    BY DEF AfterKey
<1>2. /\ f \in Seq(S) /\ Len(f) = n /\ n \in Nat /\ OrderedBy(f, S, obs)
    BY <1>1, OrderIsSeq, OrderedOrders
<1>3. \A x \in S : \E i \in 1..n : f[i] = x
    BY <1>1, <1>2, OrderCovers
<1>4. page = PageFrom(f, 0)
    BY DEF PageByKey
<1> HIDE DEF S, f, n, page
<1>5. /\ page.items \in Seq(S) /\ Len(page.items) = size
      /\ \A i \in 1..size : page.items[i] = f[0 + i]
      /\ size \in Nat
      /\ (page.more => size = limit) /\ (~page.more => size = n - 0)
      /\ (page.more <=> n > 0 + limit)
  <2>1. 0 \in 0..Len(f)
      BY <1>2
  <2> QED  BY <1>2, <1>4, <2>1, PageOfSeq
<1> HIDE DEF size
<1> DEFINE items == page.items
<1> HIDE DEF items
<1>6. /\ items \in Seq(S) /\ Len(items) = size /\ size \in Nat /\ size <= n
      /\ \A i \in 1..size : items[i] = f[i] /\ items[i] \in S
      /\ (page.more => size = limit /\ size < n) /\ (~page.more => size = n)
  <2>1. items \in Seq(S) /\ Len(items) = size /\ size \in Nat
      BY <1>5 DEF items
  <2>2. \A i \in 1..size : items[i] = f[i] /\ items[i] \in S
    <3> SUFFICES ASSUME NEW i \in 1..size PROVE items[i] = f[i] /\ items[i] \in S
        OBVIOUS
    <3>1. 0 + i = i /\ items[i] = f[0 + i]
        BY <1>5, <2>1 DEF items
    <3> QED  BY <2>1, <3>1
  <2>3. (page.more => size = limit /\ size < n) /\ (~page.more => size = n)
      BY <1>2, <1>5
  <2>4. size <= n
      BY <1>2, <2>1, <2>3
  <2> QED  BY <2>1, <2>2, <2>3, <2>4
<1>7. items \in Seq(Run)
    BY <1>1, <1>6, SeqMonotonic
<1>8. ToSet(items) = {items[i] : i \in 1..size}
    BY <1>6 DEF ToSet
<1>9. ToSet(items) \subseteq S
    BY <1>6, <1>8
<1>10. ~page.more => S \subseteq ToSet(items)
    BY <1>3, <1>6, <1>8
<1>11. ASSUME page.more
       PROVE  /\ Len(items) # 0 /\ Last(items) \in S
              /\ \A r \in S \ ToSet(items) : Before(obs, Last(items), r)
  <2>1. size \in 1..size /\ Last(items) = items[size]
      BY <1>6, <1>11 DEF Last
  <2>2. Last(items) = f[size] /\ Last(items) \in S
      BY <1>6, <2>1
  <2>3. ASSUME NEW r \in S \ ToSet(items) PROVE Before(obs, Last(items), r)
    <3>1. PICK i \in 1..n : f[i] = r
        BY <1>3
    <3>2. ~(i <= size)
      <4> SUFFICES ASSUME i <= size PROVE FALSE
          OBVIOUS
      <4>1. i \in 1..size
          BY <1>2, <1>6
      <4> QED  BY <1>6, <1>8, <3>1, <4>1
    <3>3. size \in 1..n /\ size < i
        BY <1>2, <1>6, <2>1, <3>2
    <3> QED  BY <1>2, <2>2, <3>1, <3>3 DEF OrderedBy, n
  <2> QED  BY <1>6, <2>1, <2>2, <2>3
<1> QED  BY <1>7, <1>9, <1>10, <1>11 DEF items, page, S

-----------------------------------------------------------------------------
(* The runs a datasource keeps, as a sequence.                             *)

\* Every run of such a sequence has one place in it.
IsListOf(list, S) == list \in Seq(Run) /\ IsInjective(list) /\ ToSet(list) = S

LEMMA ListShape ==
    ASSUME NEW list, NEW S, IsListOf(list, S)
    PROVE  /\ list \in Seq(Run) /\ Len(list) \in Nat /\ DOMAIN list = 1..Len(list)
           /\ \A i \in 1..Len(list) : list[i] \in S /\ list[i] \in Run
           /\ \A i, j \in 1..Len(list) : list[i] = list[j] => i = j
           /\ \A r \in S : \E i \in 1..Len(list) : list[i] = r
           /\ S \in SUBSET Run
<1>1. list \in Seq(Run) /\ S = {list[i] : i \in DOMAIN list}
    BY DEF IsListOf, ToSet
<1>2. Len(list) \in Nat /\ DOMAIN list = 1..Len(list) /\ \A i \in 1..Len(list) : list[i] \in Run
    BY <1>1
<1>3. \A i, j \in DOMAIN list : list[i] = list[j] => i = j
    BY DEF IsListOf, IsInjective
<1> QED  BY <1>1, <1>2, <1>3

\* Two sequences hold what the one and the other hold.
LEMMA RangeOfConcat ==
    ASSUME NEW S, NEW p \in Seq(S), NEW q \in Seq(S)
    PROVE  ToSet(p \o q) = ToSet(p) \cup ToSet(q)
<1>1. /\ p \o q \in Seq(S) /\ Len(p \o q) = Len(p) + Len(q)
      /\ \A i \in 1..(Len(p) + Len(q)) : (p \o q)[i] = IF i <= Len(p) THEN p[i] ELSE q[i - Len(p)]
    BY ConcatProperties
<1> DEFINE r == p \o q
<1> HIDE DEF r
<1>2. /\ DOMAIN p = 1..Len(p) /\ DOMAIN q = 1..Len(q) /\ DOMAIN r = 1..(Len(p) + Len(q))
      /\ Len(p) \in Nat /\ Len(q) \in Nat
    BY <1>1 DEF r
<1>3. \A i \in 1..Len(p) : i \in 1..(Len(p) + Len(q)) /\ r[i] = p[i]
    BY <1>1, <1>2 DEF r
<1>4. ASSUME NEW i \in 1..Len(q) PROVE Len(p) + i \in 1..(Len(p) + Len(q)) /\ r[Len(p) + i] = q[i]
  <2>1. /\ Len(p) + i \in 1..(Len(p) + Len(q)) /\ ~(Len(p) + i <= Len(p))
        /\ (Len(p) + i) - Len(p) = i
      BY <1>2
  <2> QED  BY <1>1, <2>1 DEF r
<1>5. ASSUME NEW i \in 1..(Len(p) + Len(q))
      PROVE  \/ i \in 1..Len(p) /\ r[i] = p[i]
             \/ i - Len(p) \in 1..Len(q) /\ r[i] = q[i - Len(p)]
    BY <1>1, <1>2 DEF r
<1>6. \A x \in ToSet(r) : x \in ToSet(p) \cup ToSet(q)
    BY <1>2, <1>5 DEF ToSet
<1>7. \A x \in ToSet(p) \cup ToSet(q) : x \in ToSet(r)
    BY <1>2, <1>3, <1>4 DEF ToSet
<1> QED  BY <1>6, <1>7 DEF r

\* A run that is added at the end.
LEMMA ListAppended ==
    ASSUME NEW list, NEW S, IsListOf(list, S), NEW r \in Run, r \notin S
    PROVE  /\ IsListOf(Append(list, r), S \cup {r})
           /\ Len(Append(list, r)) = Len(list) + 1
<1> DEFINE n == Len(list)
           q == Append(list, r)
<1>1. /\ list \in Seq(Run) /\ n \in Nat /\ DOMAIN list = 1..n
      /\ \A i \in 1..n : list[i] \in S /\ list[i] \in Run
      /\ \A i, j \in 1..n : list[i] = list[j] => i = j
      /\ \A s \in S : \E i \in 1..n : list[i] = s
    BY ListShape
<1>2. /\ q \in Seq(Run) /\ Len(q) = n + 1 /\ DOMAIN q = 1..(n + 1)
      /\ \A i \in 1..n : q[i] = list[i]
      /\ q[n + 1] = r
    BY <1>1, AppendProperties
<1> HIDE DEF q, n
<1>3. \A i \in 1..(n + 1) : i \in 1..n \/ i = n + 1
    BY <1>1
<1>4. IsInjective(q)
  <2> SUFFICES ASSUME NEW i \in 1..(n + 1), NEW j \in 1..(n + 1), q[i] = q[j] PROVE i = j
      BY <1>2 DEF IsInjective
  <2> QED  BY <1>1, <1>2, <1>3
<1>5. ToSet(q) = S \cup {r}
  <2>1. ToSet(q) = {q[i] : i \in 1..(n + 1)}
      BY <1>2 DEF ToSet
  <2>2. \A x \in ToSet(q) : x \in S \cup {r}
      BY <1>1, <1>2, <1>3, <2>1
  <2>3. n + 1 \in 1..(n + 1) /\ \A i \in 1..n : i \in 1..(n + 1)
      BY <1>1
  <2>4. \A s \in S \cup {r} : s \in ToSet(q)
      BY <1>1, <1>2, <2>1, <2>3
  <2> QED  BY <2>2, <2>4
<1> QED  BY <1>2, <1>4, <1>5 DEF IsListOf, q, n

\* A run that is added somewhere.
LEMMA ListInserted ==
    ASSUME NEW list, NEW S, IsListOf(list, S), NEW r \in Run, r \notin S,
           NEW p \in 1..(Len(list) + 1)
    PROVE  LET q == InsertAt(list, p, r)
           IN  /\ IsListOf(q, S \cup {r}) /\ Len(q) = Len(list) + 1
               /\ \A k \in 1..Len(list) : q[IF k < p THEN k ELSE k + 1] = list[k]
<1> DEFINE n == Len(list)
           q == InsertAt(list, p, r)
           a == SubSeq(list, 1, p - 1)
           b == SubSeq(list, p, n)
           to(k) == IF k < p THEN k ELSE k + 1
<1>1. /\ list \in Seq(Run) /\ n \in Nat /\ DOMAIN list = 1..n
      /\ \A i \in 1..n : list[i] \in S /\ list[i] \in Run
      /\ \A i, j \in 1..n : list[i] = list[j] => i = j
      /\ \A s \in S : \E i \in 1..n : list[i] = s
    BY ListShape
<1>0. p \in 1..(n + 1) /\ p \in Int /\ p - 1 \in Nat /\ n \in Int
    BY <1>1
<1> HIDE DEF n
<1>2. a \in Seq(Run) /\ Len(a) = p - 1 /\ \A i \in 1..(p - 1) : a[i] = list[i]
  <2>1. \A i \in 1..(p - 1) : list[i] \in Run
      BY <1>0, <1>1
  <2>2. /\ a \in Seq(Run) /\ Len(a) = IF 1 <= p - 1 THEN (p - 1) - 1 + 1 ELSE 0
        /\ \A i \in 1..((p - 1) - 1 + 1) : a[i] = list[1 + i - 1]
      BY <1>0, <2>1, SubSeqProperties
  <2> HIDE DEF a
  <2>3. (p - 1) - 1 + 1 = p - 1 /\ \A i \in 1..(p - 1) : 1 + i - 1 = i
      BY <1>0
  <2> QED  BY <1>0, <2>2, <2>3
<1>3. /\ b \in Seq(Run) /\ Len(b) = n - p + 1
      /\ \A i \in 1..(n - p + 1) : b[i] = list[p + i - 1]
  <2>1. \A i \in p..n : list[i] \in Run
      BY <1>0, <1>1
  <2>2. /\ b \in Seq(Run) /\ Len(b) = IF p <= n THEN n - p + 1 ELSE 0
        /\ \A i \in 1..(n - p + 1) : b[i] = list[p + i - 1]
      BY <1>0, <2>1, SubSeqProperties
  <2> HIDE DEF b
  <2> QED  BY <1>0, <1>1, <2>2
<1>4. q = (a \o <<r>>) \o b
    BY DEF InsertAt, n
<1> HIDE DEF a, b, q
<1>5. /\ a \o <<r>> \in Seq(Run) /\ Len(a \o <<r>>) = p
      /\ \A i \in 1..p : (a \o <<r>>)[i] = IF i < p THEN list[i] ELSE r
  <2>1. <<r>> \in Seq(Run) /\ Len(<<r>>) = 1 /\ <<r>>[1] = r
      OBVIOUS
  <2>2. /\ a \o <<r>> \in Seq(Run) /\ Len(a \o <<r>>) = (p - 1) + 1
        /\ \A i \in 1..((p - 1) + 1) :
              (a \o <<r>>)[i] = IF i <= p - 1 THEN a[i] ELSE <<r>>[i - (p - 1)]
      BY <1>2, <2>1, ConcatProperties
  <2>3. ASSUME NEW i \in 1..p PROVE (a \o <<r>>)[i] = IF i < p THEN list[i] ELSE r
    <3>1. (a \o <<r>>)[i] = IF i <= p - 1 THEN a[i] ELSE <<r>>[i - (p - 1)]
        BY <1>0, <2>2
    <3>2. CASE i < p
        BY <1>0, <1>2, <3>1, <3>2
    <3>3. CASE ~(i < p)
      <4>1. i - (p - 1) = 1 /\ ~(i <= p - 1)
          BY <1>0, <3>3
      <4> QED  BY <2>1, <3>1, <3>3, <4>1
    <3> QED  BY <3>2, <3>3
  <2> QED  BY <1>0, <2>2, <2>3
<1>6. /\ q \in Seq(Run) /\ Len(q) = n + 1
      /\ \A i \in 1..(n + 1) : q[i] = IF i < p THEN list[i] ELSE IF i = p THEN r ELSE list[i - 1]
  <2>1. /\ q \in Seq(Run) /\ Len(q) = p + (n - p + 1)
        /\ \A i \in 1..(p + (n - p + 1)) : q[i] = IF i <= p THEN (a \o <<r>>)[i] ELSE b[i - p]
    <3> DEFINE c == a \o <<r>>
    <3>1. c \in Seq(Run) /\ b \in Seq(Run) /\ Len(c) = p /\ Len(b) = n - p + 1 /\ q = c \o b
        BY <1>3, <1>4, <1>5
    <3> HIDE DEF c
    <3>2. /\ c \o b \in Seq(Run) /\ Len(c \o b) = Len(c) + Len(b)
          /\ \A i \in 1..(Len(c) + Len(b)) : (c \o b)[i] = IF i <= Len(c) THEN c[i] ELSE b[i - Len(c)]
        BY <3>1, ConcatProperties
    <3>3. /\ q \in Seq(Run) /\ Len(q) = p + (n - p + 1)
          /\ \A i \in 1..(p + (n - p + 1)) : q[i] = IF i <= p THEN c[i] ELSE b[i - p]
        BY <3>1, <3>2
    <3> QED  BY <3>3 DEF c
  <2>2. p + (n - p + 1) = n + 1
      BY <1>0, <1>1
  <2>3. ASSUME NEW i \in 1..(n + 1)
        PROVE  q[i] = IF i < p THEN list[i] ELSE IF i = p THEN r ELSE list[i - 1]
    <3>1. CASE i <= p
        BY <1>0, <1>5, <2>1, <2>2, <3>1
    <3>2. CASE ~(i <= p)
      <4>1. i - p \in 1..(n - p + 1) /\ p + (i - p) - 1 = i - 1
          BY <1>0, <1>1, <3>2
      <4>2. q[i] = b[i - p] /\ b[i - p] = list[i - 1]
          BY <1>3, <2>1, <2>2, <3>2, <4>1
      <4> QED  BY <1>0, <3>2, <4>2
    <3> QED  BY <3>1, <3>2
  <2> QED  BY <2>1, <2>2, <2>3
<1>7. \A k \in 1..n : to(k) \in 1..(n + 1) /\ to(k) # p /\ q[to(k)] = list[k]
  <2> SUFFICES ASSUME NEW k \in 1..n
               PROVE  to(k) \in 1..(n + 1) /\ to(k) # p /\ q[to(k)] = list[k]
      OBVIOUS
  <2>1. CASE k < p
      BY <1>0, <1>1, <1>6, <2>1
  <2>2. CASE ~(k < p)
    <3>1. to(k) = k + 1 /\ k + 1 \in 1..(n + 1) /\ ~(k + 1 < p) /\ k + 1 # p /\ (k + 1) - 1 = k
        BY <1>0, <1>1, <2>2
    <3> QED  BY <1>6, <3>1
  <2> QED  BY <2>1, <2>2
<1>8. p \in 1..(n + 1) /\ q[p] = r
    BY <1>0, <1>6
<1>9. \A i \in 1..(n + 1) : i = p \/ \E k \in 1..n : to(k) = i
  <2> SUFFICES ASSUME NEW i \in 1..(n + 1), i # p PROVE \E k \in 1..n : to(k) = i
      OBVIOUS
  <2>1. CASE i < p
      BY <1>0, <1>1, <2>1
  <2>2. CASE ~(i < p)
    <3>1. i - 1 \in 1..n /\ to(i - 1) = i
        BY <1>0, <1>1, <2>2
    <3> QED  BY <3>1
  <2> QED  BY <2>1, <2>2
<1> HIDE DEF to
<1>10. IsInjective(q)
  <2> SUFFICES ASSUME NEW i \in 1..(n + 1), NEW j \in 1..(n + 1), q[i] = q[j] PROVE i = j
      BY <1>6 DEF IsInjective
  <2> QED  BY <1>1, <1>7, <1>8, <1>9
<1>11. ToSet(q) = S \cup {r}
  <2>1. ToSet(q) = {q[i] : i \in 1..(n + 1)}
    <3>1. DOMAIN q = 1..(n + 1)
        BY <1>6
    <3> QED  BY <3>1 DEF ToSet
  <2>2. \A x \in ToSet(q) : x \in S \cup {r}
      BY <1>1, <1>7, <1>8, <1>9, <2>1
  <2>3. r \in ToSet(q)
      BY <1>8, <2>1
  <2>4. ASSUME NEW s \in S PROVE s \in ToSet(q)
    <3>1. PICK k \in 1..n : list[k] = s
        BY <1>1
    <3> QED  BY <1>7, <2>1, <3>1
  <2> QED  BY <2>2, <2>3, <2>4
<1> QED  BY <1>6, <1>7, <1>10, <1>11 DEF IsListOf, n, q, to

\* What is left of the list without some runs: h says where each was.
LEMMA ListWithout ==
    ASSUME NEW list, NEW S, IsListOf(list, S), NEW runs
    PROVE  LET q == Without(list, runs)
           IN  /\ IsListOf(q, S \ runs)
               /\ runs = {} => Len(q) = Len(list)
               /\ \A v \in S : runs = {v} => Len(q) = Len(list) - 1
               /\ Len(q) <= Len(list)
               /\ \E h \in [1..Len(q) -> 1..Len(list)] :
                     /\ \A i \in 1..Len(q) : q[i] = list[h[i]]
                     /\ \A i, j \in 1..Len(q) : i < j => h[i] < h[j]
<1> DEFINE n == Len(list)
           q == Without(list, runs)
           stay == {i \in DOMAIN list : list[i] \notin runs}
           k == Cardinality(stay)
           h == Ascending(stay)
<1>1. /\ list \in Seq(Run) /\ n \in Nat /\ DOMAIN list = 1..n
      /\ \A i \in 1..n : list[i] \in S /\ list[i] \in Run
      /\ \A i, j \in 1..n : list[i] = list[j] => i = j
      /\ \A s \in S : \E i \in 1..n : list[i] = s
    BY ListShape
<1>2. IsFiniteSet(1..n) /\ Cardinality(1..n) = n
  <2>1. 1 \in Int /\ n \in Int /\ n \in Nat
      BY <1>1
  <2> HIDE DEF n
  <2>2. IsFiniteSet(1..n) /\ Cardinality(1..n) = IF 1 > n THEN 0 ELSE n - 1 + 1
      BY <2>1, FS_Interval
  <2> QED  BY <2>1, <2>2
<1>3. /\ stay \in SUBSET (1..n) /\ stay \in SUBSET Nat
      /\ \A i \in 1..n : i \in stay <=> list[i] \notin runs
    BY <1>1
<1> HIDE DEF n, stay
<1>4. IsFiniteSet(stay) /\ k \in Nat /\ k <= n
    BY <1>2, <1>3, FS_Subset, FS_CardinalityType
<1>5. h \in [1..k -> stay] /\ \A i, j \in 1..k : i < j => h[i] < h[j]
    BY <1>3, <1>4, AscendingSorts DEF Sorts
<1>6. \A x \in stay : \E i \in 1..k : h[i] = x
    BY <1>3, <1>4, AscendingCovers
<1>7. q = [i \in 1..k |-> list[h[i]]]
    BY DEF Without, stay
<1> HIDE DEF k, h, q
<1>8. \A i \in 1..k : h[i] \in 1..n /\ h[i] \in stay /\ q[i] = list[h[i]]
    BY <1>3, <1>5, <1>7
<1>9. q \in Seq(Run) /\ Len(q) = k /\ DOMAIN q = 1..k
  <2>1. \A i \in 1..k : list[h[i]] \in Run
      BY <1>1, <1>8
  <2> QED  BY <1>4, <1>7, <2>1
<1>10. IsInjective(q)
  <2> SUFFICES ASSUME NEW i \in 1..k, NEW j \in 1..k, q[i] = q[j] PROVE i = j
      BY <1>9 DEF IsInjective
  <2>1. h[i] = h[j]
      BY <1>1, <1>8
  <2>2. ~(i < j) /\ ~(j < i)
    <3>1. h[i] \in Nat /\ h[j] \in Nat
        BY <1>3, <1>8
    <3> QED  BY <1>5, <2>1, <3>1
  <2> QED  BY <1>4, <2>2
<1>11. ToSet(q) = S \ runs
  <2>1. ToSet(q) = {q[i] : i \in 1..k}
      BY <1>9 DEF ToSet
  <2>2. \A x \in ToSet(q) : x \in S \ runs
      BY <1>1, <1>3, <1>8, <2>1
  <2>3. ASSUME NEW s \in S \ runs PROVE s \in ToSet(q)
    <3>1. PICK j \in 1..n : list[j] = s
        BY <1>1
    <3>2. PICK i \in 1..k : h[i] = j
        BY <1>3, <1>6, <3>1
    <3> QED  BY <1>8, <2>1, <3>1, <3>2
  <2> QED  BY <2>2, <2>3
<1>12. runs = {} => k = n
  <2> SUFFICES ASSUME runs = {} PROVE k = n
      OBVIOUS
  <2>1. stay = 1..n
      BY <1>3
  <2> QED  BY <1>2, <2>1 DEF k
<1>13. ASSUME NEW v \in S, runs = {v} PROVE k = n - 1
  <2>1. PICK j \in 1..n : list[j] = v
      BY <1>1
  <2>2. \A i \in 1..n : i \in stay <=> i # j
      BY <1>1, <1>3, <1>13, <2>1
  <2>3. stay = (1..n) \ {j}
      BY <1>3, <2>2
  <2> QED  BY <1>2, <2>1, <2>3, FS_RemoveElement DEF k
<1>14. h \in [1..k -> 1..n]
    BY <1>5, <1>8
<1> QED  BY <1>4, <1>5, <1>8, <1>9, <1>10, <1>11, <1>12, <1>13, <1>14 DEF IsListOf, q, n

-----------------------------------------------------------------------------
(* Types, and what a write does to the runs that are kept.                 *)

\* The times a listing is ordered by: a scan's are its places.
Times == IF source = "persistence" THEN Place ELSE observed

LEMMA Places ==
    ASSUME ListingTypeOK
    PROVE  /\ IsListOf(kept, Kept) /\ Kept \in SUBSET Run /\ Candidates \in SUBSET Kept
           /\ Len(kept) \in Nat
           /\ Place \in [Run -> 0..Len(kept)]
           /\ \A r \in Kept : Place[r] \in 1..Len(kept) /\ kept[Place[r]] = r
           /\ \A i \in 1..Len(kept) : kept[i] \in Kept /\ Place[kept[i]] = i
<1>1. IsListOf(kept, Kept)
    BY DEF ListingTypeOK, IsListOf, Kept
<1>2. /\ Len(kept) \in Nat /\ DOMAIN kept = 1..Len(kept)
      /\ \A i \in 1..Len(kept) : kept[i] \in Kept /\ kept[i] \in Run
      /\ \A i, j \in 1..Len(kept) : kept[i] = kept[j] => i = j
      /\ \A r \in Kept : \E i \in 1..Len(kept) : kept[i] = r
      /\ Kept \in SUBSET Run
    BY <1>1, ListShape
<1>3. ASSUME NEW r \in Kept PROVE Place[r] \in 1..Len(kept) /\ kept[Place[r]] = r
  <2>1. \E i \in DOMAIN kept : kept[i] = r
      BY <1>2
  <2>2. Place[r] = CHOOSE i \in DOMAIN kept : kept[i] = r
      BY <1>2 DEF Place
  <2> QED  BY <1>2, <2>1, <2>2
<1>4. Place \in [Run -> 0..Len(kept)]
  <2>1. ASSUME NEW r \in Run PROVE Place[r] \in 0..Len(kept)
    <3>1. CASE r \in Kept
        BY <1>2, <1>3, <3>1
    <3>2. CASE r \notin Kept
        BY <1>2, <3>2 DEF Place
    <3> QED  BY <3>1, <3>2
  <2>2. Place = [r \in Run |-> Place[r]]
      BY DEF Place
  <2> QED  BY <2>1, <2>2
<1>5. \A i \in 1..Len(kept) : Place[kept[i]] = i
    BY <1>2, <1>3
<1>6. Candidates \in SUBSET Kept
    BY DEF Candidates
<1> QED  BY <1>1, <1>2, <1>3, <1>4, <1>5, <1>6

LEMMA Clocks ==
    ASSUME ListingTypeOK
    PROVE  Clock(observed) /\ Clock(Place) /\ Clock(Times) /\ \A s \in Stamps : Clock(s)
<1>1. Clock(observed)
    BY ListingAssumption DEF ListingTypeOK, Clock
<1>2. Len(kept) \in Nat /\ Place \in [Run -> 0..Len(kept)]
    BY Places
<1>3. \A s \in [Run -> 0..Len(kept)] : Clock(s)
    BY <1>2 DEF Clock
<1> QED  BY <1>1, <1>2, <1>3 DEF Times, Stamps

\* Whatever the datasource, its page is the page after a key.
LEMMA PageRead ==
    ASSUME ListingTypeOK, Known(marker), NEW page \in Pages(marker)
    PROVE  \E obs : /\ Clock(obs) /\ page = PageByKey(obs, marker)
                    /\ ~(source = "persistence" /\ ScanTies) => obs = Times
<1>1. /\ Clock(observed) /\ Clock(Times) /\ \A s \in Stamps : Clock(s)
      /\ Candidates \in SUBSET Run /\ limit \in Nat \ {0}
  <2>1. limit \in Nat \ {0}
      BY ListingAssumption DEF ListingTypeOK
  <2>2. Candidates \in SUBSET Run
      BY Places
  <2> QED  BY <2>1, <2>2, Clocks
<1>2. source \in {"memory", "sqlalchemy", "persistence"}
    BY ListingAssumption DEF ListingTypeOK
<1>3. CASE source = "memory"
  <2>1. page = PageByPosition(observed, marker) /\ marker \in Candidates \cup {None}
      BY <1>3 DEF Pages, Known, KnownByPosition
  <2>2. Times = observed
      BY <1>3 DEF Times
  <2> QED  BY <1>1, <2>1, <2>2, KeyIsPosition
<1>4. CASE source = "sqlalchemy"
  <2>1. page = PageByKey(observed, marker) /\ Times = observed
      BY <1>4 DEF Pages, Times
  <2> QED  BY <1>1, <2>1
<1>5. CASE source = "persistence"
  <2>1. PICK s \in Stamps : page = PageByPosition(s, marker)
      BY <1>5 DEF Pages
  <2>2. marker \in Candidates \cup {None}
      BY <1>5 DEF Known, KnownByPosition
  <2>3. ~ScanTies => s = Place /\ Times = Place
      BY <1>5 DEF Stamps, Times
  <2>4. page = PageByKey(s, marker) /\ Clock(s)
      BY <1>1, <2>1, <2>2, KeyIsPosition
  <2> QED  BY <1>5, <2>3, <2>4
<1> QED  BY <1>2, <1>3, <1>4, <1>5

\* _evict_if_needed() drops a run no other was observed before.
LEMMA VictimIsOldest ==
    ASSUME NEW S, NEW order, IsListOf(order, S), Len(order) # 0, NEW obs, Clock(obs)
    PROVE  Victim(order, obs) \in S /\ \A k \in S : obs[Victim(order, obs)] <= obs[k]
<1> DEFINE n == Len(order)
           at(i) == obs[order[i]]
           times == {at(i) : i \in 1..n}
           low == Min(times)
           eldest == {i \in 1..n : at(i) = low}
           Wanted(i) == /\ \A j \in DOMAIN order : obs[order[i]] <= obs[order[j]]
                        /\ \A j \in 1..(i - 1) : obs[order[i]] < obs[order[j]]
<1>1. /\ n \in Nat \ {0} /\ DOMAIN order = 1..n
      /\ \A i \in 1..n : order[i] \in S /\ order[i] \in Run
      /\ \A r \in S : \E i \in 1..n : order[i] = r
    BY ListShape
<1>2. \A i \in 1..n : at(i) \in Nat
    BY <1>1 DEF Clock
<1> HIDE DEF n
<1>3. times \in SUBSET Nat /\ times # {}
  <2>1. 1 \in 1..n
      BY <1>1
  <2> QED  BY <1>2, <2>1
<1>4. low \in times /\ \A t \in times : low <= t
    BY <1>3, Smallest
<1>5. eldest \in SUBSET Nat /\ eldest # {}
  <2>1. PICK i \in 1..n : at(i) = low
      BY <1>4
  <2>2. i \in eldest
      BY <2>1
  <2>3. \A k \in 1..n : k \in Nat
      BY <1>1
  <2>4. eldest \in SUBSET Nat
      BY <2>3
  <2> HIDE DEF eldest
  <2> QED  BY <2>2, <2>4
<1>6. PICK i \in eldest : \A k \in eldest : i <= k
    BY <1>5, Smallest
<1>7. i \in 1..n /\ at(i) = low /\ \A j \in 1..n : low <= at(j)
    BY <1>4, <1>6
<1>8. \A j \in 1..(i - 1) : j \in 1..n /\ at(j) # low
  <2> SUFFICES ASSUME NEW j \in 1..(i - 1) PROVE j \in 1..n /\ at(j) # low
      OBVIOUS
  <2>1. j \in 1..n /\ ~(i <= j)
      BY <1>1, <1>7
  <2> QED  BY <1>6, <2>1
<1>9. Wanted(i)
  <2>1. \A j \in DOMAIN order : at(i) <= at(j)
      BY <1>1, <1>7
  <2>2. ASSUME NEW j \in 1..(i - 1) PROVE at(i) < at(j)
    <3>1. at(i) \in Nat /\ at(j) \in Nat /\ at(i) <= at(j) /\ at(j) # at(i)
        BY <1>2, <1>7, <1>8
    <3> QED  BY <3>1
  <2> QED  BY <2>1, <2>2
<1> DEFINE w == CHOOSE k \in DOMAIN order : Wanted(k)
<1>10. w \in DOMAIN order /\ Wanted(w)
    BY <1>1, <1>7, <1>9
<1>11. Victim(order, obs) = order[w]
    BY DEF Victim
<1> HIDE DEF w
<1>12. \A j \in 1..n : obs[order[w]] <= obs[order[j]]
    BY <1>1, <1>10
<1> QED  BY <1>1, <1>10, <1>11, <1>12

\* When each run was observed, had r been at t.
At(r, t, k) == IF k = r THEN t ELSE observed[k]

\* apply(), when there is room for the event's run or the run is there.
Folds(r, ts) ==
    \E t \in 1..MaxTime :
        /\ ts <= t /\ (r \in Kept => observed[r] <= t) /\ (r \notin Kept => t = ts)
        /\ IsListOf(kept', Kept \cup {r})
        /\ Len(kept') = IF r \in Kept THEN Len(kept) ELSE Len(kept) + 1
        /\ r \notin Kept /\ source = "memory" => Len(kept) < MaxRuns
        /\ observed' \in [Run -> 0..MaxTime]
        /\ \A k \in Kept \cup {r} : observed'[k] = At(r, t, k)
        /\ high' = high /\ steady' = steady \ {r}
        /\ matching' \subseteq Kept \cup {r} /\ matching \ {r} \subseteq matching'

\* apply(), when a run has to make room, which may be the event's.
Evicts(r, ts) ==
    \E v \in Kept \cup {r} :
        /\ source = "memory" /\ r \notin Kept
        /\ Len(kept) = MaxRuns /\ Len(kept') = MaxRuns
        /\ IsListOf(kept', (Kept \cup {r}) \ {v})
        /\ \A k \in Kept \cup {r} : At(r, ts, v) <= At(r, ts, k)
        /\ observed' \in [Run -> 0..MaxTime]
        /\ \A k \in (Kept \cup {r}) \ {v} : observed'[k] = At(r, ts, k)
        /\ high' \in {high, At(r, ts, v)} /\ high <= high' /\ At(r, ts, v) <= high'
        /\ steady' = steady \ {r, v}
        /\ matching' \subseteq (Kept \cup {r}) \ {v} /\ matching \ {r, v} \subseteq matching'

\* The largest of one number.
LEMMA MaxOfOne ==
    ASSUME NEW a \in Nat
    PROVE  Max({a}) = a
<1>1. {a} \in SUBSET Nat /\ {a} # {} /\ \A n \in {a} : n <= a
    OBVIOUS
<1> HIDE DEF Max
<1>2. Max({a}) \in {a}
    BY <1>1, Largest
<1> QED  BY <1>2

LEMMA ApplyDoes ==
    ASSUME ListingTypeOK, NEW r \in Run, NEW ts \in 1..MaxTime, NEW m \in BOOLEAN,
           Apply(r, ts, m)
    PROVE  Folds(r, ts) \/ Evicts(r, ts)
<1> DEFINE new == r \notin Kept
           order == IF new THEN Append(kept, r) ELSE kept
           obs == [observed EXCEPT ![r] = ObservedAnew(Kept, r, ts)]
           full == source = "memory" /\ new /\ Len(order) > MaxRuns
           gone == IF full THEN {Victim(order, obs)} ELSE {}
           after == ToSet(order) \ gone
           now == Kept \cup {r}
<1>1. /\ kept' = Without(order, gone)
      /\ observed' = [k \in Run |-> IF k \in after THEN obs[k] ELSE 0]
      /\ matching' = (IF m THEN matching \cup {r} ELSE matching \ {r}) \cap after
      /\ high' = Max({high} \cup {obs[k] : k \in gone})
      /\ Written({r} \cup gone)
    BY DEF Apply
<1>2. steady' = steady \ ({r} \cup gone)
    BY <1>1 DEF Written
<1>3. /\ IsListOf(kept, Kept) /\ Kept \in SUBSET Run /\ Len(kept) \in Nat
      /\ observed \in [Run -> 0..MaxTime] /\ high \in 0..MaxTime
      /\ MaxTime \in Nat /\ MaxRuns \in Nat \ {0}
      /\ source = "memory" => Len(kept) <= MaxRuns
    BY Places, ListingAssumption DEF ListingTypeOK
<1>4. IsListOf(order, now) /\ Len(order) = IF new THEN Len(kept) + 1 ELSE Len(kept)
  <2>1. CASE new
      BY <1>3, <2>1, ListAppended
  <2>2. CASE ~new
    <3>1. now = Kept
        BY <2>2
    <3> QED  BY <1>3, <2>2, <3>1
  <2> QED  BY <2>1, <2>2
<1> DEFINE t == ObservedAnew(Kept, r, ts)
<1>5. t \in 1..MaxTime /\ ts <= t /\ (r \in Kept => observed[r] <= t) /\ (new => t = ts)
  <2>1. observed[r] \in Nat /\ observed[r] <= MaxTime /\ ts \in Nat /\ ts <= MaxTime /\ 1 <= ts
      BY <1>3
  <2>2. /\ Max({observed[r], ts}) \in {observed[r], ts}
        /\ observed[r] <= Max({observed[r], ts}) /\ ts <= Max({observed[r], ts})
      BY <2>1, MaxOfTwo
  <2> HIDE DEF Max
  <2>3. CASE r \in Kept
    <3>1. t = Max({observed[r], ts})
        BY <2>3 DEF ObservedAnew
    <3> QED  BY <1>3, <2>1, <2>2, <2>3, <3>1
  <2>4. CASE r \notin Kept
      BY <2>1, <2>4 DEF ObservedAnew
  <2> QED  BY <2>3, <2>4
<1>6. ToSet(order) = now /\ after = now \ gone
    BY <1>4 DEF IsListOf
<1> HIDE DEF t
<1>7. /\ obs \in [Run -> 0..MaxTime] /\ Clock(obs)
      /\ \A k \in Run : obs[k] = At(r, t, k)
  <2>1. obs = [observed EXCEPT ![r] = t]
      BY DEF t
  <2>2. obs \in [Run -> 0..MaxTime]
    <3>1. t \in 0..MaxTime
        BY <1>3, <1>5
    <3> QED  BY <1>3, <2>1, <3>1
  <2>3. \A k \in Run : obs[k] = At(r, t, k)
      BY <1>3, <2>1 DEF At
  <2>4. Clock(obs)
      BY <1>3, <2>2 DEF Clock
  <2> QED  BY <2>2, <2>3, <2>4
<1>8. observed' \in [Run -> 0..MaxTime] /\ \A k \in after : observed'[k] = At(r, t, k)
  <2> HIDE DEF obs, after
  <2>1. \A k \in Run : (IF k \in after THEN obs[k] ELSE 0) \in 0..MaxTime
      BY <1>3, <1>7
  <2>2. after \in SUBSET Run
      BY <1>3, <1>6
  <2> QED  BY <1>1, <1>7, <2>1, <2>2
<1> HIDE DEF obs, order, new, after
<1>9. CASE ~full
  <2>1. gone = {}
      BY <1>9
  <2>2. IsListOf(kept', now) /\ Len(kept') = Len(order)
    <3>1. IsListOf(Without(order, gone), now \ gone) /\ Len(Without(order, gone)) = Len(order)
        BY <1>4, <2>1, ListWithout
    <3>2. now \ gone = now
        BY <2>1
    <3> QED  BY <1>1, <3>1, <3>2
  <2>3. high' = high
    <3>1. {high} \cup {obs[k] : k \in gone} = {high}
        BY <2>1
    <3>2. high \in Nat
        BY <1>3
    <3> QED  BY <1>1, <3>1, <3>2, MaxOfOne
  <2>4. steady' = steady \ {r} /\ after = now /\ matching' \subseteq now
      BY <1>1, <1>2, <1>6, <2>1
  <2>a. matching \subseteq Kept
      BY DEF ListingTypeOK
  <2>b. matching \ {r} \subseteq matching'
    <3> HIDE DEF after
    <3> QED  BY <1>1, <2>4, <2>a
  <2>5. new /\ source = "memory" => Len(kept) < MaxRuns
      BY <1>3, <1>4, <1>9
  <2> HIDE DEF now, gone, full
  <2>6. Folds(r, ts)
    <3>1. Len(kept') = IF r \in Kept THEN Len(kept) ELSE Len(kept) + 1
        BY <1>4, <2>2 DEF new
    <3> QED  BY <1>5, <1>8, <2>2, <2>3, <2>4, <2>b, <2>5, <3>1 DEF Folds, new, now
  <2> QED  BY <2>6
<1>10. CASE full
  <2> DEFINE v == Victim(order, obs)
  <2>1. gone = {v} /\ source = "memory" /\ new
      BY <1>10
  <2>2. Len(kept) = MaxRuns /\ Len(order) = MaxRuns + 1 /\ Len(order) # 0
      BY <1>3, <1>4, <1>10, <2>1
  <2>3. v \in now /\ \A k \in now : obs[v] <= obs[k]
      BY <1>4, <1>7, <2>2, VictimIsOldest
  <2> HIDE DEF v
  <2>4. IsListOf(kept', now \ {v}) /\ Len(kept') = MaxRuns
    <3>1. IsListOf(Without(order, gone), now \ gone) /\ Len(Without(order, gone)) = Len(order) - 1
        BY <1>4, <2>1, <2>3, ListWithout
    <3> HIDE DEF gone, now
    <3>2. kept' = Without(order, gone)
        BY <1>1
    <3>3. IsListOf(kept', now \ {v})
        BY <2>1, <3>1, <3>2
    <3>4. Len(kept') = (MaxRuns + 1) - 1
        BY <2>2, <3>1, <3>2
    <3> QED  BY <1>3, <3>3, <3>4
  <2>5. /\ high' \in {high, obs[v]} /\ high <= high' /\ obs[v] <= high'
    <3>1. {high} \cup {obs[k] : k \in gone} = {high, obs[v]}
        BY <2>1
    <3>2. high \in Nat /\ obs[v] \in Nat
        BY <1>3, <1>7, <2>3
    <3> HIDE DEF gone
    <3> QED  BY <1>1, <3>1, <3>2, MaxOfTwo
  <2>6. steady' = steady \ {r, v} /\ after = now \ {v} /\ matching' \subseteq now \ {v}
      BY <1>1, <1>2, <1>6, <2>1
  <2>a. matching \subseteq Kept
      BY DEF ListingTypeOK
  <2>b. matching \ {r, v} \subseteq matching'
    <3> HIDE DEF after, v
    <3> QED  BY <1>1, <2>6, <2>a
  <2>7. t = ts /\ now \in SUBSET Run
      BY <1>3, <1>5, <2>1
  <2>8. \A k \in now : obs[k] = At(r, ts, k)
      BY <1>7, <2>7
  <2> HIDE DEF now, gone, full
  <2>9. /\ \A k \in now : At(r, ts, v) <= At(r, ts, k)
        /\ high' \in {high, At(r, ts, v)} /\ high <= high' /\ At(r, ts, v) <= high'
        /\ \A k \in now \ {v} : observed'[k] = At(r, ts, k)
      BY <1>8, <2>3, <2>5, <2>6, <2>7, <2>8
  <2>10. Evicts(r, ts)
      BY <1>8, <2>1, <2>2, <2>3, <2>4, <2>6, <2>b, <2>9 DEF Evicts, new, now
  <2> QED  BY <2>10
<1> QED  BY <1>9, <1>10

LEMMA WrittenTypes ==
    ASSUME ListingTypeOK, NEW runs, Written(runs)
    PROVE  /\ source' = source /\ limit' = limit /\ filtered' = filtered /\ wants' = wants
           /\ byLink' = byLink /\ walk' = walk /\ marker' = marker /\ listed' = listed
           /\ writes' \in 0..MaxWrites /\ walk \in {"idle", "walking"}
           /\ walk = "walking" => writes' # 0
           /\ steady' = steady \ runs
<1>1. writes \in 0..MaxWrites /\ MaxWrites \in Nat
    BY ListingAssumption DEF ListingTypeOK
<1> QED  BY <1>1 DEF Written

LEMMA DropDoes ==
    ASSUME ListingTypeOK, NEW runs, Drop(runs)
    PROVE  /\ IsListOf(kept', Kept \ runs) /\ Len(kept') \in Nat /\ Len(kept') <= Len(kept)
           /\ \A r \in Run \ runs : observed'[r] = observed[r]
           /\ observed' \in [Run -> 0..MaxTime]
           /\ matching' = matching \ runs /\ Written(runs)
<1>1. IsListOf(kept, Kept)
    BY Places
<1>2. /\ IsListOf(Without(kept, runs), Kept \ runs)
      /\ Len(Without(kept, runs)) <= Len(kept)
    BY <1>1, ListWithout
<1>3. kept' = Without(kept, runs) /\ Written(runs) /\ matching' = matching \ runs
    BY DEF Drop
<1>4. Len(kept') \in Nat
    BY <1>2, <1>3, ListShape
<1>5. /\ observed \in [Run -> 0..MaxTime] /\ MaxTime \in Nat
      /\ observed' = [k \in Run |-> IF k \in runs THEN 0 ELSE observed[k]]
    BY ListingAssumption DEF ListingTypeOK, Drop
<1>6. /\ observed' \in [Run -> 0..MaxTime]
      /\ \A r \in Run \ runs : observed'[r] = observed[r]
    BY <1>5
<1> QED  BY <1>2, <1>3, <1>4, <1>6

\* The parts of the type invariant that a write disturbs.
LEMMA TypeAfterWrite ==
    ASSUME ListingTypeOK, NEW runs, Written(runs),
           NEW S, IsListOf(kept', S), Kept \ runs \subseteq S,
           source = "memory" => Len(kept') <= MaxRuns,
           observed' \in [Run -> 0..MaxTime], matching' \subseteq S,
           deleted' \subseteq Run, misled' \in BOOLEAN, high' \in 0..MaxTime
    PROVE  ListingTypeOK'
<1>1. Kept' = S /\ kept' \in Seq(Run) /\ IsInjective(kept')
    BY DEF IsListOf, Kept
<1>2. /\ source' = source /\ limit' = limit /\ filtered' = filtered /\ wants' = wants
      /\ byLink' = byLink /\ walk' = walk /\ marker' = marker /\ listed' = listed
      /\ writes' \in 0..MaxWrites /\ steady' = steady \ runs
    BY WrittenTypes
<1>3. steady' \subseteq Kept'
    BY <1>1, <1>2 DEF ListingTypeOK
<1> QED  BY <1>1, <1>2, <1>3 DEF ListingTypeOK

LEMMA ListingTypeAtFirst == ListingInit => ListingTypeOK
<1> SUFFICES ASSUME ListingInit PROVE ListingTypeOK
    OBVIOUS
<1>1. kept = <<>> /\ kept \in Seq(Run) /\ Len(kept) = 0 /\ Kept = {} /\ IsInjective(kept)
    BY DEF ListingInit, Kept, ToSet, IsInjective
<1>2. listed \in Seq(Run)
    BY DEF ListingInit
<1>3. /\ MaxTime \in Nat /\ MaxWrites \in Nat /\ MaxRuns \in Nat \ {0} /\ MaxLimit \in Nat \ {0}
    BY ListingAssumption
<1>4. observed \in [Run -> 0..MaxTime]
    BY <1>3 DEF ListingInit
<1>5. limit \in 1..MaxLimit /\ writes \in 0..MaxWrites /\ high \in 0..MaxTime
    BY <1>3 DEF ListingInit
<1>6. source = "memory" => Len(kept) <= MaxRuns
    BY <1>1, <1>3
<1> QED  BY <1>1, <1>2, <1>4, <1>5, <1>6 DEF ListingInit, ListingTypeOK

LEMMA ListingTypeKept == ListingTypeOK /\ [ListingNext]_listingVars => ListingTypeOK'
<1> SUFFICES ASSUME ListingTypeOK, [ListingNext]_listingVars PROVE ListingTypeOK'
    OBVIOUS
<1>a. /\ MaxTime \in Nat /\ MaxWrites \in Nat /\ MaxRuns \in Nat \ {0} /\ MaxLimit \in Nat \ {0}
      /\ DefaultLimit \in 1..MaxLimit
    BY ListingAssumption
<1>b. /\ IsListOf(kept, Kept) /\ Kept \in SUBSET Run /\ Len(kept) \in Nat
      /\ Candidates \in SUBSET Kept
      /\ source = "memory" => Len(kept) <= MaxRuns
    BY Places DEF ListingTypeOK
<1>1. ASSUME NEW f \in BOOLEAN, NEW follow \in BOOLEAN, NEW n \in 1..MaxLimit, Begin(f, follow, n)
      PROVE  ListingTypeOK'
  <2>1. UNCHANGED storeVars /\ Kept' = Kept
      BY <1>1 DEF Begin, storeVars, Kept
  <2>2. listed' \in Seq(Run) /\ steady' \subseteq Kept
      BY <1>1 DEF Begin
  <2>3. /\ walk' = "walking" /\ limit' \in 1..MaxLimit /\ marker' = None /\ writes' \in 0..MaxWrites
      BY <1>a, <1>1 DEF Begin
  <2>4. wants' \in BOOLEAN /\ byLink' \in BOOLEAN /\ filtered' \in BOOLEAN /\ misled' \in BOOLEAN
      BY <1>1 DEF Begin
  <2> QED  BY <2>1, <2>2, <2>3, <2>4 DEF ListingTypeOK, storeVars
<1>2. ASSUME NextPage PROVE ListingTypeOK'
  <2>1. UNCHANGED storeVars /\ Kept' = Kept /\ UNCHANGED <<wants, byLink, writes, steady, misled>>
      BY <1>2 DEF NextPage, storeVars, Kept
  <2>2. PICK page \in Pages(marker) :
            /\ listed' = listed \o page.items
            /\ IF page.more
               THEN marker' = Last(page.items) /\ UNCHANGED walk
               ELSE marker' = None /\ walk' = "done"
      BY <1>2 DEF NextPage
  <2>3. PICK obs : Clock(obs) /\ page = PageByKey(obs, marker)
      BY <1>2, PageRead DEF NextPage
  <2>4. limit \in Nat \ {0} /\ Candidates \in SUBSET Run
      BY <1>a, <1>b DEF ListingTypeOK
  <2>5. /\ page.items \in Seq(Run) /\ ToSet(page.items) \subseteq AfterKey(obs, marker)
        /\ page.more => Last(page.items) \in AfterKey(obs, marker)
      BY <2>3, <2>4, PageAfterKey
  <2>6. page.more => Last(page.items) \in Run
      BY <2>4, <2>5 DEF AfterKey
  <2>7. listed' \in Seq(Run)
      BY <2>2, <2>5 DEF ListingTypeOK
  <2>8. filtered' \in BOOLEAN /\ limit' \in 1..MaxLimit
      BY <1>a, <1>2 DEF NextPage, NextRequest, ListingTypeOK
  <2>9. /\ walk' \in {"idle", "walking", "done", "refused"}
        /\ marker' \in Run \cup {None}
      BY <2>2, <2>6 DEF ListingTypeOK
  <2> QED  BY <2>1, <2>7, <2>8, <2>9 DEF ListingTypeOK, storeVars
<1>3. ASSUME Refused PROVE ListingTypeOK'
  <2>1. UNCHANGED storeVars /\ Kept' = Kept
      BY <1>3 DEF Refused, storeVars, Kept
  <2>2. /\ walk' = "refused"
        /\ UNCHANGED <<wants, byLink, filtered, limit, marker, listed, writes, steady, misled>>
      BY <1>3 DEF Refused
  <2> QED  BY <2>1, <2>2 DEF ListingTypeOK, storeVars
<1>4. ASSUME Leave PROVE ListingTypeOK'
  <2>1. UNCHANGED storeVars /\ Kept' = Kept
      BY <1>4 DEF Leave, storeVars, Kept
  <2>2. listed' \in Seq(Run)
      BY <1>4 DEF Leave
  <2>3. /\ walk' = "idle" /\ limit' \in 1..MaxLimit /\ marker' = None /\ writes' \in 0..MaxWrites
        /\ steady' = {}
      BY <1>a, <1>4 DEF Leave
  <2>4. wants' \in BOOLEAN /\ byLink' \in BOOLEAN /\ filtered' \in BOOLEAN /\ misled' \in BOOLEAN
      BY <1>4 DEF Leave
  <2> QED  BY <2>1, <2>2, <2>3, <2>4 DEF ListingTypeOK, storeVars
<1>5. ASSUME NEW r \in Run, NEW ts \in 1..MaxTime, NEW m \in BOOLEAN, Apply(r, ts, m)
      PROVE  ListingTypeOK'
  <2>1. /\ deleted' = deleted /\ misled' = misled /\ high \in 0..MaxTime
        /\ \E runs : Written(runs)
      BY <1>5 DEF Apply, ListingTypeOK
  <2>2. CASE Folds(r, ts)
    <3>1. /\ IsListOf(kept', Kept \cup {r}) /\ observed' \in [Run -> 0..MaxTime] /\ high' = high
          /\ matching' \subseteq Kept \cup {r} /\ steady' = steady \ {r}
          /\ source = "memory" => Len(kept') <= MaxRuns
      <4>1. PICK t \in 1..MaxTime :
              /\ IsListOf(kept', Kept \cup {r})
              /\ Len(kept') = IF r \in Kept THEN Len(kept) ELSE Len(kept) + 1
              /\ r \notin Kept /\ source = "memory" => Len(kept) < MaxRuns
              /\ observed' \in [Run -> 0..MaxTime] /\ high' = high
              /\ steady' = steady \ {r} /\ matching' \subseteq Kept \cup {r}
          BY <2>2 DEF Folds
      <4> QED  BY <1>a, <1>b, <4>1
    <3>2. kept' \in Seq(Run) /\ IsInjective(kept') /\ Kept' = Kept \cup {r}
        BY <3>1 DEF IsListOf, Kept
    <3>3. steady' \subseteq Kept'
        BY <3>1, <3>2 DEF ListingTypeOK
    <3>4. /\ source' = source /\ limit' = limit /\ filtered' = filtered /\ wants' = wants
          /\ byLink' = byLink /\ walk' = walk /\ marker' = marker /\ listed' = listed
          /\ writes' \in 0..MaxWrites
        BY <2>1, WrittenTypes
    <3> QED  BY <2>1, <3>1, <3>2, <3>3, <3>4 DEF ListingTypeOK
  <2>3. CASE Evicts(r, ts)
    <3>1. PICK v \in Kept \cup {r} :
            /\ Len(kept') = MaxRuns
            /\ IsListOf(kept', (Kept \cup {r}) \ {v})
            /\ observed' \in [Run -> 0..MaxTime] /\ high' \in {high, At(r, ts, v)}
            /\ steady' = steady \ {r, v} /\ matching' \subseteq (Kept \cup {r}) \ {v}
        BY <2>3 DEF Evicts
    <3>2. kept' \in Seq(Run) /\ IsInjective(kept') /\ Kept' = (Kept \cup {r}) \ {v}
        BY <3>1 DEF IsListOf, Kept
    <3>3. steady' \subseteq Kept'
        BY <3>1, <3>2 DEF ListingTypeOK
    <3>4. /\ source' = source /\ limit' = limit /\ filtered' = filtered /\ wants' = wants
          /\ byLink' = byLink /\ walk' = walk /\ marker' = marker /\ listed' = listed
          /\ writes' \in 0..MaxWrites
        BY <2>1, WrittenTypes
    <3>5. high' \in 0..MaxTime
      <4>1. v \in Run /\ ts \in 0..MaxTime
          BY <1>a, <1>b
      <4>2. At(r, ts, v) \in 0..MaxTime
          BY <4>1 DEF At, ListingTypeOK
      <4> QED  BY <2>1, <3>1, <4>2
    <3>6. source' = "memory" => Len(kept') <= MaxRuns
        BY <1>a, <3>1
    <3> QED  BY <2>1, <3>1, <3>2, <3>3, <3>4, <3>5, <3>6 DEF ListingTypeOK
  <2> QED  BY <1>5, <2>2, <2>3, ApplyDoes
<1>6. ASSUME NEW runs, Drop(runs), deleted' \subseteq Run, misled' \in BOOLEAN, high' \in 0..MaxTime
      PROVE  ListingTypeOK'
  <2>1. /\ IsListOf(kept', Kept \ runs) /\ Len(kept') \in Nat /\ Len(kept') <= Len(kept)
        /\ observed' \in [Run -> 0..MaxTime]
        /\ matching' = matching \ runs /\ Written(runs)
      BY <1>6, DropDoes
  <2>2. matching' \subseteq Kept \ runs
      BY <2>1 DEF ListingTypeOK
  <2>3. source = "memory" => Len(kept') <= MaxRuns
      BY <1>a, <1>b, <2>1
  <2> QED  BY <1>6, <2>1, <2>2, <2>3, TypeAfterWrite
<1>7. ASSUME NEW r \in Run, Forget(r) PROVE ListingTypeOK'
  <2>1. misled' \in BOOLEAN /\ high' \in 0..MaxTime /\ deleted' \subseteq Run /\ Drop({r})
      BY <1>a, <1>7 DEF Forget, ListingTypeOK
  <2> QED  BY <1>6, <2>1
<1>8. ASSUME NEW before \in 2..MaxTime, PruneFlows(before) PROVE ListingTypeOK'
  <2>1. /\ misled' \in BOOLEAN /\ high' \in 0..MaxTime /\ deleted' \subseteq Run
        /\ Drop({r \in Kept : observed[r] < before})
      BY <1>8 DEF PruneFlows, ListingTypeOK
  <2> QED  BY <1>6, <2>1
<1>9. ASSUME NEW r \in Run, DeleteFlow(r) PROVE ListingTypeOK'
  <2>1. misled' \in BOOLEAN /\ high' \in 0..MaxTime /\ deleted' \subseteq Run /\ Drop({r})
      BY <1>9 DEF DeleteFlow, ListingTypeOK
  <2> QED  BY <1>6, <2>1
<1>10. ASSUME NEW r \in Run, NEW i \in 1..(Len(kept) + 1), NEW m \in BOOLEAN, AddFlow(r, i, m)
      PROVE  ListingTypeOK'
  <2>1. /\ source = "persistence" /\ r \notin Kept /\ kept' = InsertAt(kept, i, r)
        /\ matching' \subseteq matching \cup {r} /\ Written({r})
        /\ UNCHANGED <<observed, deleted, high, misled>>
      BY <1>10 DEF AddFlow
  <2>2. IsListOf(kept', Kept \cup {r})
      BY <1>b, <2>1, ListInserted
  <2>3. matching' \subseteq Kept \cup {r} /\ observed' \in [Run -> 0..MaxTime]
      BY <2>1 DEF ListingTypeOK
  <2>4. deleted' \subseteq Run /\ misled' \in BOOLEAN /\ high' \in 0..MaxTime
      BY <2>1 DEF ListingTypeOK
  <2> QED  BY <2>1, <2>2, <2>3, <2>4, TypeAfterWrite
<1>11. ASSUME NEW r \in Run, ChangeFlow(r) PROVE ListingTypeOK'
  <2>1. /\ source = "persistence" /\ r \in Kept /\ Written({r})
        /\ matching' \subseteq matching \cup {r} /\ UNCHANGED <<kept, observed, deleted, high, misled>>
      BY <1>11 DEF ChangeFlow
  <2>2. IsListOf(kept', Kept) /\ matching' \subseteq Kept
      BY <1>b, <2>1 DEF ListingTypeOK
  <2>3. deleted' \subseteq Run /\ misled' \in BOOLEAN /\ high' \in 0..MaxTime /\ observed' \in [Run -> 0..MaxTime]
      BY <2>1 DEF ListingTypeOK
  <2> QED  BY <2>1, <2>2, <2>3, TypeAfterWrite
<1>12. ASSUME UNCHANGED listingVars PROVE ListingTypeOK'
  <2>1. UNCHANGED storeVars /\ UNCHANGED walkVars /\ Kept' = Kept
      BY <1>12 DEF listingVars, storeVars, Kept
  <2> QED  BY <2>1 DEF storeVars, walkVars, ListingTypeOK
<1> QED  BY <1>1, <1>2, <1>3, <1>4, <1>5, <1>7, <1>8, <1>9, <1>10, <1>11, <1>12 DEF ListingNext, Write

\* Every variable has its type, and the memory store keeps to max_runs
\* (_evict_if_needed).
THEOREM ListingTypeCorrect == ListingSpec => []ListingTypeOK
BY ListingTypeAtFirst, ListingTypeKept, PTL DEF ListingSpec

-----------------------------------------------------------------------------
(* Pages agree, and eviction keeps the latest.                             *)

\* The keyset query of SQLAlchemyDataSource.list_flows() gives the page that
\* sorting and slicing gives, for every marker both know, whatever the runs.
THEOREM DatasourcesAgree == ListingSpec => []PagesAgree
<1>1. ListingTypeOK => PagesAgree
  <2> SUFFICES ASSUME ListingTypeOK, NEW m \in Candidates \cup {None}
               PROVE  PageByKey(observed, m) = PageByPosition(observed, m)
      BY DEF PagesAgree
  <2>1. Candidates \in SUBSET Run /\ Clock(observed)
      BY Places, Clocks
  <2>2. limit \in Nat \ {0}
      BY ListingAssumption DEF ListingTypeOK
  <2> QED  BY <2>1, <2>2, KeyIsPosition
<1> QED  BY <1>1, ListingTypeCorrect, PTL

\* Once a run was evicted the store stays full, until one is forgotten: an
\* old event does not find room that an eviction has made.
EvictedBefore ==
    source = "memory" => /\ \A r \in Kept : high <= observed[r]
                         /\ high # 0 => Len(kept) = MaxRuns

EvictInv == ListingTypeOK /\ EvictedBefore

LEMMA EvictedBeforeKept == EvictInv /\ [ListingNext]_listingVars => EvictedBefore'
<1> SUFFICES ASSUME EvictInv, [ListingNext]_listingVars PROVE EvictedBefore'
    OBVIOUS
<1>0. /\ ListingTypeOK /\ EvictedBefore /\ ListingTypeOK'
      /\ observed \in [Run -> 0..MaxTime] /\ MaxTime \in Nat /\ high \in 0..MaxTime
      /\ Kept \in SUBSET Run
    BY ListingTypeKept, ListingAssumption, Places DEF EvictInv, ListingTypeOK
<1>1. ASSUME UNCHANGED storeVars PROVE EvictedBefore'
    BY <1>0, <1>1 DEF storeVars, EvictedBefore, Kept
<1>2. ASSUME NEW r \in Run, NEW ts \in 1..MaxTime, NEW m \in BOOLEAN, Apply(r, ts, m)
      PROVE  EvictedBefore'
  <2>1. source' = source
      BY <1>2 DEF Apply, Written
  <2> SUFFICES ASSUME source = "memory"
               PROVE  (\A k \in Kept' : high' <= observed'[k]) /\ (high' # 0 => Len(kept') = MaxRuns)
      BY <2>1 DEF EvictedBefore
  <2>2. (\A k \in Kept : high <= observed[k]) /\ (high # 0 => Len(kept) = MaxRuns)
      BY <1>0 DEF EvictedBefore
  <2>3. CASE Folds(r, ts)
    <3>1. PICK t \in 1..MaxTime :
            /\ ts <= t /\ (r \in Kept => observed[r] <= t)
            /\ IsListOf(kept', Kept \cup {r})
            /\ Len(kept') = IF r \in Kept THEN Len(kept) ELSE Len(kept) + 1
            /\ r \notin Kept => Len(kept) < MaxRuns
            /\ \A k \in Kept \cup {r} : observed'[k] = At(r, t, k)
            /\ high' = high
        BY <2>3 DEF Folds
    <3>2. Kept' = Kept \cup {r}
        BY <3>1 DEF IsListOf, Kept
    <3>3. CASE r \in Kept
      <4>1. ASSUME NEW k \in Kept' PROVE high' <= observed'[k]
        <5>1. k \in Kept /\ observed'[k] = At(r, t, k) /\ high <= observed[k] /\ observed[k] \in Nat
            BY <1>0, <2>2, <3>1, <3>2, <3>3
        <5>2. high \in Nat /\ t \in Nat /\ (k = r => observed[k] <= t)
            BY <1>0, <3>1, <3>3
        <5> QED  BY <3>1, <5>1, <5>2 DEF At
      <4> QED  BY <2>2, <3>1, <3>3, <4>1
    <3>4. CASE r \notin Kept
      <4>1. high' = 0
        <5>1. Len(kept) # MaxRuns
            BY <3>1, <3>4, ListingAssumption, Places
        <5> QED  BY <2>2, <3>1, <5>1
      <4>2. \A k \in Kept' : observed'[k] \in Nat
        <5>1. Kept' \in SUBSET Run
            BY <1>0, <3>2
        <5> QED  BY <1>0, <5>1 DEF ListingTypeOK
      <4> QED  BY <4>1, <4>2
    <3> QED  BY <3>3, <3>4
  <2>4. CASE Evicts(r, ts)
    <3>1. PICK v \in Kept \cup {r} :
            /\ Len(kept') = MaxRuns
            /\ IsListOf(kept', (Kept \cup {r}) \ {v})
            /\ \A k \in Kept \cup {r} : At(r, ts, v) <= At(r, ts, k)
            /\ \A k \in (Kept \cup {r}) \ {v} : observed'[k] = At(r, ts, k)
            /\ high' \in {high, At(r, ts, v)}
            /\ r \notin Kept
        BY <2>4 DEF Evicts
    <3>2. Kept' = (Kept \cup {r}) \ {v}
        BY <3>1 DEF IsListOf, Kept
    <3>3. \A k \in Kept \cup {r} : At(r, ts, k) \in Nat
        BY <1>0 DEF At
    <3>4. ASSUME NEW k \in Kept' PROVE high' <= observed'[k]
      <4>1. k \in Kept \cup {r} /\ observed'[k] = At(r, ts, k) /\ At(r, ts, v) <= At(r, ts, k) /\ k # v
          BY <3>1, <3>2
      <4>2. high <= At(r, ts, k)
        <5>1. CASE k \in Kept
            BY <2>2, <3>1, <5>1 DEF At
        <5>2. CASE k = r
          <6>1. v \in Kept /\ v # r
              BY <4>1, <5>2
          <6>2. high <= At(r, ts, v)
              BY <2>2, <6>1 DEF At
          <6> QED  BY <1>0, <3>1, <3>3, <4>1, <6>2
        <5> QED  BY <4>1, <5>1, <5>2
      <4> QED  BY <3>1, <4>1, <4>2
    <3> QED  BY <3>1, <3>4
  <2> QED  BY <1>0, <1>2, <2>3, <2>4, ApplyDoes
<1>3. ASSUME NEW r \in Run, Forget(r) PROVE EvictedBefore'
  <2>1. high' = 0 /\ Drop({r})
      BY <1>3 DEF Forget
  <2>2. observed' \in [Run -> 0..MaxTime] /\ Kept' \in SUBSET Run
    <3>1. IsListOf(kept', Kept \ {r}) /\ observed' \in [Run -> 0..MaxTime]
        BY <1>0, <2>1, DropDoes
    <3> QED  BY <1>0, <3>1 DEF IsListOf, Kept
  <2>3. \A k \in Kept' : 0 <= observed'[k]
      BY <1>0, <2>2
  <2> QED  BY <2>1, <2>3 DEF EvictedBefore
<1>4. ASSUME source # "memory", source' = source PROVE EvictedBefore'
    BY <1>4 DEF EvictedBefore
<1>5. ASSUME NEW before \in 2..MaxTime, PruneFlows(before) PROVE EvictedBefore'
    BY <1>4, <1>5 DEF PruneFlows, Drop, Written
<1>6. ASSUME NEW r \in Run,
             \/ \E i \in 1..(Len(kept) + 1), m \in BOOLEAN : AddFlow(r, i, m)
             \/ DeleteFlow(r) \/ ChangeFlow(r)
      PROVE  EvictedBefore'
    BY <1>4, <1>6 DEF AddFlow, DeleteFlow, ChangeFlow, Drop, Written
<1>7. ASSUME \/ \E f, follow \in BOOLEAN, n \in 1..MaxLimit : Begin(f, follow, n)
             \/ NextPage \/ Refused \/ Leave
      PROVE  EvictedBefore'
    BY <1>1, <1>7 DEF Begin, NextPage, Refused, Leave
<1>8. CASE UNCHANGED listingVars
  <2>1. UNCHANGED storeVars
      BY <1>8 DEF listingVars
  <2> QED  BY <1>1, <2>1
<1> QED  BY <1>2, <1>3, <1>5, <1>6, <1>7, <1>8 DEF ListingNext, Write

LEMMA EvictAtFirst == ListingInit => EvictInv
<1> SUFFICES ASSUME ListingInit PROVE EvictInv
    OBVIOUS
<1>1. Kept = {} /\ high = 0
    BY DEF ListingInit, Kept, ToSet
<1> QED  BY <1>1, ListingTypeAtFirst DEF EvictInv, EvictedBefore

LEMMA EvictKept == EvictInv /\ [ListingNext]_listingVars => EvictInv'
BY EvictedBeforeKept, ListingTypeKept DEF EvictInv

\* No run that MemoryDataSource has evicted was observed later than one it
\* keeps, since it last forgot one: for any size of the store and any order
\* of events (_evict_if_needed).
THEOREM TheOldestGo == ListingSpec => []KeepsTheLatest
<1>1. EvictInv => KeepsTheLatest
    BY DEF EvictInv, EvictedBefore, KeepsTheLatest
<1> QED  BY <1>1, EvictAtFirst, EvictKept, PTL DEF ListingSpec

-----------------------------------------------------------------------------
(* A walk misses nothing.                                                  *)

\* One scan does not read the same time of day twice: what the theorem about
\* the walk needs of a persistence datasource, and of no other.
Distinct == "persistence" \in Sources => ~ScanTies

\* What the walk has yet to list.
Missing == steady \ ToSet(listed)

\* What it has yet to list passes its filter.
StillAsked == walk = "walking" => steady \subseteq Candidates

NoneMissed == walk = "done" /\ ~misled => Missing = {}

\* It comes after the run that the marker names; and when that run is gone,
\* either it cannot come back (a deleted flow), or nothing is left to list
\* (prune() took it all), or it can only come back where it was or higher:
\* the store is full, so that an older event of it is evicted at once.
AheadOfMarker ==
    walk = "walking" /\ ~misled /\ marker # None =>
        \/ marker \in Kept /\ \A r \in Missing : Before(Times, marker, r)
        \/ /\ marker \notin Kept /\ source = "memory" /\ Len(kept) = MaxRuns
           /\ \A r \in Missing : observed[r] <= high /\ marker < r
        \/ marker \notin Kept /\ source = "sqlalchemy" /\ Missing = {}
        \/ marker \notin Kept /\ source = "persistence" /\ marker \in deleted

WalkInv == EvictInv /\ StillAsked /\ NoneMissed /\ AheadOfMarker

\* Every run that is kept has its place, before a step and after it.
PlacesMatch ==
    /\ IsListOf(kept, Kept) /\ Kept \in SUBSET Run /\ Len(kept) \in Nat
    /\ \A r \in Kept : Place[r] \in 1..Len(kept) /\ kept[Place[r]] = r
    /\ \A i \in 1..Len(kept) : Place[kept[i]] = i

LEMMA PlacesNow == ListingTypeOK => PlacesMatch
BY Places DEF PlacesMatch

LEMMA PlacesNext == ListingTypeOK' => PlacesMatch'
BY PlacesNow, PTL

\* The same of the clock of a listing.
ClockMatches == Candidates \in SUBSET Run /\ \E b \in Nat : Times \in [Run -> 0..b]

LEMMA ClockNow == ListingTypeOK => ClockMatches
BY Places, Clocks DEF ClockMatches, Clock

LEMMA ClockNext == ListingTypeOK' => ClockMatches'
BY ClockNow, PTL

\* The order of a scan survives a flow that goes and one that comes.
LEMMA ScanOrderKept ==
    ASSUME ListingTypeOK, ListingTypeOK',
           NEW a \in Kept, NEW b \in Kept, a \in Kept', b \in Kept',
           Before(Place, a, b),
           \/ kept' = kept
           \/ \E runs : kept' = Without(kept, runs)
           \/ \E r \in Run, i \in 1..(Len(kept) + 1) : r \notin Kept /\ kept' = InsertAt(kept, i, r)
    PROVE  Before(Place', a, b)
<1>1. /\ IsListOf(kept, Kept) /\ Kept \in SUBSET Run /\ Len(kept) \in Nat
      /\ Place[a] \in 1..Len(kept) /\ kept[Place[a]] = a
      /\ Place[b] \in 1..Len(kept) /\ kept[Place[b]] = b
      /\ \A i \in 1..Len(kept) : Place[kept[i]] = i
    BY Places
<1>2. PlacesMatch'
    BY PlacesNext
<1>a. /\ Place'[a] \in 1..Len(kept') /\ kept'[Place'[a]] = a
      /\ Place'[b] \in 1..Len(kept') /\ kept'[Place'[b]] = b
      /\ \A i \in 1..Len(kept') : Place'[kept'[i]] = i
      /\ Len(kept') \in Nat
    BY <1>2 DEF PlacesMatch
<1>3. Place[b] < Place[a] /\ a # b
  <2>1. a \in Nat /\ b \in Nat /\ Place[a] \in Nat /\ Place[b] \in Nat
      BY <1>1, ListingAssumption DEF Run
  <2>2. Place[a] = Place[b] => a = b
      BY <1>1
  <2> QED  BY <2>1, <2>2 DEF Before
<1>4. CASE kept' = kept
  <2>1. Place' = Place
      BY <1>4 DEF Place, Kept
  <2> QED  BY <2>1
<1>5. CASE \E runs : kept' = Without(kept, runs)
  <2>1. PICK runs : kept' = Without(kept, runs)
      BY <1>5
  <2>2. PICK h \in [1..Len(kept') -> 1..Len(kept)] :
          /\ \A i \in 1..Len(kept') : kept'[i] = kept[h[i]]
          /\ \A i, j \in 1..Len(kept') : i < j => h[i] < h[j]
    <3> DEFINE q == Without(kept, runs)
    <3>1. \E h \in [1..Len(q) -> 1..Len(kept)] :
             /\ \A i \in 1..Len(q) : q[i] = kept[h[i]]
             /\ \A i, j \in 1..Len(q) : i < j => h[i] < h[j]
        BY <1>1, ListWithout
    <3> HIDE DEF q
    <3>2. kept' = q
        BY <2>1 DEF q
    <3> QED  BY <3>1, <3>2
  <2>3. h[Place'[a]] = Place[a] /\ h[Place'[b]] = Place[b]
    <3>1. h[Place'[a]] \in 1..Len(kept) /\ h[Place'[b]] \in 1..Len(kept)
        BY <1>a, <2>2
    <3>2. kept[h[Place'[a]]] = a /\ kept[h[Place'[b]]] = b
        BY <1>a, <2>2
    <3> QED  BY <1>1, <3>1, <3>2
  <2>4. ~(Place'[a] < Place'[b]) /\ Place'[a] # Place'[b]
    <3>1. Place[a] \in Nat /\ Place[b] \in Nat
        BY <1>1
    <3> QED  BY <1>3, <1>a, <2>2, <2>3, <3>1
  <2> QED  BY <1>a, <2>4 DEF Before
<1>6. CASE \E r \in Run, i \in 1..(Len(kept) + 1) : r \notin Kept /\ kept' = InsertAt(kept, i, r)
  <2>1. PICK r \in Run, p \in 1..(Len(kept) + 1) : r \notin Kept /\ kept' = InsertAt(kept, p, r)
      BY <1>6
  <2> DEFINE to(k) == IF k < p THEN k ELSE k + 1
  <2>2. \A k \in 1..Len(kept) : kept'[to(k)] = kept[k]
      BY <1>1, <2>1, ListInserted
  <2>3. Len(kept') = Len(kept) + 1
      BY <1>1, <2>1, ListInserted
  <2>4. to(Place[a]) \in 1..Len(kept') /\ to(Place[b]) \in 1..Len(kept') /\ to(Place[b]) < to(Place[a])
      BY <1>1, <1>3, <2>1, <2>3
  <2>5. Place'[a] = to(Place[a]) /\ Place'[b] = to(Place[b])
    <3>1. kept'[to(Place[a])] = a /\ kept'[to(Place[b])] = b
        BY <1>1, <2>2
    <3> HIDE DEF to
    <3> QED  BY <1>a, <2>4, <3>1
  <2> HIDE DEF to
  <2> QED  BY <1>a, <2>4, <2>5 DEF Before
<1> QED  BY <1>4, <1>5, <1>6

\* A write leaves a walk as it is, but for what it writes to.
LEMMA WalkAfterWrite ==
    ASSUME WalkInv, NEW runs, Written(runs)
    PROVE  /\ walk' = walk /\ marker' = marker /\ source' = source /\ filtered' = filtered
           /\ walk' # "done" /\ NoneMissed'
           /\ Missing' = Missing \ runs /\ steady' = steady \ runs /\ steady \subseteq Kept
           /\ Missing \subseteq Kept
<1>1. /\ walk' = walk /\ marker' = marker /\ source' = source /\ filtered' = filtered
      /\ listed' = listed /\ walk \in {"idle", "walking"} /\ steady' = steady \ runs
    BY WrittenTypes DEF WalkInv, EvictInv
<1>2. steady \subseteq Kept
    BY DEF WalkInv, EvictInv, ListingTypeOK
<1>3. Missing' = Missing \ runs /\ Missing \subseteq Kept
    BY <1>1, <1>2 DEF Missing
<1> QED  BY <1>1, <1>2, <1>3 DEF NoneMissed

\* Nothing that a write leaves alone drops out of the filter.
LEMMA StillAskedKept ==
    ASSUME WalkInv, NEW runs, Written(runs), Kept \ runs \subseteq Kept',
           matching \ runs \subseteq matching'
    PROVE  StillAsked'
<1>1. /\ walk' = walk /\ filtered' = filtered /\ steady' = steady \ runs
    BY WalkAfterWrite
<1>2. walk = "walking" => steady \subseteq Candidates
    BY DEF WalkInv, StillAsked
<1>3. walk = "walking" => steady' \subseteq Candidates'
  <2> SUFFICES ASSUME walk = "walking", NEW r \in steady' PROVE r \in Candidates'
      OBVIOUS
  <2>1. r \in Candidates /\ r \notin runs
      BY <1>1, <1>2
  <2> QED  BY <1>1, <2>1 DEF Candidates
<1> QED  BY <1>1, <1>3 DEF StillAsked

\* An event of a run in the memory store or in the database.
LEMMA ApplyAhead ==
    ASSUME WalkInv, NEW r \in Run, NEW ts \in 1..MaxTime, NEW m \in BOOLEAN, Apply(r, ts, m)
    PROVE  StillAsked' /\ AheadOfMarker'
<1>0. /\ ListingTypeOK /\ EvictedBefore /\ StillAsked /\ AheadOfMarker
      /\ observed \in [Run -> 0..MaxTime] /\ MaxTime \in Nat /\ high \in 0..MaxTime
      /\ Kept \in SUBSET Run /\ ts \in Nat
      /\ \A a \in Run : a \in Nat
      /\ source \in {"memory", "sqlalchemy"}
  <2>1. ListingTypeOK /\ EvictedBefore /\ StillAsked /\ AheadOfMarker
      BY DEF WalkInv, EvictInv
  <2>2. /\ observed \in [Run -> 0..MaxTime] /\ MaxTime \in Nat /\ high \in 0..MaxTime
        /\ ts \in Nat /\ \A a \in Run : a \in Nat
      BY <2>1, ListingAssumption DEF ListingTypeOK, Run
  <2>3. Kept \in SUBSET Run
      BY <2>1, Places
  <2>4. source \in {"memory", "sqlalchemy"}
      BY DEF Apply
  <2> QED  BY <2>1, <2>2, <2>3, <2>4
<1>1. PICK runs : Written(runs)
    BY DEF Apply
<1>2. /\ walk' = walk /\ marker' = marker /\ source' = source /\ filtered' = filtered
      /\ Missing' = Missing \ runs /\ Missing \subseteq Kept /\ steady' = steady \ runs
      /\ misled' = misled
    BY <1>1, WalkAfterWrite DEF Apply
<1>3. Times = observed /\ Times' = observed'
    BY <1>0, <1>2 DEF Times
<1>c. listed' = listed
    BY <1>1 DEF Written
<1>4. CASE Folds(r, ts)
  <2>1. PICK t \in 1..MaxTime :
          /\ ts <= t /\ (r \in Kept => observed[r] <= t) /\ (r \notin Kept => t = ts)
          /\ IsListOf(kept', Kept \cup {r})
          /\ Len(kept') = IF r \in Kept THEN Len(kept) ELSE Len(kept) + 1
          /\ r \notin Kept /\ source = "memory" => Len(kept) < MaxRuns
          /\ \A k \in Kept \cup {r} : observed'[k] = At(r, t, k)
          /\ high' = high /\ steady' = steady \ {r} /\ matching \ {r} \subseteq matching'
      BY <1>4 DEF Folds
  <2>2. Kept' = Kept \cup {r}
      BY <2>1 DEF IsListOf, Kept
  <2>3. Missing' = Missing \ {r}
      BY <1>c, <2>1 DEF Missing
  <2>4. StillAsked'
    <3> SUFFICES ASSUME walk = "walking", NEW s \in steady' PROVE s \in Candidates'
        BY <1>2 DEF StillAsked
    <3>1. s \in Candidates /\ s # r
        BY <1>0, <2>1 DEF StillAsked
    <3> QED  BY <1>2, <2>1, <2>2, <3>1 DEF Candidates
  <2>5. AheadOfMarker'
    <3> SUFFICES ASSUME walk = "walking", ~misled, marker # None PROVE AheadOfMarker'
        BY <1>2 DEF AheadOfMarker
    <3>1. ASSUME NEW s \in Missing', NEW k \in Kept, k # s, Before(observed, k, s)
          PROVE  Before(observed', k, s)
      <4>1. s \in Kept /\ s # r /\ observed'[s] = observed[s] /\ observed[s] \in Nat
          BY <1>0, <1>2, <2>1, <2>3 DEF At
      <4>2. observed'[k] >= observed[k] /\ observed[k] \in Nat /\ observed'[k] \in Nat
          BY <1>0, <2>1 DEF At
      <4> QED  BY <1>0, <3>1, <4>1, <4>2 DEF Before
    <3>2. CASE marker \in Kept /\ \A s \in Missing : Before(observed, marker, s)
      <4>1. marker \in Kept'
          BY <2>2, <3>2
      <4>2. \A s \in Missing' : s # marker
        <5>1. ~Before(observed, marker, marker)
            BY <1>0, <3>2 DEF Before
        <5> QED  BY <2>3, <3>2, <5>1
      <4>3. \A s \in Missing' : Before(Times', marker', s)
          BY <1>2, <1>3, <2>3, <3>1, <3>2, <4>2
      <4> QED  BY <1>2, <4>1, <4>3 DEF AheadOfMarker
    <3>3. CASE /\ marker \notin Kept /\ source = "memory" /\ Len(kept) = MaxRuns
               /\ \A s \in Missing : observed[s] <= high /\ marker < s
      <4>1. r \in Kept
          BY <2>1, <3>3, ListingAssumption
      <4>2. marker \notin Kept' /\ Len(kept') = MaxRuns
          BY <2>1, <2>2, <3>3, <4>1
      <4>3. \A s \in Missing' : observed'[s] <= high' /\ marker' < s
          BY <1>2, <2>1, <2>3, <3>3 DEF At
      <4> QED  BY <1>2, <3>3, <4>2, <4>3 DEF AheadOfMarker
    <3>4. CASE marker \notin Kept /\ source = "sqlalchemy" /\ Missing = {}
        BY <1>2, <2>3, <3>4 DEF AheadOfMarker
    <3> QED  BY <1>0, <1>3, <3>2, <3>3, <3>4 DEF AheadOfMarker
  <2> QED  BY <2>4, <2>5
<1>5. CASE Evicts(r, ts)
  <2>1. PICK v \in Kept \cup {r} :
          /\ source = "memory" /\ r \notin Kept
          /\ Len(kept) = MaxRuns /\ Len(kept') = MaxRuns
          /\ IsListOf(kept', (Kept \cup {r}) \ {v})
          /\ \A k \in Kept \cup {r} : At(r, ts, v) <= At(r, ts, k)
          /\ \A k \in (Kept \cup {r}) \ {v} : observed'[k] = At(r, ts, k)
          /\ high' \in {high, At(r, ts, v)} /\ high <= high' /\ At(r, ts, v) <= high'
          /\ steady' = steady \ {r, v} /\ matching \ {r, v} \subseteq matching'
      BY <1>5 DEF Evicts
  <2>2. Kept' = (Kept \cup {r}) \ {v}
      BY <2>1 DEF IsListOf, Kept
  <2>3. Missing' = Missing \ {r, v}
      BY <1>c, <2>1 DEF Missing
  <2>4. StillAsked'
    <3> SUFFICES ASSUME walk = "walking", NEW s \in steady' PROVE s \in Candidates'
        BY <1>2 DEF StillAsked
    <3>1. s \in Candidates /\ s \notin {r, v}
        BY <1>0, <2>1 DEF StillAsked
    <3> QED  BY <1>2, <2>1, <2>2, <3>1 DEF Candidates
  <2>5. /\ \A k \in Kept \cup {r} : At(r, ts, k) \in Nat
        /\ high' \in Nat /\ high \in Nat
        /\ \A k \in Kept : high <= observed[k] /\ At(r, ts, k) = observed[k]
      BY <1>0, <2>1 DEF EvictedBefore, At
  <2>6. \A s \in Missing' : /\ s \in Kept /\ s \in Kept' /\ s # r /\ s # v
                            /\ observed'[s] = observed[s] /\ observed[s] \in Nat
      BY <1>0, <1>2, <2>1, <2>2, <2>3 DEF At
  <2>7. AheadOfMarker'
    <3> SUFFICES ASSUME walk = "walking", ~misled, marker # None PROVE AheadOfMarker'
        BY <1>2 DEF AheadOfMarker
    <3>1. marker \in Run
        BY <1>0 DEF ListingTypeOK
    <3>2. CASE marker \in Kept /\ \A s \in Missing : Before(observed, marker, s)
      <4>1. CASE marker # v
        <5>1. marker \in Kept' /\ observed'[marker] = observed[marker]
            BY <2>1, <2>2, <3>2, <4>1 DEF At
        <5>2. \A s \in Missing' : Before(observed', marker, s)
            BY <2>3, <2>6, <3>2, <5>1 DEF Before
        <5> QED  BY <1>2, <1>3, <5>1, <5>2 DEF AheadOfMarker
      <4>2. CASE marker = v
        <5>1. marker \notin Kept'
            BY <2>2, <4>2
        <5>2. ASSUME NEW s \in Missing' PROVE observed'[s] <= high' /\ marker < s
          <6>1. Before(observed, v, s)
              BY <2>3, <3>2, <4>2
          <6>2. observed[v] <= observed[s] /\ observed[v] <= high'
              BY <2>1, <2>5, <2>6, <3>2, <4>2
          <6>3. observed[v] \in Nat /\ v \in Nat /\ s \in Nat
              BY <1>0, <2>6, <3>2, <4>2
          <6>4. observed[v] = observed[s] /\ v < s
              BY <2>6, <6>1, <6>2, <6>3 DEF Before
          <6> QED  BY <2>5, <2>6, <4>2, <6>2, <6>4
        <5> QED  BY <1>2, <2>1, <5>1, <5>2 DEF AheadOfMarker
      <4> QED  BY <4>1, <4>2
    <3>3. CASE /\ marker \notin Kept
               /\ \A s \in Missing : observed[s] <= high /\ marker < s
      <4>1. CASE marker \notin Kept'
        <5>1. \A s \in Missing' : observed'[s] <= high' /\ marker' < s
            BY <1>2, <2>1, <2>3, <2>5, <2>6, <3>3
        <5> QED  BY <1>2, <2>1, <4>1, <5>1 DEF AheadOfMarker
      \* It came back, so that another one had to go.
      <4>2. CASE marker \in Kept'
        <5>1. marker = r /\ v \in Kept /\ v # r
            BY <2>1, <2>2, <3>3, <4>2
        <5>2. observed'[r] = ts /\ At(r, ts, r) = ts
            BY <2>1, <5>1 DEF At
        <5>3. high <= ts
            BY <1>0, <2>1, <2>5, <5>1, <5>2
        <5>4. ASSUME NEW s \in Missing' PROVE Before(observed', r, s)
          <6>1. observed[s] <= high /\ r < s /\ observed'[s] = observed[s] /\ observed[s] \in Nat
              BY <2>3, <2>6, <3>3, <5>1
          <6> QED  BY <1>0, <5>2, <5>3, <6>1 DEF Before
        <5> QED  BY <1>2, <1>3, <4>2, <5>1, <5>4 DEF AheadOfMarker
      <4> QED  BY <4>1, <4>2
    <3> QED  BY <1>0, <1>3, <2>1, <3>2, <3>3 DEF AheadOfMarker
  <2> QED  BY <2>4, <2>7
<1> QED  BY <1>0, <1>4, <1>5, ApplyDoes

\* A run that is forgotten, pruned or deleted.
LEMMA DropAhead ==
    ASSUME WalkInv,
           \/ \E r \in Run : Forget(r) \/ DeleteFlow(r)
           \/ \E before \in 2..MaxTime : PruneFlows(before)
    PROVE  StillAsked' /\ AheadOfMarker'
<1>0. /\ ListingTypeOK /\ EvictedBefore /\ StillAsked /\ AheadOfMarker
    BY DEF WalkInv, EvictInv
<1>a. /\ Kept \in SUBSET Run /\ matching \subseteq Kept
      /\ observed \in [Run -> 0..MaxTime] /\ MaxTime \in Nat /\ marker \in Run \cup {None}
    BY <1>0, Places, ListingAssumption DEF ListingTypeOK
<1>b. ListingTypeOK'
  <2>1. ListingNext
      BY DEF ListingNext, Write
  <2> QED  BY <1>0, <2>1, ListingTypeKept
<1>1. ASSUME NEW runs, Drop(runs)
      PROVE  /\ walk' = walk /\ marker' = marker /\ source' = source /\ Written(runs)
             /\ Kept' = Kept \ runs /\ Missing' = Missing \ runs /\ Missing \subseteq Kept
             /\ \A r \in Run \ runs : observed'[r] = observed[r]
             /\ kept' = Without(kept, runs)
             /\ StillAsked'
  <2>1. /\ IsListOf(kept', Kept \ runs) /\ Written(runs) /\ matching' = matching \ runs
        /\ \A r \in Run \ runs : observed'[r] = observed[r]
      BY <1>0, <1>1, DropDoes
  <2>2. Kept' = Kept \ runs
      BY <2>1 DEF IsListOf, Kept
  <2>3. StillAsked'
      BY <2>1, <2>2, StillAskedKept
  <2>4. kept' = Without(kept, runs)
      BY <1>1 DEF Drop
  <2> QED  BY <2>1, <2>2, <2>3, <2>4, WalkAfterWrite
\* Where the marker's run stays, what is left of the rest is in its order.
<1>2. ASSUME NEW runs, Drop(runs), walk = "walking", misled' = misled,
             marker \in Kept, marker \notin runs, \A s \in Missing : Before(Times, marker, s)
      PROVE  AheadOfMarker'
  <2>1. /\ walk' = walk /\ marker' = marker /\ source' = source
        /\ Kept' = Kept \ runs /\ Missing' = Missing \ runs /\ Missing \subseteq Kept
        /\ \A r \in Run \ runs : observed'[r] = observed[r]
        /\ kept' = Without(kept, runs)
      BY <1>1, <1>2
  <2>2. ASSUME NEW s \in Missing' PROVE Before(Times', marker, s)
    <3>1. s \in Kept /\ s \notin runs /\ s \in Kept' /\ marker \in Kept' /\ Before(Times, marker, s)
        BY <1>2, <2>1
    <3>2. CASE source = "persistence"
      <4>1. Before(Place, marker, s) /\ Times' = Place'
          BY <2>1, <3>1, <3>2 DEF Times
      <4>2. Before(Place', marker, s)
          BY <1>0, <1>b, <1>2, <2>1, <3>1, <4>1, ScanOrderKept
      <4> QED  BY <4>1, <4>2
    <3>3. CASE source # "persistence"
      <4>1. Before(observed, marker, s) /\ Times' = observed'
          BY <2>1, <3>1, <3>3 DEF Times
      <4>2. observed'[marker] = observed[marker] /\ observed'[s] = observed[s]
          BY <1>a, <1>2, <2>1, <3>1
      <4> QED  BY <4>1, <4>2 DEF Before
    <3> QED  BY <3>2, <3>3
  <2> QED  BY <1>2, <2>1, <2>2 DEF AheadOfMarker
<1>3. ASSUME NEW r \in Run, Forget(r) PROVE StillAsked' /\ AheadOfMarker'
  <2>1. /\ Drop({r}) /\ source \in {"memory", "sqlalchemy"}
        /\ misled' = (misled \/ marker = r \/ (source = "memory" /\ marker \in Run \ Kept))
      BY <1>3 DEF Forget
  <2>2. /\ walk' = walk /\ marker' = marker /\ source' = source
        /\ Kept' = Kept \ {r} /\ Missing' = Missing \ {r} /\ StillAsked'
      BY <1>1, <2>1
  <2> SUFFICES ASSUME walk = "walking", ~misled', marker # None PROVE AheadOfMarker'
      BY <2>2 DEF AheadOfMarker
  <2>3. ~misled /\ marker # r /\ ~(source = "memory" /\ marker \notin Kept)
      BY <1>a, <2>1
  <2>a. misled' = misled
    <3>1. misled \in BOOLEAN /\ misled' \in BOOLEAN
        BY <1>0, <1>b DEF ListingTypeOK
    <3> QED  BY <2>3, <3>1
  <2>4. CASE marker \in Kept /\ \A s \in Missing : Before(Times, marker, s)
      BY <1>2, <2>1, <2>3, <2>a, <2>4
  <2>5. CASE marker \notin Kept /\ source = "sqlalchemy" /\ Missing = {}
      BY <2>2, <2>5 DEF AheadOfMarker
  <2> QED  BY <1>0, <2>1, <2>3, <2>4, <2>5 DEF AheadOfMarker
<1>4. ASSUME NEW before \in 2..MaxTime, PruneFlows(before) PROVE StillAsked' /\ AheadOfMarker'
  <2> DEFINE stale == {r \in Kept : observed[r] < before}
  <2>1. source = "sqlalchemy" /\ Drop(stale) /\ misled' = misled
      BY <1>4 DEF PruneFlows
  <2>2. /\ walk' = walk /\ marker' = marker /\ source' = source /\ Missing \subseteq Kept
        /\ Kept' = Kept \ stale /\ Missing' = Missing \ stale /\ StillAsked'
      BY <1>1, <2>1
  <2> SUFFICES ASSUME walk = "walking", ~misled, marker # None PROVE AheadOfMarker'
      BY <2>1, <2>2 DEF AheadOfMarker
  <2>3. CASE marker \in Kept /\ \A s \in Missing : Before(Times, marker, s)
    <3>1. CASE marker \notin stale
        BY <1>2, <2>1, <2>3, <3>1
    <3>2. CASE marker \in stale
      <4>1. ASSUME NEW s \in Missing PROVE s \in stale
        <5>1. Before(observed, marker, s) /\ s \in Kept
            BY <2>1, <2>2, <2>3 DEF Times
        <5>2. observed[s] \in Nat /\ observed[marker] \in Nat /\ observed[marker] < before
            BY <1>a, <2>3, <3>2, <5>1
        <5>3. before \in Nat /\ observed[s] < before
            BY <1>a, <5>1, <5>2 DEF Before
        <5> QED  BY <5>1, <5>3
      <4>2. Missing' = {} /\ marker \notin Kept'
          BY <2>2, <3>2, <4>1
      <4> QED  BY <2>1, <2>2, <4>2 DEF AheadOfMarker
    <3> QED  BY <3>1, <3>2
  <2>4. CASE marker \notin Kept /\ Missing = {}
      BY <2>1, <2>2, <2>4 DEF AheadOfMarker
  <2> QED  BY <1>0, <2>1, <2>2, <2>3, <2>4 DEF AheadOfMarker
<1>5. ASSUME NEW r \in Run, DeleteFlow(r) PROVE StillAsked' /\ AheadOfMarker'
  <2>1. source = "persistence" /\ Drop({r}) /\ misled' = misled /\ deleted' = deleted \cup {r}
      BY <1>5 DEF DeleteFlow
  <2>2. /\ walk' = walk /\ marker' = marker /\ source' = source
        /\ Kept' = Kept \ {r} /\ Missing' = Missing \ {r} /\ StillAsked'
      BY <1>1, <2>1
  <2> SUFFICES ASSUME walk = "walking", ~misled, marker # None PROVE AheadOfMarker'
      BY <2>1, <2>2 DEF AheadOfMarker
  <2>3. CASE marker = r
    <3>1. marker' \notin Kept' /\ marker' \in deleted'
        BY <2>1, <2>2, <2>3
    <3> QED  BY <2>1, <2>2, <3>1 DEF AheadOfMarker
  <2>4. CASE marker # r
    <3>1. CASE marker \in Kept /\ \A s \in Missing : Before(Times, marker, s)
        BY <1>2, <2>1, <2>4, <3>1
    <3>2. CASE marker \notin Kept /\ marker \in deleted
        BY <2>1, <2>2, <3>2 DEF AheadOfMarker
    <3> QED  BY <1>0, <2>1, <3>1, <3>2 DEF AheadOfMarker
  <2> QED  BY <2>3, <2>4
<1> QED  BY <1>3, <1>4, <1>5

\* A flow that is added to a logbook, and one whose state changes.
LEMMA FlowsAhead ==
    ASSUME WalkInv, NEW r \in Run,
           \/ \E i \in 1..(Len(kept) + 1), m \in BOOLEAN : AddFlow(r, i, m)
           \/ ChangeFlow(r)
    PROVE  StillAsked' /\ AheadOfMarker'
<1>0. /\ ListingTypeOK /\ AheadOfMarker
    BY DEF WalkInv, EvictInv
<1>a. ListingTypeOK'
  <2>1. ListingNext
      BY DEF ListingNext, Write
  <2> QED  BY <1>0, <2>1, ListingTypeKept
<1>1. /\ Written({r}) /\ source = "persistence" /\ misled' = misled /\ deleted' = deleted
      /\ matching \ {r} \subseteq matching'
    BY DEF AddFlow, ChangeFlow
<1>2. /\ Kept \subseteq Kept' /\ Kept' \subseteq Kept \cup {r}
      /\ r \in deleted => Kept' = Kept
      /\ \/ kept' = kept
         \/ \E s \in Run, i \in 1..(Len(kept) + 1) : s \notin Kept /\ kept' = InsertAt(kept, i, s)
  <2>1. ASSUME NEW i \in 1..(Len(kept) + 1), NEW m \in BOOLEAN, AddFlow(r, i, m)
        PROVE  /\ r \notin Kept /\ r \notin deleted /\ kept' = InsertAt(kept, i, r)
               /\ Kept' = Kept \cup {r}
    <3>1. r \notin Kept /\ r \notin deleted /\ kept' = InsertAt(kept, i, r)
        BY <2>1 DEF AddFlow
    <3>2. IsListOf(kept', Kept \cup {r})
        BY <1>0, <3>1, Places, ListInserted
    <3> QED  BY <3>1, <3>2 DEF IsListOf, Kept
  <2>2. ASSUME ChangeFlow(r) PROVE kept' = kept /\ Kept' = Kept
      BY <2>2 DEF ChangeFlow, Kept
  <2> QED  BY <2>1, <2>2
<1>3. StillAsked'
    BY <1>1, <1>2, StillAskedKept
<1>4. /\ walk' = walk /\ marker' = marker /\ source' = source
      /\ Missing' = Missing \ {r} /\ Missing \subseteq Kept
    BY <1>1, WalkAfterWrite
<1>5. AheadOfMarker'
  <2> SUFFICES ASSUME walk = "walking", ~misled, marker # None PROVE AheadOfMarker'
      BY <1>1, <1>4 DEF AheadOfMarker
  <2>1. CASE marker \in Kept /\ \A s \in Missing : Before(Times, marker, s)
    <3>1. ASSUME NEW s \in Missing' PROVE Before(Times', marker, s)
      <4>1. Before(Place, marker, s) /\ Times' = Place' /\ s \in Kept /\ s \in Kept' /\ marker \in Kept'
          BY <1>1, <1>2, <1>4, <2>1 DEF Times
      <4>2. Before(Place', marker, s)
          BY <1>0, <1>a, <1>2, <2>1, <4>1, ScanOrderKept
      <4> QED  BY <4>1, <4>2
    <3> QED  BY <1>2, <1>4, <2>1, <3>1 DEF AheadOfMarker
  <2>2. CASE marker \notin Kept /\ marker \in deleted
    <3>1. marker \notin Kept'
        BY <1>2, <2>2
    <3> QED  BY <1>1, <1>4, <2>2, <3>1 DEF AheadOfMarker
  <2> QED  BY <1>0, <1>1, <2>1, <2>2 DEF AheadOfMarker
<1> QED  BY <1>3, <1>5

\* One page.
LEMMA PageAhead ==
    ASSUME Distinct, WalkInv, NextPage
    PROVE  StillAsked' /\ NoneMissed' /\ AheadOfMarker'
<1>0. ListingTypeOK /\ StillAsked /\ AheadOfMarker /\ walk = "walking" /\ Known(marker)
    BY DEF WalkInv, EvictInv, NextPage
<1>a. /\ Kept \in SUBSET Run /\ Candidates \in SUBSET Run /\ limit \in Nat \ {0}
      /\ ~(source = "persistence" /\ ScanTies)
    BY <1>0, Places, ListingAssumption DEF ListingTypeOK, Distinct
<1>1. /\ kept' = kept /\ observed' = observed /\ source' = source /\ matching' = matching
      /\ Kept' = Kept /\ Times' = Times /\ steady' = steady /\ misled' = misled /\ deleted' = deleted
  <2>1. UNCHANGED storeVars /\ steady' = steady /\ misled' = misled
      BY DEF NextPage
  <2>2. kept' = kept /\ observed' = observed /\ source' = source
      BY <2>1 DEF storeVars
  <2>3. Kept' = Kept
      BY <2>2 DEF Kept
  <2>4. Place' = Place
      BY <2>2, <2>3 DEF Place
  <2>5. Times' = Times
      BY <2>2, <2>4 DEF Times
  <2> QED  BY <2>1, <2>2, <2>3, <2>5 DEF storeVars
<1>2. PICK page \in Pages(marker) :
          /\ listed' = listed \o page.items
          /\ IF page.more
             THEN marker' = Last(page.items) /\ UNCHANGED walk
             ELSE marker' = None /\ walk' = "done"
    BY DEF NextPage
<1>3. Clock(Times) /\ page = PageByKey(Times, marker)
    BY <1>0, <1>a, PageRead
<1> DEFINE S == AfterKey(Times, marker)
<1>4. /\ page.items \in Seq(Run) /\ ToSet(page.items) \subseteq S
      /\ ~page.more => S \subseteq ToSet(page.items)
      /\ page.more => /\ Last(page.items) \in S
                      /\ \A r \in S \ ToSet(page.items) : Before(Times, Last(page.items), r)
    BY <1>a, <1>3, PageAfterKey
<1>5. S \subseteq Candidates
    BY DEF AfterKey
<1>6. StillAsked'
  <2>1. steady \subseteq Candidates /\ steady \subseteq Kept
      BY <1>0 DEF StillAsked, ListingTypeOK
  <2>2. filtered' = filtered \/ filtered' = FALSE
      BY DEF NextPage, NextRequest
  <2>3. Candidates' = Candidates \/ Candidates' = Kept
      BY <1>1, <2>2 DEF Candidates
  <2> QED  BY <1>1, <2>1, <2>3 DEF StillAsked
<1>7. ~misled => Missing \subseteq S
  <2> SUFFICES ASSUME ~misled, NEW r \in Missing PROVE r \in S
      OBVIOUS
  <2>1. r \in Candidates
      BY <1>0 DEF Missing, StillAsked
  <2>2. marker = None \/ Before(Times, marker, r)
    <3> SUFFICES ASSUME marker # None PROVE Before(Times, marker, r)
        OBVIOUS
    <3>1. marker \in Kept
        BY <1>0, ListingAssumption DEF Known, KnownByKey, KnownByPosition, Candidates, ListingTypeOK
    <3> QED  BY <1>0, <3>1 DEF AheadOfMarker
  <2> QED  BY <2>1, <2>2 DEF AfterKey
<1>8. Missing' = Missing \ ToSet(page.items)
  <2>1. ToSet(listed') = ToSet(listed) \cup ToSet(page.items)
    <3>1. listed \in Seq(Run)
        BY <1>0 DEF ListingTypeOK
    <3> DEFINE items == page.items
    <3>2. items \in Seq(Run)
        BY <1>4
    <3> HIDE DEF items
    <3>3. ToSet(listed \o items) = ToSet(listed) \cup ToSet(items)
        BY <3>1, <3>2, RangeOfConcat
    <3> QED  BY <1>2, <3>3 DEF items
  <2> QED  BY <1>1, <2>1 DEF Missing
<1> HIDE DEF S
<1>9. CASE page.more
  <2>1. walk' = "walking" /\ marker' = Last(page.items) /\ marker' \in Kept'
      BY <1>0, <1>1, <1>2, <1>4, <1>5, <1>9 DEF Candidates
  <2>2. ~misled => \A r \in Missing' : Before(Times', marker', r)
      BY <1>1, <1>4, <1>7, <1>8, <1>9, <2>1
  <2> QED  BY <1>1, <1>6, <2>1, <2>2 DEF NoneMissed, AheadOfMarker
<1>10. CASE ~page.more
  <2>1. walk' = "done"
      BY <1>2, <1>10
  <2>2. ~misled => Missing' = {}
      BY <1>4, <1>7, <1>8, <1>10
  <2> QED  BY <1>1, <1>6, <2>1, <2>2 DEF NoneMissed, AheadOfMarker
<1> QED  BY <1>9, <1>10

LEMMA WalkKept == Distinct /\ WalkInv /\ [ListingNext]_listingVars => WalkInv'
<1> SUFFICES ASSUME Distinct, WalkInv, [ListingNext]_listingVars PROVE WalkInv'
    OBVIOUS
<1>0. EvictInv' /\ ListingTypeOK
    BY EvictKept DEF WalkInv, EvictInv
<1> SUFFICES StillAsked' /\ NoneMissed' /\ AheadOfMarker'
    BY <1>0 DEF WalkInv
<1>1. ASSUME NEW f \in BOOLEAN, NEW follow \in BOOLEAN, NEW n \in 1..MaxLimit, Begin(f, follow, n)
      PROVE  StillAsked' /\ NoneMissed' /\ AheadOfMarker'
  <2>1. /\ walk' = "walking" /\ marker' = None /\ filtered' = f /\ UNCHANGED storeVars
        /\ steady' = IF f THEN Kept \cap matching ELSE Kept
      BY <1>1 DEF Begin
  <2>2. Kept' = Kept /\ matching' = matching
      BY <2>1 DEF storeVars, Kept
  <2>3. steady' = Candidates'
      BY <2>1, <2>2 DEF Candidates
  <2> QED  BY <2>1, <2>3 DEF StillAsked, NoneMissed, AheadOfMarker
<1>2. ASSUME NextPage PROVE StillAsked' /\ NoneMissed' /\ AheadOfMarker'
    BY <1>2, PageAhead
<1>3. ASSUME Refused \/ Leave PROVE StillAsked' /\ NoneMissed' /\ AheadOfMarker'
    BY <1>3 DEF Refused, Leave, StillAsked, NoneMissed, AheadOfMarker
<1>4. ASSUME Write \/ \E before \in 2..MaxTime : PruneFlows(before)
      PROVE  NoneMissed'
  <2>1. \E runs : Written(runs)
      BY <1>4 DEF Write, Apply, Forget, AddFlow, DeleteFlow, ChangeFlow, PruneFlows, Drop
  <2> QED  BY <2>1, WalkAfterWrite
<1>5. ASSUME Write \/ \E before \in 2..MaxTime : PruneFlows(before)
      PROVE  StillAsked' /\ AheadOfMarker'
  <2>1. CASE \E r \in Run, ts \in 1..MaxTime, m \in BOOLEAN : Apply(r, ts, m)
      BY <2>1, ApplyAhead
  <2>2. CASE \/ \E r \in Run : Forget(r) \/ DeleteFlow(r)
             \/ \E before \in 2..MaxTime : PruneFlows(before)
      BY <2>2, DropAhead
  <2>3. CASE \E r \in Run : \/ \E i \in 1..(Len(kept) + 1), m \in BOOLEAN : AddFlow(r, i, m)
                            \/ ChangeFlow(r)
      BY <2>3, FlowsAhead
  <2> QED  BY <1>5, <2>1, <2>2, <2>3 DEF Write
<1>6. CASE UNCHANGED listingVars
  <2>1. UNCHANGED storeVars /\ UNCHANGED walkVars
      BY <1>6 DEF listingVars
  <2>2. Kept' = Kept /\ Missing' = Missing
      BY <2>1 DEF storeVars, walkVars, Kept, Missing
  <2>3. Candidates' = Candidates /\ Times' = Times
      BY <2>1, <2>2 DEF storeVars, walkVars, Candidates, Times, Place
  <2>4. StillAsked /\ NoneMissed /\ AheadOfMarker
      BY DEF WalkInv
  <2> QED  BY <2>1, <2>2, <2>3, <2>4 DEF StillAsked, NoneMissed, AheadOfMarker, storeVars, walkVars
<1> QED  BY <1>1, <1>2, <1>3, <1>4, <1>5, <1>6 DEF ListingNext

LEMMA WalkAtFirst == ListingInit => WalkInv
<1> SUFFICES ASSUME ListingInit PROVE WalkInv
    OBVIOUS
<1>1. walk = "idle"
    BY DEF ListingInit
<1> QED  BY <1>1, EvictAtFirst DEF WalkInv, StillAsked, NoneMissed, AheadOfMarker

\* While nothing is written, the pages of a client that repeats its query
\* add up to the listing, from its start to where the marker stands.
UpTo(list, k) == k <= Len(list) /\ \A i \in 1..k : listed[i] = list[i]

InOrder ==
    walk \in {"walking", "done"} /\ writes = 0 /\ ~byLink =>
        /\ UpTo(Listing(Times), Len(listed))
        /\ walk = "done" => Len(listed) = Len(Listing(Times))
        /\ walk = "walking" => IF marker = None THEN Len(listed) = 0
                               ELSE Len(listed) # 0 /\ marker = listed[Len(listed)]

LEMMA ListingIs ==
    ASSUME ListingTypeOK
    PROVE  /\ OrderedBy(Listing(Times), Candidates, Times)
           /\ Listing(Times) \in Seq(Candidates) /\ Len(Listing(Times)) = Cardinality(Candidates)
           /\ Len(Listing(Times)) \in Nat /\ DOMAIN Listing(Times) = 1..Len(Listing(Times))
           /\ \A i, j \in 1..Len(Listing(Times)) : Listing(Times)[i] = Listing(Times)[j] => i = j
           /\ \A r \in Candidates : \E i \in 1..Len(Listing(Times)) : Listing(Times)[i] = r
           /\ Candidates \in SUBSET Run /\ Clock(Times)
<1>1. Candidates \in SUBSET Run /\ Clock(Times)
    BY Places, Clocks
<1>2. OrderedBy(Listing(Times), Candidates, Times)
    BY <1>1, OrderedOrders DEF Listing
<1>3. /\ Listing(Times) \in Seq(Candidates) /\ Len(Listing(Times)) = Cardinality(Candidates)
      /\ Len(Listing(Times)) \in Nat /\ DOMAIN Listing(Times) = 1..Cardinality(Candidates)
    BY <1>1, OrderIsSeq DEF Listing
<1>4. /\ \A i, j \in 1..Cardinality(Candidates) : Listing(Times)[i] = Listing(Times)[j] => i = j
      /\ \A x \in Candidates : \E i \in 1..Cardinality(Candidates) : Listing(Times)[i] = x
    BY <1>1, <1>2, OrderCovers
<1> QED  BY <1>1, <1>2, <1>3, <1>4

\* The next page goes on where the last one ended.
LEMMA PageGoesOn ==
    ASSUME Distinct, ListingTypeOK, InOrder, NextPage, writes = 0, ~byLink
    PROVE  InOrder'
<1>0. walk = "walking" /\ Known(marker) /\ byLink' = byLink /\ writes' = writes
    BY DEF NextPage
<1>1. /\ Times' = Times /\ Candidates' = Candidates /\ Listing(Times)' = Listing(Times)
  <2>1. UNCHANGED storeVars /\ filtered' = filtered
      BY DEF NextPage, NextRequest
  <2>2. Kept' = Kept /\ Candidates' = Candidates
      BY <2>1 DEF storeVars, Kept, Candidates
  <2>3. Times' = Times
      BY <2>1, <2>2 DEF storeVars, Times, Place
  <2> QED  BY <2>2, <2>3 DEF Listing
<1> DEFINE list == Listing(Times)
           n == Len(list)
           k == Len(listed)
<1>2. /\ list \in Seq(Candidates) /\ n \in Nat /\ DOMAIN list = 1..n
      /\ \A i, j \in 1..n : list[i] = list[j] => i = j
      /\ \A i \in 1..n : list[i] \in Candidates
      /\ Candidates \in SUBSET Run /\ Clock(Times)
  <2>1. \A i \in 1..n : list[i] \in Candidates
      BY ListingIs
  <2> QED  BY <2>1, ListingIs
<1>3. /\ listed \in Seq(Run) /\ k \in Nat /\ limit \in Nat \ {0}
      /\ ~(source = "persistence" /\ ScanTies)
    BY ListingAssumption DEF ListingTypeOK, Distinct
<1>4. /\ k <= n /\ \A i \in 1..k : listed[i] = list[i]
      /\ IF marker = None THEN k = 0 ELSE k # 0 /\ marker = listed[k]
    BY <1>0 DEF InOrder, UpTo
<1>5. PICK page \in Pages(marker) :
          /\ listed' = listed \o page.items
          /\ IF page.more
             THEN marker' = Last(page.items) /\ UNCHANGED walk
             ELSE marker' = None /\ walk' = "done"
    BY DEF NextPage
<1>6. page = PageFrom(list, k)
  <2>1. page = PageByKey(Times, marker)
      BY <1>0, <1>3, PageRead
  <2>2. CASE marker = None
    <3>1. page = PageByPosition(Times, marker)
        BY <1>2, <1>3, <2>1, <2>2, KeyIsPosition
    <3> QED  BY <1>4, <2>2, <3>1 DEF PageByPosition
  <2>3. CASE marker # None
    <3>1. k \in 1..n /\ list[k] = marker /\ marker \in Candidates
        BY <1>2, <1>3, <1>4, <2>3
    <3>2. page = PageByPosition(Times, marker)
        BY <1>2, <1>3, <2>1, <3>1, KeyIsPosition
    <3>3. (CHOOSE i \in DOMAIN list : list[i] = marker) = k
        BY <1>2, <3>1
    <3> QED  BY <2>3, <3>2, <3>3 DEF PageByPosition
  <2> QED  BY <2>2, <2>3
<1> DEFINE items == page.items
           size == Len(items)
<1> HIDE DEF list, n, k
<1>7. /\ items \in Seq(Candidates) /\ size \in Nat
      /\ \A i \in 1..size : items[i] = list[k + i]
      /\ page.more => size = limit /\ n > k + limit
      /\ ~page.more => size = n - k
  <2>1. k \in 0..Len(list) /\ Len(list) = n
      BY <1>2, <1>3, <1>4 DEF n
  <2> DEFINE from == PageFrom(list, k)
             s == Min({limit, Len(list) - k})
  <2>2. Candidates \in SUBSET Run /\ list \in Seq(Candidates) /\ limit \in Nat \ {0}
      BY <1>2, <1>3
  <2>3. /\ from.items \in Seq(Candidates) /\ Len(from.items) = s
        /\ \A i \in 1..s : from.items[i] = list[k + i]
        /\ from.more <=> Len(list) > k + limit
        /\ from.more => s = limit
        /\ ~from.more => s = Len(list) - k
        /\ s \in Nat
      BY <2>1, <2>2, PageOfSeq
  <2>4. page = from
      BY <1>6
  <2> HIDE DEF from, s
  <2>5. items = from.items /\ (page.more <=> from.more)
      BY <2>4 DEF items
  <2> HIDE DEF items
  <2> QED  BY <2>1, <2>3, <2>5 DEF size
<1> HIDE DEF items, size
<1>8. k + size <= n /\ (page.more => size # 0) /\ (~page.more => k + size = n)
    BY <1>2, <1>3, <1>4, <1>7
<1>9. /\ listed' \in Seq(Run) /\ Len(listed') = k + size
      /\ \A i \in 1..(k + size) : listed'[i] = list[i]
  <2>1. items \in Seq(Run) /\ listed' = listed \o items
      BY <1>2, <1>5, <1>7, SeqMonotonic DEF items
  <2>2. /\ listed \o items \in Seq(Run) /\ Len(listed \o items) = Len(listed) + Len(items)
        /\ \A i \in 1..(Len(listed) + Len(items)) :
              (listed \o items)[i] = IF i <= Len(listed) THEN listed[i] ELSE items[i - Len(listed)]
      BY <1>3, <2>1, ConcatProperties
  <2>3. /\ Len(listed') = k + size
        /\ \A i \in 1..(k + size) : listed'[i] = IF i <= k THEN listed[i] ELSE items[i - k]
      BY <2>1, <2>2 DEF k, size
  <2>4. ASSUME NEW i \in 1..(k + size) PROVE listed'[i] = list[i]
    <3>1. CASE i <= k
      <4>1. i \in 1..k
          BY <1>3, <1>7, <3>1
      <4>2. listed[i] = list[i]
          BY <1>4, <4>1
      <4>3. listed'[i] = listed[i]
          BY <2>3, <3>1
      <4> QED  BY <4>2, <4>3
    <3>2. CASE ~(i <= k)
      <4>1. i - k \in 1..size /\ k + (i - k) = i
          BY <1>3, <1>7, <3>2
      <4> QED  BY <1>7, <2>3, <3>2, <4>1
    <3> QED  BY <3>1, <3>2
  <2> QED  BY <2>1, <2>2, <2>3, <2>4
<1>10. UpTo(Listing(Times), Len(listed))'
  <2>1. Len(listed') <= Len(Listing(Times)') /\ \A i \in 1..Len(listed') : listed'[i] = Listing(Times)'[i]
      BY <1>1, <1>8, <1>9 DEF list, n
  <2> QED  BY <2>1 DEF UpTo
<1>11. walk' = "done" => Len(listed') = Len(Listing(Times)')
    BY <1>0, <1>1, <1>5, <1>8, <1>9 DEF list, n
<1>12. walk' = "walking" =>
           IF marker' = None THEN Len(listed') = 0
           ELSE Len(listed') # 0 /\ marker' = listed'[Len(listed')]
  <2> SUFFICES ASSUME walk' = "walking"
               PROVE  marker' # None /\ Len(listed') # 0 /\ marker' = listed'[Len(listed')]
      OBVIOUS
  <2>1. page.more /\ marker' = Last(items)
      BY <1>5 DEF items
  <2>2. size \in 1..size /\ Last(items) = items[size] /\ items[size] \in Candidates
      BY <1>7, <1>8, <2>1 DEF Last, size
  <2>3. items[size] = list[k + size] /\ k + size \in 1..(k + size)
      BY <1>3, <1>7, <2>2
  <2>4. None \notin Run
      BY ListingAssumption DEF Run, None
  <2> QED  BY <1>2, <1>3, <1>7, <1>9, <2>1, <2>2, <2>3, <2>4
<1> QED  BY <1>10, <1>11, <1>12 DEF InOrder

LEMMA InOrderKept == Distinct /\ ListingTypeOK /\ InOrder /\ [ListingNext]_listingVars => InOrder'
<1> SUFFICES ASSUME Distinct, ListingTypeOK, InOrder, [ListingNext]_listingVars PROVE InOrder'
    OBVIOUS
<1>1. ASSUME NEW f \in BOOLEAN, NEW follow \in BOOLEAN, NEW n \in 1..MaxLimit, Begin(f, follow, n)
      PROVE  InOrder'
  <2>1. walk' = "walking" /\ marker' = None /\ listed' = <<>> /\ ListingTypeOK'
    <3>1. ListingNext
        BY <1>1 DEF ListingNext
    <3> QED  BY <1>1, <3>1, ListingTypeKept DEF Begin
  <2>2. Len(listed') = 0
      BY <2>1
  <2>3. Len(Listing(Times)') \in Nat
    <3> DEFINE obs == Times'
               S == Candidates'
    <3>1. S \in SUBSET Run /\ Clock(obs)
        BY <2>1, ClockNext DEF ClockMatches, Clock
    <3>2. Listing(Times)' = Ordered(S, obs)
        BY DEF Listing
    <3> HIDE DEF obs, S
    <3>3. Len(Ordered(S, obs)) \in Nat
        BY <3>1, OrderIsSeq
    <3> QED  BY <3>2, <3>3
  <2> QED  BY <2>1, <2>2, <2>3 DEF InOrder, UpTo
<1>2. ASSUME NextPage PROVE InOrder'
  <2>1. CASE writes = 0 /\ ~byLink
      BY <1>2, <2>1, PageGoesOn
  <2>2. CASE ~(writes = 0 /\ ~byLink)
      BY <1>2, <2>2 DEF NextPage, InOrder
  <2> QED  BY <2>1, <2>2
<1>3. ASSUME Refused \/ Leave PROVE InOrder'
    BY <1>3 DEF Refused, Leave, InOrder
<1>4. ASSUME Write \/ \E before \in 2..MaxTime : PruneFlows(before)
      PROVE  InOrder'
  <2>1. PICK runs : Written(runs)
      BY <1>4 DEF Write, Apply, Forget, AddFlow, DeleteFlow, ChangeFlow, PruneFlows, Drop
  <2>2. walk' = walk /\ walk \in {"idle", "walking"} /\ (walk = "walking" => writes' # 0)
      BY <2>1, WrittenTypes
  <2> QED  BY <2>2 DEF InOrder
<1>5. CASE UNCHANGED listingVars
  <2>1. UNCHANGED storeVars /\ UNCHANGED walkVars
      BY <1>5 DEF listingVars
  <2>2. Kept' = Kept
      BY <2>1 DEF storeVars, Kept
  <2>3. Candidates' = Candidates /\ Times' = Times
      BY <2>1, <2>2 DEF storeVars, walkVars, Candidates, Times, Place
  <2>4. Listing(Times)' = Listing(Times)
      BY <2>3 DEF Listing
  <2> QED  BY <2>1, <2>4 DEF InOrder, UpTo, walkVars
<1> QED  BY <1>1, <1>2, <1>3, <1>4, <1>5 DEF ListingNext

LEMMA InOrderAtFirst == ListingInit => InOrder
BY DEF ListingInit, InOrder

\* However runs are observed anew, added, evicted, pruned and deleted between
\* two pages, a walk that comes to its end has listed every run nothing was
\* written to, unless forget() has misled it; and when there was no write,
\* each candidate once and newest first (list_flows() of the three
\* datasources).  A persistence datasource must not read the same time of
\* day twice in a scan.
THEOREM WalksAreComplete ==
    ASSUME Distinct
    PROVE  ListingSpec => []WalkIsComplete
<1> DEFINE Inv == WalkInv /\ InOrder
<1>1. ListingInit => Inv
    BY WalkAtFirst, InOrderAtFirst
<1>2. Inv /\ [ListingNext]_listingVars => Inv'
    BY WalkKept, InOrderKept DEF WalkInv, EvictInv
<1>3. Inv => WalkIsComplete
  <2> SUFFICES ASSUME Inv, walk = "done", ~misled
               PROVE  /\ steady \subseteq ToSet(listed)
                      /\ writes = 0 /\ ~byLink =>
                            /\ ToSet(listed) = Candidates /\ IsInjective(listed)
                            /\ source # "persistence" => listed = Listing(observed)
      BY DEF WalkIsComplete
  <2>1. steady \subseteq ToSet(listed)
      BY DEF WalkInv, NoneMissed, Missing
  <2>2. ASSUME writes = 0, ~byLink
        PROVE  /\ ToSet(listed) = Candidates /\ IsInjective(listed)
               /\ source # "persistence" => listed = Listing(observed)
    <3> DEFINE list == Listing(Times)
    <3>1. ListingTypeOK /\ listed \in Seq(Run)
        BY DEF WalkInv, EvictInv, ListingTypeOK
    <3>2. /\ list \in Seq(Candidates) /\ Len(list) \in Nat /\ DOMAIN list = 1..Len(list)
          /\ \A i, j \in 1..Len(list) : list[i] = list[j] => i = j
          /\ \A r \in Candidates : \E i \in 1..Len(list) : list[i] = r
          /\ Candidates \in SUBSET Run
        BY <3>1, ListingIs
    <3>3. Len(listed) = Len(list) /\ \A i \in 1..Len(list) : listed[i] = list[i]
        BY <2>2 DEF InOrder, UpTo
    <3> HIDE DEF list
    <3>4. list \in Seq(Run)
        BY <3>2, SeqMonotonic
    <3>5. listed = list
        BY <3>1, <3>3, <3>4, SeqEqual
    <3>6. ToSet(listed) = Candidates /\ IsInjective(listed)
      <4>1. \A i \in 1..Len(list) : list[i] \in Candidates
          BY <3>2
      <4>2. IsInjective(list)
          BY <3>2 DEF IsInjective
      <4>3. ToSet(list) = {list[i] : i \in 1..Len(list)}
          BY <3>2 DEF ToSet
      <4>4. ToSet(list) = Candidates
          BY <3>2, <4>1, <4>3
      <4> QED  BY <3>5, <4>2, <4>4
    <3>7. source # "persistence" => Times = observed
        BY DEF Times
    <3> QED  BY <3>5, <3>6, <3>7 DEF list
  <2> QED  BY <2>1, <2>2
<1> QED  BY <1>1, <1>2, <1>3, PTL DEF ListingSpec
=============================================================================
