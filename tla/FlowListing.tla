---------------------------- MODULE FlowListing ----------------------------
(***************************************************************************)
(* The flows a datasource keeps, and a client that walks the pages of them *)
(* while they change: list_flows() of the three datasources, the writes    *)
(* that move a run within the listing or out of it, and the walk of a      *)
(* client of GET /flows and of the poller (Poller._read_all).              *)
(*                                                                         *)
(* A run is its run_id, a number, since listings break ties by it.  Of its *)
(* snapshot two things decide what a page holds: observed_at, and whether  *)
(* it passes the filter of a client that asks for one state or one book.   *)
(*                                                                         *)
(* The specification has names of its own (ListingSpec), since the proofs  *)
(* about it and those about SqlCollector share a module, DatasourceProofs. *)
(***************************************************************************)
EXTENDS Integers, Sequences, FiniteSetsExt, SequencesExt, SortedNumbers

CONSTANTS NRuns,      \* BOUND: the runs there are
          MaxTime,    \* BOUND: the instants at which they are observed
          MaxRuns,    \* max_runs of MemoryDataSource
          MaxLimit,   \* BOUND: page size
          DefaultLimit, \* DEFAULT_FLOW_LIMIT
          MaxWrites,  \* BOUND: writes during one walk
          Sources,    \* the datasources under consideration
          ScanTies    \* may one scan read the same time of day twice?

ASSUME ListingAssumption ==
    /\ NRuns \in Nat /\ MaxTime \in Nat /\ MaxWrites \in Nat
    /\ MaxRuns \in Nat \ {0} /\ MaxLimit \in Nat \ {0}
    /\ DefaultLimit \in 1..MaxLimit
    /\ Sources \subseteq {"memory", "sqlalchemy", "persistence"}
    /\ ScanTies \in BOOLEAN

Run == 1..NRuns
None == 0  \* no marker

VARIABLES
    source,     \* the datasource that is listed; it never changes
    kept,       \* the runs it has: in the order of MemoryDataSource._runs, or
                \* in that of a scan of the logbooks
    observed,   \* observed_at of each run that is kept; a scan stamps its own
    matching,   \* the runs that pass the client's filter
    deleted,    \* flow details that were deleted; their uuids do not come back
    walk,       \* the walk: idle, walking, done, or refused with a 400
    wants,      \* does the client want a filtered listing?
    byLink,     \* does it follow links.next, or repeat its query with the marker?
    filtered,   \* does its next request carry the filter?
    limit,      \* the page size that request asks for
    marker,     \* next_marker of the last page, or None
    listed,     \* the runs its pages held, in order
    writes,     \* writes since the walk began
    steady,     \* history: the candidates at its start nothing was written to since
    misled,     \* history: the run that the marker names was forgotten by hand,
                \* or another one was while it was evicted
    high        \* history: the latest observation among the runs evicted

storeVars == <<source, kept, observed, matching, deleted, high>>
walkVars == <<walk, wants, byLink, filtered, limit, marker, listed, writes, steady, misled>>
listingVars == <<storeVars, walkVars>>

Kept == ToSet(kept)

ListingInit ==
    /\ source \in Sources
    /\ kept = <<>> /\ observed = [r \in Run |-> 0] /\ matching = {}
    /\ deleted = {} /\ high = 0
    /\ walk = "idle" /\ wants = FALSE /\ byLink = FALSE /\ filtered = FALSE /\ limit = 1 /\ marker = None
    /\ listed = <<>> /\ writes = 0 /\ steady = {} /\ misled = FALSE

-----------------------------------------------------------------------------
(* Pages.                                                                  *)

Candidates == IF filtered THEN Kept \cap matching ELSE Kept

\* Newest observation first; run_id breaks ties.
Before(obs, a, b) == obs[a] > obs[b] \/ (obs[a] = obs[b] /\ a < b)

\* What sorting a set of runs by that gives.
Ordered(S, obs) ==
    CHOOSE f \in [1..Cardinality(S) -> S] :
        \A i, j \in 1..Cardinality(S) : i < j => Before(obs, f[i], f[j])

Listing(obs) == Ordered(Candidates, obs)

\* A page that starts at the marker's run instead of after it.
PageAt(list, start) ==
    LET first == Max({start, 1})
    IN  [items |-> SubSeq(list, first, Min({first + limit - 1, Len(list)})),
         more  |-> Len(list) > first + limit - 1]

\* The limit runs from one place of the listing on, and whether there are more.
PageFrom(list, start) ==
    [items |-> SubSeq(list, start + 1, Min({start + limit, Len(list)})),
     more  |-> Len(list) > start + limit]

\* list_flows() of MemoryDataSource and PersistenceDataSource: sort what
\* passes the filter, and start after the position of the marker in it.
KnownByPosition(m) == m = None \/ m \in Candidates
PageByPosition(obs, m) ==
    LET list == Listing(obs)
    IN  PageFrom(list, IF m = None THEN 0 ELSE CHOOSE i \in DOMAIN list : list[i] = m)

\* A comparison without its second half: the tie is not broken.
AfterKeyUntied(obs, m) == {r \in Candidates : m = None \/ obs[r] < obs[m]}

\* list_flows() of SQLAlchemyDataSource: the row of the marker, whatever
\* the filter, then the rows after its key, one more than the page holds.
KnownByKey(m) == m = None \/ m \in Kept
AfterKey(obs, m) == {r \in Candidates : m = None \/ Before(obs, m, r)}
PageByKey(obs, m) == PageFrom(Ordered(AfterKey(obs, m), obs), 0)

\* _scan() and _flow_snapshot(): every logbook is read anew for each page,
\* and each flow is stamped when the scan comes to it.
Place == [r \in Run |-> IF r \in Kept THEN CHOOSE i \in DOMAIN kept : kept[i] = r ELSE 0]
Stamps ==
    IF ScanTies
    THEN {s \in [Run -> 0..Len(kept)] : \A a, b \in Kept : Place[a] < Place[b] => s[a] <= s[b]}
    ELSE {Place}

Known(m) == IF source = "sqlalchemy" THEN KnownByKey(m) ELSE KnownByPosition(m)

\* The pages the datasource may answer with.
Pages(m) ==
    CASE source = "memory"      -> {PageByPosition(observed, m)}
      [] source = "sqlalchemy"  -> {PageByKey(observed, m)}
      [] source = "persistence" -> {PageByPosition(s, m) : s \in Stamps}

-----------------------------------------------------------------------------
(* The client.                                                             *)

\* The first request of a walk is about to be made.
Begin(f, follow, n) ==
    /\ walk = "idle"
    /\ walk' = "walking" /\ wants' = f /\ byLink' = follow
    /\ filtered' = f /\ limit' = n
    /\ marker' = None /\ listed' = <<>> /\ writes' = 0 /\ misled' = FALSE
    /\ steady' = IF f THEN Kept \cap matching ELSE Kept
    /\ UNCHANGED storeVars

\* flow_page(): links.next has the marker, and nothing else of the query.
NextRequest ==
    IF byLink THEN filtered' = FALSE /\ limit' = DefaultLimit
              ELSE UNCHANGED <<filtered, limit>>

\* One page, and the marker of the next one if there are more runs.
NextPage ==
    /\ walk = "walking" /\ Known(marker)
    /\ \E page \in Pages(marker) :
        /\ listed' = listed \o page.items
        /\ IF page.more
           THEN marker' = Last(page.items) /\ UNCHANGED walk
           ELSE marker' = None /\ walk' = "done"
    /\ NextRequest
    /\ UNCHANGED <<storeVars, wants, byLink, writes, steady, misled>>

\* A marker that is not known answered with an empty page that names it again.
EmptyPage ==
    /\ walk = "walking" /\ ~Known(marker)
    /\ UNCHANGED listingVars

\* UnknownMarkerError: the service answers 400 and the client has to begin
\* again; the poller's poll fails.
Refused ==
    /\ walk = "walking" /\ ~Known(marker)
    /\ walk' = "refused"
    /\ UNCHANGED <<storeVars, wants, byLink, filtered, limit, marker, listed,
                   writes, steady, misled>>

\* The client has its answer.
Leave ==
    /\ walk \in {"done", "refused"}
    /\ walk' = "idle" /\ listed' = <<>> /\ marker' = None
    /\ steady' = {} /\ writes' = 0 /\ misled' = FALSE
    /\ wants' = FALSE /\ byLink' = FALSE /\ filtered' = FALSE /\ limit' = 1
    /\ UNCHANGED storeVars

-----------------------------------------------------------------------------
(* The writes.                                                             *)

\* A write is visible to a walk under way, and bounded during it.
Written(runs) ==
    /\ walk \in {"idle", "walking"}
    /\ writes' = IF walk = "walking" THEN writes + 1 ELSE 0
    /\ walk = "walking" => writes < MaxWrites
    /\ steady' = steady \ runs
    /\ UNCHANGED <<source, walk, wants, byLink, filtered, limit, marker, listed>>

\* What an event leaves of its run: observed_at, and the flow's state.
\* The run passes the filter after it, or not.
ObservedAnew(runs, r, ts) == IF r \in runs THEN Max({observed[r], ts}) ELSE ts

\* What is left of a list without some of its runs, in its order.
Without(order, runs) ==
    LET stay == {i \in DOMAIN order : order[i] \notin runs}
    IN  [n \in 1..Cardinality(stay) |-> order[Ascending(stay)[n]]]

\* A full store that makes room by dropping the run it got to know first.
VictimFirstIn(order, obs) == order[1]

\* _evict_if_needed(): the oldest observation goes, the first one inserted
\* of several; min() runs over the run just inserted as well.
Victim(order, obs) ==
    order[CHOOSE i \in DOMAIN order :
            /\ \A j \in DOMAIN order : obs[order[i]] <= obs[order[j]]
            /\ \A j \in 1..(i - 1) : obs[order[i]] < obs[order[j]]]

\* apply() of an event of time ts: insert its run, evict one if there are
\* too many, and only then fold the event, into a run that may be gone.
Apply(r, ts, m) ==
    /\ source \in {"memory", "sqlalchemy"}
    /\ LET new   == r \notin Kept
           order == IF new THEN Append(kept, r) ELSE kept
           obs   == [observed EXCEPT ![r] = ObservedAnew(Kept, r, ts)]
           full  == source = "memory" /\ new /\ Len(order) > MaxRuns
           gone  == IF full THEN {Victim(order, obs)} ELSE {}
           after == ToSet(order) \ gone
       IN  /\ kept' = Without(order, gone)
           /\ observed' = [k \in Run |-> IF k \in after THEN obs[k] ELSE 0]
           /\ matching' = (IF m THEN matching \cup {r} ELSE matching \ {r}) \cap after
           /\ high' = Max({high} \cup {obs[k] : k \in gone})
           /\ Written({r} \cup gone)
    /\ UNCHANGED <<deleted, misled>>

Drop(runs) ==
    /\ kept' = Without(kept, runs)
    /\ observed' = [k \in Run |-> IF k \in runs THEN 0 ELSE observed[k]]
    /\ matching' = matching \ runs
    /\ Written(runs)

\* forget(): by hand.  The place it makes in a full store is one that a run
\* which was evicted may come back to with an older observation.
Forget(r) ==
    /\ source \in {"memory", "sqlalchemy"} /\ r \in Kept
    /\ Drop({r})
    /\ misled' = (misled \/ marker = r \/ (source = "memory" /\ marker \in Run \ Kept))
    /\ high' = 0
    /\ UNCHANGED deleted

\* SQLAlchemyDataSource.prune(): what was last observed before a time.
PruneFlows(before) ==
    /\ source = "sqlalchemy"
    /\ LET stale == {r \in Kept : observed[r] < before}
       IN  stale # {} /\ Drop(stale)
    /\ UNCHANGED <<deleted, misled, high>>

\* External: the application adds a flow to one of its logbooks, deletes a
\* logbook, or its engine changes the state of a flow.
AddFlow(r, i, m) ==
    /\ source = "persistence" /\ r \notin Kept \cup deleted
    /\ kept' = InsertAt(kept, i, r)
    /\ matching' = IF m THEN matching \cup {r} ELSE matching
    /\ Written({r})
    /\ UNCHANGED <<observed, deleted, high, misled>>

DeleteFlow(r) ==
    /\ source = "persistence" /\ r \in Kept
    /\ Drop({r})
    /\ deleted' = deleted \cup {r}
    /\ UNCHANGED <<high, misled>>

ChangeFlow(r) ==
    /\ source = "persistence" /\ r \in Kept
    /\ matching' = IF r \in matching THEN matching \ {r} ELSE matching \cup {r}
    /\ Written({r})
    /\ UNCHANGED <<kept, observed, deleted, high, misled>>

Write ==
    \E r \in Run :
        \/ \E ts \in 1..MaxTime, m \in BOOLEAN : Apply(r, ts, m)
        \/ Forget(r)
        \/ \E i \in 1..(Len(kept) + 1), m \in BOOLEAN : AddFlow(r, i, m)
        \/ DeleteFlow(r) \/ ChangeFlow(r)

-----------------------------------------------------------------------------
ListingNext ==
    \/ \E f, follow \in BOOLEAN, n \in 1..MaxLimit : Begin(f, follow, n)
    \/ NextPage \/ Refused \/ Leave
    \/ Write
    \/ \E before \in 2..MaxTime : PruneFlows(before)

ListingSpec == ListingInit /\ [][ListingNext]_listingVars

\* A client asks for the next page as long as there is one.
FairListingSpec == ListingSpec /\ WF_listingVars(NextPage \/ Refused)

-----------------------------------------------------------------------------
(* Properties.                                                             *)

\* Every variable has its type, and the memory store keeps to max_runs.
ListingTypeOK ==
    /\ source \in Sources
    /\ kept \in Seq(Run) /\ IsInjective(kept)
    /\ source = "memory" => Len(kept) <= MaxRuns
    /\ observed \in [Run -> 0..MaxTime] /\ matching \subseteq Kept
    /\ walk \in {"idle", "walking", "done", "refused"}
    /\ wants \in BOOLEAN /\ byLink \in BOOLEAN /\ filtered \in BOOLEAN
    /\ limit \in 1..MaxLimit /\ marker \in Run \cup {None}
    /\ listed \in Seq(Run) /\ writes \in 0..MaxWrites
    /\ deleted \subseteq Run /\ steady \subseteq Kept /\ misled \in BOOLEAN /\ high \in 0..MaxTime

\* However runs are observed anew, added, evicted, pruned and deleted
\* between two pages, the one the marker names included, a walk that comes
\* to its end has listed every run nothing was written to; and when there
\* was no write at all, each candidate once and newest first (for a client
\* that repeats its query; see OnlyWhatWasAskedFor).  Only forget() is not
\* covered: called for the run the marker names, or for another one when
\* that one was evicted, and followed by a late event of that run, it moves
\* the marker back.
WalkIsComplete ==
    walk = "done" /\ ~misled =>
        /\ steady \subseteq ToSet(listed)
        /\ writes = 0 /\ ~byLink =>
              /\ ToSet(listed) = Candidates /\ IsInjective(listed)
              /\ source # "persistence" => listed = Listing(observed)

\* MemoryDataSource is "the reference implementation the other datasources
\* are checked against": the keyset query gives the page that sorting and
\* slicing gives, for every marker both know.
PagesAgree ==
    source # "persistence" =>
        \A m \in Candidates \cup {None} : PageByKey(observed, m) = PageByPosition(observed, m)

\* "Oldest observation first, so a long-finished run goes before a live
\* one" (_evict_if_needed): no run that was evicted was observed later than
\* one that is kept, although events arrive out of the order of their
\* times, evicted runs come back, and the run just inserted may be the one
\* that goes.
KeepsTheLatest ==
    \A r \in Kept : source = "memory" => high <= observed[r]

\* GET /flows is "filterable and paged" (README): following its links, a
\* client that asked for the runs in one state is shown no other.
OnlyWhatWasAskedFor == wants /\ writes = 0 => ToSet(listed) \subseteq matching

\* Once nothing is written any more, a walk comes to its end: no marker
\* leads back to the page it came from.
WalkEnds == walk = "walking" ~> walk \in {"done", "refused"}
=============================================================================
