----------------------------- MODULE EventWindow -----------------------------
(***************************************************************************)
(* The window a run keeps of its event stream, and the page of it a reader *)
(* is given (MemoryDataSource._record and events_since, contiguous_from).  *)
(* An event is its sequence number: nothing else decides what a page holds.*)
(***************************************************************************)
EXTENDS Integers, Sequences, FiniteSetsExt

\* deque(maxlen): appending to a full window drops the first to arrive.
Record(window, e, maxEvents) ==
    IF Len(window) < maxEvents THEN Append(window, e) ELSE Append(Tail(window), e)

Stored(window) == {window[i] : i \in DOMAIN window}

\* A page that steps over the gaps in it, and one that is an event too long.
WithGaps(S, expected, limit) == {n \in S : expected <= n /\ n < expected + limit}
OneTooMany(S, expected, limit) ==
    {n \in S : /\ expected <= n /\ n <= expected + limit
               /\ \A m \in expected..n : m \in S}

\* contiguous_from(): the unbroken run of stored events from expected on,
\* at most limit of them.
Contiguous(S, expected, limit) ==
    {n \in S : /\ expected <= n /\ n < expected + limit
               /\ \A m \in expected..n : m \in S}

\* contiguous_from() as it is written: one turn of its loop, and the loop.
Visit(state, e, limit) ==
    IF state.stop \/ e < state.expected THEN state
    ELSE IF e # state.expected THEN [state EXCEPT !.stop = TRUE]
    ELSE [taken    |-> Append(state.taken, e),
          expected |-> e + 1,
          stop     |-> Len(state.taken) + 1 >= limit]

LoopContiguous(sorted, expected, limit) ==
    LET after[i \in 0..Len(sorted)] ==
            IF i = 0 THEN [taken |-> <<>>, expected |-> expected, stop |-> FALSE]
                     ELSE Visit(after[i - 1], sorted[i], limit)
    IN  after[Len(sorted)].taken

\* events_since(): the reader's next event was evicted if everything that
\* is stored comes after it; then the page starts at the oldest instead.
Truncated(S, since) == S # {} /\ since + 1 < Min(S)

Page(S, since, limit) ==
    Contiguous(S, IF Truncated(S, since) THEN Min(S) ELSE since + 1, limit)

\* The same as the code computes it, from the window sorted by number.
Sortings(window) ==
    {s \in [DOMAIN window -> Stored(window)] :
        Stored(s) = Stored(window) /\ \A i, j \in DOMAIN window : i < j => s[i] <= s[j]}

LoopPage(sorted, since, limit) ==
    LET truncated == sorted # <<>> /\ since + 1 < sorted[1]
    IN  LoopContiguous(sorted, IF truncated THEN sorted[1] ELSE since + 1, limit)

\* A reader that is moved on to the newest event.
NextSeqNewest(S, since, limit) == Max(S \cup {since})

NextSeq(S, since, limit) ==
    IF Page(S, since, limit) = {} THEN since ELSE Max(Page(S, since, limit))
=============================================================================
