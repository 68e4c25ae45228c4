-------------------------- MODULE EventStreamProofs --------------------------
(***************************************************************************)
(* What a client of a run's stream may rely on, for any threads that       *)
(* number events, any window, any page size, any loss and any number of    *)
(* connections that break.                                                 *)
(*                                                                         *)
(* The invariant that carries the proof: while a client is connected, its  *)
(* cursor stands at the last event the client has received, although the   *)
(* cursor moves by what it reads and a broken connection leaves the client *)
(* with any part of a page.                                                *)
(*                                                                         *)
(* The last part is about the page itself: the set the specification reads *)
(* is the list that the loop of contiguous_from() takes from the sorted    *)
(* window, of any length and with any holes.                               *)
(***************************************************************************)
EXTENDS EventStream, SortedNumbersProofs

-----------------------------------------------------------------------------
(* The last id a client received.                                          *)

LEMMA LastIdAtTheEnd ==
    ASSUME NEW fs \in Seq(Nat), Len(fs) # 0, fs[Len(fs)] # Gap
    PROVE  LastId(fs) = fs[Len(fs)]
<1> DEFINE ids == {i \in DOMAIN fs : fs[i] # Gap}
<1>1. /\ Len(fs) \in ids /\ ids \in SUBSET Nat /\ Len(fs) \in Nat
      /\ \A i \in ids : i <= Len(fs)
    OBVIOUS
<1>2. Max(ids) \in ids /\ \A i \in ids : i <= Max(ids)
    BY <1>1, Largest
<1>3. Max(ids) = Len(fs)
  <2> HIDE DEF ids
  <2>1. Max(ids) \in Nat
      BY <1>1, <1>2
  <2>2. Max(ids) <= Len(fs)
      BY <1>1, <1>2
  <2>3. Len(fs) <= Max(ids)
      BY <1>1, <1>2
  <2>4. Len(fs) \in Nat
      OBVIOUS
  <2> QED  BY <2>1, <2>2, <2>3, <2>4
<1> QED  BY <1>1, <1>3 DEF LastId

LEMMA LastIdPastGap ==
    ASSUME NEW fs \in Seq(Nat), NEW gs \in Seq(Nat), Len(gs) = Len(fs) + 1,
           \A i \in 1..Len(fs) : gs[i] = fs[i], gs[Len(gs)] = Gap
    PROVE  LastId(gs) = LastId(fs)
<1> DEFINE ids == {i \in DOMAIN fs : fs[i] # Gap}
<1>1. DOMAIN gs = 1..(Len(fs) + 1) /\ DOMAIN fs = 1..Len(fs) /\ Len(fs) \in Nat
    OBVIOUS
<1>2. {i \in DOMAIN gs : gs[i] # Gap} = ids
    BY <1>1
<1>3. CASE ids = {}
    BY <1>2, <1>3 DEF LastId
<1>4. CASE ids # {}
  <2>1. ids \in SUBSET Nat /\ \A i \in ids : i <= Len(fs)
      BY <1>1
  <2>2. Max(ids) \in ids
      BY <1>1, <1>4, <2>1, Largest
  <2> HIDE DEF ids
  <2>3. gs[Max(ids)] = fs[Max(ids)]
      BY <1>1, <2>1, <2>2 DEF ids
  <2>4. LastId(fs) = fs[Max(ids)] /\ LastId(gs) = gs[Max(ids)]
      BY <1>2, <1>4 DEF LastId, ids
  <2> QED  BY <2>3, <2>4
<1> QED  BY <1>3, <1>4

LEMMA LastIdIsANumber ==
    ASSUME NEW b \in Nat, NEW fs \in Seq(0..b)
    PROVE  LastId(fs) \in 0..b
<1> DEFINE ids == {i \in DOMAIN fs : fs[i] # Gap}
<1>1. ids \in SUBSET Nat /\ (\A i \in ids : i <= Len(fs)) /\ Len(fs) \in Nat
    OBVIOUS
<1>2. ids # {} => Max(ids) \in ids
    BY <1>1, Largest
<1>3. CASE ids = {}
    BY <1>3 DEF LastId
<1>4. CASE ids # {}
  <2>1. Max(ids) \in DOMAIN fs
      BY <1>2, <1>4
  <2>2. LastId(fs) = fs[Max(ids)]
      BY <1>4 DEF LastId
  <2> HIDE DEF ids
  <2> QED  BY <2>1, <2>2
<1> QED  BY <1>3, <1>4

-----------------------------------------------------------------------------
(* What a page adds to the frames of a client.                             *)

\* The frames of one client, as FramesAreContiguous has them.
FollowsAt(fs, i) ==
    LET id   == fs[i]
        last == LastId(SubSeq(fs, 1, i - 1))
    IN  id # Gap =>
          \/ id = last + 1
          \/ id > last /\ i > 1 /\ fs[i - 1] = Gap

Contiguously(fs) == \A i \in DOMAIN fs : FollowsAt(fs, i)

\* gs is fs and k more frames: g gap frames, 0 or 1, and then the events
\* from the first one on.
Grows(fs, gs, k, g, first) ==
    /\ fs \in Seq(Nat) /\ gs \in Seq(Nat)
    /\ k \in Nat /\ g \in {0, 1} /\ first \in Nat \ {0}
    /\ Len(gs) = Len(fs) + k
    /\ \A i \in 1..Len(fs) : gs[i] = fs[i]
    /\ \A j \in 1..k : gs[Len(fs) + j] = IF j <= g THEN Gap ELSE first + j - g - 1

\* Frames that go on after the last id, or that begin with a gap and then
\* jump over it, are contiguous with those before them.
LEMMA Stitched ==
    ASSUME NEW fs, NEW gs, NEW k, NEW g, NEW first, Grows(fs, gs, k, g, first),
           Contiguously(fs),
           first >= LastId(fs) + 1, g = 0 => first = LastId(fs) + 1
    PROVE  /\ Contiguously(gs)
           /\ k > g => LastId(gs) = first + k - g - 1
<1> DEFINE n == Len(fs)
<1>a. fs \in Seq(Nat) /\ gs \in Seq(Nat) /\ k \in Nat /\ g \in {0, 1} /\ first \in Nat \ {0}
    BY DEF Grows
<1> USE <1>a
<1>0. n \in Nat /\ DOMAIN fs = 1..n /\ DOMAIN gs = 1..(n + k) /\ Len(gs) = n + k
    BY DEF Grows
<1>1. /\ \A i \in 1..n : gs[i] = fs[i]
      /\ \A j \in 1..k : gs[n + j] = IF j <= g THEN Gap ELSE first + j - g - 1
    BY DEF Grows
<1>2. ASSUME NEW m \in 0..(n + k)
      PROVE  /\ SubSeq(gs, 1, m) \in Seq(Nat) /\ Len(SubSeq(gs, 1, m)) = m
             /\ \A i \in 1..m : SubSeq(gs, 1, m)[i] = gs[i]
    BY <1>0
<1>3. ASSUME NEW m \in 0..n
      PROVE  SubSeq(gs, 1, m) = SubSeq(fs, 1, m)
  <2>1. /\ SubSeq(fs, 1, m) \in Seq(Nat) /\ Len(SubSeq(fs, 1, m)) = m
        /\ \A i \in 1..m : SubSeq(fs, 1, m)[i] = fs[i]
    <3>1. m \in Nat /\ m <= Len(fs)
        BY <1>0
    <3> QED  BY <3>1
  <2>2. /\ SubSeq(gs, 1, m) \in Seq(Nat) /\ Len(SubSeq(gs, 1, m)) = m
        /\ \A i \in 1..m : SubSeq(gs, 1, m)[i] = gs[i]
    <3>1. m \in 0..(n + k)
        BY <1>0
    <3> QED  BY <3>1, <1>2
  <2>3. \A i \in 1..m : SubSeq(gs, 1, m)[i] = SubSeq(fs, 1, m)[i]
      BY <1>0, <1>1, <2>1, <2>2
  <2> QED  BY <2>1, <2>2, <2>3, SeqEqual
<1>4. SubSeq(fs, 1, n) = fs
    BY <1>0, SubSeqFull
<1> HIDE DEF n
\* The frames before the page are as they were.
<1>5. ASSUME NEW i \in 1..n PROVE FollowsAt(gs, i)
  <2>1. FollowsAt(fs, i)
      BY <1>0 DEF Contiguously
  <2>2. gs[i] = fs[i] /\ SubSeq(gs, 1, i - 1) = SubSeq(fs, 1, i - 1)
      BY <1>0, <1>1, <1>3
  <2>3. i > 1 => gs[i - 1] = fs[i - 1]
      BY <1>0, <1>1
  <2> QED  BY <2>1, <2>2, <2>3 DEF FollowsAt
\* What stands before the first event of the page.
<1>6. LastId(SubSeq(gs, 1, n)) = LastId(fs)
  <2>1. n \in 0..n
      BY <1>0
  <2> QED  BY <1>3, <1>4, <2>1
<1>7. g = 1 /\ k >= 1 => LastId(SubSeq(gs, 1, n + 1)) = LastId(fs)
  <2> SUFFICES ASSUME g = 1, k >= 1 PROVE LastId(SubSeq(gs, 1, n + 1)) = LastId(fs)
      OBVIOUS
  <2>1. n + 1 \in 0..(n + k) /\ 1 \in 1..k
      BY <1>0
  <2>2. /\ SubSeq(gs, 1, n + 1) \in Seq(Nat) /\ Len(SubSeq(gs, 1, n + 1)) = n + 1
        /\ \A i \in 1..(n + 1) : SubSeq(gs, 1, n + 1)[i] = gs[i]
      BY <1>2, <2>1
  <2>3. gs[n + 1] = Gap
      BY <1>1, <2>1
  <2>4. SubSeq(gs, 1, n + 1)[n + 1] = Gap
      BY <1>0, <2>2, <2>3
  <2>5. \A i \in 1..n : SubSeq(gs, 1, n + 1)[i] = fs[i]
      BY <1>0, <1>1, <2>2
  <2> QED  BY <1>0, <2>2, <2>4, <2>5, LastIdPastGap DEF n
\* Behind an event of the page, it is the last.
<1>8. ASSUME NEW j \in 1..k, j > g
      PROVE  LastId(SubSeq(gs, 1, n + j)) = first + j - g - 1
  <2>1. n + j \in 0..(n + k) /\ n + j # 0
      BY <1>0
  <2>2. /\ SubSeq(gs, 1, n + j) \in Seq(Nat) /\ Len(SubSeq(gs, 1, n + j)) = n + j
        /\ \A i \in 1..(n + j) : SubSeq(gs, 1, n + j)[i] = gs[i]
      BY <1>2, <2>1
  <2>3. gs[n + j] = first + j - g - 1
      BY <1>1, <1>8
  <2>4. SubSeq(gs, 1, n + j)[n + j] = first + j - g - 1
      BY <1>0, <2>2, <2>3
  <2>5. first + j - g - 1 # Gap
      BY <1>8 DEF Gap
  <2> QED  BY <1>0, <2>1, <2>2, <2>4, <2>5, LastIdAtTheEnd
<1>9. ASSUME NEW j \in 1..k PROVE FollowsAt(gs, n + j)
  <2>a. n + j \in Nat /\ gs[n + j] \in Nat
      BY <1>0
  <2>1. CASE j <= g
      BY <1>1, <2>1 DEF FollowsAt
  <2>2. CASE j = g + 1
    <3>1. gs[n + j] = first
        BY <1>1, <2>2
    <3>2. CASE g = 0
      <4>1. n + j - 1 = n
          BY <1>0, <2>2, <3>2
      <4> QED  BY <1>0, <1>6, <3>1, <3>2, <4>1 DEF FollowsAt
    <3>3. CASE g = 1
      <4>1. n + j - 1 = n + 1 /\ k >= 1 /\ 1 \in 1..k /\ n + j > 1
          BY <1>0, <2>2, <3>3
      <4>2. gs[n + j - 1] = Gap
          BY <1>1, <3>3, <4>1
      <4>3. LastId(SubSeq(gs, 1, n + j - 1)) = LastId(fs)
          BY <1>7, <3>3, <4>1
      <4>4. LastId(fs) \in Nat => first > LastId(fs)
          OBVIOUS
      <4>5. LastId(fs) \in Nat
        <5>1. fs = <<>> => LastId(fs) = 0
            BY DEF LastId
        <5> DEFINE ids == {i \in DOMAIN fs : fs[i] # Gap}
        <5>2. ids \in SUBSET Nat /\ (\A i \in ids : i <= n)
            BY <1>0
        <5>3. ids # {} => Max(ids) \in DOMAIN fs
            BY <1>0, <5>2, Largest
        <5> QED  BY <5>3 DEF LastId
      <4> QED  BY <1>0, <3>1, <4>1, <4>2, <4>3, <4>4, <4>5 DEF FollowsAt
    <3> QED  BY <3>2, <3>3
  <2>3. CASE j > g + 1
    <3>1. j - 1 \in 1..k /\ j - 1 > g /\ n + (j - 1) = n + j - 1
        BY <1>0, <2>3
    <3>2. LastId(SubSeq(gs, 1, n + (j - 1))) = first + (j - 1) - g - 1
        BY <1>8, <3>1
    <3>3. gs[n + j] = first + j - g - 1
        BY <1>1, <2>3
    <3>4. gs[n + j] = LastId(SubSeq(gs, 1, n + j - 1)) + 1
        BY <3>1, <3>2, <3>3
    <3> QED  BY <1>0, <3>4 DEF FollowsAt
  <2> QED  BY <2>1, <2>2, <2>3
<1>10. Contiguously(gs)
  <2> SUFFICES ASSUME NEW i \in 1..(n + k) PROVE FollowsAt(gs, i)
      BY <1>0 DEF Contiguously
  <2>1. CASE i <= n
      BY <1>0, <1>5, <2>1
  <2>2. CASE i > n
    <3>1. i - n \in 1..k /\ n + (i - n) = i
        BY <1>0, <2>2
    <3> QED  BY <1>9, <3>1
  <2> QED  BY <1>0, <2>1, <2>2
<1>11. k > g => LastId(gs) = first + k - g - 1
  <2> SUFFICES ASSUME k > g PROVE LastId(gs) = first + k - g - 1
      OBVIOUS
  <2>1. k \in 1..k
      OBVIOUS
  <2>2. SubSeq(gs, 1, n + k) = gs
      BY <1>0, SubSeqFull
  <2> QED  BY <1>8, <2>1, <2>2
<1> QED  BY <1>10, <1>11
-----------------------------------------------------------------------------
(* What a poll reads.                                                      *)

\* A page is a gap frame or none and n events from the first on; the cursor
\* moves to the last of them.
PageIs(c, g, first, n) ==
    /\ first >= since[c] + 1 /\ (g = 0 => first = since[c] + 1)
    /\ first + n - 1 <= MaxSeq /\ (n = 0 => g = 0)
    /\ NewFrames(c) \in Seq(0..MaxSeq) /\ Len(NewFrames(c)) = g + n
    /\ \A j \in 1..(g + n) : NewFrames(c)[j] = IF j <= g THEN Gap ELSE first + j - g - 1
    /\ NextSeq(Stored(window), since[c], Limit) = IF n = 0 THEN since[c] ELSE first + n - 1

LEMMA PageRead ==
    ASSUME TypeOK, NEW c \in Clients
    PROVE  \E g \in {0, 1}, first \in Nat \ {0}, n \in Nat : PageIs(c, g, first, n)
<1> DEFINE S == Stored(window)
           T == Truncated(S, since[c])
           first == IF T THEN Min(S) ELSE since[c] + 1
           page == Page(S, since[c], Limit)
<1>1. /\ MaxSeq \in Nat /\ Limit \in Nat \ {0}
      /\ since[c] \in 0..MaxSeq /\ window \in Seq(1..MaxSeq)
    BY StreamAssumption DEF TypeOK
<1>2. S \in SUBSET (1..MaxSeq) /\ S \in SUBSET Nat
    BY <1>1 DEF Stored
<1> HIDE DEF S
<1>3. T => Min(S) \in S /\ Min(S) > since[c] + 1
    BY <1>2, Smallest DEF Truncated
<1> HIDE DEF T
<1>4. first \in Nat \ {0} /\ first >= since[c] + 1 /\ (~T => first = since[c] + 1)
      /\ first <= MaxSeq + 1
  <2>1. CASE T
    <3>1. first = Min(S) /\ Min(S) \in 1..MaxSeq
        BY <1>2, <1>3, <2>1
    <3> QED  BY <1>1, <1>3, <2>1, <3>1
  <2>2. CASE ~T
    <3>1. first = since[c] + 1
        BY <2>2
    <3> QED  BY <1>1, <2>2, <3>1
  <2> QED  BY <2>1, <2>2
<1>5. IsUnbroken(page, S, first, Limit)
    BY DEF Page, Contiguous, IsUnbroken, T
<1>6. T => Min(S) \in page
  <2> SUFFICES ASSUME T PROVE Min(S) \in page
      OBVIOUS
  <2>1. first = Min(S) /\ first \in S /\ first < first + Limit
      BY <1>1, <1>3, <1>4
  <2>2. \A m \in first..first : m \in S
      BY <1>4, <2>1
  <2> HIDE DEF page, first
  <2>3. first <= first
      BY <1>4
  <2> QED  BY <1>5, <2>1, <2>2, <2>3 DEF IsUnbroken
<1>7. NewFrames(c) = (IF T THEN <<Gap>> ELSE <<>>) \o Ascending(page)
    BY DEF NewFrames, S, T
<1>8. NextSeq(S, since[c], Limit) = IF page = {} THEN since[c] ELSE Max(page)
    BY DEF NextSeq
<1> HIDE DEF page, first
<1>9. CASE page = {}
  <2>1. IsFiniteSet({}) /\ Cardinality({}) = 0
      BY FS_EmptySet
  <2>2. Ascending({}) \in [1..0 -> {}]
      BY <2>1, AscendingSorts DEF Sorts
  <2>3. Ascending({}) = <<>>
      BY <2>2
  <2>4. ~T
      BY <1>6, <1>9
  <2>5. NewFrames(c) = <<>> \o <<>>
      BY <1>7, <1>9, <2>3, <2>4
  <2>6. NewFrames(c) = <<>>
      BY <2>5
  <2>7. first = since[c] + 1
      BY <1>4, <2>4
  <2>8. first + 0 - 1 <= MaxSeq
      BY <1>1, <1>4, <2>7
  <2>9. PageIs(c, 0, first, 0)
      BY <1>4, <1>8, <1>9, <2>6, <2>7, <2>8 DEF PageIs, S
  <2> QED  BY <1>4, <2>9
<1>10. CASE page # {}
  <2> DEFINE m == Max(page)
             n == m - first + 1
             g == IF T THEN 1 ELSE 0
  <2>1. page = first..m /\ m \in page /\ page \subseteq S
      BY <1>1, <1>2, <1>4, <1>5, <1>10, UnbrokenRun
  <2> HIDE DEF m
  <2>2. m \in 1..MaxSeq /\ first <= m
    <3>1. m \in 1..MaxSeq
        BY <1>2, <2>1
    <3> QED  BY <1>1, <1>4, <2>1, <3>1
  <2>3. Ascending(page) = [i \in 1..n |-> first + i - 1]
    <3>1. m \in Nat /\ first \in Nat
        BY <1>1, <1>4, <2>2
    <3>2. Ascending(first..m) = [i \in 1..(m - first + 1) |-> first + i - 1]
        BY <2>2, <3>1, AscendingCounts
    <3> QED  BY <2>1, <3>2
  <2>4. n \in Nat \ {0} /\ g \in {0, 1} /\ first + n - 1 = m
      BY <1>4, <2>2
  <2> DEFINE events == [i \in 1..n |-> first + i - 1]
             gap == IF T THEN <<Gap>> ELSE <<>>
  <2>5. events \in Seq(0..MaxSeq) /\ Len(events) = n /\ \A i \in 1..n : events[i] = first + i - 1
    <3>1. \A i \in 1..n : first + i - 1 \in 0..MaxSeq
        BY <1>1, <1>4, <2>2, <2>4
    <3> HIDE DEF n
    <3> QED  BY <2>4, <3>1
  <2>6. gap \in Seq(0..MaxSeq) /\ Len(gap) = g /\ (g = 1 => gap[1] = Gap)
    <3>1. 0 \in 0..MaxSeq
        BY <1>1
    <3>2. CASE T
        BY <3>1, <3>2 DEF Gap
    <3>3. CASE ~T
        BY <3>3
    <3> QED  BY <3>2, <3>3
  <2>7. NewFrames(c) = gap \o events
      BY <1>7, <2>3
  <2> HIDE DEF n, g, gap, events
  <2>8. /\ gap \o events \in Seq(0..MaxSeq) /\ Len(gap \o events) = g + n
        /\ \A j \in 1..(g + n) :
             (gap \o events)[j] = IF j <= g THEN gap[j] ELSE events[j - g]
      BY <2>4, <2>5, <2>6, ConcatProperties
  <2>9. ASSUME NEW j \in 1..(g + n)
        PROVE  (gap \o events)[j] = IF j <= g THEN Gap ELSE first + j - g - 1
    <3>1. CASE j <= g
      <4>1. j = 1 /\ g = 1
          BY <2>4, <3>1
      <4> QED  BY <2>6, <2>8, <3>1, <4>1
    <3>2. CASE ~(j <= g)
      <4>1. j - g \in 1..n
          BY <2>4, <3>2
      <4>2. events[j - g] = first + (j - g) - 1
          BY <2>5, <4>1
      <4>3. first + (j - g) - 1 = first + j - g - 1
          BY <1>4, <2>4
      <4> QED  BY <2>8, <3>2, <4>2, <4>3
    <3> QED  BY <3>1, <3>2
  <2>10. g = 0 => first = since[c] + 1
      BY <1>4 DEF g
  <2>11. NextSeq(Stored(window), since[c], Limit) = first + n - 1
      BY <1>8, <1>10, <2>4 DEF S, m
  <2>12. PageIs(c, g, first, n)
    <3>1. n # 0 /\ first >= since[c] + 1 /\ first + n - 1 <= MaxSeq
        BY <1>1, <1>4, <2>2, <2>4
    <3>2. /\ NewFrames(c) \in Seq(0..MaxSeq) /\ Len(NewFrames(c)) = g + n
          /\ \A j \in 1..(g + n) :
               NewFrames(c)[j] = IF j <= g THEN Gap ELSE first + j - g - 1
        BY <2>7, <2>8, <2>9
    <3> QED  BY <2>10, <2>11, <3>1, <3>2 DEF PageIs
  <2> QED  BY <1>4, <2>4, <2>12
<1> QED  BY <1>9, <1>10
\* Whatever part of the page reaches the client, and all of it in
\* particular, at the end of which the cursor then stands.
LEMMA PageSent ==
    ASSUME TypeOK, NEW c \in Clients, Contiguously(frames[c]), since[c] = LastId(frames[c]),
           NEW k \in 0..Len(NewFrames(c)),
           NEW gs, gs = frames[c] \o SubSeq(NewFrames(c), 1, k)
    PROVE  /\ gs \in Seq(0..MaxSeq) /\ Contiguously(gs)
           /\ k = Len(NewFrames(c)) => LastId(gs) = NextSeq(Stored(window), since[c], Limit)
<1> DEFINE fs == frames[c]
           t  == SubSeq(NewFrames(c), 1, k)
<1>1. PICK g \in {0, 1}, first \in Nat \ {0}, n \in Nat : PageIs(c, g, first, n)
    BY PageRead
<1>2. /\ NewFrames(c) \in Seq(0..MaxSeq) /\ Len(NewFrames(c)) = g + n
      /\ \A j \in 1..(g + n) : NewFrames(c)[j] = IF j <= g THEN Gap ELSE first + j - g - 1
      /\ NextSeq(Stored(window), since[c], Limit) = IF n = 0 THEN since[c] ELSE first + n - 1
      /\ first >= since[c] + 1 /\ (g = 0 => first = since[c] + 1) /\ (n = 0 => g = 0)
    BY <1>1 DEF PageIs
<1>3. k \in 0..(g + n) /\ k \in Nat
    BY <1>2
<1>4. t \in Seq(0..MaxSeq) /\ Len(t) = k /\ \A j \in 1..k : t[j] = NewFrames(c)[j]
  <2> DEFINE page == NewFrames(c)
  <2>1. page \in Seq(0..MaxSeq) /\ k \in 0..Len(page) /\ Len(page) \in Nat
      BY <1>2
  <2> HIDE DEF page
  <2>2. /\ SubSeq(page, 1, k) \in Seq(0..MaxSeq) /\ Len(SubSeq(page, 1, k)) = k
        /\ \A j \in 1..k : SubSeq(page, 1, k)[j] = page[j]
    <3>1. ASSUME NEW i \in 1..k PROVE page[i] \in 0..MaxSeq
      <4>1. i \in 1..Len(page)
          BY <1>3, <2>1
      <4> QED  BY <2>1, <4>1, ElementOfSeq
    <3>2. k \in Int /\ (IF 1 <= k THEN k - 1 + 1 ELSE 0) = k /\ k - 1 + 1 = k
        BY <1>3
    <3>3. /\ SubSeq(page, 1, k) \in Seq(0..MaxSeq)
          /\ Len(SubSeq(page, 1, k)) = IF 1 <= k THEN k - 1 + 1 ELSE 0
          /\ \A j \in 1..(k - 1 + 1) : SubSeq(page, 1, k)[j] = page[1 + j - 1]
        BY <3>1, <3>2, SubSeqProperties
    <3> QED  BY <1>3, <3>2, <3>3
  <2> QED  BY <2>2 DEF page
<1>a. Seq(0..MaxSeq) \subseteq Seq(Nat)
  <2>1. 0..MaxSeq \subseteq Nat
      BY StreamAssumption
  <2> QED  BY <2>1, SeqMonotonic
<1>5. fs \in Seq(0..MaxSeq) /\ fs \in Seq(Nat) /\ Len(fs) \in Nat
  <2>1. fs \in Seq(0..MaxSeq)
      BY DEF TypeOK
  <2> HIDE DEF fs
  <2>2. Len(fs) \in Nat
      BY <2>1
  <2> QED  BY <2>1, <2>2, <1>a
<1>6. gs = fs \o t
    OBVIOUS
<1> HIDE DEF fs, t
<1>7. gs \in Seq(0..MaxSeq) /\ Len(gs) = Len(fs) + k
      /\ \A i \in 1..(Len(fs) + k) : gs[i] = IF i <= Len(fs) THEN fs[i] ELSE t[i - Len(fs)]
  <2>1. fs \in Seq(0..MaxSeq) /\ t \in Seq(0..MaxSeq) /\ Len(t) = k
      BY <1>4, <1>5
  <2>2. /\ fs \o t \in Seq(0..MaxSeq) /\ Len(fs \o t) = Len(fs) + Len(t)
        /\ \A i \in 1..(Len(fs) + Len(t)) :
             (fs \o t)[i] = IF i <= Len(fs) THEN fs[i] ELSE t[i - Len(fs)]
      BY <2>1, ConcatProperties
  <2> QED  BY <1>6, <2>1, <2>2
<1>8. gs \in Seq(Nat)
    BY <1>7, <1>a
<1>9. Grows(fs, gs, k, g, first)
  <2>1. \A i \in 1..Len(fs) : gs[i] = fs[i]
    <3>1. \A i \in 1..Len(fs) : i \in 1..(Len(fs) + k) /\ i <= Len(fs)
        BY <1>3, <1>5
    <3> QED  BY <1>7, <3>1
  <2>2. ASSUME NEW j \in 1..k
        PROVE  gs[Len(fs) + j] = IF j <= g THEN Gap ELSE first + j - g - 1
    <3>1. Len(fs) + j \in 1..(Len(fs) + k) /\ ~(Len(fs) + j <= Len(fs))
          /\ (Len(fs) + j) - Len(fs) = j
        BY <1>3, <1>5
    <3>2. gs[Len(fs) + j] = t[j]
        BY <1>7, <3>1
    <3>3. t[j] = NewFrames(c)[j] /\ j \in 1..(g + n)
        BY <1>3, <1>4
    <3> QED  BY <1>2, <3>2, <3>3
  <2> QED  BY <1>3, <1>5, <1>7, <1>8, <2>1, <2>2 DEF Grows
<1>10. Contiguously(fs) /\ since[c] = LastId(fs)
    BY DEF fs
<1>11. /\ Contiguously(gs)
       /\ k > g => LastId(gs) = first + k - g - 1
  <2>1. first >= LastId(fs) + 1 /\ (g = 0 => first = LastId(fs) + 1)
      BY <1>2, <1>10
  <2> QED  BY <1>9, <1>10, <2>1, Stitched
<1>12. ASSUME k = Len(NewFrames(c))
       PROVE  LastId(gs) = NextSeq(Stored(window), since[c], Limit)
  <2>1. k = g + n
      BY <1>2, <1>12
  <2>2. CASE n = 0
    <3>1. k = 0 /\ NextSeq(Stored(window), since[c], Limit) = since[c]
        BY <1>2, <2>1, <2>2
    <3>2. Len(gs) = Len(fs) /\ \A i \in 1..Len(fs) : gs[i] = fs[i]
        BY <1>5, <1>7, <3>1
    <3>3. gs = fs
        BY <1>5, <1>8, <3>2, SeqEqual
    <3> QED  BY <1>10, <3>1, <3>3
  <2>3. CASE n # 0
    <3>1. k > g /\ first + k - g - 1 = first + n - 1
        BY <2>1, <2>3
    <3> QED  BY <1>2, <1>11, <2>3, <3>1
  <2> QED  BY <2>2, <2>3
<1> QED  BY <1>7, <1>11, <1>12
-----------------------------------------------------------------------------
(* Types.                                                                  *)

\* The window keeps its size, and what is in it has been numbered.
LEMMA RecordKeeps ==
    ASSUME NEW w \in Seq(1..MaxSeq), Len(w) <= MaxEvents, NEW e \in 1..MaxSeq
    PROVE  Record(w, e, MaxEvents) \in Seq(1..MaxSeq) /\ Len(Record(w, e, MaxEvents)) <= MaxEvents
<1>1. MaxEvents \in Nat \ {0} /\ Len(w) \in Nat
    BY StreamAssumption
<1>2. CASE Len(w) < MaxEvents
  <2>1. Append(w, e) \in Seq(1..MaxSeq) /\ Len(Append(w, e)) = Len(w) + 1
      OBVIOUS
  <2> QED  BY <1>1, <1>2, <2>1 DEF Record
<1>3. CASE ~(Len(w) < MaxEvents)
  <2>1. w # <<>>
      BY <1>1, <1>3
  <2>2. Tail(w) \in Seq(1..MaxSeq) /\ Len(Tail(w)) = Len(w) - 1
      BY <2>1, HeadTailProperties
  <2>3. Append(Tail(w), e) \in Seq(1..MaxSeq) /\ Len(Append(Tail(w), e)) = Len(w)
      BY <1>1, <2>2, AppendProperties
  <2> QED  BY <1>3, <2>3 DEF Record
<1> QED  BY <1>2, <1>3

\* What the pipeline hands to the store is an event that it accepted.
LEMMA Emitted ==
    ASSUME TypeOK, Pipe!Emit(1)
    PROVE  /\ received' \in [{1} -> Seq(1..MaxSeq)]
           /\ received'[1][Len(received'[1])] \in 1..MaxSeq
<1>1. accepted \in Seq(1..MaxSeq) /\ received \in [{1} -> Seq(1..MaxSeq)]
    BY DEF TypeOK
<1>a. PICK n \in 1..1 : \E f \in [1..n -> DOMAIN accepted] :
        received' = [received EXCEPT ![1] = @ \o [k \in 1..n |-> accepted[f[k]]]]
    BY DEF Pipe!Emit
<1>2. PICK f \in [1..n -> DOMAIN accepted] :
        received' = [received EXCEPT ![1] = @ \o [k \in 1..n |-> accepted[f[k]]]]
    BY <1>a
<1> DEFINE es == [k \in 1..n |-> accepted[f[k]]]
<1>3. n = 1
    OBVIOUS
<1>4. f[1] \in DOMAIN accepted
    BY <1>3
<1>5. es \in Seq(1..MaxSeq) /\ Len(es) = 1 /\ es[1] = accepted[f[1]] /\ es[1] \in 1..MaxSeq
  <2>1. accepted[f[1]] \in 1..MaxSeq
    <3>1. DOMAIN accepted = 1..Len(accepted)
        BY <1>1
    <3> QED  BY <1>1, <1>4, <3>1, ElementOfSeq
  <2>2. es = <<accepted[f[1]]>>
      BY <1>3
  <2> QED  BY <2>1, <2>2
<1> HIDE DEF es
<1>6. received[1] \in Seq(1..MaxSeq)
    BY <1>1
<1>7. /\ received[1] \o es \in Seq(1..MaxSeq)
      /\ Len(received[1] \o es) = Len(received[1]) + 1
      /\ (received[1] \o es)[Len(received[1]) + 1] = es[1]
  <2> DEFINE s == received[1]
  <2>0. s \in Seq(1..MaxSeq) /\ Len(s) \in Nat
      BY <1>6
  <2> HIDE DEF s
  <2>1. /\ s \o es \in Seq(1..MaxSeq) /\ Len(s \o es) = Len(s) + 1
        /\ \A i \in 1..(Len(s) + 1) : (s \o es)[i] = IF i <= Len(s) THEN s[i] ELSE es[i - Len(s)]
    <3>1. es \in Seq(1..MaxSeq) /\ Len(es) = 1
        BY <1>5
    <3> HIDE DEF Pipe!Emit
    <3>2. /\ s \o es \in Seq(1..MaxSeq) /\ Len(s \o es) = Len(s) + Len(es)
          /\ \A i \in 1..(Len(s) + Len(es)) :
                (s \o es)[i] = IF i <= Len(s) THEN s[i] ELSE es[i - Len(s)]
        BY <2>0, <3>1, ConcatProperties
    <3> QED  BY <3>1, <3>2
  <2>2. (Len(s) + 1) \in 1..(Len(s) + 1) /\ ~(Len(s) + 1 <= Len(s)) /\ (Len(s) + 1) - Len(s) = 1
      BY <2>0
  <2>3. (s \o es)[Len(s) + 1] = es[1]
      BY <2>1, <2>2
  <2> QED  BY <2>1, <2>3 DEF s
<1>8. received' = [received EXCEPT ![1] = received[1] \o es]
    BY <1>2 DEF es
<1>9. received'[1] = received[1] \o es
    BY <1>1, <1>8
<1>10. received' \in [{1} -> Seq(1..MaxSeq)]
    BY <1>1, <1>7, <1>8
<1> QED  BY <1>5, <1>7, <1>9, <1>10

LEMMA TypeInit == Init => TypeOK
<1> SUFFICES ASSUME Init PROVE TypeOK
    OBVIOUS
<1>1. MaxSeq \in Nat /\ MaxEvents \in Nat /\ MaxBreaks \in Nat /\ 0 \in 0..MaxSeq /\ 0 \in 0..MaxBreaks
    BY StreamAssumption
<1>2. received \in [{1} -> Seq(1..MaxSeq)]
    BY DEF Init, Pipe!Init
<1>3. /\ accepted \in Seq(1..MaxSeq) /\ lost \subseteq 1..MaxSeq /\ dropped \in Nat
    BY DEF Init, Pipe!Init
<1>4. /\ counter \in 0..MaxSeq /\ hand \in [Threads -> 0..MaxSeq] /\ final \in 0..MaxSeq
    BY <1>1 DEF Init
<1>5. window \in Seq(1..MaxSeq) /\ Len(window) <= MaxEvents /\ finished \in BOOLEAN
  <2>1. window = <<>> /\ finished = FALSE
      BY DEF Init
  <2>2. <<>> \in Seq(1..MaxSeq) /\ Len(<<>>) = 0 /\ 0 <= MaxEvents
      BY <1>1
  <2> QED  BY <2>1, <2>2
<1>6. /\ cpc \in [Clients -> {"away", "read", "check", "done"}]
      /\ since \in [Clients -> 0..MaxSeq]
      /\ frames \in [Clients -> Seq(0..MaxSeq)]
      /\ breaks \in [Clients -> 0..MaxBreaks]
    BY <1>1 DEF Init
<1> QED  BY <1>2, <1>3, <1>4, <1>5, <1>6 DEF TypeOK

LEMMA TypeKeptByProducers ==
    ASSUME TypeOK, NEW t \in Threads, Allocate(t) \/ Finish(t) \/ HandOn(t) \/ Abandon(t)
    PROVE  TypeOK'
<1>0. MaxSeq \in Nat
    BY StreamAssumption
<1> USE DEF prodVars, pipeVars, storeVars, clientVars
<1>1. CASE Allocate(t)
    BY <1>0, <1>1 DEF Allocate, Number, TypeOK
<1>2. CASE Finish(t)
    BY <1>0, <1>2 DEF Finish, Number, TypeOK
<1>3. CASE HandOn(t)
  <2>1. hand[t] \in 1..MaxSeq /\ accepted \in Seq(1..MaxSeq)
      BY <1>0, <1>3 DEF HandOn, TypeOK
  <2>2. accepted' = Append(accepted, hand[t])
      BY <1>3 DEF HandOn, Pipe!Accept
  <2>3. accepted' \in Seq(1..MaxSeq)
      BY <2>1, <2>2
  <2>4. received' = received /\ lost' = lost /\ dropped' = dropped
      BY <1>3 DEF HandOn, Pipe!Accept
  <2> QED  BY <1>0, <1>3, <2>3, <2>4 DEF HandOn, TypeOK
<1>4. CASE Abandon(t)
    BY <1>0, <1>4 DEF Abandon, TypeOK
<1> QED  BY <1>1, <1>2, <1>3, <1>4

LEMMA TypeKeptByPipeline ==
    ASSUME TypeOK, Lose \/ Apply
    PROVE  TypeOK'
<1> USE DEF prodVars, pipeVars, storeVars, clientVars
<1>1. CASE Lose
  <2>1. PICK e \in Stored(accepted) : Pipe!Lose(e)
      BY <1>1 DEF Lose
  <2>2. e \in 1..MaxSeq
    <3>1. accepted \in Seq(1..MaxSeq) /\ DOMAIN accepted = 1..Len(accepted)
        BY DEF TypeOK
    <3>2. PICK i \in 1..Len(accepted) : e = accepted[i]
        BY <2>1, <3>1 DEF Stored
    <3> QED  BY <3>1, <3>2, ElementOfSeq
  <2>3. lost' = lost \cup {e} /\ dropped' = dropped + 1 /\ UNCHANGED <<accepted, received>>
      BY <2>1 DEF Pipe!Lose
  <2> QED  BY <1>1, <2>2, <2>3 DEF Lose, TypeOK
<1>2. CASE Apply
  <2>1. Pipe!Emit(1)
      BY <1>2 DEF Apply
  <2>2. /\ received' \in [{1} -> Seq(1..MaxSeq)]
        /\ received'[1][Len(received'[1])] \in 1..MaxSeq
      BY <2>1, Emitted
  <2>3. /\ window' = Record(window, received'[1][Len(received'[1])], MaxEvents)
        /\ finished' = (finished \/ received'[1][Len(received'[1])] = final)
      BY <1>2 DEF Apply
  <2>4. window' \in Seq(1..MaxSeq) /\ Len(window') <= MaxEvents
      BY <2>2, <2>3, RecordKeeps DEF TypeOK
  <2>5. finished' \in BOOLEAN
      BY <2>3 DEF TypeOK
  <2>6. UNCHANGED <<accepted, lost, dropped>>
      BY <2>1 DEF Pipe!Emit
  <2> QED  BY <1>2, <2>2, <2>4, <2>5, <2>6 DEF Apply, TypeOK
<1> QED  BY <1>1, <1>2
LEMMA TypeKeptByClients ==
    ASSUME TypeOK, NEW c \in Clients, Connect(c) \/ CheckFinished(c)
    PROVE  TypeOK'
<1> USE DEF prodVars, pipeVars, storeVars, clientVars
<1>1. CASE Connect(c)
  <2>1. LastId(frames[c]) \in 0..MaxSeq
      BY StreamAssumption, LastIdIsANumber DEF TypeOK
  <2> QED  BY <1>1, <2>1 DEF Connect, TypeOK
<1>2. CASE CheckFinished(c)
    BY <1>2 DEF CheckFinished, TypeOK
<1> QED  BY <1>1, <1>2

-----------------------------------------------------------------------------
(* The invariant.                                                          *)

\* While a client is connected, its cursor stands at the last event it
\* received.
Following == \A c \in Clients : cpc[c] \in {"read", "check"} => since[c] = LastId(frames[c])

IInv == TypeOK /\ Following /\ FramesAreContiguous

LEMMA ContiguousFrames ==
    FramesAreContiguous <=> \A c \in Clients : Contiguously(frames[c])
BY DEF FramesAreContiguous, Contiguously, FollowsAt

LEMMA ContiguousFramesNext ==
    FramesAreContiguous' <=> \A c \in Clients : Contiguously(frames'[c])
BY DEF FramesAreContiguous, Contiguously, FollowsAt, LastId

LEMMA StreamInit == Init => IInv
<1> SUFFICES ASSUME Init PROVE IInv
    OBVIOUS
<1>1. \A c \in Clients : frames[c] = <<>> /\ cpc[c] = "away"
    BY DEF Init
<1>2. \A c \in Clients : Contiguously(frames[c])
    BY <1>1 DEF Contiguously
<1> QED  BY <1>1, <1>2, TypeInit, ContiguousFrames DEF IInv, Following

\* A page, and the part of one that a connection carried before it broke.
LEMMA KeptByReading ==
    ASSUME IInv, NEW c \in Clients, ReadEvents(c)
    PROVE  IInv'
<1>0. TypeOK /\ Following /\ \A d \in Clients : Contiguously(frames[d])
    BY ContiguousFrames DEF IInv
<1> DEFINE gs == frames[c] \o NewFrames(c)
<1>1. since[c] = LastId(frames[c]) /\ Contiguously(frames[c])
    BY <1>0 DEF ReadEvents, Following
<1>2. PICK g \in {0, 1}, first \in Nat \ {0}, n \in Nat : PageIs(c, g, first, n)
    BY <1>0, PageRead
<1>3. /\ NewFrames(c) \in Seq(0..MaxSeq) /\ Len(NewFrames(c)) \in Nat
      /\ NextSeq(Stored(window), since[c], Limit) \in 0..MaxSeq
  <2>1. /\ NewFrames(c) \in Seq(0..MaxSeq) /\ Len(NewFrames(c)) = g + n
        /\ NextSeq(Stored(window), since[c], Limit) = IF n = 0 THEN since[c] ELSE first + n - 1
        /\ first + n - 1 <= MaxSeq
      BY <1>2 DEF PageIs
  <2>2. since[c] \in 0..MaxSeq /\ MaxSeq \in Nat
      BY <1>0, StreamAssumption DEF TypeOK
  <2> QED  BY <2>1, <2>2
<1>4. SubSeq(NewFrames(c), 1, Len(NewFrames(c))) = NewFrames(c)
    BY <1>3, SubSeqFull
<1>5. /\ gs \in Seq(0..MaxSeq) /\ Contiguously(gs)
      /\ LastId(gs) = NextSeq(Stored(window), since[c], Limit)
  <2>1. Len(NewFrames(c)) \in 0..Len(NewFrames(c))
      BY <1>3
  <2> QED  BY <1>0, <1>1, <1>4, <2>1, PageSent
<1> HIDE DEF gs
<1>6. /\ frames' = [frames EXCEPT ![c] = gs]
      /\ since' = [since EXCEPT ![c] = NextSeq(Stored(window), since[c], Limit)]
      /\ cpc' = [cpc EXCEPT ![c] = IF NewFrames(c) = <<>> THEN "check" ELSE "read"]
      /\ UNCHANGED <<prodVars, pipeVars, storeVars, breaks>>
      /\ cpc[c] = "read"
    BY DEF ReadEvents, gs
<1>7. /\ frames \in [Clients -> Seq(0..MaxSeq)] /\ since \in [Clients -> 0..MaxSeq]
      /\ cpc \in [Clients -> {"away", "read", "check", "done"}]
    BY <1>0 DEF TypeOK
<1>8. /\ frames' \in [Clients -> Seq(0..MaxSeq)] /\ since' \in [Clients -> 0..MaxSeq]
      /\ cpc' \in [Clients -> {"away", "read", "check", "done"}]
    BY <1>3, <1>5, <1>6, <1>7
<1>9. TypeOK'
    BY <1>0, <1>6, <1>8 DEF TypeOK, prodVars, pipeVars, storeVars
<1>10. \A d \in Clients : Contiguously(frames'[d])
  <2> SUFFICES ASSUME NEW d \in Clients PROVE Contiguously(frames'[d])
      OBVIOUS
  <2>1. frames'[d] = IF d = c THEN gs ELSE frames[d]
      BY <1>6, <1>7
  <2> QED  BY <1>0, <1>5, <2>1
<1>11. ASSUME NEW d \in Clients, cpc'[d] \in {"read", "check"}
       PROVE  since'[d] = LastId(frames'[d])
  <2>1. CASE d = c
    <3>1. since'[d] = NextSeq(Stored(window), since[c], Limit) /\ frames'[d] = gs
        BY <1>6, <1>7, <2>1
    <3> QED  BY <1>5, <3>1
  <2>2. CASE d # c
    <3>1. since'[d] = since[d] /\ frames'[d] = frames[d] /\ cpc'[d] = cpc[d]
        BY <1>6, <1>7, <2>2
    <3> QED  BY <1>0, <1>11, <3>1 DEF Following
  <2> QED  BY <2>1, <2>2
<1>12. Following'
    BY <1>11 DEF Following, LastId
<1> QED  BY <1>9, <1>10, <1>12, ContiguousFramesNext DEF IInv

LEMMA KeptByBreaking ==
    ASSUME IInv, NEW c \in Clients, Break(c)
    PROVE  IInv'
<1>0. TypeOK /\ Following /\ \A d \in Clients : Contiguously(frames[d])
    BY ContiguousFrames DEF IInv
<1>1. /\ cpc' = [cpc EXCEPT ![c] = "away"]
      /\ breaks' = [breaks EXCEPT ![c] = @ + 1]
      /\ breaks[c] < MaxBreaks /\ cpc[c] \in {"read", "check"}
      /\ UNCHANGED <<prodVars, pipeVars, storeVars, since>>
    BY DEF Break
<1>2. /\ frames \in [Clients -> Seq(0..MaxSeq)]
      /\ cpc \in [Clients -> {"away", "read", "check", "done"}]
      /\ breaks \in [Clients -> 0..MaxBreaks] /\ MaxBreaks \in Nat
    BY <1>0, StreamAssumption DEF TypeOK
<1>3. PICK gs : /\ frames' = [frames EXCEPT ![c] = gs]
                /\ gs \in Seq(0..MaxSeq) /\ Contiguously(gs)
  <2>1. CASE UNCHANGED frames
    <3>1. frames' = [frames EXCEPT ![c] = frames[c]]
        BY <1>2, <2>1
    <3>2. frames[c] \in Seq(0..MaxSeq)
        BY <1>2
    <3> QED  BY <1>0, <3>1, <3>2
  <2>2. CASE \E k \in DOMAIN NewFrames(c) :
               frames' = [frames EXCEPT ![c] = @ \o SubSeq(NewFrames(c), 1, k)]
    <3>1. PICK k \in DOMAIN NewFrames(c) :
               frames' = [frames EXCEPT ![c] = @ \o SubSeq(NewFrames(c), 1, k)]
        BY <2>2
    <3>2. PICK g \in {0, 1}, first \in Nat \ {0}, n \in Nat : PageIs(c, g, first, n)
        BY <1>0, PageRead
    <3>3. NewFrames(c) \in Seq(0..MaxSeq)
        BY <3>2 DEF PageIs
    <3>4. k \in 0..Len(NewFrames(c))
        BY <3>3
    <3> DEFINE gs == frames[c] \o SubSeq(NewFrames(c), 1, k)
    <3>5. since[c] = LastId(frames[c]) /\ Contiguously(frames[c])
        BY <1>0, <1>1 DEF Following
    <3>6. gs \in Seq(0..MaxSeq) /\ Contiguously(gs)
        BY <1>0, <3>4, <3>5, PageSent
    <3>7. frames' = [frames EXCEPT ![c] = gs]
        BY <3>1
    <3> QED  BY <3>6, <3>7
  <2> QED  BY <2>1, <2>2 DEF Break
<1>4. /\ frames' \in [Clients -> Seq(0..MaxSeq)]
      /\ cpc' \in [Clients -> {"away", "read", "check", "done"}]
      /\ breaks' \in [Clients -> 0..MaxBreaks]
    BY <1>1, <1>2, <1>3
<1>5. TypeOK'
    BY <1>0, <1>1, <1>4 DEF TypeOK, prodVars, pipeVars, storeVars
<1>6. \A d \in Clients : Contiguously(frames'[d])
  <2> SUFFICES ASSUME NEW d \in Clients PROVE Contiguously(frames'[d])
      OBVIOUS
  <2>1. frames'[d] = IF d = c THEN gs ELSE frames[d]
      BY <1>2, <1>3
  <2> QED  BY <1>0, <1>3, <2>1
<1>7. ASSUME NEW d \in Clients, cpc'[d] \in {"read", "check"}
      PROVE  since'[d] = LastId(frames'[d])
  <2>1. d # c
      BY <1>1, <1>2, <1>7
  <2>2. since'[d] = since[d] /\ frames'[d] = frames[d] /\ cpc'[d] = cpc[d]
      BY <1>1, <1>2, <1>3, <2>1
  <2> QED  BY <1>0, <1>7, <2>2 DEF Following
<1>8. Following'
    BY <1>7 DEF Following, LastId
<1> QED  BY <1>5, <1>6, <1>8, ContiguousFramesNext DEF IInv

\* Whoever does not touch a client's frames leaves the client where it is,
\* and one that connects begins where it left off.
LEMMA KeptByOthers ==
    ASSUME IInv, TypeOK', UNCHANGED frames,
           \/ UNCHANGED <<cpc, since>>
           \/ \E c \in Clients : Connect(c) \/ CheckFinished(c)
    PROVE  IInv'
<1>0. TypeOK /\ Following /\ \A d \in Clients : Contiguously(frames[d])
    BY ContiguousFrames DEF IInv
<1>1. \A d \in Clients : Contiguously(frames'[d])
    BY <1>0
<1>2. ASSUME NEW d \in Clients, cpc'[d] \in {"read", "check"}
      PROVE  since'[d] = LastId(frames'[d])
  <2>1. CASE UNCHANGED <<cpc, since>>
      BY <1>0, <1>2, <2>1 DEF Following
  <2>2. ASSUME NEW c \in Clients, Connect(c) PROVE since'[d] = LastId(frames'[d])
      BY <1>0, <1>2, <2>2 DEF Following, Connect, TypeOK
  <2>3. ASSUME NEW c \in Clients, CheckFinished(c) PROVE since'[d] = LastId(frames'[d])
      BY <1>0, <1>2, <2>3 DEF Following, CheckFinished, TypeOK
  <2> QED  BY <2>1, <2>2, <2>3
<1>3. Following'
    BY <1>2 DEF Following, LastId
<1> QED  BY <1>1, <1>3, ContiguousFramesNext DEF IInv

LEMMA StreamNext == IInv /\ [Next]_vars => IInv'
<1> SUFFICES ASSUME IInv, [Next]_vars PROVE IInv'
    OBVIOUS
<1>0. TypeOK
    BY DEF IInv
<1>1. ASSUME NEW t \in Threads, Allocate(t) \/ Finish(t) \/ HandOn(t) \/ Abandon(t)
      PROVE  IInv'
  <2>1. UNCHANGED clientVars
      BY <1>1 DEF Allocate, Finish, Number, HandOn, Abandon
  <2>2. TypeOK'
      BY <1>0, <1>1, TypeKeptByProducers
  <2> QED  BY <2>1, <2>2, KeptByOthers DEF clientVars
<1>2. CASE Lose \/ Apply
  <2>1. UNCHANGED clientVars
      BY <1>2 DEF Lose, Apply
  <2>2. TypeOK'
      BY <1>0, <1>2, TypeKeptByPipeline
  <2> QED  BY <2>1, <2>2, KeptByOthers DEF clientVars
<1>3. ASSUME NEW c \in Clients, Connect(c) \/ CheckFinished(c) PROVE IInv'
  <2>1. UNCHANGED frames
      BY <1>3 DEF Connect, CheckFinished
  <2>2. TypeOK'
      BY <1>0, <1>3, TypeKeptByClients
  <2> QED  BY <1>3, <2>1, <2>2, KeptByOthers
<1>4. ASSUME NEW c \in Clients, ReadEvents(c) PROVE IInv'
    BY <1>4, KeptByReading
<1>5. ASSUME NEW c \in Clients, Break(c) PROVE IInv'
    BY <1>5, KeptByBreaking
<1>6. CASE UNCHANGED vars
  <2>1. TypeOK'
      BY <1>0, <1>6 DEF TypeOK, vars, prodVars, pipeVars, storeVars, clientVars
  <2> QED  BY <1>6, <2>1, KeptByOthers DEF vars, clientVars
<1> QED  BY <1>1, <1>2, <1>3, <1>4, <1>5, <1>6 DEF Next, Poll

\* Every variable of the stream keeps its type, and the window never
\* outgrows max_events_per_run, for any threads, clients, sizes and losses.
THEOREM TypeCorrect == Spec => []TypeOK
<1>1. IInv => TypeOK
    BY DEF IInv
<1> QED  BY <1>1, StreamInit, StreamNext, PTL DEF Spec

\* No client ever stitches a hole into a history that it believes to be
\* continuous, and none receives an event twice (contiguous_from(), the gap
\* frame, and Last-Event-ID on reconnecting).
THEOREM NoClientIsMisled == Spec => []FramesAreContiguous
<1>1. IInv => FramesAreContiguous
    BY DEF IInv
<1> QED  BY <1>1, StreamInit, StreamNext, PTL DEF Spec

-----------------------------------------------------------------------------
(* The page as the code computes it.  contiguous_from() is a loop over the *)
(* sorted window; what it has taken after i events is an unbroken run, and *)
(* once it stops there is nothing more to take.                            *)

Start(expected) == [taken |-> <<>>, expected |-> expected, stop |-> FALSE]

\* The states of the loop over the first m events.
Loops(f, s, expected, limit, m) ==
    f = [i \in 0..m |-> IF i = 0 THEN Start(expected) ELSE Visit(f[i - 1], s[i], limit)]

LEMMA LoopExists ==
    ASSUME NEW s, NEW expected, NEW limit, NEW N \in Nat
    PROVE  \E f : Loops(f, s, expected, limit, N)
<1> DEFINE Bad == {m \in 0..N : ~ \E f : Loops(f, s, expected, limit, m)}
<1>1. Bad = {}
  <2> SUFFICES ASSUME Bad # {} PROVE FALSE
      OBVIOUS
  <2>1. Bad \in SUBSET Nat
      OBVIOUS
  <2>2. PICK m \in Bad : \A k \in Bad : m <= k
      BY <2>1, Smallest
  <2>3. m \in 0..N /\ ~ \E f : Loops(f, s, expected, limit, m)
      OBVIOUS
  <2>4. CASE m = 0
    <3> DEFINE g == [i \in 0..0 |-> Start(expected)]
    <3>1. g = [i \in 0..0 |-> IF i = 0 THEN Start(expected) ELSE Visit(g[i - 1], s[i], limit)]
        OBVIOUS
    <3> QED  BY <2>3, <2>4, <3>1 DEF Loops
  <2>5. CASE m # 0
    <3>1. m - 1 \in 0..N /\ m - 1 \notin Bad
      <4>1. m - 1 \in 0..N /\ ~(m <= m - 1)
          BY <2>3, <2>5
      <4> QED  BY <2>2, <4>1
    <3>2. PICK f : Loops(f, s, expected, limit, m - 1)
        BY <3>1
    <3> DEFINE g == [i \in 0..m |-> IF i = m THEN Visit(f[m - 1], s[m], limit) ELSE f[i]]
    <3>3. \A i \in 0..(m - 1) :
            f[i] = IF i = 0 THEN Start(expected) ELSE Visit(f[i - 1], s[i], limit)
        BY <3>2 DEF Loops
    <3>4. \A i \in 0..m :
            g[i] = IF i = 0 THEN Start(expected) ELSE Visit(g[i - 1], s[i], limit)
      <4> SUFFICES ASSUME NEW i \in 0..m
                   PROVE  g[i] = IF i = 0 THEN Start(expected) ELSE Visit(g[i - 1], s[i], limit)
          OBVIOUS
      <4>1. i # 0 => i - 1 \in 0..m /\ i - 1 # m
          BY <2>3
      <4>2. CASE i = m
          BY <2>3, <2>5, <4>1, <4>2
      <4>3. CASE i # m
        <5>1. i \in 0..(m - 1)
            BY <2>3, <4>3
        <5> QED  BY <3>3, <4>1, <4>3, <5>1
      <4> QED  BY <4>2, <4>3
    <3>5. Loops(g, s, expected, limit, m)
      <4>1. g = [i \in 0..m |-> g[i]]
          OBVIOUS
      <4> HIDE DEF g
      <4>2. [i \in 0..m |-> g[i]] =
            [i \in 0..m |-> IF i = 0 THEN Start(expected) ELSE Visit(g[i - 1], s[i], limit)]
          BY <3>4
      <4> QED  BY <4>1, <4>2 DEF Loops
    <3> QED  BY <2>3, <3>5
  <2> QED  BY <2>4, <2>5
<1> QED  BY <1>1

\* m events have been taken, all that there are from expected on if the loop
\* has not stopped; if it has, the page is full or the next event missing.
Took(state, seen, S, expected, limit, m) ==
    /\ m \in 0..limit /\ state.stop \in BOOLEAN
    /\ state = [taken    |-> [k \in 1..m |-> expected + k - 1],
                expected |-> expected + m,
                stop     |-> state.stop]
    /\ \A k \in expected..(expected + m - 1) : k \in S
    /\ IF state.stop THEN m = limit \/ expected + m \notin S
                     ELSE m < limit /\ \A n \in seen : n < expected + m

\* The next event of S in the order of numbers, or one of the same number.
NextOf(e, seen, S) ==
    /\ S \in SUBSET Nat /\ seen \in SUBSET S /\ e \in S
    /\ \A n \in S : n \in seen \/ e <= n
    /\ \A n \in seen : n <= e

LEMMA OneVisit ==
    ASSUME NEW S, NEW seen, NEW e, NextOf(e, seen, S),
           NEW expected \in Nat, NEW limit \in Nat \ {0},
           NEW state, NEW m, Took(state, seen, S, expected, limit, m)
    PROVE  \E k : Took(Visit(state, e, limit), seen \cup {e}, S, expected, limit, k)
<1>a. /\ S \in SUBSET Nat /\ seen \in SUBSET S /\ e \in S
      /\ (\A n \in S : n \in seen \/ e <= n) /\ \A n \in seen : n <= e
    BY DEF NextOf
<1> USE <1>a
<1> DEFINE next == Visit(state, e, limit)
<1>0. /\ m \in Nat /\ m <= limit /\ e \in Nat
      /\ state.stop \in BOOLEAN /\ state.expected = expected + m /\ state.taken = [k \in 1..m |-> expected + k - 1]
      /\ state = [taken |-> [k \in 1..m |-> expected + k - 1], expected |-> expected + m, stop |-> state.stop]
    BY DEF Took
<1>1. CASE state.stop
  <2>1. next = state
      BY <1>1 DEF Visit
  <2> QED  BY <1>1, <2>1 DEF Took
<1>2. CASE ~state.stop /\ e < expected + m
  <2>1. next = state
      BY <1>0, <1>2 DEF Visit
  <2>2. \A n \in seen \cup {e} : n < expected + m
      BY <1>2 DEF Took
  <2>3. Took(next, seen \cup {e}, S, expected, limit, m)
      BY <1>2, <2>1, <2>2 DEF Took
  <2> QED  BY <2>1, <2>3
<1>3. CASE ~state.stop /\ e > expected + m
  <2>1. next = [state EXCEPT !.stop = TRUE]
      BY <1>0, <1>3 DEF Visit
  <2>2. next = [taken |-> [k \in 1..m |-> expected + k - 1], expected |-> expected + m, stop |-> TRUE]
        /\ next.stop = TRUE
      BY <1>0, <2>1
  <2>3. expected + m \notin S
    <3>1. expected + m \in Nat /\ ~(expected + m < expected + m) /\ ~(e <= expected + m)
        BY <1>0, <1>3
    <3>2. \A n \in seen : n < expected + m
        BY <1>3 DEF Took
    <3> QED  BY <3>1, <3>2
  <2> HIDE DEF next
  <2>4. Took(next, seen \cup {e}, S, expected, limit, m)
      BY <2>2, <2>3 DEF Took
  <2> QED  BY <2>4 DEF next
<1>4. CASE ~state.stop /\ e = expected + m
  <2> DEFINE t == [k \in 1..m |-> expected + k - 1]
             u == [k \in 1..(m + 1) |-> expected + k - 1]
  <2>1. t \in Seq(Nat) /\ Len(t) = m
      BY <1>0
  <2>2. Append(t, e) = u
    <3>1. /\ Append(t, e) \in Seq(Nat) /\ DOMAIN Append(t, e) = 1..(m + 1)
          /\ \A k \in 1..m : Append(t, e)[k] = t[k]
          /\ Append(t, e)[m + 1] = e
        BY <1>0, <2>1, AppendProperties
    <3>2. \A k \in 1..(m + 1) : Append(t, e)[k] = expected + k - 1
        BY <1>0, <1>4, <3>1
    <3>3. Append(t, e) = [k \in 1..(m + 1) |-> Append(t, e)[k]]
      <4> DEFINE a == Append(t, e)
      <4>1. a \in Seq(Nat) /\ DOMAIN a = 1..(m + 1)
          BY <3>1
      <4> HIDE DEF a
      <4>2. a = [k \in DOMAIN a |-> a[k]]
          BY <4>1
      <4> QED  BY <4>1, <4>2 DEF a
    <3> HIDE DEF t
    <3> QED  BY <3>2, <3>3
  <2>3. next = [taken |-> Append(t, e), expected |-> e + 1, stop |-> m + 1 >= limit]
    <3>1. state.taken = t /\ ~(e < state.expected) /\ e = state.expected
        BY <1>0, <1>4
    <3> QED  BY <1>4, <2>1, <3>1 DEF Visit
  <2>4. next = [taken |-> u, expected |-> expected + (m + 1), stop |-> next.stop]
        /\ next.stop = (m + 1 >= limit) /\ next.stop \in BOOLEAN
    <3> HIDE DEF t, u, next
    <3>1. e + 1 = expected + (m + 1) /\ (m + 1 >= limit) \in BOOLEAN
        BY <1>0, <1>4
    <3>2. next.stop = (m + 1 >= limit)
        BY <2>3
    <3> QED  BY <2>2, <2>3, <3>1, <3>2
  <2>5. m < limit /\ \A n \in seen : n < expected + m
      BY <1>4 DEF Took
  <2>6. \A k \in expected..(expected + (m + 1) - 1) : k \in S
    <3>1. \A k \in expected..(expected + m - 1) : k \in S
        BY DEF Took
    <3> QED  BY <1>0, <1>4, <3>1
  <2>7. m + 1 \in 0..limit /\ (next.stop => m + 1 = limit) /\ (~next.stop => m + 1 < limit)
    <3> HIDE DEF t, u, next
    <3>1. next.stop <=> m + 1 >= limit
        BY <2>4
    <3> QED  BY <1>0, <2>5, <3>1
  <2>8. \A n \in seen \cup {e} : n < expected + (m + 1)
      BY <1>0, <1>4, <2>5
  <2> HIDE DEF next
  <2>9. Took(next, seen \cup {e}, S, expected, limit, m + 1)
      BY <2>4, <2>6, <2>7, <2>8 DEF Took
  <2> QED  BY <2>9 DEF next
<1>5. e < expected + m \/ e > expected + m \/ e = expected + m
    BY <1>0
<1> QED  BY <1>1, <1>2, <1>3, <1>4, <1>5

\* Whatever the sorted window, what the loop takes is the unbroken run.
LEMMA LoopTakesTheRun ==
    ASSUME NEW s \in Seq(Nat), \A i, j \in DOMAIN s : i < j => s[i] <= s[j],
           NEW expected \in Nat, NEW limit \in Nat \ {0}
    PROVE  LoopContiguous(s, expected, limit) = Ascending(Contiguous(Stored(s), expected, limit))
<1> DEFINE N == Len(s)
           S == Stored(s)
           Seen(i) == {s[j] : j \in 1..i}
<1>0. N \in Nat /\ DOMAIN s = 1..N /\ (\A i \in 1..N : s[i] \in Nat) /\ S \in SUBSET Nat
    BY DEF Stored
<1> DEFINE after == CHOOSE f : f = [i \in 0..N |->
                        IF i = 0 THEN [taken |-> <<>>, expected |-> expected, stop |-> FALSE]
                                 ELSE Visit(f[i - 1], s[i], limit)]
<1>1. LoopContiguous(s, expected, limit) = after[N].taken
    BY DEF LoopContiguous
<1>2. \E f : f = [i \in 0..N |->
                    IF i = 0 THEN [taken |-> <<>>, expected |-> expected, stop |-> FALSE]
                             ELSE Visit(f[i - 1], s[i], limit)]
  <2> HIDE DEF N
  <2>1. \E f : Loops(f, s, expected, limit, N)
      BY <1>0, LoopExists
  <2> QED  BY <2>1 DEF Loops, Start
<1>3. after = [i \in 0..N |->
                    IF i = 0 THEN [taken |-> <<>>, expected |-> expected, stop |-> FALSE]
                             ELSE Visit(after[i - 1], s[i], limit)]
    BY <1>2
<1> HIDE DEF after
<1>4. /\ after[0] = Start(expected)
      /\ \A i \in 1..N : after[i] = Visit(after[i - 1], s[i], limit)
  <2>1. 0 \in 0..N /\ \A i \in 1..N : i \in 0..N /\ i # 0
      BY <1>0
  <2> QED  BY <1>3, <2>1 DEF Start
<1> DEFINE Good(i) == \E m : Took(after[i], Seen(i), S, expected, limit, m)
           Bad == {i \in 0..N : ~Good(i)}
<1>5. Bad = {}
  <2> SUFFICES ASSUME Bad # {} PROVE FALSE
      OBVIOUS
  <2>1. Bad \in SUBSET Nat
      BY <1>0
  <2>2. PICK i \in Bad : \A k \in Bad : i <= k
      BY <2>1, Smallest
  <2>3. i \in 0..N /\ ~Good(i)
      OBVIOUS
  <2>4. CASE i = 0
    <3>1. Seen(0) = {} /\ after[0] = [taken |-> <<>>, expected |-> expected, stop |-> FALSE]
        BY <1>4 DEF Start
    <3>2. <<>> = [k \in 1..0 |-> expected + k - 1]
        OBVIOUS
    <3>3. after[0] = [taken    |-> [k \in 1..0 |-> expected + k - 1],
                      expected |-> expected + 0,
                      stop     |-> after[0].stop] /\ after[0].stop = FALSE
        BY <3>1, <3>2
    <3>4. Took(after[0], {}, S, expected, limit, 0)
      <4> DEFINE first == after[0]
      <4>1. expected..(expected + 0 - 1) = {} /\ 0 \in 0..limit /\ 0 < limit
          OBVIOUS
      <4>2. first.stop = FALSE /\ first = [taken    |-> [k \in 1..0 |-> expected + k - 1],
                                          expected |-> expected + 0,
                                          stop     |-> first.stop]
          BY <3>3
      <4> HIDE DEF first
      <4>3. Took(first, {}, S, expected, limit, 0)
          BY <4>1, <4>2 DEF Took
      <4> QED  BY <4>3 DEF first
    <3> QED  BY <2>3, <2>4, <3>1, <3>3, <3>4
  <2>5. CASE i # 0
    <3>1. i - 1 \in 0..N /\ i - 1 \notin Bad /\ i \in 1..N
      <4>1. i - 1 \in 0..N /\ ~(i <= i - 1) /\ i \in 1..N
          BY <1>0, <2>3, <2>5
      <4> QED  BY <2>2, <4>1
    <3>2. Good(i - 1)
        BY <3>1
    <3>3. PICK m : Took(after[i - 1], Seen(i - 1), S, expected, limit, m)
        BY <3>2
    <3>4. /\ Seen(i - 1) \in SUBSET S /\ s[i] \in S
          /\ Seen(i) = Seen(i - 1) \cup {s[i]}
      <4>1. \A j : j \in 1..i <=> j \in 1..(i - 1) \/ j = i
          BY <1>0, <3>1
      <4>2. \A j \in 1..i : j \in DOMAIN s
          BY <1>0, <3>1
      <4> QED  BY <4>1, <4>2 DEF Stored
    <3>5. \A n \in S : n \in Seen(i - 1) \/ s[i] <= n
      <4> SUFFICES ASSUME NEW j \in 1..N PROVE s[j] \in Seen(i - 1) \/ s[i] <= s[j]
          BY <1>0 DEF Stored
      <4>1. j \in 1..(i - 1) \/ j = i \/ i < j
          BY <1>0, <3>1
      <4>2. i < j => s[i] <= s[j]
          BY <1>0, <3>1
      <4>3. s[i] \in Nat
          BY <1>0, <3>1
      <4> QED  BY <4>1, <4>2, <4>3
    <3>6. \A n \in Seen(i - 1) : n <= s[i]
      <4> SUFFICES ASSUME NEW j \in 1..(i - 1) PROVE s[j] <= s[i]
          OBVIOUS
      <4>1. j \in DOMAIN s /\ j < i
          BY <1>0, <3>1
      <4> QED  BY <1>0, <3>1, <4>1
    <3>7. after[i] = Visit(after[i - 1], s[i], limit)
        BY <1>4, <3>1
    <3> HIDE DEF Seen, S
    <3> DEFINE before == after[i - 1]
               seen == Seen(i - 1)
               e == s[i]
    <3>8. \E k : Took(Visit(before, s[i], limit), Seen(i - 1) \cup {s[i]}, S, expected, limit, k)
      <4>1. /\ Took(before, seen, S, expected, limit, m)
            /\ NextOf(e, seen, S)
          BY <1>0, <3>3, <3>4, <3>5, <3>6, <3>7 DEF NextOf
      <4> HIDE DEF before, seen, e
      <4>2. \E k : Took(Visit(before, e, limit), seen \cup {e}, S, expected, limit, k)
          BY <4>1, OneVisit
      <4> QED  BY <4>2 DEF before, seen, e
    <3>9. Good(i)
        BY <3>4, <3>7, <3>8
    <3> QED  BY <2>3, <3>9
  <2> QED  BY <2>4, <2>5
<1>6. Good(N)
  <2>1. N \in 0..N
      BY <1>0
  <2> HIDE DEF Good
  <2> QED  BY <1>5, <2>1
<1>7. Seen(N) = S
    BY <1>0 DEF Stored
<1> HIDE DEF S
<1>8. PICK m : Took(after[N], S, S, expected, limit, m)
    BY <1>6, <1>7
<1>9. /\ m \in Nat /\ m <= limit
      /\ after[N].taken = [k \in 1..m |-> expected + k - 1]
      /\ \A k \in expected..(expected + m - 1) : k \in S
      /\ m = limit \/ expected + m \notin S
  <2> DEFINE last == after[N]
  <2>1. Took(last, S, S, expected, limit, m)
      BY <1>8
  <2> HIDE DEF last, N
  <2>2. /\ m \in Nat /\ m <= limit
        /\ last = [taken    |-> [k \in 1..m |-> expected + k - 1],
                   expected |-> expected + m,
                   stop     |-> last.stop]
        /\ \A k \in expected..(expected + m - 1) : k \in S
      BY <2>1 DEF Took
  <2>3. m = limit \/ expected + m \notin S
    <3>1. last.stop => m = limit \/ expected + m \notin S
        BY <2>1 DEF Took
    <3>2. ~last.stop => \A n \in S : n < expected + m
        BY <2>1 DEF Took
    <3>3. ~(expected + m < expected + m)
        BY <2>2
    <3> QED  BY <3>1, <3>2, <3>3
  <2>4. last.taken = [k \in 1..m |-> expected + k - 1]
      BY <2>2
  <2> QED  BY <2>2, <2>3, <2>4 DEF last
<1>10. Contiguous(S, expected, limit) = expected..(expected + m - 1)
  <2>1. ASSUME NEW n \in expected..(expected + m - 1)
        PROVE  n \in Contiguous(S, expected, limit)
    <3>1. n \in S /\ expected <= n /\ n < expected + limit
        BY <1>9, <2>1
    <3>2. \A k \in expected..n : k \in S
        BY <1>9, <2>1
    <3> QED  BY <3>1, <3>2 DEF Contiguous
  <2>2. ASSUME NEW n \in Contiguous(S, expected, limit)
        PROVE  n \in expected..(expected + m - 1)
    <3>1. n \in Nat /\ expected <= n /\ n < expected + limit /\ \A k \in expected..n : k \in S
        BY <1>0, <2>2 DEF Contiguous
    <3>2. expected + m <= n => m # limit /\ expected + m \in S
        BY <1>9, <3>1
    <3> QED  BY <1>9, <3>1, <3>2
  <2> QED  BY <2>1, <2>2
<1>11. Ascending(expected..(expected + m - 1)) = [k \in 1..m |-> expected + k - 1]
  <2>1. CASE m = 0
    <3>1. expected..(expected + m - 1) = {} /\ [k \in 1..m |-> expected + k - 1] = <<>>
        BY <2>1
    <3>4. \A f \in [1..0 -> {}] : f = <<>>
        OBVIOUS
    <3>2. Cardinality({}) = 0 /\ IsFiniteSet({})
        BY FS_EmptySet
    <3>3. Ascending({}) \in [1..0 -> {}]
        BY <3>2, AscendingSorts DEF Sorts
    <3> QED  BY <3>1, <3>3, <3>4
  <2>2. CASE m # 0
    <3>1. expected + m - 1 \in Nat /\ expected <= expected + m - 1
          /\ (expected + m - 1) - expected + 1 = m
        BY <1>9, <2>2
    <3> QED  BY <3>1, AscendingCounts
  <2> QED  BY <2>1, <2>2
<1> QED  BY <1>1, <1>9, <1>10, <1>11 DEF S

\* The page of a window is what the code returns of it sorted.
LEMMA LoopGivesThePage ==
    ASSUME NEW w \in Seq(Nat), NEW s \in Sortings(w), NEW from \in Nat, NEW limit \in Nat \ {0}
    PROVE  LoopPage(s, from, limit) = Ascending(Page(Stored(w), from, limit))
<1>1. /\ s \in [1..Len(w) -> Stored(w)] /\ Stored(s) = Stored(w) /\ Stored(w) \in SUBSET Nat
      /\ Len(w) \in Nat /\ DOMAIN w = 1..Len(w)
      /\ \A i, j \in 1..Len(w) : i < j => s[i] <= s[j]
  <2>1. /\ s \in [DOMAIN w -> Stored(w)] /\ Stored(s) = Stored(w)
        /\ \A i, j \in DOMAIN w : i < j => s[i] <= s[j]
      BY DEF Sortings
  <2>2. Len(w) \in Nat /\ DOMAIN w = 1..Len(w) /\ Stored(w) \in SUBSET Nat
      BY DEF Stored
  <2> QED  BY <2>1, <2>2
<1>2. s \in Seq(Nat) /\ Len(s) = Len(w) /\ DOMAIN s = 1..Len(w)
    BY <1>1
<1>3. CASE Len(w) = 0
  <2>1. s = <<>> /\ Stored(w) = {}
      BY <1>1, <1>2, <1>3 DEF Stored
  <2>2. Page(Stored(w), from, limit) = Contiguous(Stored(s), from + 1, limit)
      BY <1>1, <2>1 DEF Page, Truncated
  <2>3. LoopPage(s, from, limit) = LoopContiguous(s, from + 1, limit)
      BY <2>1 DEF LoopPage
  <2>4. LoopContiguous(s, from + 1, limit) = Ascending(Contiguous(Stored(s), from + 1, limit))
    <3>1. from + 1 \in Nat /\ \A i, j \in DOMAIN s : i < j => s[i] <= s[j]
        BY <1>1, <1>2
    <3> QED  BY <1>2, <3>1, LoopTakesTheRun
  <2> QED  BY <2>2, <2>3, <2>4
<1>4. CASE Len(w) # 0
  <2>1. s[1] \in Stored(w) /\ s # <<>>
      BY <1>1, <1>2, <1>4
  <2>2. \A n \in Stored(s) : s[1] <= n
    <3>1. \A i \in 1..Len(w) : i = 1 \/ 1 < i
        BY <1>1
    <3>2. \A i \in 1..Len(w) : s[1] <= s[i]
        BY <1>1, <1>2, <1>4, <2>1, <3>1
    <3> QED  BY <1>2, <3>2 DEF Stored
  <2>3. Min(Stored(w)) \in Stored(w) /\ \A n \in Stored(w) : Min(Stored(w)) <= n
      BY <1>1, <2>1, Smallest
  <2>4. Min(Stored(w)) = s[1]
    <3>1. s[1] \in Nat /\ Min(Stored(w)) \in Nat
        BY <1>1, <2>1, <2>3
    <3>2. s[1] <= Min(Stored(w)) /\ Min(Stored(w)) <= s[1]
        BY <1>1, <2>1, <2>2, <2>3
    <3> QED  BY <3>1, <3>2
  <2> DEFINE first == IF from + 1 < s[1] THEN s[1] ELSE from + 1
  <2>5. Page(Stored(w), from, limit) = Contiguous(Stored(s), first, limit)
      BY <1>1, <2>1, <2>4 DEF Page, Truncated
  <2>6. LoopPage(s, from, limit) = LoopContiguous(s, first, limit)
      BY <2>1 DEF LoopPage
  <2>7. first \in Nat
      BY <1>1, <2>1
  <2> QED  BY <1>1, <1>2, <2>5, <2>6, <2>7, LoopTakesTheRun
<1> QED  BY <1>3, <1>4

\* What the specification calls a page is what events_since() and
\* contiguous_from() return (PageIsTheLoop), for any window, in whatever order
\* its events arrived, and for pages of any length; LoopGivesThePage says so
\* of any cursor too.
THEOREM PagesAreWhatTheCodeReturns == Spec => []PageIsTheLoop
<1>1. TypeOK => PageIsTheLoop
  <2> SUFFICES ASSUME TypeOK,
                      NEW sorted \in Sortings(window), NEW from \in 0..MaxSeq, NEW n \in 1..(MaxSeq + 1)
               PROVE  LoopPage(sorted, from, n) = Ascending(Page(Stored(window), from, n))
      BY DEF PageIsTheLoop
  <2>1. window \in Seq(Nat) /\ from \in Nat /\ n \in Nat \ {0}
      BY StreamAssumption DEF TypeOK
  <2> QED  BY <2>1, LoopGivesThePage
<1> QED  BY <1>1, TypeCorrect, PTL
=============================================================================
