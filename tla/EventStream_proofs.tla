-------------------------- MODULE EventStream_proofs --------------------------
(***************************************************************************)
(* Proofs about EventStream. A copy of the rows (what the list shows, what a *)
(* page has read) belongs to a place in the events: the cursor, or the id the *)
(* page is answered with. Behind says what makes that enough: for each row the *)
(* newest version is in the copy, among the events after the place, or with a *)
(* writer that is going to append it.                                       *)
(***************************************************************************)
EXTENDS EventStream, TLAPS

\* The newest version of r is with a writer; is event i.
Coming(r)    == \E w \in Writers : writer[w] # Idle /\ writer[w].row = r
                                                    /\ writer[w].version = rows[r]
NewestAt(i, r) == events[i].row = r /\ events[i].version = rows[r]

Behind(copy, place, r) ==
  \/ copy[r] = rows[r]
  \/ Coming(r)
  \/ \E i \in (place + 1)..Latest : NewestAt(i, r)

\* Nobody holds a version that was not written.
Bounded ==
  /\ \A w \in Writers : writer[w] # Idle =>
       writer[w].version \in 1..rows[writer[w].row]
  /\ \A i \in 1..Latest : events[i].version \in 1..rows[events[i].row]
  /\ \A r \in Rows : items[r] <= rows[r]

Positions ==
  /\ streamCursor <= cursor
  /\ oldest <= Latest \/ Latest = 0

Checked == conn = "checked" => batch = {} /\ (~missed => oldest <= cursor + 1)

InOrder ==
  \A i, j \in 1..Latest : i < j /\ events[i].row = events[j].row
                            => events[i].version <= events[j].version

\* A new list at the start of the events would be enough.
Nothing   == [r \in Rows |-> 0]
Accounted == \A r \in Rows : Behind(Nothing, 0, r)

Copies ==
  \A r \in Rows :
    /\ conn # "none" => Behind(view, cursor, r)
    /\ fetch = "items" => Behind(items, Latest, r)
    /\ fetch = "answered" => Behind(items, newest, r)

StreamInv ==
  /\ TypeOK /\ Bounded /\ Positions /\ Checked /\ NoSilentGap
  /\ ~missed => InOrder /\ Accounted /\ Copies

-----------------------------------------------------------------------------
LEMMA InitTypeOK == Init => TypeOK
<1> SUFFICES ASSUME Init PROVE TypeOK
  OBVIOUS
<1>1. events \in Seq(Snapshots) /\ Latest = 0
  BY DEF Init, Latest
<1>2. writer \in [Writers -> {Idle} \cup Told("committed") \cup Told("read")]
  BY DEF Init
<1>3. /\ rows \in [Rows -> Nat] /\ view \in [Rows -> Nat] /\ items \in [Rows -> Nat]
      /\ oldest \in 1..(Latest + 1)
      /\ {newest, streamCursor, cursor} \subseteq 0..Latest
  BY <1>1 DEF Init
<1>4. /\ writes \in 0..MaxWrites /\ prunes \in 0..MaxPrunes
      /\ faults \in 0..MaxFaults /\ refetches \in 0..MaxRefetches
  BY StreamAssumption DEF StreamAssumption, Init
<1>5. QED BY <1>1, <1>2, <1>3, <1>4 DEF Init, TypeOK

\* What a writer that is not idle holds.
LEMMA Holds ==
  ASSUME TypeOK, NEW w \in Writers, writer[w] # Idle
  PROVE  /\ writer[w].row \in Rows /\ writer[w].version \in Nat
         /\ writer[w] \in Told("committed") \cup Told("read")
BY DEF TypeOK, Told

\* The table only grows at its end.
LEMMA AppendedAt ==
  ASSUME TypeOK, NEW w \in Writers, AppendEvent(w)
  PROVE  /\ events' \in Seq(Snapshots)
         /\ Latest' = Latest + 1 /\ Latest \in Nat
         /\ events'[Latest + 1] = [row |-> writer[w].row, version |-> writer[w].version]
         /\ \A i \in 1..Latest : events'[i] = events[i]
<1>1. [row |-> writer[w].row, version |-> writer[w].version] \in Snapshots
  BY Holds DEF AppendEvent, Snapshots
<1>2. QED BY <1>1 DEF AppendEvent, Latest, TypeOK

LEMMA CommitType ==
  ASSUME TypeOK, NEW w \in Writers, NEW r \in Rows, Commit(w, r)
  PROVE  TypeOK'
<1>1. writer' \in [Writers -> {Idle} \cup Told("committed") \cup Told("read")]
  BY DEF Commit, TypeOK, Told
<1>2. rows' \in [Rows -> Nat] /\ writes' \in 0..MaxWrites
  BY StreamAssumption DEF Commit, TypeOK, StreamAssumption
<1>3. Latest' = Latest
  BY DEF Commit, Latest
<1>4. QED BY <1>1, <1>2, <1>3 DEF Commit, TypeOK, pageVars, streamVars

LEMMA RefreshType ==
  ASSUME TypeOK, NEW w \in Writers, Refresh(w)
  PROVE  TypeOK'
<1>1. writer[w] # Idle
  BY DEF Refresh, Idle
<1>2. writer[w] \in Told("committed")
  BY <1>1, Holds DEF Refresh, Told
<1>3. writer' = [writer EXCEPT ![w] = [at |-> "read", row |-> writer[w].row,
                                       version |-> rows[writer[w].row]]]
  <2>1. PICK r \in Rows, v \in Nat : writer[w] = [at |-> "committed", row |-> r, version |-> v]
    BY <1>2 DEF Told
  <2>2. [writer[w] EXCEPT !.at = "read"] = [at |-> "read", row |-> r, version |-> v]
    BY <2>1
  <2>3. [[at |-> "read", row |-> r, version |-> v] EXCEPT !.version = rows[r]]
          = [at |-> "read", row |-> r, version |-> rows[r]]
    OBVIOUS
  <2>4. writer[w].row = r
    BY <2>1
  <2>5. QED BY <2>2, <2>3, <2>4 DEF Refresh, TypeOK
<1>4. writer' \in [Writers -> {Idle} \cup Told("committed") \cup Told("read")]
  BY <1>1, <1>3, Holds DEF TypeOK, Told
<1>5. QED BY <1>4 DEF Refresh, TypeOK, pageVars, streamVars, counts, Latest

LEMMA AppendType ==
  ASSUME TypeOK, NEW w \in Writers, AppendEvent(w)
  PROVE  TypeOK'
<1>1. writer' \in [Writers -> {Idle} \cup Told("committed") \cup Told("read")]
  BY DEF AppendEvent, TypeOK
<1>2. missed' \in BOOLEAN
  BY DEF AppendEvent, TypeOK
<1>3. /\ events' \in Seq(Snapshots)
      /\ Latest' = Latest + 1 /\ Latest \in Nat
  BY AppendedAt
<1>4. QED BY <1>1, <1>2, <1>3 DEF AppendEvent, TypeOK, pageVars, streamVars, counts

LEMMA OthersType ==
  ASSUME TypeOK,
         \/ \E w \in Writers : AppendFails(w)
         \/ Page \/ FetchFails \/ Refetch \/ Stream \/ Break \/ Prune
         \/ UNCHANGED vars
  PROVE  TypeOK'
<1> USE StreamAssumption DEF StreamAssumption, TypeOK, Latest, writeVars, pageVars, streamVars, counts, Keeps
<1>1. ASSUME NEW w \in Writers, AppendFails(w) PROVE TypeOK'
  <2>1. writer' \in [Writers -> {Idle} \cup Told("committed") \cup Told("read")]
    BY <1>1 DEF AppendFails
  <2>2. faults' \in 0..MaxFaults
    BY <1>1 DEF AppendFails
  <2>3. QED BY <1>1, <2>1, <2>2 DEF AppendFails
<1>2. CASE ReadItems
  BY <1>2 DEF ReadItems
<1>3. CASE ReadLatest
  BY <1>3 DEF ReadLatest
<1>4. CASE Receive
  <2>1. missed' \in BOOLEAN
    BY <1>4 DEF Receive
  <2>2. QED BY <1>4, <2>1 DEF Receive
<1>5. CASE FetchFails
  BY <1>5 DEF FetchFails
<1>6. CASE Refetch
  <2>1. refetches' \in 0..MaxRefetches
    BY <1>6 DEF Refetch
  <2>2. QED BY <1>6, <2>1 DEF Refetch
<1>7. CASE Connect
  BY <1>7 DEF Connect
<1>8. CASE Resync
  BY <1>8 DEF Resync
<1>9. CASE CheckGap
  <2>1. missed' \in BOOLEAN
    BY <1>9 DEF CheckGap
  <2>2. QED BY <1>9, <2>1 DEF CheckGap
<1>10. CASE Load
  BY <1>10 DEF Load
<1>11. CASE Deliver
  <2>1. PICK i \in batch : /\ \A j \in batch : i <= j
                           /\ view' = [view EXCEPT ![events[i].row] = events[i].version]
                           /\ cursor' = i /\ batch' = batch \ {i}
    BY <1>11 DEF Deliver
  <2>2. i \in 1..Latest /\ events[i] \in Snapshots
    BY <2>1
  <2>3. view' \in [Rows -> Nat]
    BY <2>1, <2>2 DEF Snapshots
  <2>4. cursor' \in 0..Latest /\ batch' \subseteq (cursor' + 1)..Latest
    <3>1. \A j \in batch' : j \in i..Latest /\ j # i
      BY <2>1
    <3>2. QED BY <2>1, <2>2, <3>1
  <2>5. QED BY <1>11, <2>3, <2>4 DEF Deliver
<1>12. CASE Break
  BY <1>12 DEF Break
<1>13. CASE Prune
  <2>1. missed' \in BOOLEAN
    BY <1>13 DEF Prune
  <2>2. MaxRows \in Nat /\ MaxRows > 0 /\ Latest \in Nat /\ oldest \in Nat
    OBVIOUS
  <2>3. oldest' \in 1..(Latest + 1)
    BY <1>13, <2>2 DEF Prune
  <2>4. prunes' \in 0..MaxPrunes
    BY <1>13 DEF Prune
  <2>5. QED BY <1>13, <2>1, <2>3, <2>4 DEF Prune
<1>14. CASE UNCHANGED vars
  <2>1. /\ UNCHANGED <<rows, writer, events, oldest, view, fetch, items, newest>>
        /\ UNCHANGED <<streamCursor, cursor, conn, batch, missed>>
        /\ UNCHANGED <<writes, prunes, faults, refetches>>
    BY <1>14 DEF vars
  <2>2. QED BY <2>1
<1>15. QED
  BY <1>1, <1>2, <1>3, <1>4, <1>5, <1>6, <1>7, <1>8, <1>9, <1>10, <1>11, <1>12, <1>13, <1>14
     DEF Page, Stream

LEMMA TypeStep == TypeOK /\ [Next]_vars => TypeOK'
BY CommitType, RefreshType, AppendType, OthersType DEF Next

-----------------------------------------------------------------------------
(* What the steps of a writer do to it.                                     *)

\* Types, a few at a time.
LEMMA NumbersType ==
  ASSUME TypeOK
  PROVE  /\ rows \in [Rows -> Nat] /\ items \in [Rows -> Nat] /\ view \in [Rows -> Nat]
         /\ Latest \in Nat /\ cursor \in 0..Latest /\ streamCursor \in 0..Latest
         /\ newest \in 0..Latest /\ oldest \in 1..(Latest + 1)
BY DEF TypeOK, Latest

LEMMA EventType ==
  ASSUME TypeOK, NEW i \in 1..Latest
  PROVE  events[i].row \in Rows /\ events[i].version \in Nat
<1>1. events[i] \in Snapshots
  BY DEF TypeOK, Latest
<1>2. QED BY <1>1 DEF Snapshots

LEMMA CommitWriter ==
  ASSUME TypeOK, NEW w \in Writers, NEW r \in Rows, Commit(w, r)
  PROVE  /\ writer'[w].row = r /\ writer'[w].version = rows[r] + 1 /\ writer'[w] # Idle
         /\ writer[w] = Idle
         /\ \A u \in Writers \ {w} : writer'[u] = writer[u]
         /\ rows'[r] = rows[r] + 1 /\ \A q \in Rows \ {r} : rows'[q] = rows[q]
         /\ Latest' = Latest /\ events' = events
BY DEF Commit, TypeOK, Idle, Latest

LEMMA RefreshWriter ==
  ASSUME TypeOK, NEW w \in Writers, Refresh(w)
  PROVE  /\ writer[w] # Idle /\ writer'[w] # Idle
         /\ writer'[w].row = writer[w].row /\ writer'[w].version = rows[writer[w].row]
         /\ \A u \in Writers \ {w} : writer'[u] = writer[u]
         /\ rows' = rows /\ Latest' = Latest /\ events' = events
<1>1. writer[w] # Idle
  BY DEF Refresh, Idle
<1>2. writer[w] \in Told("committed")
  BY <1>1, Holds DEF Refresh, Told
<1>3. PICK r \in Rows, v \in Nat : writer[w] = [at |-> "committed", row |-> r, version |-> v]
  BY <1>2 DEF Told
<1>4. [writer[w] EXCEPT !.at = "read"] = [at |-> "read", row |-> r, version |-> v]
  BY <1>3
<1>5. [[at |-> "read", row |-> r, version |-> v] EXCEPT !.version = rows[r]]
        = [at |-> "read", row |-> r, version |-> rows[r]]
  OBVIOUS
<1>6. writer[w].row = r
  BY <1>3
<1>7. writer'[w] = [at |-> "read", row |-> r, version |-> rows[r]]
  BY <1>4, <1>5, <1>6 DEF Refresh, TypeOK
<1>8. \A u \in Writers \ {w} : writer'[u] = writer[u]
  BY DEF Refresh, TypeOK
<1>9. rows' = rows /\ Latest' = Latest /\ events' = events
  BY DEF Refresh, Latest
<1>10. writer'[w] # Idle /\ writer'[w].row = r /\ writer'[w].version = rows[r]
  BY <1>7 DEF Idle
<1>11. QED BY <1>1, <1>6, <1>8, <1>9, <1>10

LEMMA AppendWriter ==
  ASSUME TypeOK, NEW w \in Writers, AppendEvent(w) \/ AppendFails(w)
  PROVE  /\ writer[w] # Idle /\ writer'[w] = Idle
         /\ \A u \in Writers \ {w} : writer'[u] = writer[u]
         /\ rows' = rows
BY DEF AppendEvent, AppendFails, TypeOK

\* Everything else leaves the rows, the writers and the events alone.
Reads == \/ Page \/ FetchFails \/ Refetch \/ Stream \/ Break \/ Prune \/ UNCHANGED vars

LEMMA ReadsKeep == Reads => UNCHANGED <<rows, writer, events>> /\ Latest' = Latest
BY DEF Reads, Page, Stream, Keeps, ReadItems, ReadLatest, Receive, FetchFails, Refetch, Connect,
       Resync, CheckGap, Load, Deliver, Break, Prune, vars, writeVars, Latest

LEMMA BoundedStep ==
  ASSUME TypeOK, TypeOK', Bounded, [Next]_vars
  PROVE  Bounded'
<1>1. ASSUME NEW w \in Writers, NEW r \in Rows, Commit(w, r) PROVE Bounded'
  <2>1. rows[r] \in Nat /\ \A q \in Rows : rows[q] \in Nat /\ rows'[q] \in Nat /\ rows[q] <= rows'[q]
    BY <1>1, CommitWriter, NumbersType
  <2>2. ASSUME NEW u \in Writers, writer'[u] # Idle
        PROVE  writer'[u].version \in 1..rows'[writer'[u].row]
    <3>1. CASE u = w
      BY <1>1, <2>1, <3>1, CommitWriter
    <3>2. CASE u # w
      <4>1. writer'[u] = writer[u] /\ writer[u] # Idle
        BY <1>1, <2>2, <3>2, CommitWriter
      <4>2. writer[u].row \in Rows /\ writer[u].version \in 1..rows[writer[u].row]
        BY <4>1, Holds DEF Bounded
      <4>3. QED BY <2>1, <4>1, <4>2
    <3>3. QED BY <3>1, <3>2
  <2>3. ASSUME NEW i \in 1..Latest' PROVE events'[i].version \in 1..rows'[events'[i].row]
    <3>1. events'[i] = events[i] /\ i \in 1..Latest
      BY <1>1, CommitWriter
    <3>2. events[i].row \in Rows /\ events[i].version \in 1..rows[events[i].row]
      BY <3>1, EventType DEF Bounded
    <3>3. QED BY <2>1, <3>1, <3>2
  <2>4. ASSUME NEW q \in Rows PROVE items'[q] <= rows'[q]
    BY <1>1, <2>1 DEF Commit, pageVars, Bounded, TypeOK
  <2>5. QED BY <2>2, <2>3, <2>4 DEF Bounded
<1>2. ASSUME NEW w \in Writers, Refresh(w) PROVE Bounded'
  <2>1. writer[w].row \in Rows /\ writer[w].version \in 1..rows[writer[w].row]
    BY <1>2, RefreshWriter, Holds DEF Bounded
  <2>2. \A u \in Writers : writer'[u] # Idle => writer'[u].version \in 1..rows[writer'[u].row]
    <3>1. rows[writer[w].row] \in 1..rows[writer[w].row]
      BY <2>1, NumbersType
    <3>2. \A u \in Writers \ {w} : writer'[u] = writer[u]
      BY <1>2, RefreshWriter
    <3>3. writer'[w].row = writer[w].row /\ writer'[w].version = rows[writer[w].row]
      BY <1>2, RefreshWriter
    <3>4. QED BY <3>1, <3>2, <3>3 DEF Bounded
  <2>3. items' = items
    BY <1>2 DEF Refresh, pageVars
  <2>4. QED BY <1>2, <2>2, <2>3, RefreshWriter DEF Bounded
<1>3. ASSUME NEW w \in Writers, AppendEvent(w) PROVE Bounded'
  <2>1. writer[w].row \in Rows /\ writer[w].version \in 1..rows[writer[w].row]
    BY <1>3, AppendWriter, Holds DEF Bounded
  <2>2. ASSUME NEW i \in 1..Latest' PROVE events'[i].version \in 1..rows[events'[i].row]
    <3>0. Latest' = Latest + 1 /\ Latest \in Nat
      BY <1>3, AppendedAt
    <3>1. CASE i = Latest + 1
      <4>1. events'[i].row = writer[w].row /\ events'[i].version = writer[w].version
        <5>1. events'[Latest + 1] = [row |-> writer[w].row, version |-> writer[w].version]
          BY <1>3, AppendedAt
        <5>2. QED BY <5>1, <3>1
      <4>2. QED BY <2>1, <4>1
    <3>2. CASE i # Latest + 1
      <4>1. i \in 1..Latest
        BY <3>0, <3>2
      <4>2. events'[i] = events[i]
        BY <1>3, <4>1, AppendedAt
      <4>3. QED BY <4>1, <4>2 DEF Bounded
    <3>3. QED BY <3>1, <3>2
  <2>3. items' = items
    BY <1>3 DEF AppendEvent, pageVars
  <2>4. QED BY <1>3, <2>2, <2>3, AppendWriter DEF Bounded
<1>4. ASSUME NEW w \in Writers, AppendFails(w) PROVE Bounded'
  <2>1. events' = events /\ items' = items /\ Latest' = Latest
    BY <1>4 DEF AppendFails, pageVars, Latest
  <2>2. QED BY <1>4, <2>1, AppendWriter DEF Bounded
<1>5. CASE Reads
  <2>1. items' = items \/ items' = rows
    BY <1>5 DEF Reads, Page, Stream, Keeps, ReadItems, ReadLatest, Receive, FetchFails, Refetch,
                Connect, Resync, CheckGap, Load, Deliver, Break, Prune, vars, pageVars
  <2>2. \A q \in Rows : items'[q] <= rows[q]
    BY <2>1, NumbersType DEF Bounded
  <2>3. QED BY <1>5, <2>2, ReadsKeep DEF Bounded
<1>6. QED BY <1>1, <1>2, <1>3, <1>4, <1>5 DEF Next, Reads

\* Where the client is.
LEMMA PositionsStep ==
  ASSUME TypeOK, TypeOK', Positions, Checked, NoSilentGap, [Next]_vars
  PROVE  Positions' /\ Checked' /\ NoSilentGap'
<1> USE DEF Positions, Checked, NoSilentGap
<1>1. ASSUME NEW w \in Writers, NEW r \in Rows, Commit(w, r)
      PROVE  Positions' /\ Checked' /\ NoSilentGap'
  BY <1>1, CommitWriter DEF Commit, streamVars
<1>2. ASSUME NEW w \in Writers, Refresh(w) PROVE Positions' /\ Checked' /\ NoSilentGap'
  BY <1>2, RefreshWriter DEF Refresh, streamVars
<1>3. ASSUME NEW w \in Writers, AppendEvent(w) PROVE Positions' /\ Checked' /\ NoSilentGap'
  <2>1. oldest \in 1..(Latest + 1) /\ Latest \in Nat /\ Latest' = Latest + 1
    BY <1>3, AppendedAt DEF TypeOK
  <2>2. UNCHANGED <<oldest, streamVars>> /\ (missed => missed')
    BY <1>3 DEF AppendEvent
  <2>3. Positions'
    BY <2>1, <2>2 DEF streamVars
  <2>4. QED BY <2>2, <2>3 DEF streamVars
<1>4. ASSUME NEW w \in Writers, AppendFails(w) PROVE Positions' /\ Checked' /\ NoSilentGap'
  BY <1>4 DEF AppendFails, streamVars, Latest
<1>5. CASE Page \/ FetchFails \/ Refetch
  <2>1. CASE ReadItems \/ ReadLatest \/ FetchFails \/ Refetch
    BY <2>1 DEF ReadItems, ReadLatest, FetchFails, Refetch, streamVars, writeVars, Latest
  <2>2. CASE Receive
    <3>1. streamCursor' <= cursor' /\ UNCHANGED <<oldest, events>> /\ Latest' = Latest
      BY <2>2, NumbersType DEF Receive, writeVars, Latest
    <3>2. CASE conn' = "closed" /\ batch' = {}
      BY <3>1, <3>2
    <3>3. CASE UNCHANGED <<cursor, conn, batch>> /\ (missed => missed')
      BY <3>1, <3>3
    <3>4. QED BY <2>2, <3>2, <3>3 DEF Receive
  <2>3. QED BY <1>5, <2>1, <2>2 DEF Page
<1>6. CASE Connect \/ Resync \/ Break
  BY <1>6 DEF Connect, Resync, Break, Keeps, writeVars, Latest
<1>7. CASE CheckGap
  <2>1. Positions' /\ NoSilentGap'
    BY <1>7 DEF CheckGap, Keeps, writeVars, Latest
  <2>2. ~missed' => oldest <= cursor + 1
    <3>0. ~missed' => ~(cursor = 0 /\ oldest > 1)
      BY <1>7 DEF CheckGap
    <3>1. ~missed' => cursor > 0 \/ oldest = 1
      BY <3>0, NumbersType
    <3>2. ~(cursor > 0 /\ oldest <= Latest /\ cursor < oldest - 1)
      BY <1>7 DEF CheckGap, Gap
    <3>3. QED BY <3>1, <3>2, NumbersType
  <2>3. QED BY <1>7, <2>1, <2>2 DEF CheckGap, Keeps
<1>8. CASE Load
  <2>1. Positions' /\ Checked'
    BY <1>8 DEF Load, Keeps, writeVars, Latest
  <2>2. ~missed => batch' = {i \in (cursor + 1)..Latest : i < cursor + 1 + BatchSize}
    BY <1>8 DEF Load, TypeOK
  <2>3. NoSilentGap'
    <3> SUFFICES ASSUME ~missed, NEW i \in batch', NEW k \in (cursor + 1)..i PROVE k \in batch'
      BY <1>8 DEF Load
    <3>1. BatchSize \in Nat /\ cursor \in Nat /\ Latest \in Nat
      BY StreamAssumption DEF StreamAssumption, TypeOK, Latest
    <3>2. QED BY <2>2, <3>1
  <2>4. QED BY <2>1, <2>3
<1>9. CASE Deliver
  <2>1. PICK i \in batch : /\ \A j \in batch : i <= j
                           /\ cursor' = i /\ batch' = batch \ {i}
    BY <1>9 DEF Deliver
  <2>2. i \in Nat /\ cursor \in Nat /\ i > cursor /\ streamCursor \in Nat
    <3>1. i \in (cursor + 1)..Latest
      BY <2>1 DEF TypeOK
    <3>2. QED BY <3>1, NumbersType
  <2>3. Positions' /\ Checked'
    BY <1>9, <2>1, <2>2 DEF Deliver, Keeps, writeVars, Latest
  <2>4. NoSilentGap'
    <3> SUFFICES ASSUME ~missed, NEW j \in batch', NEW k \in (i + 1)..j PROVE k \in batch'
      BY <1>9, <2>1 DEF Deliver
    <3>1. j \in batch /\ k \in (cursor + 1)..j /\ k # i
      BY <2>1, <2>2
    <3>2. QED BY <2>1, <3>1
  <2>5. QED BY <2>3, <2>4
<1>10. CASE Prune
  <2>1. Latest \in Nat /\ MaxRows \in Nat /\ MaxRows > 0 /\ (missed => missed')
    <3>1. MaxRows \in Nat \ {0}
      BY StreamAssumption DEF StreamAssumption
    <3>2. missed => missed'
      BY <1>10 DEF Prune
    <3>3. QED BY <3>1, <3>2, NumbersType
  <2>2. Latest' = Latest /\ UNCHANGED streamVars /\ oldest' = Latest - MaxRows + 1
    BY <1>10 DEF Prune, writeVars, Latest
  <2>3. Positions'
    BY <2>1, <2>2 DEF streamVars
  <2>4. Checked'
    <3>1. ~missed' => ~(conn = "checked" /\ cursor + 1 < oldest')
      BY <1>10 DEF Prune
    <3>2. cursor' = cursor /\ conn' = conn /\ batch' = batch /\ cursor \in Nat /\ oldest' \in Nat
      BY <2>1, <2>2, NumbersType, TypeOK' DEF streamVars, TypeOK
    <3>3. QED BY <3>1, <3>2
  <2>5. QED BY <2>1, <2>2, <2>3, <2>4 DEF streamVars
<1>11. CASE UNCHANGED vars
  BY <1>11 DEF vars, streamVars, Latest, writeVars
<1>12. QED
  BY <1>1, <1>2, <1>3, <1>4, <1>5, <1>6, <1>7, <1>8, <1>9, <1>10, <1>11 DEF Next, Stream

-----------------------------------------------------------------------------
(* The copies.                                                             *)

LEMMA MissedStays == [Next]_vars /\ ~missed' => ~missed
BY DEF Next, Page, Stream, Keeps, Commit, Refresh, AppendEvent, AppendFails, ReadItems, ReadLatest,
       Receive, FetchFails, Refetch, Connect, Resync, CheckGap, Load, Deliver, Break, Prune, vars

\* A copy that is good enough stays so, whatever a writer does.
LEMMA BehindWriter ==
  ASSUME TypeOK, TypeOK', NEW copy, NEW place \in 0..Latest, NEW q \in Rows,
         Behind(copy, place, q),
         NEW w \in Writers,
         (\E r \in Rows : Commit(w, r)) \/ Refresh(w) \/ AppendEvent(w)
  PROVE  Behind(copy, place, q)'
<1>1. ASSUME NEW r \in Rows, Commit(w, r) PROVE Behind(copy, place, q)'
  <2>1. CASE q = r
    BY <1>1, <2>1, CommitWriter DEF Behind, Coming
  <2>2. CASE q # r
    <3>1. rows'[q] = rows[q] /\ Latest' = Latest /\ events' = events
      BY <1>1, <2>2, CommitWriter
    <3>2. CASE Coming(q)
      <4>1. PICK u \in Writers : writer[u] # Idle /\ writer[u].row = q /\ writer[u].version = rows[q]
        BY <3>2 DEF Coming
      <4>2. writer'[u] = writer[u]
        BY <1>1, <4>1, CommitWriter
      <4>3. QED BY <3>1, <4>1, <4>2 DEF Behind, Coming
    <3>3. CASE ~Coming(q)
      BY <3>1, <3>3 DEF Behind, NewestAt
    <3>4. QED BY <3>2, <3>3
  <2>3. QED BY <2>1, <2>2
<1>2. CASE Refresh(w)
  <2>1. rows' = rows /\ Latest' = Latest /\ events' = events
    BY <1>2, RefreshWriter
  <2>2. CASE Coming(q)
    <3>1. PICK u \in Writers : writer[u] # Idle /\ writer[u].row = q /\ writer[u].version = rows[q]
      BY <2>2 DEF Coming
    <3>2. CASE u = w
      BY <1>2, <2>1, <3>1, <3>2, RefreshWriter DEF Behind, Coming
    <3>3. CASE u # w
      <4>1. writer'[u] = writer[u]
        BY <1>2, <3>3, RefreshWriter
      <4>2. QED BY <2>1, <3>1, <4>1 DEF Behind, Coming
    <3>4. QED BY <3>2, <3>3
  <2>3. CASE ~Coming(q)
    BY <2>1, <2>3 DEF Behind, NewestAt
  <2>4. QED BY <2>2, <2>3
<1>3. CASE AppendEvent(w)
  <2>1. rows' = rows /\ Latest' = Latest + 1 /\ Latest \in Nat /\ place \in Nat
    <3>1. rows' = rows /\ Latest' = Latest + 1 /\ Latest \in Nat
      BY <1>3, AppendWriter, AppendedAt
    <3>2. QED BY <3>1
  <2>2. \A i \in 1..Latest : events'[i] = events[i]
    BY <1>3, AppendedAt
  <2>3. CASE copy[q] = rows[q]
    BY <2>1, <2>3 DEF Behind
  <2>4. CASE Coming(q)
    <3>1. PICK u \in Writers : writer[u] # Idle /\ writer[u].row = q /\ writer[u].version = rows[q]
      BY <2>4 DEF Coming
    <3>2. CASE u = w
      <4>1. events'[Latest + 1] = [row |-> writer[w].row, version |-> writer[w].version]
        BY <1>3, AppendedAt
      <4>2. PICK n \in Nat : n = Latest + 1
        BY <2>1
      <4>3. events'[n].row = q /\ events'[n].version = rows'[q]
        BY <2>1, <3>1, <3>2, <4>1, <4>2
      <4>4. NewestAt(n, q)'
        BY <4>3 DEF NewestAt
      <4>5. n \in (place + 1)..Latest'
        BY <2>1, <4>2
      <4>6. QED BY <4>4, <4>5 DEF Behind
    <3>3. CASE u # w
      <4>1. writer'[u] = writer[u]
        BY <1>3, <3>3, AppendWriter
      <4>2. QED BY <2>1, <3>1, <4>1 DEF Behind, Coming
    <3>4. QED BY <3>2, <3>3
  <2>5. ASSUME NEW i \in (place + 1)..Latest, NewestAt(i, q) PROVE Behind(copy, place, q)'
    <3>1. i \in 1..Latest /\ i \in (place + 1)..Latest'
      BY <2>1
    <3>2. NewestAt(i, q)'
      BY <2>1, <2>2, <2>5, <3>1 DEF NewestAt
    <3>3. QED BY <3>1, <3>2 DEF Behind
  <2>6. QED BY <2>3, <2>4, <2>5 DEF Behind
<1>4. QED BY <1>1, <1>2, <1>3

\* Reading changes nothing for a copy.
LEMMA BehindReads ==
  ASSUME Reads, NEW copy, NEW place, NEW q, Behind(copy, place, q)
  PROVE  Behind(copy, place, q)'
BY ReadsKeep DEF Behind, Coming, NewestAt

LEMMA AccountedStep ==
  ASSUME TypeOK, TypeOK', InOrder, Accounted, [Next]_vars, ~missed'
  PROVE  InOrder' /\ Accounted'
<1>1. CASE \E w \in Writers : (\E r \in Rows : Commit(w, r)) \/ Refresh(w) \/ AppendEvent(w)
  <2>1. PICK w \in Writers : (\E r \in Rows : Commit(w, r)) \/ Refresh(w) \/ AppendEvent(w)
    BY <1>1
  <2>2. Accounted'
    <3>1. 0 \in 0..Latest
      BY NumbersType
    <3>2. \A q \in Rows : Behind(Nothing, 0, q)'
      BY <2>1, <3>1, BehindWriter DEF Accounted
    <3>3. QED BY <3>2 DEF Accounted
  <2>3. CASE AppendEvent(w)
    <3>1. /\ Latest' = Latest + 1 /\ Latest \in Nat
          /\ events'[Latest + 1] = [row |-> writer[w].row, version |-> writer[w].version]
          /\ \A i \in 1..Latest : events'[i] = events[i]
      BY <2>3, AppendedAt
    <3>2. ~Overtaken(w)
      BY <2>3 DEF AppendEvent
    <3>3. writer[w].version \in Nat
      BY <2>3, AppendWriter, Holds
    <3>4. ASSUME NEW i \in 1..Latest', NEW j \in 1..Latest', i < j, events'[i].row = events'[j].row
          PROVE  events'[i].version <= events'[j].version
      <4>1. i \in 1..Latest /\ events'[i] = events[i] /\ events[i].version \in Nat
        BY <3>1, <3>4, EventType
      <4>2. CASE j = Latest + 1
        <5>1. events'[j].row = writer[w].row /\ events'[j].version = writer[w].version
          BY <3>1, <4>2
        <5>2. QED BY <3>2, <3>3, <3>4, <4>1, <5>1 DEF Overtaken
      <4>3. CASE j # Latest + 1
        <5>1. j \in 1..Latest /\ events'[j] = events[j]
          BY <3>1, <4>3
        <5>2. QED BY <3>4, <4>1, <5>1 DEF InOrder
      <4>4. QED BY <4>2, <4>3
    <3>5. QED BY <2>2, <3>4 DEF InOrder
  <2>4. CASE ~AppendEvent(w)
    <3>1. events' = events /\ Latest' = Latest
      BY <2>1, <2>4, CommitWriter, RefreshWriter
    <3>2. QED BY <2>2, <3>1 DEF InOrder
  <2>5. QED BY <2>3, <2>4
<1>2. CASE \E w \in Writers : AppendFails(w)
  BY <1>2 DEF AppendFails
<1>3. CASE Reads
  <2>1. InOrder'
    BY <1>3, ReadsKeep DEF InOrder
  <2>2. \A q \in Rows : Behind(Nothing, 0, q)'
    BY <1>3, BehindReads DEF Accounted
  <2>3. QED BY <2>1, <2>2 DEF Accounted
<1>4. QED BY <1>1, <1>2, <1>3 DEF Next, Reads

LEMMA CopiesWriter ==
  ASSUME TypeOK, TypeOK', Bounded, Copies, ~missed', NEW w \in Writers,
         (\E r \in Rows : Commit(w, r)) \/ Refresh(w) \/ AppendEvent(w)
  PROVE  Copies'
<1>1. UNCHANGED <<pageVars, streamVars>>
  BY DEF Commit, Refresh, AppendEvent
<1>2. fetch' = fetch /\ items' = items /\ newest' = newest /\ view' = view /\ cursor' = cursor
      /\ conn' = conn
  BY <1>1 DEF pageVars, streamVars
<1>3. ASSUME NEW q \in Rows, conn # "none" PROVE Behind(view, cursor, q)'
  <2>1. Behind(view, cursor, q) /\ cursor \in 0..Latest
    BY <1>3, NumbersType DEF Copies
  <2>2. \A c, p : c = view /\ p = cursor => Behind(c, p, q)'
    BY <2>1, BehindWriter
  <2>3. QED BY <1>2, <2>2 DEF Behind
<1>4. ASSUME NEW q \in Rows, fetch = "answered" PROVE Behind(items, newest, q)'
  <2>1. Behind(items, newest, q) /\ newest \in 0..Latest
    BY <1>4, NumbersType DEF Copies
  <2>2. \A c, p : c = items /\ p = newest => Behind(c, p, q)'
    BY <2>1, BehindWriter
  <2>3. QED BY <1>2, <2>2 DEF Behind
<1>5. ASSUME NEW q \in Rows, fetch = "items" PROVE Behind(items, Latest, q)'
  <2>1. Behind(items, Latest, q) /\ Latest \in 0..Latest /\ Latest \in Nat
    BY <1>5, NumbersType DEF Copies
  <2>2. \A c, p : c = items /\ p = Latest => Behind(c, p, q)'
    BY <2>1, BehindWriter
  <2>3. CASE AppendEvent(w)
    <3>1. ~Unread(w)
      BY <2>3 DEF AppendEvent
    <3>2. rows' = rows /\ writer[w] # Idle /\ \A u \in Writers \ {w} : writer'[u] = writer[u]
      BY <2>3, AppendWriter
    <3>3. items[q] = rows[q] \/ Coming(q)
      BY <2>1 DEF Behind
    <3>4. CASE items[q] = rows[q]
      BY <1>2, <3>2, <3>4 DEF Behind
    <3>5. CASE Coming(q)
      <4>1. PICK u \in Writers : writer[u] # Idle /\ writer[u].row = q /\ writer[u].version = rows[q]
        BY <3>5 DEF Coming
      <4>2. CASE u = w
        <5>1. ~(items[q] < rows[q])
          BY <1>5, <3>1, <4>1, <4>2 DEF Unread
        <5>2. items[q] = rows[q]
          BY <5>1, NumbersType DEF Bounded
        <5>3. QED BY <1>2, <3>2, <5>2 DEF Behind
      <4>3. CASE u # w
        BY <3>2, <4>1, <4>3 DEF Behind, Coming
      <4>4. QED BY <4>2, <4>3
    <3>6. QED BY <3>3, <3>4, <3>5
  <2>4. CASE ~AppendEvent(w)
    <3>1. Latest' = Latest
      BY <2>4, CommitWriter, RefreshWriter
    <3>2. QED BY <1>2, <2>2, <3>1 DEF Behind
  <2>5. QED BY <2>3, <2>4
<1>6. QED BY <1>2, <1>3, <1>4, <1>5 DEF Copies

\* An event replaces its row in the list by a version that is the newest, if the
\* newest does not come later.
LEMMA CopiesDeliver ==
  ASSUME TypeOK, Bounded, NoSilentGap, InOrder, Accounted, Copies, ~missed, Deliver
  PROVE  Copies'
<1>1. Reads
  BY DEF Reads, Stream
<1>2. fetch' = fetch /\ items' = items /\ newest' = newest /\ conn' = conn /\ conn # "none"
  BY DEF Deliver, pageVars
<1>3. PICK i \in batch : /\ \A j \in batch : i <= j
                         /\ view' = [view EXCEPT ![events[i].row] = events[i].version]
                         /\ cursor' = i
  BY DEF Deliver
<1>4. i = cursor + 1 /\ i \in 1..Latest /\ i \in Nat /\ Latest \in Nat
  <2>1. i \in (cursor + 1)..Latest /\ cursor \in Nat /\ Latest \in Nat
    BY NumbersType DEF TypeOK
  <2>2. cursor + 1 \in (cursor + 1)..i
    BY <2>1
  <2>3. cursor + 1 \in batch
    BY <2>2 DEF NoSilentGap
  <2>4. QED BY <1>3, <2>1, <2>3
<1>5. ASSUME NEW q \in Rows PROVE Behind(view, cursor, q)'
  <2>1. rows' = rows /\ events' = events /\ writer' = writer /\ Latest' = Latest
    BY <1>1, ReadsKeep
  <2>2. CASE Coming(q)
    BY <2>1, <2>2 DEF Behind, Coming
  <2>3. ASSUME NEW j \in (i + 1)..Latest, NewestAt(j, q) PROVE Behind(view, cursor, q)'
    BY <1>3, <2>1, <2>3 DEF Behind, NewestAt
  <2>4. ASSUME ~Coming(q), \A j \in (i + 1)..Latest : ~NewestAt(j, q)
        PROVE  view'[q] = rows[q]
    <3>1. events[i].row \in Rows /\ events[i].version \in 1..rows[events[i].row]
      BY <1>4, EventType DEF Bounded
    <3>2. CASE q = events[i].row
      <4>1. view'[q] = events[i].version
        BY <1>3, <3>1, <3>2, NumbersType
      <4>2. rows[q] \in Nat /\ rows[q] # 0
        BY <3>1, <3>2, NumbersType
      <4>3. PICK k \in 1..Latest : NewestAt(k, q)
        <5>1. Nothing[q] = 0
          BY DEF Nothing
        <5>2. QED BY <2>4, <4>2, <5>1 DEF Accounted, Behind
      <4>4. k <= i /\ k \in Nat
        BY <1>4, <2>4, <4>3
      <4>5. events[k].version <= events[i].version
        <5>1. CASE k = i
          BY <3>1, <4>2, <5>1, EventType, <1>4
        <5>2. CASE k < i
          BY <1>4, <3>2, <4>3, <5>2 DEF InOrder, NewestAt
        <5>3. QED BY <1>4, <4>4, <5>1, <5>2
      <4>6. QED BY <3>1, <3>2, <4>1, <4>2, <4>3, <4>5 DEF NewestAt
    <3>3. CASE q # events[i].row
      <4>1. view'[q] = view[q]
        BY <1>3, <3>3, NumbersType
      <4>2. \A j \in (cursor + 1)..Latest : ~NewestAt(j, q)
        BY <1>4, <2>4, <3>3, NumbersType DEF NewestAt
      <4>3. QED BY <1>2, <2>4, <4>1, <4>2 DEF Copies, Behind
    <3>4. QED BY <3>2, <3>3
  <2>5. QED BY <2>1, <2>2, <2>3, <2>4 DEF Behind
<1>6. ASSUME NEW q \in Rows, fetch = "items" PROVE Behind(items, Latest, q)'
  BY <1>1, <1>2, <1>6, ReadsKeep DEF Copies, Behind, Coming, NewestAt
<1>7. ASSUME NEW q \in Rows, fetch = "answered" PROVE Behind(items, newest, q)'
  BY <1>1, <1>2, <1>7, ReadsKeep DEF Copies, Behind, Coming, NewestAt
<1>8. QED BY <1>2, <1>5, <1>6, <1>7 DEF Copies

\* The list and the page, in all other steps.
LEMMA CopiesReads ==
  ASSUME TypeOK, Positions, Copies, ~missed', Reads, ~Deliver
  PROVE  Copies'
<1>1. rows' = rows /\ events' = events /\ writer' = writer /\ Latest' = Latest
  BY ReadsKeep
<1>3. CASE ReadItems
  <2>1. fetch' = "items" /\ items' = rows /\ UNCHANGED <<view, cursor, conn>>
    BY <1>3 DEF ReadItems, streamVars
  <2>2. \A q \in Rows : Behind(items, Latest, q)'
    BY <1>1, <2>1 DEF Behind
  <2>3. QED BY <1>1, <2>1, <2>2 DEF Copies, Behind, Coming, NewestAt
<1>4. CASE ReadLatest
  <2>1. fetch = "items" /\ fetch' = "answered" /\ newest' = Latest
        /\ UNCHANGED <<items, view, cursor, conn>>
    BY <1>4 DEF ReadLatest, streamVars
  <2>2. QED BY <1>1, <2>1 DEF Copies, Behind, Coming, NewestAt
<1>5. CASE Receive
  <2>1. fetch = "answered" /\ fetch' = "none" /\ view' = items
    BY <1>5 DEF Receive
  <2>2. cursor' = newest
    <3>1. CASE newest = streamCursor /\ conn # "none"
      <4>1. cursor' = cursor /\ ~(cursor > newest)
        BY <1>5, <3>1 DEF Receive
      <4>2. QED BY <3>1, <4>1, NumbersType DEF Positions
    <3>2. CASE ~(newest = streamCursor /\ conn # "none")
      BY <1>5, <3>2 DEF Receive
    <3>3. QED BY <3>1, <3>2
  <2>3. QED BY <1>1, <2>1, <2>2 DEF Copies, Behind, Coming, NewestAt
<1>6. CASE FetchFails \/ Refetch \/ Resync
  <2>1. fetch' = "asked" /\ UNCHANGED <<view, cursor>> /\ (conn' # "none" => conn # "none")
    BY <1>6 DEF FetchFails, Refetch, Resync, streamVars
  <2>2. QED BY <1>1, <2>1 DEF Copies, Behind, Coming, NewestAt
<1>7. CASE Connect \/ CheckGap \/ Load \/ Break \/ Prune \/ UNCHANGED vars
  <2>1. UNCHANGED <<fetch, items, newest, view, cursor>> /\ (conn' # "none" => conn # "none")
    BY <1>7 DEF Connect, CheckGap, Load, Break, Prune, vars, pageVars, streamVars
  <2>2. QED BY <1>1, <2>1 DEF Copies, Behind, Coming, NewestAt
<1>8. QED BY <1>3, <1>4, <1>5, <1>6, <1>7 DEF Reads, Page, Stream

-----------------------------------------------------------------------------
LEMMA InitInv == Init => StreamInv
<1> SUFFICES ASSUME Init PROVE StreamInv
  OBVIOUS
<1>1. TypeOK
  BY InitTypeOK
<1>2. Latest = 0 /\ \A i \in 1..Latest : FALSE
  BY DEF Init, Latest
<1>3. Bounded
  BY <1>2 DEF Init, Bounded
<1>4. Positions /\ Checked /\ NoSilentGap /\ InOrder
  BY <1>2 DEF Init, Positions, Checked, NoSilentGap, InOrder
<1>5. Accounted /\ Copies
  BY DEF Init, Accounted, Nothing, Copies, Behind
<1>6. QED BY <1>1, <1>3, <1>4, <1>5 DEF StreamInv

LEMMA StepInv == StreamInv /\ [Next]_vars => StreamInv'
<1> SUFFICES ASSUME StreamInv, [Next]_vars PROVE StreamInv'
  OBVIOUS
<1>0. TypeOK /\ Bounded /\ Positions /\ NoSilentGap
  BY DEF StreamInv
<1>1. TypeOK /\ TypeOK' /\ Bounded'
  BY TypeStep, BoundedStep DEF StreamInv
<1>2. Positions' /\ Checked' /\ NoSilentGap'
  BY <1>1, PositionsStep DEF StreamInv
<1>3. ASSUME ~missed' PROVE InOrder' /\ Accounted' /\ Copies'
  <2>1. ~missed /\ InOrder /\ Accounted /\ Copies
    BY <1>3, MissedStays DEF StreamInv
  <2>2. InOrder' /\ Accounted'
    BY <1>1, <1>3, <2>1, AccountedStep
  <2>3. CASE \E w \in Writers : (\E r \in Rows : Commit(w, r)) \/ Refresh(w) \/ AppendEvent(w)
    <3>1. PICK w \in Writers : (\E r \in Rows : Commit(w, r)) \/ Refresh(w) \/ AppendEvent(w)
      BY <2>3
    <3>2. QED BY <1>0, <1>1, <1>3, <2>1, <2>2, <3>1, CopiesWriter
  <2>4. CASE \E w \in Writers : AppendFails(w)
    BY <1>3, <2>4 DEF AppendFails
  <2>5. CASE Deliver
    BY <1>0, <1>3, <2>1, <2>2, <2>5, CopiesDeliver
  <2>6. CASE Reads /\ ~Deliver
    BY <1>0, <1>3, <2>1, <2>2, <2>6, CopiesReads
  <2>7. QED BY <2>3, <2>4, <2>5, <2>6 DEF Next, Reads, Stream
<1>4. QED BY <1>1, <1>2, <1>3 DEF StreamInv

THEOREM StreamCorrect == Spec => []StreamInv
BY InitInv, StepInv, PTL DEF Spec

\* Types of rows, events, page and stream, for any number of rows and writers.
THEOREM StreamTypeCorrect == Spec => []TypeOK
<1>1. StreamInv => TypeOK
  BY DEF StreamInv
<1>2. QED BY <1>1, StreamCorrect, PTL

\* A poll that has not been overtaken by the daily pruning delivers every event
\* after the cursor (stream.py, replay_gap_requires_resync).
THEOREM NoEventSkipped == Spec => []NoSilentGap
<1>1. StreamInv => NoSilentGap
  BY DEF StreamInv
<1>2. QED BY <1>1, StreamCorrect, PTL

\* At rest the list shows the rows of the database, unless one of the races has
\* happened that "missed" names.
THEOREM ListIsCurrent == Spec => []ViewCurrent
<1>1. StreamInv => ViewCurrent
  <2> SUFFICES ASSUME StreamInv, \A w \in Writers : writer[w] = Idle, CaughtUp, ~missed
               PROVE  view = rows
    BY DEF ViewCurrent
  <2>1. ASSUME NEW r \in Rows PROVE view[r] = rows[r]
    <3>1. Behind(view, Latest, r)
      BY DEF StreamInv, CaughtUp, Copies
    <3>2. ~Coming(r)
      BY DEF Coming
    <3>3. \A i \in (Latest + 1)..Latest : FALSE
      BY NumbersType DEF StreamInv
    <3>4. QED BY <3>1, <3>2, <3>3 DEF Behind
  <2>2. view \in [Rows -> Nat] /\ rows \in [Rows -> Nat]
    BY NumbersType DEF StreamInv
  <2>3. QED BY <2>1, <2>2
<1>2. QED BY <1>1, StreamCorrect, PTL
================================================================================
