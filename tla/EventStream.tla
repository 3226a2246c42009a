------------------------------ MODULE EventStream ------------------------------
(***************************************************************************)
(* How the list of results in a browser follows the rows of the database.   *)
(* Whoever writes a history row commits it and then appends an event with a  *)
(* snapshot of it, in a transaction of its own. The browser loads a page of   *)
(* rows together with the id of the newest event and asks for the events      *)
(* after it; the server polls the table every five seconds. The scheduler     *)
(* prunes the table once a day: a client that was away for too long has to    *)
(* load the page again.                                                      *)
(*                                                                         *)
(* Ids are those of SQLite, the default: the greatest one plus one, given to   *)
(* one transaction at a time. A row is the number of writes to it; one client *)
(* stands for all, since they do not meet.                                   *)
(***************************************************************************)
EXTENDS Naturals, Sequences

CONSTANTS
  Rows, Writers,
  MaxRows,      \* STREAM_EVENT_MAX_ROWS, max_rows of the pruning
  BatchSize,    \* STREAM_REPLAY_BATCH_SIZE
  MaxWrites,    \* bound: writes of rows
  MaxPrunes,    \* bound: days
  MaxFaults,    \* bound: broken connections and failed requests
  MaxRefetches  \* bound: times the user has the list loaded again

ASSUME StreamAssumption ==
  /\ {MaxRows, BatchSize} \subseteq Nat \ {0}
  /\ {MaxWrites, MaxPrunes, MaxFaults, MaxRefetches} \subseteq Nat

VARIABLES
  rows,      \* how often each row has been written
  writer,    \* what each writer is about to append: its row and its snapshot
  events,    \* generation_stream_events, the pruned ones included
  oldest,    \* the least id that is still in the table
  view,      \* the rows as the list shows them
  fetch,     \* the request of the page: none, asked, items, answered
  items, newest,    \* what it has read: the rows, latest_event_id
  streamCursor,     \* latest_event_id of the page that is shown
  cursor,    \* lastEventId of the stream, the server's cursor while it is open
  conn,      \* the stream: none, closed (will connect), open, checked, stopped
  batch,     \* the events that were loaded and are not delivered yet
  missed,    \* history: did one of the races happen that the code leaves open?
  writes, prunes, faults, refetches

writeVars  == <<rows, writer, events>>
pageVars   == <<fetch, items, newest>>
streamVars == <<view, streamCursor, cursor, conn, batch>>
counts     == <<writes, prunes, faults, refetches>>
vars == <<writeVars, oldest, pageVars, streamVars, missed, counts>>

Snapshots == [row : Rows, version : Nat]
Idle      == [at |-> "idle"]
Told(at)  == [at : {at}, row : Rows, version : Nat]

Latest == Len(events)   \* get_latest_event_id: the newest event is never pruned

TypeOK ==
  /\ rows \in [Rows -> Nat]
  /\ writer \in [Writers -> {Idle} \cup Told("committed") \cup Told("read")]
  /\ events \in Seq(Snapshots)
  /\ oldest \in 1..(Latest + 1)
  /\ view \in [Rows -> Nat] /\ items \in [Rows -> Nat]
  /\ fetch \in {"none", "asked", "items", "answered"}
  /\ {newest, streamCursor, cursor} \subseteq 0..Latest
  /\ conn \in {"none", "closed", "open", "checked", "stopped"}
  /\ batch \subseteq (cursor + 1)..Latest
  /\ missed \in BOOLEAN
  /\ writes \in 0..MaxWrites /\ prunes \in 0..MaxPrunes
  /\ faults \in 0..MaxFaults /\ refetches \in 0..MaxRefetches

\* The History page is opened on a new database.
Init ==
  /\ rows = [r \in Rows |-> 0]
  /\ writer = [w \in Writers |-> Idle]
  /\ events = << >> /\ oldest = 1
  /\ view = [r \in Rows |-> 0]
  /\ fetch = "asked" /\ items = [r \in Rows |-> 0] /\ newest = 0
  /\ streamCursor = 0 /\ cursor = 0 /\ conn = "none" /\ batch = {}
  /\ missed = FALSE
  /\ writes = 0 /\ prunes = 0 /\ faults = 0 /\ refetches = 0

-----------------------------------------------------------------------------
(* Writers: workers, supervisors, requests, the scheduler.                  *)

Commit(w, r) ==
  /\ writer[w] = Idle
  /\ writes < MaxWrites /\ writes' = writes + 1
  /\ rows' = [rows EXCEPT ![r] = @ + 1]
  /\ writer' = [writer EXCEPT ![w] = [at |-> "committed", row |-> r, version |-> rows[r] + 1]]
  /\ UNCHANGED <<events, oldest, pageVars, streamVars, missed, prunes, faults, refetches>>

\* db.refresh(row). The helpers that work without expire_on_commit leave it out.
Refresh(w) ==
  /\ writer[w].at = "committed"
  /\ writer' = [writer EXCEPT ![w].at = "read", ![w].version = rows[writer[w].row]]
  /\ UNCHANGED <<rows, events, oldest, pageVars, streamVars, missed, counts>>

\* Has an event with a newer snapshot of the row been stored already? Has the
\* page that is being read an older one, while its latest_event_id will be newer?
Overtaken(w) == \E i \in 1..Latest : events[i].row = writer[w].row
                                  /\ events[i].version > writer[w].version
Unread(w)    == fetch = "items" /\ items[writer[w].row] < writer[w].version

\* append_stream_event
AppendEvent(w) ==
  /\ writer[w] # Idle
  /\ events' = Append(events, [row |-> writer[w].row, version |-> writer[w].version])
  /\ writer' = [writer EXCEPT ![w] = Idle]
  /\ missed' = (missed \/ Overtaken(w) \/ Unread(w))
  /\ UNCHANGED <<rows, oldest, pageVars, streamVars, counts>>

\* The insertion fails, which is logged, or the process dies before it.
AppendFails(w) ==
  /\ writer[w] # Idle
  /\ faults < MaxFaults /\ faults' = faults + 1
  /\ writer' = [writer EXCEPT ![w] = Idle]
  /\ missed' = TRUE
  /\ UNCHANGED <<rows, events, oldest, pageVars, streamVars, writes, prunes, refetches>>

\* prune_generation_stream_events. (An event that is appended between its two
\* statements is kept: as if it came after them.) A poll that has looked for a
\* gap before and reads the events after it does not notice this one.
Prune ==
  /\ prunes < MaxPrunes /\ prunes' = prunes + 1
  /\ Latest - oldest + 1 > MaxRows
  /\ oldest' = Latest - MaxRows + 1
  /\ missed' = (missed \/ (conn = "checked" /\ cursor + 1 < oldest'))
  /\ UNCHANGED <<writeVars, pageVars, streamVars, writes, faults, refetches>>

-----------------------------------------------------------------------------
(* The page: build_generation_history_page reads the rows, then the id.     *)

ReadItems ==
  /\ fetch = "asked"
  /\ fetch' = "items" /\ items' = rows
  /\ UNCHANGED <<writeVars, oldest, newest, streamVars, missed, counts>>

ReadLatest ==
  /\ fetch = "items"
  /\ fetch' = "answered" /\ newest' = Latest
  /\ UNCHANGED <<writeVars, oldest, items, streamVars, missed, counts>>

\* The answer replaces what the list shows. A stream is opened for a cursor other than
\* that of the page before, and for the first page. Otherwise the old one goes
\* on, and what it has delivered since the answer was written is overwritten.
Receive ==
  /\ fetch = "answered"
  /\ fetch' = "none"
  /\ view' = items /\ streamCursor' = newest
  /\ \/ /\ newest # streamCursor \/ conn = "none"
        /\ cursor' = newest /\ conn' = "closed" /\ batch' = {}
        /\ UNCHANGED missed
     \/ /\ newest = streamCursor /\ conn # "none"
        /\ missed' = (missed \/ cursor > newest)
        /\ UNCHANGED <<cursor, conn, batch>>
  /\ UNCHANGED <<writeVars, oldest, items, newest, counts>>

\* A request fails and is repeated.
FetchFails ==
  /\ fetch \in {"items", "answered"} /\ fetch' = "asked"
  /\ faults < MaxFaults /\ faults' = faults + 1
  /\ UNCHANGED <<writeVars, oldest, items, newest, streamVars, missed, writes, prunes, refetches>>

\* The user presses Refresh, or decides on a result: the query is invalidated.
Refetch ==
  /\ conn # "none"
  /\ refetches < MaxRefetches /\ refetches' = refetches + 1
  /\ fetch' = "asked"
  /\ UNCHANGED <<writeVars, oldest, items, newest, streamVars, missed, writes, prunes, faults>>

-----------------------------------------------------------------------------
(* The stream.                                                             *)

Keeps == UNCHANGED <<writeVars, oldest, streamCursor, writes, prunes, refetches>>

Connect ==
  /\ conn = "closed" /\ conn' = "open"
  /\ Keeps /\ UNCHANGED <<pageVars, view, cursor, batch, missed, faults>>

\* Mutant: off by one.
GapLate == cursor > 0 /\ oldest <= Latest /\ cursor < oldest - 2

\* replay_gap_requires_resync: the event after the cursor is gone.
Gap == cursor > 0 /\ oldest <= Latest /\ cursor < oldest - 1

\* Mutant: the client closes the stream and does nothing else.
ResyncStops ==
  /\ conn = "open" /\ batch = {} /\ Gap
  /\ conn' = "stopped"
  /\ Keeps /\ UNCHANGED <<pageVars, view, cursor, batch, missed, faults>>

\* "resync-required": the client closes the stream and has the page loaded again.
Resync ==
  /\ conn = "open" /\ batch = {} /\ Gap
  /\ conn' = "stopped" /\ fetch' = "asked"
  /\ Keeps /\ UNCHANGED <<items, newest, view, cursor, batch, missed, faults>>

\* A client whose page had no event yet has no cursor: it is sent what is left.
CheckGap ==
  /\ conn = "open" /\ batch = {} /\ ~Gap
  /\ conn' = "checked"
  /\ missed' = (missed \/ (cursor = 0 /\ oldest > 1))
  /\ Keeps /\ UNCHANGED <<pageVars, view, cursor, batch, faults>>

\* load_events_after
Load ==
  /\ conn = "checked" /\ conn' = "open"
  /\ LET first == IF cursor + 1 < oldest THEN oldest ELSE cursor + 1
     IN  batch' = {i \in first..Latest : i < first + BatchSize}
  /\ Keeps /\ UNCHANGED <<pageVars, view, cursor, missed, faults>>

\* One event is sent, and replaces the row in the list.
Deliver ==
  /\ conn = "open"
  /\ \E i \in batch :
       /\ \A j \in batch : i <= j
       /\ view' = [view EXCEPT ![events[i].row] = events[i].version]
       /\ cursor' = i /\ batch' = batch \ {i}
  /\ Keeps /\ UNCHANGED <<pageVars, conn, missed, faults>>

\* The connection breaks.
Break ==
  /\ conn \in {"open", "checked"} /\ conn' = "closed"
  /\ faults < MaxFaults /\ faults' = faults + 1
  /\ batch' = {}
  /\ Keeps /\ UNCHANGED <<pageVars, view, cursor, missed>>

-----------------------------------------------------------------------------
Page   == ReadItems \/ ReadLatest \/ Receive
Stream == Connect \/ Resync \/ CheckGap \/ Load \/ Deliver

Next ==
  \/ \E w \in Writers : (\E r \in Rows : Commit(w, r)) \/ Refresh(w) \/ AppendEvent(w) \/ AppendFails(w)
  \/ Page \/ FetchFails \/ Refetch
  \/ Stream \/ Break
  \/ Prune

Spec == Init /\ [][Next]_vars

\* The server polls as long as the client is there, the client connects again as
\* long as the page is open, and a request is answered or repeated.
FairSpec == Spec /\ WF_vars(Page) /\ WF_vars(Stream)

-----------------------------------------------------------------------------
CaughtUp == fetch = "none" /\ conn \in {"open", "checked"} /\ cursor = Latest

(* At rest the list shows what the database holds: a pruned table, a broken   *)
(* connection, a batch or a resync never leaves a row behind (stream.py,      *)
(* routes_generation.py). It may show an older one only after what "missed"   *)
(* records, and the code does not prevent: a snapshot stored after a newer one,*)
(* an event that was lost, a write between the two reads of a page, an event   *)
(* overwritten by a page of the same cursor, events pruned within a poll or     *)
(* before the first event of a page that had none.                          *)
ViewCurrent ==
  (\A w \in Writers : writer[w] = Idle) /\ CaughtUp /\ ~missed => view = rows

(* No event is passed over unnoticed: the events that are delivered follow the  *)
(* cursor without a gap (stream.py).                                        *)
NoSilentGap ==
  ~missed => \A i \in batch : \A k \in (cursor + 1)..i : k \in batch

(* A client comes to the end of the events and stays there, whatever breaks:   *)
(* above all a stream that a resync has stopped is opened again, because the    *)
(* page loaded after it has another cursor (useHistoryStreamSync.ts).         *)
ClientCatchesUp == <>[]CaughtUp
================================================================================
