------------------------------ MODULE ImmichClient ------------------------------
(***************************************************************************)
(* The client of the Immich server (immich/client.py, immich/endpoints.py): the *)
(* calls that take more than one request. Versions of the server differ in the *)
(* endpoints they have, so the client goes from one to the next; searches turn *)
(* pages and sets of persons; downloads try again and fall back to previews,    *)
(* and previews to downloads. Every request is a step, and the server may fail *)
(* at each. Calls are independent: one at a time is modelled.                  *)
(***************************************************************************)
EXTENDS Naturals, FiniteSets, Sequences

CONSTANTS
  Photos,     \* a set of numbers: the server lists photos in this order
  Libraries,  \* functions from Photos to sets of persons: who is in a photo
  Queries,    \* filters of searches
  Servers,    \* sets of endpoints, one for each version of the server
  Size,       \* photos in a page
  MaxPages,   \* pages that a search looks at for one set of persons
  Tries,      \* requests to one endpoint of a download or a random search
  MaxFaults,  \* bound: faults of the server in one call
  Nothing

Originals == <<"original", "file", "legacy download", "older download">>
Previews  == "thumbnail"
Endpoints ==
  {"metadata", "random", Previews, "people", "statistics"} \cup {Originals[i] : i \in 1..4}
  \cup {"put album", "patch album", "legacy album", "put asset", "patch asset"}
  \cup {"me", "albums", "version", "older version", "other"}

People == UNION {l[p] : l \in Libraries, p \in Photos}

\* ids: person_ids of the automation; the others are person_filters by their mode.
QuerySet == [ids : SUBSET People, obligatory : SUBSET People, optional : SUBSET People,
             exclude : SUBSET People]

ClientAssumption ==
  /\ Photos \subseteq Nat \ {0} /\ IsFiniteSet(Photos)
  /\ \A l \in Libraries : DOMAIN l = Photos /\ \A p \in Photos : IsFiniteSet(l[p])
  /\ Queries \subseteq QuerySet /\ Servers \subseteq SUBSET Endpoints
  /\ {Size, MaxPages, Tries} \subseteq Nat \ {0} /\ MaxFaults \in Nat
  /\ Nothing # {}

VARIABLES
  library,  \* the photos of the server
  offered,  \* the endpoints it has
  totals,   \* whether its pages say how many photos match
  call,     \* the call that is being made
  faults,   \* faults of the server in this call
  written   \* history: how often the server did what this call asks for

vars == <<library, offered, totals, call, faults, written>>
server == <<library, offered, totals>>

NoCall == [op |-> "none"]
Init ==
  /\ library \in Libraries /\ offered \in Servers /\ totals \in BOOLEAN
  /\ call = NoCall /\ faults = 0 /\ written = 0

-----------------------------------------------------------------------------
(* Answers. 404 and 405 come from an endpoint that the server does not have.     *)

Faults == {"connection", "auth", "permission", "failed", "odd", "empty"}
Answers(endpoint) ==
  IF endpoint \notin offered THEN {"missing"}
  ELSE {"ok"} \cup (IF faults < MaxFaults THEN Faults ELSE {})

Count(answer) == faults' = IF answer \in Faults THEN faults + 1 ELSE faults
Reads(answer) == Count(answer) /\ UNCHANGED <<server, written>>

\* What the caller gets: a value, or an error.
Return(value) == call' = [op |-> call.op, at |-> "ended", value |-> value, made |-> call]
Raise == Return(Nothing)
Ended == call.op # "none" /\ call.at = "ended"

Begin(what) ==
  /\ call = NoCall /\ call' = what
  /\ faults' = 0 /\ written' = 0 /\ UNCHANGED server
Finish ==
  /\ Ended /\ call' = NoCall /\ UNCHANGED <<server, faults, written>>

-----------------------------------------------------------------------------
(* Searches.                                                              *)

\* Mutant: with persons that must be there, at least one optional one is asked for.
RequestSetsFromOne(q) ==
  IF q.ids # {} THEN {q.ids}
  ELSE {q.obligatory \cup some : some \in
          IF q.optional = {} THEN {{}} ELSE (SUBSET q.optional) \ {{}}}

\* build_person_request_sets: the persons that must be there, with more and more of
\* the optional ones; without the former, at least one of the latter.
RequestSets(q) ==
  IF q.ids # {} THEN {q.ids}
  ELSE {q.obligatory \cup some : some \in
          IF q.obligatory = {} /\ q.optional # {} THEN (SUBSET q.optional) \ {{}}
          ELSE SUBSET q.optional}

\* Smaller combinations come first.
Nexts(sets) == {s \in sets : \A t \in sets : Cardinality(s) <= Cardinality(t)}

Matching(s)  == {p \in Photos : s \subseteq library[p]}
Place(p, s)  == Cardinality({o \in Matching(s) : o <= p})
Page(s, k)   == {p \in Matching(s) : Place(p, s) > (k - 1) * Size /\ Place(p, s) <= k * Size}
Samples(s)   == {some \in SUBSET Matching(s) :
                   Cardinality(some) <= Size /\ (some = {} => Matching(s) = {})}
Allowed(some, q) == {p \in some : library[p] \cap q.exclude = {}}

MorePages(s, k) ==
  IF totals THEN k * Size < Cardinality(Matching(s)) ELSE Cardinality(Page(s, k)) >= Size

SearchBegins == \E q \in Queries, from \in 1..2, at \in {"metadata", "random"} :
  \E s \in Nexts(RequestSets(q)) :
    Begin([op |-> "search", at |-> at, query |-> q, set |-> s, left |-> RequestSets(q) \ {s},
           from |-> from, page |-> from, tries |-> 1])

NextSet ==
  IF call.left = {} THEN Return({})
  ELSE \E s \in Nexts(call.left) :
         call' = [call EXCEPT !.set = s, !.left = @ \ {s}, !.page = call.from, !.tries = 1,
                              !.at = IF @ = "fallback" THEN "metadata" ELSE @]

\* Photos that may be used end the search; a page of others leads to the next page.
SearchGets(some, more) ==
  LET good == Allowed(some, call.query) IN
  IF good # {} THEN Return(good)
  ELSE IF some # {} /\ more /\ call.tries < MaxPages
  THEN call' = [call EXCEPT !.page = @ + 1, !.tries = @ + 1]
  ELSE NextSet

SearchPage == \E answer \in Answers("metadata") :
  /\ call.op = "search" /\ call.at = "metadata" /\ Reads(answer)
  /\ CASE answer = "ok"      -> SearchGets(Page(call.set, call.page), MorePages(call.set, call.page))
       [] answer = "missing" -> call' = [call EXCEPT !.at = "fallback"]
       [] OTHER              -> Raise

\* A server without that endpoint is asked for a sample, once for each set. A sample
\* that is no list counts as empty.
SearchFallback == \E answer \in Answers("random") :
  /\ call.op = "search" /\ call.at = "fallback" /\ Reads(answer)
  /\ \/ answer = "ok" /\ \E some \in Samples(call.set) : SearchGets(some, FALSE)
     \/ answer = "odd" /\ NextSet
     \/ answer # "ok" /\ Raise

\* search_random_assets: a sample may consist of photos that are excluded.
SearchSample == \E answer \in Answers("random") :
  /\ call.op = "search" /\ call.at = "random" /\ Reads(answer)
  /\ IF answer # "ok" THEN Raise
     ELSE \E some \in Samples(call.set) :
       LET good == Allowed(some, call.query) IN
       IF good # {} THEN Return(good)
       ELSE IF some # {} /\ call.tries < Tries THEN call' = [call EXCEPT !.tries = @ + 1]
       ELSE NextSet

\* wait_for: after 60 seconds the search is an error.
SearchTimesOut ==
  /\ call.op = "search" /\ ~Ended /\ faults < MaxFaults
  /\ Raise /\ Reads("connection")

-----------------------------------------------------------------------------
(* Downloads and previews.                                                 *)

DownloadBegins == \E op \in {"download", "thumbnail"} :
  Begin([op |-> op, at |-> IF op = "download" THEN "original" ELSE "preview",
         endpoint |-> 1, tries |-> 1, refused |-> FALSE])

NextOriginal(refused) ==
  IF call.endpoint < 4
  THEN call' = [call EXCEPT !.endpoint = @ + 1, !.tries = 1, !.refused = @ \/ refused]
  ELSE call' = [call EXCEPT !.at = "last resort", !.refused = @ \/ refused]

\* Mutant: the second try is the last one.
TriesLeftOne == call.tries < Tries - 1
TriesLeft == call.tries < Tries

\* get_asset_data: an exception or an empty answer is tried again.
Download ==
  /\ call.op \in {"download", "thumbnail"} /\ call.at = "original"
  /\ \E answer \in Answers(Originals[call.endpoint]) : Reads(answer) /\
       CASE answer \in {"ok", "odd"} ->
              \* A thumbnail is made of it, unless it cannot be decoded.
              Return("original") \/ (call.op = "thumbnail" /\ Raise)
         [] answer \in {"connection", "empty"} /\ TriesLeft ->
              call' = [call EXCEPT !.tries = @ + 1]
         [] answer \in {"connection", "empty"} /\ ~TriesLeft -> NextOriginal(FALSE)
         [] OTHER -> NextOriginal(answer # "missing")

\* get_asset_thumbnail, called by a user of the client.
Preview == \E answer \in Answers(Previews) :
  /\ call.op = "thumbnail" /\ call.at = "preview" /\ Reads(answer)
  /\ IF answer \in {"ok", "odd", "empty"} THEN Return("preview")
     ELSE call' = [call EXCEPT !.at = "original"]

NoPreview == Raise

\* get_asset_thumbnail, called by get_asset_data: allow_original_fallback is False.
LastResort == \E answer \in Answers(Previews) :
  /\ call.op \in {"download", "thumbnail"} /\ call.at = "last resort" /\ Reads(answer)
  /\ IF answer \in {"ok", "odd"} THEN Return("preview")
     ELSE IF answer = "empty" THEN Raise
     ELSE NoPreview

-----------------------------------------------------------------------------
(* Calls that go from one endpoint to the next, for other versions of Immich.  *)

Ways(op) ==
  CASE op = "add to album" -> <<"put album", "patch album", "legacy album">>
    [] op = "update asset" -> <<"put asset", "patch asset">>
    [] op = "probe"        -> <<"me", "albums">>
    [] op = "version"      -> <<"version", "older version">>
    [] op = "upload"       -> <<"other">>
    [] op = "exif"         -> <<"other">>
Writing == {"add to album", "update asset", "upload"}

\* A call that writes goes on only where the server did nothing.
GoesOn(op, answer) ==
  CASE op \in Writing -> answer = "missing"
    [] OTHER          -> answer # "connection"

WaysBegin == \E op \in Writing \cup {"probe", "version", "exif"} :
  Begin([op |-> op, at |-> "ways", way |-> 1])

\* The errors of the last way: no version, no EXIF data; otherwise an exception.
Exhausted(op, answer) ==
  IF op = "exif" \/ (op = "version" /\ answer # "connection") THEN Return({}) ELSE Raise

Trying == call.op \in Writing \cup {"probe", "version", "exif"} /\ ~Ended
Way == Trying /\ \E answer \in Answers(Ways(call.op)[call.way]) :
  /\ Count(answer) /\ UNCHANGED server
  \* An answer may get lost after the server has done its work.
  /\ \E does \in IF call.op \notin Writing THEN {0}
                 ELSE IF answer \in {"ok", "odd", "empty"} THEN {1}
                 ELSE IF answer = "connection" THEN {0, 1} ELSE {0} :
       written' = written + does
  /\ IF answer = "ok" \/ (answer \in {"odd", "empty"} /\ call.op \in Writing \ {"upload"})
     THEN Return({})
     ELSE IF GoesOn(call.op, answer) /\ call.way < Len(Ways(call.op))
     THEN call' = [call EXCEPT !.way = @ + 1]
     ELSE Exhausted(call.op, answer)

-----------------------------------------------------------------------------
(* list_people: pages of persons, then the number of photos of each.          *)

PeopleBegins == Begin([op |-> "people", at |-> "pages", missing |-> People, stats |-> {}])

PeoplePage == \E answer \in Answers("people") :
  /\ call.op = "people" /\ call.at = "pages" /\ Reads(answer)
  /\ IF answer # "ok" THEN Raise
     ELSE IF call.missing = {} THEN Return({})
     ELSE \E some \in (SUBSET call.missing) \ {{}} :
       IF some = call.missing THEN call' = [call EXCEPT !.at = "statistics"]
       ELSE call' = [call EXCEPT !.missing = @ \ some]

\* gather: in any order, and the first error ends all.
Statistics == \E person \in People, answer \in Answers("statistics") :
  /\ call.op = "people" /\ call.at = "statistics" /\ person \notin call.stats /\ Reads(answer)
  /\ IF answer # "ok" THEN Raise
     ELSE IF call.stats \cup {person} = People THEN Return({})
     ELSE call' = [call EXCEPT !.stats = @ \cup {person}]

-----------------------------------------------------------------------------
Step ==
  \/ SearchPage \/ SearchFallback \/ SearchSample
  \/ Download \/ Preview \/ LastResort
  \/ Way \/ PeoplePage \/ Statistics
  \/ Finish
Next ==
  \/ SearchBegins \/ DownloadBegins \/ WaysBegin \/ PeopleBegins
  \/ Step \/ SearchTimesOut

Spec == Init /\ [][Next]_vars

-----------------------------------------------------------------------------
(* A search that finds nothing by turning pages has seen all there is: no photo   *)
(* that has the persons the filters ask for, and nobody they exclude, is listed  *)
(* from the page it began with to the last one it may look at. (If the total     *)
(* that a server sends counts all matches and not those of the page.)           *)
Least(q) == IF q.ids # {} THEN {q.ids}
            ELSE IF q.obligatory # {} \/ q.optional = {} THEN {q.obligatory}
            ELSE {{person} : person \in q.optional}
NothingMeansNone ==
  Ended /\ call.op = "search" /\ call.value = {} /\ call.made.at = "metadata" =>
    LET q == call.made.query  first == call.made.from IN
    \A s \in Least(q) : \A p \in Allowed(Matching(s), q) :
      Place(p, s) <= (first - 1) * Size \/ Place(p, s) > (first - 1 + MaxPages) * Size

(* Faults of the server neither cost the original nor repeat what was done. A      *)
(* download ends with the original, and not with an error or the smaller preview, *)
(* if the server has an endpoint for it and fails less often than one endpoint is *)
(* tried (an error status, unlike a lost or an empty answer, makes the client    *)
(* leave that endpoint). A call that writes goes on to the next way only where   *)
(* the server does not know the one before, and never because an answer was lost. *)
FaultsHarmless ==
  /\ Ended /\ call.op = "download" /\ call.value # "original" /\ ~call.made.refused
       /\ (\E i \in 1..4 : Originals[i] \in offered)
     => faults >= Tries
  /\ written <= 1
================================================================================
