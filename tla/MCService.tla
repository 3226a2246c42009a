------------------------------- MODULE MCService -------------------------------
(***************************************************************************)
(* Values of the constants of Service for TLC, and one initial state of the parts *)
(* that do not move.                                                       *)
(***************************************************************************)
EXTENDS Service

CONSTANTS s1, p1, p2, n1, e1, e2, ann, bob, eve

-----------------------------------------------------------------------------
(* Schedules: saved as daily, on a day of the week, or switched off; a weekly one *)
(* is there at the start.                                                    *)

Expr(kind, days, time) == [kind |-> kind, days |-> days, at |-> time, valid |-> TRUE]
Form(on, expr, name, notes) == [enabled |-> on, expr |-> expr, preset |-> name, notes |-> notes]
SomeForms == {Form(TRUE, Expr("daily", {}, 1), p1, {n1}), Form(TRUE, Expr("days", {1}, 1), p1, {}),
              Form(FALSE, Expr("weekly", {}, NoTime), p2, {})}
NoRows == [s \in {} |-> 0]
SomeRows == {NoRows,
  [s \in {s1} |-> [enabled |-> TRUE, deleted |-> FALSE, expr |-> Expr("weekly", {}, 1), preset |-> p1,
                   notes |-> Notifications, last |-> NoTime, next |-> NoTime]]}

-----------------------------------------------------------------------------
(* Effects: an empty table; the text of an earlier release; an edited text and an *)
(* effect of the user's own.                                                *)

Row(source, text, edited) == [source |-> source, text |-> text, enabled |-> TRUE, edited |-> edited]
SomeEffects == {NoRows, [e \in {e1} |-> Row("builtin", "old", FALSE)],
                [e \in {e1, e2} |-> IF e = e1 THEN Row("builtin", "user", TRUE) ELSE Row("custom", "user", FALSE)]}
SomeBodies == {[text |-> "user", enabled |-> TRUE], [text |-> "seed", enabled |-> FALSE]}
SomeItems  == {[text |-> "user", enabled |-> TRUE, source |-> "none"],
               [text |-> "user", enabled |-> TRUE, source |-> "builtin"]}

-----------------------------------------------------------------------------
(* The client: three photos on pages of one, two pages at most; servers with all *)
(* endpoints, with one for downloads, with almost none, and with older ones.     *)

Album(f, g, h) == [p \in Photos |-> CASE p = 1 -> f [] p = 2 -> g [] p = 3 -> h]
SomeLibraries == {Album({ann}, {ann, bob}, {bob, eve}), Album({ann, eve}, {ann}, {ann, bob, eve}),
                  Album({ann, eve}, {ann, eve}, {ann})}
Query(ids, must, may, not) == [ids |-> ids, obligatory |-> must, optional |-> may, exclude |-> not]
SomeQueries == {Query({ann, bob}, {}, {}, {}), Query({}, {ann}, {bob}, {eve}),
                Query({}, {}, {ann, bob}, {eve}), Query({}, {}, {}, {ann})}
Downloads == {"original", "file", "legacy download", "older download"}
AllWays == Downloads \cup
  {"metadata", "random", "thumbnail", "people", "statistics", "put album", "patch album",
   "legacy album", "put asset", "patch asset", "me", "albums", "version", "older version", "other"}
SomeServers == {AllWays, (AllWays \ Downloads) \cup {"original"}, {"people", "statistics", "other"},
                AllWays \ {"metadata", "original", "file", "put album", "patch album", "put asset",
                           "me", "version", "thumbnail"},
                AllWays \ Downloads}

-----------------------------------------------------------------------------
MCInit ==
  /\ Init
  /\ part # "schedules" => rows = NoRows
  /\ part # "effects"   => effects = NoRows
  /\ part # "client"    => offered = AllWays /\ totals /\ library[1] = {ann} /\ library[2] = {ann, bob}
  /\ part # "secrets"   => saved = [n \in DOMAIN saved |-> Empty]
  /\ part # "startup"   => postgres /\ tables = 0
  /\ part # "daemon"    => queued

MCSpec == MCInit /\ [][Next]_vars /\ Fairness
================================================================================
