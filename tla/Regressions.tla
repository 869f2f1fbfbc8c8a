------------------------------ MODULE Regressions ------------------------------
(***************************************************************************)
(* The regressions the dashboard lists: verdict and the walk of build_html *)
(* (metrics/dashboard.py) over the domains, in each over its headlines and *)
(* then over its whole table.                                              *)
(*                                                                         *)
(*   walk.todo          the domains left                                   *)
(*   walk.charts        the series of this domain whose chart is to come   *)
(*   walk.rows          those whose row is to come                         *)
(*   walk.cell          the values of each series <<domain, scope, name>>: *)
(*                      latest and prev, NULL for a gap                    *)
(*   walk.regressions   what the banner will list                          *)
(***************************************************************************)
EXTENDS Integers, Sequences, Functions

CONSTANTS
  NULL,
  DOMAINS, Series, Values,   \* the domains in order, the series, their values
  HEADLINES,                 \* the names with a chart, each with its domain
  direction, tol             \* of the names that have one, "up" or "down"; percent

VARIABLE walk

HEADLINE_SCOPES == {"", "gate", "cocotb"}

Init == walk \in [todo : {DOMAINS}, charts : {{}}, rows : {{}},
                  cell : [Series -> [latest : Values, prev : Values]], regressions : {<<>>}]

Abs(n) == IF n < 0 THEN -n ELSE n

\* Of the latest step; one without a verdict is "flat" here.
verdict(name, cur, prev) ==
  IF NULL \in {cur, prev} \/ name \notin DOMAIN direction \/ cur = prev THEN "flat"
  ELSE IF prev # 0 /\ 100 * Abs(cur - prev) < tol * Abs(prev) THEN "flat"
  ELSE IF (cur > prev) <=> (direction[name] = "up") THEN "better" ELSE "worse"

Worse(key) == verdict(key[3], walk.cell[key].latest, walk.cell[key].prev) = "worse"

\* Mutant: a name that is listed is not listed for another scope.
Listed_byName(list, key) == \E i \in DOMAIN list : list[i][3] = key[3]

\* A row of the table is not listed again: scope and name tell.
Listed(list, key) == \E i \in DOMAIN list : list[i][2] = key[2] /\ list[i][3] = key[3]

\* The next domain.
Section ==
  /\ walk.todo # <<>> /\ walk.charts = {} /\ walk.rows = {}
  /\ LET keys == {k \in Series : k[1] = Head(walk.todo)}
     IN  walk' = [walk EXCEPT !.todo = Tail(@), !.rows = keys,
                    !.charts = {k \in keys : k[2] \in HEADLINE_SCOPES /\ <<k[1], k[3]>> \in HEADLINES}]

\* The next chart, in some order of the keys ...
Chart(key) ==
  /\ key \in walk.charts
  /\ walk' = [walk EXCEPT !.charts = @ \ {key},
                !.regressions = IF Worse(key) THEN Append(@, key) ELSE @]

\* ... and, after the charts, the next row of the table.
Row(key) ==
  /\ walk.charts = {} /\ key \in walk.rows
  /\ walk' = [walk EXCEPT !.rows = @ \ {key},
                !.regressions = IF Worse(key) /\ ~Listed(@, key) THEN Append(@, key) ELSE @]

Next == Section \/ \E key \in Series : Chart(key) \/ Row(key)

-----------------------------------------------------------------------------
\* The banner lists every series that moved the wrong way by the dead-band or more
\* (from 0, at all), each once, whether it has a chart or only a row, and nothing
\* else.
RegressionsListed ==
  walk.todo = <<>> /\ walk.charts = {} /\ walk.rows = {} =>
    /\ \A key \in Series :
         LET c == walk.cell[key]
             bad == /\ NULL \notin {c.latest, c.prev} /\ key[3] \in DOMAIN direction
                    /\ IF direction[key[3]] = "up" THEN c.latest < c.prev ELSE c.latest > c.prev
                    /\ 100 * Abs(c.latest - c.prev) >= tol * Abs(c.prev)
         IN  bad <=> \E i \in DOMAIN walk.regressions : walk.regressions[i] = key
    /\ \A i, j \in DOMAIN walk.regressions : walk.regressions[i] = walk.regressions[j] => i = j
===============================================================================
