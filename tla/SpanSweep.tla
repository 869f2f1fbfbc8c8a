------------------------------- MODULE SpanSweep -------------------------------
(***************************************************************************)
(* max_overlap of metrics/collect.py: how many of a list of spans were     *)
(* open at once, by a sweep over their starts and ends in order.  Step is  *)
(* one turn of the loop.                                                   *)
(*                                                                         *)
(*   walk.spans   the spans, [t0, t1], by the agent they are of            *)
(*   walk.left    the starts (d = 1) and ends (d = -1) still to come       *)
(*   walk.cur     how many are open;  walk.best  the most so far           *)
(***************************************************************************)
EXTENDS Integers, FiniteSets

CONSTANTS Agents, Times      \* bounds: the agents that may have a span; the stamps

VARIABLE walk

Spans == {s \in [t0 : Times, t1 : Times] : s.t0 <= s.t1}

events(s) == {[of |-> i, t |-> s[i].t0, d |-> 1] : i \in DOMAIN s}
               \cup {[of |-> i, t |-> s[i].t1, d |-> -1] : i \in DOMAIN s}

Init == walk \in UNION {{[spans |-> s, left |-> events(s), cur |-> 0, best |-> 0] : s \in [A -> Spans]} :
                          A \in SUBSET Agents}

\* Mutant: starts before the ends of the same time.
Before_startsFirst(a, b) == a.t < b.t \/ (a.t = b.t /\ a.d > b.d)

\* The order of sort(): by time, and of the same time the ends first.
Before(a, b) == a.t < b.t \/ (a.t = b.t /\ a.d < b.d)

Step(e) ==
  /\ \A f \in walk.left : ~Before(f, e)
  /\ LET cur == walk.cur + e.d
     IN  walk' = [walk EXCEPT !.left = @ \ {e}, !.cur = cur, !.best = IF cur > @ THEN cur ELSE @]

Next == \E e \in walk.left : Step(e)

-----------------------------------------------------------------------------
open(t) == {i \in DOMAIN walk.spans : walk.spans[i].t0 <= t /\ t < walk.spans[i].t1}

\* The sweep ends with the largest number of spans that were open at one time, a span
\* that ends as another starts not counted with it, and a span without length not at all.
PeakIsRight ==
  walk.left = {} =>
    /\ \A t \in Times : Cardinality(open(t)) <= walk.best
    /\ walk.best = 0 \/ \E t \in Times : Cardinality(open(t)) = walk.best
===============================================================================
