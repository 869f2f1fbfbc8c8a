------------------------------- MODULE StepSpans -------------------------------
(***************************************************************************)
(* The time of a captured gate, split among its steps: the walk over the   *)
(* stamped lines of gate.log in collect_compute (metrics/collect.py).      *)
(* Read is one turn of the loop.                                           *)
(*                                                                         *)
(*   walk.lines   the lines so far, [t, kind]: t the stamp, NULL for a     *)
(*                line without one; kind the step whose banner it is, or   *)
(*                "build" (a compiler's invocation) or "other"             *)
(*   walk.cur     the step that is open;  walk.prev_t  the last stamp      *)
(*   walk.spans   the seconds of each step                                 *)
(*   walk.build_s, walk.run_s   the seconds before a line that is a        *)
(*                compiler's invocation, and before one that is not        *)
(***************************************************************************)
EXTENDS Naturals, Sequences, FiniteSets

CONSTANTS
  NULL,
  STEP_MARKERS,          \* the steps that have a banner
  Gaps, MaxLines         \* bounds: the seconds between two lines; the lines

VARIABLE walk

Init == walk = [lines |-> <<>>, cur |-> NULL, prev_t |-> NULL,
                spans |-> [s \in {} |-> 0], build_s |-> 0, run_s |-> 0]

\* Mutant: the seconds before a banner go to the step it opens.
charged_next(ln) == IF ln.kind \in STEP_MARKERS THEN ln.kind ELSE walk.cur

\* The step the seconds before a line go to.
charged(ln) == walk.cur

Read(ln) ==
  LET dt   == IF walk.prev_t = NULL THEN 0 ELSE ln.t - walk.prev_t
      step == charged(ln)
      spent(s) == IF s \in DOMAIN walk.spans THEN walk.spans[s] ELSE 0
      seen == [walk EXCEPT !.lines = Append(@, ln)]
  IN  walk' = IF ln.t = NULL THEN seen
              ELSE [seen EXCEPT !.spans = IF step = NULL THEN @
                                          ELSE [s \in DOMAIN @ \cup {step} |-> spent(s) + IF s = step THEN dt ELSE 0],
                                !.build_s = IF ln.kind = "build" THEN @ + dt ELSE @,
                                !.run_s = IF ln.kind # "build" THEN @ + dt ELSE @,
                                !.prev_t = ln.t,
                                !.cur = IF ln.kind \in STEP_MARKERS THEN ln.kind ELSE @]

\* stamp.py: the stamps are of a monotonic clock.
Next ==
  /\ Len(walk.lines) < MaxLines
  /\ \E kind \in STEP_MARKERS \cup {"build", "other"}, gap \in Gaps :
       LET last == IF walk.prev_t = NULL THEN 0 ELSE walk.prev_t
       IN  \E t \in {NULL, last + gap} : Read([t |-> t, kind |-> kind])

-----------------------------------------------------------------------------
stamped == {k \in DOMAIN walk.lines : walk.lines[k].t # NULL}

\* Line k is under the banner of a step: the last one before it.
Under(k, step) ==
  \E j \in stamped :
    /\ j < k /\ walk.lines[j].kind = step
    /\ \A i \in stamped : j < i /\ i < k => walk.lines[i].kind \notin STEP_MARKERS

\* Line k ends second u, the one from u to u + 1: it is the first stamped after u.
Ends(k, u) ==
  /\ k \in stamped /\ u < walk.lines[k].t
  /\ \A j \in stamped : j < k => walk.lines[j].t <= u

\* The seconds from the first stamp to the last.
seconds == UNION {walk.lines[e[1]].t .. walk.lines[e[2]].t - 1 : e \in stamped \X stamped}

\* Every second of the log is in build_s or in run_s, and every second after the
\* first banner is of the step whose banner was the last before the line that ends it,
\* steps that come back added up; lines without a stamp change nothing.
SpansAddUp ==
  /\ walk.build_s = Cardinality({u \in seconds : \E k \in stamped : Ends(k, u) /\ walk.lines[k].kind = "build"})
  /\ walk.run_s = Cardinality({u \in seconds : \E k \in stamped : Ends(k, u) /\ walk.lines[k].kind # "build"})
  /\ DOMAIN walk.spans = {step \in STEP_MARKERS : \E k \in stamped : Under(k, step)}
  /\ \A step \in DOMAIN walk.spans :
       walk.spans[step] = Cardinality({u \in seconds : \E k \in stamped : Ends(k, u) /\ Under(k, step)})
===============================================================================
