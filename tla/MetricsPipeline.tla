---------------------------- MODULE MetricsPipeline ----------------------------
(***************************************************************************)
(* From a captured gate to the dashboard: metrics/capture.sh leaves        *)
(* artifacts, metrics/collect.py reads them and writes one run of a SQLite *)
(* database, metrics/dashboard.py reads that.  Gates, collectors and the   *)
(* dashboard are processes of their own; each of them can be killed, and   *)
(* nothing but the database locks anything.                                *)
(*                                                                         *)
(*   art    the artifacts (MetricsRows)                                    *)
(*   gate   the gate: [n, todo, ran], n its number, todo the stages left   *)
(*          and then "end", ran whether none was skipped and nobody edited *)
(*          the tree or ran a target by hand beside it                     *)
(*   done   the last gate, if it ran every stage and passed and since it   *)
(*          began nobody edited the tree or ran a target by hand; else 0   *)
(*   col    the collectors: todo the steps left, seen the artifacts as it  *)
(*          found them and whether git said dirty, key, hit (what the      *)
(*          SELECT found) and of, the gate that was done when it started   *)
(*          and still is, nobody having committed meanwhile; else 0        *)
(*   db     the runs by id: [key, at, seen, rowsAt, of], at and rowsAt the *)
(*          number of the commit the run row and its children are from     *)
(*   lock   the collector in a write transaction                           *)
(*   page   the dashboard: the queries left, and of each run what they     *)
(*          got: [key, at], of the run row and of its children             *)
(*   reads, pages, hands  the collections and pages begun, and what people *)
(*          did in the working tree, for the bounds                        *)
(* The rows are kept as what they were made of: rows(seen).                *)
(***************************************************************************)
EXTENDS MetricsRows, SequencesExt

CONSTANTS
  Collector, NoOne,
  MaxGates, MaxHands, MaxReads, MaxPages,   \* bounds
  Tools                             \* what a host can have of tools, and "ci" if it is one of CI

ASSUME MetricsPipelineAssumption ==
  {MaxGates, MaxHands, MaxReads, MaxPages} \subseteq Nat /\ NoOne \notin Collector

VARIABLES art, gate, done, col, db, lock, page, reads, pages, hands

vars == <<art, gate, done, col, db, lock, page, reads, pages, hands>>

Commits == Max({0} \cup {db[i].at : i \in DOMAIN db})

G(n) == <<"gate", n>>
Tree(n) == <<"tree", n>>
CommitOf(n) == <<"commit", n>>         \* the commit of tree n
\* make ci: the environments of check in one, then the tiers that can be skipped.
Stages == <<"check", "coverage", "formal">>
Banners(s) == IF s = "check" THEN {"cocotb"} \cup Envs ELSE {s}
AllBanners == UNION {Banners(Stages[i]) : i \in DOMAIN Stages}

Steps == <<"collect", "select", "begin", "commit">>
Idle == [todo |-> <<>>, seen |-> NULL, key |-> NULL, hit |-> 0, of |-> 0]
Unread == [todo |-> <<>>, runs |-> <<>>, series |-> <<>>]

\* What there is of gate 1: nothing, or all of it next to older captures.  It ran on
\* a host with GNU time, even if this one has none now, and in the tree as it is, with an
\* edit that somebody may commit at once.
Init ==
  /\ \E g \in {NULL, G(1)}, tools \in Tools :
       /\ art = [tree |-> Tree(1), head |-> CommitOf(0),
                 log |-> [gate |-> g, banners |-> IF g = NULL THEN {} ELSE AllBanners, tree |-> Tree(1)],
                 time |-> g, coverage |-> g, fcov |-> g, formal |-> [t \in Tasks |-> g],
                 envtime |-> [e \in Envs |-> IF g = NULL THEN NULL ELSE <<"old">>],
                 result |-> IF g = NULL THEN NULL ELSE <<"old">>,
                 stream |-> IF g = NULL THEN NULL ELSE <<"old">>, tools |-> tools]
       /\ done = IF g = NULL \/ "time" \notin tools THEN 0 ELSE 1
  /\ gate = [n |-> 1, todo |-> <<>>, ran |-> FALSE]
  /\ col = [c \in Collector |-> Idle]
  /\ db = <<>> /\ lock = NoOne /\ page = Unread /\ reads = 0 /\ pages = 0 /\ hands = 0

-----------------------------------------------------------------------------
(* The gate *)

\* What the collectors have read may not be of one gate, tree and commit any more.
Disturb == col' = [c \in Collector |-> [col[c] EXCEPT !.of = 0]]

\* Mutant: without GNU time the report of the gate before is not removed.
fresh_report_kept(a) == IF "time" \in a.tools THEN NULL ELSE a.time

\* time -o truncates its report; without GNU time an old one is removed.
fresh_report(a) == NULL

\* tee truncates the log.
StartGate ==
  /\ gate.todo = <<>> /\ gate.n < MaxGates
  /\ gate' = [n |-> gate.n + 1, todo |-> Stages, ran |-> TRUE]
  /\ art' = [art EXCEPT !.log = [gate |-> G(gate.n + 1), banners |-> {}, tree |-> art.tree],
                        !.time = fresh_report(art)]
  /\ done' = 0 /\ Disturb
  /\ UNCHANGED <<db, lock, page, reads, pages, hands>>

\* The artifacts once a target has left its own, the formal one those of some tasks.
Left(a, s, tasks, from) ==
  CASE s = "check"    -> [a EXCEPT !.fcov = from]
    [] s = "coverage" -> [a EXCEPT !.coverage = from]
    [] s = "formal"   -> [a EXCEPT !.formal = [t \in Tasks |-> IF t \in tasks THEN from ELSE a.formal[t]]]

\* A stage leaves its artifacts and its banner.
Stage ==
  /\ gate.todo \notin {<<>>, <<"end">>}
  /\ LET s == Head(gate.todo)
     IN  art' = Left([art EXCEPT !.log.banners = @ \cup Banners(s)], s, Tasks, G(gate.n))
  /\ gate' = [gate EXCEPT !.todo = IF Len(@) = 1 THEN <<"end">> ELSE Tail(@)]
  /\ UNCHANGED <<done, col, db, lock, page, reads, pages, hands>>

\* A tier without its tool is skipped; the gate goes on and passes.
SkipStage ==
  /\ gate.todo # <<>> /\ Head(gate.todo) \in {"coverage", "formal"}
  /\ gate' = [gate EXCEPT !.todo = IF Len(@) = 1 THEN <<"end">> ELSE Tail(@), !.ran = FALSE]
  /\ UNCHANGED <<art, done, col, db, lock, page, reads, pages, hands>>

\* It ends, having passed or failed before its last stage.  GNU time, if the host has
\* it, writes its report.
EndGate ==
  /\ gate.todo # <<>>
  /\ gate' = [gate EXCEPT !.todo = <<>>]
  /\ art' = [art EXCEPT !.time = IF "time" \in art.tools THEN G(gate.n) ELSE @]
  /\ done' = IF gate.todo = <<"end">> /\ gate.ran THEN gate.n ELSE 0
  /\ UNCHANGED <<col, db, lock, page, reads, pages, hands>>

\* It is killed with everything around it, and gate.time stays as StartGate left it.
KillGate ==
  /\ gate.todo # <<>>
  /\ gate' = [gate EXCEPT !.todo = <<>>]
  /\ UNCHANGED <<art, done, col, db, lock, page, reads, pages, hands>>

-----------------------------------------------------------------------------
(* What others do in the working tree *)

\* Neither what the gate under way leaves nor what is there is all of one gate and tree.
Meddle == gate' = [gate EXCEPT !.ran = FALSE] /\ done' = 0 /\ Disturb

\* Someone runs a target of the gate by hand: without capture.sh the log and gate.time
\* stay, the artifacts do not.
RunAlone ==
  /\ hands < MaxHands /\ hands' = hands + 1
  /\ \E s \in Range(Stages), tasks \in SUBSET Tasks : art' = Left(art, s, tasks, <<"alone">>)
  /\ Meddle
  /\ UNCHANGED <<db, lock, page, reads, pages>>

\* Someone edits the tree ...
Edit ==
  /\ hands < MaxHands /\ hands' = hands + 1
  /\ art' = [art EXCEPT !.tree = Tree(art.tree[2] + 1)]
  /\ Meddle
  /\ UNCHANGED <<db, lock, page, reads, pages>>

\* ... or commits it as it is, which moves HEAD only.
NewCommit ==
  /\ hands < MaxHands /\ hands' = hands + 1
  /\ art.head # CommitOf(art.tree[2])
  /\ art' = [art EXCEPT !.head = CommitOf(art.tree[2])]
  /\ Disturb
  /\ UNCHANGED <<gate, done, db, lock, page, reads, pages>>

-----------------------------------------------------------------------------
(* The collectors *)

Upd(c, r) == col' = [col EXCEPT ![c] = r]
At(c, step) == col[c].todo # <<>> /\ Head(col[c].todo) = step
On(c) == [col[c] EXCEPT !.todo = Tail(@)]

\* main reads the log, gate.time and the result, and the design, first: to
\* synthesise it takes minutes ...
ReadCapture(c) ==
  /\ col[c].todo = <<>> /\ reads < MaxReads /\ reads' = reads + 1
  /\ Upd(c, [Idle EXCEPT !.todo = Steps, !.of = done,
                !.seen = [log |-> art.log, time |-> art.time, result |-> art.result, rtl |-> art.tree]])
  /\ UNCHANGED <<art, gate, done, db, lock, page, pages, hands>>

\* The commit, the trigger and a token: the run of CI, or else the modification time of
\* the log ("dev" if there is none), which the log as far as it is written stands for.
trigger(result) == IF result # NULL THEN "swarm" ELSE IF "ci" \in art.tools THEN "ci" ELSE "local"
token == IF "ci" \in art.tools THEN <<"run">> ELSE art.log
run_key(result) == <<art.head, trigger(result), token>>

\* git status shows edits of the tree, and of metrics.db, which is tracked itself, from
\* the first run stored until somebody commits it.
git_dirty == {art.tree[2] # art.head[2]} \cup (IF db = <<>> THEN {} ELSE {TRUE})

\* ... then it takes every other artifact as it is by then, and the identity of the run.
Collect(c) ==
  /\ At(c, "collect")
  /\ \E dirty \in git_dirty :
       Upd(c, [On(c) EXCEPT !.seen = @ ++ art ++ [dirty |-> dirty], !.key = run_key(col[c].seen.result)])
  /\ UNCHANGED <<art, gate, done, db, lock, page, reads, pages, hands>>

Found(key) == {i \in DOMAIN db : db[i].key = key}

\* insert_run looks for the key before its transaction begins.
Select(c) ==
  /\ At(c, "select")
  /\ Upd(c, [On(c) EXCEPT !.hit = IF Found(col[c].key) = {} THEN 0
                                  ELSE CHOOSE i \in Found(col[c].key) : TRUE])
  /\ UNCHANGED <<art, gate, done, db, lock, page, reads, pages, hands>>

\* The database with a run row for c (an UPDATE leaves run_key alone) and its children.
With(c, seen, rowsAt, of) ==
  LET hit == col[c].hit
      run == [key |-> IF hit = 0 THEN col[c].key ELSE db[hit].key, at |-> Commits + 1,
              seen |-> seen, rowsAt |-> rowsAt, of |-> of]
  IN  IF hit = 0 THEN Append(db, run) ELSE [db EXCEPT ![hit] = run]

Written(c) == With(c, col[c].seen, Commits + 1, col[c].of)

\* Mutant: the run row and the deletion of its old rows are committed by themselves.
seen_by_others_at_once(c) == With(c, NULL, 0, 0)

\* What the first statements of the transaction show to others.
seen_by_others(c) == db

\* Mutant: run_key is not UNIQUE.
Begin_notUnique(c) ==
  /\ At(c, "begin") /\ lock = NoOne
  /\ Upd(c, On(c)) /\ lock' = c /\ db' = seen_by_others(c)
  /\ UNCHANGED <<art, gate, done, page, reads, pages, hands>>

\* The UPDATE or INSERT takes the write lock.  An INSERT of a key that came in since
\* the SELECT violates UNIQUE and the collector fails.
Begin(c) ==
  /\ At(c, "begin") /\ lock = NoOne
  /\ IF col[c].hit = 0 /\ Found(col[c].key) # {}
     THEN Upd(c, Idle) /\ UNCHANGED <<db, lock>>
     ELSE Upd(c, On(c)) /\ lock' = c /\ db' = seen_by_others(c)
  /\ UNCHANGED <<art, gate, done, page, reads, pages, hands>>

Commit(c) ==
  /\ At(c, "commit")
  /\ db' = Written(c) /\ lock' = NoOne
  /\ Upd(c, Idle)
  /\ UNCHANGED <<art, gate, done, page, reads, pages, hands>>

\* Killed, or out of patience with the lock: what was not committed is rolled back.
Die(c) ==
  /\ col[c].todo # <<>>
  /\ lock' = IF lock = c THEN NoOne ELSE lock
  /\ Upd(c, Idle)
  /\ UNCHANGED <<art, gate, done, db, page, reads, pages, hands>>

-----------------------------------------------------------------------------
(* The dashboard *)

\* Mutant: the values are queried before the runs.
series_first == <<"series", "runs">>

\* load's queries, each a transaction of its own.
queries == <<"runs", "series">>

StartPage ==
  /\ page.todo = <<>> /\ db # <<>> /\ pages < MaxPages /\ pages' = pages + 1
  /\ page' = [Unread EXCEPT !.todo = queries]
  /\ UNCHANGED <<art, gate, done, col, db, lock, reads, hands>>

load ==
  /\ page.todo # <<>>
  /\ page' = [page EXCEPT !.todo = Tail(@),
                ![Head(page.todo)] = [i \in DOMAIN db |-> [key |-> db[i].key,
                   at |-> IF Head(page.todo) = "runs" THEN db[i].at ELSE db[i].rowsAt]]]
  /\ UNCHANGED <<art, gate, done, col, db, lock, reads, pages, hands>>

Next ==
  \/ StartGate \/ Stage \/ SkipStage \/ EndGate \/ KillGate
  \/ RunAlone \/ Edit \/ NewCommit
  \/ \E c \in Collector :
       \/ ReadCapture(c) \/ Collect(c)
       \/ Select(c) \/ Begin(c) \/ Commit(c) \/ Die(c)
  \/ StartPage \/ load

Spec == Init /\ [][Next]_vars

-----------------------------------------------------------------------------
\* Whoever reads the database finds whole runs: the run row and all of its child
\* rows are of one collection, whatever collector was killed or ran beside it.
WholeRuns == \A i \in DOMAIN db : db[i].at = db[i].rowsAt

\* docs/NOTES.md:66-69: history is append-only, one run per key.  A re-collection
\* replaces the rows of its own run; no run is lost, and none gets those of
\* another capture.
AppendOnly ==
  [][/\ \A i \in DOMAIN db : i \in DOMAIN db' /\ db'[i].key = db[i].key
     /\ \A i, j \in DOMAIN db' : db'[i].key = db'[j].key => i = j]_db

\* A run that was collected after a gate which ran every stage is of that gate, if since
\* the gate began no other did, nobody edited the tree or ran a target by hand, and
\* nobody committed while it was collected.  No number of it is of an older gate or of a
\* target run by hand; those of the design are of the tree the gate ran on, which is the
\* commit in the key unless the run is flagged dirty; the size of the change is that
\* commit's; outside of CI the key has that gate's log.  And what the gate can be asked
\* for is measured, but for the timing on a host without GNU time, which is a gap (not
\* that of the gate before).  Captures of single environments and of the swarm may be
\* older.
RowsOfTheirGate ==
  \A i \in DOMAIN db : db[i].of # 0 =>
    LET seen == db[i].seen
        key  == db[i].key
        made == rows(seen)
    IN  /\ seen.log.gate = G(db[i].of) /\ seen.log.banners = AllBanners
        /\ "ci" \notin seen.tools => key[3] = seen.log
        /\ \A k \in DOMAIN made :
             LET from == made[k].from
             IN  from # NULL =>
                   /\ from[1] \in {"gate", "alone", "several"} => from = G(db[i].of)
                   /\ from[1] = "tree" => from = seen.log.tree /\ (seen.dirty \/ key[1] = CommitOf(from[2]))
                   /\ from[1] = "commit" => from = key[1]
        /\ \A k \in {<<"verif", "", "line_coverage_pct">>, <<"verif", "cocotb", "func_coverage_pct">>,
                     <<"verif", "", "proofs_passing">>} :
             k \in DOMAIN made /\ made[k].kind = "measured"
        /\ IF "time" \in seen.tools
           THEN LET k == <<"compute", "gate", "core_seconds">>
                IN  k \in DOMAIN made /\ made[k].kind = "measured"
           ELSE LET k == <<"compute", "gate", "wall_s">>
                IN  k \in DOMAIN made /\ made[k] = GAP

\* What the page shows of a run is whole: its values are of one collection, of the
\* one its header is of or of a later one of the same capture, never of one before.
PageNotBehindItsHeader ==
  page.todo = <<>> /\ page.runs # <<>> =>
    \A i \in DOMAIN page.runs :
      /\ i \in DOMAIN page.series
      /\ page.series[i].key = page.runs[i].key
      /\ page.series[i].at >= page.runs[i].at

\* The collectors are alike: for TLC.
Alike == Permutations(Collector)
===============================================================================
