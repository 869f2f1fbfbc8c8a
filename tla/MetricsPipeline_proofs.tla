------------------------- MODULE MetricsPipeline_proofs -------------------------
(***************************************************************************)
(* Proofs about the metrics database, for any number of collectors, gates, *)
(* pages and runs: it only ever grows, one run per key; its runs are whole *)
(* and each of one gate; and a page is never behind its own headers.       *)
(*                                                                         *)
(* The argument.  Inv: the collector in the transaction is the one that    *)
(* holds the lock.  The one run it is about to write is the one its SELECT *)
(* found, which still has that key, or, if there was none then and none    *)
(* came in until it had the lock, a new one.                               *)
(*                                                                         *)
(* Stamps, Pages: commits are numbered upwards, so that what a page has of *)
(* a run when a commit comes is older than what it gets after it.          *)
(*                                                                         *)
(* Origins: a gate that has skipped nothing, with nobody editing or        *)
(* running targets beside it, has left the artifacts of all its stages so  *)
(* far, and of one tree; a collector nobody has disturbed reads of the     *)
(* gate that is done, and so both of its readings are of one state.  What rows  *)
(* are made of such artifacts is a matter of the functions collect_* alone *)
(* (MatchingRows).                                                         *)
(***************************************************************************)
EXTENDS MetricsPipeline, SequenceTheorems, FiniteSetTheorems, TLAPS

\* The steps a collector can have left.
Todos == {<<>>, <<"collect", "select", "begin", "commit">>, <<"select", "begin", "commit">>,
          <<"begin", "commit">>, <<"commit">>}

Fields == {"todo", "seen", "key", "hit", "of"}

\* The shapes of the database and of the collectors.
Shapes ==
  /\ \E S : db \in Seq(S)
  /\ col = [c \in Collector |-> col[c]]
  /\ \A c \in Collector : DOMAIN col[c] = Fields /\ col[c].todo \in Todos

\* Who is in the transaction holds the lock.
Locks == \A c \in Collector : col[c].todo = <<"commit">> => lock = c

\* What the SELECT found is still that run.
Hits ==
  \A c \in Collector : col[c].todo \in {<<"begin", "commit">>, <<"commit">>} =>
    \/ col[c].hit = 0
    \/ col[c].hit \in DOMAIN db /\ db[col[c].hit].key = col[c].key

\* In the transaction, what it did not find is still not there.
Fresh ==
  \A c \in Collector : col[c].todo = <<"commit">> /\ col[c].hit = 0 =>
    \A i \in DOMAIN db : db[i].key # col[c].key

Unique == \A i, j \in DOMAIN db : db[i].key = db[j].key => i = j

Inv == Shapes /\ Locks /\ Hits /\ Fresh /\ Unique /\ WholeRuns

\* What a commit of c does to the database.
Grows ==
  /\ \A i \in DOMAIN db : i \in DOMAIN db' /\ db'[i].key = db[i].key
  /\ \A i, j \in DOMAIN db' : db'[i].key = db'[j].key => i = j

LEMMA HeadsOfTodos ==
  ASSUME NEW t \in Todos, t # <<>>
  PROVE  /\ Head(t) = "collect" => Tail(t) = <<"select", "begin", "commit">>
         /\ Head(t) = "select"  => Tail(t) = <<"begin", "commit">>
         /\ Head(t) = "begin"   => Tail(t) = <<"commit">>
         /\ Head(t) = "commit"  => t = <<"commit">>
         /\ Tail(t) \in Todos
<1>1. CASE t = <<"collect", "select", "begin", "commit">> BY <1>1 DEF Todos
<1>2. CASE t = <<"select", "begin", "commit">> BY <1>2 DEF Todos
<1>3. CASE t = <<"begin", "commit">> BY <1>3 DEF Todos
<1>4. CASE t = <<"commit">> BY <1>4 DEF Todos
<1> QED BY <1>1, <1>2, <1>3, <1>4 DEF Todos

LEMMA InitInv == Init => Inv
<1> SUFFICES ASSUME Init PROVE Inv OBVIOUS
<1>1. Shapes BY DEF Init, Shapes, Idle, Todos, Fields
<1>2. Locks BY DEF Init, Locks, Idle
<1>3. Hits BY DEF Init, Hits, Idle
<1>4. Fresh BY DEF Init, Fresh, Idle
<1>5. Unique /\ WholeRuns BY DEF Init, Unique, WholeRuns
<1> QED BY <1>1, <1>2, <1>3, <1>4, <1>5 DEF Inv

\* Whatever leaves the database and, of each collector, what it does alone.
LEMMA QuietStep ==
  ASSUME Inv, db' = db, lock' = lock, col' = [c \in Collector |-> col'[c]],
         \A c \in Collector : /\ DOMAIN col'[c] = Fields /\ col'[c].todo = col[c].todo
                              /\ col'[c].key = col[c].key /\ col'[c].hit = col[c].hit
  PROVE  Inv'
<1>1. Shapes' BY DEF Inv, Shapes
<1>2. Locks' BY DEF Inv, Locks
<1>3. Hits' BY DEF Inv, Hits
<1>4. Fresh' BY DEF Inv, Fresh
<1>5. Unique' /\ WholeRuns' BY DEF Inv, Unique, WholeRuns
<1> QED BY <1>1, <1>2, <1>3, <1>4, <1>5 DEF Inv

\* Gates, commits and pages.
LEMMA OthersKeepInv ==
  ASSUME Inv,
         \/ StartGate \/ Stage \/ SkipStage \/ EndGate \/ KillGate
         \/ RunAlone \/ Edit \/ NewCommit \/ StartPage \/ load \/ UNCHANGED vars
  PROVE  Inv' /\ db' = db
<1>1. db' = db /\ lock' = lock
  BY DEF StartGate, Stage, SkipStage, EndGate, KillGate, RunAlone, Edit, NewCommit, StartPage, load, vars
<1>2. CASE StartGate \/ RunAlone \/ Edit \/ NewCommit
  <2>1. col' = [c \in Collector |-> [col[c] EXCEPT !.of = 0]]
    BY <1>2 DEF StartGate, RunAlone, Edit, NewCommit, Meddle, Disturb
  <2>2. \A c \in Collector : /\ DOMAIN col'[c] = Fields /\ col'[c].todo = col[c].todo
                             /\ col'[c].key = col[c].key /\ col'[c].hit = col[c].hit
    BY <2>1 DEF Inv, Shapes, Fields
  <2>3. col' = [c \in Collector |-> col'[c]] BY <2>1
  <2> QED BY <1>1, <2>2, <2>3, QuietStep
<1>3. CASE ~(StartGate \/ RunAlone \/ Edit \/ NewCommit)
  <2>1. col' = col
    BY <1>3 DEF Stage, SkipStage, EndGate, KillGate, StartPage, load, vars
  <2>2. col' = [c \in Collector |-> col'[c]] BY <2>1 DEF Inv, Shapes
  <2>3. \A c \in Collector : DOMAIN col'[c] = Fields BY <2>1 DEF Inv, Shapes
  <2> QED BY <1>1, <2>1, <2>2, <2>3, QuietStep
<1> QED BY <1>1, <1>2, <1>3

\* One collector is given a new record.
LEMMA CollectorStep ==
  ASSUME Inv, NEW c \in Collector, NEW r, Upd(c, r), DOMAIN r = Fields, r.todo \in Todos
  PROVE  /\ col' = [d \in Collector |-> col'[d]]
         /\ \A d \in Collector : DOMAIN col'[d] = Fields /\ col'[d].todo \in Todos
         /\ col'[c] = r
         /\ \A d \in Collector : d # c => col'[d] = col[d]
<1>1. col' = [d \in Collector |-> IF d = c THEN r ELSE col[d]] BY DEF Upd, Inv, Shapes
<1>2. \A d \in Collector : col'[d] = IF d = c THEN r ELSE col[d] BY <1>1
<1> QED BY <1>1, <1>2 DEF Inv, Shapes

\* Reading, and giving up, leave the database alone, and nobody is in a transaction
\* that was not.
LEMMA ReadStep ==
  ASSUME Inv, NEW c \in Collector, NEW r, Upd(c, r), DOMAIN r = Fields, r.todo \in Todos,
         r.todo # <<"commit">>,
         r.todo = <<"begin", "commit">> =>
           r.hit = 0 \/ (r.hit \in DOMAIN db /\ db[r.hit].key = r.key),
         db' = db, lock' = lock \/ lock = c
  PROVE  Inv'
<1>1. /\ col' = [d \in Collector |-> col'[d]]
      /\ \A d \in Collector : DOMAIN col'[d] = Fields /\ col'[d].todo \in Todos
      /\ col'[c] = r
      /\ \A d \in Collector : d # c => col'[d] = col[d]
  BY CollectorStep
<1>2. Shapes' BY <1>1 DEF Inv, Shapes
<1>3. Locks' BY <1>1 DEF Inv, Locks
<1>4. Hits' BY <1>1 DEF Inv, Hits
<1>5. Fresh' BY <1>1 DEF Inv, Fresh
<1>6. Unique' /\ WholeRuns' BY DEF Inv, Unique, WholeRuns
<1> QED BY <1>2, <1>3, <1>4, <1>5, <1>6 DEF Inv

LEMMA ReadKeepsInv ==
  ASSUME Inv, NEW c \in Collector, ReadCapture(c) \/ Collect(c) \/ Select(c) \/ Die(c)
  PROVE  Inv' /\ db' = db
<1> DEFINE t == col[c].todo
<1>1. t \in Todos /\ DOMAIN col[c] = Fields BY DEF Inv, Shapes
<1>2. db' = db BY DEF ReadCapture, Collect, Select, Die
<1>3. CASE ReadCapture(c)
  <2> DEFINE r == [Idle EXCEPT !.todo = Steps, !.of = done,
                     !.seen = [log |-> art.log, time |-> art.time, result |-> art.result, rtl |-> art.tree]]
  <2>1. Upd(c, r) /\ lock' = lock BY <1>3 DEF ReadCapture
  <2>2. DOMAIN r = Fields /\ r.todo = <<"collect", "select", "begin", "commit">>
    BY DEF Idle, Steps, Fields
  <2> HIDE DEF r
  <2>3. r.todo \in Todos /\ r.todo # <<"commit">> /\ r.todo # <<"begin", "commit">> BY <2>2 DEF Todos
  <2> QED BY <2>1, <2>2, <2>3, <1>2, ReadStep
<1>4. CASE Collect(c)
  <2>1. PICK dirty \in git_dirty :
          Upd(c, [On(c) EXCEPT !.seen = @ ++ art ++ [dirty |-> dirty], !.key = run_key(col[c].seen.result)])
    BY <1>4 DEF Collect
  <2> DEFINE r == [On(c) EXCEPT !.seen = @ ++ art ++ [dirty |-> dirty], !.key = run_key(col[c].seen.result)]
  <2>5. Upd(c, r) /\ lock' = lock /\ t # <<>> /\ Head(t) = "collect" BY <1>4, <2>1 DEF Collect, At
  <2>2. DOMAIN r = Fields /\ r.todo = Tail(t) BY <1>1 DEF On, Fields
  <2> HIDE DEF r
  <2>3. r.todo = <<"select", "begin", "commit">> BY <2>5, <2>2, <1>1, HeadsOfTodos
  <2>4. r.todo \in Todos /\ r.todo # <<"commit">> /\ r.todo # <<"begin", "commit">> BY <2>3 DEF Todos
  <2> QED BY <2>5, <2>2, <2>4, <1>2, ReadStep
<1>5. CASE Select(c)
  <2> DEFINE hit == IF Found(col[c].key) = {} THEN 0 ELSE CHOOSE i \in Found(col[c].key) : TRUE
             r == [On(c) EXCEPT !.hit = hit]
  <2>1. Upd(c, r) /\ lock' = lock /\ t # <<>> /\ Head(t) = "select" BY <1>5 DEF Select, At
  <2>2. hit = 0 \/ hit \in Found(col[c].key) OBVIOUS
  <2> HIDE DEF hit
  <2>3. DOMAIN r = Fields /\ r.todo = Tail(t) /\ r.hit = hit /\ r.key = col[c].key
    BY <1>1 DEF On, Fields
  <2> HIDE DEF r
  <2>4. r.todo = <<"begin", "commit">> BY <2>1, <2>3, <1>1, HeadsOfTodos
  <2>5. r.todo \in Todos /\ r.todo # <<"commit">> BY <2>4 DEF Todos
  <2>6. r.hit = 0 \/ (r.hit \in DOMAIN db /\ db[r.hit].key = r.key) BY <2>2, <2>3 DEF Found
  <2> QED BY <2>1, <2>3, <2>5, <2>6, <1>2, ReadStep
<1>6. CASE Die(c)
  <2>1. Upd(c, Idle) /\ (lock' = lock \/ lock = c) BY <1>6 DEF Die
  <2>2. /\ Idle.todo \in Todos /\ Idle.todo # <<"commit">> /\ Idle.todo # <<"begin", "commit">>
        /\ DOMAIN Idle = Fields
    BY DEF Idle, Todos, Fields
  <2> QED BY <2>1, <2>2, <1>2, ReadStep
<1> QED BY <1>2, <1>3, <1>4, <1>5, <1>6

\* The transaction begins, or the key has come in meanwhile.
LEMMA BeginKeepsInv ==
  ASSUME Inv, NEW c \in Collector, Begin(c)
  PROVE  Inv' /\ db' = db
<1> DEFINE t == col[c].todo
<1>1. t \in Todos /\ DOMAIN col[c] = Fields BY DEF Inv, Shapes
<1>2. t # <<>> /\ Head(t) = "begin" /\ lock = NoOne BY DEF Begin, At
<1>3. db' = db BY DEF Begin, seen_by_others
<1>4. CASE col[c].hit = 0 /\ Found(col[c].key) # {}
  <2>1. Upd(c, Idle) /\ lock' = lock BY <1>4 DEF Begin
  <2>2. /\ Idle.todo \in Todos /\ Idle.todo # <<"commit">> /\ Idle.todo # <<"begin", "commit">>
        /\ DOMAIN Idle = Fields
    BY DEF Idle, Todos, Fields
  <2> QED BY <2>1, <2>2, <1>3, ReadStep
<1>5. CASE ~(col[c].hit = 0 /\ Found(col[c].key) # {})
  <2> DEFINE r == On(c)
  <2>1. Upd(c, r) /\ lock' = c BY <1>5 DEF Begin
  <2>2. DOMAIN r = Fields /\ r.todo = Tail(t) /\ r.hit = col[c].hit /\ r.key = col[c].key
    BY <1>1 DEF On, Fields
  <2> HIDE DEF r
  <2>3. r.todo = <<"commit">> BY <2>2, <1>1, <1>2, HeadsOfTodos
  <2>4. r.todo \in Todos BY <2>3 DEF Todos
  <2>5. /\ col' = [d \in Collector |-> col'[d]]
        /\ \A d \in Collector : DOMAIN col'[d] = Fields /\ col'[d].todo \in Todos
        /\ col'[c] = r
        /\ \A d \in Collector : d # c => col'[d] = col[d]
    BY <2>1, <2>2, <2>4, CollectorStep
  <2>6. t = <<"begin", "commit">>
    <3>1. CASE t = <<"begin", "commit">> BY <3>1
    <3>2. CASE t # <<"begin", "commit">>
      <4>1. t \in {<<"collect", "select", "begin", "commit">>, <<"select", "begin", "commit">>, <<"commit">>}
        BY <3>2, <1>1, <1>2 DEF Todos
      <4>2. Head(t) # "begin" BY <4>1
      <4> QED BY <4>2, <1>2
    <3> QED BY <3>1, <3>2
  \* Nobody held the lock, so nobody was in the transaction.
  <2>7. \A d \in Collector : col[d].todo # <<"commit">>
    BY <1>2, MetricsPipelineAssumption DEF Inv, Locks
  <2>8. Shapes' BY <1>3, <2>5 DEF Inv, Shapes
  <2>9. Locks' BY <2>1, <2>5, <2>7 DEF Locks
  <2>10. Hits' BY <1>3, <2>2, <2>5, <2>6 DEF Inv, Hits
  <2>11. Fresh' BY <1>3, <1>5, <2>2, <2>5, <2>7 DEF Fresh, Found
  <2>12. Unique' /\ WholeRuns' BY <1>3 DEF Inv, Unique, WholeRuns
  <2> QED BY <1>3, <2>8, <2>9, <2>10, <2>11, <2>12 DEF Inv
<1> QED BY <1>4, <1>5

\* What the commit of c makes of the database: one run more, of a new key, or one
\* run replaced, of the same key; and that run is whole.
LEMMA WrittenGrows ==
  ASSUME Inv, NEW c \in Collector, Commit(c)
  PROVE  Grows /\ WholeRuns' /\ \E S : db' \in Seq(S)
<1> DEFINE hit == col[c].hit
           run == [key |-> IF hit = 0 THEN col[c].key ELSE db[hit].key, at |-> Commits + 1,
                   seen |-> col[c].seen, rowsAt |-> Commits + 1, of |-> col[c].of]
<1>1. db' = IF hit = 0 THEN Append(db, run) ELSE [db EXCEPT ![hit] = run]
  BY DEF Commit, Written, With
<1>2. /\ run.at = run.rowsAt
      /\ hit = 0 => run.key = col[c].key
      /\ hit # 0 => run.key = db[hit].key
  OBVIOUS
<1> HIDE DEF run
<1>3. col[c].todo = <<"commit">>
  <2>1. col[c].todo \in Todos BY DEF Inv, Shapes
  <2>2. col[c].todo # <<>> /\ Head(col[c].todo) = "commit" BY DEF Commit, At
  <2> QED BY <2>1, <2>2, HeadsOfTodos
<1>4. PICK S : db \in Seq(S) BY DEF Inv, Shapes
<1>5. db \in Seq(S \cup {run}) BY <1>4, SeqMonotonic
<1>6. CASE hit = 0
  <2>1. db' = Append(db, run) BY <1>1, <1>6
  <2>2. /\ db' \in Seq(S \cup {run}) /\ Len(db') = Len(db) + 1
        /\ \A i \in 1 .. Len(db) : db'[i] = db[i]
        /\ db'[Len(db) + 1] = run
    BY <2>1, <1>5, AppendProperties
  <2>3. DOMAIN db = 1 .. Len(db) /\ DOMAIN db' = 1 .. Len(db) + 1 /\ Len(db) \in Nat
    BY <2>2, <1>4
  <2>4. \A i \in DOMAIN db : db[i].key # run.key BY <1>2, <1>3, <1>6 DEF Inv, Fresh
  <2>5. \A i \in DOMAIN db' : i \in DOMAIN db \/ i = Len(db) + 1 BY <2>3
  <2>6. \A i \in DOMAIN db : i \in DOMAIN db' /\ db'[i] = db[i] BY <2>2, <2>3
  <2>7. Grows BY <2>2, <2>4, <2>5, <2>6 DEF Inv, Unique, Grows
  <2>8. WholeRuns' BY <1>2, <2>2, <2>5, <2>6 DEF Inv, WholeRuns
  <2> QED BY <2>2, <2>7, <2>8
<1>7. CASE hit # 0
  <2>1. db' = [db EXCEPT ![hit] = run] BY <1>1, <1>7
  <2>2. hit \in DOMAIN db BY <1>3, <1>7 DEF Inv, Hits
  <2>3. DOMAIN db' = DOMAIN db /\ db'[hit] = run /\ \A i \in DOMAIN db : i # hit => db'[i] = db[i]
    BY <2>1, <2>2
  <2>4. \A i \in DOMAIN db : db'[i].key = db[i].key BY <1>2, <1>7, <2>3
  <2>5. Grows BY <2>3, <2>4 DEF Inv, Unique, Grows
  <2>6. WholeRuns' BY <1>2, <2>3 DEF Inv, WholeRuns
  <2>7. db' \in Seq(S \cup {run}) BY <1>5, <2>1, <2>2, ExceptSeq
  <2> QED BY <2>5, <2>6, <2>7
<1> QED BY <1>6, <1>7

LEMMA CommitKeepsInv ==
  ASSUME Inv, NEW c \in Collector, Commit(c)
  PROVE  Inv' /\ Grows
<1>1. Grows /\ WholeRuns' /\ \E S : db' \in Seq(S) BY WrittenGrows
<1>2. Upd(c, Idle) /\ lock' = NoOne BY DEF Commit
<1>3. Idle.todo = <<>> /\ Idle.todo \in Todos /\ DOMAIN Idle = Fields BY DEF Idle, Todos, Fields
<1>4. /\ col' = [d \in Collector |-> col'[d]]
      /\ \A d \in Collector : DOMAIN col'[d] = Fields /\ col'[d].todo \in Todos
      /\ col'[c] = Idle
      /\ \A d \in Collector : d # c => col'[d] = col[d]
  BY <1>2, <1>3, CollectorStep
<1>5. lock = c
  <2>1. col[c].todo \in Todos BY DEF Inv, Shapes
  <2>2. col[c].todo # <<>> /\ Head(col[c].todo) = "commit" BY DEF Commit, At
  <2>3. col[c].todo = <<"commit">> BY <2>1, <2>2, HeadsOfTodos
  <2> QED BY <2>3 DEF Inv, Locks
\* Nobody else held the lock, so nobody is in a transaction now.
<1>6. \A d \in Collector : col'[d].todo # <<"commit">> BY <1>3, <1>4, <1>5 DEF Inv, Locks
<1>7. Shapes' BY <1>1, <1>4 DEF Shapes
<1>8. Locks' /\ Fresh' BY <1>6 DEF Locks, Fresh
<1>9. Hits'
  <2> SUFFICES ASSUME NEW d \in Collector, col'[d].todo \in {<<"begin", "commit">>, <<"commit">>}
               PROVE  \/ col'[d].hit = 0
                      \/ col'[d].hit \in DOMAIN db' /\ db'[col'[d].hit].key = col'[d].key
    BY DEF Hits
  <2>1. d # c /\ col'[d] = col[d] BY <1>3, <1>4
  <2>2. \/ col[d].hit = 0
        \/ col[d].hit \in DOMAIN db /\ db[col[d].hit].key = col[d].key
    BY <2>1 DEF Inv, Hits
  <2> QED BY <2>1, <2>2, <1>1 DEF Grows
<1>10. Unique' BY <1>1 DEF Grows, Unique
<1> QED BY <1>1, <1>7, <1>8, <1>9, <1>10 DEF Inv

LEMMA StepKeepsInv ==
  ASSUME Inv, [Next]_vars
  PROVE  Inv' /\ (db' = db \/ Grows)
<1>1. CASE \/ StartGate \/ Stage \/ SkipStage \/ EndGate \/ KillGate
           \/ RunAlone \/ Edit \/ NewCommit \/ StartPage \/ load \/ UNCHANGED vars
  BY <1>1, OthersKeepInv
<1>2. ASSUME NEW c \in Collector, ReadCapture(c) \/ Collect(c) \/ Select(c) \/ Die(c)
      PROVE  Inv' /\ db' = db
  BY <1>2, ReadKeepsInv
<1>3. ASSUME NEW c \in Collector, Begin(c) PROVE Inv' /\ db' = db BY <1>3, BeginKeepsInv
<1>4. ASSUME NEW c \in Collector, Commit(c) PROVE Inv' /\ Grows BY <1>4, CommitKeepsInv
<1> QED BY <1>1, <1>2, <1>3, <1>4 DEF Next

\* Every run of the database is whole, whatever collector was killed or ran beside
\* it: insert_run writes the run row and its children in one transaction.
THEOREM StaysWhole == Spec => []WholeRuns
<1>1. Inv /\ [Next]_vars => Inv' BY StepKeepsInv
<1>2. Inv => WholeRuns BY DEF Inv
<1> QED BY InitInv, <1>1, <1>2, PTL DEF Spec

\* No run is lost or given another key, and no two runs have one key, although the
\* SELECT that decides between INSERT and UPDATE is outside of the transaction.
THEOREM OnlyGrows == Spec => AppendOnly
<1>1. Inv /\ [Next]_vars => Inv' BY StepKeepsInv
<1>2. Inv /\ [Next]_vars =>
        [/\ \A i \in DOMAIN db : i \in DOMAIN db' /\ db'[i].key = db[i].key
         /\ \A i, j \in DOMAIN db' : db'[i].key = db'[j].key => i = j]_db
  BY StepKeepsInv DEF Grows
<1> QED BY InitInv, <1>1, <1>2, PTL DEF Spec, AppendOnly

-----------------------------------------------------------------------------
(* What a page shows: the queries of the dashboard.                        *)

\* The number of the last commit is no less than any run's.
Stamps == /\ Commits \in Nat
          /\ \A i \in DOMAIN db : db[i].at \in Nat /\ db[i].at <= Commits

\* What the header has is still that run, and what is to come of its children is
\* no older.
Pages ==
  /\ page.todo \in {<<>>, <<"runs", "series">>, <<"series">>}
  /\ DOMAIN page = {"todo", "runs", "series"}
  /\ page.todo = <<"runs", "series">> => page.runs = <<>>
  /\ \A i \in DOMAIN page.runs :
       /\ i \in DOMAIN db /\ db[i].key = page.runs[i].key
       /\ page.runs[i].at \in Nat /\ page.runs[i].at <= db[i].at
  /\ page.todo = <<>> =>
       \A i \in DOMAIN page.runs :
         /\ i \in DOMAIN page.series /\ page.series[i].key = page.runs[i].key
         /\ page.series[i].at \in Nat /\ page.runs[i].at <= page.series[i].at

\* The maximum of a set that has one.
LEMMA MaxIs ==
  ASSUME NEW S, NEW m \in S, \A y \in S : y \in Nat /\ y <= m
  PROVE  Max(S) = m
<1>1. m \in S /\ \A y \in S : m >= y
  OBVIOUS
<1>2. \A x \in S : (\A y \in S : x >= y) => x = m
  OBVIOUS
<1> QED BY <1>1, <1>2 DEF Max

\* The run a commit writes.
Run(c) == [key |-> IF col[c].hit = 0 THEN col[c].key ELSE db[col[c].hit].key, at |-> Commits + 1,
           seen |-> col[c].seen, rowsAt |-> Commits + 1, of |-> col[c].of]

\* A commit writes one run, of the key collected, and leaves the others as they are.
LEMMA CommitWrites ==
  ASSUME Inv, NEW c \in Collector, Commit(c)
  PROVE  /\ col[c].todo = <<"commit">> /\ Run(c).key = col[c].key
         /\ \E j \in DOMAIN db' : /\ db'[j] = Run(c)
                                  /\ \A i \in DOMAIN db' : i # j => i \in DOMAIN db /\ db'[i] = db[i]
<1>1. db' = IF col[c].hit = 0 THEN Append(db, Run(c)) ELSE [db EXCEPT ![col[c].hit] = Run(c)]
  BY DEF Commit, Written, With, Run
<1>2. col[c].todo = <<"commit">>
  <2>1. col[c].todo \in Todos BY DEF Inv, Shapes
  <2>2. col[c].todo # <<>> /\ Head(col[c].todo) = "commit" BY DEF Commit, At
  <2> QED BY <2>1, <2>2, HeadsOfTodos
<1>3. Run(c).key = col[c].key
  BY <1>2 DEF Inv, Hits, Run
<1>4. PICK S : db \in Seq(S) BY DEF Inv, Shapes
<1>5. CASE col[c].hit = 0
  <2>1. db' = Append(db, Run(c)) BY <1>1, <1>5
  <2>2. db \in Seq(S \cup {Run(c)}) BY <1>4, SeqMonotonic
  <2>3. /\ DOMAIN db' = 1 .. Len(db) + 1 /\ DOMAIN db = 1 .. Len(db) /\ Len(db) \in Nat
        /\ \A i \in 1 .. Len(db) : db'[i] = db[i]
        /\ db'[Len(db) + 1] = Run(c)
    BY <2>1, <2>2, AppendProperties
  <2>4. Len(db) + 1 \in DOMAIN db' BY <2>3
  <2> QED BY <1>2, <1>3, <2>3, <2>4
<1>6. CASE col[c].hit # 0
  <2>1. col[c].hit \in DOMAIN db BY <1>2, <1>6 DEF Inv, Hits
  <2> QED BY <1>1, <1>2, <1>3, <1>6, <2>1
<1> QED BY <1>5, <1>6

\* The commits are numbered upwards.
LEMMA StampsGrow ==
  ASSUME Inv, Stamps, NEW c \in Collector, Commit(c)
  PROVE  Stamps' /\ \A i \in DOMAIN db : i \in DOMAIN db' /\ db[i].at <= db'[i].at
<1> DEFINE n == Commits + 1
           S == {0} \cup {db'[i].at : i \in DOMAIN db'}
<1>1. PICK j \in DOMAIN db' : /\ db'[j] = Run(c)
                              /\ \A i \in DOMAIN db' : i # j => i \in DOMAIN db /\ db'[i] = db[i]
  BY CommitWrites
<1>2. Run(c).at = n /\ n \in Nat /\ Commits \in Nat
  BY DEF Run, Stamps
<1> HIDE DEF n
<1>3. \A i \in DOMAIN db : db[i].at \in Nat /\ db[i].at <= n
  BY DEF Stamps, n
<1>4. \A i \in DOMAIN db' : db'[i].at \in Nat /\ db'[i].at <= n
  BY <1>1, <1>2, <1>3
<1>5. n \in S /\ \A y \in S : y \in Nat /\ y <= n
  BY <1>1, <1>2, <1>4
<1>6. Max(S) = n
  <2> HIDE DEF S
  <2> QED BY <1>5, MaxIs
<1>7. Commits' = n
  BY <1>6 DEF Commits
<1>8. \A i \in DOMAIN db : i \in DOMAIN db' /\ db[i].at <= db'[i].at
  <2>1. \A i \in DOMAIN db : i \in DOMAIN db' BY WrittenGrows DEF Grows
  <2>2. ASSUME NEW i \in DOMAIN db PROVE db[i].at <= db'[i].at
    <3>1. CASE i = j BY <1>1, <1>2, <1>3, <3>1
    <3>2. CASE i # j BY <1>1, <1>3, <2>1, <3>2
    <3> QED BY <3>1, <3>2
  <2> QED BY <2>1, <2>2
<1>9. Stamps' <=> Commits' \in Nat /\ \A i \in DOMAIN db' : db'[i].at \in Nat /\ db'[i].at <= Commits'
  BY DEF Stamps
<1> QED BY <1>2, <1>4, <1>7, <1>8, <1>9

\* What the dashboard reads, and what it has read when a commit comes between.
LEMMA PagesStep ==
  ASSUME Inv, Stamps, Pages, [Next]_vars
  PROVE  Stamps' /\ Pages'
<1>1. CASE StartPage
  <2>1. db' = db /\ page' = [todo |-> <<"runs", "series">>, runs |-> <<>>, series |-> <<>>]
    BY <1>1 DEF StartPage, Unread, queries
  <2>2. Stamps' BY <2>1 DEF Stamps, Commits
  <2>3. Pages' BY <2>1 DEF Pages
  <2> QED BY <2>2, <2>3
<1>2. CASE load
  <2>1. db' = db BY <1>2 DEF load
  <2>2. Stamps' BY <2>1 DEF Stamps, Commits
  <2>3. CASE page.todo = <<"runs", "series">>
    <3>1. /\ page'.todo = <<"series">> /\ DOMAIN page' = {"todo", "runs", "series"}
          /\ page'.runs = [i \in DOMAIN db |-> [key |-> db[i].key, at |-> db[i].at]]
      BY <1>2, <2>3 DEF load, Pages
    <3>2. Pages' BY <2>1, <3>1 DEF Pages, Stamps
    <3> QED BY <2>2, <3>2
  <2>4. CASE page.todo = <<"series">>
    <3>1. /\ page'.todo = <<>> /\ DOMAIN page' = {"todo", "runs", "series"} /\ page'.runs = page.runs
          /\ page'.series = [i \in DOMAIN db |-> [key |-> db[i].key, at |-> db[i].rowsAt]]
      BY <1>2, <2>4 DEF load, Pages
    <3>2. \A i \in DOMAIN db : db[i].rowsAt = db[i].at BY DEF Inv, WholeRuns
    <3>3. Pages' BY <2>1, <3>1, <3>2 DEF Pages, Stamps
    <3> QED BY <2>2, <3>3
  <2>5. page.todo # <<>> BY <1>2 DEF load
  <2> QED BY <2>3, <2>4, <2>5 DEF Pages
<1>3. ASSUME NEW c \in Collector, Commit(c) PROVE Stamps' /\ Pages'
  <2>1. page' = page BY <1>3 DEF Commit
  <2>2. Stamps' /\ \A i \in DOMAIN db : i \in DOMAIN db' /\ db[i].at <= db'[i].at BY <1>3, StampsGrow
  <2>3. Grows BY <1>3, WrittenGrows
  <2>4. ASSUME NEW i \in DOMAIN page.runs
        PROVE  /\ i \in DOMAIN db' /\ db'[i].key = page.runs[i].key
               /\ page.runs[i].at \in Nat /\ page.runs[i].at <= db'[i].at
    <3>1. /\ i \in DOMAIN db /\ db[i].key = page.runs[i].key
          /\ page.runs[i].at \in Nat /\ page.runs[i].at <= db[i].at
      BY DEF Pages
    <3>2. db[i].at \in Nat /\ db'[i].at \in Nat /\ db[i].at <= db'[i].at
      BY <2>2, <3>1 DEF Stamps
    <3> QED BY <2>3, <3>1, <3>2 DEF Grows
  <2> QED BY <2>1, <2>2, <2>4 DEF Pages
<1>4. CASE ~StartPage /\ ~load /\ ~(\E c \in Collector : Commit(c))
  <2>1. db' = db /\ page' = page
    BY <1>4 DEF Next, StartGate, Stage, SkipStage, EndGate, KillGate, RunAlone, Edit, NewCommit,
                ReadCapture, Collect, Select, Begin, Die, seen_by_others, vars
  <2> QED BY <2>1 DEF Stamps, Commits, Pages
<1> QED BY <1>1, <1>2, <1>3, <1>4 DEF Next

\* At first there is no run and no page.
LEMMA PagesInit == Init => Stamps /\ Pages
<1> SUFFICES ASSUME Init PROVE Stamps /\ Pages OBVIOUS
<1>1. db = <<>> /\ page = [todo |-> <<>>, runs |-> <<>>, series |-> <<>>] BY DEF Init, Unread
<1>2. Commits = 0
  <2> DEFINE S == {0} \cup {db[i].at : i \in DOMAIN db}
  <2>1. 0 \in S /\ \A y \in S : y \in Nat /\ y <= 0 BY <1>1
  <2>2. Max(S) = 0
    <3> HIDE DEF S
    <3> QED BY <2>1, MaxIs
  <2> QED BY <2>2 DEF Commits
<1> QED BY <1>1, <1>2 DEF Stamps, Pages

\* The values a page shows are of the collection its header is of or of a later one
\* of the same run: load's two queries are transactions of their own, and a commit
\* between them only ever makes them newer.
THEOREM PageInOrder == Spec => []PageNotBehindItsHeader
<1>1. Inv /\ Stamps /\ Pages /\ [Next]_vars => Stamps' /\ Pages' BY PagesStep
<1>2. Inv /\ [Next]_vars => Inv' BY StepKeepsInv
<1>3. Pages => PageNotBehindItsHeader BY DEF Pages, PageNotBehindItsHeader
<1> QED BY InitInv, PagesInit, <1>1, <1>2, <1>3, PTL DEF Spec

-----------------------------------------------------------------------------
(* What a run is made of.                                                  *)

Olds == {NULL, <<"old">>}

\* What the gate does not make is of before it, or not there.
Old(a) == /\ a.result \in Olds /\ a.stream \in Olds
          /\ \A e \in DOMAIN a.envtime : a.envtime[e] \in Olds

\* The artifacts a are all of gate n, but those that are not a gate's.
OfGate(a, n) ==
  /\ a.log = [gate |-> G(n), banners |-> AllBanners, tree |-> a.tree]
  /\ a.time = IF "time" \in a.tools THEN G(n) ELSE NULL
  /\ a.coverage = G(n) /\ a.fcov = G(n)
  /\ a.formal = [t \in Tasks |-> G(n)]

\* What c has read, or a run was made of, is gate n's and of its tree, and the key is
\* that of the commit and the log.
Matches(seen, key, n) ==
  /\ OfGate(seen, n) /\ Old(seen)
  /\ seen.rtl = seen.tree /\ seen.tree = Tree(seen.tree[2])
  /\ seen.head = key[1] /\ key[1] = CommitOf(key[1][2])
  /\ seen.dirty \/ key[1] = CommitOf(seen.tree[2])
  /\ "ci" \notin seen.tools => key[3] = seen.log

Artifacts == {"tree", "head", "log", "time", "coverage", "fcov", "formal", "envtime", "result",
              "stream", "tools"}

\* What a collector reads first.
Early(a) == [log |-> a.log, time |-> a.time, result |-> a.result, rtl |-> a.tree]

\* The artifacts, and how far the gate has come with them.
Shelf ==
  /\ DOMAIN art = Artifacts
  /\ art.log = [gate |-> art.log.gate, banners |-> art.log.banners, tree |-> art.log.tree]
  /\ Old(art) /\ art.tree = Tree(art.tree[2]) /\ art.head = CommitOf(art.head[2])

Progress ==
  /\ DOMAIN gate = {"n", "todo", "ran"}
  /\ gate.todo \in {<<>>, <<"check", "coverage", "formal">>, <<"coverage", "formal">>, <<"formal">>,
                    <<"end">>}
  /\ gate.todo # <<>> => done = 0 /\ art.log.gate = G(gate.n) /\ art.time = NULL
  /\ gate.ran =>
       /\ gate.todo # <<>> => art.log.tree = art.tree
       /\ gate.todo = <<"check", "coverage", "formal">> => art.log.banners = {}
       /\ gate.todo \in {<<"coverage", "formal">>, <<"formal">>, <<"end">>} => art.fcov = G(gate.n)
       /\ gate.todo \in {<<"formal">>, <<"end">>} => art.coverage = G(gate.n)
       /\ gate.todo = <<"end">> => art.formal = [t \in Tasks |-> G(gate.n)]
       /\ gate.todo = <<"coverage", "formal">> => art.log.banners = Banners("check")
       /\ gate.todo = <<"formal">> => art.log.banners = Banners("check") \cup Banners("coverage")
       /\ gate.todo = <<"end">> => art.log.banners = AllBanners
  /\ done # 0 => OfGate(art, done)

\* A collector that has not been disturbed reads of the gate that is done.
Reading(c) ==
  col[c].of # 0 =>
    /\ col[c].of = done
    /\ col[c].todo = <<"collect", "select", "begin", "commit">> =>
         col[c].seen = Early(art)
    /\ col[c].todo # <<"collect", "select", "begin", "commit">> =>
         Matches(col[c].seen, col[c].key, col[c].of)

RowsMatch == \A i \in DOMAIN db : db[i].of # 0 => Matches(db[i].seen, db[i].key, db[i].of)

Origins == Shelf /\ Progress /\ (\A c \in Collector : Reading(c)) /\ RowsMatch

-----------------------------------------------------------------------------
(* The rows: where their numbers come from, and the ones there must be.    *)

\* Every number of f is from one of the places O.
FromOnly(f, O) == \A k \in DOMAIN f : f[k].from \in O

\* f has a number for k, and it is measured.
Has(f, k) == k \in DOMAIN f /\ f[k].kind = "measured"

\* f has a gap for k.
HasGap(f, k) == k \in DOMAIN f /\ f[k] = GAP

\* The rows of a domain of metrics.
Within(f, d) == \A k \in DOMAIN f : k[1] = d

\* Rows put together.
LEMMA Together ==
  ASSUME NEW f, NEW g
  PROVE  /\ \A O : FromOnly(f, O) /\ FromOnly(g, O) => FromOnly(f ++ g, O)
         /\ \A k : Has(f, k) => Has(f ++ g, k)
         /\ \A k : k \notin DOMAIN f /\ Has(g, k) => Has(f ++ g, k)
         /\ \A k : HasGap(f, k) => HasGap(f ++ g, k)
         /\ \A k : k \notin DOMAIN f /\ HasGap(g, k) => HasGap(f ++ g, k)
         /\ \A k : k \notin DOMAIN f /\ k \notin DOMAIN g => k \notin DOMAIN (f ++ g)
         /\ \A d : Within(f, d) /\ Within(g, d) => Within(f ++ g, d)
BY DEF ++, FromOnly, Has, HasGap, Within

\* Rows of one origin.
LEMMA PutRows ==
  ASSUME NEW keys, NEW from
  PROVE  /\ \A O : from \in O => /\ FromOnly(Put(keys, MEASURED(from)), O)
                                 /\ FromOnly(Put(keys, ESTIMATED(from)), O)
         /\ \A O : NULL \in O => FromOnly(Put(keys, GAP), O)
         /\ \A row : DOMAIN Put(keys, row) = keys
         /\ \A k \in keys : Has(Put(keys, MEASURED(from)), k)
BY DEF FromOnly, Has, Put, MEASURED, ESTIMATED, GAP, Row

\* The parts of a key.
LEMMA KeyParts ==
  ASSUME NEW d, NEW scopes, NEW names, NEW k \in Keys(d, scopes, names)
  PROVE  k[1] = d /\ k[2] \in scopes /\ k[3] \in names
BY DEF Keys

\* What the artifacts a may say of where they are from.
Origin(a, O) ==
  /\ {NULL, <<"host">>, a.rtl, a.tree, a.head, a.log.gate, a.time, a.coverage, a.fcov, a.result, a.stream}
       \subseteq O
  /\ \A t \in Tasks : a.formal[t] \in O
  /\ \A s, t \in Tasks : a.formal[s] = a.formal[t]
  /\ \A e \in DOMAIN a.envtime : a.envtime[e] \in O

\* The rows of one domain.
LEMMA PutWithin ==
  ASSUME NEW d, NEW scopes, NEW names, NEW row
  PROVE  Within(Put(Keys(d, scopes, names), row), d)
BY PutRows, KeyParts DEF Within

LEMMA DesignRows ==
  ASSUME NEW a, NEW O, Origin(a, O)
  PROVE  FromOnly(collect_design(a), O) /\ Within(collect_design(a), "design")
<1> DEFINE lint == IF "verilator" \in a.tools
                   THEN Put(Keys("design", {""}, {"verilator_warnings", "verilator_errors"}), MEASURED(a.rtl))
                   ELSE Put(Keys("design", {""}, {"verilator_warnings"}), GAP)
           loc  == Put(Keys("design", {""} \cup Modules, {"rtl_loc", "rtl_loc_code"})
                         \cup Keys("design", {""}, {"rtl_modules"}), MEASURED(a.rtl))
           none == Put(Keys("design", {""}, {"cells"}), GAP)
           flat == IF ~yosys_synth(a, "flat") THEN none
                   ELSE tally("", a.rtl)
                          ++ Put(Keys("design", {""}, {"memory_bits", "comb_path_levels"}), MEASURED(a.rtl))
                          ++ Put(Keys("design", {""}, {"fmax_mhz"}), ESTIMATED(a.rtl))
           each == [k \in UNION {DOMAIN tally(m, a.rtl) : m \in Modules} |-> tally(k[2], a.rtl)[k]]
           hier == IF ~yosys_synth(a, "hier") THEN Put(Keys("design", {"*per-module*"}, {"cells"}), GAP)
                   ELSE each ++ Put(Keys("design", Modules, {"instances"}), MEASURED(a.rtl))
<1>1. NULL \in O /\ a.rtl \in O BY DEF Origin
<1>3. FromOnly(none, O) /\ Within(none, "design") BY <1>1, PutWithin, PutRows
<1>4. FromOnly(lint, O) /\ Within(lint, "design") BY <1>1, PutWithin, PutRows
<1>5. FromOnly(loc, O) /\ Within(loc, "design")
  <2> DEFINE K == Keys("design", {""} \cup Modules, {"rtl_loc", "rtl_loc_code"})
             L == Keys("design", {""}, {"rtl_modules"})
  <2>1. \A k \in K \cup L : k[1] = "design" BY KeyParts
  <2>2. loc = Put(K \cup L, MEASURED(a.rtl)) OBVIOUS
  <2> HIDE DEF K, L, loc
  <2>3. DOMAIN loc = K \cup L BY <2>2, PutRows
  <2>4. Within(loc, "design") BY <2>1, <2>3 DEF Within
  <2> QED BY <1>1, <2>2, <2>4, PutRows
<1>6. \A m : /\ FromOnly(tally(m, a.rtl), O) /\ Within(tally(m, a.rtl), "design")
             /\ \A k \in DOMAIN tally(m, a.rtl) : k[2] = m
  <2> TAKE m
  <2> DEFINE f == Put(Keys("design", {m}, {"cells", "gate_equivalents"}), ESTIMATED(a.rtl))
             g == Put(Keys("design", {m}, {"flops", "memory_cells", "netlist_wire_bits"}), MEASURED(a.rtl))
  <2>1. tally(m, a.rtl) = f ++ g BY DEF tally
  <2>2. FromOnly(f, O) /\ FromOnly(g, O) /\ Within(f, "design") /\ Within(g, "design")
    BY <1>1, PutWithin, PutRows
  <2>3. /\ \A k \in DOMAIN f : k[2] = m
        /\ \A k \in DOMAIN g : k[2] = m
    BY PutRows, KeyParts
  <2> HIDE DEF f, g
  <2>4. \A k \in DOMAIN (f ++ g) : k[2] = m BY <2>3 DEF ++
  <2> QED BY <2>1, <2>2, <2>4, Together
<1>7. FromOnly(flat, O) /\ Within(flat, "design")
  <2> DEFINE f == Put(Keys("design", {""}, {"memory_bits", "comb_path_levels"}), MEASURED(a.rtl))
             g == Put(Keys("design", {""}, {"fmax_mhz"}), ESTIMATED(a.rtl))
  <2>1. FromOnly(f, O) /\ FromOnly(g, O) /\ Within(f, "design") /\ Within(g, "design")
    BY <1>1, PutWithin, PutRows
  <2>2. flat = IF ~yosys_synth(a, "flat") THEN none ELSE tally("", a.rtl) ++ f ++ g
    OBVIOUS
  <2> HIDE DEF f, g, flat, none
  <2> QED BY <1>3, <1>6, <2>1, <2>2, Together
<1>8. FromOnly(each, O) /\ Within(each, "design")
  <2>1. ASSUME NEW k \in DOMAIN each PROVE each[k].from \in O /\ k[1] = "design"
    <3>1. PICK m \in Modules : k \in DOMAIN tally(m, a.rtl) OBVIOUS
    <3>2. each[k] = tally(m, a.rtl)[k] BY <1>6, <3>1
    <3> QED BY <1>6, <3>1, <3>2 DEF FromOnly, Within
  <2> QED BY <2>1 DEF FromOnly, Within
<1>9. FromOnly(hier, O) /\ Within(hier, "design")
  <2> DEFINE f == Put(Keys("design", {"*per-module*"}, {"cells"}), GAP)
             g == Put(Keys("design", Modules, {"instances"}), MEASURED(a.rtl))
  <2>1. FromOnly(f, O) /\ FromOnly(g, O) /\ Within(f, "design") /\ Within(g, "design")
    BY <1>1, PutWithin, PutRows
  <2>2. hier = IF ~yosys_synth(a, "hier") THEN f ELSE each ++ g
    OBVIOUS
  <2> HIDE DEF f, g, hier, each
  <2> QED BY <1>8, <2>1, <2>2, Together
<1>10. collect_design(a) = loc ++ lint ++ (IF "yosys" \notin a.tools THEN none ELSE flat ++ hier)
  BY DEF collect_design
<1> HIDE DEF loc, lint, none, flat, hier
<1> QED BY <1>3, <1>4, <1>5, <1>7, <1>9, <1>10, Together

\* A number that is there if its artifact is.
LEMMA OrRows ==
  ASSUME NEW artifact, NEW d, NEW scopes, NEW names, NEW scopes2, NEW names2, NEW O,
         NULL \in O, artifact \in O
  PROVE  LET f == Or(artifact, Keys(d, scopes, names), Keys(d, scopes2, names2))
         IN  /\ FromOnly(f, O) /\ Within(f, d)
             /\ \A k \in DOMAIN f : k \in Keys(d, scopes, names) \/ k \in Keys(d, scopes2, names2)
             /\ artifact # NULL => \A k \in Keys(d, scopes, names) : Has(f, k)
<1> DEFINE K == Keys(d, scopes, names)
           L == Keys(d, scopes2, names2)
           f == Or(artifact, K, L)
<1>1. CASE artifact # NULL
  <2>1. f = Put(K, MEASURED(artifact)) BY <1>1 DEF Or
  <2>2. Within(f, d) BY <2>1, PutWithin
  <2> HIDE DEF K
  <2> QED BY <1>1, <2>1, <2>2, PutRows DEF K
<1>2. CASE artifact = NULL
  <2>1. f = Put(L, GAP) BY <1>2 DEF Or
  <2>2. Within(f, d) BY <2>1, PutWithin
  <2> QED BY <1>2, <2>1, <2>2, PutRows
<1> QED BY <1>1, <1>2

\* What each formal task says, if there is one origin of them all.
LEMMA FormalTotal ==
  ASSUME NEW a, NEW O, Origin(a, O), NEW run, run = {t \in Tasks : a.formal[t] # NULL}, run # {}
  PROVE  /\ Cardinality({a.formal[t] : t \in run}) = 1
         /\ a.formal[CHOOSE t \in run : TRUE] \in O
<1> DEFINE u == CHOOSE t \in run : TRUE
<1>1. u \in run /\ run \subseteq Tasks OBVIOUS
<1> HIDE DEF u
<1>2. {a.formal[t] : t \in run} = {a.formal[u]} BY <1>1 DEF Origin
<1>3. Cardinality({a.formal[u]}) = 1 BY FS_Singleton
<1> QED BY <1>1, <1>2, <1>3 DEF Origin, u

\* The three numbers of verif the gate can be asked for.
LineCoverage == <<"verif", "", "line_coverage_pct">>
FuncCoverage == <<"verif", "cocotb", "func_coverage_pct">>
ProofsPassing == <<"verif", "", "proofs_passing">>

LEMMA VerifRows ==
  ASSUME NEW a, NEW O, Origin(a, O), a.coverage # NULL, "cocotb" \in a.log.banners,
         \A t \in Tasks : a.formal[t] # NULL
  PROVE  /\ FromOnly(collect_verif(a), O) /\ Within(collect_verif(a), "verif")
         /\ Has(collect_verif(a), LineCoverage)
         /\ Has(collect_verif(a), FuncCoverage)
         /\ Has(collect_verif(a), ProofsPassing)
<1> DEFINE run    == {t \in Tasks : a.formal[t] # NULL}
           lines  == Or(a.coverage, Keys("verif", {""}, {"line_coverage_pct", "line_coverage_points"}),
                        Keys("verif", {""}, {"line_coverage_pct"}))
           func   == Put(Keys("verif", {"cocotb"},
                              {"func_coverage_pct", "func_goal_bins", "func_goal_bins_hit"}),
                         MEASURED(a.log.gate))
           tests  == Put(Keys("verif", {"cocotb"}, {"tests_passing"}), MEASURED(a.log.gate))
           envs   == ENV_BANNERS(a)
           sva    == Put(Keys("verif", {""}, {"sva_assertions", "cover_properties"}), MEASURED(a.tree))
           proofs == [k \in Keys("verif", run, {"proof_pass", "solve_s", "bmc_depth"}) |->
                        MEASURED(a.formal[k[2]])]
           sum    == Put(Keys("verif", {""}, {"proof_tasks_run", "proofs_passing"}),
                         MEASURED(a.formal[CHOOSE t \in run : TRUE]))
           cycles == Put(Keys("verif", Envs \cup {"cocotb"}, {"sim_cycles"})
                           \cup Keys("verif", {""}, {"throughput_cycles_per_s"}), GAP)
<1>1. NULL \in O /\ a.coverage \in O /\ a.log.gate \in O /\ a.tree \in O BY DEF Origin
<1>2. run # {} BY MetricsRowsAssumption
<1>3. Cardinality({a.formal[t] : t \in run}) = 1 /\ a.formal[CHOOSE t \in run : TRUE] \in O
  BY <1>2, FormalTotal
<1>4. collect_verif(a) = lines ++ func ++ tests ++ envs ++ sva ++ proofs ++ sum ++ cycles
  BY <1>2, <1>3 DEF collect_verif, func_coverage
<1>5. /\ FromOnly(lines, O) /\ Within(lines, "verif") /\ Has(lines, LineCoverage)
      /\ FuncCoverage \notin DOMAIN lines /\ ProofsPassing \notin DOMAIN lines
  <2> DEFINE K == Keys("verif", {""}, {"line_coverage_pct", "line_coverage_points"})
             L == Keys("verif", {""}, {"line_coverage_pct"})
  <2>1. /\ FromOnly(lines, O) /\ Within(lines, "verif")
        /\ \A k \in DOMAIN lines : k \in K \/ k \in L
        /\ \A k \in K : Has(lines, k)
    BY <1>1, OrRows
  <2>2. LineCoverage \in K BY DEF Keys, LineCoverage
  <2>3. FuncCoverage \notin K /\ FuncCoverage \notin L /\ ProofsPassing \notin K /\ ProofsPassing \notin L
    BY DEF Keys, FuncCoverage, ProofsPassing
  <2> HIDE DEF K, L, lines
  <2> QED BY <2>1, <2>2, <2>3
<1>6. /\ FromOnly(func, O) /\ Within(func, "verif") /\ Has(func, FuncCoverage)
      /\ ProofsPassing \notin DOMAIN func
  <2> DEFINE K == Keys("verif", {"cocotb"}, {"func_coverage_pct", "func_goal_bins", "func_goal_bins_hit"})
  <2>1. FuncCoverage \in K /\ ProofsPassing \notin K BY DEF Keys, FuncCoverage, ProofsPassing
  <2>2. Within(func, "verif") BY PutWithin
  <2> HIDE DEF K
  <2>3. func = Put(K, MEASURED(a.log.gate)) BY DEF K
  <2> HIDE DEF func
  <2> QED BY <1>1, <2>1, <2>2, <2>3, PutRows
<1>7. FromOnly(tests, O) /\ Within(tests, "verif") /\ ProofsPassing \notin DOMAIN tests
  <2> DEFINE K == Keys("verif", {"cocotb"}, {"tests_passing"})
  <2>1. ProofsPassing \notin K BY DEF Keys, ProofsPassing
  <2>2. Within(tests, "verif") BY PutWithin
  <2> QED BY <1>1, <2>1, <2>2, PutRows
<1>8. FromOnly(envs, O) /\ Within(envs, "verif") /\ ProofsPassing \notin DOMAIN envs
  <2>1. CASE a.log.gate = NULL BY <2>1 DEF ENV_BANNERS, None, FromOnly, Within
  <2>2. CASE a.log.gate # NULL
    <3> DEFINE K == Keys("verif", Envs, {"checks"})
    <3>1. envs = [k \in K |-> IF k[2] \in a.log.banners THEN MEASURED(a.log.gate) ELSE GAP]
      BY <2>2 DEF ENV_BANNERS
    <3>2. ProofsPassing \notin K /\ \A k \in K : k[1] = "verif" BY DEF Keys, ProofsPassing
    <3> HIDE DEF K, envs
    <3> QED BY <1>1, <3>1, <3>2 DEF FromOnly, Within, MEASURED, GAP, Row
  <2> QED BY <2>1, <2>2
<1>9. FromOnly(sva, O) /\ Within(sva, "verif") /\ ProofsPassing \notin DOMAIN sva
  <2> DEFINE K == Keys("verif", {""}, {"sva_assertions", "cover_properties"})
  <2>1. ProofsPassing \notin K BY DEF Keys, ProofsPassing
  <2>2. Within(sva, "verif") BY PutWithin
  <2> QED BY <1>1, <2>1, <2>2, PutRows
<1>10. FromOnly(proofs, O) /\ Within(proofs, "verif") /\ ProofsPassing \notin DOMAIN proofs
  <2> DEFINE K == Keys("verif", run, {"proof_pass", "solve_s", "bmc_depth"})
  <2>1. ProofsPassing \notin K BY DEF Keys, ProofsPassing
  <2>2. \A k \in K : k[1] = "verif" /\ k[2] \in Tasks BY KeyParts
  <2> HIDE DEF K
  <2>3. proofs = [k \in K |-> MEASURED(a.formal[k[2]])] BY DEF K
  <2> HIDE DEF proofs
  <2> QED BY <2>1, <2>2, <2>3 DEF Origin, FromOnly, Within, MEASURED, Row
<1>11. FromOnly(sum, O) /\ Within(sum, "verif") /\ Has(sum, ProofsPassing)
  <2> DEFINE K == Keys("verif", {""}, {"proof_tasks_run", "proofs_passing"})
             from == a.formal[CHOOSE t \in run : TRUE]
  <2>1. ProofsPassing \in K BY DEF Keys, ProofsPassing
  <2>2. Within(sum, "verif") BY PutWithin
  <2>3. from \in O BY <1>3
  <2> HIDE DEF K, from
  <2>4. sum = Put(K, MEASURED(from)) BY DEF K, from
  <2> HIDE DEF sum
  <2> QED BY <2>1, <2>2, <2>3, <2>4, PutRows
<1>12. FromOnly(cycles, O) /\ Within(cycles, "verif")
  <2> DEFINE K == Keys("verif", Envs \cup {"cocotb"}, {"sim_cycles"})
             L == Keys("verif", {""}, {"throughput_cycles_per_s"})
  <2>1. \A k \in K \cup L : k[1] = "verif" BY KeyParts
  <2>2. cycles = Put(K \cup L, GAP) OBVIOUS
  <2> HIDE DEF K, L, cycles
  <2>3. DOMAIN cycles = K \cup L BY <2>2, PutRows
  <2> QED BY <1>1, <2>1, <2>2, <2>3, PutRows DEF Within
<1> HIDE DEF run, lines, func, tests, envs, sva, proofs, sum, cycles
<1> DEFINE f1 == lines ++ func
           f2 == f1 ++ tests
           f3 == f2 ++ envs
           f4 == f3 ++ sva
           f5 == f4 ++ proofs
           f6 == f5 ++ sum
<1>13. /\ FromOnly(f1, O) /\ Within(f1, "verif") /\ Has(f1, LineCoverage) /\ Has(f1, FuncCoverage)
       /\ ProofsPassing \notin DOMAIN f1
  BY <1>5, <1>6, Together
<1> HIDE DEF f1
<1>14. /\ FromOnly(f2, O) /\ Within(f2, "verif") /\ Has(f2, LineCoverage) /\ Has(f2, FuncCoverage)
       /\ ProofsPassing \notin DOMAIN f2
  BY <1>7, <1>13, Together
<1> HIDE DEF f2
<1>15. /\ FromOnly(f3, O) /\ Within(f3, "verif") /\ Has(f3, LineCoverage) /\ Has(f3, FuncCoverage)
       /\ ProofsPassing \notin DOMAIN f3
  BY <1>8, <1>14, Together
<1> HIDE DEF f3
<1>16. /\ FromOnly(f4, O) /\ Within(f4, "verif") /\ Has(f4, LineCoverage) /\ Has(f4, FuncCoverage)
       /\ ProofsPassing \notin DOMAIN f4
  BY <1>9, <1>15, Together
<1> HIDE DEF f4
<1>17. /\ FromOnly(f5, O) /\ Within(f5, "verif") /\ Has(f5, LineCoverage) /\ Has(f5, FuncCoverage)
       /\ ProofsPassing \notin DOMAIN f5
  BY <1>10, <1>16, Together
<1> HIDE DEF f5
<1>18. /\ FromOnly(f6, O) /\ Within(f6, "verif") /\ Has(f6, LineCoverage) /\ Has(f6, FuncCoverage)
       /\ Has(f6, ProofsPassing)
  BY <1>11, <1>17, Together
<1> HIDE DEF f6
<1>19. collect_verif(a) = f6 ++ cycles BY <1>4 DEF f1, f2, f3, f4, f5, f6
<1> QED BY <1>12, <1>18, <1>19, Together

\* What of compute the gate can be asked for.
CoreSeconds == <<"compute", "gate", "core_seconds">>
GateWall == <<"compute", "gate", "wall_s">>

\* The timing of the gate: measured, or a gap without GNU time's report.
Timing(a, f) == IF a.time # NULL THEN Has(f, CoreSeconds) ELSE HasGap(f, GateWall)

LEMMA ComputeRows ==
  ASSUME NEW a, NEW O, Origin(a, O)
  PROVE  FromOnly(collect_compute(a), O) /\ Timing(a, collect_compute(a))
<1> DEFINE names  == {"wall_s", "core_seconds", "user_s", "sys_s", "peak_rss_mb", "cpu_utilization_pct"}
           K      == Keys("compute", {"gate"}, names)
           Runner == Keys("compute", {""}, {"runner_vcpu", "runner_ram_mb", "vl_jobs"})
           per_env_measured == {e \in DOMAIN a.envtime : a.envtime[e] # NULL}
           host   == Put(Runner, MEASURED(<<"host">>))
           L      == Keys("compute", {"gate"}, {"wall_s"})
           gate_  == Or(a.time, K, L)
           envs   == [k \in Keys("compute", per_env_measured, {"wall_s", "core_seconds", "peak_rss_mb"}) |->
                        MEASURED(a.envtime[k[2]])]
           est    == Put(Keys("compute", {""}, {"build_s", "run_s"})
                           \cup Keys("compute", a.log.banners \ per_env_measured, {"wall_s"}),
                         ESTIMATED(a.log.gate))
           span   == Put(Keys("compute", {"gate"}, {"log_span_s"}), MEASURED(a.log.gate))
           none   == Put(Keys("compute", {""}, {"build_s"}), GAP)
           costs  == Put(Keys("compute", {""}, {"ci_cost_usd", "cpu_energy_wh"}), ESTIMATED(a.time))
           modeled == IF a.time = NULL THEN None ELSE costs
           logged == IF a.log.gate = NULL THEN none ELSE est ++ span
<1>1. NULL \in O /\ <<"host">> \in O /\ a.time \in O /\ a.log.gate \in O BY DEF Origin
<1>2. collect_compute(a) = host ++ gate_ ++ envs ++ logged ++ modeled
  BY DEF collect_compute
<1>3. FromOnly(host, O) /\ CoreSeconds \notin DOMAIN host /\ GateWall \notin DOMAIN host
  <2>1. CoreSeconds \notin Runner /\ GateWall \notin Runner BY DEF Keys, CoreSeconds, GateWall
  <2> HIDE DEF Runner
  <2> QED BY <1>1, <2>1, PutRows
<1>4. FromOnly(gate_, O) /\ Timing(a, gate_)
  <2>1. CoreSeconds \in K /\ GateWall \in L BY DEF Keys, CoreSeconds, GateWall
  <2>2. gate_ = IF a.time # NULL THEN Put(K, MEASURED(a.time)) ELSE Put(L, GAP) BY DEF Or
  <2> HIDE DEF K, L, gate_
  <2>3. CASE a.time # NULL BY <1>1, <2>1, <2>2, <2>3, PutRows DEF Timing
  <2>4. CASE a.time = NULL
    <3>1. HasGap(gate_, GateWall) BY <2>1, <2>2, <2>4 DEF HasGap, Put
    <3> QED BY <1>1, <2>2, <2>4, <3>1, PutRows DEF Timing
  <2> QED BY <2>3, <2>4
<1>5. FromOnly(envs, O)
  <2> DEFINE E == Keys("compute", per_env_measured, {"wall_s", "core_seconds", "peak_rss_mb"})
  <2>1. \A k \in E : k[2] \in DOMAIN a.envtime BY KeyParts
  <2> HIDE DEF E
  <2>2. envs = [k \in E |-> MEASURED(a.envtime[k[2]])] BY DEF E
  <2> HIDE DEF envs
  <2> QED BY <2>1, <2>2 DEF Origin, FromOnly, MEASURED, Row
<1>6. FromOnly(est, O) /\ FromOnly(span, O) /\ FromOnly(none, O) /\ FromOnly(modeled, O)
  <2>1. FromOnly(est, O) BY <1>1, PutRows
  <2>2. FromOnly(span, O) BY <1>1, PutRows
  <2>3. FromOnly(none, O) BY <1>1, PutRows
  <2>4. FromOnly(modeled, O)
    <3>1. FromOnly(costs, O) BY <1>1, PutRows
    <3>2. FromOnly(None, O) BY DEF None, FromOnly
    <3> HIDE DEF costs
    <3> QED BY <3>1, <3>2
  <2> QED BY <2>1, <2>2, <2>3, <2>4
<1> HIDE DEF host, gate_, envs, est, span, none, modeled
<1>7. FromOnly(logged, O) BY <1>6, Together
<1> HIDE DEF logged
<1> DEFINE f1 == host ++ gate_
           f2 == f1 ++ envs
           f3 == f2 ++ logged
<1>8. FromOnly(f1, O) /\ Timing(a, f1) BY <1>3, <1>4, Together DEF Timing
<1> HIDE DEF f1
<1>9. FromOnly(f2, O) /\ Timing(a, f2) BY <1>5, <1>8, Together DEF Timing
<1> HIDE DEF f2
<1>10. FromOnly(f3, O) /\ Timing(a, f3) BY <1>7, <1>9, Together DEF Timing
<1> HIDE DEF f3
<1>11. collect_compute(a) = f3 ++ modeled BY <1>2 DEF f1, f2, f3
<1> QED BY <1>6, <1>10, <1>11, Together DEF Timing

LEMMA AiRows ==
  ASSUME NEW a, NEW O, Origin(a, O)
  PROVE  FromOnly(collect_ai(a), O)
<1>1. NULL \in O /\ a.result \in O /\ a.stream \in O /\ a.head \in O BY DEF Origin
<1>2. FromOnly(collect_ai_from_result(a), O)
  <2> DEFINE tokens == Put(Keys("ai", {""}, {"turns", "wall_s", "api_s", "total_tokens", "output_tokens",
                                             "cache_hit_ratio", "output_tokens_per_s"})
                             \cup Keys("ai", {"*aggregate*"}, {"input_tokens", "output_tokens",
                                             "cache_read_tokens", "cache_create_tokens"}), MEASURED(a.result))
             costs == Put(Keys("ai", {""}, {"cost_usd", "inference_energy_wh"})
                            \cup Keys("ai", {"*aggregate*"}, {"cost_usd", "energy_wh"}), ESTIMATED(a.result))
             gap == Put(Keys("ai", {""}, {"per_model_wall_time"}), GAP)
  <2>1. FromOnly(tokens, O) BY <1>1, PutRows
  <2>2. FromOnly(costs, O) BY <1>1, PutRows
  <2>3. FromOnly(gap, O) BY <1>1, PutRows
  <2>4. collect_ai_from_result(a) = tokens ++ costs ++ gap BY DEF collect_ai_from_result
  <2> HIDE DEF tokens, costs, gap
  <2> QED BY <2>1, <2>2, <2>3, <2>4, Together
<1>3. FromOnly(stream_rows(a), O)
  <2>1. CASE a.stream # NULL BY <1>1, <2>1, PutRows DEF stream_rows, Or
  <2>2. CASE a.stream = NULL BY <1>1, <2>2, PutRows DEF stream_rows, Or
  <2> QED BY <2>1, <2>2
<1>4. FromOnly(collect_pr_outcome(a), O)
  <2> DEFINE none == Put(Keys("ai", {""}, {"pr_files_changed"}), GAP)
             diff == Put(Keys("ai", {""}, {"pr_files_changed", "pr_lines_added", "pr_lines_removed"}),
                         MEASURED(a.head))
             gap  == Put(Keys("ai", {""}, {"pr_human_fix_needed"}), GAP)
  <2>1. FromOnly(none, O) BY <1>1, PutRows
  <2>2. FromOnly(diff, O) BY <1>1, PutRows
  <2>3. FromOnly(gap, O) BY <1>1, PutRows
  <2>4. collect_pr_outcome(a) = IF "base" \notin a.tools THEN none ELSE diff ++ gap
    BY DEF collect_pr_outcome
  <2> HIDE DEF none, diff, gap
  <2> QED BY <2>1, <2>2, <2>3, <2>4, Together
<1>5. FromOnly(Put(Keys("ai", {""}, {"run_reported"}), GAP), O) BY <1>1, PutRows
<1> DEFINE reported == IF a.result = NULL THEN Put(Keys("ai", {""}, {"run_reported"}), GAP)
                       ELSE collect_ai_from_result(a)
<1>6. FromOnly(reported, O) BY <1>2, <1>5
<1>7. collect_ai(a) = reported ++ stream_rows(a) ++ collect_pr_outcome(a) BY DEF collect_ai
<1> HIDE DEF reported
<1> QED BY <1>3, <1>4, <1>6, <1>7, Together

\* All of a run: its numbers are from where its artifacts are, and what the gate can
\* be asked for is there if it left the artifact.
LEMMA AllRows ==
  ASSUME NEW a, NEW O, Origin(a, O), a.coverage # NULL, "cocotb" \in a.log.banners,
         \A t \in Tasks : a.formal[t] # NULL
  PROVE  /\ FromOnly(rows(a), O)
         /\ Has(rows(a), LineCoverage) /\ Has(rows(a), FuncCoverage)
         /\ Has(rows(a), ProofsPassing) /\ Timing(a, rows(a))
<1> DEFINE f1 == collect_design(a) ++ collect_verif(a)
           f2 == f1 ++ collect_compute(a)
<1>1. FromOnly(collect_design(a), O) /\ Within(collect_design(a), "design") BY DesignRows
<1>2. /\ FromOnly(collect_verif(a), O) /\ Within(collect_verif(a), "verif")
      /\ Has(collect_verif(a), LineCoverage)
      /\ Has(collect_verif(a), FuncCoverage)
      /\ Has(collect_verif(a), ProofsPassing)
  BY VerifRows
<1>3. FromOnly(collect_compute(a), O) /\ Timing(a, collect_compute(a)) BY ComputeRows
<1>4. FromOnly(collect_ai(a), O) BY AiRows
<1>5. /\ LineCoverage \notin DOMAIN collect_design(a) /\ FuncCoverage \notin DOMAIN collect_design(a)
      /\ ProofsPassing \notin DOMAIN collect_design(a) /\ CoreSeconds \notin DOMAIN collect_design(a)
      /\ CoreSeconds \notin DOMAIN collect_verif(a)
      /\ GateWall \notin DOMAIN collect_design(a) /\ GateWall \notin DOMAIN collect_verif(a)
  BY <1>1, <1>2 DEF Within, LineCoverage, FuncCoverage, ProofsPassing, CoreSeconds, GateWall
<1>6. /\ FromOnly(f1, O) /\ Has(f1, LineCoverage) /\ Has(f1, FuncCoverage) /\ Has(f1, ProofsPassing)
      /\ CoreSeconds \notin DOMAIN f1 /\ GateWall \notin DOMAIN f1
  BY <1>1, <1>2, <1>5, Together
<1> HIDE DEF f1
<1>7. /\ FromOnly(f2, O) /\ Has(f2, LineCoverage) /\ Has(f2, FuncCoverage) /\ Has(f2, ProofsPassing)
      /\ Timing(a, f2)
  BY <1>3, <1>6, Together DEF Timing
<1> HIDE DEF f2
<1>8. rows(a) = f2 ++ collect_ai(a) BY DEF rows, f1, f2
<1> QED BY <1>4, <1>7, <1>8, Together DEF Timing

\* What RowsOfTheirGate says of a run: key is its key, seen what it was made of and n
\* its gate.
OfItsGate(seen, key, n) ==
  /\ seen.log.gate = G(n) /\ seen.log.banners = AllBanners
  /\ "ci" \notin seen.tools => key[3] = seen.log
  /\ \A k \in DOMAIN rows(seen) :
       LET from == rows(seen)[k].from
       IN  from # NULL =>
             /\ from[1] \in {"gate", "alone", "several"} => from = G(n)
             /\ from[1] = "tree" => from = seen.log.tree /\ (seen.dirty \/ key[1] = CommitOf(from[2]))
             /\ from[1] = "commit" => from = key[1]
  /\ \A k \in {LineCoverage, FuncCoverage, ProofsPassing} : Has(rows(seen), k)
  /\ IF "time" \in seen.tools THEN Has(rows(seen), CoreSeconds) ELSE HasGap(rows(seen), GateWall)

\* A collection that read of one gate makes rows of that gate.
LEMMA MatchingRows ==
  ASSUME NEW seen, NEW key, NEW n, Matches(seen, key, n)
  PROVE  OfItsGate(seen, key, n)
<1> DEFINE O == {NULL, <<"host">>, <<"old">>, G(n), seen.tree, key[1]}
<1>1. /\ OfGate(seen, n) /\ Old(seen)
      /\ seen.rtl = seen.tree /\ seen.tree = Tree(seen.tree[2])
      /\ seen.head = key[1] /\ key[1] = CommitOf(key[1][2])
      /\ seen.dirty \/ key[1] = CommitOf(seen.tree[2])
      /\ "ci" \notin seen.tools => key[3] = seen.log
  BY DEF Matches
<1>2. G(n) # NULL BY DEF G, NULL
<1>3. /\ seen.log.gate = G(n) /\ seen.log.banners = AllBanners /\ seen.log.tree = seen.tree
      /\ seen.coverage = G(n) /\ seen.fcov = G(n)
      /\ \A t \in Tasks : seen.formal[t] = G(n)
  BY <1>1 DEF OfGate
<1>4. seen.time \in {NULL, G(n)} /\ (seen.time # NULL <=> "time" \in seen.tools)
  <2>1. seen.time = IF "time" \in seen.tools THEN G(n) ELSE NULL BY <1>1 DEF OfGate
  <2>2. CASE "time" \in seen.tools BY <1>2, <2>1, <2>2
  <2>3. CASE "time" \notin seen.tools BY <2>1, <2>3
  <2> QED BY <2>2, <2>3
<1>5. Origin(seen, O) BY <1>1, <1>3, <1>4 DEF Origin, Old, Olds
<1>6. "cocotb" \in AllBanners
  <2>1. 1 \in DOMAIN Stages /\ Stages[1] = "check" BY DEF Stages
  <2>2. "cocotb" \in Banners("check") BY DEF Banners
  <2> QED BY <2>1, <2>2 DEF AllBanners
<1>7. /\ seen.coverage # NULL /\ "cocotb" \in seen.log.banners
      /\ \A t \in Tasks : seen.formal[t] # NULL
  BY <1>2, <1>3, <1>6
<1>8. /\ FromOnly(rows(seen), O)
      /\ Has(rows(seen), LineCoverage) /\ Has(rows(seen), FuncCoverage)
      /\ Has(rows(seen), ProofsPassing) /\ Timing(seen, rows(seen))
  BY <1>5, <1>7, AllRows
<1>9. ASSUME NEW from \in O, from # NULL
      PROVE  /\ from[1] \in {"gate", "alone", "several"} => from = G(n)
             /\ from[1] = "tree" => from = seen.log.tree /\ (seen.dirty \/ key[1] = CommitOf(from[2]))
             /\ from[1] = "commit" => from = key[1]
  <2>1. <<"host">>[1] = "host" /\ <<"old">>[1] = "old" /\ G(n)[1] = "gate" BY DEF G
  <2>2. seen.tree[1] = "tree"
    <3>1. \A x : Tree(x)[1] = "tree" BY DEF Tree
    <3> QED BY <1>1, <3>1
  <2>3. key[1][1] = "commit"
    <3>1. \A x : CommitOf(x)[1] = "commit" BY DEF CommitOf
    <3> QED BY <1>1, <3>1
  <2>4. CASE from \in {<<"host">>, <<"old">>} BY <2>1, <2>4
  <2>5. CASE from = G(n) BY <2>1, <2>5
  <2>6. CASE from = seen.tree BY <1>1, <1>3, <2>2, <2>6
  <2>7. CASE from = key[1] BY <2>3, <2>7
  <2> QED BY <1>9, <2>4, <2>5, <2>6, <2>7
<1>10. \A k \in DOMAIN rows(seen) : rows(seen)[k].from \in O BY <1>8 DEF FromOnly
<1>11. IF "time" \in seen.tools THEN Has(rows(seen), CoreSeconds) ELSE HasGap(rows(seen), GateWall)
  BY <1>4, <1>8 DEF Timing
<1> HIDE DEF O
<1> QED BY <1>1, <1>3, <1>8, <1>9, <1>10, <1>11 DEF OfItsGate

\* The artifacts as read twice, and what git said.
LEMMA ReadTwice ==
  ASSUME NEW a, DOMAIN a = Artifacts, NEW dirty, NEW s, s = Early(a) ++ a ++ [dirty |-> dirty]
  PROVE  /\ s.log = a.log /\ s.time = a.time /\ s.result = a.result /\ s.rtl = a.tree
         /\ s.tree = a.tree /\ s.head = a.head /\ s.tools = a.tools /\ s.dirty = dirty
         /\ s.coverage = a.coverage /\ s.fcov = a.fcov /\ s.formal = a.formal
         /\ s.envtime = a.envtime /\ s.stream = a.stream
<1> DEFINE e == Early(a)
           g == e ++ a
           d == [dirty |-> dirty]
<1>1. /\ DOMAIN e = {"log", "time", "result", "rtl"}
      /\ e.log = a.log /\ e.time = a.time /\ e.result = a.result /\ e.rtl = a.tree
  BY DEF Early
<1>2. DOMAIN d = {"dirty"} /\ d.dirty = dirty OBVIOUS
<1> HIDE DEF e, d
<1>3. g = [k \in DOMAIN e \cup DOMAIN a |-> IF k \in DOMAIN e THEN e[k] ELSE a[k]] BY DEF ++
<1>4. s = [k \in DOMAIN g \cup DOMAIN d |-> IF k \in DOMAIN g THEN g[k] ELSE d[k]] BY DEF ++, e, d
<1> HIDE DEF g
<1>5. DOMAIN g = Artifacts \cup {"rtl"} BY <1>1, <1>3 DEF Artifacts
<1>6. /\ g.log = a.log /\ g.time = a.time /\ g.result = a.result /\ g.rtl = a.tree
      /\ g.tree = a.tree /\ g.head = a.head /\ g.tools = a.tools
      /\ g.coverage = a.coverage /\ g.fcov = a.fcov /\ g.formal = a.formal
      /\ g.envtime = a.envtime /\ g.stream = a.stream
  BY <1>1, <1>3 DEF Artifacts
<1>7. \A k \in DOMAIN g : s[k] = g[k] BY <1>4
<1>8. s.dirty = dirty BY <1>2, <1>4, <1>5 DEF Artifacts
<1> QED BY <1>5, <1>6, <1>7, <1>8 DEF Artifacts

\* At first there is nothing, or all of gate 1.
LEMMA OriginsInit == Init => Origins
<1> SUFFICES ASSUME Init PROVE Origins OBVIOUS
<1>1. PICK g \in {NULL, G(1)}, tools \in Tools :
        /\ art = [tree |-> Tree(1), head |-> CommitOf(0),
                  log |-> [gate |-> g, banners |-> IF g = NULL THEN {} ELSE AllBanners, tree |-> Tree(1)],
                  time |-> g, coverage |-> g, fcov |-> g, formal |-> [t \in Tasks |-> g],
                  envtime |-> [e \in Envs |-> IF g = NULL THEN NULL ELSE <<"old">>],
                  result |-> IF g = NULL THEN NULL ELSE <<"old">>,
                  stream |-> IF g = NULL THEN NULL ELSE <<"old">>, tools |-> tools]
        /\ done = IF g = NULL \/ "time" \notin tools THEN 0 ELSE 1
  BY DEF Init
<1>2. G(1) # NULL BY DEF G, NULL
<1>3. Shelf
  <2>1. DOMAIN art = Artifacts
    BY <1>1 DEF Artifacts
  <2>2. art.log = [gate |-> art.log.gate, banners |-> art.log.banners, tree |-> art.log.tree]
    BY <1>1
  <2>3. art.tree = Tree(art.tree[2]) /\ art.head = CommitOf(art.head[2])
    BY <1>1 DEF Tree, CommitOf
  <2>4. Old(art) BY <1>1 DEF Old, Olds
  <2> QED BY <2>1, <2>2, <2>3, <2>4 DEF Shelf
<1>4. Progress
  <2>1. gate = [n |-> 1, todo |-> <<>>, ran |-> FALSE] BY DEF Init
  <2>2. done # 0 => OfGate(art, done)
    <3> SUFFICES ASSUME done # 0 PROVE OfGate(art, done) OBVIOUS
    <3>1. g = G(1) /\ "time" \in tools /\ done = 1 BY <1>1
    <3>2. /\ art.log = [gate |-> G(1), banners |-> AllBanners, tree |-> Tree(1)] /\ art.tree = Tree(1)
          /\ art.tools = tools /\ art.time = G(1) /\ art.coverage = G(1) /\ art.fcov = G(1)
          /\ art.formal = [t \in Tasks |-> G(1)]
      BY <1>1, <1>2, <3>1
    <3> QED BY <3>1, <3>2 DEF OfGate
  <2>3. DOMAIN gate = {"n", "todo", "ran"} /\ gate.todo = <<>> /\ gate.ran = FALSE BY <2>1
  <2> QED BY <2>2, <2>3 DEF Progress
<1>5. \A c \in Collector : Reading(c) BY DEF Init, Idle, Reading
<1>6. RowsMatch BY DEF Init, RowsMatch
<1> QED BY <1>3, <1>4, <1>5, <1>6 DEF Origins

Four == <<"collect", "select", "begin", "commit">>

\* One collector is given a record that is of one gate or of none.
LEMMA ReaderStep ==
  ASSUME Inv, Origins, NEW c \in Collector, NEW r, Upd(c, r), DOMAIN r = Fields, r.todo \in Todos,
         art' = art, gate' = gate, done' = done,
         r.of # 0 =>
           /\ r.of = done
           /\ r.todo = Four => r.seen = Early(art)
           /\ r.todo # Four => Matches(r.seen, r.key, r.of)
  PROVE  Shelf' /\ Progress' /\ \A d \in Collector : Reading(d)'
<1>1. Shelf' BY DEF Origins, Shelf, Old
<1>2. Progress' BY DEF Origins, Progress, OfGate
<1>3. col'[c] = r /\ \A d \in Collector : d # c => col'[d] = col[d] BY CollectorStep
<1>4. ASSUME NEW d \in Collector PROVE Reading(d)'
  <2>1. CASE d = c BY <1>3, <2>1 DEF Reading, Four
  <2>2. CASE d # c
    <3>1. Reading(d) /\ col'[d] = col[d] BY <1>3, <2>2 DEF Origins
    <3> QED BY <3>1 DEF Reading
  <2> QED BY <2>1, <2>2
<1> QED BY <1>1, <1>2, <1>4

LEMMA CollectorOrigins ==
  ASSUME Inv, Origins, NEW c \in Collector,
         ReadCapture(c) \/ Collect(c) \/ Select(c) \/ Begin(c) \/ Commit(c) \/ Die(c)
  PROVE  Origins'
<1> DEFINE t == col[c].todo
<1>1. t \in Todos /\ DOMAIN col[c] = Fields BY DEF Inv, Shapes
<1>2. art' = art /\ gate' = gate /\ done' = done
  BY DEF ReadCapture, Collect, Select, Begin, Commit, Die
<1>3. Idle.of = 0 /\ Idle.todo \in Todos /\ DOMAIN Idle = Fields BY DEF Idle, Todos, Fields
<1>4. CASE ~Commit(c)
  <2>1. db' = db BY <1>4 DEF ReadCapture, Collect, Select, Begin, seen_by_others, Die
  <2>2. RowsMatch' BY <2>1 DEF Origins, RowsMatch
  <2>3. CASE ReadCapture(c)
    <3> DEFINE r == [Idle EXCEPT !.todo = Steps, !.of = done,
                       !.seen = [log |-> art.log, time |-> art.time, result |-> art.result, rtl |-> art.tree]]
    <3>1. Upd(c, r) BY <2>3 DEF ReadCapture
    <3>2. /\ DOMAIN r = Fields /\ r.todo = Four /\ r.of = done
          /\ r.seen = Early(art)
      BY DEF Idle, Steps, Fields, Four, Early
    <3> HIDE DEF r
    <3>3. r.todo \in Todos BY <3>2 DEF Todos, Four
    <3> QED BY <1>2, <2>2, <3>1, <3>2, <3>3, ReaderStep DEF Origins
  <2>4. CASE Collect(c)
    <3>6. PICK dirty \in git_dirty :
            Upd(c, [On(c) EXCEPT !.seen = @ ++ art ++ [dirty |-> dirty], !.key = run_key(col[c].seen.result)])
      BY <2>4 DEF Collect
    <3> DEFINE s == col[c].seen ++ art ++ [dirty |-> dirty]
               key == run_key(col[c].seen.result)
               r == [On(c) EXCEPT !.seen = @ ++ art ++ [dirty |-> dirty], !.key = key]
    <3>1. Upd(c, r) /\ t # <<>> /\ Head(t) = "collect" BY <2>4, <3>6 DEF Collect, At
    <3>2. DOMAIN r = Fields /\ r.todo = Tail(t) /\ r.of = col[c].of /\ r.seen = s /\ r.key = key
      BY <1>1 DEF On, Fields
    <3> HIDE DEF r
    <3>3. r.todo \in Todos /\ r.todo # Four BY <1>1, <3>1, <3>2, HeadsOfTodos DEF Four
    <3>4. t = Four
      <4>1. t # <<"select", "begin", "commit">> /\ t # <<"begin", "commit">> /\ t # <<"commit">>
        BY <3>1
      <4> QED BY <1>1, <3>1, <4>1 DEF Todos, Four
    <3>5. ASSUME r.of # 0 PROVE r.of = done /\ Matches(r.seen, r.key, r.of)
      <4>1. Reading(c) /\ Shelf /\ Progress BY DEF Origins
      <4>2. r.of = done BY <3>2, <3>5, <4>1 DEF Reading
      <4>3. OfGate(art, done) BY <3>5, <4>1, <4>2 DEF Progress
      <4>4. s = Early(art) ++ art ++ [dirty |-> dirty]
        BY <3>2, <3>4, <3>5, <4>1 DEF Reading, Four
      <4>5. DOMAIN art = Artifacts /\ Old(art) /\ art.tree = Tree(art.tree[2]) /\ art.head = CommitOf(art.head[2])
        BY <4>1 DEF Shelf
      <4> HIDE DEF s
      <4>6. /\ s.log = art.log /\ s.time = art.time /\ s.result = art.result /\ s.rtl = art.tree
            /\ s.tree = art.tree /\ s.head = art.head /\ s.tools = art.tools /\ s.dirty = dirty
            /\ s.coverage = art.coverage /\ s.fcov = art.fcov /\ s.formal = art.formal
            /\ s.envtime = art.envtime /\ s.stream = art.stream
        BY <4>4, <4>5, ReadTwice
      <4>7. OfGate(s, done) /\ Old(s) BY <4>3, <4>5, <4>6 DEF OfGate, Old
      <4>8. key[1] = art.head /\ ("ci" \notin art.tools => key[3] = art.log)
        <5>1. key[1] = art.head /\ key[3] = token BY DEF run_key
        <5>2. "ci" \notin art.tools => token = art.log BY DEF token
        <5> QED BY <5>1, <5>2
      <4>9. dirty \/ art.head = CommitOf(art.tree[2])
        <5>1. dirty \in {art.tree[2] # art.head[2], TRUE} BY <3>6 DEF git_dirty
        <5> QED BY <4>5, <5>1
      <4> HIDE DEF key
      <4> QED BY <3>2, <4>2, <4>5, <4>6, <4>7, <4>8, <4>9 DEF Matches
    <3> QED BY <1>2, <2>2, <3>1, <3>2, <3>3, <3>5, ReaderStep DEF Origins
  <2>5. CASE Select(c) \/ (Begin(c) /\ ~Upd(c, Idle))
    <3>1. PICK r : /\ Upd(c, r) /\ DOMAIN r = Fields /\ r.todo = Tail(t)
                   /\ r.of = col[c].of /\ r.seen = col[c].seen /\ r.key = col[c].key
      <4>1. CASE Select(c)
        <5> DEFINE hit == IF Found(col[c].key) = {} THEN 0 ELSE CHOOSE i \in Found(col[c].key) : TRUE
                   r == [On(c) EXCEPT !.hit = hit]
        <5>1. Upd(c, r) BY <4>1 DEF Select
        <5> HIDE DEF hit
        <5>2. /\ DOMAIN r = Fields /\ r.todo = Tail(t)
              /\ r.of = col[c].of /\ r.seen = col[c].seen /\ r.key = col[c].key
          BY <1>1 DEF On, Fields
        <5> QED BY <5>1, <5>2
      <4>2. CASE Begin(c) /\ ~Upd(c, Idle)
        <5> DEFINE r == On(c)
        <5>1. Upd(c, r) BY <4>2 DEF Begin
        <5>2. /\ DOMAIN r = Fields /\ r.todo = Tail(t)
              /\ r.of = col[c].of /\ r.seen = col[c].seen /\ r.key = col[c].key
          BY <1>1 DEF On, Fields
        <5> QED BY <5>1, <5>2
      <4> QED BY <2>5, <4>1, <4>2
    <3>2. t # <<>> /\ (Head(t) = "select" \/ Head(t) = "begin") BY <2>5 DEF Select, Begin, At
    <3>3. r.todo \in Todos /\ r.todo # Four /\ t # Four
      <4>1. Head(Four) = "collect" BY DEF Four
      <4>2. Tail(t) \in Todos /\ (Tail(t) = <<"begin", "commit">> \/ Tail(t) = <<"commit">>)
        BY <1>1, <3>2, HeadsOfTodos
      <4> QED BY <3>1, <3>2, <4>1, <4>2 DEF Four
    <3>4. Reading(c) BY DEF Origins
    <3>5. r.of # 0 => r.of = done /\ Matches(r.seen, r.key, r.of) BY <3>1, <3>3, <3>4 DEF Reading, Four
    <3> QED BY <1>2, <2>2, <3>1, <3>3, <3>5, ReaderStep DEF Origins
  <2>6. CASE Upd(c, Idle) BY <1>2, <1>3, <2>2, <2>6, ReaderStep DEF Origins
  <2>7. Die(c) => Upd(c, Idle) BY DEF Die
  <2> QED BY <1>4, <2>3, <2>4, <2>5, <2>6, <2>7
<1>5. CASE Commit(c)
  <2>1. Upd(c, Idle) BY <1>5 DEF Commit
  <2>2. Shelf' /\ Progress' /\ \A d \in Collector : Reading(d)' BY <1>2, <1>3, <2>1, ReaderStep
  <2>3. /\ col[c].todo = <<"commit">> /\ Run(c).key = col[c].key
        /\ \E j \in DOMAIN db' : /\ db'[j] = Run(c)
                                 /\ \A i \in DOMAIN db' : i # j => i \in DOMAIN db /\ db'[i] = db[i]
    BY <1>5, CommitWrites
  <2>4. PICK j \in DOMAIN db' : /\ db'[j] = Run(c)
                                /\ \A i \in DOMAIN db' : i # j => i \in DOMAIN db /\ db'[i] = db[i]
    BY <2>3
  <2>5. Run(c).of = col[c].of /\ Run(c).seen = col[c].seen BY DEF Run
  <2>6. col[c].of # 0 => Matches(col[c].seen, col[c].key, col[c].of)
    <3>1. Reading(c) BY DEF Origins
    <3>2. col[c].todo # <<"collect", "select", "begin", "commit">> BY <2>3
    <3> QED BY <3>1, <3>2 DEF Reading
  <2>7. RowsMatch
    BY DEF Origins
  <2>8. RowsMatch' BY <2>3, <2>4, <2>5, <2>6, <2>7 DEF RowsMatch
  <2> QED BY <2>2, <2>8 DEF Origins
<1> QED BY <1>4, <1>5

\* The banners of a whole gate.
LEMMA BannersOfAll == AllBanners = Banners("check") \cup Banners("coverage") \cup Banners("formal")
<1>1. /\ DOMAIN Stages = {1, 2, 3}
      /\ Stages[1] = "check" /\ Stages[2] = "coverage" /\ Stages[3] = "formal"
  BY DEF Stages
<1> QED BY <1>1 DEF AllBanners

\* The stages left, one less.
LEMMA StageLeft ==
  ASSUME Progress, gate.todo \notin {<<>>, <<"end">>}
  PROVE  LET left == IF Len(gate.todo) = 1 THEN <<"end">> ELSE Tail(gate.todo)
         IN  \/ /\ gate.todo = <<"check", "coverage", "formal">> /\ Head(gate.todo) = "check"
                /\ left = <<"coverage", "formal">>
             \/ gate.todo = <<"coverage", "formal">> /\ Head(gate.todo) = "coverage" /\ left = <<"formal">>
             \/ gate.todo = <<"formal">> /\ Head(gate.todo) = "formal" /\ left = <<"end">>
<1>1. CASE gate.todo = <<"check", "coverage", "formal">> BY <1>1
<1>2. CASE gate.todo = <<"coverage", "formal">> BY <1>2
<1>3. CASE gate.todo = <<"formal">> BY <1>3
<1> QED BY <1>1, <1>2, <1>3 DEF Progress

\* While a gate runs, nobody reads of one that is done.
LEMMA NobodyReads ==
  ASSUME Origins, gate.todo # <<>>, col' = col
  PROVE  \A c \in Collector : Reading(c)'
<1>1. done = 0 BY DEF Origins, Progress
<1> QED BY <1>1 DEF Origins, Reading

\* What a target leaves, and what it leaves alone.
LEMMA LeftIs ==
  ASSUME NEW a, DOMAIN a = Artifacts, NEW s \in {"check", "coverage", "formal"}, NEW tasks, NEW from,
         NEW b, b = Left(a, s, tasks, from)
  PROVE  /\ DOMAIN b = Artifacts
         /\ \A f \in Artifacts \ {"fcov", "coverage", "formal"} : b[f] = a[f]
         /\ b.fcov = IF s = "check" THEN from ELSE a.fcov
         /\ b.coverage = IF s = "coverage" THEN from ELSE a.coverage
         /\ b.formal = IF s = "formal" THEN [t \in Tasks |-> IF t \in tasks THEN from ELSE a.formal[t]]
                       ELSE a.formal
<1>1. CASE s = "check"
  <2>1. b = [a EXCEPT !.fcov = from] BY <1>1 DEF Left
  <2> QED BY <1>1, <2>1 DEF Artifacts
<1>2. CASE s = "coverage"
  <2>1. b = [a EXCEPT !.coverage = from] BY <1>2 DEF Left
  <2> QED BY <1>2, <2>1 DEF Artifacts
<1>3. CASE s = "formal"
  <2> DEFINE formal == [t \in Tasks |-> IF t \in tasks THEN from ELSE a.formal[t]]
  <2>1. b = [a EXCEPT !.formal = formal] BY <1>3 DEF Left
  <2> HIDE DEF formal
  <2>2. /\ DOMAIN b = Artifacts /\ b.formal = formal
        /\ \A f \in Artifacts \ {"formal"} : b[f] = a[f]
    BY <2>1 DEF Artifacts
  <2> QED BY <1>3, <2>2 DEF Artifacts, formal
<1> QED BY <1>1, <1>2, <1>3

LEMMA StageOrigins ==
  ASSUME Origins, Stage
  PROVE  Shelf' /\ Progress'
<1> DEFINE s == Head(gate.todo)
           banners == art.log.banners \cup Banners(s)
           left == IF Len(gate.todo) = 1 THEN <<"end">> ELSE Tail(gate.todo)
<1>1. Shelf /\ Progress BY DEF Origins
<1>2. gate.todo \notin {<<>>, <<"end">>} BY DEF Stage
<1>3. gate' = [gate EXCEPT !.todo = left] BY DEF Stage
<1>4. DOMAIN gate' = {"n", "todo", "ran"} /\ gate'.todo = left /\ gate'.n = gate.n /\ gate'.ran = gate.ran
  BY <1>1, <1>3 DEF Progress
<1>5. done = 0 /\ done' = 0 /\ art.log.gate = G(gate.n) BY <1>1, <1>2 DEF Progress, Stage
<1>6. \/ /\ gate.todo = <<"check", "coverage", "formal">> /\ s = "check" /\ left = <<"coverage", "formal">>
      \/ gate.todo = <<"coverage", "formal">> /\ s = "coverage" /\ left = <<"formal">>
      \/ gate.todo = <<"formal">> /\ s = "formal" /\ left = <<"end">>
  BY <1>1, <1>2, StageLeft
<1> DEFINE logged == [art EXCEPT !.log.banners = @ \cup Banners(s)]
<1>7. art' = Left(logged, s, Tasks, G(gate.n)) BY DEF Stage
<1>8. /\ DOMAIN logged = Artifacts
      /\ logged.log = [gate |-> logged.log.gate, banners |-> logged.log.banners, tree |-> logged.log.tree]
      /\ logged.log.gate = art.log.gate /\ logged.log.banners = banners /\ logged.log.tree = art.log.tree
      /\ \A f \in Artifacts \ {"log"} : logged[f] = art[f]
  BY <1>1 DEF Shelf, Artifacts
<1> HIDE DEF s, left, banners
<1>9. /\ DOMAIN art' = Artifacts
      /\ \A f \in Artifacts \ {"log", "fcov", "coverage", "formal"} : art'[f] = art[f]
      /\ art'.log = logged.log
      /\ art'.fcov = IF s = "check" THEN G(gate.n) ELSE art.fcov
      /\ art'.coverage = IF s = "coverage" THEN G(gate.n) ELSE art.coverage
      /\ art'.formal = IF s = "formal" THEN [t \in Tasks |-> G(gate.n)] ELSE art.formal
  <2> HIDE DEF logged
  <2>1. s \in {"check", "coverage", "formal"} BY <1>6
  <2>2. /\ DOMAIN art' = Artifacts
        /\ \A f \in Artifacts \ {"fcov", "coverage", "formal"} : art'[f] = logged[f]
        /\ art'.fcov = IF s = "check" THEN G(gate.n) ELSE logged.fcov
        /\ art'.coverage = IF s = "coverage" THEN G(gate.n) ELSE logged.coverage
        /\ art'.formal = IF s = "formal" THEN [t \in Tasks |-> IF t \in Tasks THEN G(gate.n) ELSE logged.formal[t]]
                         ELSE logged.formal
    BY <1>7, <1>8, <2>1, LeftIs
  <2>3. [t \in Tasks |-> IF t \in Tasks THEN G(gate.n) ELSE logged.formal[t]] = [t \in Tasks |-> G(gate.n)]
    OBVIOUS
  <2>4. logged.fcov = art.fcov /\ logged.coverage = art.coverage /\ logged.formal = art.formal
    BY <1>8 DEF Artifacts
  <2>5. art'.log = logged.log BY <2>2 DEF Artifacts
  <2> QED BY <1>8, <2>2, <2>3, <2>4, <2>5
<1> HIDE DEF logged
<1>10. Shelf'
  <2>1. /\ art'.tree = art.tree /\ art'.head = art.head
        /\ art'.result = art.result /\ art'.stream = art.stream /\ art'.envtime = art.envtime
    BY <1>9 DEF Artifacts
  <2>2. /\ DOMAIN art' = Artifacts
        /\ art'.log = [gate |-> art'.log.gate, banners |-> art'.log.banners, tree |-> art'.log.tree]
    BY <1>8, <1>9
  <2> QED BY <1>1, <2>1, <2>2 DEF Shelf, Old
<1>11. /\ art'.log.gate = G(gate.n) /\ art'.log.banners = banners
       /\ art'.time = NULL /\ (gate.ran => art'.log.tree = art'.tree)
  <2>1. art'.time = art.time /\ art'.tree = art.tree BY <1>9 DEF Artifacts
  <2>2. art.time = NULL /\ (gate.ran => art.log.tree = art.tree) BY <1>1, <1>2 DEF Progress
  <2> QED BY <1>5, <1>8, <1>9, <2>1, <2>2
<1>12. Progress'
  <2>1. CASE s = "check"
    <3>1. gate.todo = <<"check", "coverage", "formal">> /\ left = <<"coverage", "formal">> BY <1>6, <2>1
    <3>2. gate.ran => banners = Banners("check") BY <1>1, <2>1, <3>1 DEF Progress, banners
    <3>3. art'.fcov = G(gate.n) BY <1>9, <2>1
    <3> QED BY <1>4, <1>5, <1>11, <3>1, <3>2, <3>3 DEF Progress
  <2>2. CASE s = "coverage"
    <3>1. gate.todo = <<"coverage", "formal">> /\ left = <<"formal">> BY <1>6, <2>2
    <3>2. gate.ran => banners = Banners("check") \cup Banners("coverage") /\ art.fcov = G(gate.n)
      BY <1>1, <2>2, <3>1 DEF Progress, banners
    <3>3. art'.coverage = G(gate.n) /\ art'.fcov = art.fcov BY <1>9, <2>2
    <3> QED BY <1>4, <1>5, <1>11, <3>1, <3>2, <3>3 DEF Progress
  <2>3. CASE s = "formal"
    <3>1. gate.todo = <<"formal">> /\ left = <<"end">> BY <1>6, <2>3
    <3>2. gate.ran => banners = AllBanners /\ art.fcov = G(gate.n) /\ art.coverage = G(gate.n)
      BY <1>1, <2>3, <3>1, BannersOfAll DEF Progress, banners
    <3>3. /\ art'.formal = [t \in Tasks |-> G(gate.n)]
          /\ art'.fcov = art.fcov /\ art'.coverage = art.coverage
      BY <1>9, <2>3
    <3> QED BY <1>4, <1>5, <1>11, <3>1, <3>2, <3>3 DEF Progress
  <2> QED BY <1>6, <2>1, <2>2, <2>3
<1> QED BY <1>10, <1>12

\* Whoever was reading is disturbed.
LEMMA Disturbed ==
  ASSUME Inv, Disturb
  PROVE  \A c \in Collector : Reading(c)'
<1>1. \A c \in Collector : DOMAIN col[c] = Fields BY DEF Inv, Shapes
<1>2. \A c \in Collector : col'[c].of = 0 BY <1>1 DEF Disturb, Fields
<1> QED BY <1>2 DEF Reading

\* Where the gate is in its stages, when it has left nothing it could be held to.
LEMMA ProgressSpoilt ==
  ASSUME Progress, gate' = [gate EXCEPT !.ran = FALSE], done' = 0,
         art'.log = art.log, art'.time = art.time
  PROVE  Progress'
<1>1. DOMAIN gate' = {"n", "todo", "ran"} /\ gate'.todo = gate.todo /\ gate'.n = gate.n /\ gate'.ran = FALSE
  BY DEF Progress
<1> QED BY <1>1 DEF Progress

LEMMA GateOrigins ==
  ASSUME Inv, Origins, StartGate \/ Stage \/ SkipStage \/ EndGate \/ KillGate
  PROVE  Origins'
<1>1. Shelf /\ Progress /\ RowsMatch BY DEF Origins
<1>2. db' = db BY DEF StartGate, Stage, SkipStage, EndGate, KillGate
<1>3. RowsMatch' BY <1>1, <1>2 DEF RowsMatch
<1>4. CASE StartGate
  <2>1. /\ gate' = [n |-> gate.n + 1, todo |-> <<"check", "coverage", "formal">>, ran |-> TRUE]
        /\ done' = 0 /\ Disturb
    BY <1>4 DEF StartGate, Stages
  <2> DEFINE log == [gate |-> G(gate.n + 1), banners |-> {}, tree |-> art.tree]
  <2>2. art' = [[art EXCEPT !.log = log] EXCEPT !.time = NULL]
    BY <1>4 DEF StartGate, fresh_report
  <2>3. log = [gate |-> log.gate, banners |-> log.banners, tree |-> log.tree]
        /\ log.gate = G(gate.n + 1) /\ log.banners = {} /\ log.tree = art.tree
    OBVIOUS
  <2> HIDE DEF log
  <2>4. /\ DOMAIN art' = Artifacts /\ art'.log = log /\ art'.time = NULL
        /\ art'.tree = art.tree /\ art'.head = art.head /\ art'.result = art.result
        /\ art'.stream = art.stream /\ art'.envtime = art.envtime
    BY <1>1, <2>2 DEF Shelf, Artifacts
  <2>5. Shelf' BY <1>1, <2>3, <2>4 DEF Shelf, Old
  <2>6. Progress' BY <2>1, <2>3, <2>4 DEF Progress
  <2> QED BY <1>3, <2>1, <2>5, <2>6, Disturbed DEF Origins
<1>5. CASE Stage
  <2>1. gate.todo # <<>> /\ col' = col BY <1>5 DEF Stage
  <2> QED BY <1>3, <1>5, <2>1, NobodyReads, StageOrigins DEF Origins
<1>6. CASE SkipStage
  <2> DEFINE left == IF Len(gate.todo) = 1 THEN <<"end">> ELSE Tail(gate.todo)
  <2>1. /\ gate.todo # <<>> /\ Head(gate.todo) \in {"coverage", "formal"}
        /\ col' = col /\ art' = art /\ done' = done
        /\ gate' = [[gate EXCEPT !.todo = left] EXCEPT !.ran = FALSE]
    BY <1>6 DEF SkipStage
  <2>2. gate.todo # <<"end">> BY <2>1
  <2>3. \/ left = <<"coverage", "formal">> \/ left = <<"formal">> \/ left = <<"end">>
    BY <1>1, <2>1, <2>2, StageLeft
  <2> HIDE DEF left
  <2>4. DOMAIN gate' = {"n", "todo", "ran"} /\ gate'.todo = left /\ gate'.n = gate.n /\ gate'.ran = FALSE
    BY <1>1, <2>1 DEF Progress
  <2>5. done = 0 /\ art.log.gate = G(gate.n) /\ art.time = NULL BY <1>1, <2>1 DEF Progress
  <2>6. Shelf' BY <1>1, <2>1 DEF Shelf, Old
  <2>7. Progress' BY <2>1, <2>3, <2>4, <2>5 DEF Progress
  <2> QED BY <1>3, <2>1, <2>6, <2>7, NobodyReads DEF Origins
<1>7. CASE EndGate
  <2> DEFINE time == IF "time" \in art.tools THEN G(gate.n) ELSE art.time
  <2>1. /\ gate.todo # <<>> /\ gate' = [gate EXCEPT !.todo = <<>>] /\ col' = col
        /\ art' = [art EXCEPT !.time = time]
        /\ done' = IF gate.todo = <<"end">> /\ gate.ran THEN gate.n ELSE 0
    BY <1>7 DEF EndGate
  <2>2. DOMAIN gate' = {"n", "todo", "ran"} /\ gate'.todo = <<>>
    BY <1>1, <2>1 DEF Progress
  <2>3. time = IF "time" \in art.tools THEN G(gate.n) ELSE NULL
    BY <1>1, <2>1 DEF Progress
  <2> HIDE DEF time
  <2>4. /\ DOMAIN art' = Artifacts /\ art'.time = time
        /\ \A f \in Artifacts \ {"time"} : art'[f] = art[f]
    BY <1>1, <2>1 DEF Shelf, Artifacts
  <2>5. /\ art'.log = art.log /\ art'.tree = art.tree /\ art'.head = art.head /\ art'.tools = art.tools
        /\ art'.result = art.result /\ art'.stream = art.stream /\ art'.envtime = art.envtime
        /\ art'.coverage = art.coverage /\ art'.fcov = art.fcov /\ art'.formal = art.formal
    BY <2>4 DEF Artifacts
  <2>6. Shelf' BY <1>1, <2>4, <2>5 DEF Shelf, Old
  <2>7. ASSUME done' # 0 PROVE OfGate(art', done')
    <3>1. done' = gate.n /\ gate.todo = <<"end">> /\ gate.ran BY <2>1, <2>7
    <3>2. /\ art.log.gate = G(gate.n) /\ art.log.banners = AllBanners /\ art.log.tree = art.tree
          /\ art.fcov = G(gate.n) /\ art.coverage = G(gate.n) /\ art.formal = [t \in Tasks |-> G(gate.n)]
      BY <1>1, <3>1 DEF Progress
    <3>3. art.log = [gate |-> G(gate.n), banners |-> AllBanners, tree |-> art.tree]
      <4>1. art.log = [gate |-> art.log.gate, banners |-> art.log.banners, tree |-> art.log.tree]
        BY <1>1 DEF Shelf
      <4> QED BY <3>2, <4>1
    <3> QED BY <2>3, <2>4, <2>5, <3>1, <3>2, <3>3 DEF OfGate
  <2>8. Progress' BY <2>2, <2>7 DEF Progress
  <2> QED BY <1>3, <2>1, <2>6, <2>8, NobodyReads DEF Origins
<1>8. CASE KillGate
  <2>1. gate.todo # <<>> /\ gate' = [gate EXCEPT !.todo = <<>>] /\ col' = col /\ art' = art /\ done' = done
    BY <1>8 DEF KillGate
  <2>2. DOMAIN gate' = {"n", "todo", "ran"} /\ gate'.todo = <<>> BY <1>1, <2>1 DEF Progress
  <2>3. done = 0 BY <1>1, <2>1 DEF Progress
  <2>4. Shelf' BY <1>1, <2>1 DEF Shelf, Old
  <2>5. Progress' BY <2>1, <2>2, <2>3 DEF Progress
  <2> QED BY <1>3, <2>1, <2>4, <2>5, NobodyReads DEF Origins
<1> QED BY <1>4, <1>5, <1>6, <1>7, <1>8

\* What others do in the tree: a commit moves HEAD only, and so what is of a gate and of
\* the tree stays so.
LEMMA OthersOrigins ==
  ASSUME Inv, Origins, RunAlone \/ Edit \/ NewCommit
  PROVE  Origins'
<1>1. Shelf /\ Progress /\ RowsMatch BY DEF Origins
<1>2. db' = db /\ Disturb BY DEF RunAlone, Edit, NewCommit, Meddle
<1>3. RowsMatch' BY <1>1, <1>2 DEF RowsMatch
<1>4. CASE RunAlone
  <2>1. PICK s \in Range(Stages), tasks \in SUBSET Tasks : art' = Left(art, s, tasks, <<"alone">>)
    BY <1>4 DEF RunAlone
  <2>2. s \in {"check", "coverage", "formal"}
    <3>1. PICK i \in DOMAIN Stages : s = Stages[i] BY DEF Range
    <3>2. DOMAIN Stages = {1, 2, 3} /\ Stages[1] = "check" /\ Stages[2] = "coverage" /\ Stages[3] = "formal"
      BY DEF Stages
    <3> QED BY <3>1, <3>2
  <2>3. DOMAIN art' = Artifacts /\ \A f \in Artifacts \ {"fcov", "coverage", "formal"} : art'[f] = art[f]
    <3>1. DOMAIN art = Artifacts BY <1>1 DEF Shelf
    <3> DEFINE b == art'
    <3>2. b = Left(art, s, tasks, <<"alone">>) BY <2>1
    <3> HIDE DEF b
    <3>3. /\ DOMAIN b = Artifacts
          /\ \A f \in Artifacts \ {"fcov", "coverage", "formal"} : b[f] = art[f]
          /\ b.fcov = IF s = "check" THEN <<"alone">> ELSE art.fcov
          /\ b.coverage = IF s = "coverage" THEN <<"alone">> ELSE art.coverage
          /\ b.formal = IF s = "formal"
                         THEN [t \in Tasks |-> IF t \in tasks THEN <<"alone">> ELSE art.formal[t]]
                         ELSE art.formal
      BY <3>1, <3>2, <2>2, LeftIs
    <3> QED BY <3>3 DEF b
  <2>4. /\ art'.log = art.log /\ art'.time = art.time /\ art'.tree = art.tree /\ art'.head = art.head
        /\ art'.result = art.result /\ art'.stream = art.stream /\ art'.envtime = art.envtime
    BY <2>3 DEF Artifacts
  <2>5. Shelf' BY <1>1, <2>3, <2>4 DEF Shelf, Old
  <2>6. Progress' BY <1>1, <1>4, <2>4, ProgressSpoilt DEF RunAlone, Meddle
  <2> QED BY <1>2, <1>3, <2>5, <2>6, Disturbed DEF Origins
<1>5. CASE Edit
  <2> DEFINE tree == Tree(art.tree[2] + 1)
  <2>1. art' = [art EXCEPT !.tree = tree] BY <1>5 DEF Edit
  <2>2. tree = Tree(tree[2]) BY DEF Tree
  <2> HIDE DEF tree
  <2>3. /\ DOMAIN art' = Artifacts /\ art'.tree = tree
        /\ art'.log = art.log /\ art'.time = art.time /\ art'.head = art.head
        /\ art'.result = art.result /\ art'.stream = art.stream /\ art'.envtime = art.envtime
    BY <1>1, <2>1 DEF Shelf, Artifacts
  <2>4. Shelf' BY <1>1, <2>2, <2>3 DEF Shelf, Old
  <2>5. Progress' BY <1>1, <1>5, <2>3, ProgressSpoilt DEF Edit, Meddle
  <2> QED BY <1>2, <1>3, <2>4, <2>5, Disturbed DEF Origins
<1>6. CASE NewCommit
  <2> DEFINE head == CommitOf(art.tree[2])
  <2>1. art' = [art EXCEPT !.head = head] /\ gate' = gate /\ done' = done BY <1>6 DEF NewCommit
  <2>2. head = CommitOf(head[2]) BY DEF CommitOf
  <2> HIDE DEF head
  <2>3. /\ DOMAIN art' = Artifacts /\ art'.head = head
        /\ art'.log = art.log /\ art'.time = art.time /\ art'.tree = art.tree /\ art'.tools = art.tools
        /\ art'.result = art.result /\ art'.stream = art.stream /\ art'.envtime = art.envtime
        /\ art'.coverage = art.coverage /\ art'.fcov = art.fcov /\ art'.formal = art.formal
    BY <1>1, <2>1 DEF Shelf, Artifacts
  <2>4. Shelf' BY <1>1, <2>2, <2>3 DEF Shelf, Old
  <2>5. done' # 0 => OfGate(art', done') BY <1>1, <2>1, <2>3 DEF Progress, OfGate
  <2>6. Progress' BY <1>1, <2>1, <2>3, <2>5 DEF Progress
  <2> QED BY <1>2, <1>3, <2>4, <2>6, Disturbed DEF Origins
<1> QED BY <1>4, <1>5, <1>6

LEMMA StepKeepsOrigins == Inv /\ Origins /\ [Next]_vars => Origins'
<1> SUFFICES ASSUME Inv, Origins, [Next]_vars PROVE Origins' OBVIOUS
<1>1. CASE StartGate \/ Stage \/ SkipStage \/ EndGate \/ KillGate BY <1>1, GateOrigins
<1>4. CASE RunAlone \/ Edit \/ NewCommit BY <1>4, OthersOrigins
<1>2. ASSUME NEW c \in Collector,
             ReadCapture(c) \/ Collect(c) \/ Select(c) \/ Begin(c) \/ Commit(c) \/ Die(c)
      PROVE  Origins'
  BY <1>2, CollectorOrigins
<1>3. CASE StartPage \/ load \/ UNCHANGED vars
  <2>1. art' = art /\ gate' = gate /\ done' = done /\ col' = col /\ db' = db
    BY <1>3 DEF StartPage, load, vars
  <2>2. Shelf' BY <2>1 DEF Origins, Shelf, Old
  <2>3. Progress' BY <2>1 DEF Origins, Progress, OfGate
  <2>4. \A c \in Collector : Reading(c)' BY <2>1 DEF Origins, Reading
  <2>5. RowsMatch' BY <2>1 DEF Origins, RowsMatch
  <2> QED BY <2>2, <2>3, <2>4, <2>5 DEF Origins
<1> QED BY <1>1, <1>2, <1>3, <1>4 DEF Next

\* What a run says that was collected of a gate that ran every stage is that gate's and
\* of the tree it ran on, which is the commit of the key unless git said dirty, and
\* nothing the host lets it be asked for is missing: whatever gates, edits, commits,
\* targets run by hand, kills and other collectors come between two of a collector's
\* steps, a collector that one of them disturbed is not of a gate any more.
THEOREM RowsOfOneGate == Spec => []RowsOfTheirGate
<1>1. RowsMatch => RowsOfTheirGate
  <2> SUFFICES ASSUME RowsMatch PROVE RowsOfTheirGate OBVIOUS
  <2>1. ASSUME NEW i \in DOMAIN db, db[i].of # 0 PROVE OfItsGate(db[i].seen, db[i].key, db[i].of)
    <3>1. Matches(db[i].seen, db[i].key, db[i].of) BY <2>1 DEF RowsMatch
    <3> QED BY <3>1, MatchingRows
  <2> QED BY <2>1
        DEF RowsOfTheirGate, OfItsGate, Has, HasGap, LineCoverage, FuncCoverage, ProofsPassing, CoreSeconds,
            GateWall
<1>2. Origins => RowsMatch BY DEF Origins
<1>3. Inv /\ [Next]_vars => Inv' BY StepKeepsInv
<1> QED BY InitInv, OriginsInit, StepKeepsOrigins, <1>1, <1>2, <1>3, PTL DEF Spec
===============================================================================
