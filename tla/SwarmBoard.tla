------------------------------- MODULE SwarmBoard -------------------------------
(***************************************************************************)
(* The status board of tools/swarm/board.py: workers in sandboxes of their *)
(* own report in one JSON file each, committed on their own branch and     *)
(* pushed; a manager fetches every origin/swarm/* branch, keeps the newest *)
(* copy of each file, and waits until nobody is left running.              *)
(*                                                                         *)
(* Workers are 1 .. NumWorkers in the order git sorts their branches.  A   *)
(* report keeps its state and its time stamp; task, step, blocker, results *)
(* and history are data no decision looks at.  git is external: a push is  *)
(* a fast-forward or refused, a fetch may fail, a sandbox may be lost with *)
(* what it did not push and be replaced by a clone of main (Main, without  *)
(* reports), of its own branch or of another worker's.                     *)
(***************************************************************************)
EXTENDS Integers

CONSTANTS
  NumWorkers, StaleMin, Timeout, Main, NoFile,
  Planned,                              \* the workers the manager assigns work to
  MaxClock, MaxReports, MaxReplaced     \* bounds

Worker == 1 .. NumWorkers

ASSUME SwarmBoardAssumption ==
  /\ NumWorkers \in Nat /\ StaleMin \in Nat /\ Timeout \in Nat /\ MaxClock \in Nat
  /\ MaxReports \in Nat /\ MaxReplaced \in Nat
  /\ Main \notin Worker /\ Planned \subseteq Worker

VARIABLES
  clock,      \* now(), in the unit of the time stamps
  clone,      \* clone[w][n]: file n.json at the HEAD of w's sandbox
  descends,   \* descends[w]: HEAD of w's sandbox descends from origin/swarm/w
  origin,     \* origin[r][n]: file n.json at the tip of branch swarm/r
  tracking,   \* the manager's origin/swarm/* as last fetched
  boards,     \* what remote_boards last returned
  tasks,      \* tasks.json: per worker "no", "assigned" or "retired"
  wait,       \* board.py wait: [pc, end]
  used        \* reports written and sandboxes replaced, for the bounds

vars == <<clock, clone, descends, origin, tracking, boards, tasks, wait, used>>

Reported == {"running", "blocked", "done"}
Report == [state : Reported, updated : 0 .. MaxClock]
File == Report \cup {NoFile}
NoFiles == [n \in Worker |-> NoFile]

ASSUME NoFileAssumption == NoFile \notin Report

Updated(f) == IF f = NoFile THEN -1 ELSE f.updated

Init ==
  /\ clock = 0
  /\ clone = [w \in Worker |-> NoFiles]
  /\ descends = [w \in Worker |-> TRUE]
  /\ origin = [w \in Worker |-> NoFiles]
  /\ tracking = [w \in Worker |-> NoFiles]
  /\ boards = NoFiles
  /\ tasks = [w \in Worker |-> "no"]
  /\ wait = [pc |-> "idle", end |-> 0]
  /\ used = [reports |-> 0, replaced |-> 0]

-----------------------------------------------------------------------------
(* Worker side *)

load(w) == IF clone[w][w] = NoFile THEN "running" ELSE clone[w][w].state

\* The state each command leaves in the file: only result keeps what is there.
NewState(w, cmd) ==
  CASE cmd \in {"start", "update"} -> "running"
    [] cmd = "result" -> load(w)
    [] cmd = "done" -> "done"
    [] cmd = "fail" -> "blocked"

write(w, state) ==
  clone' = [clone EXCEPT ![w][w] = [state |-> state, updated |-> clock]]

\* Bound: reports stop early enough for the last of them to go stale.
LastReport == MaxClock - StaleMin - 1

\* A time stamp has whole seconds and a push takes longer than one: no report is
\* written within the second of one already pushed.
ApartFromPushed(w) == Updated(origin[w][w]) < clock

cmd_worker(w, cmd) ==
  /\ clock <= LastReport
  /\ used.reports < MaxReports
  /\ ApartFromPushed(w)
  /\ write(w, NewState(w, cmd))
  /\ used' = [used EXCEPT !.reports = @ + 1]
  /\ UNCHANGED <<clock, descends, origin, tracking, boards, tasks, wait>>

\* git push: refused unless the branch at the origin is an ancestor.
Push(w) ==
  /\ descends[w]
  /\ origin' = [origin EXCEPT ![w] = clone[w]]
  /\ UNCHANGED <<clock, clone, descends, tracking, boards, tasks, wait, used>>

\* A lost sandbox is replaced by a fresh clone.
Replace(w, from) ==
  /\ used.replaced < MaxReplaced
  /\ used' = [used EXCEPT !.replaced = @ + 1]
  /\ clone' = [clone EXCEPT ![w] = IF from = Main THEN NoFiles ELSE origin[from]]
  /\ descends' = [descends EXCEPT ![w] = from = w \/ origin[w] = NoFiles]
  /\ UNCHANGED <<clock, origin, tracking, boards, tasks, wait>>

-----------------------------------------------------------------------------
(* Manager side *)

\* Mutant: the first branch that has the file is taken, whatever its stamp.
FirstCopy(refs, n, f) ==
  \/ f = NoFile /\ \A r \in Worker : refs[r][n] = NoFile
  \/ \E r \in Worker :
       f = refs[r][n] /\ f # NoFile /\ \A q \in 1 .. r - 1 : refs[q][n] = NoFile

\* f is the copy of n.json that remote_boards keeps: the first, in branch order,
\* that no other copy is newer than (updated > prev.updated replaces it).
Newest(refs, n, f) ==
  \/ f = NoFile /\ \A r \in Worker : refs[r][n] = NoFile
  \/ \E r \in Worker :
       /\ f = refs[r][n] /\ f # NoFile
       /\ \A q \in Worker : Updated(refs[q][n]) <= f.updated
       /\ \A q \in 1 .. r - 1 : Updated(refs[q][n]) < f.updated

\* git fetch (check=False: a failure leaves the refs of the last one), then read
\* the copies.
remote_boards(fetched) ==
  /\ tracking' = IF fetched THEN origin ELSE tracking
  /\ boards' \in [Worker -> File]
  /\ \A n \in Worker : Newest(tracking', n, boards'[n])

\* Mutant: the age test is the wrong way round.
row_unaged(bs, n) ==
  IF bs[n] = NoFile THEN "NO_REPORT"
  ELSE IF bs[n].state = "running" /\ clock - bs[n].updated < StaleMin THEN "STALE"
  ELSE bs[n].state

\* One row of table: the state shown for n.
row(bs, n) ==
  IF bs[n] = NoFile THEN "NO_REPORT"
  ELSE IF bs[n].state = "running" /\ clock - bs[n].updated > StaleMin THEN "STALE"
  ELSE bs[n].state

Rows(bs) == {n \in Worker : bs[n] # NoFile \/ tasks[n] # "no"}

\* The attributes of the argument object: of the show parser, and of the
\* Namespace that cmd_wait builds; and those cmd_show reads on its way.
ShowParser == {"stale_min", "json", "brief", "active"}
WaitNamespace == {"stale_min", "json"}
ShowReads == {"stale_min", "active", "brief", "json"}

cmd_show(args, fetched) ==
  /\ remote_boards(fetched)
  /\ wait' = IF args = ShowParser THEN wait
             ELSE [wait EXCEPT !.pc = IF ShowReads \subseteq args THEN "returned" ELSE "raised"]
  /\ UNCHANGED <<clock, clone, descends, origin, tasks, used>>

\* make board
Show(fetched) == cmd_show(ShowParser, fetched)

cmd_assign(w) ==
  /\ tasks' = [tasks EXCEPT ![w] = "assigned"]
  /\ UNCHANGED <<clock, clone, descends, origin, tracking, boards, wait, used>>

cmd_retire(w) ==
  /\ tasks[w] # "no"
  /\ tasks' = [tasks EXCEPT ![w] = "retired"]
  /\ UNCHANGED <<clock, clone, descends, origin, tracking, boards, wait, used>>

Settled == {"done", "blocked", "STALE"}

\* make board-wait.  Bound: one wait, and it can time out by MaxClock.
WaitStart ==
  /\ wait.pc = "idle" /\ clock + Timeout <= MaxClock
  /\ wait' = [pc |-> "looping", end |-> clock + Timeout]
  /\ UNCHANGED <<clock, clone, descends, origin, tracking, boards, tasks, used>>

WaitLook(fetched) ==
  /\ wait.pc = "looping" /\ clock < wait.end
  /\ remote_boards(fetched)
  /\ wait' = IF Rows(boards') # {} /\ \A n \in Rows(boards') : row(boards', n) \in Settled
             THEN [wait EXCEPT !.pc = "found"] ELSE wait
  /\ UNCHANGED <<clock, clone, descends, origin, tasks, used>>

WaitTimeout ==
  /\ wait.pc = "looping" /\ clock >= wait.end
  /\ wait' = [wait EXCEPT !.pc = "timed_out"]
  /\ UNCHANGED <<clock, clone, descends, origin, tracking, boards, tasks, used>>

WaitShow(fetched) ==
  /\ wait.pc \in {"found", "timed_out"}
  /\ cmd_show(WaitNamespace, fetched)

Tick ==
  /\ clock < MaxClock
  /\ clock' = clock + 1
  /\ UNCHANGED <<clone, descends, origin, tracking, boards, tasks, wait, used>>

-----------------------------------------------------------------------------
Commands == {"start", "update", "result", "done", "fail"}

Next ==
  \/ \E w \in Worker, cmd \in Commands : cmd_worker(w, cmd)
  \/ \E w \in Worker : Push(w)
  \/ \E w \in Planned : cmd_assign(w) \/ cmd_retire(w)
  \/ \E w \in Worker, from \in Worker \cup {Main} : Replace(w, from)
  \/ \E fetched \in BOOLEAN : Show(fetched) \/ WaitLook(fetched) \/ WaitShow(fetched)
  \/ WaitStart \/ WaitTimeout \/ Tick

Spec == Init /\ [][Next]_vars

(***************************************************************************)
(* Fairness: time passes, the manager polls now and then with a fetch that *)
(* works, and a wait keeps looping.  Nothing is asked of the workers: a    *)
(* sandbox may stop for good after any of its steps.                       *)
(***************************************************************************)
FairSpec ==
  /\ Spec
  /\ WF_vars(Tick) /\ WF_vars(Show(TRUE))
  /\ WF_vars(WaitTimeout) /\ WF_vars(\E fetched \in BOOLEAN : WaitShow(fetched))

-----------------------------------------------------------------------------
TypeOK ==
  /\ clock \in 0 .. MaxClock
  /\ clone \in [Worker -> [Worker -> File]]
  /\ descends \in [Worker -> BOOLEAN]
  /\ origin \in [Worker -> [Worker -> File]]
  /\ tracking \in [Worker -> [Worker -> File]]
  /\ boards \in [Worker -> File]
  /\ tasks \in [Worker -> {"no", "assigned", "retired"}]
  /\ wait \in [pc : {"idle", "looping", "found", "timed_out", "returned", "raised"},
               end : 0 .. MaxClock]
  /\ used \in [reports : 0 .. MaxReports, replaced : 0 .. MaxReplaced]

\* What the manager has seen of a worker is never replaced by something older,
\* although old copies of its file live on in branches cut from its own, sandboxes
\* are lost with unpushed reports, and fetches fail.
NeverGoesBack ==
  [][\A n \in Worker : Updated(boards'[n]) >= Updated(boards[n])]_vars

\* Whatever sandboxes are lost or replaced, every worker the manager has heard of
\* ends up done, blocked or STALE: none is shown running for ever.
EveryoneSettles ==
  \A n \in Worker : <>[](boards[n] # NoFile => row(boards, n) \in Settled)

\* The last report that reached a worker's branch is the one the manager ends up
\* with, and not a copy of an earlier one on a branch sorted before it.
LastReportSeen ==
  \A n \in Worker : <>[](origin[n][n] # NoFile => boards[n] = origin[n][n])

\* "board.py wait [...] block until every assigned worker is done/blocked": the
\* wait ends with the board on the screen.
WaitReturns == wait.pc # "raised"

===============================================================================
