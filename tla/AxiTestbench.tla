------------------------------ MODULE AxiTestbench ------------------------------
(***************************************************************************)
(* The PyUVM bench around the BFM (dv/cocotb/axi_components.py, axi_test.py*)
(* and the test targets of the Makefile): each test is a simulation of its *)
(* own, reset, fed by one sequence through the driver, watched by the      *)
(* monitor whose reports go to the scoreboard and the coverage collector;  *)
(* at its end the scoreboard checks what it collected, the coverage of the *)
(* run so far is merged through a database file, and the last test gates   *)
(* it.  A simulation can be killed at any time; make then stops.           *)
(*                                                                         *)
(*   run     the make invocation: its target, the tests left to run, ok    *)
(*   pc      of the test in hand: "none", "run", "check", "report", "save",*)
(*           "final"                                                       *)
(*   todo    the items the sequence has yet to start                       *)
(*   cov     the bins this simulation's collector has hit                  *)
(*   db      fcov.json: [file, bins], file "absent", "corrupt" or "counts" *)
(*   hits    the bins hit by the simulations of this invocation (history)  *)
(*   verdict of the last invocation: "none", "pass", "fail" or "killed"    *)
(***************************************************************************)
EXTENDS AxiLiteBfm

VARIABLES run, pc, todo, cov, db, hits, verdict

tbVars == <<run, pc, todo, cov, db, hits, verdict>>
vars == <<busVars, tbVars>>

\* The tests a target runs, in order.  Every target but waves drops the database.
Tests ==
  [test_all      |-> <<"write_read_test", "random_test", "walking_test", "burst_test",
                       "multi_outstanding_test", "coverage_test">>,
   test_coverage |-> <<"coverage_test">>,
   waves         |-> <<"random_test">>]

enforce_fcov(test) == test = "coverage_test"

Absent == [file |-> "absent", bins |-> {}]
Corrupt == [file |-> "corrupt", bins |-> {}]

Init ==
  /\ BfmInit
  /\ run = [target |-> "waves", tests |-> <<>>] /\ pc = "none" /\ todo = <<>> /\ cov = {}
  /\ db \in {Absent, Corrupt, [file |-> "counts", bins |-> Goal]}
  /\ hits = {} /\ verdict = "none"

\* Mutant: the target runs without fcov-reset.
fcov_reset_skipped(target) == db

fcov_reset(target) == IF target = "waves" THEN db ELSE Absent

Make(target) ==
  /\ pc = "none" /\ run.tests = <<>>
  /\ run' = [target |-> target, tests |-> Tests[target]]
  /\ db' = fcov_reset(target)
  /\ hits' = {} /\ verdict' = "none"
  /\ UNCHANGED <<busVars, pc, todo, cov>>

\* A simulation starts: its components are built, the design is reset and the
\* sequence is made.
run_one_test ==
  /\ pc = "none" /\ run.tests # <<>>
  /\ pc' = "run"
  /\ todo' \in Stimulus[Head(run.tests)]
  /\ reset /\ seen' = <<>> /\ cov' = {}
  /\ UNCHANGED <<run, db, hits, verdict>>

\* The driver asks for the next item when it is done with one.
get_next_item ==
  /\ pc = "run" /\ todo # <<>>
  /\ driver_bfm(Head(todo))
  /\ todo' = Tail(todo)
  /\ UNCHANGED <<run, pc, cov, db, hits, verdict>>

\* The monitor hands on what it saw in the same time step.
NewReports == SubSeq(seen', Len(seen) + 1, Len(seen'))

Clock(may) ==
  /\ pc = "run"
  /\ Fall \/ Rise(may)
  /\ cov' = hit(cov, NewReports)
  /\ hits' = hit(hits, NewReports)
  /\ UNCHANGED <<run, pc, todo, db, verdict>>

\* The body has returned and the objection is dropped.
EndOfRun ==
  /\ pc = "run" /\ todo = <<>> /\ bfm.pc = "idle"
  /\ pc' = "check"
  /\ UNCHANGED <<busVars, run, todo, cov, db, hits, verdict>>

-----------------------------------------------------------------------------
\* The writes to address a among the reports s.
WritesTo(s, a) == {i \in DOMAIN s : s[i].wr /\ s[i].addr = a}

\* The scoreboard's reference memory after the reports s: each address written, with
\* the data of the last write to it.
Model(s) ==
  [a \in {s[i].addr : i \in {j \in DOMAIN s : s[j].wr}} |-> s[Max(WritesTo(s, a))].data]

\* check_phase compares every read with the last write before it.
Mismatches(s) ==
  {i \in DOMAIN s : ~s[i].wr /\ s[i].data # Word(Model(SubSeq(s, 1, i - 1)), s[i].addr)}

Stop(v) == pc' = "none" /\ verdict' = v /\ run' = [run EXCEPT !.tests = <<>>]

check_phase ==
  /\ pc = "check"
  /\ IF Mismatches(seen) = {} THEN pc' = "report" /\ UNCHANGED <<verdict, run>> ELSE Stop("fail")
  /\ UNCHANGED <<busVars, todo, cov, db, hits>>

\* report_phase loads the database and opens it for writing, which empties it ...
report_phase ==
  /\ pc = "report"
  /\ cov' = load(cov, db)
  /\ db' = Corrupt
  /\ pc' = "save"
  /\ UNCHANGED <<busVars, run, todo, hits, verdict>>

\* ... and writes it back.
save ==
  /\ pc = "save"
  /\ db' = [file |-> "counts", bins |-> cov]
  /\ pc' = "final"
  /\ UNCHANGED <<busVars, run, todo, cov, hits, verdict>>

\* final_phase; make looks at results.xml and goes on to the next test or stops.
final_phase ==
  /\ pc = "final"
  /\ IF enforce_fcov(Head(run.tests)) /\ ~check(cov) THEN Stop("fail")
     ELSE IF Len(run.tests) = 1 THEN Stop("pass")
     ELSE /\ pc' = "none" /\ run' = [run EXCEPT !.tests = Tail(@)]
          /\ UNCHANGED verdict
  /\ UNCHANGED <<busVars, todo, cov, db, hits>>

\* The simulation is killed: there is no results.xml and make fails.
Kill ==
  /\ pc # "none" /\ Stop("killed")
  /\ UNCHANGED <<busVars, todo, cov, db, hits>>

Next ==
  \/ \E target \in DOMAIN Tests : Make(target)
  \/ run_one_test \/ get_next_item \/ Clock(BOOLEAN) \/ EndOfRun
  \/ check_phase \/ report_phase \/ save \/ final_phase \/ Kill

\* The simulator runs on, and the design, as long as it is clocked, keeps giving
\* every ready and every valid it can.
Fairness ==
  /\ WF_vars(run_one_test) /\ WF_vars(get_next_item) /\ WF_vars(EndOfRun)
  /\ WF_vars(check_phase) /\ WF_vars(report_phase) /\ WF_vars(save) /\ WF_vars(final_phase)
  /\ WF_vars(Clock(BOOLEAN)) /\ SF_vars(Clock({TRUE}) /\ edge = "rise")

Spec == Init /\ [][Next]_vars
FairSpec == Spec /\ Fairness

-----------------------------------------------------------------------------
\* What monitor_bfm makes of the five channels is what the memory holds: between
\* two writes, the writes reported, each at the address next_addr gave its beat,
\* rebuild the memory of the design, which places its beats by the AXI formula.
MonitorMirrorsMemory ==
  pc = "run" /\ bfm.pc = "idle" => Model(seen) = sub.mem

\* The scoreboard never blames a design that is right: overlapping reads, bursts
\* and stalls included, every read reported before check_phase is compared with
\* the write it has to return.  Nor is a report missing by then.
ScoreboardAgrees ==
  pc = "check" => Mismatches(seen) = {} /\ sub.q = <<>> /\ mon.ar_q = <<>> /\ mon.w_pending = <<>>

\* The driver returns to a sequence the beats of its own read: those the monitor
\* reported last, each once.
DriverGetsBeats ==
  pc = "run" /\ bfm.pc = "idle" /\ bfm.item.kind = "R" /\ seen # <<>> =>
    LET n == bfm.item.len + 1
    IN  /\ Len(seen) >= n
        /\ bfm.beats = [i \in 1 .. n |-> seen[Len(seen) - n + i].data]

\* Makefile:251-253: the report of a test target describes exactly that
\* invocation, whatever simulation was killed before it and wherever: what the
\* database holds between two tests is what this invocation hit.
CountsThisRun ==
  pc = "none" /\ run.tests # <<>> /\ run.target # "waves" =>
    /\ db.file = "counts" => db.bins = hits
    /\ db.file # "counts" => hits = {}

\* axi_test.py, CoverageTest: its sequence alone hits every goal bin, so it passes
\* standalone, and it passes at the end of test-all; no test fails by itself.
NoTestFails == verdict # "fail"

\* A test that is not killed ends, whenever the design stalls.
TestsEnd == (pc = "run") ~> (pc = "none")
===============================================================================
