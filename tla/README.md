# TLA+ verification of axi-on-ucie-to-mem

The repository is a SystemVerilog design that carries an AXI4 subset over
"AXI-on-UCIe" (AoU) flits to an SRAM: an initiator bridge turns AXI bursts into
request and data messages, two one-deep streaming links carry the flits, a target
bridge expands each burst into single-beat AXI4-Lite accesses of a memory and sends
responses back. Activation blocks bring the interface up, credits bound what may be
under way, and several resource planes may share the one pair of links. Around the
design it keeps Python: a PyUVM bench with functional coverage, a status board for a
swarm of workers, and a pipeline from a captured gate to a dashboard of metrics.

This directory holds TLA+ models of the RTL (`rtl/`) and of the Python programs
(`dv/cocotb/`, `tools/swarm/`, `metrics/`), the TLC configurations that check them,
and proofs for TLAPS. Source paths below are relative to the repository root.

- [1. The system](#1-the-system)
- [2. Modules and how they correspond to the code](#2-modules-and-how-they-correspond-to-the-code)
- [3. Runs](#3-runs)
- [4. Bounds](#4-bounds)
- [5. Fairness](#5-fairness)
- [6. Proofs](#6-proofs)
- [7. Where code and documentation disagree](#7-where-code-and-documentation-disagree)
- [8. What is not modelled](#8-what-is-not-modelled)
- [9. Plan and order of work](#9-plan-and-order-of-work)
- [10. How to run](#10-how-to-run)

## 1. The system

```
 AXI manager                                                    axi_lite_mem
     |                                                               |
 aou_axi_initiator_bridge                              aou_axi_target_bridge
   request queue, error responder                        request FSM, beat buffers,
   in-order FSM  or  tags + 2 x aou_reorder              responses, (aou_ooo_resp_src)
   credits, aou_activation                               credits, aou_activation
     |                                                               |
     +--(aou_rp_arb)-> ucie_stream_link a2b -(aou_rp_route)--------->+
     +<-(aou_rp_route)- ucie_stream_link b2a <-(aou_rp_arb)----------+
```

The parts in brackets exist only for `NUM_RP > 1` (arbiter, router) or `OOO_EN = 1`
(tags, reorder buffers, out-of-order response source). The shipped default is one
plane, in order.

| Component | State it keeps | Operations | What is hard | What makes it correct |
|---|---|---|---|---|
| `ucie_stream_link` | one flit and its valid bit | load, drain, load while draining, hold | the combinational ready runs from one end of the chain to the other | no flit lost or doubled |
| `aou_activation` (one per bridge) | link state, four sent and four received flags, a pending peer tear-down | send and receive ActivateReq/Ack, CrdtGrant, DeactivateReq/Ack; software and peer tear-down; ERROR and `err_clear` | two machines whose messages cross; flags of an earlier connection; stalls in the middle of bring-up; stray requests | data never reaches an end that is still activating; no ERROR without a stray request; the ends agree; bring-up, tear-down and recovery finish |
| Request queue and error responder (initiator) | accepted AXI requests; one over-long burst being answered | accept AW or AR, pop, sink W beats, answer SLVERR | the responder shares B, R and W with the datapath | neither overtakes an earlier response, and neither takes the other's W beats |
| In-order datapath (initiator) | FSM, current request, one W beat, B response, credits held and owed | send request, send data, wait for B, pass R beats on | credit for a whole burst before it starts; coarse return codes | every request answered once, rightly; no credit lost or exceeded |
| Out-of-order datapath (initiator) | two reorder buffers, tag tables, beat accumulators, output stages | issue with tag, accumulate beats, complete, present | responses out of order, holes in the window, throttles | per-ID order; flits stable while stalled |
| `aou_reorder` | occupied and done flags, ID and data per slot, head, tail, count | allocate, complete, present the oldest of an ID, reclaim | wrap-around with holes; a slot vacated in the middle | per-ID order, fresh tags, room comes back |
| Target bridge | FSM, request, address, beat count, beat buffers, AXI-Lite handshake flags, credits | take request and data flits, drive AW/W/AR, collect B/R, send responses | AW and W accepted in different cycles; every message is trusted to be the one expected | stays in step with the initiator; right address per beat; right response |
| `aou_ooo_resp_src` | held responses | hold one, let others pass, release | bursts and stalls in the middle of a hold | same-ID order |
| `axi_lite_mem` | array, captured AW and W, B and R registers | capture, commit, read | AW and W arrive separately | memory holds what the answered writes say |
| `aou_rp_mux` (`aou_rp_arb`, `aou_flit_fifo`, `aou_rp_route`) | last granted plane, lock, one receive queue per plane | grant, hold a grant while stalled, route by FDId, push and pop | one plane's stall must not become another's; push and pop of a full queue | planes isolated, granted in turn, link never stalls within the credit |
| `aou_pkg` arithmetic | none | credit bucket codec, granule counts, `axi_burst_next` | rounding up, saturation, WRAP boundary | return covers what was freed; beat addresses as in AXI |
| Tops (`axi_ucie_mem_top`, single and multi plane) | none of their own | wiring | everything above at once | the manager sees a memory |

The components of the RTL interact only through valid/ready wires and the flits on
the links. There is no callback, no shared memory and no clock-domain crossing: all
concurrency is that of registers which move in the same edge, of the links' latency,
and of the free choices of the manager (when to present, when to take) and of whatever
stalls. Nothing in it is persistent; `ARESETn` resets everything and is the initial
state of the models.

The Python programs are processes of their own, some of which share files:

```
 axi_seq -> AxiDriver -> AxiLiteBfm === AXI === design      one simulation per test
                monitor_bfm -> AxiMonitor -+-> AxiScoreboard
                                           +-> AxiCoverage <-> fcov.json (one per make)

 worker sandbox: board.py start/update/... -> NAME.json -> git push origin swarm/NAME
 manager:        board.py show/wait  <- git fetch, every origin/swarm/* branch

 capture.sh make ci -> gate.log, gate.time, ... -> collect.py -> metrics.db -> dashboard.py
```

| Component | State it keeps | Operations | What is hard | What makes it correct |
|---|---|---|---|---|
| BFM (`axi_lite_bfm.py`) | the driver's coroutine, the pins it drives, the monitor's write context and open reads | write and read burst, overlapping reads, channel monitor | coroutines that wake at edges and see values of before them, while the design stalls every channel | driver, monitor and memory agree; every test ends |
| Scoreboard, coverage, gate (`axi_components.py`, `axi_coverage.py`, `axi_test.py`, `Makefile`) | the reports, the bins, `fcov.json` | check, sample, merge, save, gate | simulations killed in the middle of a save; files left over | a right design is never blamed; the merged bins are of this invocation; the last test closes the goal |
| Sequences (`axi_seq.py`, `axi_seq_item.py`) | none | six bodies | the closing sequence must hit every goal bin | coverage closes from that sequence alone |
| Status board (`tools/swarm/board.py`) | a file per worker, on the branches it was pushed to or cut into; `tasks.json` | start, update, result, done, fail; assign, retire, show, wait | sandboxes lost with what was not pushed, refused pushes, failed fetches, old copies of files | the manager ends with the last report, never goes back, shows nobody running for ever, and the wait returns |
| Capture, collector (`metrics/capture.sh`, `collect.py`) | the artifacts of gates; the SQLite database | capture; read, make rows, store a run | gates, edits, commits, targets run by hand and other collectors meanwhile; kills between two statements | a run is whole and of one gate, its design of the tree the gate ran on; history is append-only |
| Dashboard (`metrics/dashboard.py`) | none | load, verdicts, list of regressions | two queries with a commit between them | whole runs; every regression listed once |

The hazards are listed with their lines in `PROJECT.json` ("hazards"), each with the
properties that guard it or the reason there is none.

## 2. Modules and how they correspond to the code

`PROJECT.json` ("map") names the lines behind every definition. The models of the RTL
are synchronous: every step of a `Next` is one edge of `ACLK` at every register of the
composition, and everything the RTL does in that edge happens in that step. Naming: a
state variable has the RTL register's name (two instances in one composition get a
prefix, `i` for the initiator's end and `t` for the target's); `Clock(...)` is the
component's `always_ff` block, its arguments the module's inputs in that cycle; an
operator with a signal's name is that combinational signal; `None` is "valid low".

| Module | Code | Content |
|---|---|---|
| `UcieStreamLink` | `rtl/ucie_stream_link.sv` | `buf` is `out_valid`/`out_data` together |
| `AouActivation` | `rtl/aou_activation.sv` | one end: state, `sent` and `rcvd` as sets of messages, `deact_pending`; a disjunct per arm of the FSM; transmit mux, credit seed, the ready towards the link |
| `ActivationLink` | `rtl/axi_ucie_mem_top.sv` wiring | two ends over two links, bridges left free in every ENABLED cycle |
| `ActivationLink_proofs` | | proofs about it |
| `AouReorder` | `rtl/aou_reorder.sv` | the buffer; window arithmetic (`idx_at`), output selection (`out_idx`), reclaim |
| `PerIdOrder` | AXI's ordering rule | **abstract**: a set of outstanding transactions; a release takes the oldest of its ID |
| `ResponseReordering` | the reorder buffer as the bridge uses it | requester and memory around `AouReorder`, refinement mapping to `PerIdOrder` |
| `ResponseReordering_proofs` | | proofs about it |
| `AouCredits`, `AouCreditCodes` | `rtl/aou_pkg.sv` | bucket codec, granule counts, saturating add; all 256 counts |
| `AxiBurst`, `AxiBeatAddress`, `BurstAddressing` | `rtl/aou_pkg.sv` (`axi_burst_next`) | the code's next address; the closed AXI formula; one walked against the other |
| `RequestFrontEnd` | `rtl/aou_axi_initiator_bridge.sv` | accept, queue, error responder |
| `InOrderInitiator` | same, `g_inorder` | request and response FSM and credits |
| `AouTarget` | `rtl/aou_axi_target_bridge.sv` | the target FSM, beat buffers, handshakes, credits |
| `AxiLiteMem` | `rtl/axi_lite_mem.sv` | memory, word-addressed, write strobes all or none |
| `AxiMaster` | the testbenches' scoreboards | the manager and what it may expect |
| `AxiUcieMemChain`, `MCChain` | `rtl/axi_ucie_mem_top.sv`, `NUM_RP = 1`, `OOO_EN = 0` | all of the above wired together |
| `AxiUcieMemChain_proofs` | | proofs about it: who is where and what credits are held; then what the beats carry and the memory holds |
| `RpArb`, `RpRoute` | `rtl/aou_rp_mux.sv` | round robin with lock; routing by plane into a receive queue each |
| `PlaneChannels` | | **abstract**: one unbounded FIFO channel per plane |
| `SharedLink` | `rtl/axi_ucie_mem_top.sv`, one direction of `g_mrp` | arbiter, link and router, bridges left free within their credit |
| `SharedLink_proofs` | | proofs about it |
| `AxiSeqItem`, `AxiSequences` | `dv/cocotb/axi_seq_item.py`, `axi_seq.py` | items, the bench's own burst addresses; per test the set of the item sequences its body can make |
| `AxiCoverage` | `dv/cocotb/axi_coverage.py` | bins, goal, `sample`, `load`, `check` |
| `AxiLiteBfm` | `dv/cocotb/axi_lite_bfm.py` | `_wburst`, `_rburst`, `read_multi`, `monitor_bfm`, one step per half clock: `bfm.pc` is the `await` the driver is at |
| `AxiSubordinate` | the chain at its AXI port | an in-order memory that gives ready and valid when it likes; its promises are those `chain` checks of the RTL |
| `AxiTestbench`, `AxiTestbench_proofs` | `dv/cocotb/axi_components.py`, `axi_test.py`, the test targets of the `Makefile` | simulations of one make invocation, phases, `fcov.json`, kills |
| `SwarmBoard`, `SwarmBoard_proofs` | `tools/swarm/board.py` | sandboxes, branches, the manager's copies; git is external |
| `MetricsRows` | `metrics/collect.py` | which rows a collection makes of which artifacts, and where each number comes from |
| `MetricsPipeline`, `MetricsPipeline_proofs` | `metrics/capture.sh`, `collect.py`, `dashboard.py` | gates, what people do in the tree beside them, collectors, the transaction, the dashboard's queries |
| `StepSpans`, `AgentStream`, `SpanSweep` | `metrics/collect.py` | the walk over the stamped log; the walk over a swarm's events; the sweep of `max_overlap` |
| `Regressions` | `metrics/dashboard.py` | `verdict` and the walk that lists regressions |
| `Algorithms`, `MCAlgorithms`, `Algorithms_proofs` | | the walkers of the pure algorithms side by side, for one run, and proofs about each |

Abstractions of the data, and why the properties cannot tell:

- A flit is a record of the fields the receiver reads (message type, ID, address,
  beat, credits). The bit layout of `aou_pkg` is not modelled: packing and
  unpacking are the inverse of each other by construction of the same field offsets,
  and the repository has its own checks of the layout.
- Write data is the running number of the beat, so no two beats are the same and a
  misplaced one is seen. Strobes are all or none: lanes are independent in the RTL.
- In `SharedLink` and `ActivationLink` a data flit is a plane number and a payload,
  or just `"data"`.
- A combination of inputs on which no register depends in a cycle (a bridge's ready
  while its end is not ENABLED, `err_clear` outside ERROR) is left out of the choices.
- The manager of `AxiMaster` presents one AXI request per cycle, a write or a read.
  A request or W beat presented but not taken leaves no trace in any register, so only
  taken ones are enumerated.

- The memory and the scoreboards' models of it are closed forms of what was written, the last
  write to an address, where the code updates a dictionary write by write.
- In the bench a word has `DATA_W = 28` bits (eight at least, for the patterns to fit), within TLC's integers: the patterns are
  defined by the width, as in the source. Response codes are left out, as the design
  returns OKAY throughout (over-long bursts are not in the bench's stimulus). A bin is hit
  or not; its count is never looked at. The settle cycles between items are left out.
- On the board a report is its state and time stamp. Time stamps have whole seconds; a
  worker does not report twice within the second of a report already pushed.
- In the metrics a number is modelled by its origin: the gate, tree or capture it was read
  from. Formats, units, coefficients and the parsers are abstracted to "there or not". A stage
  of a gate, or a target run by hand, leaves its artifacts in one step. The tree and the
  commit HEAD is at are kept apart; each tree has one commit that could be made of it. The
  key's token is the log as far as it is written, which section 8 compares with the code's.

History variables, which no code reads: `ticket`, `issued`, `delivered`
(`ResponseReordering`), `hits` (`AxiTestbench`), `done`, `gate.ran`, the `tree` of a log
and the `of` of a collector and a run (`MetricsPipeline`), `waited` and `clk`
(`SharedLink`), `faults` (`ActivationLink`), and the scoreboard in `AxiMaster`. `clk` is the parity of the
clock: with equal flits at full throughput an edge may leave every register as it
was, and without `clk` that edge would count as a stutter and weak fairness would say
nothing.

The environment assumed: a manager that follows AXI (it presents W beats only for
accepted writes; responses are held until taken), in the multi-plane model a
transmitter that holds a flit while stalled (`dv/sva/aou_flit_sva.sv`,
`a_flit_stable`), and in `ActivationLink` a bridge that reports a drained data path
only in a cycle in which it offers nothing.

## 3. Runs

### Activation

`act_teardown` (`ActivationLink`, software tear-down at both ends, one stray request,
links that stall only when full). Safety: `NoDataWhileActivating`, `NoSpuriousError`
(an ERROR needs a stray request, so tear-downs and re-activations that cross on the
links never look inconsistent), `EnabledTogether`. Liveness: `BringUpCompletes`,
`TeardownCompletes`.

`act_rejoin` (one stray request for each end): `JointRecovery`. With both ends in
ERROR, `err_clear` at both in the same cycle brings both back to ENABLED, whatever is
left on the links, even if one end starts a tear-down in between. This is the
coordinated recovery that `docs/NOTES.md` asks for; it does not exist in the integrated
chain, where `err_clear` and `deact_trig` are tied off and ERROR lasts until
`ARESETn` (`README.md`, AXI-over-UCIe flow; `dv/sv` section 7).

`act_backpressure` shows the first disagreement of section 7.

### Reordering

`reorder` (`ResponseReordering`): `Window` (the slots `occ` lie in `[head, tail)` and
position is age), `FreshTag`, the refinement `KeepsPerIdOrder`, and the liveness
properties `RoomAgain` and `EveryResponseLeaves`. The memory side answers in every
order.

### Algorithms

`algorithms` walks each pure algorithm over bounded inputs against a definition of what
it should compute. `ReturnCovers`: for every eight-bit count a credit return code covers
what was freed. `SameContainer`: `axi_burst_next`, walked, stays in the container the AXI
formula names. `StreamAccounted`: whatever order the events of a swarm come in, each
agent's row has its own events, its own name and number, none is lost, and the parallelism,
swept by `max_overlap`, is the most spans open at once. `SpansAddUp`: every second of a
stamped log is build or run and of the step under whose banner it ended; the seconds are
counted one by one, where the code adds differences. `RegressionsListed`: the banner of
the dashboard lists every series that moved the wrong way by the dead-band, once. The walks
take one line, event, chart or row per step, so their properties speak of every prefix too.

### Single-plane chain

`chain` (the shipped ceiling, code 7, 128 granules, 16 beats; three requests of every kind
in every combination, at the ceiling and one beat beyond): `ResponsesRight` (each B and R
beat offered is the right one for the oldest request: ID, RESP, LAST, data),
`FlitsExpected` (the two FSMs stay in step, on which the target relies without checking),
`CreditsWithinGrant`, `CreditsComeHome`, `MemoryMatches`, and `EveryRequestAnswered`, the
boundary between a burst that fits the credit and one that is refused: a beat either way
is a deadlock or a refused legal burst.

### Shared link

`planes_share` (three planes, `RX_D = 1`, `Credit = 2`): more credit than queue, so the
link does stall and the lock is exercised. `PlanesIsolated` is the refinement of
`PlaneChannels`; `FlitHeld`: what the arbiter presents to a stalled link it goes on
presenting; `GrantedInTurn`: within `NUM_RP` grants.

`planes_flow` (`RX_D = Credit = 4`): `LinkNeverStalls` and, with no fairness of any
receiver, `EveryFlitCrosses`. Together they are the no-head-of-line-blocking claim in
the header of `aou_rp_mux.sv`, and they show what it rests on: `Credit <= RX_D`. In the
in-order build it holds, since a plane's data flits are bounded by 16 and a request
is sent only to a target in `S_IDLE`, which takes it at once. Whether it holds with
`OOO_EN = 1` is open (section 8).

### PyUVM bench

`bench` (`AxiTestbench`, all six sequences, the targets test-all, test-coverage and waves,
every stall of every channel). `MonitorMirrorsMemory`: the reports, replayed, are the
memory, although the monitor computes beat addresses by `next_addr` and the memory by the
AXI formula. `ScoreboardAgrees`: a right design is never blamed and no report is missing
when the scoreboard checks. `DriverGetsBeats`: a read returns its own beats, each once.
`CountsThisRun`: between two tests the database holds exactly the bins hit in this
invocation, whatever was killed before it and wherever, in the middle of a save included.
`NoTestFails`: `coverage_test` closes the goal, alone and at the end of `test-all`.
`TestsEnd`: no stall pattern hangs a test; `read_multi` with one request more than the
queue is the case in point.

### Status board

`swarm_board`: `NeverGoesBack` (what the manager shows of a worker is never replaced by
something older), `LastReportSeen` (it ends with the last report pushed to the worker's
branch), `EveryoneSettles` (nobody it has heard of stays shown as running: a worker that
dies goes STALE). Sandboxes are lost with unpushed reports and replaced by clones of main,
of their own or of another's branch; pushes are refused, fetches fail.

`board_wait` shows the second disagreement of section 7.

### Metrics

`metrics`: `WholeRuns` (a reader sees a run row only with its own child rows), `AppendOnly`
(no run is lost, changes its key or shares it), `PageNotBehindItsHeader` (the dashboard's
two queries may straddle a commit: then the values are newer than the header, never older,
and never of another run).

The fourth, `RowsOfTheirGate`, is about a run collected after a gate that ran every stage,
if since that gate began no other did and nobody edited the tree or ran one of its targets
by hand, and nobody committed while it was collected. Then

- no number of the run is of another gate or of a target run by hand;
- the numbers of the design are of the tree the gate ran on. That tree need not be the
  commit in the key, which is HEAD: it is, or the run is flagged dirty;
- the size of the change is that of the commit in the key;
- outside of CI the key has that gate's log;
- what a gate can be asked for is measured, except that on a host without GNU time the
  timing is a gap, and not the report of an earlier gate: `capture.sh` removes that one.

The run has a host with GNU time and one of CI without, gates that fail, are killed or skip
a tier, and starts with an edit that is not committed, and with nothing or with the
artifacts of a gate made where there was GNU time.

Every property of a passing run is killed by a mutant: a definition of the model,
changed the way a plausible bug would change the code, makes TLC report that property
under that very configuration. The mutated forms stand just before the definitions
they mutate, marked `Mutant`.

## 4. Bounds

| Run | Bounds | Why they are enough |
|---|---|---|
| act_teardown | `MaxFaults = 1` | no bound on connections, tear-downs or time; one stray request is enough to take an end out of step; the theorems cover any number of strays |
| act_rejoin | `MaxFaults = 2` | one stray request per end is the least that brings both to ERROR |
| act_backpressure | `HeldOff = {"ini"}`, no faults | one end held off suffices |
| reorder | `DEPTH = 4`, two IDs, one datum, `MaxIssued = 7` | the pointers wrap with holes in the window; two IDs give overtaking; data only travel with their slot, and the theorem covers every depth and data set |
| algorithms | credits: none, the counter's whole range. Bursts: 128 start offsets, seven lengths. Stream: three agents, two of one kind, four events; the sweep: spans of up to three agents over four stamps. Steps: two steps, five lines, gaps of 0 to 2 s. Regressions: three series, five values (a gap, zero, and either side of a dead-band of 2 %) | two blocks of the largest WRAP total (64 bytes) and all legal WRAP lengths; an agent that comes up before its Task block, nested agents and repeated names; spans that touch, nest or have no length; a step that comes back with unstamped lines between; a name in two scopes and a move from zero; the theorems cover every input |
| chain | `DataCode = 7`, `REQ_QD = 2`, `WORDS = 16`, `MaxIssued = 3`, requests of `MixedRequests` | three requests fill the queue and put a third behind a popped one; the ceiling of 16 beats is met and exceeded by one; the requests cover both directions, all burst types, narrow and over-long ones, and IDs that repeat; strobes both ways; every stall of the manager; the theorems cover every set of requests, code, depth and size |
| planes_share | three planes, two payloads, `RX_D = 1`, `Credit = 2` | two planes cannot tell round robin from alternation; two payloads show a swap |
| planes_flow | two planes, `RX_D = Credit = 4` | four flits under way is the full throughput of one plane, without which the other could never be starved |
| swarm_board, board_wait | two workers, two reports, one sandbox replaced, three ticks, `StaleMin = 0` | an old copy of one worker's file on the other's branch needs two workers, two reports and a replacement; three ticks for a report, a later one and an age; the theorem covers every bound |
| bench | one random address and datum, two random items, every directed sequence whole; `REQ_QD = 4` | the directed sequences are the source's; a random body is a stream of single-beat items, and two show a read after a write; `read_multi` has `REQ_QD + 1` requests |
| metrics | two collectors, two collections, two gates, one act by hand (an edit, a commit or a target), one page; two formal tasks; a host with GNU time and one of CI without | the races are between two parties each; as the tree starts with an edit, one act is enough to commit it, to edit further, or to leave a gate's artifacts mixed; two tasks let a target by hand leave one of them; the theorems cover any number of collectors, gates, acts, pages and runs, and every set of hosts |

`act_teardown`, `act_rejoin`, `planes_share`, `planes_flow` and `bench` never stop. The
requester of `ResponseReordering` and the manager of the chain stop making requests at
`MaxIssued`, but the clock goes on and they stutter, and so do the polls of `SwarmBoard`
when its clock has run out. The deadlock check is off in two runs: `algorithms`, where a
walk ends with its input, and `metrics`, where everything stops at the bounds on gates, acts
by hand, collections and pages. In `metrics` the collectors are alike and used as symmetric;
its properties mention no collector.

## 5. Fairness

The only agent of the design is its clock, and weak fairness of `Next` (under its
several names) says that it runs. What is assumed beyond it is the environment, and
only where a property needs it:

- `ActivationLink`: in each direction the receiving bridge accepts again and again and
  an arbiter, if there is one, grants again and again (`Flows`); a stray request is
  never forced; `err_clear`, where software may raise it, is raised again and again
  (`Clearing`). The bridges' ready does not depend on anything that could keep it low
  for ever: `chain` shows this of the integrated chain.
- `ResponseReordering`: each outstanding slot is answered at some time, and the output
  stage takes a response at some time (a manager that keeps BREADY/RREADY low for ever
  is outside AXI's rules).
- `AxiUcieMemChain`: the manager takes responses and presents the W beats it owes
  (`Willing`).
- `SharedLink`: the clock alone.
- `AxiTestbench`: the simulator runs each step that is due (weak fairness of each phase
  and of the clock), and the design, as long as it is clocked, does not withhold for ever
  a ready or valid it may give. That is strong fairness of `Clock({TRUE})` at a rising
  edge, strong because edges alternate, so that it is never continuously enabled; `chain`
  shows it of the design. A kill is never forced and is an end.
- `SwarmBoard`: time passes, the manager polls now and then with a fetch that works, and a
  wait keeps looping. Nothing is asked of the workers, which may stop after any step.

## 6. Proofs

The proofs are for every value of the constants under the assumptions of the modules.

`ResponseReordering_proofs` (assumption: `DEPTH` is a natural number above 1, `None` is
no datum). The inductive invariant is `Inv == RTypeOK /\ Window`. Types alone do not
show that a tag is fresh: one needs that occupied slots lie within the `count`
positions after `head`; and to show that the slot selected is the *oldest* of its ID,
that position in the window is age in tickets. `Window` says both.

- `WindowHolds`: `Inv` is an invariant. The hard step is an edge that allocates at the
  tail, vacates a slot in the middle and reclaims the head, all at once.
- `TagsAreFresh`: position `count` of a window that is not full is outside it.
- `ImplementsPerIdOrder`: initial states map to initial states and every edge is one
  step of `PerIdOrder` (at most one issue, one arrival, one release, the released
  transaction the oldest outstanding of its ID) or a stutter.

`SharedLink_proofs` (assumption: `NUM_RP`, `RX_D`, `Credit` positive, `None` neither a
plane nor a flit). Each result is proved on top of `Types`:

- `PlanesAreIsolated`: a plane's channel is its receive queue with, at the end, the flit
  on the link if it is the plane's. Every edge takes from the front what the bridge
  takes and appends what the arbiter lets in (`ChannelMoves`), so the composition
  implements `PlaneChannels`.
- `NoPlaneStallsTheLink`, under `Credit <= RX_D`: `WithinCredit` bounds what a plane has
  presented and under way, so the queue has a place for the flit on the link.
- `GrantsInTurn`: the number of grants a plane has waited plus its turns left is below
  `NUM_RP` (`TurnsLeft`); each grant to another plane costs at least one turn. The
  conjunct on `locked` is needed because a lock holds a grant for a plane that, by the
  time the link moves, another has overtaken in turn.
- `StalledFlitIsHeld` states `FlitHeld`: a grant that was not taken is locked, so the arbiter
  selects the same plane in the next cycle, and that plane still presents its flit.

`SwarmBoard_proofs` (assumption: the bounds are natural numbers, `Main` is no worker,
`NoFile` no report). `NeverBack` compares what the manager reads next with what it read
before, so the invariant orders the copies of each file: a worker's sandbox is at least as
new as the branch it may push to (`PushesForward`), the origin as what was fetched from it
(`FetchesForward`), and some fetched branch as what was last read (`ReadsForward`); `Past`
(no stamp from the future) makes a report newer than what it replaces. That a push must be
a fast-forward is what `PushesForward` needs of git. `NewestIsNewest` and `NewestIsCopy`
are the facts about `remote_boards`.

`MetricsPipeline_proofs` (assumptions: the bounds are natural numbers, `NoOne` is no
collector, there is a formal task). The SELECT is outside the transaction, so the invariant is about what a
collector remembers of it: the run it found still has that key, since runs are never
removed and keep their keys (`Hits`); in the transaction, what it did not find is still
not there (`Fresh`, for which UNIQUE, checked at the INSERT, and the write lock are both
needed: `Locks`). Then `Unique` and `WholeRuns` are preserved, and a commit only appends a
run or rewrites the one found (`Grows`). `StaysWhole` and `OnlyGrows` follow. On top of that:

- `PageInOrder` states `PageNotBehindItsHeader`: commits are numbered upwards (`Stamps`),
  so what a page's first query saw of a run is no newer than what its second will
  (`Pages`), and a run keeps its key.
- `RowsOfOneGate` states `RowsOfTheirGate`, in two halves. About the state (`Origins`):
  a gate that has skipped nothing and that nobody meddled with has left what its stages so
  far leave, under its own banners, in the tree it began with, and there is no timing until
  it ends (`Progress`); a collector that no gate, edit, target by hand or commit has
  disturbed reads of the gate that is done, so its early and its late readings are of the
  same artifacts and tree (`Reading`); and the run it writes keeps them with its key
  (`RowsMatch`). An act by hand spoils the gate under way and the readings
  (`ProgressSpoilt`, `Disturbed`). About the functions (`MatchingRows`): if all of a gate's
  artifacts are of it, every row `collect_design`, `collect_verif`, `collect_compute` and
  `collect_ai` make is of it, of the tree, of HEAD, of the host or of a swarm's capture, and
  no gap of one collector shadows a number of another; the timing is measured if there is a
  report of it and a gap otherwise (`Timing`). That there is a task (`Tasks # {}`) is needed
  for `proofs_passing` not to be a gap.

`ActivationLink_proofs` (assumption: `None` is no flit). `InStep(X)` lists how far the two
ends and the two links can be apart: both rising, both up or tearing down, or one a single
cycle ahead of the other over the border between the two; `X` holds the requests that a
stray may have forged. There are two inductive invariants over it, checked with TLC before
they were proved:

- `Inv == faults \in Nat /\ (faults = 0 => InStep({}))`: without a stray the ends stay in
  step, whatever software clears. `ErrorNeedsAStray` and `ConnectedTogether` state
  `NoSpuriousError` and `EnabledTogether` as they are checked, `DataIsNotSwallowed` states
  `NoDataWhileActivating` up to the first stray.
- `StrayInv`: with any number of strays the ends are in `InStep(Requests)` until one of them
  is in ERROR, and whatever its peer does, an end that data is coming to takes it before it can
  leave the connection (`DataMet`): a DeactivateAck, which no stray forges, is not in yet.
  It needs `Clears = {{}}`, as the run `act_teardown` has it: software that clears one end
  alone brings it up against a peer that still sends data. `StraysSwallowNoData` states
  `NoDataWhileActivating` as it is checked.

Every theorem is under `HeldOff = {}`: with a transmitter that can be held off during
bring-up they are false, which the run `act_backpressure` shows and section 7 discusses.

`AxiUcieMemChain_proofs` (assumptions: `DataCode` grants at least one beat, queue and memory
are not empty, the requests are those AXI allows, `None` is nothing that can be present).
The inductive invariant is `Inv == Types /\ (Booting \/ Running)`:

- `Booting` is the bring-up in six stages that both ends go through in the same cycle,
  with the flits on both links and the credits (none before the CrdtGrants, all after).
- `Running` has three parts. `Books`: the manager's unanswered requests are the one in the
  datapath, then the queue's, then the over-long one of the error responder. `Turns`: the
  error responder and the datapath do not take W beats or give responses in each other's
  way. `Phase`: at home, request on the link, writing, all written, response on the link,
  reading; each phase says what is on both links, how many beats are where, and what every
  credit counter holds and owes.

`PhaseStep` shows that an edge leads from a phase to a phase, one lemma per phase, each
from what an edge does to one block at a time (`IniMoves`, `TgtMoves`, `MemMoves`,
`FeMoves`, `MasterMoves`). The credits close because a return code is worth at least what
it was encoded from (`Encodes`) and the receiver of a return stops at its ceiling
(`IniGrants3`, `TgtGrants3`). `FsmsInStep`, `NoCreditBeyondGrant` and `NoCreditLeaks` are
read off the phases.

The second half of the module adds the data. `Data` is inductive together with `Inv`:

- `Walk`: the target bridge's address is that of its beat. For INCR it is the start plus
  beats times size, which differs from the AXI formula's container below the word, for WRAP
  it is the formula's address, and stepping `axi_burst_next` keeps it so (`WalkNext`); in
  all three the memory word is the one the manager computes (`SameWord`).
- `Store` and `Load`: a write beat is presented, held by the memory, or stored and
  answered, and only in the second the memory is about to change (`StoreWorks`); a read beat
  is the word at its address.
- `WBeats` and `RBeats`: the buffers and the links hold the next beats of the burst, the
  beat counts of `Inv` giving their indices.
- `Contents`: the memory is the manager's (`shadow`), or, from the first stored beat of a
  write to its answer, what the beats so far made of it (`After`). Whether a later beat of
  the same burst falls on the word of an earlier one, as a FIXED or a wrapping burst can make it,
  does not matter: a word is as the last beat that had its strobes left it (`AfterBeat`).

`EveryResponseRight` and `MemoryIsTheManagers` follow: with an R beat on the link no write is
being stored, so the memory read is the manager's.

`AxiTestbench_proofs` (assumptions on widths and random data only: 8 to 24 address bits, 8 to
30 data bits, random addresses and data that fit them; none on the design or the number of
kills). `CountsAreOurs` states `CountsThisRun`. The bins an invocation has hit (`hits`, which
no code keeps) are in two places: what the tests before hit is in the database, what the test
in hand hit in its collector, and from the moment the database is emptied to the moment it
is written back the collector has both (`Where`); sampling and loading commute
(`LoadLate`). A kill in between loses them, but ends the invocation, and the next one
drops the file first.

The other three invariants are read off `Bench`, which is inductive:

- `StimulusLegal`: every item of every body, drawn or directed, is a burst AXI allows, and
  `NextBeat`: on those `next_addr`, beat by beat, is the AXI formula the memory uses.
- `InHand`: the `await` the driver is at says what the queue of the design and the monitor
  hold, one disjunct for a write (`WriteIn`), a read (`ReadIn`) and overlapping reads
  (`MultiIn`). The monitor's write context is the item's at the beat the driver has got to
  (`Writing`), its open reads are the design's queue (`Reading`), and between transfers all
  are empty (`Empty`). One lemma per handshake (`TakeAW`, `TakeW`, `TakeB`, `TakeAR`, `TakeR`)
  says what a rising edge does to driver, design and monitor at once.
- `Known`: the model that the scoreboard makes of the writes seen is the memory, and no read
  seen so far differs from it.

`MonitorMirrors`, `ScoreboardIsRight` and `DriverGetsItsBeats` follow. For the last,
`OneBeatMore` counts the beats `read_multi` has of each request while the requests overlap.

`Algorithms_proofs` (assumptions: stamps are integers, gaps and addresses natural numbers, the
`NULL` of the code's `None` is no number and no name, scope and name tell the series, a domain comes
once; nothing on lengths, numbers of agents, steps, series or values). Each walker has an
inductive invariant that says of the input walked so far what the property says of a whole
one, and `WalkersKeepOn` puts them together:

- `ReturnsCover`: the code of a count is the one whose bucket covers it while the one below
  does not (`Fits`), and buckets grow.
- `ContainersKept`: `At` says at which address the walk is at beat k; for WRAP counting in
  steps of a divisor (`Counting`) is the formula's remainder.
- `AgentsAccounted`: a record tells of the events of its agent (`TellsOf`): an event adds to
  one record (`ToldOfIt`) and to no other (`ToldOfNoOther`), and an agent that comes up has
  had none (`BlankTells`). Rows of one name have growing numbers (`RowsApart`). For the
  sweep, `SweepInv`: what is done comes before what is left, so that `cur` is the number of
  spans started and not ended; where all starts up to t are done, no more than `best` were
  open at t, and somewhere that many were.
- `SecondsAddUp`: a stamp that is p or later adds the seconds from p to itself, to the line that
  bears it and to no other (`Stamped`), and the open step is the last banner (`Banners`).
- `RegressionsOnce`: a series is in the list if its row has been and it got worse; before its
  domain, and before its chart, it is not, which is what makes the test against listing it
  twice needless for charts (`RegressInv`).

Only model-checked: all liveness properties (they need fairness and ENABLED); the recovery
from ERROR, which is one; and `NoTestFails`, that the directed sequence closes the coverage,
which for arbitrary widths means computing every bin of every directed item by hand. Walks
over data are proved by invariants of their steps, and where a least or a last element is
needed its existence comes from the library's facts about finite and well-founded sets;
theorems of induction with a predicate as parameter are not used.

## 7. Where code and documentation disagree

1. `rtl/aou_activation.sv:270` against the comment at line 46 (`act_backpressure`). An
   end moves to ENABLED on `aack_sent`, `aack_rcvd` and `crdt_rcvd`, not on `crdt_sent`,
   and an ENABLED end no longer sends its CrdtGrant. If its transmitter is kept waiting
   just then, the grant is skipped; its data reaches a peer still in ACTIVATE, which
   consumes it silently and waits for ever. In the single-plane chain only a full link
   makes the transmitter wait, and then the property holds (`act_teardown`).
   `formal/aou_activation_fv.sv` leaves `tx_ready` free, as `act_backpressure` does for
   one end.
2. `tools/swarm/board.py:208` and 211 against line 19 (`board_wait`). `cmd_wait` hands
   `cmd_show` a `Namespace` with `stale_min` and `json` only, and `cmd_show` reads
   `a.active` and `a.brief`: both exits of the wait raise AttributeError.

Noticed while modelling, without a run of their own:

- `rtl/aou_activation.sv:262` against line 38: a DeactivateReq received in DISABLED is
  dropped instead of leading to ERROR; the arm does not test `err_now`.
- `rtl/aou_activation.sv:308` against line 41: `err_clear` of one end does not lead to
  re-initialisation; the peer, ENABLED, takes the fresh ActivateReq for an inconsistent
  one, and cleared in turn it has lost it. `docs/NOTES.md:193` warns of this case.
- The header of `rtl/aou_reorder.sv` (lines 18 to 22) says that the block is not wired into
  the datapath, but the initiator bridge instantiates two with `OOO_EN = 1`.
- `board.py:21` gives a state machine assigned, running, blocked or done; `update` after
  `done` goes back to running. The wait ends on STALE rows too, and a retired worker that
  never reported (NO_REPORT) keeps it waiting until the timeout. Two copies with the same
  second are told apart by branch order (line 138).
- `metrics/collect.py:18` and `docs/NOTES.md:64` say that the schema enforces that a
  modelled number is not tagged measured and that a gap has no value; the CHECK of
  `metrics/schema.sql` allows every tag with every value. The three functions of `Rows` are
  what keeps the rule.
- `max_overlap` (`metrics/collect.py:1092`) calls its spans closed, but ends sort before
  starts: a span of no length counts as no agent.
- The build seconds of a gate (`collect.py:730`) are those *before* a compiler's line,
  although make echoes a command before it runs.
- `dashboard.py:388` compares scope and name but not the domain. `wall_s` is in two domains,
  compute and ai, but under different scopes (`gate`, a step or an environment there, none
  or an agent here), so no two series are confused today.
- `git_dirty` is taken of the whole repository (`metrics/collect.py:1265`), and `metrics.db`
  is committed: from the first run stored until somebody commits the database, every run is
  flagged dirty, whether or not the sources were edited.

## 8. What is not modelled

- The out-of-order datapath of the initiator bridge and `aou_ooo_resp_src`, elaborated
  with `OOO_EN = 1` only. Their core, `aou_reorder`, is modelled on its own. The rest, the
  tag tables, beat accumulators, output stages and throttles around two buffers, composed
  with the chain multiplies its states beyond what TLC explores at bounds at which
  responses overtake. Open with it: whether a request flit that stalls on the link and is
  rebuilt from credits still owed stays stable (`dv/sva/aou_flit_sva.sv:46`), and whether
  `Credit <= RX_D` holds behind a shared link.
- The multi-plane top as a whole. One direction of its shared link is; the bridges
  behind it are left free within their credit, which is more than they do.
- The flit bit layout and the message packing of `aou_pkg`, and its Python mirror
  `dv/common/aou_flit_log.py`: positions of bits and text.
- Parameters that only widen a bus; X values; reset in the middle of operation (it
  resets every register at both ends at once and so returns to `Init`).
- `dv/random/rr.py` (a pool of independent simulations; it shares only a directory of logs,
  which two runs started in one second would share too), `dv/waves/wave_check.py` and
  `dv/cocotb/aou_debug.py` (lookups and printing).
- Of the metrics: parsers, units, coefficients and the HTML. Captures of single environments
  (`env-*.time`) and of the swarm may be older than the gate; `RowsOfTheirGate` leaves them
  out, as nothing in the code ties them to a gate. Likewise a skipped tier leaves an older
  `sim/coverage.info` or status file, which is then collected, and a coverage or formal target
  run by hand after the gate, or an edit, is collected under the gate's log: these happen in
  the model, and the property promises nothing of such a run. A `last-run-metrics.json` left
  over makes later runs `swarm` runs.
- Of the key of a run: outside of CI its token is the modification time of the log in whole
  seconds (`metrics/collect.py:1279`), which the model takes for the identity of the log as far
  as it is written. Two states of a log within one second have one token in the code; then a
  collection of the later replaces the run of the earlier, as a collection made again does.
  In CI the token is `GITHUB_RUN_ID` and the attempt; one such run is modelled. The trigger is
  that of a result or of CI; `--trigger`, `--run-key`, `AOU_SWARM_RUN`, a Railway host and a
  directory without git are left out. A commit of nothing but the database, which moves HEAD and not the
  sources, is left out too, and so is `make clean`.
- Of the board: crashes in the middle of writing a JSON file, clocks that disagree between
  sandboxes, a failed `git commit` (it goes unnoticed, `check=False`).
- The other testbenches, assertions and formal harnesses (read for what they say of the
  RTL), containers and the concatenated copy of the RTL under `eda/`.

## 9. Plan and order of work

Done, in this order: activation (the most intricate protocol, and a gate for all else);
the reorder buffer with its abstract specification and proofs; credit and burst
arithmetic; the front end, the in-order datapath, target and memory and the chain that
composes them; the shared link with its abstract specification and proofs; the status
board and its proof; the bench from items to coverage; the metrics pipeline and its
proofs; the pure algorithms of the metrics; the proofs about activation; those about the
chain, first its control and credits, then its data; the origin of the metrics' rows and
the pages; the bench's coverage database; the flit a shared link holds; the bench's driver,
monitor and scoreboard; the algorithms.

Worth doing next: `OooInitiator` with an
`AxiMaster` whose order is per ID (`PerIdOrder` is the abstract specification, already
there); two activation blocks behind each end of a shared link, to see whether the arbiter
produces the schedule of `act_backpressure`.

The modules to be proved about declare no recursive operator; recursion in the others
is by the folds of the community modules.

## 10. How to run

With `tla2tools` and the community modules on the path, for each run `R` of module `M`
in `PROJECT.json`:

```
tlc -workers 2 -config R.cfg M
tlapm ResponseReordering_proofs.tla
tlapm SharedLink_proofs.tla
tlapm SwarmBoard_proofs.tla
tlapm MetricsPipeline_proofs.tla
tlapm ActivationLink_proofs.tla
tlapm AxiUcieMemChain_proofs.tla
tlapm AxiTestbench_proofs.tla
tlapm Algorithms_proofs.tla
```

Every passing run finishes within three minutes on two cores; the proofs take about six
minutes for the chain, four for the bench, three for the algorithms and less for the others.
