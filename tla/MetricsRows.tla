------------------------------ MODULE MetricsRows ------------------------------
(***************************************************************************)
(* The rows metrics/collect.py makes of the artifacts a run left behind.   *)
(* A number is modelled by where it comes from: a row is                   *)
(* [kind, from], from being the gate, the tree, the commit or the swarm    *)
(* run the number was read from or computed of, NULL for a gap.  Rows are  *)
(* a function from <<domain, scope, metric>>; units and source texts are   *)
(* left out.                                                               *)
(*                                                                         *)
(* The artifacts a:                                                        *)
(*   tree       the working tree;  rtl the one it was when it was read;    *)
(*              head the commit HEAD is at                                 *)
(*   log        gate.log: [gate, banners, tree], banners the stages it has *)
(*              a banner of ("cocotb": [TEST] and [COV-FUNC]), tree the    *)
(*              one the gate began with; gate NULL: no log                 *)
(*   time       gate.time;  coverage sim/coverage.info;  fcov fcov.json    *)
(*   formal     the status files: task -> gate                             *)
(*   envtime    env-*.time: environment -> its capture                     *)
(*   result, stream   last-run-metrics.json and swarm-stream.jsonl         *)
(*   tools      what of verilator, yosys, flat, hier and a base works; see *)
(*              also MetricsPipeline                                       *)
(***************************************************************************)
EXTENDS Naturals, Sequences, FiniteSets

CONSTANTS
  Modules,      \* the modules of the RTL below the top
  Envs,         \* DV_ENVS but cocotb
  Tasks         \* FORMAL_PROOFS x FORMAL_TASKS

ASSUME MetricsRowsAssumption == Tasks # {}

NULL == <<>>
Row(kind, from) == [kind |-> kind, from |-> from]
MEASURED(from)  == Row("measured", from)
ESTIMATED(from) == Row("estimated", from)
GAP == Row("not_attributable", NULL)

Keys(domain, scopes, names) == {domain} \X scopes \X names
None == [k \in {} |-> GAP]

\* The rows f and, where it has none, those of g.
f ++ g == [k \in DOMAIN f \cup DOMAIN g |-> IF k \in DOMAIN f THEN f[k] ELSE g[k]]

Put(keys, row) == [k \in keys |-> row]

\* A number that is there if its artifact is, a gap otherwise.
Or(artifact, keys, gap) == IF artifact # NULL THEN Put(keys, MEASURED(artifact)) ELSE Put(gap, GAP)

\* yosys_synth: the flattened pass and the one that keeps the hierarchy.
yosys_synth(a, mode) == mode \in a.tools

\* What the cells of a netlist are tallied into: counts of technology independent
\* cells are measured, weighted ones estimated.
tally(scope, tree) ==
  Put(Keys("design", {scope}, {"cells", "gate_equivalents"}), ESTIMATED(tree))
    ++ Put(Keys("design", {scope}, {"flops", "memory_cells", "netlist_wire_bits"}), MEASURED(tree))

collect_design(a) ==
  LET lint == IF "verilator" \in a.tools
              THEN Put(Keys("design", {""}, {"verilator_warnings", "verilator_errors"}), MEASURED(a.rtl))
              ELSE Put(Keys("design", {""}, {"verilator_warnings"}), GAP)
      loc  == Put(Keys("design", {""} \cup Modules, {"rtl_loc", "rtl_loc_code"})
                    \cup Keys("design", {""}, {"rtl_modules"}), MEASURED(a.rtl))
      flat == IF ~yosys_synth(a, "flat") THEN Put(Keys("design", {""}, {"cells"}), GAP)
              ELSE tally("", a.rtl)
                     ++ Put(Keys("design", {""}, {"memory_bits", "comb_path_levels"}), MEASURED(a.rtl))
                     ++ Put(Keys("design", {""}, {"fmax_mhz"}), ESTIMATED(a.rtl))
      hier == IF ~yosys_synth(a, "hier") THEN Put(Keys("design", {"*per-module*"}, {"cells"}), GAP)
              ELSE [k \in UNION {DOMAIN tally(m, a.rtl) : m \in Modules} |-> tally(k[2], a.rtl)[k]]
                     ++ Put(Keys("design", Modules, {"instances"}), MEASURED(a.rtl))
  IN  loc ++ lint ++ (IF "yosys" \notin a.tools THEN Put(Keys("design", {""}, {"cells"}), GAP)
                      ELSE flat ++ hier)

\* The banner of a simulation has the goal coverage; without it the raw bins of the
\* database are what is left.
func_coverage(a) ==
  LET keys(names) == Keys("verif", {"cocotb"}, names)
  IN  IF "cocotb" \in a.log.banners
      THEN Put(keys({"func_coverage_pct", "func_goal_bins", "func_goal_bins_hit"}), MEASURED(a.log.gate))
      ELSE Or(a.fcov, keys({"func_bins_hit_pct", "func_samples"}), keys({"func_coverage_pct"}))

ENV_BANNERS(a) ==
  IF a.log.gate = NULL THEN None
  ELSE [k \in Keys("verif", Envs, {"checks"}) |->
          IF k[2] \in a.log.banners THEN MEASURED(a.log.gate) ELSE GAP]

collect_verif(a) ==
  LET tests  == IF "cocotb" \notin a.log.banners THEN None
                ELSE Put(Keys("verif", {"cocotb"}, {"tests_passing"}), MEASURED(a.log.gate))
      run    == {t \in Tasks : a.formal[t] # NULL}
      proofs == [k \in Keys("verif", run, {"proof_pass", "solve_s", "bmc_depth"}) |->
                   MEASURED(a.formal[k[2]])]
      total  == IF run = {} THEN Put(Keys("verif", {""}, {"proofs_passing"}), GAP)
                ELSE Put(Keys("verif", {""}, {"proof_tasks_run", "proofs_passing"}),
                         MEASURED(IF Cardinality({a.formal[t] : t \in run}) = 1
                                  THEN a.formal[CHOOSE t \in run : TRUE] ELSE <<"several">>))
  IN  Or(a.coverage, Keys("verif", {""}, {"line_coverage_pct", "line_coverage_points"}),
         Keys("verif", {""}, {"line_coverage_pct"}))
        ++ func_coverage(a) ++ tests ++ ENV_BANNERS(a)
        ++ Put(Keys("verif", {""}, {"sva_assertions", "cover_properties"}), MEASURED(a.tree))
        ++ proofs ++ total
        ++ Put(Keys("verif", Envs \cup {"cocotb"}, {"sim_cycles"})
                 \cup Keys("verif", {""}, {"throughput_cycles_per_s"}), GAP)

collect_compute(a) ==
  LET gate == Or(a.time,
                 Keys("compute", {"gate"}, {"wall_s", "core_seconds", "user_s", "sys_s", "peak_rss_mb",
                                            "cpu_utilization_pct"}),
                 Keys("compute", {"gate"}, {"wall_s"}))
      per_env_measured == {e \in DOMAIN a.envtime : a.envtime[e] # NULL}
      envs == [k \in Keys("compute", per_env_measured, {"wall_s", "core_seconds", "peak_rss_mb"}) |->
                 MEASURED(a.envtime[k[2]])]
      steps == Put(Keys("compute", {""}, {"build_s", "run_s"})
                     \cup Keys("compute", a.log.banners \ per_env_measured, {"wall_s"}),
                   ESTIMATED(a.log.gate))
                 ++ Put(Keys("compute", {"gate"}, {"log_span_s"}), MEASURED(a.log.gate))
      modeled == IF a.time = NULL THEN None
                 ELSE Put(Keys("compute", {""}, {"ci_cost_usd", "cpu_energy_wh"}), ESTIMATED(a.time))
  IN  Put(Keys("compute", {""}, {"runner_vcpu", "runner_ram_mb", "vl_jobs"}), MEASURED(<<"host">>))
        ++ gate ++ envs
        ++ (IF a.log.gate = NULL THEN Put(Keys("compute", {""}, {"build_s"}), GAP) ELSE steps)
        ++ modeled

\* Tokens are counted for the whole swarm, one model here; what a model cost or
\* used is a coefficient times its tokens.
collect_ai_from_result(a) ==
  Put(Keys("ai", {""}, {"turns", "wall_s", "api_s", "total_tokens", "output_tokens", "cache_hit_ratio",
                        "output_tokens_per_s"})
        \cup Keys("ai", {"*aggregate*"}, {"input_tokens", "output_tokens", "cache_read_tokens",
                                          "cache_create_tokens"}), MEASURED(a.result))
    ++ Put(Keys("ai", {""}, {"cost_usd", "inference_energy_wh"})
             \cup Keys("ai", {"*aggregate*"}, {"cost_usd", "energy_wh"}), ESTIMATED(a.result))
    ++ Put(Keys("ai", {""}, {"per_model_wall_time"}), GAP)

\* AgentStream has the walk; here only what it is of.
stream_rows(a) ==
  Or(a.stream, Keys("ai", {"swarm-manager"}, {"turns", "tool_calls", "tool_errors", "wall_s"})
                 \cup Keys("ai", {""}, {"agents_dispatched", "stream_events"}),
     Keys("ai", {"*per-agent*"}, {"attribution"}))

collect_pr_outcome(a) ==
  IF "base" \notin a.tools THEN Put(Keys("ai", {""}, {"pr_files_changed"}), GAP)
  ELSE Put(Keys("ai", {""}, {"pr_files_changed", "pr_lines_added", "pr_lines_removed"}), MEASURED(a.head))
         ++ Put(Keys("ai", {""}, {"pr_human_fix_needed"}), GAP)

collect_ai(a) ==
  (IF a.result = NULL THEN Put(Keys("ai", {""}, {"run_reported"}), GAP) ELSE collect_ai_from_result(a))
    ++ stream_rows(a) ++ collect_pr_outcome(a)

\* All of a run.
rows(a) == collect_design(a) ++ collect_verif(a) ++ collect_compute(a) ++ collect_ai(a)
===============================================================================
