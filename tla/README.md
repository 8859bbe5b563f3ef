# TLA+ verification of the query benchmarking executor

This directory models `src/contrib/tee_adaptive_selector/`. It holds TLA+ modules, TLC configurations and TLAPS proofs.

## 1. Inventory

### Components and their state

| Component | Source | State | Operations |
|---|---|---|---|
| Connection Manager | `execute_sql_queries_enhanced_with_analyze.py` 91-127 | `self.connection` (none / open / closed) | `connect()` (psycopg2.connect, then optional `SET statement_timeout`), `disconnect()` |
| Execution Mode Dispatcher | same file, 383-557 | a scoped cursor per call | `execute_query_simple`, `execute_query_with_detailed_timing`, `execute_query_with_explain` (+ `get_explain_analyze_json`, `_build_explain_sql`) |
| Plan Tree Extractor | 296-377 | none (pure) | `extract_plan_tree`, recursive over `Plans` and `Workers[].Plan` |
| Plan Summarizer | 201-294 | none (pure) | `summarize_plan`, `collect_buffers`; any exception becomes `{"error": ...}` |
| Round Orchestrator | 574-651 | `sql_files`, loop counters, `round_times`, per-round counts | `load_sql_files`, `execute_all_queries` |
| Result Aggregator / Persister | 653-703 | `self.results`, `self.round_times`, the JSON report | `save_results` |
| `main()` | 793-897 | argv-derived settings | try / except KeyboardInterrupt / except Exception / finally disconnect |
| Environment configuration, comparison | 706-790 | none | file I/O and printing only |
| Fingerprint cache generator | `generate_sql_speedup_hash_cache.py` | none | `hash_bytes` (32-bit mix/final), `strip_explain_prefix`, `normalize_sql`, `map_scenario` |
| Log-to-query mapping | `map_queries_to_components.py` | none | sort results by timestamp, zip with log components |
| Similarity comparison | `compare_component_similarity.py` | none | label normalisation tables, Hamming distance over (CE, CM, JN) |

### How they interact

`main` builds one executor and calls `execute_all_queries`. That function calls `connect`, then `load_sql_files`. For each round r and each file it calls one execution mode, which appends a result named `<file>_round<r>` to `self.results`. After each round it prints counts filtered by `"_round<r>" in name`. It then computes the round statistics and calls `disconnect`. `main` then calls `save_results`, and its `finally` calls `disconnect` again. In plan mode, `get_explain_analyze_json` calls `summarize_plan`, which calls `collect_buffers` and `extract_plan_tree`.

The offline tools consume the saved report:
- the mapping tool zips query names, sorted by timestamp, with log lines;
- the cache generator and the comparison tool strip the `_round1` suffix.

### What is hard

There is a single thread and a single connection, so there is no concurrency. What is hard:
- **Failure paths of a long sequential run.** Connect can succeed while `SET` fails. No rounds means `ZeroDivisionError`. A KeyboardInterrupt can arrive mid-round. A save can fail. Each path reaches main's `finally` from a different place.
- **Name-based bookkeeping.** The per-round counts use a substring test. Downstream joins rely on `<file>_round<r>`.
- **Timing semantics.** `time.time()` is a wall clock. Detailed mode sums four phases. Plan mode prefers the server time, but the summarizer can fail and that preference is lost.
- **Unbounded recursive plan documents.** Buffer aggregation and tree extraction recurse differently: only extraction descends into `Workers[].Plan`.

### Properties that make each component correct

- Connection Manager: the connection is closed at exit on every path.
- Orchestrator:
  - results appear in round order and, within a round, in sorted file order, named by that (file, round);
  - the per-round counts are exact;
  - a written report covers exactly the requested rounds.
- Aggregator: the counts and the average follow spec 4.6, and an interrupt still persists results (spec 5).
- Dispatcher: a successful result has time >= 0; plan mode uses the server time when the document has one.
- Extractor / Summarizer: the summary buffers equal the sum over the decoded tree; children keep their order.
- Collaborators:
  - the fingerprint is the specified 32-bit function;
  - `map_scenario` is idempotent;
  - the Hamming distance is a metric over the label table.

The hazards that these properties target are listed, each at its source line, in `PROJECT.json` under "hazards".

## 2. Plan

1. **QueryExecutor** (done). This is the whole run of `main()` as one state machine. Connection, dispatcher, orchestrator and persister share one object's state, so one module models all of them. Plan documents are abstracted to two facts.
2. **BenchmarkRun** and **QueryExecutorRefinement** (done). This is an abstract specification of what one run promises, and the mapping under which QueryExecutor implements it.
3. **PlanTree** (done). It covers `summarize_plan`, `collect_buffers` and `extract_plan_tree` over bounded plan documents.
4. **Labels** (done). It covers `map_scenario` and the label tables of the comparison tool.
5. **ExplainClause** (next). This is `_build_explain_sql` as a sequence of option tokens, together with the parse by `strip_explain_prefix`. It checks that normalisation removes the clause the executor adds.
6. **Fingerprint**. `hash_bytes` with Bitwise (TLC only), checked on bounded byte strings against a definition written block by block.
7. **ReportConsumers**. The results of QueryExecutor, with wall-clock timestamps, are fed to `load_query_names`. The check is that the zip pairs each query with its own log line when the clock is monotonic, and fails to when the clock steps back.
8. More proofs:
   - the argv conversion of the timeout (`int(float(x))`, line 847).

## 3. Modules

### QueryExecutor.tla

| Code | Model |
|---|---|
| argv (iterations, mode, timeout) | `Init` picks `iterations`, `mode`, `timeoutMs` from `IterationChoices`, `Modes`, `TimeoutChoices` |
| `self.connection` | `conn` in {none, open, closed} |
| `sql_files` | `queries`, a strictly increasing sequence of file indices (`SortedLoads`: sorted glob minus empty or unreadable files) |
| loop variables r, i | `r`, `i` |
| `self.results` | `results`, records with file, round, status, time, basis (client / phases / server), summary, doc |
| local `round_times`, `self.round_times` | `roundTimes`, `savedRounds` |
| printed round counts | `roundCounts` |
| JSON report | `report` (`NoReport`, `SaveFailed` or a `Report` record) |
| where `main` is | `pc` |

There is one action per operation:
- `connect`: three outcomes;
- `load_sql_files`: includes entering the round loop;
- `execute_query_simple`, `execute_query_with_detailed_timing`, `execute_query_with_explain`: each guarded by the mode;
- `end_round`: round time plus substring-filtered counts;
- `finish_rounds`: statistics, or the exception when no round ran, plus the inner `disconnect`;
- `save_results`: written or write failure;
- `interrupt`: KeyboardInterrupt or another exception escaping into main;
- `disconnect`: main's `finally`;
- `Terminated`: the process has exited.

Abstractions:
- Durations are integers drawn from `ClockDeltas`. This is a monotonic clock in {0,1}, or a clock that can step back, in {-1,0,1}.
- A plan document is only `[execTime, wellFormed]`.
- The timing sums in the report are dropped, since no property reads them. Only the denominator of the average is kept.
- The substring test `"_round<r>" in "<file>_round<rr>"` is `RoundTagIn(r, rr)`: the digits of r are a prefix of those of rr. This is exact for JOB-style file names, which contain no `_round`.

### BenchmarkRun.tla and QueryExecutorRefinement.tla

`BenchmarkRun` is written from spec sections 4.1, 4.5, 4.6 and 5. It does not follow the code. A run has the stages setup, running, stopped and exited, and a session that is none, open or closed. It has:
- a query list that is fixed once;
- a log of (query, round, status) entries, appended in round order and in list order within a round, for at most the requested rounds;
- a report that is written at most once, after dispatch, over the whole log, with whole requested rounds or none.

Its actions are `Connect`, `Load`, `Dispatch`, `Stop`, `Persist` and `Exit`. `ASpec` adds weak fairness.

`QueryExecutorRefinement` maps QueryExecutor onto it:
- `Stage` groups `pc`;
- `conn` is the session;
- `Entries(results)` drops the timing fields of each result;
- `SavedReport` is the written report, or none after a failed write.

`BenchmarkRunSpec == BR!ASpec` is a property of the core run.

### PlanTree.tla (TLC only, RECURSIVE)

| Code | Model |
|---|---|
| the document after `json.loads(json.dumps(..))` | `doc`: a root (node 1, a missing `Plan`, or a null one) and up to `NumNodes` nodes |
| a node's counter keys | `counters`, each a count in `Counts` or `Null` |
| `Plans` | `plans`, a sequence of later nodes, so the document is acyclic and each node has at most one parent |
| `Workers` | `Null`, or a list of entries that are `NotObject` or carry a `plan` (a later node or `Null`) |
| `collect_buffers` | `collect_buffers(doc, n, agg, depth)`: the key loop is `AddCounters`, followed by a fold over `Plans`; it never reads `Workers` |
| `extract_plan_tree` | `extract_plan_tree` with `CopyWorker`; `dict(w)` raises on a non-object entry |
| Python's recursion limit | `RecursionLimit`: a deeper call raises |
| the `try/except` of `summarize_plan` | `summarize_plan_of` returns `SummaryError` when anything raises |

The reference definitions the properties compare with are written independently of the code:
- `DocPreorder`, a preorder of the document;
- `TreePreorder`;
- `TreeSum`, a sum over the decoded tree, optionally including worker subtrees.

### Labels.tla

A label string is abstracted to three things: its word (one of the table keys, or one of `OtherWords`, including the empty word), its case, and whether whitespace pads it. `strip`, `lower`, `upper` and truthiness act on exactly these.

| Model | Code |
|---|---|
| `map_scenario` | `generate_sql_speedup_hash_cache.py` 165-184 |
| `BestCombo` | `load_best_csv` |
| `PredCombo` | `parse_map_line` with the COMP_NORM lookup |
| `Distance` and `hamming` | `evaluate` |

The state is one cell, the cached scenario and the distance.

One assumption is made: the engine logs the cached scenario as it is written. It is the only link between the two tools, and it comes from code that is not in this repository.

## 4. Runs

| Run | Config | Result | What it shows |
|---|---|---|---|
| core | `MCQueryExecutor.cfg` | pass, 262k states | The properties below over all three modes, 0-2 loaded files, iterations in {-1,0,1,2}, timeout 0 or 5, and every failure and interrupt point; also `BenchmarkRunSpec`. |
| round_tags | `MCQueryExecutor_rounds.cfg` | pass, 39k states | 11 rounds of one file. `"_round1"` matches the names of rounds 10 and 11, yet the printed counts are exact because they are taken before those rounds run. |
| avg_over_successful | `MCQueryExecutor_avg.cfg` | violation | The average is over all results, not successful ones (spec 4.6). |
| interrupt_persists | `MCQueryExecutor_interrupt.cfg` | violation | An interrupt after results were collected writes no report (spec 5). |
| wall_clock | `MCQueryExecutor_clock.cfg` | violation | A clock step back gives a successful result a negative time (spec 8). |
| server_time_fallback | `MCQueryExecutor_server.cfg` | violation | A summary that fails to decode makes a result client-timed although the server time existed (spec 4.2). |
| plan_tree | `MCPlanTree.cfg` | pass, 21k states | Plan documents of up to 3 nodes, one counter key with values 0, 1 or null, at most one worker, and recursion limit 2. |
| worker_buffers | `MCPlanTree_workers.cfg` | violation | Summary buffers leave out worker subplans, which the decoded tree contains (spec 4.4). |
| label_tables | `MCLabels.cfg` | pass, 312 states | Every table word, an unknown word, a word with `_` and the empty word, in every case and padding. |
| scenario_idempotent | `MCLabels_idempotent.cfg` | violation | A whitespace-only cell maps to `""`, which maps to `NONE` (spec 8: "total and idempotent"). |

Properties of the passing runs:
- `TypeOK`.
- `RoundCountsExact`: the printed counts equal the exact counts of the round.
- `ResultsInRoundOrder`: the k-th result is (queries[(k-1) % n + 1], (k-1) div n + 1).
- `ReportCoversRun`: the report holds all results, its round count is `iterations` (or 0 after a failed connect), and its total is rounds × files.
- `ConnectionReleased`: at exit the connection is not open.
- `BenchmarkRunSpec`: the run implements `BenchmarkRun` under the refinement mapping, including its fairness.
- `BufferSumOverChildren` (plan_tree): each summary buffer equals the sum of that counter over the root and its `Plans` descendants.
- `PreorderPreserved` (plan_tree): the decoded tree, workers included, lists the nodes in the document's preorder.
- `ErrorOnlyOnMalformed` (plan_tree): the error digest appears exactly when the document is malformed, that is, when:
  - the root is null;
  - a worker entry is not an object;
  - the document is deeper than the recursion limit.
- `ToolsAgree` (label_tables): the scenario cached for a cell, read back by the comparison tool, has the same flags as the cell.

Each property has a mutant in `PROJECT.json`: a plausible bug in the mapped code that TLC must catch.

**Bounds.**
- Two files and two rounds are enough for every ordering, naming and off-by-one case: a second file in a round and a second round.
- Iterations -1 and 0 exercise the path where no round runs.
- 11 rounds are the smallest bound at which the substring filter becomes ambiguous.
- Round durations are fixed to one value because no property compares them.
- Plan documents: three nodes give a child and a grandchild, a worker subplan beside a child, and a chain deeper than a recursion limit of 2. A single counter key suffices because keys are summed independently. Counts 0 and 1 separate "present and zero" from missing.

**Fairness.** `WF_vars(Next)` is weak fairness on the only thread. The program never blocks, except on the database, which the model treats as an action with several outcomes. Interrupts are not forced by fairness. The only temporal property checked under it is the fairness part of `BenchmarkRunSpec`. No separate "the connection is eventually closed" property is stated. Every loop of the run is bounded by the rounds and files, so that property would add only termination to `ConnectionReleased`.

## 5. Proofs

`QueryExecutorProofs.tla`, checked by `tlapm`:
- **TypeCorrect**, `Spec => []TypeOK`. The inductive invariant is `TypeOK /\ LoopCounters`. r and i must be positive inside the loop, so that a result's round is non-zero and `queries[i]` is a file.
- **ConnectionReleasedHolds**, `Spec => []ConnectionReleased`. The property is inductive by itself. The only step into "done" is main's `disconnect`, which closes an open connection, and nothing leaves "done".
- **ReportCoversRunHolds**, `Spec => []ReportCoversRun`. The strengthening `RoundBookkeeping` says that:
  - while round r runs, `Len(roundTimes) = r - 1` and `Len(results) = (r-1)·n + (i-1)`;
  - when the loop exits, results are whole rounds and there are `iterations` of them, unless none ran;
  - no report exists before the save.

The lemmas are:
- `CountIsNat`: counts over sequence positions are natural numbers;
- `SortedLoadsType`;
- `MkResultType`;
- `RunQueryInv`.

The proofs rely only on the `ASSUME`s of QueryExecutor, for example `ClockDeltas \subseteq Int` and `IterationChoices \subseteq Int`. They hold for every number of files and rounds.

`QueryExecutorRefinementProofs.tla` proves **RefinesBenchmarkRun**, `Spec => BR!ASafety`: every step of the executor is a `BenchmarkRun` step or a stutter under the mapping.

The invariant is `RefInv = RInv /\ ConnAtStart`. `ConnAtStart` says the connection is none before connect and open at load. The steps are:
- `InitMaps`;
- `StepMaps`, with one case per action:
  - a query maps to `Dispatch`;
  - the round end and the statistics map to a stutter or `Stop`;
  - a written save maps to `Persist`, because `WholeRounds` gives `Len(results) = rounds·n`;
  - a failed save maps to a stutter.
- `RunQueryMaps` uses `DivModSlot`. This lemma says that the result appended at `(r-1)·n + i` has slot `(queries[i], r)`.

The fairness part of `BenchmarkRunSpec` is model-checked only.

`QueryExecutorOrderProofs.tla` proves, from the same `RInv`:
- **ResultsInRoundOrderHolds**, `Spec => []ResultsInRoundOrder`, for every number of files and rounds. `RunQueryOrder` handles a query step. `RInv` gives `Len(results) = (r-1)·n + (i-1)` with `1 <= i <= n`. `DivModSlot` then turns that into the remainder `i - 1` and quotient `r - 1`. So the appended result, which is for `(queries[i], r)`, lands at the slot that the property names. The earlier entries are unchanged by `Append`. Every other step keeps `results` and `queries`, or, in the case of `load_sql_files`, finds `results` empty.

`LabelsProofs.tla` proves **ToolsAgreeHolds**, `Spec => []ToolsAgree`, for every set of unknown words. The four tables are written with `Dict`, a dict literal over pairs, because tlapm cannot expand TLC's `:>` and `@@`. The proof works in stages:
- `DictLookup` and `DictDomain` read a literal.
- `MappingTable`, `BitMapTable`, `BestNormTable` and `CompNormTable` list each table's domain and entries.
- `WordAgrees` shows, for every key of `MAPPING`, that the canonical label read back through `COMP_NORM` gives the flags of the key read through `BEST_NORM`.
- `CellAgrees` extends this to every cell, in any case and padding. It splits on whether the word is a table word: an unknown word comes back as itself and is skipped, unless it is `""`, which is `NONE` on both sides.
- The inductive invariant `LInv` adds that a generated scenario is `map_scenario(cell)` and that the distance is `Pending`, `Skipped` or 0.

`QueryExecutorCountProofs.tla` proves **RoundCountsExactHolds**, `Spec => []RoundCountsExact`, for every number of rounds and files. The counts filter names with the substring test `f"_round{r}"`. The model writes that test as `RoundTagIn`, a recursive function over the name's round number. The proof shows the filter is exact on the rounds that have run.
- `TagFix` says that, for a name of round `rr <= rnd`, any fixpoint of the recursive definition is `x = rnd` on all of `0..rr`. The proof takes a least counterexample through the library's `WFMin` and `NatLessThanWellFounded`, a least-element principle that needs no operator parameter. Dropping a trailing digit gives a smaller number, which cannot be `rnd`.
- `TagBelow` supplies the witness `[x \in 0..rr |-> x = rnd]`. So the function that TLA+'s `CHOOSE` picks is a fixpoint, and `RoundTagIn(rnd, rr) = (rr = rnd)`.
- `CountRoundExact` turns this into: the filtered count equals `ExactCount` when no result is of a later round. `ExactCountAppend` says a result of another round leaves a round's exact count unchanged.
- The inductive invariant is `CInv = RInv /\ CountBookkeeping /\ RoundCountsExact`. `CountBookkeeping` says one count has been printed per finished round (`Len(roundCounts) = Len(roundTimes)`), and that while round r runs no result has a round above r. TLC checked `CountBookkeeping` on the core and rounds runs before it was proved. With it, `end_round` counts round r exactly, and the results later appended, all of round r or later, leave the counts already printed unchanged.

The filter itself is wrong in general: `_round1` matches round 10. The theorem shows that the printed counts never see this, because each count is taken before any later round runs. The hazard at line 622 stays listed because a change that took the counts later would expose it.

**Only model-checked:**
- The fairness part of `BenchmarkRunSpec` (the run keeps making progress until it exits), which is liveness and out of TLAPS's reach.
- Everything in PlanTree. `collect_buffers`, `extract_plan_tree` and the reference definitions are RECURSIVE operators, which remove SMT from any module that reaches them. Rewriting them as recursive functions would not help. Their values have no closed form to serve as a witness, as `RoundTagIn`'s does. Showing that they exist would need the well-founded recursion theorem (`WFInductiveDef`), which takes an operator parameter that the installed provers cannot instantiate.
- `ScenarioIdempotent`, a violation run.

## 6. Not modelled

- `get_database_config` and `compare_environments`: file I/O and printing.
- The JSON text of the report.
- The printed progress lines, except the per-round counts.
- `store_full_plan_json`, which only adds a copy of the document to a result.
- The components marked "not_modelled" or "partly" in `PROJECT.json`, which are the plan items 5-7 above.
- The scalar fields copied by `summarize_plan` and `extract_plan_tree` (costs, row counts, JIT): they are copied without any check.
