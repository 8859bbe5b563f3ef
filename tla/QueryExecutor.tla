--------------------------- MODULE QueryExecutor ---------------------------
(***************************************************************************)
(* The benchmarking run of execute_sql_queries_enhanced_with_analyze.py:   *)
(* main() driving one EnhancedPostgreSQLExecutor through connect(),        *)
(* load_sql_files(), the rounds of execute_all_queries() with one of the   *)
(* three execution modes per query, save_results() and the final          *)
(* disconnect() of main's finally block.  The program is single-threaded;  *)
(* the only other actor is the user's Ctrl-C (KeyboardInterrupt) or any   *)
(* other exception escaping execute_all_queries, which main catches.       *)
(*                                                                         *)
(* Data is abstracted: a query file is its index in sorted glob order, a   *)
(* query name filename_round<r> is the pair (file, round), a duration is   *)
(* an integer number of clock ticks, and a plan document is the two facts  *)
(* the executor's control depends on (see PlanDocs).                       *)
(***************************************************************************)
EXTENDS Naturals, Integers, Sequences, FiniteSets

CONSTANTS
    NumFiles,          \* number of *.sql files in the query directory
    IterationChoices,  \* values argv[1] may give to `iterations`
    Modes,             \* execution modes argv[3] may select
    TimeoutChoices,    \* values statement_timeout_ms may take (0 = None)
    ClockDeltas,       \* what time.time() differences may measure
    ServerTimes,       \* "Execution Time" values the server may report
    RoundDurations     \* what the per-round wall-clock timer may measure

ASSUME NumFilesAssumption == NumFiles \in Nat
ASSUME IterationAssumption == IterationChoices \subseteq Int
ASSUME ModesAssumption == Modes \subseteq {"simple", "detailed", "explain"}
ASSUME TimeoutAssumption == TimeoutChoices \subseteq Nat
ASSUME ClockAssumption == ClockDeltas \subseteq Int /\ ClockDeltas # {}
ASSUME ServerTimesAssumption == ServerTimes \subseteq Nat
ASSUME RoundDurationsAssumption ==
    RoundDurations \subseteq Int /\ RoundDurations # {}

Files == 1..NumFiles

(* A plan document returned by EXPLAIN (..., FORMAT JSON), reduced to      *)
(* whether it carries a numeric "Execution Time" and whether               *)
(* summarize_plan decodes it without raising.                              *)
PlanDocs == [execTime : BOOLEAN, wellFormed : BOOLEAN]
NoPlan == [execTime |-> FALSE, wellFormed |-> FALSE, none |-> TRUE]

(* An ExecutionResult dict.  basis records which clock execution_time     *)
(* came from: one client timer, the sum of the detailed phases, or the    *)
(* server's Execution Time; summary is the plan_summary entry.            *)
Result == [file : Files, round : Nat \ {0}, status : {"success", "error"},
           time : Int, basis : {"client", "phases", "server"},
           summary : {"absent", "ok", "error"},
           doc : PlanDocs \cup {NoPlan}]

(* The file lists load_sql_files can return: sorted(glob(...)) with the    *)
(* files that are empty or unreadable skipped.                             *)
SortedLoads ==
    UNION {{s \in [1..m -> Files] : \A a, b \in 1..m : a < b => s[a] < s[b]}
             : m \in 0..NumFiles}

VARIABLES
    pc,           \* where main() is: connect, load, round, finish, save, final, done
    iterations,   \* the rounds requested on the command line
    mode,         \* the execution mode
    timeoutMs,    \* statement_timeout_ms
    conn,         \* self.connection: "none", "open" or "closed"
    queries,      \* sql_files, the loaded query list
    r,            \* the round loop variable
    i,            \* the query loop variable (1-based enumerate)
    results,      \* self.results
    roundTimes,   \* the local round_times list
    roundCounts,  \* the success/error counts printed after each round
    savedRounds,  \* self.round_times
    report        \* the JSON written by save_results, or NoReport

vars == <<pc, iterations, mode, timeoutMs, conn, queries, r, i, results,
          roundTimes, roundCounts, savedRounds, report>>

NoReport == [written |-> FALSE]
SaveFailed == [written |-> FALSE, failed |-> TRUE]

Report == [results : Seq(Result), total : Nat, succ : Nat, fail : Nat,
           avgDen : Nat, rounds : Nat,
           roundTimes : Seq(Int)]

-----------------------------------------------------------------------------
(* Helpers                                                                 *)

(* Mutant: the round number dropped from the filter, f"_round" in name.   *)
RoundTagInNoNumber(rnd, rr) == TRUE

(* Mutant: the containment tested the wrong way round, the name's tag    *)
(* inside "_round{r}".                                                     *)
RoundTagInReversed(rnd, rr) ==
    LET tag[x \in 0..rnd] == x = rr \/ (x >= 10 /\ tag[x \div 10])
    IN  tag[rnd]

(* The test f"_round{r}" in x["query_name"] of execute_all_queries, for a  *)
(* result named filename_round<rr>: the filenames of a JOB-style query     *)
(* directory contain no "_round", so the test holds exactly when the       *)
(* decimal digits of r are a prefix of those of rr, i.e. when dropping     *)
(* trailing digits of rr can give r.                                       *)
RoundTagIn(rnd, rr) ==
    LET tag[x \in 0..rr] == x = rnd \/ (x >= 10 /\ tag[x \div 10])
    IN  tag[rr]

(* The per-round count of execute_all_queries lines 619-628.               *)
CountRound(rs, rnd, st) ==
    Cardinality({j \in DOMAIN rs : rs[j].status = st
                                    /\ RoundTagIn(rnd, rs[j].round)})

(* Exact number of results of round rnd with status st.                    *)
ExactCount(rs, rnd, st) ==
    Cardinality({j \in DOMAIN rs : rs[j].status = st /\ rs[j].round = rnd})

NumWith(rs, st) == Cardinality({j \in DOMAIN rs : rs[j].status = st})

(* The result dict of one query of the current round.                      *)
MkResult(st, t, b, sm, d) ==
    [file |-> queries[i], round |-> r, status |-> st, time |-> t,
     basis |-> b, summary |-> sm, doc |-> d]

-----------------------------------------------------------------------------
(* Operations                                                              *)

Init ==
    /\ pc = "connect"
    /\ iterations \in IterationChoices
    /\ mode \in Modes
    /\ timeoutMs \in TimeoutChoices
    /\ conn = "none"
    /\ queries = <<>>
    /\ r = 0
    /\ i = 0
    /\ results = <<>>
    /\ roundTimes = <<>>
    /\ roundCounts = <<>>
    /\ savedRounds = <<>>
    /\ report = NoReport

(* connect() as called at the top of execute_all_queries: psycopg2.connect *)
(* may fail (conn stays None), or succeed and then fail the optional SET   *)
(* statement_timeout (the connection stays open, connect returns False).   *)
(* On False execute_all_queries returns and main goes on to save_results. *)
connect ==
    /\ pc = "connect"
    /\ \/ /\ pc' = "save"
          /\ UNCHANGED conn
       \/ /\ timeoutMs > 0
          /\ conn' = "open"
          /\ pc' = "save"
       \/ /\ conn' = "open"
          /\ pc' = "load"
    /\ UNCHANGED <<iterations, mode, timeoutMs, queries, r, i, results,
                   roundTimes, roundCounts, savedRounds, report>>

(* Mutant: the rounds numbered from 0, as range(iterations) would.        *)
load_sql_files_zero_based ==
    /\ pc = "load"
    /\ \E q \in SortedLoads : queries' = q
    /\ r' = 0
    /\ i' = 1
    /\ pc' = IF iterations >= 1 THEN "round" ELSE "finish"
    /\ UNCHANGED <<iterations, mode, timeoutMs, conn, results, roundTimes,
                   roundCounts, savedRounds, report>>

(* load_sql_files, then entry into `for r in range(1, iterations + 1)`.    *)
load_sql_files ==
    /\ pc = "load"
    /\ \E q \in SortedLoads : queries' = q
    /\ r' = 1
    /\ i' = 1
    /\ pc' = IF iterations >= 1 THEN "round" ELSE "finish"
    /\ UNCHANGED <<iterations, mode, timeoutMs, conn, results, roundTimes,
                   roundCounts, savedRounds, report>>

(* The common frame of the three execution modes: the result is appended  *)
(* to self.results and the inner loop advances.                            *)
RunQuery(res) ==
    /\ pc = "round"
    /\ i <= Len(queries)
    /\ results' = Append(results, res)
    /\ i' = i + 1
    /\ UNCHANGED <<pc, iterations, mode, timeoutMs, conn, queries, r,
                   roundTimes, roundCounts, savedRounds, report>>

(* execute_query_simple: one client timer around cursor/execute/fetch; a   *)
(* psycopg2.Error becomes an error result timed by the same timer.         *)
execute_query_simple ==
    /\ mode = "simple"
    /\ \E d \in ClockDeltas, st \in {"success", "error"} :
          RunQuery(MkResult(st, d, "client", "absent", NoPlan))

(* execute_query_with_detailed_timing: on success execution_time is the    *)
(* sum of the four phase timers; on error it is the outer timer t1 - t0.   *)
execute_query_with_detailed_timing ==
    /\ mode = "detailed"
    /\ \/ \E c, e, f, k \in ClockDeltas :
             RunQuery(MkResult("success", c + e + f + k, "phases", "absent",
                               NoPlan))
       \/ \E d \in ClockDeltas :
             RunQuery(MkResult("error", d, "client", "absent", NoPlan))

(* execute_query_with_explain with get_explain_analyze_json and the        *)
(* summarize_plan call inside it.  A psycopg2.Error or an empty EXPLAIN    *)
(* output gives an error result timed by the client; otherwise the plan    *)
(* summary is the decoded digest, or an "error" field when summarize_plan  *)
(* raised, and execution_time is the summary's execution_time_ms when it   *)
(* is a number, the client time otherwise.                                  *)
execute_query_with_explain ==
    /\ mode = "explain"
    /\ \E d \in ClockDeltas :
          \/ RunQuery(MkResult("error", d, "client", "absent", NoPlan))
          \/ \E doc \in PlanDocs, ms \in ServerTimes :
                IF doc.wellFormed /\ doc.execTime
                THEN RunQuery(MkResult("success", ms, "server", "ok", doc))
                ELSE RunQuery(MkResult("success", d, "client",
                                       IF doc.wellFormed THEN "ok" ELSE "error",
                                       doc))

(* Mutant: the round may end before its last query has run.              *)
end_round_early ==
    /\ pc = "round"
    /\ i >= Len(queries)
    /\ \E rt \in RoundDurations : roundTimes' = Append(roundTimes, rt)
    /\ roundCounts' = Append(roundCounts,
                             [succ |-> CountRound(results, r, "success"),
                              fail |-> CountRound(results, r, "error")])
    /\ r' = r + 1
    /\ i' = 1
    /\ pc' = IF r + 1 <= iterations THEN "round" ELSE "finish"
    /\ UNCHANGED <<iterations, mode, timeoutMs, conn, queries, results,
                   savedRounds, report>>

(* Mutant: the round loop stops one round short, range(1, iterations).     *)
end_round_short_loop ==
    /\ pc = "round"
    /\ i > Len(queries)
    /\ \E rt \in RoundDurations : roundTimes' = Append(roundTimes, rt)
    /\ roundCounts' = Append(roundCounts,
                             [succ |-> CountRound(results, r, "success"),
                              fail |-> CountRound(results, r, "error")])
    /\ r' = r + 1
    /\ i' = 1
    /\ pc' = IF r + 1 < iterations THEN "round" ELSE "finish"
    /\ UNCHANGED <<iterations, mode, timeoutMs, conn, queries, results,
                   savedRounds, report>>

(* End of one round: append the round time, print the success/error       *)
(* counts filtered by the round tag, and go to the next round.             *)
end_round ==
    /\ pc = "round"
    /\ i > Len(queries)
    /\ \E rt \in RoundDurations : roundTimes' = Append(roundTimes, rt)
    /\ roundCounts' = Append(roundCounts,
                             [succ |-> CountRound(results, r, "success"),
                              fail |-> CountRound(results, r, "error")])
    /\ r' = r + 1
    /\ i' = 1
    /\ pc' = IF r + 1 <= iterations THEN "round" ELSE "finish"
    /\ UNCHANGED <<iterations, mode, timeoutMs, conn, queries, results,
                   savedRounds, report>>

(* The tail of execute_all_queries: total / iterations and min(round_times)*)
(* raise when no round ran, which main's `except Exception` catches and    *)
(* save_results is skipped; otherwise self.round_times is set and the      *)
(* connection closed.                                                       *)
finish_rounds ==
    /\ pc = "finish"
    /\ \/ /\ roundTimes = <<>>
          /\ pc' = "final"
          /\ UNCHANGED <<conn, savedRounds>>
       \/ /\ roundTimes # <<>>
          /\ savedRounds' = roundTimes
          /\ conn' = IF conn = "open" THEN "closed" ELSE conn
          /\ pc' = "save"
    /\ UNCHANGED <<iterations, mode, timeoutMs, queries, r, i, results,
                   roundTimes, roundCounts, report>>

(* save_results: the summary block and the round statistics (present only *)
(* when self.round_times is non-empty); a failing open/dump is caught and  *)
(* nothing is written.  Of the timing figures only the denominator of      *)
(* average_query_time is kept: no property reads the sums themselves.      *)
save_results ==
    /\ pc = "save"
    /\ \/ report' = [results |-> results,
                     total |-> Len(results),
                     succ |-> NumWith(results, "success"),
                     fail |-> NumWith(results, "error"),
                     avgDen |-> Len(results),
                     rounds |-> Len(savedRounds),
                     roundTimes |-> savedRounds]
       \/ report' = SaveFailed
    /\ pc' = "final"
    /\ UNCHANGED <<iterations, mode, timeoutMs, conn, queries, r, i, results,
                   roundTimes, roundCounts, savedRounds>>

(* KeyboardInterrupt (or any other exception) escaping the run: main's     *)
(* except clauses print and fall through to the finally block.             *)
interrupt ==
    /\ pc \in {"connect", "load", "round", "finish", "save"}
    /\ pc' = "final"
    /\ UNCHANGED <<iterations, mode, timeoutMs, conn, queries, r, i, results,
                   roundTimes, roundCounts, savedRounds, report>>

(* Mutant: main without the disconnect of its finally block.              *)
disconnect_no_close ==
    /\ pc = "final"
    /\ pc' = "done"
    /\ UNCHANGED <<iterations, mode, timeoutMs, conn, queries, r, i, results,
                   roundTimes, roundCounts, savedRounds, report>>

(* main's finally: executor.disconnect() closes the connection if one was *)
(* ever assigned (closing a closed psycopg2 connection is a no-op).         *)
disconnect ==
    /\ pc = "final"
    /\ conn' = IF conn = "open" THEN "closed" ELSE conn
    /\ pc' = "done"
    /\ UNCHANGED <<iterations, mode, timeoutMs, queries, r, i, results,
                   roundTimes, roundCounts, savedRounds, report>>

(* The process has exited.                                                 *)
Terminated ==
    /\ pc = "done"
    /\ UNCHANGED vars

Next ==
    \/ connect
    \/ load_sql_files
    \/ execute_query_simple
    \/ execute_query_with_detailed_timing
    \/ execute_query_with_explain
    \/ end_round
    \/ finish_rounds
    \/ save_results
    \/ interrupt
    \/ disconnect
    \/ Terminated

(* The program is one thread that keeps running until it exits.           *)
Spec == Init /\ [][Next]_vars /\ WF_vars(Next)

-----------------------------------------------------------------------------
(* Properties                                                              *)

TypeOK ==
    /\ pc \in {"connect", "load", "round", "finish", "save", "final", "done"}
    /\ iterations \in IterationChoices
    /\ mode \in Modes
    /\ timeoutMs \in TimeoutChoices
    /\ conn \in {"none", "open", "closed"}
    /\ queries \in Seq(Files)
    /\ r \in Nat
    /\ i \in Nat
    /\ results \in Seq(Result)
    /\ roundTimes \in Seq(RoundDurations)
    /\ roundCounts \in Seq([succ : Nat, fail : Nat])
    /\ savedRounds \in Seq(RoundDurations)
    /\ report \in Report \cup {NoReport, SaveFailed}

(* The success/error counts printed after round k (execute_all_queries,   *)
(* lines 619-628) are exactly those of round k's results, although the     *)
(* filter is a substring test under which "_round1" also matches the names *)
(* of rounds 10..19: it is right only because it runs before those rounds. *)
RoundCountsExact ==
    \A k \in DOMAIN roundCounts :
        /\ roundCounts[k].succ = ExactCount(results, k, "success")
        /\ roundCounts[k].fail = ExactCount(results, k, "error")

(* self.results lists the rounds in order and, within each round, every   *)
(* loaded file in sorted order: the k-th result is named                   *)
(* filename_round<r> for the file and round that position stands for, the *)
(* join key the comparison tools rely on.                                  *)
ResultsInRoundOrder ==
    \A k \in DOMAIN results :
        /\ results[k].file = queries[((k - 1) % Len(queries)) + 1]
        /\ results[k].round = ((k - 1) \div Len(queries)) + 1

(* A report written by save_results holds every result of the run, and   *)
(* its round statistics cover exactly the `iterations` rounds requested,   *)
(* or are absent when the run stopped at connect().                        *)
ReportCoversRun ==
    report \in Report =>
        /\ report.results = results
        /\ report.rounds \in {0, iterations}
        /\ report.total = report.rounds * Len(queries)

(* Whatever path main() takes (failed connect, failed SET statement_timeout,*)
(* no rounds, interrupt, failed save), the connection is closed when the   *)
(* process exits.                                                          *)
ConnectionReleased ==
    pc = "done" => conn # "open"

(* Spec 4.6: the average query time of the report is taken over the       *)
(* successful results only (save_results divides by len(self.results)).    *)
AverageOverSuccessful ==
    report \in Report /\ report.succ > 0 => report.avgDen = report.succ

(* Spec 5: an interrupt stops dispatch but the results already collected  *)
(* are persisted (main skips save_results on KeyboardInterrupt).           *)
InterruptPersists ==
    pc = "done" /\ results # <<>> => report # NoReport

(* Spec 8: a successful result has a non-negative execution_time (the     *)
(* executor times with time.time(), a wall clock that may step back).      *)
ExecTimeNonNegative ==
    \A k \in DOMAIN results :
        results[k].status = "success" => results[k].time >= 0

(* Spec 4.2: in plan mode execution_time is the server-reported Execution *)
(* Time whenever the plan document has one; the client time is only the   *)
(* fallback when it is unavailable.                                        *)
ServerTimePreferred ==
    \A k \in DOMAIN results :
        /\ results[k].status = "success"
        /\ results[k].doc \in PlanDocs
        /\ results[k].doc.execTime
        => results[k].basis = "server"

=============================================================================
