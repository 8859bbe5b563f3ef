------------------------ MODULE QueryExecutorRefinement ------------------------
(***************************************************************************)
(* The executor's run (QueryExecutor) implements the abstract run          *)
(* (BenchmarkRun) under the refinement mapping below: where main() is      *)
(* gives the stage, self.results reduced to (file, round, status) gives    *)
(* the result log, and a written JSON report gives the saved report.       *)
(***************************************************************************)
EXTENDS QueryExecutor

(* The stage of the run that each place of main() belongs to.            *)
Stage ==
    IF pc \in {"connect", "load"} THEN "setup"
    ELSE IF pc \in {"round", "finish"} THEN "running"
    ELSE IF pc \in {"save", "final"} THEN "stopped"
    ELSE "exited"

(* self.results as the abstract log: query file, round, status.           *)
Entries(rs) == [k \in DOMAIN rs |-> [query |-> rs[k].file,
                                     round |-> rs[k].round,
                                     status |-> rs[k].status]]

(* The written report as the abstract one; a failed save writes nothing.  *)
SavedReport ==
    IF report \in Report
    THEN [log |-> Entries(report.results), rounds |-> report.rounds]
    ELSE NoReport

BR == INSTANCE BenchmarkRun
        WITH Queries <- Files, QueryLists <- SortedLoads,
             RoundChoices <- IterationChoices, NoSaved <- NoReport,
             stage <- Stage, requested <- iterations, link <- conn,
             files <- queries, log <- Entries(results), saved <- SavedReport

(* The run of main() is a run of the abstract benchmark: one session,     *)
(* results appended in round and query order, at most the requested       *)
(* rounds, at most one report holding whole rounds, and an exit.          *)
BenchmarkRunSpec == BR!ASpec

=============================================================================
