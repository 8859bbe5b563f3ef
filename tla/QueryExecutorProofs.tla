------------------------ MODULE QueryExecutorProofs ------------------------
(***************************************************************************)
(* Proofs about QueryExecutor for every value of its constants: the type   *)
(* invariant, and that the connection is never left open when the process *)
(* exits.                                                                  *)
(***************************************************************************)
EXTENDS QueryExecutor, TLAPS, FiniteSetTheorems, SequenceTheorems

(* TypeOK is not inductive by itself: a query of a round is named with    *)
(* the round number r and the file queries[i], so inside the round loop r  *)
(* and i must already be positive.                                          *)
LoopCounters == pc = "round" => r >= 1 /\ i >= 1

IInv == TypeOK /\ LoopCounters

(* A count over positions of a sequence is a natural number.               *)
LEMMA CountIsNat ==
    ASSUME NEW S, NEW s \in Seq(S), NEW T \in SUBSET DOMAIN s
    PROVE  Cardinality(T) \in Nat
<1>1. IsFiniteSet(DOMAIN s)
  BY FS_Interval, LenProperties
<1>2. IsFiniteSet(T)
  BY <1>1, FS_Subset
<1>. QED  BY <1>2, FS_CardinalityType

(* Each file list load_sql_files can return is a sequence of files.        *)
LEMMA SortedLoadsType == SortedLoads \subseteq Seq(Files)
<1>. SUFFICES ASSUME NEW m \in 0..NumFiles, NEW s \in [1..m -> Files]
              PROVE  s \in Seq(Files)
  BY DEF SortedLoads
<1>. QED  BY NumFilesAssumption DEF Files

(* The result a mode appends is a well-typed ExecutionResult.              *)
LEMMA MkResultType ==
    ASSUME IInv, pc = "round", i <= Len(queries),
           NEW st \in {"success", "error"}, NEW t \in Int,
           NEW b \in {"client", "phases", "server"},
           NEW sm \in {"absent", "ok", "error"}, NEW d \in PlanDocs \cup {NoPlan}
    PROVE  MkResult(st, t, b, sm, d) \in Result
<1>1. queries[i] \in Files
  BY ElementOfSeq DEF IInv, TypeOK, LoopCounters
<1>2. r \in Nat \ {0}
  BY DEF IInv, TypeOK, LoopCounters
<1>. QED  BY <1>1, <1>2 DEF MkResult, Result

(* The frame of the three modes keeps IInv when the result is well typed. *)
LEMMA RunQueryInv ==
    ASSUME IInv, NEW res \in Result, RunQuery(res)
    PROVE  IInv'
<1>1. results' \in Seq(Result)
  BY AppendProperties DEF RunQuery, IInv, TypeOK
<1>. QED  BY <1>1 DEF RunQuery, IInv, TypeOK, LoopCounters

LEMMA InitIInv == Init => IInv
BY DEF Init, IInv, TypeOK, LoopCounters

LEMMA NextIInv == IInv /\ [Next]_vars => IInv'
<1>. SUFFICES ASSUME IInv, [Next]_vars PROVE IInv'
  OBVIOUS
<1>. USE DEF IInv
<1>1. CASE connect
  BY <1>1 DEF connect, TypeOK, LoopCounters
<1>2. CASE load_sql_files
  BY <1>2, SortedLoadsType DEF load_sql_files, TypeOK, LoopCounters
<1>3. CASE execute_query_simple
  <2>. PICK d \in ClockDeltas, st \in {"success", "error"} :
          RunQuery(MkResult(st, d, "client", "absent", NoPlan))
    BY <1>3 DEF execute_query_simple
  <2>1. pc = "round" /\ i <= Len(queries)
    BY DEF RunQuery
  <2>. QED  BY <2>1, ClockAssumption, MkResultType, RunQueryInv
<1>4. CASE execute_query_with_detailed_timing
  <2>1. CASE \E c, e, f, k \in ClockDeltas :
               RunQuery(MkResult("success", c + e + f + k, "phases", "absent",
                                 NoPlan))
    <3>. PICK c, e, f, k \in ClockDeltas :
            RunQuery(MkResult("success", c + e + f + k, "phases", "absent",
                              NoPlan))
      BY <2>1
    <3>1. pc = "round" /\ i <= Len(queries) /\ c + e + f + k \in Int
      BY ClockAssumption DEF RunQuery
    <3>. QED  BY <3>1, MkResultType, RunQueryInv
  <2>2. CASE \E d \in ClockDeltas :
               RunQuery(MkResult("error", d, "client", "absent", NoPlan))
    <3>. PICK d \in ClockDeltas :
            RunQuery(MkResult("error", d, "client", "absent", NoPlan))
      BY <2>2
    <3>1. pc = "round" /\ i <= Len(queries)
      BY DEF RunQuery
    <3>. QED  BY <3>1, ClockAssumption, MkResultType, RunQueryInv
  <2>. QED  BY <1>4, <2>1, <2>2 DEF execute_query_with_detailed_timing
<1>5. CASE execute_query_with_explain
  <2>. PICK d \in ClockDeltas :
          \/ RunQuery(MkResult("error", d, "client", "absent", NoPlan))
          \/ \E doc \in PlanDocs, ms \in ServerTimes :
                IF doc.wellFormed /\ doc.execTime
                THEN RunQuery(MkResult("success", ms, "server", "ok", doc))
                ELSE RunQuery(MkResult("success", d, "client",
                                       IF doc.wellFormed THEN "ok" ELSE "error",
                                       doc))
    BY <1>5 DEF execute_query_with_explain
  <2>0. d \in Int
    BY ClockAssumption
  <2>1. CASE RunQuery(MkResult("error", d, "client", "absent", NoPlan))
    <3>1. pc = "round" /\ i <= Len(queries)
      BY <2>1 DEF RunQuery
    <3>. QED  BY <2>0, <2>1, <3>1, MkResultType, RunQueryInv
  <2>2. CASE \E doc \in PlanDocs, ms \in ServerTimes :
                IF doc.wellFormed /\ doc.execTime
                THEN RunQuery(MkResult("success", ms, "server", "ok", doc))
                ELSE RunQuery(MkResult("success", d, "client",
                                       IF doc.wellFormed THEN "ok" ELSE "error",
                                       doc))
    <3>. PICK doc \in PlanDocs, ms \in ServerTimes :
                IF doc.wellFormed /\ doc.execTime
                THEN RunQuery(MkResult("success", ms, "server", "ok", doc))
                ELSE RunQuery(MkResult("success", d, "client",
                                       IF doc.wellFormed THEN "ok" ELSE "error",
                                       doc))
      BY <2>2
    <3>0. ms \in Int
      BY ServerTimesAssumption
    <3>1. CASE doc.wellFormed /\ doc.execTime
      <4>1. RunQuery(MkResult("success", ms, "server", "ok", doc))
        BY <3>1
      <4>2. pc = "round" /\ i <= Len(queries)
        BY <4>1 DEF RunQuery
      <4>. QED  BY <3>0, <4>1, <4>2, MkResultType, RunQueryInv
    <3>2. CASE ~(doc.wellFormed /\ doc.execTime)
      <4>. DEFINE sm == IF doc.wellFormed THEN "ok" ELSE "error"
      <4>1. RunQuery(MkResult("success", d, "client", sm, doc))
        BY <3>2
      <4>2. pc = "round" /\ i <= Len(queries) /\ sm \in {"absent", "ok", "error"}
        BY <4>1 DEF RunQuery
      <4>. QED  BY <2>0, <4>1, <4>2, MkResultType, RunQueryInv
    <3>. QED  BY <3>1, <3>2
  <2>. QED  BY <2>1, <2>2
<1>6. CASE end_round
  <2>1. PICK rt \in RoundDurations : roundTimes' = Append(roundTimes, rt)
    BY <1>6 DEF end_round
  <2>2. roundTimes' \in Seq(RoundDurations)
    BY <2>1, AppendProperties DEF TypeOK
  <2>3. /\ CountRound(results, r, "success") \in Nat
        /\ CountRound(results, r, "error") \in Nat
    BY CountIsNat DEF CountRound, TypeOK
  <2>4. roundCounts' \in Seq([succ : Nat, fail : Nat])
    BY <1>6, <2>3, AppendProperties DEF end_round, TypeOK
  <2>5. r + 1 >= 1
    BY DEF TypeOK
  <2>. QED  BY <1>6, <2>2, <2>4, <2>5 DEF end_round, TypeOK, LoopCounters
<1>7. CASE finish_rounds
  BY <1>7 DEF finish_rounds, TypeOK, LoopCounters
<1>8. CASE save_results
  <2>1. /\ NumWith(results, "success") \in Nat
        /\ NumWith(results, "error") \in Nat
    BY CountIsNat DEF NumWith, TypeOK
  <2>2. Len(results) \in Nat /\ Len(savedRounds) \in Nat
    BY LenProperties DEF TypeOK
  <2>3. savedRounds \in Seq(Int)
    BY RoundDurationsAssumption, SeqMonotonic DEF TypeOK
  <2>. QED  BY <1>8, <2>1, <2>2, <2>3 DEF save_results, TypeOK, LoopCounters, Report
<1>9. CASE interrupt
  BY <1>9 DEF interrupt, TypeOK, LoopCounters
<1>10. CASE disconnect
  BY <1>10 DEF disconnect, TypeOK, LoopCounters
<1>11. CASE Terminated \/ UNCHANGED vars
  BY <1>11 DEF Terminated, vars, TypeOK, LoopCounters
<1>. QED  BY <1>1, <1>2, <1>3, <1>4, <1>5, <1>6, <1>7, <1>8, <1>9, <1>10, <1>11
          DEF Next

(* Every reachable state of main() is well typed.                          *)
THEOREM TypeCorrect == Spec => []TypeOK
<1>1. IInv => TypeOK
  BY DEF IInv
<1>. QED  BY <1>1, InitIInv, NextIInv, PTL DEF Spec

(* ConnectionReleased: main() never exits with the psycopg2 connection     *)
(* still open, on any of its paths (failed SET statement_timeout, zero     *)
(* rounds, interrupt, failed save): the state before "done" is always main's *)
(* finally block, whose disconnect() closes an open connection.            *)
THEOREM ConnectionReleasedHolds == Spec => []ConnectionReleased
<1>1. Init => ConnectionReleased
  BY DEF Init, ConnectionReleased
<1>2. ConnectionReleased /\ [Next]_vars => ConnectionReleased'
  <2>. SUFFICES ASSUME ConnectionReleased, [Next]_vars, pc' = "done"
                PROVE  conn' # "open"
    BY DEF ConnectionReleased
  <2>1. CASE disconnect
    BY <2>1 DEF disconnect
  <2>2. CASE Terminated \/ UNCHANGED vars
    BY <2>2 DEF Terminated, vars, ConnectionReleased
  <2>3. CASE ~disconnect /\ ~(Terminated \/ UNCHANGED vars)
    <3>. pc' # "done"
      BY <2>3 DEF Next, connect, load_sql_files, execute_query_simple,
         execute_query_with_detailed_timing, execute_query_with_explain,
         RunQuery, end_round, finish_rounds, save_results, interrupt
    <3>. QED  OBVIOUS
  <2>. QED  BY <2>1, <2>2, <2>3
<1>. QED  BY <1>1, <1>2, PTL DEF Spec

(* The bookkeeping of the round loop that ReportCoversRun rests on: while *)
(* round r runs, r - 1 rounds are recorded and (r - 1) * n + (i - 1)      *)
(* results exist, for the n loaded files; when the loop is left, the      *)
(* results are those of whole rounds, and there were `iterations` of them *)
(* unless none ran.                                                        *)
WholeRounds(rounds) ==
    /\ Len(results) = Len(rounds) * Len(queries)
    /\ rounds = <<>> \/ Len(rounds) = iterations

RoundBookkeeping ==
    /\ pc \in {"connect", "load", "round", "finish", "save"} =>
          report = NoReport
    /\ pc \in {"connect", "load"} =>
          /\ results = <<>> /\ roundTimes = <<>> /\ savedRounds = <<>>
          /\ pc = "connect" => queries = <<>>
    /\ pc = "round" =>
          /\ 1 <= r /\ r <= iterations
          /\ 1 <= i /\ i <= Len(queries) + 1
          /\ Len(roundTimes) = r - 1
          /\ Len(results) = (r - 1) * Len(queries) + (i - 1)
    /\ pc = "finish" => WholeRounds(roundTimes)
    /\ pc = "save" => WholeRounds(savedRounds)
    /\ report \in Report =>
          /\ pc \in {"final", "done"}
          /\ report.results = results
          /\ report.total = Len(results)
          /\ report.rounds = Len(savedRounds)
          /\ WholeRounds(savedRounds)

RInv == IInv /\ RoundBookkeeping

LEMMA InitRInv == Init => RInv
BY InitIInv DEF Init, RInv, RoundBookkeeping, Report, NoReport

LEMMA NextRInv == RInv /\ [Next]_vars => RInv'
<1>. SUFFICES ASSUME RInv, [Next]_vars PROVE RInv'
  OBVIOUS
<1>0. IInv'
  BY NextIInv DEF RInv
<1>. SUFFICES RoundBookkeeping'
  BY <1>0 DEF RInv
<1>. USE DEF RInv
<1>. DEFINE n == Len(queries)
<1>a. /\ n \in Nat /\ Len(results) \in Nat /\ Len(roundTimes) \in Nat
      /\ Len(savedRounds) \in Nat /\ r \in Nat /\ i \in Nat
      /\ iterations \in Int
  BY LenProperties, IterationAssumption DEF IInv, TypeOK
<1>b. NoReport \notin Report /\ SaveFailed \notin Report
  BY DEF NoReport, SaveFailed, Report
<1>1. CASE connect
  BY <1>0, <1>1, <1>b DEF connect, RoundBookkeeping, WholeRounds
<1>2. CASE load_sql_files
  <2>1. queries' \in Seq(Files)
    BY <1>0 DEF IInv, TypeOK
  <2>2. Len(queries') \in Nat
    BY <2>1, LenProperties
  <2>. QED  BY <1>0, <1>2, <1>a, <1>b, <2>2
            DEF load_sql_files, RoundBookkeeping, WholeRounds
<1>3. ASSUME NEW res, RunQuery(res) PROVE RoundBookkeeping'
  <2>1. Len(results') = Len(results) + 1
    BY <1>3, AppendProperties DEF RunQuery, IInv, TypeOK
  <2>. QED  BY <1>3, <1>a, <1>b, <2>1 DEF RunQuery, RoundBookkeeping
<1>4. CASE execute_query_simple \/ execute_query_with_detailed_timing
           \/ execute_query_with_explain
  <2>. \E res : RunQuery(res)
    BY <1>4 DEF execute_query_simple, execute_query_with_detailed_timing,
                execute_query_with_explain
  <2>. QED  BY <1>0, <1>3
<1>5. CASE end_round
  <2>1. /\ pc = "round" /\ i = n + 1
        /\ Len(roundTimes') = r
        /\ Len(results) = r * n
    <3>1. PICK rt \in RoundDurations : roundTimes' = Append(roundTimes, rt)
      BY <1>5 DEF end_round
    <3>2. Len(roundTimes') = Len(roundTimes) + 1
      BY <3>1, AppendProperties DEF IInv, TypeOK
    <3>. QED  BY <1>5, <1>a, <3>2 DEF end_round, RoundBookkeeping
  <2>. QED  BY <1>5, <1>a, <1>b, <2>1 DEF end_round, RoundBookkeeping, WholeRounds
<1>6. CASE finish_rounds
  BY <1>6, <1>b DEF finish_rounds, RoundBookkeeping, WholeRounds
<1>7. CASE save_results
  BY <1>7, <1>b DEF save_results, RoundBookkeeping, WholeRounds, Report
<1>8. CASE interrupt
  BY <1>8, <1>b DEF interrupt, RoundBookkeeping
<1>9. CASE disconnect
  BY <1>9 DEF disconnect, RoundBookkeeping, WholeRounds
<1>10. CASE Terminated \/ UNCHANGED vars
  BY <1>10 DEF Terminated, vars, RoundBookkeeping, WholeRounds
<1>. QED  BY <1>0, <1>1, <1>2, <1>4, <1>5, <1>6, <1>7, <1>8, <1>9, <1>10
          DEF Next

(* ReportCoversRun: a report written by save_results holds every result   *)
(* of the run, and its round statistics cover exactly the `iterations`    *)
(* rounds requested (or are absent after a failed connect), for every     *)
(* number of files and rounds: the round loop of execute_all_queries runs  *)
(* every loaded file once per round and stops after round `iterations`.    *)
THEOREM ReportCoversRunHolds == Spec => []ReportCoversRun
<1>1. RInv => ReportCoversRun
  BY DEF RInv, RoundBookkeeping, WholeRounds, ReportCoversRun
<1>. QED  BY <1>1, InitRInv, NextRInv, PTL DEF Spec

=============================================================================
