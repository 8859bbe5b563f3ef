--------------------- MODULE QueryExecutorRefinementProofs ---------------------
(***************************************************************************)
(* Proof that every behaviour of QueryExecutor is, under the refinement    *)
(* mapping of QueryExecutorRefinement, a behaviour of the safety part of   *)
(* BenchmarkRun, for every value of the constants: the initial state maps  *)
(* to an initial state, and every step to a step of the abstract run or to *)
(* a stutter.  The progress part (WF) is checked by TLC only.              *)
(***************************************************************************)
EXTENDS QueryExecutorRefinement, QueryExecutorProofs

(* The k-th result of a round-major run over n files belongs to round      *)
(* q + 1 and file m + 1 when k - 1 = q * n + m.                             *)
LEMMA DivModSlot ==
    ASSUME NEW n \in Nat \ {0}, NEW q \in Nat, NEW m \in 0..(n - 1)
    PROVE  /\ (q * n + m) % n = m
           /\ (q * n + m) \div n = q
BY SMT

(* Inside round r <= iterations, fewer than iterations * n results exist.  *)
LEMMA BelowBound ==
    ASSUME NEW n \in Nat, NEW rr \in Nat \ {0}, NEW it \in Int,
           NEW j \in 1..n, rr <= it
    PROVE  (rr - 1) * n + (j - 1) < it * n
BY SMT

(* self.results reduced to the abstract log is a sequence as long.        *)
LEMMA EntriesLen ==
    ASSUME NEW rs \in Seq(Result)
    PROVE  /\ Entries(rs) \in Seq([query : Files, round : Nat \ {0},
                                   status : {"success", "error"}])
           /\ Len(Entries(rs)) = Len(rs)
<1>1. DOMAIN rs = 1..Len(rs) /\ Len(rs) \in Nat
  BY LenProperties
<1>2. \A k \in 1..Len(rs) : rs[k] \in Result
  BY ElementOfSeq
<1>3. Entries(rs) \in [1..Len(rs) -> [query : Files, round : Nat \ {0},
                                     status : {"success", "error"}]]
  BY <1>1, <1>2 DEF Entries, Result
<1>4. Entries(rs) \in Seq([query : Files, round : Nat \ {0},
                           status : {"success", "error"}])
  <2>1. Entries(rs) \in UNION {[1..m -> [query : Files, round : Nat \ {0},
                                         status : {"success", "error"}]]
                               : m \in Nat}
    BY <1>1, <1>3
  <2>. QED  BY <2>1, SeqDef
<1>5. DOMAIN Entries(rs) = 1..Len(Entries(rs)) /\ Len(Entries(rs)) \in Nat
  BY <1>4, LenProperties
<1>. QED  BY <1>1, <1>3, <1>4, <1>5

(* Which side of connect() main is on decides whether a session is open.  *)
ConnAtStart ==
    /\ pc = "connect" => conn = "none"
    /\ pc = "load" => conn = "open"

RefInv == RInv /\ ConnAtStart

LEMMA InitRefInv == Init => RefInv
BY InitRInv DEF Init, RefInv, ConnAtStart

LEMMA NextRefInv == RefInv /\ [Next]_vars => RefInv'
<1>. SUFFICES ASSUME RefInv, [Next]_vars PROVE RefInv'
  OBVIOUS
<1>1. RInv'
  BY NextRInv DEF RefInv
<1>2. ConnAtStart'
  BY DEF RefInv, ConnAtStart, Next, connect, load_sql_files,
         execute_query_simple, execute_query_with_detailed_timing,
         execute_query_with_explain, RunQuery, end_round, finish_rounds,
         save_results, interrupt, disconnect, Terminated, vars
<1>. QED  BY <1>1, <1>2 DEF RefInv

(* The abstract initial state.                                             *)
LEMMA InitMaps == Init => BR!AInit
<1>. SUFFICES ASSUME Init PROVE BR!AInit
  OBVIOUS
<1>1. Entries(results) = <<>>
  BY DEF Init, Entries
<1>2. SavedReport = NoReport
  BY DEF Init, SavedReport, NoReport, Report
<1>. QED  BY <1>1, <1>2 DEF Init, BR!AInit, Stage

(* A step that leaves results, report, conn, queries and iterations alone *)
(* and stays in the same stage is a stutter of the abstract run.           *)
LEMMA StutterMaps ==
    ASSUME UNCHANGED <<iterations, conn, queries, results, report>>,
           Stage' = Stage
    PROVE  UNCHANGED BR!avars
BY DEF BR!avars, Entries, SavedReport

(* The result appended by a mode is the abstract Dispatch step.            *)
LEMMA RunQueryMaps ==
    ASSUME RefInv, NEW st \in {"success", "error"}, NEW t, NEW b, NEW sm,
           NEW d, RunQuery(MkResult(st, t, b, sm, d))
    PROVE  BR!Dispatch
<1>. DEFINE n == Len(queries)
            e == [query |-> queries[i], round |-> r, status |-> st]
<1>1. /\ pc = "round" /\ 1 <= r /\ r <= iterations
      /\ 1 <= i /\ i <= n
      /\ Len(results) = (r - 1) * n + (i - 1)
      /\ queries \in Seq(Files) /\ results \in Seq(Result)
      /\ r \in Nat /\ i \in Nat /\ iterations \in Int
  BY IterationAssumption
     DEF RefInv, RInv, IInv, TypeOK, RoundBookkeeping, RunQuery
<1>2. n \in Nat \ {0}
  BY <1>1, LenProperties
<1>3. /\ Len(results) % n = i - 1
      /\ Len(results) \div n = r - 1
  <2>1. r - 1 \in Nat /\ i - 1 \in 0..(n - 1)
    BY <1>1, <1>2
  <2>2. /\ ((r - 1) * n + (i - 1)) % n = i - 1
        /\ ((r - 1) * n + (i - 1)) \div n = r - 1
    BY <1>2, <2>1, DivModSlot
  <2>. QED  BY <1>1, <2>2
<1>4. Len(results) < iterations * n
  BY <1>1, <1>2, BelowBound
<1>5. BR!Slot(Len(results) + 1, queries) = [query |-> queries[i], round |-> r]
  BY <1>1, <1>3 DEF BR!Slot
<1>6. Entries(results') = Append(Entries(results), e)
  <2>1. results' = Append(results, MkResult(st, t, b, sm, d))
    BY DEF RunQuery
  <2>2. Len(results') = Len(results) + 1
    BY <1>1, <2>1, AppendProperties
  <2>. QED  BY <1>1, <2>1, <2>2, AppendProperties DEF Entries, MkResult
<1>7. Stage' = "running" /\ Stage = "running"
  BY <1>1 DEF RunQuery, Stage
<1>8. Len(Entries(results)) = Len(results)
  BY <1>1, EntriesLen
<1>9. SavedReport' = SavedReport
  BY DEF RunQuery, SavedReport
<1>. QED  BY <1>1, <1>4, <1>5, <1>6, <1>7, <1>8, <1>9
          DEF BR!Dispatch, RunQuery

(* Every step of QueryExecutor is a step of BenchmarkRun or a stutter.     *)
LEMMA StepMaps == RefInv /\ RefInv' /\ [Next]_vars => [BR!ANext]_BR!avars
<1>. SUFFICES ASSUME RefInv, RefInv', [Next]_vars PROVE [BR!ANext]_BR!avars
  OBVIOUS
<1>. USE DEF RefInv
<1>a. /\ NoReport \notin Report /\ SaveFailed \notin Report
      /\ SavedReport = NoReport <=> report \notin Report
  BY DEF NoReport, SaveFailed, Report, SavedReport
<1>1. CASE connect
  <2>1. CASE pc' = "save" /\ UNCHANGED conn
    BY <1>1, <2>1 DEF connect, BR!Stop, BR!ANext, Stage, SavedReport
  <2>2. CASE conn' = "open"
    BY <1>1, <2>2 DEF connect, BR!Connect, BR!ANext, Stage, SavedReport,
                      ConnAtStart
  <2>. QED  BY <1>1, <2>1, <2>2 DEF connect
<1>2. CASE load_sql_files
  BY <1>2 DEF load_sql_files, BR!Load, BR!ANext, Stage, SavedReport,
               ConnAtStart
<1>3. CASE execute_query_simple \/ execute_query_with_detailed_timing
           \/ execute_query_with_explain
  <2>1. \E st \in {"success", "error"} : \E t, b, sm, d :
           RunQuery(MkResult(st, t, b, sm, d))
    BY <1>3 DEF execute_query_simple, execute_query_with_detailed_timing,
                execute_query_with_explain
  <2>. QED  BY <2>1, RunQueryMaps DEF BR!ANext
<1>4. CASE end_round
  <2>1. Stage' = Stage
    BY <1>4 DEF end_round, Stage
  <2>. QED  BY <1>4, <2>1, StutterMaps DEF end_round
<1>5. CASE finish_rounds
  BY <1>5 DEF finish_rounds, BR!Stop, BR!ANext, BR!Closed, Stage, SavedReport
<1>6. CASE save_results
  <2>1. CASE report' = SaveFailed
    <3>1. Stage' = Stage
      BY <1>6 DEF save_results, Stage
    <3>2. SavedReport' = SavedReport
      BY <1>6, <1>a, <2>1 DEF save_results, RInv, RoundBookkeeping,
                             SavedReport
    <3>. QED  BY <1>6, <3>1, <3>2 DEF save_results, BR!avars
  <2>2. CASE report' # SaveFailed
    <3>1. /\ pc = "save" /\ report = NoReport
          /\ WholeRounds(savedRounds)
      BY <1>6 DEF save_results, RInv, RoundBookkeeping
    <3>2. Len(savedRounds) \in {0, iterations}
      BY <3>1, LenProperties DEF WholeRounds, RInv, IInv, TypeOK
    <3>3. report'.results = results /\ report'.rounds = Len(savedRounds)
          /\ report' \notin {NoReport, SaveFailed}
      BY <1>6, <2>2 DEF save_results, NoReport
    <3>4a. report' \in Report
      BY <3>3 DEF RInv, IInv, TypeOK
    <3>4. SavedReport' = [log |-> Entries(results), rounds |-> Len(savedRounds)]
      BY <3>3, <3>4a DEF SavedReport
    <3>5. Stage' = "stopped" /\ Stage = "stopped"
      BY <1>6 DEF save_results, Stage
    <3>6. Len(Entries(results)) = Len(savedRounds) * Len(queries)
      BY <3>1, EntriesLen DEF WholeRounds, RInv, IInv, TypeOK
    <3>7. SavedReport = NoReport
      BY <1>a, <3>1
    <3>8. BR!Persist
      BY <1>6, <3>2, <3>4, <3>5, <3>6, <3>7 DEF save_results, BR!Persist
    <3>. QED  BY <3>8 DEF BR!ANext
  <2>. QED  BY <2>1, <2>2
<1>7. CASE interrupt
  <2>1. CASE pc = "save"
    BY <1>7, <2>1, StutterMaps DEF interrupt, Stage
  <2>2. CASE pc # "save"
    BY <1>7, <2>2 DEF interrupt, BR!Stop, BR!ANext, Stage, SavedReport
  <2>. QED  BY <2>1, <2>2
<1>8. CASE disconnect
  BY <1>8 DEF disconnect, BR!Exit, BR!ANext, BR!Closed, Stage, SavedReport
<1>9. CASE Terminated \/ UNCHANGED vars
  <2>1. Stage' = Stage
    BY <1>9 DEF Terminated, vars, Stage
  <2>. QED  BY <1>9, <2>1, StutterMaps DEF Terminated, vars
<1>. QED  BY <1>1, <1>2, <1>3, <1>4, <1>5, <1>6, <1>7, <1>8, <1>9 DEF Next

(* Every run of main() is a run of the abstract benchmark: one session     *)
(* opened and closed, the query list fixed once, results appended one at a *)
(* time in round and file order for at most the requested rounds, and at   *)
(* most one report, written after dispatch stopped, holding whole rounds.  *)
THEOREM RefinesBenchmarkRun == Spec => BR!ASafety
<1>1. Init => BR!AInit
  BY InitMaps
<1>2. RefInv /\ RefInv' /\ [Next]_vars => [BR!ANext]_BR!avars
  BY StepMaps
<1>. QED  BY <1>1, <1>2, InitRefInv, NextRefInv, PTL DEF Spec, BR!ASafety

=============================================================================
