----------------------- MODULE QueryExecutorOrderProofs -----------------------
(***************************************************************************)
(* Proof about the order of self.results, for every number of files and   *)
(* rounds: the k-th result stands for the file and round of position k in *)
(* a round-major run.  It rests on the round-loop bookkeeping RInv of      *)
(* QueryExecutorProofs and on the slot lemma DivModSlot.                   *)
(***************************************************************************)
EXTENDS QueryExecutorRefinementProofs

(* A step that keeps the loaded list and the results keeps their order.   *)
LEMMA OrderUnchanged ==
    ASSUME ResultsInRoundOrder, UNCHANGED <<queries, results>>
    PROVE  ResultsInRoundOrder'
BY DEF ResultsInRoundOrder

(* Appending the result of file queries[i] in round r, at position         *)
(* (r - 1) * n + i, keeps every result at its slot.                        *)
LEMMA RunQueryOrder ==
    ASSUME RInv, ResultsInRoundOrder, NEW res, RunQuery(res),
           res.file = queries[i], res.round = r
    PROVE  ResultsInRoundOrder'
<1>. DEFINE n == Len(queries)
<1>1. /\ pc = "round" /\ 1 <= r /\ 1 <= i /\ i <= n
      /\ Len(results) = (r - 1) * n + (i - 1)
      /\ queries \in Seq(Files) /\ results \in Seq(Result)
      /\ r \in Nat /\ i \in Nat
  BY DEF RInv, IInv, TypeOK, RoundBookkeeping, RunQuery
<1>2. n \in Nat \ {0} /\ Len(results) \in Nat
  BY <1>1, LenProperties
<1>3. /\ Len(results) % n = i - 1
      /\ Len(results) \div n = r - 1
  <2>1. r - 1 \in Nat /\ i - 1 \in 0..(n - 1)
    BY <1>1, <1>2
  <2>2. /\ ((r - 1) * n + (i - 1)) % n = i - 1
        /\ ((r - 1) * n + (i - 1)) \div n = r - 1
    BY <1>2, <2>1, DivModSlot
  <2>. QED  BY <1>1, <2>2
<1>4. /\ results' = Append(results, res)
      /\ queries' = queries
  BY DEF RunQuery
<1>5. /\ DOMAIN results' = 1..(Len(results) + 1)
      /\ \A k \in 1..Len(results) : results'[k] = results[k]
      /\ results'[Len(results) + 1] = res
  BY <1>1, <1>4, AppendProperties
<1>. SUFFICES ASSUME NEW k \in DOMAIN results'
              PROVE  /\ results'[k].file = queries[((k - 1) % n) + 1]
                     /\ results'[k].round = ((k - 1) \div n) + 1
  BY <1>4 DEF ResultsInRoundOrder
<1>6. CASE k \in 1..Len(results)
  <2>1. k \in DOMAIN results
    BY <1>1, <1>6, LenProperties
  <2>. QED  BY <1>4, <1>5, <1>6, <2>1 DEF ResultsInRoundOrder
<1>7. CASE k = Len(results) + 1
  <2>1. k - 1 = Len(results) /\ results'[k] = res
    BY <1>2, <1>5, <1>7
  <2>2. /\ ((k - 1) % n) + 1 = i
        /\ ((k - 1) \div n) + 1 = r
    BY <1>1, <1>2, <1>3, <2>1
  <2>. QED  BY <2>1, <2>2
<1>. QED  BY <1>2, <1>5, <1>6, <1>7

(* The order is an invariant together with the bookkeeping of the loop.   *)
LEMMA NextOrder == RInv /\ ResultsInRoundOrder /\ [Next]_vars
                     => ResultsInRoundOrder'
<1>. SUFFICES ASSUME RInv, ResultsInRoundOrder, [Next]_vars
              PROVE  ResultsInRoundOrder'
  OBVIOUS
<1>1. CASE load_sql_files
  <2>1. results = <<>> /\ results' = results
    BY <1>1 DEF load_sql_files, RInv, RoundBookkeeping
  <2>. QED  BY <2>1 DEF ResultsInRoundOrder
<1>2. CASE execute_query_simple \/ execute_query_with_detailed_timing
           \/ execute_query_with_explain
  <2>1. \E st, t, b, sm, d : RunQuery(MkResult(st, t, b, sm, d))
    BY <1>2 DEF execute_query_simple, execute_query_with_detailed_timing,
                execute_query_with_explain
  <2>2. PICK st, t, b, sm, d : RunQuery(MkResult(st, t, b, sm, d))
    BY <2>1
  <2>. QED  BY <2>2, RunQueryOrder DEF MkResult
<1>3. CASE connect \/ end_round \/ finish_rounds \/ save_results
           \/ interrupt \/ disconnect \/ Terminated \/ UNCHANGED vars
  BY <1>3, OrderUnchanged
     DEF connect, end_round, finish_rounds, save_results, interrupt,
         disconnect, Terminated, vars
<1>. QED  BY <1>1, <1>2, <1>3 DEF Next

(* self.results lists the rounds in order and, within each round, every   *)
(* loaded file in sorted order, for every number of files and rounds: the  *)
(* result appended by the (r, i) iteration of execute_all_queries sits at  *)
(* position (r - 1) * n + i, whose slot is (queries[i], r).                *)
THEOREM ResultsInRoundOrderHolds == Spec => []ResultsInRoundOrder
<1>1. Init => RInv /\ ResultsInRoundOrder
  BY InitRInv DEF Init, ResultsInRoundOrder
<1>2. RInv /\ ResultsInRoundOrder /\ [Next]_vars
        => (RInv /\ ResultsInRoundOrder)'
  BY NextRInv, NextOrder
<1>. QED  BY <1>1, <1>2, PTL DEF Spec

=============================================================================
