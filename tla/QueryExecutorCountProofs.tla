----------------------- MODULE QueryExecutorCountProofs -----------------------
(***************************************************************************)
(* Proof that the per-round success/error counts of execute_all_queries   *)
(* are exact for every number of rounds, although they are filtered by the *)
(* substring test f"_round{r}" in name, which for r = 1 also matches the   *)
(* names of rounds 10..19.  The filter is the recursive function inside   *)
(* RoundTagIn; its value on the rounds that have run when a count is taken *)
(* follows from the least-element principle of the naturals (WFMin with   *)
(* NatLessThanWellFounded), by a minimal-counterexample argument.         *)
(***************************************************************************)
EXTENDS QueryExecutorProofs, WellFoundedInduction

(* The recursive function of RoundTagIn, for a name of a round rr that is  *)
(* not later than rnd, holds exactly at rnd: dropping trailing digits of   *)
(* rr gives a smaller number, which cannot be rnd.                         *)
LEMMA TagFix ==
    ASSUME NEW rnd \in Nat, NEW rr \in Nat, rr <= rnd, NEW f,
           f = [x \in 0..rr |-> x = rnd \/ (x >= 10 /\ f[x \div 10])]
    PROVE  \A x \in 0..rr : f[x] = (x = rnd)
<1>. DEFINE T == {x \in 0..rr : f[x] # (x = rnd)}
<1>. SUFFICES ASSUME T # {} PROVE FALSE
  OBVIOUS
<1>0. T \subseteq Nat
  OBVIOUS
<1>1. \E x \in T : \A y \in T : ~(<<y, x>> \in OpToRel(<, Nat))
  BY <1>0, NatLessThanWellFounded, WFMin, Zenon
<1>2. PICK x \in T : \A y \in T : ~(<<y, x>> \in OpToRel(<, Nat))
  BY <1>1
<1>3. x \in 0..rr /\ f[x] # (x = rnd)
  BY <1>2
<1>4. f[x] = (x = rnd \/ (x >= 10 /\ f[x \div 10]))
  BY <1>3
<1>5. CASE x < 10
  BY <1>3, <1>4, <1>5
<1>6. CASE x >= 10
  <2>1. x \div 10 \in 0..rr /\ x \div 10 < x /\ x \div 10 # rnd
    BY <1>3, <1>6
  <2>2. <<x \div 10, x>> \in OpToRel(<, Nat)
    BY <1>3, <2>1 DEF OpToRel
  <2>3. x \div 10 \notin T
    BY <1>2, <2>2, Zenon
  <2>4. f[x \div 10] = FALSE
    BY <2>1, <2>3
  <2>. QED  BY <1>3, <1>4, <2>4
<1>. QED  BY <1>3, <1>5, <1>6

(* The substring filter, applied to a result of a round not later than   *)
(* the one being counted, matches exactly the results of that round.       *)
LEMMA TagBelow ==
    ASSUME NEW rnd \in Nat, NEW rr \in Nat, rr <= rnd
    PROVE  RoundTagIn(rnd, rr) = (rr = rnd)
<1>1. \E f : f = [x \in 0..rr |-> x = rnd \/ (x >= 10 /\ f[x \div 10])]
  <2>. DEFINE g == [x \in 0..rr |-> x = rnd]
  <2>1. \A x \in 0..rr : x >= 10 => x \div 10 \in 0..rr /\ x \div 10 # rnd
    OBVIOUS
  <2>2. g = [x \in 0..rr |-> x = rnd \/ (x >= 10 /\ g[x \div 10])]
    BY <2>1
  <2>. QED  BY <2>2
<1>2. RoundTagIn(rnd, rr) =
        (CHOOSE f : f = [x \in 0..rr |-> x = rnd \/ (x >= 10 /\ f[x \div 10])])[rr]
  BY DEF RoundTagIn
<1>3. (CHOOSE f : f = [x \in 0..rr |-> x = rnd \/ (x >= 10 /\ f[x \div 10])])
      = [x \in 0..rr |-> x = rnd \/ (x >= 10 /\
           (CHOOSE f : f = [y \in 0..rr |-> y = rnd \/ (y >= 10 /\ f[y \div 10])])[x \div 10])]
  BY <1>1
<1>4. \A x \in 0..rr :
        (CHOOSE f : f = [y \in 0..rr |-> y = rnd \/ (y >= 10 /\ f[y \div 10])])[x]
        = (x = rnd)
  BY <1>3, TagFix
<1>. QED  BY <1>2, <1>4

(* Counted over results of rounds up to rnd, the filtered count of         *)
(* execute_all_queries is the exact count of round rnd.                    *)
LEMMA CountRoundExact ==
    ASSUME NEW rs \in Seq(Result), NEW rnd \in Nat, NEW st,
           \A j \in DOMAIN rs : rs[j].round <= rnd
    PROVE  CountRound(rs, rnd, st) = ExactCount(rs, rnd, st)
<1>0. \A j \in DOMAIN rs : rs[j] \in Result
  BY LenProperties, ElementOfSeq
<1>1. \A j \in DOMAIN rs : rs[j].round \in Nat
  BY <1>0 DEF Result
<1>2. \A j \in DOMAIN rs : RoundTagIn(rnd, rs[j].round) = (rs[j].round = rnd)
  BY <1>1, TagBelow
<1>3. {j \in DOMAIN rs : rs[j].status = st /\ RoundTagIn(rnd, rs[j].round)}
      = {j \in DOMAIN rs : rs[j].status = st /\ rs[j].round = rnd}
  BY <1>2
<1>. QED  BY <1>3 DEF CountRound, ExactCount

(* Appending a result of another round leaves a round's exact count alone. *)
LEMMA ExactCountAppend ==
    ASSUME NEW rs \in Seq(Result), NEW res, NEW k, NEW st, res.round # k
    PROVE  ExactCount(Append(rs, res), k, st) = ExactCount(rs, k, st)
<1>1. /\ DOMAIN Append(rs, res) = DOMAIN rs \cup {Len(rs) + 1}
      /\ \A j \in DOMAIN rs : Append(rs, res)[j] = rs[j]
      /\ Append(rs, res)[Len(rs) + 1] = res
  BY AppendProperties, LenProperties
<1>2. {j \in DOMAIN Append(rs, res) : Append(rs, res)[j].status = st
                                      /\ Append(rs, res)[j].round = k}
      = {j \in DOMAIN rs : rs[j].status = st /\ rs[j].round = k}
  BY <1>1
<1>. QED  BY <1>2 DEF ExactCount

-----------------------------------------------------------------------------
(* The strengthening: a count is printed once per finished round, and      *)
(* while round r runs no result of a later round exists yet.               *)
CountBookkeeping ==
    /\ Len(roundCounts) = Len(roundTimes)
    /\ pc = "round" => \A j \in DOMAIN results : results[j].round <= r

CInv == RInv /\ CountBookkeeping /\ RoundCountsExact

LEMMA InitCInv == Init => CInv
BY InitRInv DEF Init, CInv, CountBookkeeping, RoundCountsExact

(* A query of round r appends a result of round r, after every count       *)
(* printed so far (rounds 1..r-1).                                         *)
LEMMA RunQueryCount ==
    ASSUME CInv, NEW res, RunQuery(res), res.round = r
    PROVE  (CountBookkeeping /\ RoundCountsExact)'
<1>1. /\ pc = "round" /\ r \in Nat
      /\ Len(roundTimes) = r - 1 /\ results \in Seq(Result)
  BY DEF RunQuery, CInv, RInv, IInv, TypeOK, RoundBookkeeping
<1>2. /\ results' = Append(results, res)
      /\ UNCHANGED <<pc, r, roundTimes, roundCounts>>
  BY DEF RunQuery
<1>3. CountBookkeeping'
  <2>1. \A j \in DOMAIN results : results[j].round <= r
    BY <1>1 DEF CInv, CountBookkeeping
  <2>2. /\ DOMAIN results' = DOMAIN results \cup {Len(results) + 1}
        /\ \A j \in DOMAIN results : results'[j] = results[j]
        /\ results'[Len(results) + 1] = res
    BY <1>1, <1>2, AppendProperties, LenProperties
  <2>. QED  BY <1>1, <1>2, <2>1, <2>2 DEF CInv, CountBookkeeping
<1>4. RoundCountsExact'
  <2>. SUFFICES ASSUME NEW k \in DOMAIN roundCounts
                PROVE  /\ roundCounts[k].succ = ExactCount(results', k, "success")
                       /\ roundCounts[k].fail = ExactCount(results', k, "error")
    BY <1>2 DEF RoundCountsExact
  <2>1. k # r
    BY <1>1 DEF CInv, CountBookkeeping, IInv, TypeOK, RInv
  <2>. QED  BY <1>1, <1>2, <2>1, ExactCountAppend DEF CInv, RoundCountsExact
<1>. QED  BY <1>3, <1>4

(* end_round prints the counts of round r when every result so far is of   *)
(* a round up to r, and only then starts round r + 1.                      *)
LEMMA EndRoundCount ==
    ASSUME CInv, end_round
    PROVE  (CountBookkeeping /\ RoundCountsExact)'
<1>1. /\ pc = "round" /\ r \in Nat /\ results \in Seq(Result)
      /\ Len(roundTimes) = r - 1
      /\ roundCounts \in Seq([succ : Nat, fail : Nat])
      /\ roundTimes \in Seq(RoundDurations)
  BY DEF end_round, CInv, RInv, IInv, TypeOK, RoundBookkeeping
<1>2. \A j \in DOMAIN results : results[j].round <= r
  BY <1>1 DEF CInv, CountBookkeeping
<1>3. /\ results' = results /\ r' = r + 1
      /\ roundCounts' = Append(roundCounts,
                               [succ |-> CountRound(results, r, "success"),
                                fail |-> CountRound(results, r, "error")])
      /\ \E rt \in RoundDurations : roundTimes' = Append(roundTimes, rt)
  BY DEF end_round
<1>4. /\ Len(roundCounts') = Len(roundCounts) + 1
      /\ Len(roundTimes') = Len(roundTimes) + 1
      /\ DOMAIN roundCounts' = DOMAIN roundCounts \cup {Len(roundCounts) + 1}
      /\ \A k \in DOMAIN roundCounts : roundCounts'[k] = roundCounts[k]
      /\ roundCounts'[Len(roundCounts) + 1]
           = [succ |-> CountRound(results, r, "success"),
              fail |-> CountRound(results, r, "error")]
  BY <1>1, <1>3, AppendProperties, LenProperties
<1>5. Len(roundCounts) + 1 = r
  BY <1>1 DEF CInv, CountBookkeeping
<1>6. CountBookkeeping'
  <2>1. Len(roundCounts') = Len(roundTimes')
    BY <1>4 DEF CInv, CountBookkeeping
  <2>2. \A j \in DOMAIN results : results[j].round \in Nat
    <3>1. \A j \in DOMAIN results : results[j] \in Result
      BY <1>1, LenProperties, ElementOfSeq
    <3>. QED  BY <3>1 DEF Result
  <2>3. \A j \in DOMAIN results' : results'[j].round <= r'
    BY <1>1, <1>2, <1>3, <2>2
  <2>. QED  BY <2>1, <2>3 DEF CountBookkeeping
<1>7. /\ CountRound(results, r, "success") = ExactCount(results, r, "success")
      /\ CountRound(results, r, "error") = ExactCount(results, r, "error")
  BY <1>1, <1>2, CountRoundExact
<1>8. RoundCountsExact'
  BY <1>3, <1>4, <1>5, <1>7 DEF CInv, RoundCountsExact
<1>. QED  BY <1>6, <1>8

(* Every other step keeps the results, the counts and the round times, and *)
(* enters round mode only from load_sql_files, with no result yet.         *)
LEMMA NextCInv == CInv /\ [Next]_vars => CInv'
<1>. SUFFICES ASSUME CInv, [Next]_vars PROVE CInv'
  OBVIOUS
<1>0. RInv'
  BY NextRInv DEF CInv
<1>. SUFFICES (CountBookkeeping /\ RoundCountsExact)'
  BY <1>0 DEF CInv
<1>1. CASE load_sql_files
  <2>1. results = <<>> /\ roundTimes = <<>> /\ roundCounts = <<>>
    BY <1>1 DEF load_sql_files, CInv, RInv, RoundBookkeeping, CountBookkeeping
  <2>. QED  BY <1>1, <2>1 DEF load_sql_files, CountBookkeeping, RoundCountsExact
<1>2. CASE execute_query_simple \/ execute_query_with_detailed_timing
           \/ execute_query_with_explain
  <2>1. \E st, t, b, sm, d : RunQuery(MkResult(st, t, b, sm, d))
    BY <1>2 DEF execute_query_simple, execute_query_with_detailed_timing,
                execute_query_with_explain
  <2>2. PICK st, t, b, sm, d : RunQuery(MkResult(st, t, b, sm, d))
    BY <2>1
  <2>. QED  BY <2>2, RunQueryCount DEF MkResult
<1>3. CASE end_round
  BY <1>3, EndRoundCount
<1>4. CASE connect \/ finish_rounds \/ save_results \/ interrupt
           \/ disconnect \/ Terminated \/ UNCHANGED vars
  <2>1. UNCHANGED <<results, roundTimes, roundCounts>>
    BY <1>4 DEF connect, finish_rounds, save_results, interrupt, disconnect,
                Terminated, vars
  <2>2. pc' = "round" => pc = "round" /\ r' = r
    BY <1>4 DEF connect, finish_rounds, save_results, interrupt, disconnect,
                Terminated, vars
  <2>. QED  BY <2>1, <2>2 DEF CInv, CountBookkeeping, RoundCountsExact
<1>. QED  BY <1>1, <1>2, <1>3, <1>4 DEF Next

(* The success and error counts execute_all_queries prints after round k   *)
(* are those of round k's results, for every number of rounds and files:   *)
(* the filter f"_round{r}" in name, which also matches later rounds'       *)
(* names such as _round10 for r = 1, is applied before any later round    *)
(* has run.                                                                *)
THEOREM RoundCountsExactHolds == Spec => []RoundCountsExact
<1>1. Init => CInv
  BY InitCInv
<1>2. CInv /\ [Next]_vars => CInv'
  BY NextCInv
<1>3. CInv => RoundCountsExact
  BY DEF CInv
<1>. QED  BY <1>1, <1>2, <1>3, PTL DEF Spec

=============================================================================
