----------------------------- MODULE LabelsProofs -----------------------------
(***************************************************************************)
(* Proof that the scenario tables of the cache generator and of the        *)
(* similarity comparison agree, for every set OtherWords of labels the     *)
(* tables do not know: ToolsAgree is an invariant of Labels.               *)
(***************************************************************************)
EXTENDS Labels, TLAPS, FiniteSetTheorems

(* A dict literal with distinct keys maps each key to its value.           *)
LEMMA DictLookup ==
    ASSUME NEW pairs, \A e, f \in pairs : e[1] = f[1] => e = f,
           NEW e \in pairs
    PROVE  /\ e[1] \in DOMAIN Dict(pairs)
           /\ Dict(pairs)[e[1]] = e[2]
<1>1. e[1] \in {x[1] : x \in pairs}
  OBVIOUS
<1>2. (CHOOSE x \in pairs : x[1] = e[1]) = e
  BY Zenon
<1>. QED  BY <1>1, <1>2 DEF Dict

LEMMA DictDomain ==
    ASSUME NEW pairs
    PROVE  DOMAIN Dict(pairs) = {x[1] : x \in pairs}
BY DEF Dict

(* The four tables, entry by entry.                                        *)
LEMMA MappingTable ==
    /\ DOMAIN MAPPING = {"baseline", "ce_cm", "ce", "cm", "jn", "ce_jn",
                         "cm_jn", "all_three", "all", "ce+cm", "ce+jn",
                         "cm+jn", "ce+cm+jn"}
    /\ MAPPING["baseline"] = "none" /\ MAPPING["ce_cm"] = "ce+cm"
    /\ MAPPING["ce"] = "ce" /\ MAPPING["cm"] = "cm" /\ MAPPING["jn"] = "jn"
    /\ MAPPING["ce_jn"] = "ce+jn" /\ MAPPING["cm_jn"] = "cm+jn"
    /\ MAPPING["all_three"] = "all" /\ MAPPING["all"] = "all"
    /\ MAPPING["ce+cm"] = "ce+cm" /\ MAPPING["ce+jn"] = "ce+jn"
    /\ MAPPING["cm+jn"] = "cm+jn" /\ MAPPING["ce+cm+jn"] = "all"
<1>. DEFINE P == {<<"baseline", "none">>, <<"ce_cm", "ce+cm">>, <<"ce", "ce">>,
                  <<"cm", "cm">>, <<"jn", "jn">>, <<"ce_jn", "ce+jn">>,
                  <<"cm_jn", "cm+jn">>, <<"all_three", "all">>, <<"all", "all">>,
                  <<"ce+cm", "ce+cm">>, <<"ce+jn", "ce+jn">>,
                  <<"cm+jn", "cm+jn">>, <<"ce+cm+jn", "all">>}
<1>1. \A e, f \in P : e[1] = f[1] => e = f
  OBVIOUS
<1>2. MAPPING = Dict(P)
  BY DEF MAPPING
<1>3. \A e \in P : Dict(P)[e[1]] = e[2]
  BY <1>1, DictLookup
<1>4. DOMAIN Dict(P) = {x[1] : x \in P}
  BY DictDomain
<1>. QED  BY <1>2, <1>3, <1>4

LEMMA BitMapTable ==
    /\ DOMAIN BIT_MAP = {"none", "baseline", "ce", "cm", "jn", "ce_cm", "ce_jn", "cm_jn", "all_three", "all", "ce+cm", "ce+jn", "cm+jn", "ce+cm+jn"}
    /\ BIT_MAP["none"] = <<0, 0, 0>>
    /\ BIT_MAP["baseline"] = <<0, 0, 0>>
    /\ BIT_MAP["ce"] = <<1, 0, 0>>
    /\ BIT_MAP["cm"] = <<0, 1, 0>>
    /\ BIT_MAP["jn"] = <<0, 0, 1>>
    /\ BIT_MAP["ce_cm"] = <<1, 1, 0>>
    /\ BIT_MAP["ce_jn"] = <<1, 0, 1>>
    /\ BIT_MAP["cm_jn"] = <<0, 1, 1>>
    /\ BIT_MAP["all_three"] = <<1, 1, 1>>
    /\ BIT_MAP["all"] = <<1, 1, 1>>
    /\ BIT_MAP["ce+cm"] = <<1, 1, 0>>
    /\ BIT_MAP["ce+jn"] = <<1, 0, 1>>
    /\ BIT_MAP["cm+jn"] = <<0, 1, 1>>
    /\ BIT_MAP["ce+cm+jn"] = <<1, 1, 1>>
<1>. DEFINE P == {<<"none", <<0, 0, 0>> >>, <<"baseline", <<0, 0, 0>> >>,
                  <<"ce", <<1, 0, 0>> >>, <<"cm", <<0, 1, 0>> >>,
                  <<"jn", <<0, 0, 1>> >>, <<"ce_cm", <<1, 1, 0>> >>,
                  <<"ce_jn", <<1, 0, 1>> >>, <<"cm_jn", <<0, 1, 1>> >>,
                  <<"all_three", <<1, 1, 1>> >>, <<"all", <<1, 1, 1>> >>,
                  <<"ce+cm", <<1, 1, 0>> >>, <<"ce+jn", <<1, 0, 1>> >>,
                  <<"cm+jn", <<0, 1, 1>> >>, <<"ce+cm+jn", <<1, 1, 1>> >>}
<1>1. \A e, f \in P : e[1] = f[1] => e = f
  OBVIOUS
<1>2. BIT_MAP = Dict(P)
  BY DEF BIT_MAP
<1>3. \A e \in P : Dict(P)[e[1]] = e[2]
  BY <1>1, DictLookup
<1>4. DOMAIN Dict(P) = {x[1] : x \in P}
  BY DictDomain
<1>5. DOMAIN BIT_MAP = {x[1] : x \in P}
  BY <1>2, <1>4
<1>6. \A e \in P : BIT_MAP[e[1]] = e[2]
  BY <1>2, <1>3
<1>7. DOMAIN BIT_MAP = {"none", "baseline", "ce", "cm", "jn", "ce_cm", "ce_jn", "cm_jn", "all_three", "all", "ce+cm", "ce+jn", "cm+jn", "ce+cm+jn"}
  BY <1>5
<1>. QED  BY <1>7, <1>6

LEMMA BestNormTable ==
    /\ DOMAIN BEST_NORM = {"baseline", "ce", "cm", "jn", "ce_cm", "ce_jn", "cm_jn", "all_three", "all", "ce+cm", "ce+jn", "cm+jn", "ce+cm+jn"}
    /\ BEST_NORM["baseline"] = "baseline"
    /\ BEST_NORM["ce"] = "ce"
    /\ BEST_NORM["cm"] = "cm"
    /\ BEST_NORM["jn"] = "jn"
    /\ BEST_NORM["ce_cm"] = "ce_cm"
    /\ BEST_NORM["ce_jn"] = "ce_jn"
    /\ BEST_NORM["cm_jn"] = "cm_jn"
    /\ BEST_NORM["all_three"] = "all_three"
    /\ BEST_NORM["all"] = "all_three"
    /\ BEST_NORM["ce+cm"] = "ce_cm"
    /\ BEST_NORM["ce+jn"] = "ce_jn"
    /\ BEST_NORM["cm+jn"] = "cm_jn"
    /\ BEST_NORM["ce+cm+jn"] = "all_three"
<1>. DEFINE P == {<<"baseline", "baseline">>, <<"ce", "ce">>, <<"cm", "cm">>,
                  <<"jn", "jn">>, <<"ce_cm", "ce_cm">>, <<"ce_jn", "ce_jn">>,
                  <<"cm_jn", "cm_jn">>, <<"all_three", "all_three">>,
                  <<"all", "all_three">>, <<"ce+cm", "ce_cm">>,
                  <<"ce+jn", "ce_jn">>, <<"cm+jn", "cm_jn">>,
                  <<"ce+cm+jn", "all_three">>}
<1>1. \A e, f \in P : e[1] = f[1] => e = f
  OBVIOUS
<1>2. BEST_NORM = Dict(P)
  BY DEF BEST_NORM
<1>3. \A e \in P : Dict(P)[e[1]] = e[2]
  BY <1>1, DictLookup
<1>4. DOMAIN Dict(P) = {x[1] : x \in P}
  BY DictDomain
<1>. QED  BY <1>2, <1>3, <1>4

LEMMA CompNormTable ==
    /\ DOMAIN COMP_NORM = {"none", "n", "cm", "ce", "jn", "ce+cm", "ce+jn", "cm+jn", "all"}
    /\ COMP_NORM["none"] = "none"
    /\ COMP_NORM["n"] = "none"
    /\ COMP_NORM["cm"] = "cm"
    /\ COMP_NORM["ce"] = "ce"
    /\ COMP_NORM["jn"] = "jn"
    /\ COMP_NORM["ce+cm"] = "ce_cm"
    /\ COMP_NORM["ce+jn"] = "ce_jn"
    /\ COMP_NORM["cm+jn"] = "cm_jn"
    /\ COMP_NORM["all"] = "all_three"
<1>. DEFINE P == {<<"none", "none">>, <<"n", "none">>, <<"cm", "cm">>,
                  <<"ce", "ce">>, <<"jn", "jn">>, <<"ce+cm", "ce_cm">>,
                  <<"ce+jn", "ce_jn">>, <<"cm+jn", "cm_jn">>,
                  <<"all", "all_three">>}
<1>1. \A e, f \in P : e[1] = f[1] => e = f
  OBVIOUS
<1>2. COMP_NORM = Dict(P)
  BY DEF COMP_NORM
<1>3. \A e \in P : Dict(P)[e[1]] = e[2]
  BY <1>1, DictLookup
<1>4. DOMAIN Dict(P) = {x[1] : x \in P}
  BY DictDomain
<1>. QED  BY <1>2, <1>3, <1>4

(* The words some table knows.                                             *)
TableWords == DOMAIN MAPPING \cup DOMAIN BIT_MAP \cup DOMAIN COMP_NORM

(* hamming of a flag triple with itself is 0.                              *)
LEMMA HammingSelf ==
    ASSUME NEW a
    PROVE  hamming(a, a) = 0
<1>1. {k \in DOMAIN a : a[k] # a[k]} = {}
  OBVIOUS
<1>. QED  BY <1>1, FS_EmptySet DEF hamming

(* For a word the tables know, the flags load_best_csv gives it equal the  *)
(* flags the comparison reads back from the scenario map_scenario gives   *)
(* it, whenever both are in BIT_MAP.                                       *)
LEMMA WordAgrees ==
    ASSUME NEW w \in TableWords
    PROVE  LET best == IF w \in DOMAIN BEST_NORM THEN BEST_NORM[w] ELSE w
               sc   == IF w \in DOMAIN MAPPING THEN MAPPING[w] ELSE w
               pred == IF sc \in DOMAIN COMP_NORM THEN COMP_NORM[sc] ELSE sc
           IN  best \in DOMAIN BIT_MAP /\ pred \in DOMAIN BIT_MAP
               => BIT_MAP[best] = BIT_MAP[pred]
BY MappingTable, BitMapTable, BestNormTable, CompNormTable DEF TableWords

(* The distance evaluate records for one best_combo cell is 0 or the      *)
(* query is skipped.                                                       *)
LEMMA CellAgrees ==
    ASSUME NEW s \in Labels
    PROVE  Distance(BestCombo(s), PredCombo(map_scenario(s))) \in {Skipped, 0}
<1>1. PICK wd \in Words, cs \in {"lower", "upper", "mixed"}, pd \in BOOLEAN :
             s = Str(wd, cs, pd)
  BY DEF Labels
<1>2. BestCombo(s) = IF wd \in DOMAIN BEST_NORM THEN BEST_NORM[wd] ELSE wd
  BY <1>1 DEF BestCombo, Str, Strip, Lower
<1>3. CASE wd \in TableWords
  <2>1. wd # ""
    BY <1>3, MappingTable, BitMapTable, CompNormTable DEF TableWords
  <2>2. map_scenario(s) =
          IF wd \in DOMAIN MAPPING THEN Canon(MAPPING[wd]) ELSE Str(wd, "upper", FALSE)
    BY <1>1, <2>1 DEF map_scenario, Truthy, Str, Strip, Lower, Upper
  <2>3. map_scenario(s).word = (IF wd \in DOMAIN MAPPING THEN MAPPING[wd] ELSE wd)
    <3>1. CASE wd \in DOMAIN MAPPING
      <4>1. map_scenario(s) = Canon(MAPPING[wd])
        BY <2>2, <3>1
      <4>2. Canon(MAPPING[wd]).word = MAPPING[wd]
        BY DEF Canon, Str
      <4>. QED  BY <3>1, <4>1, <4>2
    <3>2. CASE wd \notin DOMAIN MAPPING
      <4>1. map_scenario(s) = Str(wd, "upper", FALSE)
        BY <2>2, <3>2
      <4>2. Str(wd, "upper", FALSE).word = wd
        BY DEF Str
      <4>. QED  BY <3>2, <4>1, <4>2
    <3>. QED  BY <3>1, <3>2
  <2>4. PredCombo(map_scenario(s)) =
          LET sc == (IF wd \in DOMAIN MAPPING THEN MAPPING[wd] ELSE wd)
          IN  IF sc \in DOMAIN COMP_NORM THEN COMP_NORM[sc] ELSE sc
    BY <2>3 DEF PredCombo, Str, Strip, Upper, Lower
  <2>. QED  BY <1>2, <1>3, <2>4, WordAgrees, HammingSelf DEF Distance
<1>4. CASE wd \notin TableWords
  <2>1. BestCombo(s) = wd /\ wd \notin DOMAIN BIT_MAP
    BY <1>2, <1>4, BestNormTable, BitMapTable, MappingTable DEF TableWords
  <2>. QED  BY <2>1 DEF Distance
<1>. QED  BY <1>3, <1>4

-----------------------------------------------------------------------------
(* The invariant: the distance is computed once, from the cell and the    *)
(* scenario generate wrote for it.                                         *)
LInv ==
    /\ cell \in Labels
    /\ scenario # Pending => scenario = map_scenario(cell)
    /\ distance \in {Pending, Skipped, 0}

(* The comparison never charges the engine for a disagreement of the      *)
(* tables: for every best_combo cell, in every spelling, case and padding, *)
(* the scenario the cache generator writes for it, read back by            *)
(* compare_component_similarity, has the flags load_best_csv gives the     *)
(* cell itself, whatever other labels the files hold.                      *)
THEOREM ToolsAgreeHolds == Spec => []ToolsAgree
<1>1. Init => LInv
  BY DEF Init, LInv
<1>2. LInv /\ [Next]_vars => LInv'
  <2>. SUFFICES ASSUME LInv, [Next]_vars PROVE LInv'
    OBVIOUS
  <2>1. CASE generate
    BY <2>1 DEF generate, LInv
  <2>2. CASE evaluate
    BY <2>2, CellAgrees DEF evaluate, LInv
  <2>3. CASE Done \/ UNCHANGED vars
    BY <2>3 DEF Done, vars, LInv
  <2>. QED  BY <2>1, <2>2, <2>3 DEF Next
<1>3. LInv => ToolsAgree
  BY DEF LInv, ToolsAgree
<1>. QED  BY <1>1, <1>2, <1>3, PTL DEF Spec

=============================================================================
