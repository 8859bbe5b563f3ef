------------------------------- MODULE Labels -------------------------------
(***************************************************************************)
(* The scenario labels of the offline tools: map_scenario of the           *)
(* fingerprint cache generator (generate_sql_speedup_hash_cache.py), and   *)
(* the label tables of the similarity comparison                           *)
(* (compare_component_similarity.py): load_best_csv, parse_map_line with   *)
(* COMP_NORM, BIT_MAP and hamming in evaluate.                             *)
(*                                                                         *)
(* A label string is abstracted to what strip(), lower() and upper() and   *)
(* Python truthiness tell apart: a word (the letters, '_' and '+' it is   *)
(* made of, kept in lower case), the case it is written in, and whether    *)
(* it is padded with whitespace.  A word is one of the table keys or of   *)
(* OtherWords (an unknown label, and the empty word).                     *)
(***************************************************************************)
EXTENDS Integers, FiniteSets

CONSTANTS
    OtherWords,   \* words no table knows, "" among them
    Pending,      \* nothing computed yet
    Skipped       \* evaluate drops the query

ASSUME OtherWordsAssumption == "" \in OtherWords

(* A Python dict literal {k1: v1, ...} with distinct keys.                 *)
Dict(pairs) == [k \in {e[1] : e \in pairs} |->
                    (CHOOSE e \in pairs : e[1] = k)[2]]

(* Mutant: the "cm_jn" entry copied from the line above it.               *)
MAPPING_typo ==
    Dict({<<"baseline", "none">>, <<"ce_cm", "ce+cm">>, <<"ce", "ce">>,
          <<"cm", "cm">>, <<"jn", "jn">>, <<"ce_jn", "ce+jn">>,
          <<"cm_jn", "ce+jn">>, <<"all_three", "all">>, <<"all", "all">>,
          <<"ce+cm", "ce+cm">>, <<"ce+jn", "ce+jn">>, <<"cm+jn", "cm+jn">>,
          <<"ce+cm+jn", "all">>})

(* The lookup table of map_scenario: lower-case key -> canonical label.   *)
MAPPING ==
    Dict({<<"baseline", "none">>, <<"ce_cm", "ce+cm">>, <<"ce", "ce">>,
          <<"cm", "cm">>, <<"jn", "jn">>, <<"ce_jn", "ce+jn">>,
          <<"cm_jn", "cm+jn">>, <<"all_three", "all">>, <<"all", "all">>,
          <<"ce+cm", "ce+cm">>, <<"ce+jn", "ce+jn">>, <<"cm+jn", "cm+jn">>,
          <<"ce+cm+jn", "all">>})

(* BIT_MAP: the (CE, CM, JN) flags of a lower-case label.                  *)
BIT_MAP ==
    Dict({<<"none", <<0, 0, 0>> >>, <<"baseline", <<0, 0, 0>> >>,
          <<"ce", <<1, 0, 0>> >>, <<"cm", <<0, 1, 0>> >>,
          <<"jn", <<0, 0, 1>> >>, <<"ce_cm", <<1, 1, 0>> >>,
          <<"ce_jn", <<1, 0, 1>> >>, <<"cm_jn", <<0, 1, 1>> >>,
          <<"all_three", <<1, 1, 1>> >>, <<"all", <<1, 1, 1>> >>,
          <<"ce+cm", <<1, 1, 0>> >>, <<"ce+jn", <<1, 0, 1>> >>,
          <<"cm+jn", <<0, 1, 1>> >>, <<"ce+cm+jn", <<1, 1, 1>> >>})

(* BEST_NORM: a best_combo cell, lower-cased, to a BIT_MAP key.           *)
BEST_NORM ==
    Dict({<<"baseline", "baseline">>, <<"ce", "ce">>, <<"cm", "cm">>,
          <<"jn", "jn">>, <<"ce_cm", "ce_cm">>, <<"ce_jn", "ce_jn">>,
          <<"cm_jn", "cm_jn">>, <<"all_three", "all_three">>,
          <<"all", "all_three">>, <<"ce+cm", "ce_cm">>,
          <<"ce+jn", "ce_jn">>, <<"cm+jn", "cm_jn">>,
          <<"ce+cm+jn", "all_three">>})

(* COMP_NORM: an upper-case log component (its word here) to a BIT_MAP    *)
(* key.                                                                    *)
COMP_NORM ==
    Dict({<<"none", "none">>, <<"n", "none">>, <<"cm", "cm">>,
          <<"ce", "ce">>, <<"jn", "jn">>, <<"ce+cm", "ce_cm">>,
          <<"ce+jn", "ce_jn">>, <<"cm+jn", "cm_jn">>,
          <<"all", "all_three">>})

Words == DOMAIN MAPPING \cup DOMAIN BIT_MAP \cup DOMAIN COMP_NORM
           \cup OtherWords

(* A string; the empty word has no case.                                   *)
Str(w, c, p) == [word |-> w, case |-> IF w = "" THEN "lower" ELSE c, pad |-> p]

Labels == {Str(w, c, p) : w \in Words, c \in {"lower", "upper", "mixed"},
                          p \in BOOLEAN}

Strip(s) == Str(s.word, s.case, FALSE)
Lower(s) == Str(s.word, "lower", s.pad)
Upper(s) == Str(s.word, "upper", s.pad)

(* Python truthiness of a string: it is not empty.                         *)
Truthy(s) == s.word # "" \/ s.pad

(* A canonical label as map_scenario returns it.                           *)
Canon(w) == Str(w, "upper", FALSE)

-----------------------------------------------------------------------------
(* map_scenario(best_combo): an empty cell is "NONE"; the stripped,        *)
(* lower-cased cell is looked up; an unknown cell is returned stripped and *)
(* upper-cased.                                                            *)
map_scenario(s) ==
    IF ~Truthy(s) THEN Canon("none")
    ELSE LET key == Lower(Strip(s)).word
         IN IF key \in DOMAIN MAPPING THEN Canon(MAPPING[key])
            ELSE Upper(Strip(s))

(* load_best_csv: (best_combo or "").strip().lower(), through BEST_NORM.   *)
BestCombo(s) ==
    LET combo == Lower(Strip(s)).word
    IN IF combo \in DOMAIN BEST_NORM THEN BEST_NORM[combo] ELSE combo

(* parse_map_line on a logged component, then the COMP_NORM lookup of     *)
(* load_current_txt: stripped, spaces removed and upper-cased, then the    *)
(* table or the lower-cased component.                                     *)
PredCombo(s) ==
    LET comp == Upper(Strip(s))
    IN IF comp.word \in DOMAIN COMP_NORM THEN COMP_NORM[comp.word]
       ELSE Lower(comp).word

(* hamming(a, b): the positions where two flag triples differ.             *)
hamming(a, b) == Cardinality({k \in DOMAIN a : a[k] # b[k]})

(* The distance evaluate records for one query, or Skipped when a label is *)
(* not in BIT_MAP.                                                         *)
Distance(best, pred) ==
    IF best \in DOMAIN BIT_MAP /\ pred \in DOMAIN BIT_MAP
    THEN hamming(BIT_MAP[best], BIT_MAP[pred])
    ELSE Skipped

-----------------------------------------------------------------------------
(* One query's label on its way through the tools: the best_combo cell,    *)
(* the scenario the cache generator writes for it, and the distance the    *)
(* comparison computes when the engine logs the cached scenario back.      *)
VARIABLES cell, scenario, distance

vars == <<cell, scenario, distance>>

Init == /\ cell \in Labels
        /\ scenario = Pending
        /\ distance = Pending

(* The row loop of the cache generator's main: scenario = map_scenario(). *)
generate ==
    /\ scenario = Pending
    /\ scenario' = map_scenario(cell)
    /\ UNCHANGED <<cell, distance>>

(* evaluate over the best table and the mapping file that holds the       *)
(* logged scenario.                                                        *)
evaluate ==
    /\ scenario # Pending
    /\ distance = Pending
    /\ distance' = Distance(BestCombo(cell), PredCombo(scenario))
    /\ UNCHANGED <<cell, scenario>>

Done == distance # Pending /\ UNCHANGED vars

Next == generate \/ evaluate \/ Done

Spec == Init /\ [][Next]_vars

-----------------------------------------------------------------------------
(* The comparison never charges the engine for a disagreement the tables   *)
(* make: a scenario the cache generator derived from a best_combo cell,    *)
(* logged back and read by compare_component_similarity, has the flags   *)
(* load_best_csv gives the cell itself, for every spelling, case and      *)
(* padding of the cell.                                                    *)
ToolsAgree == distance \in {Pending, Skipped, 0}

(* Spec: scenario mapping is idempotent, so feeding map_scenario its own   *)
(* output changes nothing.                                                 *)
ScenarioIdempotent ==
    scenario # Pending => map_scenario(scenario) = scenario

=============================================================================
