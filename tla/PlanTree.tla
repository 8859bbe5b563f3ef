------------------------------ MODULE PlanTree ------------------------------
(***************************************************************************)
(* summarize_plan of execute_sql_queries_enhanced_with_analyze.py applied  *)
(* to one EXPLAIN (ANALYZE, BUFFERS, FORMAT JSON) document: the nested     *)
(* collect_buffers, which sums the buffer counters over the "Plans"        *)
(* children, and extract_plan_tree, which decodes the node tree through    *)
(* "Plans" and through the "Plan" of each "Workers" entry.  Any exception  *)
(* inside summarize_plan, RecursionError included, becomes the summary     *)
(* {"error": ...}.                                                          *)
(*                                                                         *)
(* A document is a tree of nodes 1..NumNodes in which every reference goes *)
(* to a larger number, so that it is a JSON tree.  A node keeps what the   *)
(* two recursions read: its buffer counters (a count or null), its         *)
(* "Plans" list and its "Workers" list.  The copied scalar fields (node    *)
(* type, costs, predicates, ...) are represented by the node's number.     *)
(***************************************************************************)
EXTENDS Naturals, Sequences, SequencesExt

CONSTANTS
    NumNodes,        \* nodes a document may have
    BufferKeys,      \* the counter names ("Shared Hit Blocks", ...)
    Counts,          \* values a counter may hold
    MaxWorkers,      \* length bound of a "Workers" list
    RecursionLimit,  \* Python frames available to the two recursions
    Null,            \* JSON null or a missing key: .get(k) returns None
    NotObject,       \* a JSON value that is not an object (number, list, ...)
    Missing,         \* top-level "Plan" missing: top.get("Plan", {}) is {}
    Raise,           \* an exception propagating out of a recursion
    Pending,         \* no plan_summary computed yet
    SummaryError     \* the {"error": "Failed to summarize plan: ..."} digest

ASSUME NumNodesAssumption == NumNodes \in Nat \ {0}
ASSUME CountsAssumption == Counts \subseteq Nat
ASSUME MaxWorkersAssumption == MaxWorkers \in Nat
ASSUME RecursionLimitAssumption == RecursionLimit \in Nat \ {0}

NodeIds == 1..NumNodes

Later(n) == {m \in NodeIds : m > n}

(* An entry of "Workers": an object whose "Plan" is a nested node, or is   *)
(* missing or not an object; or an entry that is not an object at all.     *)
WorkerEntry(n) == {NotObject} \cup [plan : Later(n) \cup {Null}]

(* One plan node: counters, the "Plans" children in document order, and   *)
(* "Workers" (Null when missing or not a list).                            *)
PlanNode(n) ==
    [counters : [BufferKeys -> Counts \cup {Null}],
     plans    : SetToAllKPermutations(Later(n)),
     workers  : {Null} \cup BoundedSeq(WorkerEntry(n), MaxWorkers)]

Blank == [counters |-> [k \in BufferKeys |-> Null], plans |-> <<>>,
          workers |-> Null]

(* The nodes a node refers to, through "Plans" or a worker's "Plan".     *)
Refs(node) ==
    LET ws == IF node.workers = Null THEN <<>> ELSE node.workers
    IN Range(node.plans) \cup
       ({ws[j].plan : j \in {j \in DOMAIN ws : ws[j] # NotObject}} \ {Null})

(* The documents the server can return, after json.loads(json.dumps(..)): *)
(* each node is referenced at most once, and a node nobody references is   *)
(* left Blank so that it does not multiply the documents.                  *)
Docs ==
    LET build[k \in 0..NumNodes] ==
            IF k = 0 THEN {<<>>}
            ELSE {Append(f, nd) : f \in build[k - 1], nd \in PlanNode(k)}
        OneParent(ns, rt) ==
            \A m \in NodeIds :
                LET c == {n \in NodeIds : m \in Refs(ns[n])} \cup
                         (IF rt = m THEN {0} ELSE {})
                IN /\ \A a, b \in c : a = b
                   /\ c = {} => ns[m] = Blank
    IN UNION {{[root |-> rt, nodes |-> ns] :
                  ns \in {ns \in build[NumNodes] : OneParent(ns, rt)}}
              : rt \in {1, Missing, Null}}

-----------------------------------------------------------------------------
(* isinstance(p[k], (int, float)): a count, not None.                      *)
Numeric(v) == v \in Nat

(* Mutant: `if p.get(k):` instead of the isinstance test, dropping zeros. *)
AddCountersTruthy(agg, node) ==
    LET dom == DOMAIN agg \cup
               {k \in BufferKeys : Numeric(node.counters[k]) /\ node.counters[k] # 0}
    IN [k \in dom |-> (IF k \in DOMAIN agg THEN agg[k] ELSE 0)
                      + (IF Numeric(node.counters[k]) THEN node.counters[k]
                         ELSE 0)]

(* The for-loop over the ten keys of collect_buffers on one node.         *)
AddCounters(agg, node) ==
    LET dom == DOMAIN agg \cup {k \in BufferKeys : Numeric(node.counters[k])}
    IN [k \in dom |-> (IF k \in DOMAIN agg THEN agg[k] ELSE 0)
                      + (IF Numeric(node.counters[k]) THEN node.counters[k]
                         ELSE 0)]

(* collect_buffers(p, agg) called at recursion depth `depth`: the counters *)
(* of p, then every dict child of "Plans" in order; "Workers" is not read. *)
RECURSIVE collect_buffers(_, _, _, _)
collect_buffers(doc, n, agg, depth) ==
    IF depth > RecursionLimit THEN Raise
    ELSE LET node == doc.nodes[n]
             visit[j \in 0..Len(node.plans)] ==
                 IF j = 0 THEN AddCounters(agg, node)
                 ELSE IF visit[j - 1] = Raise THEN Raise
                 ELSE collect_buffers(doc, node.plans[j], visit[j - 1],
                                      depth + 1)
         IN visit[Len(node.plans)]

(* The "buffers" entry of extract_plan_tree: the counters that are not     *)
(* None, or None when there is none.                                       *)
NodeBuffers(node) ==
    LET present == {k \in BufferKeys : node.counters[k] # Null}
    IN IF present = {} THEN Null ELSE [k \in present |-> node.counters[k]]

(* extract_plan_tree(node) at recursion depth `depth`: the decoded node    *)
(* with its children in "Plans" order and, when "Workers" is a list, a     *)
(* copy of each worker with "PlanTree" for a nested "Plan" object.         *)
(* dict(w) raises on an entry that is not an object.                       *)
(* Mutant: the nested "Plan" of a worker is copied but never decoded.    *)
CopyWorkerNoPlanTree(doc, w, depth) ==
    IF w = NotObject THEN Raise
    ELSE [plan |-> w.plan, planTree |-> Null]

RECURSIVE extract_plan_tree(_, _, _), CopyWorker(_, _, _)
CopyWorker(doc, w, depth) ==
    IF w = NotObject THEN Raise
    ELSE IF w.plan = Null THEN [plan |-> Null, planTree |-> Null]
    ELSE LET t == extract_plan_tree(doc, w.plan, depth + 1)
         IN IF t = Raise THEN Raise ELSE [plan |-> w.plan, planTree |-> t]

extract_plan_tree(doc, n, depth) ==
    IF depth > RecursionLimit THEN Raise
    ELSE LET node == doc.nodes[n]
             kids == [j \in DOMAIN node.plans |->
                        extract_plan_tree(doc, node.plans[j], depth + 1)]
             ws == IF node.workers = Null THEN Null
                   ELSE [j \in DOMAIN node.workers |->
                           CopyWorker(doc, node.workers[j], depth)]
         IN IF Raise \in Range(kids) \/ (ws # Null /\ Raise \in Range(ws))
            THEN Raise
            ELSE [node |-> n, buffers |-> NodeBuffers(node),
                  children |-> kids, workers |-> ws]

(* The decoding of the empty plan {} that a missing "Plan" key gives.     *)
EmptyTree == [node |-> Missing, buffers |-> Null, children |-> <<>>,
              workers |-> Null]

(* Mutant: top["Plan"] instead of top.get("Plan", {}), so a document     *)
(* without a root plan raises KeyError.                                    *)
summarize_plan_strict(doc) ==
    IF doc.root \in {Null, Missing} THEN SummaryError
    ELSE LET agg == collect_buffers(doc, doc.root, <<>>, 1)
             tree == extract_plan_tree(doc, doc.root, 1)
         IN IF agg = Raise \/ tree = Raise THEN SummaryError
            ELSE [buffers |-> IF DOMAIN agg = {} THEN Null ELSE agg,
                  tree |-> tree]

(* Mutant: extract_plan_tree called outside the try block, so its         *)
(* exception escapes summarize_plan instead of becoming the error digest.  *)
summarize_plan_unguarded(doc) ==
    IF doc.root = Null THEN SummaryError
    ELSE IF doc.root = Missing THEN [buffers |-> Null, tree |-> EmptyTree]
    ELSE LET agg == collect_buffers(doc, doc.root, <<>>, 1)
             tree == extract_plan_tree(doc, doc.root, 1)
         IN IF agg = Raise THEN SummaryError
            ELSE IF tree = Raise THEN Raise
            ELSE [buffers |-> IF DOMAIN agg = {} THEN Null ELSE agg,
                  tree |-> tree]

(* summarize_plan: a null "Plan" makes plan.get raise; otherwise           *)
(* collect_buffers runs, then extract_plan_tree, and "buffers" is the      *)
(* aggregate or None when it is empty.                                     *)
summarize_plan_of(doc) ==
    IF doc.root = Null THEN SummaryError
    ELSE IF doc.root = Missing THEN [buffers |-> Null, tree |-> EmptyTree]
    ELSE LET agg == collect_buffers(doc, doc.root, <<>>, 1)
             tree == extract_plan_tree(doc, doc.root, 1)
         IN IF agg = Raise \/ tree = Raise THEN SummaryError
            ELSE [buffers |-> IF DOMAIN agg = {} THEN Null ELSE agg,
                  tree |-> tree]

-----------------------------------------------------------------------------
(* The state: one document and its plan_summary, computed once.           *)
VARIABLES doc, summary

vars == <<doc, summary>>

Init == /\ doc \in Docs
        /\ summary = Pending

(* get_explain_analyze_json calling summarize_plan on the parsed rows.     *)
summarize_plan ==
    /\ summary = Pending
    /\ summary' = summarize_plan_of(doc)
    /\ UNCHANGED doc

(* The summary is in the result; nothing more happens to it.              *)
Summarized == summary # Pending /\ UNCHANGED vars

Next == summarize_plan \/ Summarized

Spec == Init /\ [][Next]_vars

-----------------------------------------------------------------------------
(* Reference definitions over the document and over the decoded tree.     *)

IsDigest(s) == s \notin {Pending, SummaryError}

(* The nodes that extract_plan_tree should visit, in preorder: the node,   *)
(* its "Plans" children, then the "Plan" of each object worker entry.      *)
RECURSIVE DocPreorder(_, _)
DocPreorder(d, n) ==
    LET node == d.nodes[n]
        ws == IF node.workers = Null THEN <<>> ELSE node.workers
    IN <<n>> \o FlattenSeq([j \in DOMAIN node.plans |->
                               DocPreorder(d, node.plans[j])])
             \o FlattenSeq([j \in DOMAIN ws |->
                               IF ws[j] = NotObject \/ ws[j].plan = Null
                               THEN <<>> ELSE DocPreorder(d, ws[j].plan)])

(* The frames extract_plan_tree needs on the document's deepest path.     *)
RECURSIVE DocHeight(_, _)
DocHeight(d, n) ==
    LET node == d.nodes[n]
        below == Refs(node)
    IN 1 + Max({0} \cup {DocHeight(d, m) : m \in below})

(* The subtrees of a decoded node: its children, and with `workers` also  *)
(* the PlanTree of each worker copy.                                       *)
Subtrees(t, workers) ==
    LET ws == IF ~workers \/ t.workers = Null THEN <<>> ELSE t.workers
    IN t.children \o
       FlattenSeq([j \in DOMAIN ws |->
                     IF ws[j].planTree = Null THEN <<>> ELSE <<ws[j].planTree>>])

RECURSIVE TreePreorder(_)
TreePreorder(t) ==
    LET sub == Subtrees(t, TRUE)
    IN <<t.node>> \o FlattenSeq([j \in DOMAIN sub |-> TreePreorder(sub[j])])

Own(t, k) == IF t.buffers # Null /\ k \in DOMAIN t.buffers
             THEN t.buffers[k] ELSE 0

RECURSIVE TreeHas(_, _, _)
TreeHas(t, k, workers) ==
    \/ t.buffers # Null /\ k \in DOMAIN t.buffers
    \/ \E j \in DOMAIN Subtrees(t, workers) :
          TreeHas(Subtrees(t, workers)[j], k, workers)

RECURSIVE TreeSum(_, _, _)
TreeSum(t, k, workers) ==
    LET sub == Subtrees(t, workers)
    IN Own(t, k) + SumFunction([j \in DOMAIN sub |-> TreeSum(sub[j], k, workers)])

BufferDomain(b) == IF b = Null THEN {} ELSE DOMAIN b

(* The aggregate equals, key by key, the sum over `workers`-selected nodes *)
(* of the decoded tree, and has a key exactly when some such node has it.  *)
AggregateMatches(s, workers) ==
    \A k \in BufferKeys :
        /\ k \in BufferDomain(s.buffers) <=> TreeHas(s.tree, k, workers)
        /\ k \in BufferDomain(s.buffers) =>
              s.buffers[k] = TreeSum(s.tree, k, workers)

-----------------------------------------------------------------------------
(* Type invariant.                                                         *)
TypeOK ==
    /\ doc.root \in {1, Missing, Null}
    /\ \A n \in NodeIds : doc.nodes[n] \in PlanNode(n)
    /\ \/ summary \in {Pending, SummaryError}
       \/ /\ summary # Raise
          /\ \/ summary.buffers = Null
             \/ /\ DOMAIN summary.buffers \subseteq BufferKeys
                /\ \A k \in DOMAIN summary.buffers : summary.buffers[k] \in Nat
          /\ summary.tree # Raise
          /\ summary.tree.node \in NodeIds \cup {Missing}

(* The summary's "buffers", computed by collect_buffers, agrees with the   *)
(* per-node "buffers" that extract_plan_tree put into the same summary:    *)
(* each counter is the sum over the nodes reached through "Plans", and is  *)
(* present exactly when one of those nodes reported it (zero included).    *)
BufferSumOverChildren ==
    IsDigest(summary) => AggregateMatches(summary, FALSE)

(* Spec 4.4 and 6: the aggregate sums each counter over every node of the  *)
(* fully decoded tree, which includes the PlanTree of worker sub-plans.    *)
(* collect_buffers never descends into "Workers".                           *)
BufferSumOverDecodedTree ==
    IsDigest(summary) => AggregateMatches(summary, TRUE)

(* extract_plan_tree decodes every node of the document exactly once and  *)
(* in document order: the decoded tree read in preorder (children, then    *)
(* worker PlanTrees) is the document's own preorder.                        *)
PreorderPreserved ==
    IsDigest(summary) /\ doc.root \in NodeIds =>
        TreePreorder(summary.tree) = DocPreorder(doc, doc.root)

(* summarize_plan degrades to {"error": ...} exactly on a null "Plan", a   *)
(* worker entry that dict() rejects, or a plan deeper than the frames the  *)
(* recursion has (RecursionError); a missing "Plan" gives a digest.        *)
ErrorOnlyOnMalformed ==
    summary # Pending =>
        (summary = SummaryError <=>
            \/ doc.root = Null
            \/ /\ doc.root \in NodeIds
               /\ \/ DocHeight(doc, doc.root) > RecursionLimit
                  \/ \E j \in DOMAIN DocPreorder(doc, doc.root) :
                        LET node == doc.nodes[DocPreorder(doc, doc.root)[j]]
                        IN node.workers # Null /\ NotObject \in Range(node.workers))

=============================================================================
