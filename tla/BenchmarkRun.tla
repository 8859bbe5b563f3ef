---------------------------- MODULE BenchmarkRun ----------------------------
(***************************************************************************)
(* What one benchmarking run promises, independently of how the executor  *)
(* times, dispatches and counts (spec sections 4.1, 4.5, 4.6 and 5):       *)
(*                                                                         *)
(*  - one session is opened at start-up and closed when the run exits;    *)
(*  - the query list is fixed once, then results are appended one at a    *)
(*    time, never changed or removed, in round order and within a round   *)
(*    in query-list order, for at most the requested rounds;              *)
(*  - a report is written at most once, after dispatch has stopped, and   *)
(*    it holds the whole result sequence, which then consists of exactly  *)
(*    the requested number of rounds (or of none, when start-up failed). *)
(*                                                                         *)
(* A result is reduced to its query, its round and its status.            *)
(***************************************************************************)
EXTENDS Naturals, Sequences

CONSTANTS
    Queries,          \* the query files
    QueryLists,       \* the ordered query lists loading may produce
    RoundChoices,     \* the round counts that may be requested
    NoSaved           \* no report written

VARIABLES
    stage,       \* "setup", "running", "stopped" or "exited"
    requested,   \* the rounds requested
    link,        \* the session: "none", "open" or "closed"
    files,       \* the loaded query list
    log,         \* the results so far: [query, round, status] records
    saved        \* the written report, or NoSaved

avars == <<stage, requested, link, files, log, saved>>


(* The query and round that the k-th result (from 1) stands for.          *)
Slot(k, fl) == [query |-> fl[((k - 1) % Len(fl)) + 1],
                round |-> ((k - 1) \div Len(fl)) + 1]

Closed(l) == IF l = "open" THEN "closed" ELSE l

AInit ==
    /\ stage = "setup"
    /\ requested \in RoundChoices
    /\ link = "none"
    /\ files = <<>>
    /\ log = <<>>
    /\ saved = NoSaved

(* The session is opened; start-up may still fail right after it.         *)
Connect ==
    /\ stage = "setup"
    /\ link = "none"
    /\ link' = "open"
    /\ stage' \in {"setup", "stopped"}
    /\ UNCHANGED <<requested, files, log, saved>>

(* The query list is fixed and dispatch begins.                           *)
Load ==
    /\ stage = "setup"
    /\ link = "open"
    /\ files' \in QueryLists
    /\ stage' = "running"
    /\ UNCHANGED <<requested, link, log, saved>>

(* The next query of the current round runs and its result is appended.   *)
Dispatch ==
    /\ stage = "running"
    /\ Len(log) < requested * Len(files)
    /\ \E st \in {"success", "error"} :
          log' = Append(log, [query |-> Slot(Len(log) + 1, files).query,
                              round |-> Slot(Len(log) + 1, files).round,
                              status |-> st])
    /\ UNCHANGED <<stage, requested, link, files, saved>>

(* Dispatch stops: the rounds are over, start-up failed, or the run was   *)
(* interrupted; the session may be closed on the way.                      *)
Stop ==
    /\ stage \in {"setup", "running"}
    /\ stage' = "stopped"
    /\ link' \in {link, Closed(link)}
    /\ UNCHANGED <<requested, files, log, saved>>

(* The report is written once, over whole requested rounds or none.       *)
Persist ==
    /\ stage = "stopped"
    /\ saved = NoSaved
    /\ \E rounds \in {0, requested} :
          /\ Len(log) = rounds * Len(files)
          /\ saved' = [log |-> log, rounds |-> rounds]
    /\ UNCHANGED <<stage, requested, link, files, log>>

(* The run exits and the session is closed.                               *)
Exit ==
    /\ stage = "stopped"
    /\ stage' = "exited"
    /\ link' = Closed(link)
    /\ UNCHANGED <<requested, files, log, saved>>

Exited == stage = "exited" /\ UNCHANGED avars

ANext == Connect \/ Load \/ Dispatch \/ Stop \/ Persist \/ Exit \/ Exited

(* The steps of the run, without its progress.                            *)
ASafety == AInit /\ [][ANext]_avars

(* The run does not stop making progress before it exits.                 *)
ASpec == ASafety /\ WF_avars(ANext)

=============================================================================
