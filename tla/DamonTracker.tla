---------------------------- MODULE DamonTracker ----------------------------
(***************************************************************************)
(* The DAMON-like access-pattern tracker of src/ebpf/cxl_pmu.bpf.c:        *)
(* update_damon_data(pid, p) keeps one memory_access_pattern per pid in    *)
(* the hash map damon_data (MAX_TASKS entries) and classify_io_pattern     *)
(* derives io_pattern from the byte counters.  The task side is the pid's  *)
(* p->se.sum_exec_runtime and whether it has an mm; a pid whose task exits *)
(* can be taken by a new task.                                             *)
(*                                                                         *)
(* Each call is one step: no op of cxl_pmu.bpf.c calls the helper, so      *)
(* nothing runs two calls at once.  A call with time_delta = 0 (twice in   *)
(* the same nanosecond) changes nothing and is the model's stuttering.     *)
(* working_set_size, avg_access_size and the region counters are written   *)
(* from p->se.vruntime or not at all and read nowhere; last_access_time    *)
(* only serves the time_delta > 0 test.  They are left out.                *)
(***************************************************************************)
EXTENDS Integers, FiniteSets

CONSTANTS
    Pids,           \* pids that are observed
    MAX_TASKS,      \* max_entries of damon_data
    RunSteps,       \* how much runtime a task may add between two calls (ns)
    MaxRuntime,     \* bound on p->se.sum_exec_runtime
    MaxAccesses,    \* bound on nr_accesses
    NoEntry

VARIABLES
    damon_data,         \* damon_data[pid]: a Pattern, or NoEntry
    sum_exec_runtime,   \* p->se.sum_exec_runtime of the task holding pid
    has_mm              \* p->mm != NULL

vars == <<damon_data, sum_exec_runtime, has_mm>>

IoPatterns == {"UNKNOWN", "READ_HEAVY", "WRITE_HEAVY", "MIXED"}

Pattern == [nr_accesses : Nat, total_access_time : Nat, locality_score : Nat,
            read_bytes : Nat, write_bytes : Nat, io_pattern : IoPatterns]

Tracked == {p \in Pids : damon_data[p] # NoEntry}

(***************************************************************************)
(* classify_io_pattern: the read share in whole percent, truncated.        *)
(***************************************************************************)
classify_io_pattern(rd, wr) ==
    IF rd = 0 /\ wr = 0 THEN "UNKNOWN"
    ELSE LET read_ratio == (rd * 100) \div (rd + wr)
         IN  CASE read_ratio > 80 -> "READ_HEAVY"
               [] read_ratio < 20 -> "WRITE_HEAVY"
               [] OTHER           -> "MIXED"

\* Mutant: the boost for a consistent pattern is not saturated at 100.
LocalityStep_nocap(score, exec_delta, nr, io) ==
    LET s1 == IF exec_delta > nr * 500
              THEN IF score > 10 THEN score - 10 ELSE 0
              ELSE IF score < 90 THEN score + 5 ELSE 100
    IN  IF io \in {"READ_HEAVY", "WRITE_HEAVY"} THEN s1 + 5 ELSE s1

\* The locality adjustment of update_damon_data, both chained ternaries.
LocalityStep(score, exec_delta, nr, io) ==
    LET s1 == IF exec_delta > nr * 500
              THEN IF score > 10 THEN score - 10 ELSE 0
              ELSE IF score < 90 THEN score + 5 ELSE 100
    IN  IF io \in {"READ_HEAVY", "WRITE_HEAVY"}
        THEN IF s1 < 95 THEN s1 + 5 ELSE 100
        ELSE s1

\* The first observation of a pid.
NewPattern ==
    [nr_accesses |-> 0, total_access_time |-> 0, locality_score |-> 50,
     read_bytes |-> 0, write_bytes |-> 0, io_pattern |-> "UNKNOWN"]

\* Mutants of Observe: total_access_time not caught up (_nototal), and
\* io_pattern classified before the counters are charged (_early_io).
Observe_nototal(pat, runtime, mm) ==
    LET nr == pat.nr_accesses + 1
        d  == IF mm /\ runtime > pat.total_access_time
              THEN runtime - pat.total_access_time ELSE 0
        rd == IF d > 0 /\ d > nr * 1000 THEN pat.read_bytes + d \div 1000 ELSE pat.read_bytes
        wr == IF d > 0 /\ ~(d > nr * 1000) THEN pat.write_bytes + d \div 2000 ELSE pat.write_bytes
        io == classify_io_pattern(rd, wr)
    IN  [nr_accesses |-> nr, total_access_time |-> pat.total_access_time,
         read_bytes |-> rd, write_bytes |-> wr, io_pattern |-> io,
         locality_score |-> LocalityStep(pat.locality_score, d, nr, io)]

Observe_early_io(pat, runtime, mm) ==
    LET nr == pat.nr_accesses + 1
        d  == IF mm /\ runtime > pat.total_access_time
              THEN runtime - pat.total_access_time ELSE 0
        rd == IF d > 0 /\ d > nr * 1000 THEN pat.read_bytes + d \div 1000 ELSE pat.read_bytes
        wr == IF d > 0 /\ ~(d > nr * 1000) THEN pat.write_bytes + d \div 2000 ELSE pat.write_bytes
        io == classify_io_pattern(pat.read_bytes, pat.write_bytes)
    IN  [nr_accesses |-> nr, total_access_time |-> IF d > 0 THEN runtime ELSE pat.total_access_time,
         read_bytes |-> rd, write_bytes |-> wr, io_pattern |-> io,
         locality_score |-> LocalityStep(pat.locality_score, d, nr, io)]

(***************************************************************************)
(* A later observation with time_delta > 0: count it; with an mm and new   *)
(* runtime, charge the runtime delta as read bytes when it is large for    *)
(* the access count and as write bytes otherwise and catch the total up;   *)
(* then reclassify and adjust the locality.  Without an mm exec_delta      *)
(* stays 0.                                                                *)
(***************************************************************************)
Observe(pat, runtime, mm) ==
    LET nr         == pat.nr_accesses + 1
        exec_delta == IF mm /\ runtime > pat.total_access_time
                      THEN runtime - pat.total_access_time ELSE 0
        rd == IF exec_delta > 0 /\ exec_delta > nr * 1000
              THEN pat.read_bytes + exec_delta \div 1000 ELSE pat.read_bytes
        wr == IF exec_delta > 0 /\ ~(exec_delta > nr * 1000)
              THEN pat.write_bytes + exec_delta \div 2000 ELSE pat.write_bytes
        io == classify_io_pattern(rd, wr)
    IN  [nr_accesses       |-> nr,
         total_access_time |-> IF exec_delta > 0 THEN runtime ELSE pat.total_access_time,
         read_bytes        |-> rd,
         write_bytes       |-> wr,
         io_pattern        |-> io,
         locality_score    |-> LocalityStep(pat.locality_score, exec_delta, nr, io)]

Init ==
    /\ damon_data = [p \in Pids |-> NoEntry]
    /\ sum_exec_runtime = [p \in Pids |-> 0]
    /\ has_mm \in [Pids -> BOOLEAN]

(***************************************************************************)
(* update_damon_data(pid, p).  A missing entry is created (the update      *)
(* fails silently when the map is full); an existing one is observed in    *)
(* place.                                                                  *)
(***************************************************************************)
update_damon_data(p) ==
    /\ \/ /\ damon_data[p] = NoEntry
          /\ Cardinality(Tracked) < MAX_TASKS
          /\ damon_data' = [damon_data EXCEPT ![p] = NewPattern]
       \/ /\ damon_data[p] = NoEntry
          /\ Cardinality(Tracked) >= MAX_TASKS
          /\ UNCHANGED damon_data
       \/ /\ damon_data[p] # NoEntry
          /\ damon_data[p].nr_accesses < MaxAccesses
          /\ damon_data' = [damon_data EXCEPT
                               ![p] = Observe(@, sum_exec_runtime[p], has_mm[p])]
    /\ UNCHANGED <<sum_exec_runtime, has_mm>>

\* The task holding pid runs for a while.
TaskRuns(p) ==
    /\ \E d \in RunSteps :
          /\ sum_exec_runtime[p] + d <= MaxRuntime
          /\ sum_exec_runtime' = [sum_exec_runtime EXCEPT ![p] = @ + d]
    /\ UNCHANGED <<damon_data, has_mm>>

\* The task exits and a new task gets the same pid; nothing deletes the
\* damon_data entry.
TaskReplaced(p) ==
    /\ sum_exec_runtime[p] > 0
    /\ sum_exec_runtime' = [sum_exec_runtime EXCEPT ![p] = 0]
    /\ has_mm' \in [Pids -> BOOLEAN]
    /\ \A q \in Pids \ {p} : has_mm'[q] = has_mm[q]
    /\ UNCHANGED damon_data

Next ==
    \E p \in Pids :
        \/ update_damon_data(p)
        \/ TaskRuns(p)
        \/ TaskReplaced(p)

Spec == Init /\ [][Next]_vars

-----------------------------------------------------------------------------
TypeOK ==
    /\ damon_data \in [Pids -> Pattern \cup {NoEntry}]
    /\ \A p \in Tracked : damon_data[p].locality_score \in 0 .. 100
    /\ sum_exec_runtime \in [Pids -> Nat]
    /\ has_mm \in [Pids -> BOOLEAN]

(***************************************************************************)
(* The stored io_pattern is the classification of the stored counters      *)
(* (spec 3: never stored inconsistently with read_bytes / write_bytes).    *)
(* update_damon_data must reclassify after it charges the counters.        *)
(***************************************************************************)
IoPatternConsistent ==
    \A p \in Tracked :
        damon_data[p].io_pattern =
            classify_io_pattern(damon_data[p].read_bytes, damon_data[p].write_bytes)

(***************************************************************************)
(* The byte estimates never account for more runtime than was observed:    *)
(* every read byte stands for 1000 ns and every write byte for 2000 ns of  *)
(* runtime charged once, which holds only if total_access_time is caught   *)
(* up whenever a delta is charged, across pid reuse too.                   *)
(***************************************************************************)
BytesWithinRuntime ==
    \A p \in Tracked :
        damon_data[p].read_bytes * 1000 + damon_data[p].write_bytes * 2000
            <= damon_data[p].total_access_time

=============================================================================
