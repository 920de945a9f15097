----------------------------- MODULE PmuPolicy -----------------------------
(***************************************************************************)
(* The telemetry refresh and the priority engine of src/ebpf/cxl_pmu.bpf.c *)
(* (update_cxl_pmu_metrics, calculate_task_priority).                      *)
(*                                                                         *)
(* update_cxl_pmu_metrics(cpu) rewrites the CPU's cpu_ctx from the clock:  *)
(* every metric is a fixed offset plus time_factor modulo a period, where  *)
(* time_factor is bpf_ktime_get_ns() / 10^6; the model draws time_factor   *)
(* from TimeFactors.  active_read_tasks / active_write_tasks start at 0    *)
(* and no code of the object writes them.                                  *)
(*                                                                         *)
(* calculate_task_priority(tctx, pattern, metrics) returns a priority and  *)
(* decays tctx->priority_boost.  No op calls it and no code sets a boost,  *)
(* so its inputs are whatever a caller would hand it: the boost of one     *)
(* task context starts anywhere in Boosts and decays call by call, and the *)
(* result is checked for every other input drawn from small sets around   *)
(* every threshold, against the metrics each CPU slot holds.               *)
(***************************************************************************)
EXTENDS Integers, Functions

CONSTANTS
    CPUs,           \* CPU ids with a cpu_contexts slot
    TimeFactors,    \* values of time_factor (ms since boot) to refresh at
    Localities,     \* locality_score values offered to calculate_task_priority
    Boosts,         \* priority_boost values offered
    NoPattern,      \* a NULL pattern pointer
    NoMetrics       \* a NULL metrics pointer

TaskTypes == {"UNKNOWN", "MOE_VECTORDB", "KWORKER", "REGULAR", "LATENCY_SENSITIVE",
              "READ_INTENSIVE", "WRITE_INTENSIVE", "BANDWIDTH_TEST"}
IoPatterns == {"UNKNOWN", "READ_HEAVY", "WRITE_HEAVY", "MIXED"}

MOE_VECTORDB_THRESHOLD == 80
BANDWIDTH_THRESHOLD == 70

VARIABLES
    cpu_ctx,        \* cpu_ctx[c]: the cpu_contexts slot of CPU c
    priority_boost  \* tctx->priority_boost of the task context being scored

vars == <<cpu_ctx, priority_boost>>

Metrics == [memory_bandwidth : Nat, cache_hit_rate : Nat, memory_latency : Nat,
            cxl_utilization : Nat, read_bandwidth : Nat, write_bandwidth : Nat]

CpuCtx == [cxl_metrics : Metrics, active_read_tasks : Nat, active_write_tasks : Nat,
           is_cxl_attached : BOOLEAN, is_read_optimized : BOOLEAN,
           is_write_optimized : BOOLEAN]

TaskCtx(b) == [type : TaskTypes, priority_boost : {b}, needs_promotion : BOOLEAN,
               is_bandwidth_critical : BOOLEAN]

AccessPattern == [locality_score : Localities, io_pattern : IoPatterns]

ZeroMetrics == [f \in {"memory_bandwidth", "cache_hit_rate", "memory_latency",
                       "cxl_utilization", "read_bandwidth", "write_bandwidth"} |-> 0]

\* Mutant: a tie in the active counts favours the read side.
Refresh_tie(ctx, tf) ==
    LET bw == 800 + (tf % 400)
        lat == 100 + (tf % 100)
        reads == ctx.active_read_tasks >= ctx.active_write_tasks
        writes == ctx.active_write_tasks > ctx.active_read_tasks
    IN  [ctx EXCEPT
            !.cxl_metrics = [memory_bandwidth |-> bw,
                             cache_hit_rate   |-> 85 + (tf % 15),
                             memory_latency   |-> lat,
                             cxl_utilization  |-> 60 + (tf % 40),
                             read_bandwidth   |-> (bw * 60) \div 100 + (IF reads THEN 100 ELSE 0),
                             write_bandwidth  |-> (bw * 40) \div 100 + (IF writes THEN 100 ELSE 0)],
            !.is_read_optimized = reads,
            !.is_write_optimized = writes,
            !.is_cxl_attached = lat > 150]

(***************************************************************************)
(* update_cxl_pmu_metrics: the new cpu_ctx of a slot, from time_factor tf. *)
(***************************************************************************)
Refresh(ctx, tf) ==
    LET bw == 800 + (tf % 400)
        rd == (bw * 60) \div 100
        wr == (bw * 40) \div 100
        lat == 100 + (tf % 100)
        reads == ctx.active_read_tasks > ctx.active_write_tasks
        writes == ctx.active_write_tasks > ctx.active_read_tasks
    IN  [ctx EXCEPT
            !.cxl_metrics = [memory_bandwidth |-> bw,
                             cache_hit_rate   |-> 85 + (tf % 15),
                             memory_latency   |-> lat,
                             cxl_utilization  |-> 60 + (tf % 40),
                             read_bandwidth   |-> IF reads THEN rd + 100 ELSE rd,
                             write_bandwidth  |-> IF writes THEN wr + 100 ELSE wr],
            !.is_read_optimized = reads,
            !.is_write_optimized = writes,
            !.is_cxl_attached = lat > 150]

(***************************************************************************)
(* calculate_task_priority: the switch on the task type.  pat and m may be *)
(* NoPattern / NoMetrics (the code's NULL checks).                         *)
(***************************************************************************)
HasPattern(pat) == pat # NoPattern
HasMetrics(m) == m # NoMetrics

\* Mutant: "break" missing after the MOE_VECTORDB case, which falls
\* through into READ_INTENSIVE.
TypeAdjustment_fallthrough(t, pat, m) ==
    LET ri == (IF HasMetrics(m) /\ m.read_bandwidth > BANDWIDTH_THRESHOLD THEN -15 ELSE 0)
              + (IF HasPattern(pat) /\ pat.io_pattern = "READ_HEAVY" THEN -10 ELSE 0)
    IN
    CASE t.type = "MOE_VECTORDB" ->
            (IF HasPattern(pat) /\ pat.locality_score > MOE_VECTORDB_THRESHOLD THEN -20 ELSE 0)
            + (IF HasMetrics(m) /\ m.memory_bandwidth > 1000 THEN -10 ELSE 0) + ri
      [] t.type = "READ_INTENSIVE" -> ri
      [] t.type = "WRITE_INTENSIVE" ->
            (IF HasMetrics(m) /\ m.write_bandwidth > BANDWIDTH_THRESHOLD THEN -15 ELSE 0)
            + (IF HasPattern(pat) /\ pat.io_pattern = "WRITE_HEAVY" THEN -10 ELSE 0)
      [] t.type = "BANDWIDTH_TEST" ->
            (IF t.is_bandwidth_critical THEN -30 ELSE 0)
            + (IF HasPattern(pat) /\ HasMetrics(m)
                  /\ \/ pat.io_pattern = "READ_HEAVY" /\ m.read_bandwidth > 100
                     \/ pat.io_pattern = "WRITE_HEAVY" /\ m.write_bandwidth > 100
               THEN -10 ELSE 0)
      [] t.type = "KWORKER" ->
            (IF t.needs_promotion THEN -15 ELSE 0)
            + (IF HasMetrics(m) /\ m.cxl_utilization > 90 THEN 10 ELSE 0)
      [] t.type = "LATENCY_SENSITIVE" -> -25
      [] OTHER ->
            IF HasPattern(pat) /\ pat.locality_score < 30 THEN 10 ELSE 0

TypeAdjustment(t, pat, m) ==
    CASE t.type = "MOE_VECTORDB" ->
            (IF HasPattern(pat) /\ pat.locality_score > MOE_VECTORDB_THRESHOLD THEN -20 ELSE 0)
            + (IF HasMetrics(m) /\ m.memory_bandwidth > 1000 THEN -10 ELSE 0)
      [] t.type = "READ_INTENSIVE" ->
            (IF HasMetrics(m) /\ m.read_bandwidth > BANDWIDTH_THRESHOLD THEN -15 ELSE 0)
            + (IF HasPattern(pat) /\ pat.io_pattern = "READ_HEAVY" THEN -10 ELSE 0)
      [] t.type = "WRITE_INTENSIVE" ->
            (IF HasMetrics(m) /\ m.write_bandwidth > BANDWIDTH_THRESHOLD THEN -15 ELSE 0)
            + (IF HasPattern(pat) /\ pat.io_pattern = "WRITE_HEAVY" THEN -10 ELSE 0)
      [] t.type = "BANDWIDTH_TEST" ->
            (IF t.is_bandwidth_critical THEN -30 ELSE 0)
            + (IF HasPattern(pat) /\ HasMetrics(m)
                  /\ \/ pat.io_pattern = "READ_HEAVY" /\ m.read_bandwidth > 100
                     \/ pat.io_pattern = "WRITE_HEAVY" /\ m.write_bandwidth > 100
               THEN -10 ELSE 0)
      [] t.type = "KWORKER" ->
            (IF t.needs_promotion THEN -15 ELSE 0)
            + (IF HasMetrics(m) /\ m.cxl_utilization > 90 THEN 10 ELSE 0)
      [] t.type = "LATENCY_SENSITIVE" -> -25
      [] OTHER ->
            IF HasPattern(pat) /\ pat.locality_score < 30 THEN 10 ELSE 0

\* The temporary boost: subtracted, but never below 1.
ApplyBoost(base, boost) ==
    IF boost > 0 THEN (IF base > boost THEN base - boost ELSE 1) ELSE base

\* Mutant: the u32 boost decays by 5 without the floor.
DecayBoost_nofloor(boost) == IF boost > 0 THEN boost - 5 ELSE boost

\* The boost left in tctx: decayed by 5, floored at 0.
DecayBoost(boost) ==
    IF boost > 0 THEN (IF boost > 5 THEN boost - 5 ELSE 0) ELSE boost

calculate_priority(t, pat, m) == ApplyBoost(120 + TypeAdjustment(t, pat, m), t.priority_boost)

-----------------------------------------------------------------------------
Init ==
    /\ cpu_ctx = [c \in CPUs |->
                    [cxl_metrics |-> ZeroMetrics, active_read_tasks |-> 0,
                     active_write_tasks |-> 0, is_cxl_attached |-> FALSE,
                     is_read_optimized |-> FALSE, is_write_optimized |-> FALSE]]
    /\ priority_boost \in Boosts

update_cxl_pmu_metrics(c) ==
    /\ \E tf \in TimeFactors : cpu_ctx' = [cpu_ctx EXCEPT ![c] = Refresh(@, tf)]
    /\ UNCHANGED priority_boost

\* A call returns calculate_priority to its caller; what it leaves behind is
\* the decayed boost of the task context it was given.
calculate_task_priority ==
    /\ priority_boost' = DecayBoost(priority_boost)
    /\ UNCHANGED cpu_ctx

Next ==
    \/ \E c \in CPUs : update_cxl_pmu_metrics(c)
    \/ calculate_task_priority

Spec == Init /\ [][Next]_vars

-----------------------------------------------------------------------------
TypeOK ==
    /\ cpu_ctx \in [CPUs -> CpuCtx]
    /\ priority_boost \in Nat

(***************************************************************************)
(* Spec 4.4, the per-type adjustment table, row by row.  The BandwidthTest *)
(* row "io_pattern matches the dominant bandwidth leg" names no threshold; *)
(* the reference takes a leg as usable above 100 MB/s.  The table has no   *)
(* row for Unknown, which the comparison below leaves out.                 *)
(***************************************************************************)
SpecTable(t, pat, m) ==
    LET loc(op(_)) == HasPattern(pat) /\ op(pat.locality_score)
        io(x) == HasPattern(pat) /\ pat.io_pattern = x
        met(f, lim) == HasMetrics(m) /\ m[f] > lim
    IN
    << [type |-> "MOE_VECTORDB",      on |-> loc(LAMBDA x : x > 80),            adj |-> -20],
       [type |-> "MOE_VECTORDB",      on |-> met("memory_bandwidth", 1000),     adj |-> -10],
       [type |-> "READ_INTENSIVE",    on |-> met("read_bandwidth", 70),         adj |-> -15],
       [type |-> "READ_INTENSIVE",    on |-> io("READ_HEAVY"),                  adj |-> -10],
       [type |-> "WRITE_INTENSIVE",   on |-> met("write_bandwidth", 70),        adj |-> -15],
       [type |-> "WRITE_INTENSIVE",   on |-> io("WRITE_HEAVY"),                 adj |-> -10],
       [type |-> "BANDWIDTH_TEST",    on |-> t.is_bandwidth_critical,           adj |-> -30],
       [type |-> "BANDWIDTH_TEST",    on |-> \/ (io("READ_HEAVY") /\ met("read_bandwidth", 100))
                                            \/ (io("WRITE_HEAVY") /\ met("write_bandwidth", 100)),
                                                                                adj |-> -10],
       [type |-> "KWORKER",           on |-> t.needs_promotion,                 adj |-> -15],
       [type |-> "KWORKER",           on |-> met("cxl_utilization", 90),        adj |-> 10],
       [type |-> "LATENCY_SENSITIVE", on |-> TRUE,                              adj |-> -25],
       [type |-> "REGULAR",           on |-> loc(LAMBDA x : x < 30),            adj |-> 10] >>

\* Spec 4.4: 120 plus the rows that apply, minus the boost, floored at 1.
SpecPriority(t, pat, m) ==
    LET rows == SpecTable(t, pat, m)
        applied == [i \in DOMAIN rows |->
                      IF rows[i].type = t.type /\ rows[i].on THEN rows[i].adj ELSE 0]
        base == 120 + FoldFunction(+, 0, applied)
    IN  IF base - t.priority_boost >= 1 THEN base - t.priority_boost ELSE 1

\* Spec 4.4: the boost decays toward zero by 5 per call, floored at 0.
SpecDecay(b) == IF b >= 5 THEN b - 5 ELSE 0

(***************************************************************************)
(* Every call of calculate_task_priority returns the priority of the spec  *)
(* 4.4 table, with the boost the task context holds now, for every task    *)
(* type the table lists, with or without a pattern, with the metrics of    *)
(* any CPU slot or none, at every threshold the inputs straddle; and the   *)
(* boost it leaves is decayed as spec 4.4 says.  A missing "break" or a    *)
(* dropped floor breaks it.                                                *)
(***************************************************************************)
PriorityAsSpecified ==
    /\ DecayBoost(priority_boost) = SpecDecay(priority_boost)
    /\ \A t \in TaskCtx(priority_boost), pat \in AccessPattern \cup {NoPattern},
          m \in {cpu_ctx[c].cxl_metrics : c \in CPUs} \cup {NoMetrics} :
          t.type # "UNKNOWN" => calculate_priority(t, pat, m) = SpecPriority(t, pat, m)

(***************************************************************************)
(* Spec 4.3 on a refresh, for every pair of active counts up to 2: read    *)
(* and write bandwidth split 60/40 of the total, 100 more on the side with *)
(* more active tasks, that side's flag set and the other cleared (both     *)
(* clear on a tie), and a CXL tier detected exactly above 150 ns latency.  *)
(***************************************************************************)
SpecRefreshed(ctx, nr, nw) ==
    LET m == ctx.cxl_metrics IN
    /\ m.read_bandwidth = (m.memory_bandwidth * 60) \div 100 + (IF nr > nw THEN 100 ELSE 0)
    /\ m.write_bandwidth = (m.memory_bandwidth * 40) \div 100 + (IF nw > nr THEN 100 ELSE 0)
    /\ ctx.is_read_optimized <=> nr > nw
    /\ ctx.is_write_optimized <=> nw > nr
    /\ ctx.is_cxl_attached <=> m.memory_latency > 150

RefreshAsSpecified ==
    \A c \in CPUs, nr \in 0 .. 2, nw \in 0 .. 2, tf \in TimeFactors :
        LET ctx == [cpu_ctx[c] EXCEPT !.active_read_tasks = nr, !.active_write_tasks = nw]
        IN  SpecRefreshed(Refresh(ctx, tf), nr, nw)

=============================================================================
