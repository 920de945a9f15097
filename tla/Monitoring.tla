----------------------------- MODULE Monitoring -----------------------------
(***************************************************************************)
(* The tracepoint counters of src/ebpf/cxl_monitoring.bpf.c.              *)
(*                                                                         *)
(* trace_sched_switch runs on the switching CPU.  It bumps that CPU's slot *)
(* of the array cpu_usage.  It then bumps total_switches of the outgoing   *)
(* pid and total_runtime of the incoming pid in the hash task_monitor.  A  *)
(* pid with no entry gets a fresh one, which fails silently when the map   *)
(* is full.  trace_sched_wakeup runs on the waker's CPU.  It keys the map  *)
(* by bpf_get_current_pid_tgid() >> 32, the tgid of the current task (the  *)
(* waker), and bumps total_runtime with a plain ++ on the shared entry.    *)
(*                                                                         *)
(* The kernel orders the switch events of one task: a task switched out on *)
(* one CPU is picked elsewhere only after the switch completes.  The       *)
(* switch handler is therefore one step.  The wakeup handler's ++ is a     *)
(* load step and a store step, because threads of one process wake others *)
(* on several CPUs at once.  pid, comm and last_cpu are not read by        *)
(* anything and are left out.  `events` is a history variable: the events *)
(* of each key since its entry was created.                               *)
(***************************************************************************)
EXTENDS Integers, FiniteSets, TLC

CONSTANTS
    Threads,     \* task ids (pid in the kernel's sense); the idle task is Idle
    Tgid,        \* Tgid[t]: the thread-group leader of t
    NrCpus,
    MAX_TASKS,   \* max_entries of task_monitor
    Idle,        \* pid 0
    NoEntry

CPUs == 0 .. NrCpus - 1

ASSUME /\ Tgid \in [Threads -> Threads]
       /\ Idle \notin Threads /\ NoEntry \notin Threads
       /\ NrCpus <= 64      \* every CPU has a slot in cpu_usage

VARIABLES
    task_monitor,   \* pid -> [total_runtime, total_switches] or NoEntry
    cpu_usage,      \* cpu -> switch count
    running,        \* the current task of each CPU
    pc,             \* "idle", or "loaded" inside trace_sched_wakeup
    seen,           \* total_runtime as loaded by the wakeup handler
    events          \* history: events of each key since its entry was created

vars == <<task_monitor, cpu_usage, running, pc, seen, events>>

Stats == [total_runtime : Nat, total_switches : Nat]

Tracked(m) == {k \in Threads : m[k] # NoEntry}

-----------------------------------------------------------------------------
(***************************************************************************)
(* Map helpers.                                                            *)
(***************************************************************************)

\* bpf_map_update_elem(BPF_ANY) of a key not in the map: fails when full.
MapUpdate(m, k, v) ==
    IF Cardinality(Tracked(m)) < MAX_TASKS THEN [m EXCEPT ![k] = v] ELSE m

NewStats(f) == (f :> 1) @@ [total_runtime |-> 0, total_switches |-> 0]

\* One side of trace_sched_switch for pid k: bump field f in place, or
\* insert a fresh entry.  The idle task (pid 0) is skipped.
Bump(m, k, f) ==
    CASE k = Idle         -> m
      [] m[k] # NoEntry   -> [m EXCEPT ![k][f] = @ + 1]
      [] OTHER            -> MapUpdate(m, k, NewStats(f))

NoEvents == [ins |-> 0, outs |-> 0, wakes_by |-> 0]

\* The history of the same step, as event e of pid k: counted when k has an
\* entry afterwards, from a fresh count when the step created it.
Count(g, m, m2, k, e) ==
    CASE k = Idle           -> g
      [] m[k] # NoEntry     -> [g EXCEPT ![k][e] = @ + 1]
      [] m2[k] # NoEntry    -> [g EXCEPT ![k] = (e :> 1) @@ NoEvents]
      [] OTHER              -> g

-----------------------------------------------------------------------------
Init ==
    /\ task_monitor = [k \in Threads |-> NoEntry]
    /\ cpu_usage = [c \in CPUs |-> 0]
    /\ running \in {r \in [CPUs -> Threads \cup {Idle}] :
                       \A c, d \in CPUs : c # d /\ r[c] # Idle => r[c] # r[d]}
    /\ pc = [c \in CPUs |-> "idle"]
    /\ seen = [c \in CPUs |-> 0]
    /\ events = [k \in Threads |-> NoEvents]

\* sched_switch on CPU c from running[c] to next.
trace_sched_switch(c, next) ==
    /\ pc[c] = "idle"
    /\ next # running[c]
    /\ next = Idle \/ \A d \in CPUs : running[d] # next
    /\ LET prev == running[c]
           m1   == Bump(task_monitor, prev, "total_switches")
           m2   == Bump(m1, next, "total_runtime")
       IN  /\ task_monitor' = m2
           /\ events' = Count(Count(events, task_monitor, m1, prev, "outs"),
                              m1, m2, next, "ins")
    /\ cpu_usage' = [cpu_usage EXCEPT ![c] = @ + 1]
    /\ running' = [running EXCEPT ![c] = next]
    /\ UNCHANGED <<pc, seen>>

\* A sched_wakeup raised by the current task of CPU c: the handler finds
\* the entry of the current tgid and loads its total_runtime.  The woken
\* task, which the tracepoint context names, is not looked at.
trace_sched_wakeup_load(c) ==
    LET k == Tgid[running[c]] IN
    /\ pc[c] = "idle" /\ running[c] # Idle
    /\ task_monitor[k] # NoEntry
    /\ pc' = [pc EXCEPT ![c] = "loaded"]
    /\ seen' = [seen EXCEPT ![c] = task_monitor[k].total_runtime]
    /\ UNCHANGED <<task_monitor, cpu_usage, running, events>>

\* ... and stores the loaded value plus one.
trace_sched_wakeup_store(c) ==
    LET k == Tgid[running[c]] IN
    /\ pc[c] = "loaded"
    /\ task_monitor' = [task_monitor EXCEPT ![k].total_runtime = seen[c] + 1]
    /\ events' = [events EXCEPT ![k].wakes_by = @ + 1]
    /\ pc' = [pc EXCEPT ![c] = "idle"]
    /\ UNCHANGED <<cpu_usage, running, seen>>

Next ==
    \E c \in CPUs :
       \/ \E next \in Threads \cup {Idle} : trace_sched_switch(c, next)
       \/ trace_sched_wakeup_load(c)
       \/ trace_sched_wakeup_store(c)

Spec == Init /\ [][Next]_vars

-----------------------------------------------------------------------------
=============================================================================
