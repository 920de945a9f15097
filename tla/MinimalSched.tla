---------------------------- MODULE MinimalSched ----------------------------
(***************************************************************************)
(* The sched_ext scheduler of src/ebpf/cxl_pmu_minimal.bpf.c (the object   *)
(* cxl_bandwidth_scheduler.c loads by default), together with the part of  *)
(* the sched_ext host that calls it: task fork/exit, wakeup, the shared    *)
(* dispatch queue FALLBACK_DSQ_ID ordered by virtual time, one local slot  *)
(* per CPU and the CPU idle mask.                                          *)
(*                                                                         *)
(* Virtual times are u64 in the code.  Every comparison of them, the       *)
(* code's vtime_before and the kernel's ordering of a vtime DSQ, is the    *)
(* sign of their 64-bit difference, so a value that wrapped below zero     *)
(* (global_vtime - slice while global_vtime < slice, or a boosted fresh    *)
(* task) behaves exactly like the negative integer.  The model keeps them  *)
(* as integers; the values it reaches are far inside +-2^63 of each other. *)
(***************************************************************************)
EXTENDS Integers, Sequences, SequencesExt, FiniteSets

CONSTANTS
    Tasks,      \* task_struct identities (model values)
    NrCpus,     \* number of CPUs
    Comm,       \* Comm[t]: the first two characters of p->comm, <<c0, c1>>
    Weight,     \* Weight[t]: p->scx.weight (100 is nice 0)
    SliceDfl,   \* SCX_SLICE_DFL, in abstract time units
    NoTask, NoCtx

CPUs == 0 .. NrCpus - 1

ASSUME /\ NrCpus >= 1 /\ SliceDfl >= 1
       /\ Weight \in [Tasks -> 1 .. 10000]
       /\ NoTask \notin Tasks

VARIABLES
    global_vtime,   \* static u64 global_vtime
    tctx,           \* task_ctx_stor: tctx[t] or NoCtx when t has no storage
    dsq_vtime,      \* p->scx.dsq_vtime
    tstate,         \* host: "free", "sleeping", "waking", "queued", "local", "running"
    dsq,            \* FALLBACK_DSQ_ID: tasks in dispatch order
    local,          \* local[c]: the task moved to CPU c's local DSQ, or NoTask
    curr,           \* curr[c]: the task running on CPU c, or NoTask
    cpc,            \* cpc[c]: "idle", "in_running" (inside cxl_running), "run",
                    \*   "balance" (the task blocked, dispatch pending),
                    \*   "expired" (curr[c]'s slice ran out, dispatch pending),
                    \*   "put_prev" (dispatch moved a task, curr[c] not yet stopped),
                    \*   "requeue" (curr[c] stopped runnable, ops.enqueue pending)
    seen,           \* seen[c]: global_vtime as loaded by cxl_running on c
    idle,           \* host idle mask: CPUs whose idle bit is set
    enq_order       \* history: the queued tasks in the order cxl_enqueue inserted them

vars == <<global_vtime, tctx, dsq_vtime, tstate, dsq, local, curr, cpc, seen, idle,
          enq_order>>

TaskCtx == [is_vectordb : BOOLEAN, is_kworker : BOOLEAN]

(***************************************************************************)
(* Helpers of cxl_pmu_minimal.bpf.c                                        *)
(***************************************************************************)

\* vtime_before(a, b): (s64)(a - b) < 0
vtime_before(a, b) == a - b < 0

\* is_vectordb_task: only the first character of comm is looked at.
is_vectordb_task(t) == Comm[t][1] \in {"v", "f", "p"}

\* is_kworker_task: comm starts with "kw".
is_kworker_task(t) == Comm[t][1] = "k" /\ Comm[t][2] = "w"

\* The stopping charge (SCX_SLICE_DFL - p->scx.slice) * 100 / p->scx.weight.
Charge(t, rem) == ((SliceDfl - rem) * 100) \div Weight[t]

(***************************************************************************)
(* Host: scx_bpf_dsq_insert_vtime keeps the DSQ ordered by vtime_before,   *)
(* a task going after every queued task whose vtime is not after its own   *)
(* (FIFO among equal virtual times).  Queued vtimes never change.          *)
(***************************************************************************)
\* Mutant: scx_bpf_dsq_insert, at the tail, instead of the vtime insert.
InsertVtime_fifo(q, t, v) == Append(q, t)

InsertVtime(q, t, v) ==
    LET k == Cardinality({i \in 1 .. Len(q) : ~vtime_before(v, dsq_vtime[q[i]])})
    IN  InsertAt(q, k + 1, t)

(***************************************************************************)
(* The scheduler has just been enabled: scx_ops_enable ran cxl_init_task   *)
(* for every task, so each has storage with both flags false, and the      *)
(* kernel zeroed p->scx, so every dsq_vtime is 0.  No task has woken yet.  *)
(***************************************************************************)
Init ==
    /\ global_vtime = 0
    /\ tctx = [t \in Tasks |-> [is_vectordb |-> FALSE, is_kworker |-> FALSE]]
    /\ dsq_vtime = [t \in Tasks |-> 0]
    /\ tstate = [t \in Tasks |-> "sleeping"]
    /\ dsq = <<>>
    /\ local = [c \in CPUs |-> NoTask]
    /\ curr = [c \in CPUs |-> NoTask]
    /\ cpc = [c \in CPUs |-> "idle"]
    /\ seen = [c \in CPUs |-> 0]
    /\ idle = CPUs
    /\ enq_order = <<>>

(***************************************************************************)
(* cxl_init_task: a task forked by the task running on some CPU gets fresh *)
(* storage with both flags false; the kernel zeroes p->scx, so its         *)
(* dsq_vtime starts at 0.  The -ENOMEM return fails the fork and changes   *)
(* nothing here.                                                           *)
(***************************************************************************)
cxl_init_task(t) ==
    /\ tstate[t] = "free"
    /\ \E c \in CPUs : cpc[c] = "run"
    /\ tctx' = [tctx EXCEPT ![t] = [is_vectordb |-> FALSE, is_kworker |-> FALSE]]
    /\ dsq_vtime' = [dsq_vtime EXCEPT ![t] = 0]
    /\ tstate' = [tstate EXCEPT ![t] = "sleeping"]
    /\ UNCHANGED <<global_vtime, dsq, local, curr, cpc, seen, idle, enq_order>>

\* cxl_exit_task does nothing; the task storage goes with the task.  Some
\* task always stays (init and the kernel threads never exit).
cxl_exit_task(t) ==
    /\ tstate[t] = "sleeping"
    /\ \E u \in Tasks \ {t} : tstate[u] # "free"
    /\ tstate' = [tstate EXCEPT ![t] = "free"]
    /\ tctx' = [tctx EXCEPT ![t] = NoCtx]
    /\ UNCHANGED <<global_vtime, dsq_vtime, dsq, local, curr, cpc, seen, idle,
                   enq_order>>

(***************************************************************************)
(* Host: a wakeup runs on a CPU that is not inside __schedule, which holds *)
(* the rq lock with interrupts off from the dequeue of a blocking task or  *)
(* the dispatch at slice end until the next task runs.                     *)
(***************************************************************************)
Waker(c) == cpc[c] \in {"idle", "run", "expired"} /\ local[c] = NoTask

(***************************************************************************)
(* cxl_select_cpu on wakeup: a VectorDB task claims CPU 0, else CPU 1, if  *)
(* its idle bit is set (scx_bpf_test_and_clear_cpu_idle); otherwise the   *)
(* task stays on prev_cpu.  The enqueue that follows ignores the CPU.      *)
(***************************************************************************)
cxl_select_cpu(t) ==
    /\ tstate[t] = "sleeping"
    /\ \E c \in CPUs : Waker(c)
    /\ tstate' = [tstate EXCEPT ![t] = "waking"]
    /\ idle' = CASE tctx[t] = NoCtx       -> idle
                 [] ~tctx[t].is_vectordb  -> idle
                 [] 0 \in idle            -> idle \ {0}
                 [] 1 \in idle            -> idle \ {1}
                 [] OTHER                 -> idle
    /\ UNCHANGED <<global_vtime, tctx, dsq_vtime, dsq, local, curr, cpc, seen,
                   enq_order>>

(***************************************************************************)
(* Host: put_prev_task_scx calls ops.enqueue for a task that stopped while *)
(* runnable before the CPU starts the task its dispatch found; the CPU is  *)
(* free once that enqueue has run.                                         *)
(***************************************************************************)
Requeued(t) ==
    LET from == {c \in CPUs : cpc[c] = "requeue" /\ curr[c] = t}
    IN  /\ cpc' = [c \in CPUs |-> IF c \in from THEN "idle" ELSE cpc[c]]
        /\ curr' = [c \in CPUs |-> IF c \in from THEN NoTask ELSE curr[c]]

(***************************************************************************)
(* cxl_enqueue: classify the task while it is neither VectorDB nor         *)
(* kworker, clamp its vtime to global_vtime - slice, move a VectorDB task  *)
(* one slice earlier and a kworker one slice later, and insert it into     *)
(* FALLBACK_DSQ_ID by vtime; the insert stores the vtime in dsq_vtime.     *)
(* Without storage the task is inserted FIFO with its vtime untouched; no   *)
(* state reaches that branch, since cxl_init_task made the storage.        *)
(***************************************************************************)
cxl_enqueue(t) ==
    /\ tstate[t] = "waking"
    /\ LET ctx == tctx[t]
           cls == IF ~ctx.is_vectordb /\ ~ctx.is_kworker
                  THEN [is_vectordb |-> is_vectordb_task(t),
                        is_kworker  |-> is_kworker_task(t)]
                  ELSE ctx
           v0  == dsq_vtime[t]
           v1  == IF vtime_before(v0, global_vtime - SliceDfl)
                  THEN global_vtime - SliceDfl ELSE v0
           v2  == IF cls.is_vectordb THEN v1 - SliceDfl ELSE v1
           v3  == IF cls.is_kworker THEN v2 + SliceDfl ELSE v2
       IN  IF ctx = NoCtx
           THEN /\ dsq' = Append(dsq, t)
                /\ UNCHANGED <<tctx, dsq_vtime>>
           ELSE /\ tctx' = [tctx EXCEPT ![t] = cls]
                /\ dsq_vtime' = [dsq_vtime EXCEPT ![t] = v3]
                /\ dsq' = InsertVtime(dsq, t, v3)
    /\ tstate' = [tstate EXCEPT ![t] = "queued"]
    /\ enq_order' = Append(enq_order, t)
    /\ Requeued(t)
    /\ UNCHANGED <<global_vtime, local, seen, idle>>

\* Mutant: the task is moved to the CPU but left in FALLBACK_DSQ_ID.
MoveToLocal_keep(c) ==
    /\ dsq # <<>>
    /\ local' = [local EXCEPT ![c] = Head(dsq)]
    /\ tstate' = [tstate EXCEPT ![Head(dsq)] = "local"]
    /\ enq_order' = Remove(enq_order, Head(dsq))
    /\ UNCHANGED dsq

(***************************************************************************)
(* cxl_dispatch(cpu, prev), called by balance_one in two places.  On a CPU *)
(* with nothing to run (idle, or its task just blocked),                    *)
(* scx_bpf_dsq_move_to_local moves the first task of                       *)
(* FALLBACK_DSQ_ID to the CPU, or, with the DSQ empty, the CPU goes idle   *)
(* and the host sets its idle bit.  On a CPU whose task used up its slice  *)
(* ("expired"), prev is still current: a moved task makes the host put     *)
(* prev (ops.stopping, then ops.enqueue) before starting it, and with the  *)
(* DSQ empty prev keeps the CPU with a refilled slice, no callback run.    *)
(* MoveToLocal(c) is the first task's move and nothing else.               *)
(***************************************************************************)
MoveToLocal(c) ==
    /\ dsq # <<>>
    /\ local' = [local EXCEPT ![c] = Head(dsq)]
    /\ tstate' = [tstate EXCEPT ![Head(dsq)] = "local"]
    /\ dsq' = Tail(dsq)
    /\ enq_order' = Remove(enq_order, Head(dsq))

cxl_dispatch(c) ==
    /\ local[c] = NoTask
    /\ \/ /\ cpc[c] \in {"idle", "balance"} /\ curr[c] = NoTask
          /\ cpc' = [cpc EXCEPT ![c] = "idle"]
          /\ \/ MoveToLocal(c) /\ UNCHANGED idle
             \/ /\ dsq = <<>>
                /\ c \notin idle
                /\ idle' = idle \cup {c}
                /\ UNCHANGED <<local, tstate, dsq, enq_order>>
       \/ /\ cpc[c] = "expired"
          /\ \/ MoveToLocal(c) /\ cpc' = [cpc EXCEPT ![c] = "put_prev"]
             \/ /\ dsq = <<>>
                /\ cpc' = [cpc EXCEPT ![c] = "run"]
                /\ UNCHANGED <<local, tstate, dsq, enq_order>>
          /\ UNCHANGED idle
    /\ UNCHANGED <<global_vtime, tctx, dsq_vtime, curr, seen>>

(***************************************************************************)
(* cxl_running, first half: the host starts the task of the local DSQ and  *)
(* the callback loads global_vtime.  The load and the store below are two  *)
(* steps: global_vtime is a plain global shared by all CPUs.               *)
(***************************************************************************)
cxl_running_load(c) ==
    /\ cpc[c] = "idle" /\ local[c] # NoTask
    /\ curr' = [curr EXCEPT ![c] = local[c]]
    /\ local' = [local EXCEPT ![c] = NoTask]
    /\ tstate' = [tstate EXCEPT ![local[c]] = "running"]
    /\ cpc' = [cpc EXCEPT ![c] = "in_running"]
    /\ seen' = [seen EXCEPT ![c] = global_vtime]
    /\ idle' = idle \ {c}
    /\ UNCHANGED <<global_vtime, tctx, dsq_vtime, dsq, enq_order>>

\* Mutant: the store is left out.
cxl_running_store_empty(c) ==
    /\ cpc[c] = "in_running"
    /\ cpc' = [cpc EXCEPT ![c] = "run"]
    /\ UNCHANGED <<global_vtime, tctx, dsq_vtime, tstate, dsq, local, curr, seen, idle,
                   enq_order>>

\* cxl_running, second half: if vtime_before(loaded, p->scx.dsq_vtime) store it.
cxl_running_store(c) ==
    /\ cpc[c] = "in_running"
    /\ global_vtime' = IF vtime_before(seen[c], dsq_vtime[curr[c]])
                       THEN dsq_vtime[curr[c]] ELSE global_vtime
    /\ cpc' = [cpc EXCEPT ![c] = "run"]
    /\ UNCHANGED <<tctx, dsq_vtime, tstate, dsq, local, curr, seen, idle, enq_order>>

(***************************************************************************)
(* Host: the tick used up the running task's slice (task_tick_scx); the    *)
(* CPU reschedules with the task still current.                            *)
(***************************************************************************)
SliceExpired(c) ==
    /\ cpc[c] = "run"
    /\ cpc' = [cpc EXCEPT ![c] = "expired"]
    /\ UNCHANGED <<global_vtime, tctx, dsq_vtime, tstate, dsq, local, curr, seen,
                   idle, enq_order>>

(***************************************************************************)
(* cxl_stopping(p, runnable): the task is charged the used part of its     *)
(* slice, scaled by its weight.  A task that blocks is dequeued with rem   *)
(* of its slice left (at least one unit used) and goes to sleep, and its   *)
(* CPU goes on to balance_one; a task                                      *)
(* put after its slice ran out (rem = 0) is runnable and waits for the     *)
(* ops.enqueue put_prev_task_scx makes next (Requeued).                    *)
(***************************************************************************)
cxl_stopping(c, runnable) ==
    LET t == curr[c] IN
    /\ IF runnable
       THEN /\ cpc[c] = "put_prev"
            /\ dsq_vtime' = [dsq_vtime EXCEPT ![t] = @ + Charge(t, 0)]
            /\ tstate' = [tstate EXCEPT ![t] = "waking"]
            /\ cpc' = [cpc EXCEPT ![c] = "requeue"]
            /\ UNCHANGED curr
       ELSE /\ cpc[c] = "run"
            /\ \E rem \in 0 .. SliceDfl - 1 :
                  dsq_vtime' = [dsq_vtime EXCEPT ![t] = @ + Charge(t, rem)]
            /\ tstate' = [tstate EXCEPT ![t] = "sleeping"]
            /\ cpc' = [cpc EXCEPT ![c] = "balance"]
            /\ curr' = [curr EXCEPT ![c] = NoTask]
    /\ UNCHANGED <<global_vtime, tctx, dsq, local, seen, idle, enq_order>>

Next ==
    \/ \E t \in Tasks :
          \/ cxl_init_task(t)
          \/ cxl_exit_task(t)
          \/ cxl_select_cpu(t)
          \/ cxl_enqueue(t)
    \/ \E c \in CPUs :
          \/ cxl_dispatch(c)
          \/ cxl_running_load(c)
          \/ cxl_running_store(c)
          \/ SliceExpired(c)
          \/ cxl_stopping(c, TRUE)
          \/ cxl_stopping(c, FALSE)

(***************************************************************************)
(* Fairness.  The host calls ops.enqueue after every wakeup or put, a CPU  *)
(* with nothing to run or whose slice ran out calls ops.dispatch, a moved  *)
(* task is started, a callback runs to completion, a put task is stopped, *)
(* and the tick ends every slice.  Blocking, wakeups, forks and exits are  *)
(* up to the tasks.  With one CPU, the wakeup's kick of the task's CPU is  *)
(* exactly the dispatch of the idle CPU.                                   *)
(***************************************************************************)
Fairness ==
    /\ \A t \in Tasks : WF_vars(cxl_enqueue(t))
    /\ \A c \in CPUs :
          /\ WF_vars(cxl_dispatch(c))
          /\ WF_vars(cxl_running_load(c))
          /\ WF_vars(cxl_running_store(c))
          /\ WF_vars(SliceExpired(c))
          /\ WF_vars(cxl_stopping(c, TRUE))

Spec == Init /\ [][Next]_vars /\ Fairness

-----------------------------------------------------------------------------
(***************************************************************************)
(* Properties                                                              *)
(***************************************************************************)

Queued == {t \in Tasks : tstate[t] = "queued"}

TypeOK ==
    /\ global_vtime \in Int
    /\ tctx \in [Tasks -> TaskCtx \cup {NoCtx}]
    /\ dsq_vtime \in [Tasks -> Int]
    /\ tstate \in [Tasks -> {"free", "sleeping", "waking", "queued", "local", "running"}]
    /\ dsq \in Seq(Tasks) /\ IsInjective(dsq) /\ ToSet(dsq) = Queued
    /\ local \in [CPUs -> Tasks \cup {NoTask}]
    /\ curr \in [CPUs -> Tasks \cup {NoTask}]
    /\ cpc \in [CPUs -> {"idle", "in_running", "run", "balance", "expired", "put_prev",
                         "requeue"}]
    /\ seen \in [CPUs -> Int]
    /\ idle \subseteq CPUs

(***************************************************************************)
(* The global clock never goes back (spec 3 and 8: GlobalClock only        *)
(* advances, by an atomic compare-and-advance in cxl_running).             *)
(***************************************************************************)
ClockMonotonic == [][~vtime_before(global_vtime', global_vtime)]_global_vtime

(***************************************************************************)
(* Fairness window: a task waiting in a DSQ is never further ahead of the  *)
(* global clock than one full charge plus the kworker penalty.  Because    *)
(* cxl_enqueue never lowers a vtime except by the VectorDB boost, this is  *)
(* what bounds how long a task can be made to wait behind newcomers, which *)
(* cxl_enqueue places at global_vtime - slice.                             *)
(***************************************************************************)
MaxCharge == (SliceDfl * 100) \div Min({Weight[t] : t \in Tasks})

FairnessWindow ==
    \A t \in Tasks :
        tstate[t] \in {"queued", "local"} =>
            ~vtime_before(global_vtime + MaxCharge + SliceDfl, dsq_vtime[t])

(***************************************************************************)
(* Every task waiting in FALLBACK_DSQ_ID eventually runs (spec 4.4: the    *)
(* priority shift never bypasses fairness; spec 5: no starvation).  It     *)
(* rests on cxl_stopping charging every used slice, so that the tasks a    *)
(* CPU alternates between catch up with the vtime of the waiting ones, and *)
(* on the VectorDB boost of cxl_enqueue being taken by at most as many     *)
(* CPU-bound tasks as there are CPUs.                                      *)
(***************************************************************************)
QueuedTaskRuns == \A t \in Tasks : tstate[t] = "queued" ~> tstate[t] = "running"

(***************************************************************************)
(* Refinement mapping: the enqueue order is the abstract queue, dsq_vtime  *)
(* the virtual time, and the tasks in a local DSQ or on a CPU are taken,   *)
(* except a task whose slice ran out: it is given back at SliceExpired, is *)
(* taken again when the dispatch finds the DSQ empty, and gets its charge  *)
(* at cxl_stopping while it is neither taken nor queued.                   *)
(***************************************************************************)
Putting == {curr[c] : c \in {d \in CPUs : cpc[d] \in {"expired", "put_prev"}}}

OnCpu == {t \in Tasks : tstate[t] \in {"local", "running"}} \ Putting

VQ == INSTANCE VtimeQueue WITH waiting <- enq_order, vkey <- dsq_vtime,
                               picked <- OnCpu

(***************************************************************************)
(* cxl_dispatch always moves the task of least virtual time to the CPU,    *)
(* the first enqueued among equals, however enqueues, boosts, clamps,      *)
(* puts and charges interleave (spec 5 and 8); a CPU keeps its task only   *)
(* when nothing waits; a blocking task is never moved earlier; and the     *)
(* kernel's dispatch and tick keep the CPUs busy while a task waits.       *)
(***************************************************************************)
ImplementsVtimeQueue == VQ!Spec

=============================================================================
