----------------------------- MODULE FifoSched -----------------------------
(***************************************************************************)
(* The single-queue sched_ext schedulers of src/ebpf and the host around   *)
(* them.  Each object has select_cpu, enqueue, dispatch and init; none has *)
(* running or stopping:                                                    *)
(*   noop              noop.bpf.c               select CPU 0, insert FIFO  *)
(*   test              test_simple.bpf.c        select prev_cpu, FIFO      *)
(*   emergency         emergency_scheduler.bpf.c  prev_cpu, FIFO           *)
(*   cxl_minimal_test  cxl_minimal_test.bpf.c   select -1, FIFO            *)
(*   cxl_pmu           cxl_pmu.bpf.c            select -1, insert nothing  *)
(* Every enqueue that inserts puts the task at the tail of DSQ 0 and every *)
(* dispatch moves the head of DSQ 0 to the CPU's local DSQ.                *)
(*                                                                         *)
(* Host: a wakeup calls ops.select_cpu unless the task may run on one CPU  *)
(* only (select_task_rq skips the class for it); a CPU that is not valid   *)
(* (ops_cpu_valid) is an scx_ops_error, which aborts the scheduler.  Then  *)
(* ops.enqueue runs.  A CPU with nothing to run, or whose task used up its *)
(* slice, calls ops.dispatch; the move to the local DSQ (consume_dispatch_q)*)
(* skips a task the CPU may not run.  When the slice ran out and a task    *)
(* was moved, put_prev_task_scx enqueues the old one (flags 0) before the  *)
(* CPU runs the new one; when none was, the old one keeps the CPU.  At     *)
(* enable time the tasks already runnable are enqueued without select_cpu. *)
(***************************************************************************)
EXTENDS Integers, Sequences, SequencesExt, FiniteSets

CONSTANTS
    Variants,   \* the scheduler objects to check
    Tasks,      \* task identities
    Pinned,     \* tasks whose cpus_ptr holds one CPU (per-CPU kthreads)
    NrCpus,
    MaxRenice,  \* bound on the priority changes of waiting tasks
    NoTask

CPUs == 0 .. NrCpus - 1

ASSUME Pinned \subseteq Tasks /\ NoTask \notin Tasks /\ NrCpus >= 1

VARIABLES
    variant,    \* which object is attached
    scx,        \* "enabled" or "error" (scx_ops_error was raised)
    tstate,     \* "sleeping", "waking" (ops.enqueue pending), "owned" (enqueue
                \*   returned without inserting), "queued", "local", "running",
                \*   "expired" (running, slice used up), "put" (still current,
                \*   put_prev_task's ops.enqueue pending)
    task_cpu,   \* the runqueue CPU of each task
    dsq,        \* DSQ 0: tasks in FIFO order
    local,      \* local[c]: the task in CPU c's local DSQ, or NoTask
    curr,       \* curr[c]: the task running on CPU c, or NoTask
    renices     \* priority changes of waiting tasks so far (bounded)

vars == <<variant, scx, tstate, task_cpu, dsq, local, curr, renices>>

(***************************************************************************)
(* The ops of each object.                                                 *)
(***************************************************************************)
noop_select_cpu(prev) == 0
\* Mutant: spread wakeups to the next CPU without wrapping.
test_select_cpu_next(prev) == prev + 1

test_select_cpu(prev) == prev
emergency_select_cpu(prev) == prev
cxl_minimal_test_select_cpu(prev) == -1
cxl_pmu_select_cpu(prev) == -1

\* Mutant: an object whose select_cpu returns -1.
SelectCpu_invalid(v, prev) == -1

SelectCpu(v, prev) ==
    CASE v = "noop"             -> noop_select_cpu(prev)
      [] v = "test"             -> test_select_cpu(prev)
      [] v = "emergency"        -> emergency_select_cpu(prev)
      [] v = "cxl_minimal_test" -> cxl_minimal_test_select_cpu(prev)
      [] v = "cxl_pmu"          -> cxl_pmu_select_cpu(prev)

\* ops.enqueue: scx_bpf_dsq_insert(p, 0, ...) at the tail of DSQ 0, except
\* in cxl_pmu.bpf.c where the insert is commented out.
fifo_enqueue(v) == v \in {"noop", "test", "emergency", "cxl_minimal_test"}

\* test_simple and emergency pass enq_flags on to the insert, so an
\* SCX_ENQ_HEAD from the host puts the task at the head; noop and
\* cxl_minimal_test pass 0.
ForwardsFlags(v) == v \in {"test", "emergency"}

\* Mutant: the insert always goes to the head of DSQ 0.
EnqueueInto_head(q, v, t, head) == IF fifo_enqueue(v) THEN <<t>> \o q ELSE q

\* Mutant: enqueue forgets the insert (as cxl_pmu does).
EnqueueInto_drop(q, v, t, head) == q

\* DSQ 0 after ops.enqueue of t, with head the host's SCX_ENQ_HEAD flag.
EnqueueInto(q, v, t, head) ==
    CASE ~fifo_enqueue(v)         -> q
      [] head /\ ForwardsFlags(v) -> <<t>> \o q
      [] OTHER                    -> Append(q, t)

\* Where the task is once ops.enqueue has returned.
EnqueuedState(v) == IF fifo_enqueue(v) THEN "queued" ELSE "owned"

-----------------------------------------------------------------------------
Init ==
    /\ variant \in Variants
    /\ scx = "enabled"
    /\ tstate \in [Tasks -> {"sleeping", "waking"}]
    /\ task_cpu \in [Tasks -> CPUs]
    /\ dsq = <<>>
    /\ local = [c \in CPUs |-> NoTask]
    /\ curr = [c \in CPUs |-> NoTask]
    /\ renices = 0

\* Mutant: the returned CPU is used without the ops_cpu_valid check.
select_cpu_unchecked(t) ==
    /\ scx = "enabled" /\ tstate[t] = "sleeping" /\ t \notin Pinned
    /\ task_cpu' = [task_cpu EXCEPT ![t] = SelectCpu_invalid(variant, task_cpu[t])]
    /\ tstate' = [tstate EXCEPT ![t] = "waking"]
    /\ UNCHANGED <<variant, renices, scx, dsq, local, curr>>

\* A wakeup: ops.select_cpu for a task allowed on several CPUs.
select_cpu(t) ==
    /\ scx = "enabled" /\ tstate[t] = "sleeping" /\ t \notin Pinned
    /\ LET cpu == SelectCpu(variant, task_cpu[t]) IN
       IF cpu \in CPUs
       THEN /\ task_cpu' = [task_cpu EXCEPT ![t] = cpu]
            /\ tstate' = [tstate EXCEPT ![t] = "waking"]
            /\ UNCHANGED scx
       ELSE /\ scx' = "error"
            /\ UNCHANGED <<task_cpu, tstate>>
    /\ UNCHANGED <<variant, renices, dsq, local, curr>>

\* A wakeup of a pinned task: the class is not asked for a CPU.
WakePinned(t) ==
    /\ scx = "enabled" /\ tstate[t] = "sleeping" /\ t \in Pinned
    /\ tstate' = [tstate EXCEPT ![t] = "waking"]
    /\ UNCHANGED <<variant, renices, scx, task_cpu, dsq, local, curr>>

(***************************************************************************)
(* ops.enqueue after a wakeup, or for a task put after its slice ran out;  *)
(* the put task's CPU is then free for the task its dispatch moved.        *)
(***************************************************************************)
enqueue(t) ==
    /\ scx = "enabled" /\ tstate[t] \in {"waking", "put"}
    /\ dsq' = EnqueueInto(dsq, variant, t, FALSE)
    /\ tstate' = [tstate EXCEPT ![t] = EnqueuedState(variant)]
    /\ curr' = [c \in CPUs |-> IF curr[c] = t THEN NoTask ELSE curr[c]]
    /\ UNCHANGED <<variant, renices, scx, task_cpu, local>>

(***************************************************************************)
(* Host: sched_setattr changes the priority of a task waiting in DSQ 0.    *)
(* __sched_setscheduler dequeues it and enqueues it again, with            *)
(* ENQUEUE_HEAD (SCX_ENQ_HEAD) when the priority was lowered, and          *)
(* ops.enqueue runs once more.                                             *)
(***************************************************************************)
Renice(t) ==
    /\ scx = "enabled" /\ tstate[t] = "queued" /\ renices < MaxRenice
    /\ \E head \in BOOLEAN : dsq' = EnqueueInto(Remove(dsq, t), variant, t, head)
    /\ renices' = renices + 1
    /\ UNCHANGED <<variant, scx, tstate, task_cpu, local, curr>>

\* consume_dispatch_q: a CPU may take a task allowed on several CPUs, and a
\* pinned task only on the CPU it is pinned to (task_can_run_on_remote_rq).
CanRun(t, c) == t \notin Pinned \/ task_cpu[t] = c

FirstFor(c) == SelectInSeq(dsq, LAMBDA t : CanRun(t, c))

(***************************************************************************)
(* ops.dispatch: scx_bpf_dsq_move_to_local(0), on a CPU with nothing to    *)
(* run or whose task used up its slice.  A moved task goes to the local    *)
(* DSQ, and an expired task is put; with nothing to move, an expired task  *)
(* keeps the CPU with a refilled slice.                                    *)
(***************************************************************************)
dispatch(c) ==
    LET i == FirstFor(c) IN
    /\ scx = "enabled" /\ local[c] = NoTask
    /\ \/ curr[c] = NoTask
       \/ curr[c] # NoTask /\ tstate[curr[c]] = "expired"
    /\ IF i > 0
       THEN /\ local' = [local EXCEPT ![c] = dsq[i]]
            /\ tstate' = [t \in Tasks |-> CASE t = dsq[i]  -> "local"
                                            [] t = curr[c] -> "put"
                                            [] OTHER       -> tstate[t]]
            /\ task_cpu' = [task_cpu EXCEPT ![dsq[i]] = c]
            /\ dsq' = RemoveAt(dsq, i)
       ELSE /\ curr[c] # NoTask
            /\ tstate' = [tstate EXCEPT ![curr[c]] = "running"]
            /\ UNCHANGED <<local, task_cpu, dsq>>
    /\ UNCHANGED <<variant, renices, scx, curr>>

\* Host: the CPU runs the task of its local DSQ.
Run(c) ==
    /\ scx = "enabled" /\ curr[c] = NoTask /\ local[c] # NoTask
    /\ curr' = [curr EXCEPT ![c] = local[c]]
    /\ local' = [local EXCEPT ![c] = NoTask]
    /\ tstate' = [tstate EXCEPT ![local[c]] = "running"]
    /\ UNCHANGED <<variant, renices, scx, task_cpu, dsq>>

\* Host: the running task blocks and leaves the CPU.
Block(c) ==
    /\ scx = "enabled" /\ curr[c] # NoTask /\ tstate[curr[c]] = "running"
    /\ tstate' = [tstate EXCEPT ![curr[c]] = "sleeping"]
    /\ curr' = [curr EXCEPT ![c] = NoTask]
    /\ UNCHANGED <<variant, renices, scx, task_cpu, dsq, local>>

\* Host: the tick used up the running task's slice.
SliceExpired(c) ==
    /\ scx = "enabled" /\ curr[c] # NoTask /\ tstate[curr[c]] = "running"
    /\ tstate' = [tstate EXCEPT ![curr[c]] = "expired"]
    /\ UNCHANGED <<variant, renices, scx, task_cpu, dsq, local, curr>>

Next ==
    \/ \E t \in Tasks : select_cpu(t) \/ WakePinned(t) \/ enqueue(t) \/ Renice(t)
    \/ \E c \in CPUs : dispatch(c) \/ Run(c) \/ Block(c) \/ SliceExpired(c)

(***************************************************************************)
(* The host calls ops.enqueue after every wakeup and put, a CPU with       *)
(* nothing to run or an expired task dispatches and runs what it got, and  *)
(* the tick ends every slice.  Blocking, wakeups and priority changes are  *)
(* up to the tasks and their users.                                        *)
(***************************************************************************)
Fairness ==
    /\ \A t \in Tasks : WF_vars(enqueue(t))
    /\ \A c \in CPUs :
          WF_vars(dispatch(c)) /\ WF_vars(Run(c)) /\ WF_vars(SliceExpired(c))

Spec == Init /\ [][Next]_vars /\ Fairness

-----------------------------------------------------------------------------
(***************************************************************************)
(* Spec 6: ops.enqueue places the task in exactly one queue.  Every task   *)
(* that has been enqueued and has not run yet is in DSQ 0 once, or in one  *)
(* local DSQ, and nowhere else; a running task is on one CPU.              *)
(***************************************************************************)
EnqueuePlacesTask ==
    /\ IsInjective(dsq)
    /\ \A t \in Tasks :
          LET places == Cardinality({i \in DOMAIN dsq : dsq[i] = t})
                        + Cardinality({c \in CPUs : local[c] = t})
                        + Cardinality({c \in CPUs : curr[c] = t})
          IN  IF tstate[t] \in {"queued", "local", "running", "expired", "put", "owned"}
              THEN places = 1
              ELSE places = 0

(***************************************************************************)
(* The object never makes the host abort it: every CPU its select_cpu      *)
(* returns passes ops_cpu_valid (spec 6: a CPU id or "no preference").     *)
(***************************************************************************)
SchedulerStaysEnabled == scx = "enabled"

(***************************************************************************)
(* Every task that ops.enqueue has been called for eventually runs.       *)
(***************************************************************************)
EnqueuedTaskRuns ==
    \A t \in Tasks : tstate[t] \in {"queued", "owned"} ~> tstate[t] = "running"

(***************************************************************************)
(* Refinement mapping: DSQ 0 is the abstract waiting queue.  A CPU holds   *)
(* the task of its local DSQ, else the task it runs until that task's      *)
(* slice runs out.  A pinned task may run on its own CPU only, any other   *)
(* task anywhere.  A task between select_cpu and enqueue, or put and not   *)
(* yet enqueued, is asleep at the abstract level.                          *)
(***************************************************************************)
Holder == [c \in CPUs |-> IF local[c] # NoTask THEN local[c]
                         ELSE IF curr[c] # NoTask /\ tstate[curr[c]] = "running"
                              THEN curr[c] ELSE NoTask]

Allowed == [t \in Tasks |-> IF t \in Pinned THEN {task_cpu[t]} ELSE CPUs]

RQ == INSTANCE RunQueue WITH waiting <- dsq, holder <- Holder, allowed <- Allowed

=============================================================================
