------------------------------- MODULE Loader -------------------------------
(***************************************************************************)
(* The two user-space loaders of the schedulers:                          *)
(*   "cxl_sched"  src/ebpf/cxl_sched.c: check the file, raise the memlock  *)
(*                limit, install SIGINT/SIGTERM handlers, open and load    *)
(*                the object, loop until signalled, destroy and close.     *)
(*   "bandwidth"  src/ebpf/cxl_bandwidth_scheduler.c: install handlers,    *)
(*                load_scheduler (memlock, open, load, find cxl_ops or     *)
(*                minimal_ops, attach), configure, optionally fork the     *)
(*                bandwidth test (-T), loop until signalled, unload.       *)
(*                                                                         *)
(* The kernel side: the struct_ops link of an attached scheduler lives as  *)
(* long as some process holds its fd.  A forked child inherits the fd and  *)
(* holds it until it exits (libbpf's fds are close-on-exec, so only the   *)
(* child itself, not the shell it runs, keeps it).  Every libbpf call may  *)
(* fail; a signal before the handlers are installed terminates the         *)
(* process, and the kernel closes its fds.  Several loaders may be started *)
(* at once: sched_ext enables one scheduler at a time, so an attach fails  *)
(* with EBUSY while another loader's link is alive.  cxl_sched.c's access() and     *)
(* memlock checks, which exit before anything is held, are folded into    *)
(* Open.  Printing, option parsing and                                     *)
(* the statistics display are left out.                                    *)
(***************************************************************************)
EXTENDS Naturals

CONSTANTS
    Procs,      \* loader processes started by the user
    Variants    \* which loader programs they may be

Holders == {"parent", "child"}

Phases == {"init", "ready", "opened", "loaded", "found", "attached",
           "configured", "serving", "exit"}

VARIABLES
    variant,      \* variant[p]: which loader p runs
    spawn_test,   \* spawn_test[p]: bandwidth -T
    pc,           \* pc[p]: p's place in main
    running,      \* running[p]: FALSE once p's signal handler has run
    obj_open,     \* obj_open[p]: p holds its bpf_object
    link_fds,     \* link_fds[p]: the processes holding the fd of p's link
    child         \* child[p]: "none", "running" or "exited"

vars == <<variant, spawn_test, pc, running, obj_open, link_fds, child>>

\* The kernel keeps p's scheduler attached while a fd of its link is open.
Attached(p) == link_fds[p] # {}

\* p's parent gives up its link fd and its object (unload_scheduler, cleanup).
Release(p) == /\ link_fds' = [link_fds EXCEPT ![p] = @ \ {"parent"}]
              /\ obj_open' = [obj_open EXCEPT ![p] = FALSE]

\* p moves to phase ph.
Goto(p, ph) == pc' = [pc EXCEPT ![p] = ph]

SetObj(p, b) == obj_open' = [obj_open EXCEPT ![p] = b]

-----------------------------------------------------------------------------
Init ==
    /\ variant \in [Procs -> Variants]
    /\ spawn_test \in {f \in [Procs -> BOOLEAN] :
                          \A p \in Procs : f[p] => variant[p] = "bandwidth"}
    /\ pc = [p \in Procs |-> "init"]
    /\ running = [p \in Procs |-> TRUE]
    /\ obj_open = [p \in Procs |-> FALSE]
    /\ link_fds = [p \in Procs |-> {}]
    /\ child = [p \in Procs |-> "none"]

\* signal(SIGINT, ...); signal(SIGTERM, ...).
InstallHandlers(p) ==
    /\ pc[p] = "init"
    /\ Goto(p, "ready")
    /\ UNCHANGED <<variant, spawn_test, running, obj_open, link_fds, child>>

\* A SIGINT or SIGTERM to p's parent: the default action before the
\* handlers exist, else the handler clears the flag.
Signal(p) ==
    /\ pc[p] # "exit" /\ running[p]
    /\ IF pc[p] = "init"
       THEN /\ Goto(p, "exit") /\ Release(p) /\ UNCHANGED running
       ELSE /\ running' = [running EXCEPT ![p] = FALSE]
            /\ UNCHANGED <<pc, obj_open, link_fds>>
    /\ UNCHANGED <<variant, spawn_test, child>>

\* access(), setrlimit(RLIMIT_MEMLOCK) and bpf_object__open.
Open(p) ==
    /\ pc[p] = "ready"
    /\ \/ Goto(p, "opened") /\ SetObj(p, TRUE)
       \/ Goto(p, "exit") /\ UNCHANGED obj_open
    /\ UNCHANGED <<variant, spawn_test, running, link_fds, child>>

\* Where main goes after a successful bpf_object__load: cxl_sched.c
\* announces the scheduler and enters its main loop without attaching it;
\* load_scheduler goes on to find the struct_ops map.
AfterLoad(p) == IF variant[p] = "cxl_sched" THEN "serving" ELSE "loaded"

\* bpf_object__load; on failure both loaders close the object.
Load(p) ==
    /\ pc[p] = "opened"
    /\ \/ /\ Goto(p, AfterLoad(p))
          /\ UNCHANGED obj_open
       \/ Goto(p, "exit") /\ SetObj(p, FALSE)
    /\ UNCHANGED <<variant, spawn_test, running, link_fds, child>>

\* bpf_object__find_map_by_name(obj, "cxl_ops"), else "minimal_ops".
FindMap(p) ==
    /\ pc[p] = "loaded"
    /\ \/ Goto(p, "found") /\ UNCHANGED obj_open
       \/ Goto(p, "exit") /\ SetObj(p, FALSE)
    /\ UNCHANGED <<variant, spawn_test, running, link_fds, child>>

\* The kernel accepts a struct_ops scheduler only while none is attached.
CanEnable(p) == \A q \in Procs \ {p} : ~Attached(q)

\* Mutant: the failed attach does not "goto cleanup".
Attach_nogoto(p) ==
    /\ pc[p] = "found"
    /\ \/ /\ CanEnable(p) /\ Goto(p, "attached")
          /\ link_fds' = [link_fds EXCEPT ![p] = {"parent"}]
       \/ Goto(p, "attached") /\ UNCHANGED link_fds
    /\ UNCHANGED <<variant, spawn_test, running, obj_open, child>>

\* Mutant: the cleanup label does not close the object.
Attach_leak(p) ==
    /\ pc[p] = "found"
    /\ \/ /\ CanEnable(p) /\ Goto(p, "attached")
          /\ link_fds' = [link_fds EXCEPT ![p] = {"parent"}]
       \/ Goto(p, "exit") /\ UNCHANGED link_fds
    /\ UNCHANGED <<variant, spawn_test, running, obj_open, child>>

\* bpf_map__attach_struct_ops; it fails with EBUSY while another scheduler
\* is attached, or for any other reason; the cleanup label closes obj.
Attach(p) ==
    /\ pc[p] = "found"
    /\ \/ /\ CanEnable(p) /\ Goto(p, "attached")
          /\ link_fds' = [link_fds EXCEPT ![p] = {"parent"}]
          /\ UNCHANGED obj_open
       \/ Goto(p, "exit") /\ SetObj(p, FALSE) /\ UNCHANGED link_fds
    /\ UNCHANGED <<variant, spawn_test, running, child>>

\* configure_bandwidth_limits: obj is non-NULL here, so its check passes
\* and main's failure branch is dead.
Configure(p) ==
    /\ pc[p] = "attached"
    /\ Goto(p, "configured")
    /\ UNCHANGED <<variant, spawn_test, running, obj_open, link_fds, child>>

\* spawn_bandwidth_test when -T is given: fork; the child inherits the link
\* fd.  A failed fork unloads and exits.
Spawn(p) ==
    /\ pc[p] = "configured"
    /\ \/ /\ ~spawn_test[p]
          /\ Goto(p, "serving")
          /\ UNCHANGED <<obj_open, link_fds, child>>
       \/ /\ spawn_test[p]
          /\ Goto(p, "serving")
          /\ child' = [child EXCEPT ![p] = "running"]
          /\ link_fds' = [link_fds EXCEPT ![p] = @ \cup {"child"}]
          /\ UNCHANGED obj_open
       \/ /\ spawn_test[p]
          /\ Goto(p, "exit")
          /\ Release(p)
          /\ UNCHANGED child
    /\ UNCHANGED <<variant, spawn_test, running>>

Serve(p) ==
    /\ pc[p] = "serving" /\ ~running[p]
    /\ Goto(p, "exit")
    /\ Release(p)
    /\ UNCHANGED <<variant, spawn_test, running, child>>

\* The child's system("./double_bandwidth ...") returns and it exits.
ChildExits(p) ==
    /\ child[p] = "running"
    /\ child' = [child EXCEPT ![p] = "exited"]
    /\ link_fds' = [link_fds EXCEPT ![p] = @ \ {"child"}]
    /\ UNCHANGED <<variant, spawn_test, pc, running, obj_open>>

Next ==
    \E p \in Procs :
        \/ InstallHandlers(p) \/ Signal(p) \/ Open(p) \/ Load(p)
        \/ FindMap(p) \/ Attach(p) \/ Configure(p) \/ Spawn(p)
        \/ Serve(p) \/ ChildExits(p)

(***************************************************************************)
(* Each parent runs its own code to the end (weak fairness on each step of *)
(* main), and each child's test ends.  Signals carry no fairness.          *)
(***************************************************************************)
Fairness ==
    \A p \in Procs :
        /\ WF_vars(InstallHandlers(p)) /\ WF_vars(Open(p)) /\ WF_vars(Load(p))
        /\ WF_vars(FindMap(p)) /\ WF_vars(Attach(p)) /\ WF_vars(Configure(p))
        /\ WF_vars(Spawn(p)) /\ WF_vars(Serve(p)) /\ WF_vars(ChildExits(p))

Spec == Init /\ [][Next]_vars /\ Fairness

-----------------------------------------------------------------------------
(***************************************************************************)
(* While a loader sits in its main loop, which both programs announce as   *)
(* "the scheduler is running/active", its own scheduler is attached.       *)
(***************************************************************************)
ActiveWhileServing ==
    \A p \in Procs : pc[p] = "serving" => "parent" \in link_fds[p]

(***************************************************************************)
(* Every path to the end of main, error paths included, has closed the     *)
(* object and given up the parent's link fd.                               *)
(***************************************************************************)
CleanupOnEveryPath ==
    \A p \in Procs : pc[p] = "exit" => ~obj_open[p] /\ "parent" \notin link_fds[p]

=============================================================================
