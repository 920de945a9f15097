------------------------------ MODULE RunQueue ------------------------------
(***************************************************************************)
(* What a single-queue scheduler promises its tasks, stated without DSQs,  *)
(* callbacks or local queues.  Each task may run on a fixed set of CPUs.   *)
(* A woken task waits at the tail of one queue.  A CPU that holds no task  *)
(* takes the oldest waiting task it may run.  A held task is given back    *)
(* (it sleeps, or waits again after a wakeup), or a CPU takes its own task *)
(* back at once when no waiting task may run there.  A change of priority  *)
(* may move a waiting task to the head or to the tail.                     *)
(***************************************************************************)
EXTENDS Naturals, Sequences, SequencesExt

CONSTANTS Tasks, NrCpus, NoTask

CPUs == 0 .. NrCpus - 1

VARIABLES
    waiting,    \* the waiting tasks, oldest first
    holder,     \* holder[c]: the task CPU c has taken, or NoTask
    allowed     \* allowed[t]: the CPUs t may run on

rq_vars == <<waiting, holder, allowed>>

Held == {holder[c] : c \in CPUs} \ {NoTask}

Idle(t) == t \notin Held /\ t \notin Range(waiting)

\* The position of the first waiting task CPU c may run, or 0.
Eligible(c) == SelectInSeq(waiting, LAMBDA t : c \in allowed[t])

Init ==
    /\ waiting = <<>>
    /\ holder = [c \in CPUs |-> NoTask]
    /\ allowed \in [Tasks -> SUBSET CPUs \ {{}}]

Wake(t) ==
    /\ Idle(t)
    /\ waiting' = Append(waiting, t)
    /\ UNCHANGED <<holder, allowed>>

Pick(c) ==
    /\ holder[c] = NoTask /\ Eligible(c) > 0
    /\ holder' = [holder EXCEPT ![c] = waiting[Eligible(c)]]
    /\ waiting' = RemoveAt(waiting, Eligible(c))
    /\ UNCHANGED allowed

Release(c) ==
    /\ holder[c] # NoTask
    /\ holder' = [holder EXCEPT ![c] = NoTask]
    /\ UNCHANGED <<waiting, allowed>>

Keep(c, t) ==
    /\ holder[c] = NoTask /\ Idle(t) /\ c \in allowed[t] /\ Eligible(c) = 0
    /\ holder' = [holder EXCEPT ![c] = t]
    /\ UNCHANGED <<waiting, allowed>>

Reorder(t) ==
    /\ t \in Range(waiting)
    /\ waiting' \in {<<t>> \o Remove(waiting, t), Append(Remove(waiting, t), t)}
    /\ UNCHANGED <<holder, allowed>>

Next ==
    \/ \E c \in CPUs : Pick(c) \/ Release(c) \/ \E t \in Tasks : Keep(c, t)
    \/ \E t \in Tasks : Wake(t) \/ Reorder(t)

(***************************************************************************)
(* A CPU that holds nothing does not stay idle while a task it may run     *)
(* waits, and a held task is given back.  Wakeups and priority changes     *)
(* are up to the tasks.                                                    *)
(***************************************************************************)
Spec ==
    /\ Init /\ [][Next]_rq_vars
    /\ \A c \in CPUs : WF_rq_vars(Pick(c)) /\ WF_rq_vars(Release(c))

=============================================================================
