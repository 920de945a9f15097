----------------------------- MODULE VtimeQueue -----------------------------
(***************************************************************************)
(* What a dispatch queue ordered by virtual time promises (spec sections 5 *)
(* and 8), stated without DSQs, callbacks or CPUs.  A waking task enters   *)
(* the queue with some virtual time.  A free CPU takes the waiting task of *)
(* least virtual time, the one inserted first among equals.  A task that   *)
(* was taken is given back charged by at most MaxCharge, never moved      *)
(* earlier.  A task given back may be taken again at once, without        *)
(* waiting, only while no task waits.  A task outside the queue and off    *)
(* the CPUs may get a new virtual time (a fork, or a charge applied after  *)
(* it was given back).  While a task waits, its virtual time does not      *)
(* change.                                                                 *)
(***************************************************************************)
EXTENDS Integers, SequencesExt, FiniteSets

CONSTANTS Tasks, NrCpus, MaxCharge

VARIABLES
    waiting,    \* the waiting tasks in the order they were inserted
    vkey,       \* vkey[t]: the virtual time of t
    picked      \* the tasks a CPU has taken and not yet given back

vq_vars == <<waiting, vkey, picked>>

\* The next task to dispatch: among the waiting tasks of least virtual
\* time, the one inserted first.
First ==
    LET least == {t \in Range(waiting) :
                     \A u \in Range(waiting) : vkey[t] <= vkey[u]}
    IN  waiting[SelectInSeq(waiting, LAMBDA t : t \in least)]

\* The step sets a new virtual time for t and for no other task.
Rekeyed(t) ==
    /\ vkey' \in [Tasks -> Int]
    /\ \A u \in Tasks \ {t} : vkey'[u] = vkey[u]

Init ==
    /\ waiting = <<>>
    /\ vkey \in [Tasks -> Int]
    /\ picked = {}

Wake(t) ==
    /\ t \notin picked /\ t \notin Range(waiting)
    /\ waiting' = Append(waiting, t)
    /\ Rekeyed(t)
    /\ UNCHANGED picked

Pick ==
    /\ waiting # <<>> /\ Cardinality(picked) < NrCpus
    /\ picked' = picked \cup {First}
    /\ waiting' = Remove(waiting, First)
    /\ UNCHANGED vkey

Release(t) ==
    /\ t \in picked
    /\ picked' = picked \ {t}
    /\ \E c \in 0 .. MaxCharge : vkey' = [vkey EXCEPT ![t] = @ + c]
    /\ UNCHANGED waiting

Resume(t) ==
    /\ t \notin picked /\ t \notin Range(waiting)
    /\ waiting = <<>> /\ Cardinality(picked) < NrCpus
    /\ picked' = picked \cup {t}
    /\ UNCHANGED <<waiting, vkey>>

Rekey(t) ==
    /\ t \notin picked /\ t \notin Range(waiting)
    /\ Rekeyed(t)
    /\ UNCHANGED <<waiting, picked>>

Next ==
    \/ Pick
    \/ \E t \in Tasks : Wake(t) \/ Release(t) \/ Resume(t) \/ Rekey(t)

(***************************************************************************)
(* A free CPU does not stay idle while a task waits, and a taken task is   *)
(* given back.  Nothing here says that every waiting task is taken.        *)
(***************************************************************************)
Spec ==
    /\ Init /\ [][Next]_vq_vars
    /\ WF_vq_vars(Pick)
    /\ \A t \in Tasks : WF_vq_vars(Release(t))

=============================================================================
