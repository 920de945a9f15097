---------------------------- MODULE MCMonitoring ----------------------------
EXTENDS Monitoring

CONSTANTS t1, t2, t3

MCThreads == {t1, t2, t3}

\* Three single-threaded processes.
MCTgidOwn == [t \in MCThreads |-> t]

\* Bounds on the number of events.
MaxSwitches == 4
MaxWakeups == 3

EventBound ==
    /\ cpu_usage[0] + cpu_usage[1] <= MaxSwitches
    /\ \A k \in MCThreads : events[k].wakes_by <= MaxWakeups

=============================================================================
