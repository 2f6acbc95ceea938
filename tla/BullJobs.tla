------------------------------- MODULE BullJobs -------------------------------
(***************************************************************************)
(* The jobs of a BullMQ queue, as the service uses them: the library and   *)
(* its Redis are outside this repository.  A job is known by its jobId.    *)
(* Adding a jobId that exists, in whatever state, changes nothing; a       *)
(* completed job is removed (removeOnComplete), so its id may be added     *)
(* again; a failed one stays (removeOnFail: false).  Each worker holds at  *)
(* most one job, so that the lock token of a job is its worker.            *)
(***************************************************************************)
EXTENDS Integers

CONSTANTS
    Workers, NoWorker,
    JobAttempts,   \* defaultJobOptions.attempts
    MaxStalls      \* maxStalledCount, 1 unless it is configured

ASSUME JobsAssumption ==
    /\ NoWorker \notin Workers
    /\ JobAttempts \in Nat \ {0} /\ MaxStalls \in Nat

Job == [state: {"none", "waiting", "active", "delayed", "failed"},
        made: 0..JobAttempts, stalls: 0..MaxStalls, token: Workers \cup {NoWorker}]

NoJob  == [state |-> "none", made |-> 0, stalls |-> 0, token |-> NoWorker]
NewJob == [NoJob EXCEPT !.state = "waiting"]

\* Queue.add with a jobId.
Added(j) == IF j.state = "none" THEN NewJob ELSE j

\* A worker takes a waiting job and its lock.
Taken(j, w) == [j EXCEPT !.state = "active", !.token = w]

OwnsJob(j, w) == j.state = "active" /\ j.token = w

\* The processor returned: without the lock the result is refused.
Completed(j, w) == IF OwnsJob(j, w) THEN NoJob ELSE j

\* The processor threw: the attempt counts, and the job is tried again after a
\* backoff until its attempts are used up.
AttemptFailed(j, w) ==
    IF OwnsJob(j, w)
    THEN [j EXCEPT !.made = @ + 1, !.token = NoWorker,
                   !.state = IF j.made + 1 >= JobAttempts THEN "failed" ELSE "delayed"]
    ELSE j

BackoffOver(j) == [j EXCEPT !.state = "waiting"]

\* The lock ran out: the job is made to wait again, but not for ever.
Stalled(j) ==
    IF j.stalls = MaxStalls
    THEN [j EXCEPT !.state = "failed", !.token = NoWorker]
    ELSE [j EXCEPT !.state = "waiting", !.token = NoWorker, !.stalls = @ + 1]
=============================================================================
