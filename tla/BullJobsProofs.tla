---------------------------- MODULE BullJobsProofs ----------------------------
(***************************************************************************)
(* What the operations of a BullMQ queue make of a job, for any number of  *)
(* attempts, stalls and workers.                                           *)
(***************************************************************************)
EXTENDS BullJobs, TLAPS

\* A job that is not over has an attempt left, and a worker while it is active.
JobSound(j) ==
    /\ j \in Job
    /\ j.state \in {"waiting", "active", "delayed"} => j.made < JobAttempts
    /\ j.state = "active" => j.token \in Workers

\* The job of an id that the queue does not know.
LEMMA NoJobSound == JobSound(NoJob) /\ NoJob.state = "none"
<1>1. 0 \in 0..JobAttempts /\ 0 \in 0..MaxStalls
  BY JobsAssumption
<1>. QED BY <1>1 DEF NoJob, JobSound, Job

\* An add makes a job that waits, or changes nothing.
LEMMA AddedSound ==
    ASSUME NEW j, JobSound(j)
    PROVE  /\ JobSound(Added(j))
           /\ IF j.state = "none" THEN Added(j).state = "waiting" ELSE Added(j) = j
<1>1. 0 \in 0..JobAttempts /\ 0 \in 0..MaxStalls /\ 0 < JobAttempts
  BY JobsAssumption
<1>2. NewJob = [state |-> "waiting", made |-> 0, stalls |-> 0, token |-> NoWorker]
  BY DEF NewJob, NoJob
<1>3. JobSound(NewJob) /\ NewJob.state = "waiting"
  BY <1>1, <1>2 DEF JobSound, Job
<1>. QED BY <1>3 DEF Added

\* A taken job is active with its worker.
LEMMA TakenSound ==
    ASSUME NEW j, JobSound(j), j.state = "waiting", NEW w \in Workers
    PROVE  /\ JobSound(Taken(j, w)) /\ Taken(j, w).state = "active"
           /\ Taken(j, w).token = w
  BY DEF JobSound, Taken, Job

\* Only the worker that has the lock completes a job.
LEMMA CompletedSound ==
    ASSUME NEW j, JobSound(j), NEW w
    PROVE  /\ JobSound(Completed(j, w))
           /\ IF OwnsJob(j, w) THEN Completed(j, w).state = "none" ELSE Completed(j, w) = j
  BY NoJobSound DEF Completed

\* Only the worker that has the lock fails an attempt; the job tries again or is
\* failed for good.
LEMMA AttemptFailedSound ==
    ASSUME NEW j, JobSound(j), NEW w
    PROVE  /\ JobSound(AttemptFailed(j, w))
           /\ IF OwnsJob(j, w) THEN AttemptFailed(j, w).state \in {"failed", "delayed"}
              ELSE AttemptFailed(j, w) = j
<1>1. CASE ~OwnsJob(j, w)
  BY <1>1 DEF AttemptFailed
<1>2. CASE OwnsJob(j, w)
  <2> DEFINE m == j.made + 1
             s == IF m >= JobAttempts THEN "failed" ELSE "delayed"
             k == [j EXCEPT !.made = m, !.token = NoWorker, !.state = s]
  <2>1. AttemptFailed(j, w) = k
    BY <1>2 DEF AttemptFailed
  <2>2. j \in Job /\ j.made \in 0..JobAttempts /\ j.made < JobAttempts
    BY <1>2 DEF JobSound, Job, OwnsJob
  <2>3. m \in 0..JobAttempts /\ s \in {"failed", "delayed"}
        /\ (s = "delayed" => m < JobAttempts)
    BY <2>2, JobsAssumption
  <2> HIDE DEF m, s
  <2>4. k \in Job /\ k.state = s /\ k.made = m
    BY <2>2, <2>3 DEF Job
  <2> HIDE DEF k
  <2>. QED BY <1>2, <2>1, <2>3, <2>4 DEF JobSound
<1>. QED BY <1>1, <1>2

\* After the backoff a job waits again.
LEMMA BackoffOverSound ==
    ASSUME NEW j, JobSound(j), j.state = "delayed"
    PROVE  JobSound(BackoffOver(j)) /\ BackoffOver(j).state = "waiting"
  BY DEF JobSound, BackoffOver, Job

\* A job whose lock ran out waits again, or is failed after too many stalls.
LEMMA StalledSound ==
    ASSUME NEW j, JobSound(j), j.state = "active"
    PROVE  JobSound(Stalled(j)) /\ Stalled(j).state \in {"failed", "waiting"}
<1>1. j \in Job /\ j.made < JobAttempts /\ j.stalls \in 0..MaxStalls
  BY DEF JobSound, Job
<1>2. CASE j.stalls = MaxStalls
  BY <1>1, <1>2 DEF Stalled, JobSound, Job
<1>3. CASE j.stalls # MaxStalls
  <2> DEFINE n == j.stalls + 1
  <2>1. n \in 0..MaxStalls
    BY <1>1, <1>3, JobsAssumption
  <2>2. Stalled(j) = [j EXCEPT !.state = "waiting", !.token = NoWorker, !.stalls = n]
    BY <1>3 DEF Stalled
  <2> HIDE DEF n
  <2>. QED BY <1>1, <2>1, <2>2 DEF JobSound, Job
<1>. QED BY <1>2, <1>3
=============================================================================
