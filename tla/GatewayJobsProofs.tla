------------------------- MODULE GatewayJobsProofs -------------------------
(***************************************************************************)
(* What GatewayJobs keeps for every retry budget and however often a call  *)
(* dies, is repeated or is answered late.                                  *)
(*                                                                         *)
(* TypeOK, KnownOutcome and DecidedIsFinal need to know how the checkpoint *)
(* and the memory of a call relate to the Gateway (Tracked), that a        *)
(* failure key is only ever derived from a job that failed (KeysKnown),    *)
(* and that a terminal checkpoint is held, not rewritten, by the call that *)
(* loaded or wrote it (TerminalHeld).  With a wire key the jobs are told   *)
(* apart by their keys (Held, Wire), which is what LiveJobsAccounted rests *)
(* on.  JobsBounded charges every job to a budget of the checkpoint or of  *)
(* a call (Charged), by its key or, without one, by its request.           *)
(***************************************************************************)
EXTENDS GatewayJobs, FiniteSetTheorems, TLAPS

-----------------------------------------------------------------------------
(* The inductive invariant *)

\* A saved process names a job of the Gateway; a terminal one, its outcome.
Faithful(state, gatewayJobs) ==
    /\ state.job # 0 => state.job \in DOMAIN gatewayJobs
    /\ state.phase \in {"accepted", "terminal"} => state.job # 0
    /\ state.phase = "terminal" =>
         state.outcome # "live" /\ state.outcome = gatewayJobs[state.job].status
    /\ state.outcome # "live" => state.phase = "terminal"

Tracked ==
    /\ Faithful(disk, jobs) /\ Faithful(mem, jobs)
    /\ reply.kind = "job" => reply.job # 0 /\ reply.job \in DOMAIN jobs
    /\ pc \in {"poll", "collected"} => mem.phase = "accepted"
    /\ pc = "collected" => jobs[mem.job].status # "live"
    /\ pc = "classify" => mem.phase = "terminal"

\* A failure key is derived from a job that failed that way.
GoodKey(key, gatewayJobs) ==
    key.kind \in {"infra", "device"} =>
        /\ key.of \in DOMAIN gatewayJobs
        /\ gatewayJobs[key.of].status = key.kind

KeysKnown ==
    /\ GoodKey(disk.key, jobs) /\ GoodKey(mem.key, jobs)
    /\ \A key \in UnderWay : GoodKey(key, jobs)
    /\ \A j \in DOMAIN jobs : GoodKey(jobs[j].key, jobs)

\* A call that runs while the checkpoint is terminal holds that very verdict, is
\* not past its deadline at the top of the loop, and resubmits only a retryable.
TerminalHeld ==
    /\ disk.phase = "terminal" /\ pc # "idle" =>
         /\ pc \in {"loop", "classify", "resubmit"}
         /\ mem.phase = "terminal"
         /\ mem.outcome = disk.outcome
         /\ mem.infra = disk.infra /\ mem.device = disk.device
    /\ pc = "idle" => ~expired
    /\ pc = "loop" /\ mem.phase = "terminal" => ~expired
    /\ pc \in {"submit", "replied", "sleep"} => mem.phase # "terminal"
    /\ pc = "resubmit" /\ mem.phase = "terminal" => Retryable(mem)

IInv == TypeOK /\ Tracked /\ KeysKnown /\ TerminalHeld

-----------------------------------------------------------------------------
(* The Gateway *)

\* Admission returns a job of the Gateway and keeps every job it had: a known
\* key finds its job again, any other request appends one.
LEMMA Admission ==
    ASSUME TypeOK, NEW key \in Key, Admit(key)
    PROVE  /\ jobs' \in Seq(Job)
           /\ AdmittedJob(key) \in Nat \ {0}
           /\ AdmittedJob(key) \in DOMAIN jobs'
           /\ DOMAIN jobs \subseteq DOMAIN jobs'
           /\ \A j \in DOMAIN jobs : jobs'[j] = jobs[j]
           /\ \A j \in DOMAIN jobs' \ DOMAIN jobs : jobs'[j].key = key
<1>1. jobs \in Seq(Job)
  BY DEF TypeOK
<1>2. [key |-> key, status |-> "live", kept |-> TRUE] \in Job
  BY DEF Job, Status
<1>3. CASE Known(key) = {}
  BY <1>1, <1>2, <1>3 DEF Admit, AdmittedJob
<1>4. CASE Known(key) # {}
  <2>1. AdmittedJob(key) \in Known(key)
    BY <1>4 DEF AdmittedJob
  <2>2. AdmittedJob(key) \in DOMAIN jobs
    BY <2>1 DEF Known, Jobs
  <2> QED
    BY <1>1, <1>4, <2>2 DEF Admit
<1> QED
  BY <1>3, <1>4

\* No step loses a job, renames its key or changes how it ended.
JobsKept ==
    /\ DOMAIN jobs \subseteq DOMAIN jobs'
    /\ \A j \in DOMAIN jobs :
         /\ jobs'[j].key = jobs[j].key
         /\ jobs[j].status # "live" => jobs'[j].status = jobs[j].status

\* Only keys are under way.
LEMMA UnderWayType ==
    /\ TypeOK => UnderWay \subseteq Key
    /\ TypeOK' => UnderWay' \subseteq Key
<1>1. ASSUME TypeOK PROVE UnderWay \subseteq Key
  BY <1>1 DEF TypeOK, UnderWay, Request
<1>2. ASSUME TypeOK' PROVE UnderWay' \subseteq Key
  BY <1>2 DEF TypeOK, UnderWay, Request
<1> QED BY <1>1, <1>2

\* A late arrival is admitted under a key that was under way.
LEMMA Arrival ==
    ASSUME LateArrival
    PROVE  \E key \in UnderWay :
             /\ Admit(key) /\ UNCHANGED disk
             /\ UnderWay' \subseteq UnderWay /\ UnderWay \subseteq UnderWay' \cup {key}
<1>1. PICK request \in late :
        Admit(request.key) /\ late' = late \ {request} /\ UNCHANGED disk
  BY DEF LateArrival
<1> QED BY <1>1 DEF UnderWay

\* A request given up stays under way.
LEMMA Delay ==
    ASSUME SubmitDelayed
    PROVE  UnderWay' = UnderWay \cup {mem.key}
<1> DEFINE request == [key |-> mem.key, nth |-> delayed']
<1>1. late' = late \cup {request} /\ request.key = mem.key
  BY DEF SubmitDelayed
<1> HIDE DEF request
<1> QED BY <1>1 DEF UnderWay

\* Nothing else moves the wire.
LEMMA WireMoves ==
    ASSUME [Next]_vars
    PROVE  SubmitDelayed \/ LateArrival \/ UnderWay' = UnderWay
<1>1. SubmitDelayed \/ LateArrival \/ late' = late
  BY DEF Next, Call, Submission, Collection, Environment, vars, gateway, Begin,
         BeginUnconfirmed, DeadlineReached, ReuseSaved, AnnounceSubmission,
         SubmitAdmitted, SubmitRefused, SaveAccepted, SaveUncertain,
         SaveRejected, Collect, CollectMissing, CollectNothing, CollectFails,
         SaveTerminal, Decide, Replace, Resubmit, NoTimeToResubmit, Wake, Expire,
         Crash, JobEnds, JobForgotten
<1> QED BY <1>1 DEF UnderWay

\* The Gateway's history is append-only and outcomes are final: JobEnds ends a
\* live job, JobForgotten keeps the outcome, admission appends.
LEMMA GatewayStep ==
    ASSUME TypeOK, [Next]_vars
    PROVE  jobs' \in Seq(Job) /\ JobsKept
<1>1. jobs \in Seq(Job) /\ mem.key \in Key /\ UnderWay \subseteq Key
  BY UnderWayType DEF TypeOK, Checkpoint
<1>2. CASE SubmitAdmitted
  BY <1>1, <1>2, Admission DEF SubmitAdmitted, JobsKept
<1>3. CASE LateArrival
  BY <1>1, <1>3, Arrival, Admission DEF JobsKept
<1>4. CASE JobEnds
  <2>1. PICK j \in Jobs, status \in Status \ {"live"} :
          jobs[j].status = "live" /\ jobs' = [jobs EXCEPT ![j].status = status]
    BY <1>4 DEF JobEnds
  <2>2. jobs[j] \in Job
    BY <1>1, <2>1 DEF Jobs
  <2>3. [jobs[j] EXCEPT !.status = status] \in Job
    BY <2>1, <2>2 DEF Job
  <2>4. jobs' = [jobs EXCEPT ![j] = [jobs[j] EXCEPT !.status = status]]
    BY <2>1
  <2>5. jobs' \in Seq(Job)
    BY <1>1, <2>1, <2>3, <2>4 DEF Jobs
  <2> QED
    BY <1>1, <2>1, <2>2, <2>4, <2>5 DEF JobsKept, Jobs, Job
<1>5. CASE JobForgotten
  <2>1. PICK j \in Jobs : jobs' = [jobs EXCEPT ![j].kept = FALSE]
    BY <1>5 DEF JobForgotten
  <2>2. jobs[j] \in Job
    BY <1>1, <2>1 DEF Jobs
  <2>3. [jobs[j] EXCEPT !.kept = FALSE] \in Job
    BY <2>1, <2>2 DEF Job
  <2>4. jobs' = [jobs EXCEPT ![j] = [jobs[j] EXCEPT !.kept = FALSE]]
    BY <2>1
  <2>5. jobs' \in Seq(Job)
    BY <1>1, <2>1, <2>3, <2>4 DEF Jobs
  <2> QED
    BY <1>1, <2>1, <2>2, <2>4, <2>5 DEF JobsKept, Jobs, Job
<1>6. CASE UNCHANGED jobs
  BY <1>1, <1>6 DEF JobsKept
<1>7. SubmitAdmitted \/ LateArrival \/ JobEnds \/ JobForgotten \/ UNCHANGED jobs
  BY DEF Next, Call, Submission, Collection, Environment, vars, gateway, Begin,
         BeginUnconfirmed, DeadlineReached, ReuseSaved, AnnounceSubmission,
         SubmitRefused, SubmitDelayed, SaveAccepted, SaveUncertain, SaveRejected,
         Collect, CollectMissing, CollectNothing, CollectFails, SaveTerminal, Decide,
         Replace, Resubmit, NoTimeToResubmit, Wake, Expire, Crash
<1> QED
  BY <1>2, <1>3, <1>4, <1>5, <1>6, <1>7

-----------------------------------------------------------------------------
(* Types *)

\* The variables of the call alone.
LocalOK ==
    /\ mem \in Checkpoint /\ pc \in Location /\ waits \in Nat
    /\ probe \in BOOLEAN /\ expired \in BOOLEAN /\ reply \in Reply

\* Leaving a call resets its variables to values of their types.
LEMMA LeaveType ==
    ASSUME Leave
    PROVE  LocalOK'
BY DEF Leave, LocalOK, NoCheckpoint, NoReply, NoKey, Checkpoint, Phase, Status, Key,
       Location, Reply

\* The fields of a save that keeps counters and key and drops the process.
LEMMA AtPhaseType ==
    ASSUME mem \in Checkpoint, NEW phase \in Phase
    PROVE  /\ AtPhase(phase) \in Checkpoint
           /\ AtPhase(phase).phase = phase /\ AtPhase(phase).job = 0
           /\ AtPhase(phase).outcome = "live" /\ AtPhase(phase).key = mem.key
           /\ AtPhase(phase).infra = mem.infra /\ AtPhase(phase).device = mem.device
BY DEF AtPhase, Checkpoint, Status

\* The key of the next wait window is a key, and no failure key unless the
\* present one is.
LEMMA WaitKeyType ==
    ASSUME TypeOK, NEW job \in Nat
    PROVE  /\ WaitKey(job) \in Key
           /\ WaitKey(job).kind \in {"infra", "device"} =>
                /\ WaitKey(job).kind = mem.key.kind
                /\ WaitKey(job).of = mem.key.of
<1>1. mem.key \in Key
  BY DEF TypeOK, Checkpoint
<1>2. CASE ~Idempotent
  BY <1>2 DEF WaitKey, NoKey, Key
<1>3. CASE Idempotent /\ job # 0
  BY <1>3 DEF WaitKey, ReplacementKey, Key
<1>4. CASE Idempotent /\ job = 0
  <2>1. WaitKey(job) = [mem.key EXCEPT !.waits = @ + 1]
    BY <1>4 DEF WaitKey
  <2> QED
    BY <1>1, <2>1 DEF Key
<1> QED
  BY <1>2, <1>3, <1>4

\* retry_wait announces a submission without a saved job, under a key of the
\* kind WaitKeyType says, and spends no failure budget.
LEMMA RetryWaitFields ==
    ASSUME TypeOK, NEW job \in Nat, RetryWait(job)
    PROVE  /\ LocalOK' /\ disk' \in Checkpoint
           /\ disk' = mem' /\ pc' = "loop" /\ reply' = reply
           /\ mem'.phase = "retry_pending" /\ mem'.job = 0 /\ mem'.outcome = "live"
           /\ mem'.key = WaitKey(job)
           /\ mem'.infra = mem.infra /\ mem'.device = mem.device
<1>1. /\ AtPhase("retry_pending") \in Checkpoint
      /\ AtPhase("retry_pending").phase = "retry_pending"
      /\ AtPhase("retry_pending").job = 0
      /\ AtPhase("retry_pending").outcome = "live"
      /\ AtPhase("retry_pending").infra = mem.infra
      /\ AtPhase("retry_pending").device = mem.device
  BY AtPhaseType DEF TypeOK, Phase
<1>2. WaitKey(job) \in Key
  BY WaitKeyType
<1>3. mem' = [AtPhase("retry_pending") EXCEPT !.key = WaitKey(job)]
  BY DEF RetryWait
<1>4. /\ mem' \in Checkpoint
      /\ mem'.phase = "retry_pending" /\ mem'.job = 0 /\ mem'.outcome = "live"
      /\ mem'.key = WaitKey(job)
      /\ mem'.infra = mem.infra /\ mem'.device = mem.device
  BY <1>1, <1>2, <1>3 DEF Checkpoint
<1>5. waits' \in Nat /\ expired' = FALSE /\ pc' = "loop" /\ reply' = reply /\ disk' = mem'
  BY DEF RetryWait, TypeOK
<1>6. probe' \in BOOLEAN
  BY Zenon DEF RetryWait
<1>7. "loop" \in Location /\ reply \in Reply
  BY DEF Location, TypeOK
<1> QED
  BY <1>4, <1>5, <1>6, <1>7 DEF LocalOK

\* RetryWaitOrLeave keeps the types.
LEMMA RetryWaitOrLeaveType ==
    ASSUME TypeOK, NEW job \in Nat, RetryWaitOrLeave(job)
    PROVE  LocalOK' /\ disk' \in Checkpoint
BY RetryWaitFields, LeaveType DEF RetryWaitOrLeave, TypeOK


\* No step takes a variable out of its type.
LEMMA TypeStep ==
    ASSUME TypeOK, Tracked, [Next]_vars
    PROVE  TypeOK'
<1>1. jobs' \in Seq(Job)
  BY GatewayStep
<1>2. SUFFICES /\ LocalOK' /\ disk' \in Checkpoint /\ late' \subseteq Request
               /\ invocations' \in Nat /\ crashes' \in Nat /\ delayed' \in Nat
  BY <1>1 DEF TypeOK, LocalOK
<1>3. /\ LocalOK /\ disk \in Checkpoint /\ late \subseteq Request
      /\ invocations \in Nat /\ crashes \in Nat /\ delayed \in Nat
  BY DEF TypeOK, LocalOK
<1>4. mem.job \in Nat /\ mem.key \in Key /\ disk.key \in Key
      /\ mem.infra \in Nat /\ mem.device \in Nat
  BY <1>3 DEF LocalOK, Checkpoint
<1>5. /\ AtPhase("submitting") \in Checkpoint /\ AtPhase("rejected") \in Checkpoint
      /\ AtPhase("retry_pending") \in Checkpoint
  BY <1>3, AtPhaseType DEF LocalOK, Phase
<1> USE DEF spent, gateway
<1>6. CASE Begin
  <2>1. FreshKey(invocations + 1) \in Key
    BY <1>3 DEF FreshKey, Key
  <2>2. mem' \in Checkpoint
    BY <1>3, <1>6, <2>1 DEF Begin, Checkpoint
  <2>3. probe' \in BOOLEAN
    BY <1>6, Zenon DEF Begin
  <2> QED
    BY <1>3, <1>6, <2>2, <2>3 DEF Begin, LocalOK, Location
<1>7. CASE BeginUnconfirmed
  <2>1. [disk EXCEPT !.phase = "retry_pending", !.job = 0] \in Checkpoint
    BY <1>3 DEF Checkpoint, Phase
  <2> QED
    BY <1>3, <1>7, <2>1 DEF BeginUnconfirmed, LocalOK, Location
<1>8. CASE DeadlineReached
  BY <1>3, <1>4, <1>8, RetryWaitOrLeaveType DEF DeadlineReached
<1>9. CASE ReuseSaved
  BY <1>3, <1>9 DEF ReuseSaved, LocalOK, Location
<1>10. CASE AnnounceSubmission
  BY <1>3, <1>5, <1>10 DEF AnnounceSubmission, LocalOK, Location
<1>11. CASE SubmitAdmitted
  <2>1. AdmittedJob(mem.key) \in Nat
    BY <1>4, <1>11, Admission DEF SubmitAdmitted
  <2> QED
    BY <1>3, <1>11, <2>1 DEF SubmitAdmitted, Replied, Reply, LocalOK, Location
<1>12. CASE SubmitRefused
  BY <1>3, <1>12 DEF SubmitRefused, Replied, Reply, LocalOK, Location
<1>13. CASE SubmitDelayed
  BY <1>3, <1>4, <1>13 DEF SubmitDelayed, Replied, Reply, Request, LocalOK, Location
<1>14. CASE SaveAccepted
  <2>1. reply.job \in Nat
    BY <1>3 DEF LocalOK, Reply
  <2>2. mem' \in Checkpoint
    BY <1>3, <1>14, <2>1 DEF SaveAccepted, LocalOK, Checkpoint, Phase, Status
  <2> QED
    BY <1>3, <1>14, <2>2 DEF SaveAccepted, LocalOK, Location, NoReply, Reply
<1>15. CASE SaveUncertain
  BY <1>3, <1>5, <1>15, LeaveType DEF SaveUncertain, LocalOK, Location, NoReply, Reply
<1>16. CASE SaveRejected
  BY <1>3, <1>5, <1>16, LeaveType DEF SaveRejected, LocalOK, Location, NoReply, Reply
<1>17. CASE Collect
  BY <1>3, <1>17 DEF Collect, LocalOK, Location
<1>18. CASE CollectMissing \/ CollectNothing \/ CollectFails
  BY <1>3, <1>4, <1>18, RetryWaitOrLeaveType, LeaveType
     DEF CollectMissing, CollectNothing, CollectFails
<1>19. CASE SaveTerminal
  <2>1. mem.job \in DOMAIN jobs
    BY <1>19 DEF SaveTerminal, Tracked, Faithful
  <2>2. jobs[mem.job] \in Job
    BY <2>1 DEF TypeOK, Jobs
  <2>3. jobs[mem.job].status \in Status
    BY <2>2 DEF Job
  <2>4. mem' \in Checkpoint
    BY <1>3, <1>19, <2>3 DEF SaveTerminal, LocalOK, Checkpoint, Phase
  <2> QED
    BY <1>3, <1>19, <2>4 DEF SaveTerminal, LocalOK, Location
<1>20. CASE Decide \/ NoTimeToResubmit
  BY <1>3, <1>20, LeaveType DEF Decide, NoTimeToResubmit
<1>21. CASE Replace
  <2>1. mem.outcome \in {"infra", "device"}
    BY <1>21 DEF Replace, Retryable
  <2>2. ReplacementKey(mem.outcome, mem.job) \in Key /\ NoKey \in Key
    BY <1>4, <2>1 DEF ReplacementKey, NoKey, Key
  <2>3. mem' \in Checkpoint
    BY <1>3, <1>21, <2>2 DEF Replace, LocalOK, Checkpoint
  <2> QED
    BY <1>3, <1>21, <2>3 DEF Replace, LocalOK, Location
<1>22. CASE Resubmit
  <2>1. mem' \in Checkpoint
    <3>1. PICK i \in {0, 1}, d \in {0, 1} :
            mem' = [AtPhase("retry_pending") EXCEPT !.infra = @ + i, !.device = @ + d]
      BY <1>22 DEF Resubmit
    <3>2. DEFINE saved == AtPhase("retry_pending")
    <3>3. saved.infra + i \in Nat /\ saved.device + d \in Nat
      BY <1>5 DEF Checkpoint
    <3>4. mem' = [saved EXCEPT !.infra = saved.infra + i, !.device = saved.device + d]
      BY <3>1
    <3>5. saved \in Checkpoint
      BY <1>5
    <3> HIDE DEF saved
    <3> QED
      BY <3>3, <3>4, <3>5 DEF Checkpoint
  <2> QED
    BY <1>3, <1>22, <2>1 DEF Resubmit, LocalOK, Location
<1>23. CASE Wake \/ Expire
  BY <1>3, <1>23 DEF Wake, Expire, LocalOK, Location
<1>24. CASE Crash
  BY <1>3, <1>24, LeaveType DEF Crash
<1>25. CASE LateArrival \/ JobEnds \/ JobForgotten \/ UNCHANGED vars
  BY <1>3, <1>25 DEF LateArrival, JobEnds, JobForgotten, LocalOK, local, vars
<1> QED
  BY <1>6, <1>7, <1>8, <1>9, <1>10, <1>11, <1>12, <1>13, <1>14, <1>15, <1>16, <1>17,
     <1>18, <1>19, <1>20, <1>21, <1>22, <1>23, <1>24, <1>25
     DEF Next, Call, Submission, Collection, Environment


-----------------------------------------------------------------------------
(* The checkpoint and the Gateway *)

\* What a checkpoint says of its job stays true.
LEMMA FaithfulKept ==
    ASSUME JobsKept, NEW state, Faithful(state, jobs)
    PROVE  Faithful(state, jobs')
BY DEF JobsKept, Faithful

\* So does what a failure key says.
LEMMA GoodKeyKept ==
    ASSUME JobsKept, NEW key, GoodKey(key, jobs)
    PROVE  GoodKey(key, jobs')
BY DEF JobsKept, GoodKey

\* A call that ended holds nothing, which is faithful.
LEMMA LeaveTracked ==
    ASSUME Leave
    PROVE  /\ Faithful(mem', jobs') /\ GoodKey(mem'.key, jobs')
           /\ reply'.kind = "none" /\ pc' = "idle"
BY DEF Leave, NoCheckpoint, NoReply, NoKey, Faithful, GoodKey

\* A checkpoint without a job and without an outcome is faithful.
LEMMA JoblessFaithful ==
    ASSUME NEW state, state.job = 0, state.outcome = "live",
           state.phase \notin {"accepted", "terminal"}
    PROVE  Faithful(state, jobs')
BY DEF Faithful

\* Each save of the checkpoint is true of the Gateway.
LEMMA TrackedStep ==
    ASSUME TypeOK, Tracked, [Next]_vars
    PROVE  Tracked'
<1>1. JobsKept
  BY GatewayStep
<1>2. /\ Faithful(disk, jobs') /\ Faithful(mem, jobs')
      /\ reply.kind = "job" => reply.job # 0 /\ reply.job \in DOMAIN jobs'
  BY <1>1, FaithfulKept DEF Tracked, JobsKept
<1>3. /\ mem \in Checkpoint /\ disk \in Checkpoint /\ mem.job \in Nat
      /\ invocations \in Nat
  BY DEF TypeOK, Checkpoint
<1>4. \A phase \in {"submitting", "rejected", "retry_pending"} :
        /\ Faithful(AtPhase(phase), jobs')
        /\ AtPhase(phase) \in Checkpoint
        /\ AtPhase(phase).phase = phase /\ AtPhase(phase).job = 0
        /\ AtPhase(phase).outcome = "live"
  <2> SUFFICES ASSUME NEW phase \in {"submitting", "rejected", "retry_pending"}
               PROVE  /\ Faithful(AtPhase(phase), jobs')
                      /\ AtPhase(phase) \in Checkpoint
                      /\ AtPhase(phase).phase = phase /\ AtPhase(phase).job = 0
                      /\ AtPhase(phase).outcome = "live"
    OBVIOUS
  <2>1. phase \in Phase
    BY DEF Phase
  <2> QED
    BY <1>3, <2>1, AtPhaseType, JoblessFaithful
<1>5. NoReply.kind = "none"
  BY DEF NoReply
<1>6. ASSUME NEW job \in Nat, RetryWaitOrLeave(job)
      PROVE  Tracked'
  <2>1. CASE RetryWait(job)
    BY <1>2, <1>6, <2>1, RetryWaitFields, JoblessFaithful DEF Tracked
  <2>2. CASE Leave /\ UNCHANGED disk
    BY <1>2, <2>2, LeaveTracked DEF Tracked
  <2> QED
    BY <1>6, <2>1, <2>2 DEF RetryWaitOrLeave
<1>7. CASE Begin
  <2>1. mem'.phase = disk.phase /\ mem'.job = disk.job /\ mem'.outcome = disk.outcome
    BY <1>3, <1>7 DEF Begin, Checkpoint
  <2>2. Faithful(mem', jobs')
    BY <1>2, <2>1 DEF Faithful
  <2> QED
    BY <1>2, <1>7, <2>2 DEF Begin, gateway, Tracked
<1>8. CASE BeginUnconfirmed
  <2>1. Faithful([disk EXCEPT !.phase = "retry_pending", !.job = 0], jobs')
    BY <1>2, <1>3, <1>8 DEF BeginUnconfirmed, Faithful, Checkpoint
  <2>2. CASE mem' = [disk EXCEPT !.phase = "retry_pending", !.job = 0]
             /\ disk' = mem' /\ pc' = "loop"
    BY <1>2, <1>8, <2>1, <2>2 DEF BeginUnconfirmed, Tracked
  <2>3. CASE UNCHANGED <<mem, disk, pc>>
    BY <1>2, <1>8, <2>3 DEF BeginUnconfirmed, Tracked
  <2> QED
    BY <1>8, <2>2, <2>3 DEF BeginUnconfirmed
<1>9. CASE DeadlineReached \/ CollectMissing \/ CollectNothing
  BY <1>3, <1>6, <1>9 DEF DeadlineReached, CollectMissing, CollectNothing
<1>10. CASE CollectFails
  BY <1>2, <1>3, <1>6, <1>10, LeaveTracked DEF CollectFails, Tracked
<1>11. CASE ReuseSaved
  BY <1>2, <1>11 DEF ReuseSaved, Tracked
<1>12. CASE AnnounceSubmission
  BY <1>2, <1>4, <1>12 DEF AnnounceSubmission, Tracked
<1>13. CASE SubmitAdmitted
  <2>1. AdmittedJob(mem.key) # 0 /\ AdmittedJob(mem.key) \in DOMAIN jobs'
    BY <1>3, <1>13, Admission DEF SubmitAdmitted, Checkpoint
  <2> QED
    BY <1>2, <1>13, <2>1 DEF SubmitAdmitted, Replied, Tracked
<1>14. CASE SubmitRefused \/ SubmitDelayed
  BY <1>2, <1>14 DEF SubmitRefused, SubmitDelayed, Replied, Tracked
<1>15. CASE SaveAccepted
  <2>1. mem'.phase = "accepted" /\ mem'.job = reply.job /\ mem'.outcome = "live"
    BY <1>3, <1>15 DEF SaveAccepted, Checkpoint
  <2>2. Faithful(mem', jobs')
    BY <1>2, <1>15, <2>1 DEF SaveAccepted, Faithful
  <2> QED
    BY <1>2, <1>5, <1>15, <2>1, <2>2 DEF SaveAccepted, Tracked
<1>16. CASE SaveUncertain
  BY <1>2, <1>4, <1>5, <1>16, LeaveTracked DEF SaveUncertain, Tracked
<1>17. CASE SaveRejected
  BY <1>2, <1>4, <1>5, <1>17, LeaveTracked DEF SaveRejected, Tracked
<1>18. CASE Collect
  BY <1>2, <1>18 DEF Collect, gateway, Tracked
<1>19. CASE SaveTerminal
  <2>1. mem.phase = "accepted" /\ jobs[mem.job].status # "live"
    BY <1>19 DEF SaveTerminal, Tracked
  <2>2. mem'.phase = "terminal" /\ mem'.job = mem.job /\ mem'.outcome = jobs[mem.job].status
    BY <1>3, <1>19 DEF SaveTerminal, Checkpoint
  <2>3. Faithful(mem', jobs')
    BY <1>2, <1>19, <2>1, <2>2 DEF SaveTerminal, gateway, Faithful
  <2> QED
    BY <1>2, <1>19, <2>2, <2>3 DEF SaveTerminal, Tracked
<1>20. CASE Decide \/ NoTimeToResubmit \/ Crash
  BY <1>2, <1>20, LeaveTracked DEF Decide, NoTimeToResubmit, Crash, Tracked
<1>21. CASE Replace
  <2>1. mem'.phase = mem.phase /\ mem'.job = mem.job /\ mem'.outcome = mem.outcome
    BY <1>3, <1>21 DEF Replace, Checkpoint
  <2>2. Faithful(mem', jobs')
    BY <1>2, <2>1 DEF Faithful
  <2> QED
    BY <1>2, <1>21, <2>2 DEF Replace, Tracked
<1>22. CASE Resubmit
  <2>1. mem'.phase = "retry_pending" /\ mem'.job = 0 /\ mem'.outcome = "live"
    BY <1>4, <1>22 DEF Resubmit, Checkpoint
  <2> QED
    BY <1>2, <1>22, <2>1, JoblessFaithful DEF Resubmit, Tracked
<1>23. CASE Wake \/ Expire
  BY <1>2, <1>23 DEF Wake, Expire, gateway, Tracked
<1>24. CASE LateArrival \/ JobEnds \/ JobForgotten \/ UNCHANGED vars
  <2>1. UNCHANGED <<disk, mem, pc, reply>>
    BY <1>24 DEF LateArrival, JobEnds, JobForgotten, local, vars
  <2>2. pc = "collected" => jobs'[mem.job].status # "live"
    BY <1>1 DEF Tracked, Faithful, JobsKept
  <2> QED
    BY <1>2, <2>1, <2>2 DEF Tracked
<1> QED
  BY <1>7, <1>8, <1>9, <1>10, <1>11, <1>12, <1>13, <1>14, <1>15, <1>16, <1>17, <1>18,
     <1>19, <1>20, <1>21, <1>22, <1>23, <1>24
     DEF Next, Call, Submission, Collection, Environment


\* Failure keys are derived from failed jobs only, and once derived are carried
\* unchanged to the checkpoint, the wire and the Gateway.
LEMMA KeysStep ==
    ASSUME TypeOK, Tracked, KeysKnown, [Next]_vars
    PROVE  KeysKnown'
<1>1. JobsKept
  BY GatewayStep
<1>2. /\ GoodKey(disk.key, jobs') /\ GoodKey(mem.key, jobs')
      /\ \A key \in UnderWay : GoodKey(key, jobs')
  BY <1>1, GoodKeyKept DEF KeysKnown
<1>3. /\ mem \in Checkpoint /\ disk \in Checkpoint /\ mem.job \in Nat /\ mem.key \in Key
      /\ UnderWay \subseteq Key /\ invocations \in Nat
  BY UnderWayType DEF TypeOK, Checkpoint
<1>4. \A phase \in {"submitting", "rejected", "retry_pending"} :
        AtPhase(phase) \in Checkpoint /\ AtPhase(phase).key = mem.key
  BY <1>3, AtPhaseType DEF Phase
<1>5. \A j \in DOMAIN jobs : GoodKey(jobs'[j].key, jobs')
  <2> SUFFICES ASSUME NEW j \in DOMAIN jobs
               PROVE  GoodKey(jobs'[j].key, jobs')
    OBVIOUS
  <2>1. GoodKey(jobs[j].key, jobs) /\ jobs'[j].key = jobs[j].key
    BY <1>1 DEF KeysKnown, JobsKept
  <2> QED
    BY <1>1, <2>1, GoodKeyKept
<1>6. \A j \in DOMAIN jobs' : GoodKey(jobs'[j].key, jobs')
  <2>1. CASE SubmitAdmitted
    BY <1>2, <1>3, <1>5, <2>1, Admission DEF SubmitAdmitted
  <2>2. CASE LateArrival
    <3>1. PICK key \in UnderWay : Admit(key)
      BY <2>2, Arrival
    <3> QED
      BY <1>2, <1>3, <1>5, <3>1, Admission
  <2>3. CASE JobEnds
    <3>1. DOMAIN jobs' = DOMAIN jobs
      BY <2>3 DEF JobEnds
    <3> QED
      BY <1>5, <3>1
  <2>4. CASE JobForgotten
    <3>1. DOMAIN jobs' = DOMAIN jobs
      BY <2>4 DEF JobForgotten
    <3> QED
      BY <1>5, <3>1
  <2>5. CASE UNCHANGED jobs
    BY <1>5, <2>5
  <2>6. SubmitAdmitted \/ LateArrival \/ JobEnds \/ JobForgotten \/ UNCHANGED jobs
    BY DEF Next, Call, Submission, Collection, Environment, vars, gateway, Begin,
           BeginUnconfirmed, DeadlineReached, ReuseSaved, AnnounceSubmission,
           SubmitRefused, SubmitDelayed, SaveAccepted, SaveUncertain, SaveRejected,
           Collect, CollectMissing, CollectNothing, CollectFails, SaveTerminal, Decide,
           Replace, Resubmit, NoTimeToResubmit, Wake, Expire, Crash
  <2> QED
    BY <2>1, <2>2, <2>3, <2>4, <2>5, <2>6
<1>7. \A key \in UnderWay' : GoodKey(key, jobs')
  <2>1. UnderWay' \subseteq UnderWay \cup {mem.key}
    BY WireMoves, Arrival, Delay
  <2> QED
    BY <1>2, <2>1
<1>8. SUFFICES GoodKey(disk'.key, jobs') /\ GoodKey(mem'.key, jobs')
  BY <1>6, <1>7 DEF KeysKnown
<1>9. ASSUME NEW job \in Nat, RetryWaitOrLeave(job)
      PROVE  GoodKey(disk'.key, jobs') /\ GoodKey(mem'.key, jobs')
  <2>1. CASE RetryWait(job)
    <3>1. disk' = mem' /\ mem'.key = WaitKey(job)
      BY <2>1, RetryWaitFields
    <3> QED
      BY <1>2, <3>1, WaitKeyType DEF GoodKey
  <2>2. CASE Leave /\ UNCHANGED disk
    BY <1>2, <2>2, LeaveTracked
  <2> QED
    BY <1>9, <2>1, <2>2 DEF RetryWaitOrLeave
<1>10. CASE Begin
  <2>1. mem'.key = disk.key \/ mem'.key = FreshKey(invocations + 1)
    BY <1>3, <1>10 DEF Begin, Checkpoint
  <2>2. GoodKey(FreshKey(invocations + 1), jobs')
    BY DEF FreshKey, GoodKey
  <2> QED
    BY <1>2, <1>10, <2>1, <2>2 DEF Begin
<1>11. CASE BeginUnconfirmed
  <2>1. [disk EXCEPT !.phase = "retry_pending", !.job = 0].key = disk.key
    BY <1>3 DEF Checkpoint
  <2> QED
    BY <1>2, <1>11, <2>1 DEF BeginUnconfirmed
<1>12. CASE DeadlineReached \/ CollectMissing \/ CollectNothing
  BY <1>3, <1>9, <1>12 DEF DeadlineReached, CollectMissing, CollectNothing
<1>13. CASE CollectFails
  BY <1>2, <1>3, <1>9, <1>13, LeaveTracked DEF CollectFails
<1>14. CASE AnnounceSubmission \/ SaveUncertain \/ SaveRejected
  BY <1>2, <1>4, <1>14, LeaveTracked DEF AnnounceSubmission, SaveUncertain, SaveRejected
<1>15. CASE SaveAccepted \/ SaveTerminal
  <2>1. mem'.key = mem.key /\ disk' = mem'
    BY <1>3, <1>15 DEF SaveAccepted, SaveTerminal, Checkpoint
  <2> QED
    BY <1>2, <2>1
<1>16. CASE Decide \/ NoTimeToResubmit \/ Crash
  BY <1>2, <1>16, LeaveTracked DEF Decide, NoTimeToResubmit, Crash
<1>17. CASE Replace
  <2>1. mem.phase = "terminal" /\ mem.outcome \in {"infra", "device"}
    BY <1>17 DEF Replace, Retryable, Tracked
  <2>2. mem.job \in DOMAIN jobs' /\ jobs'[mem.job].status = mem.outcome
    BY <1>1, <2>1 DEF Tracked, Faithful, JobsKept
  <2>3. GoodKey(ReplacementKey(mem.outcome, mem.job), jobs') /\ GoodKey(NoKey, jobs')
    BY <2>2 DEF ReplacementKey, NoKey, GoodKey
  <2>4. mem'.key \in {ReplacementKey(mem.outcome, mem.job), NoKey}
    BY <1>3, <1>17 DEF Replace, Checkpoint
  <2> QED
    BY <1>2, <1>17, <2>3, <2>4 DEF Replace
<1>18. CASE Resubmit
  <2>1. mem'.key = mem.key /\ disk' = mem'
    BY <1>4, <1>18 DEF Resubmit, Checkpoint
  <2> QED
    BY <1>2, <2>1
<1>19. CASE UNCHANGED <<disk, mem>>
  BY <1>2, <1>19
<1>20. ReuseSaved \/ SubmitAdmitted \/ SubmitRefused \/ SubmitDelayed \/ Collect \/ Wake
       \/ Expire \/ LateArrival \/ JobEnds \/ JobForgotten \/ UNCHANGED vars
         => UNCHANGED <<disk, mem>>
  BY DEF ReuseSaved, SubmitAdmitted, SubmitRefused, SubmitDelayed, Collect, Wake, Expire,
         LateArrival, JobEnds, JobForgotten, vars, local
<1> QED
  BY <1>10, <1>11, <1>12, <1>13, <1>14, <1>15, <1>16, <1>17, <1>18, <1>19, <1>20
     DEF Next, Call, Submission, Collection, Environment


\* A terminal checkpoint stays with the call that holds it.
LEMMA TerminalStep ==
    ASSUME TypeOK, Tracked, TerminalHeld, [Next]_vars
    PROVE  TerminalHeld'
<1>1. mem \in Checkpoint /\ disk \in Checkpoint /\ mem.job \in Nat
  BY DEF TypeOK, Checkpoint
<1>2. \A phase \in {"submitting", "rejected", "retry_pending"} :
        AtPhase(phase) \in Checkpoint /\ AtPhase(phase).phase = phase
  BY <1>1, AtPhaseType DEF Phase
<1>3. ASSUME Leave, UNCHANGED disk \/ disk'.phase # "terminal"
      PROVE  TerminalHeld'
  BY <1>3 DEF Leave, NoCheckpoint, TerminalHeld
<1>4. ASSUME NEW job \in Nat, RetryWaitOrLeave(job)
      PROVE  TerminalHeld'
  <2>1. CASE RetryWait(job)
    BY <2>1, RetryWaitFields DEF TerminalHeld
  <2> QED
    BY <1>3, <1>4, <2>1 DEF RetryWaitOrLeave
<1>5. CASE Begin
  <2>1. /\ mem'.phase = disk.phase /\ mem'.outcome = disk.outcome
        /\ mem'.infra = disk.infra /\ mem'.device = disk.device
    BY <1>1, <1>5 DEF Begin, Checkpoint
  <2>2. pc = "idle" /\ pc' = "loop" /\ disk' = disk /\ expired' = expired
    BY <1>5 DEF Begin
  <2>3. ~expired
    BY <2>2, Zenon DEF TerminalHeld
  <2>4. ~expired'
    BY <2>2, <2>3, Zenon
  <2> QED
    BY <2>1, <2>2, <2>4 DEF TerminalHeld
<1>6. CASE BeginUnconfirmed
  <2>1. [disk EXCEPT !.phase = "retry_pending", !.job = 0].phase = "retry_pending"
    BY <1>1 DEF Checkpoint
  <2>2. CASE mem' = [disk EXCEPT !.phase = "retry_pending", !.job = 0]
             /\ disk' = mem' /\ pc' = "loop"
    BY <2>1, <2>2 DEF TerminalHeld
  <2>3. CASE UNCHANGED <<mem, disk, pc>>
    BY <1>6, <2>3 DEF BeginUnconfirmed, TerminalHeld
  <2> QED
    BY <1>6, <2>2, <2>3 DEF BeginUnconfirmed
<1>7. CASE DeadlineReached \/ CollectMissing \/ CollectNothing
  BY <1>1, <1>4, <1>7 DEF DeadlineReached, CollectMissing, CollectNothing
<1>8. CASE CollectFails
  BY <1>1, <1>3, <1>4, <1>8 DEF CollectFails
<1>9. CASE ReuseSaved
  BY <1>9 DEF ReuseSaved, TerminalHeld
<1>10. CASE AnnounceSubmission
  BY <1>2, <1>10 DEF AnnounceSubmission, TerminalHeld
<1>11. CASE SubmitAdmitted \/ SubmitRefused \/ SubmitDelayed
  BY <1>11 DEF SubmitAdmitted, SubmitRefused, SubmitDelayed, TerminalHeld
<1>12. CASE SaveAccepted
  <2>1. mem'.phase = "accepted"
    BY <1>1, <1>12 DEF SaveAccepted, Checkpoint
  <2> QED
    BY <1>12, <2>1 DEF SaveAccepted, TerminalHeld
<1>13. CASE SaveUncertain
  <2>1. disk'.phase = "submitting"
    BY <1>2, <1>13 DEF SaveUncertain
  <2> QED
    BY <1>3, <1>13, <2>1 DEF SaveUncertain, TerminalHeld
<1>14. CASE SaveRejected
  <2>1. disk'.phase = "rejected"
    BY <1>2, <1>14 DEF SaveRejected
  <2>2. CASE Leave
    BY <1>3, <2>1, <2>2
  <2>3. CASE mem' = AtPhase("rejected") /\ pc' = "resubmit"
    BY <1>2, <2>1, <2>3 DEF TerminalHeld
  <2> QED
    BY <1>14, <2>2, <2>3 DEF SaveRejected
<1>15. CASE Collect
  BY <1>15 DEF Collect, TerminalHeld
<1>16. CASE SaveTerminal
  <2>1. disk' = mem' /\ pc' = "classify" /\ mem'.phase = "terminal"
    BY <1>1, <1>16 DEF SaveTerminal, Checkpoint
  <2> QED
    BY <2>1 DEF TerminalHeld
<1>17. CASE Decide \/ NoTimeToResubmit \/ Crash
  BY <1>3, <1>17 DEF Decide, NoTimeToResubmit, Crash
<1>18. CASE Replace
  <2>1. /\ mem'.phase = mem.phase /\ mem'.outcome = mem.outcome
        /\ mem'.infra = mem.infra /\ mem'.device = mem.device
    BY <1>1, <1>18 DEF Replace, Checkpoint
  <2>2. Retryable(mem')
    BY <1>18, <2>1 DEF Replace, Retryable
  <2> QED
    BY <1>18, <2>1, <2>2 DEF Replace, TerminalHeld
<1>19. CASE Resubmit
  <2>1. mem'.phase = "retry_pending" /\ disk' = mem' /\ pc' = "sleep"
    BY <1>2, <1>19 DEF Resubmit, Checkpoint
  <2> QED
    BY <2>1 DEF TerminalHeld
<1>20. CASE Wake
  BY <1>20 DEF Wake, TerminalHeld
<1>21. CASE Expire
  BY <1>21 DEF Expire, TerminalHeld
<1>22. CASE LateArrival \/ JobEnds \/ JobForgotten \/ UNCHANGED vars
  <2>1. UNCHANGED <<disk, mem, pc, expired>>
    BY <1>22 DEF LateArrival, JobEnds, JobForgotten, local, vars
  <2> QED
    BY <2>1 DEF TerminalHeld, Retryable
<1> QED
  BY <1>5, <1>6, <1>7, <1>8, <1>9, <1>10, <1>11, <1>12, <1>13, <1>14, <1>15, <1>16,
     <1>17, <1>18, <1>19, <1>20, <1>21, <1>22
     DEF Next, Call, Submission, Collection, Environment

-----------------------------------------------------------------------------
(* The theorems *)

\* A first call finds neither a checkpoint nor a job.
LEMMA InitialInvariant ==
    ASSUME Init
    PROVE  IInv
<1>1. NoCheckpoint \in Checkpoint
  BY DEF NoCheckpoint, NoKey, Checkpoint, Phase, Status, Key
<1>2. TypeOK
  <2>1. NoReply \in Reply /\ "idle" \in Location
    BY DEF NoReply, Reply, Location
  <2>2. <<>> \in Seq(Job)
    OBVIOUS
  <2> QED
    BY <1>1, <2>1, <2>2 DEF Init, TypeOK
<1>3. Tracked /\ KeysKnown /\ TerminalHeld
  BY DEF Init, UnderWay, Tracked, Faithful, KeysKnown, GoodKey, TerminalHeld, NoCheckpoint, NoReply,
         NoKey
<1> QED
  BY <1>2, <1>3 DEF IInv

\* The strengthened invariant holds of every reachable state.
LEMMA Invariant == Spec => []IInv
<1>1. Init => IInv
  BY InitialInvariant
<1>2. IInv /\ [Next]_vars => IInv'
  BY TypeStep, TrackedStep, KeysStep, TerminalStep DEF IInv
<1> QED
  BY <1>1, <1>2, PTL DEF Spec

\* Checkpoint, memory, Gateway and wire keep their types over any number of
\* calls, deaths and replacements of execute_job.
THEOREM TypeCorrect == Spec => []TypeOK
<1>1. IInv => TypeOK
  BY DEF IInv
<1> QED
  BY <1>1, Invariant, PTL

\* execute_job replaces a job as failed only if it failed that way: a job that
\* was cancelled, judged the candidate or still runs never gets a failure
\* replacement, whatever was lost, late or repeated.
THEOREM ReplacementsAreJustified == Spec => []KnownOutcome
<1>1. IInv => KnownOutcome
  BY DEF IInv, KeysKnown, GoodKey, KnownOutcome, Jobs
<1> QED
  BY <1>1, Invariant, PTL

\* Once a verdict is saved as a terminal checkpoint, no call of execute_job
\* rewrites it, submits again or polls again.
THEOREM VerdictIsFinal == Spec => DecidedIsFinal
<1>1. ASSUME IInv, [Next]_vars, disk.phase = "terminal", ~Retryable(disk)
      PROVE  disk' = disk /\ pc' \notin {"submit", "poll"}
  <2>1. disk \in Checkpoint /\ TerminalHeld /\ Tracked
    BY <1>1 DEF IInv, TypeOK
  <2>2. CASE pc = "idle"
    BY <1>1, <2>2 DEF Next, Call, Submission, Collection, Environment, vars, local, Begin,
       BeginUnconfirmed, DeadlineReached, ReuseSaved, AnnounceSubmission,
       SubmitAdmitted, SubmitRefused, SubmitDelayed, SaveAccepted, SaveUncertain,
       SaveRejected, Collect, CollectMissing, CollectNothing, CollectFails,
       SaveTerminal, Decide, Replace, Resubmit, NoTimeToResubmit, Wake, Expire,
       Crash, LateArrival, JobEnds, JobForgotten
  <2>3. CASE pc # "idle"
    <3>1. /\ pc \in {"loop", "classify"} /\ mem.phase = "terminal"
          /\ pc = "loop" => ~expired
      BY <1>1, <2>1, <2>3 DEF TerminalHeld, Retryable
    <3> QED
      BY <1>1, <3>1 DEF Next, Call, Submission, Collection, Environment, vars, local, Leave,
         Begin, BeginUnconfirmed, DeadlineReached, ReuseSaved, AnnounceSubmission,
         SubmitAdmitted, SubmitRefused, SubmitDelayed, SaveAccepted, SaveUncertain,
         SaveRejected, Collect, CollectMissing, CollectNothing, CollectFails,
         SaveTerminal, Decide, Replace, Resubmit, NoTimeToResubmit, Wake, Expire,
         Crash, LateArrival, JobEnds, JobForgotten
  <2> QED
    BY <2>2, <2>3
<1>2. IInv /\ [Next]_vars =>
        [disk.phase = "terminal" /\ ~Retryable(disk) =>
           disk' = disk /\ pc' \notin {"submit", "poll"}]_vars
  BY <1>1
<1> QED
  BY <1>2, Invariant, PTL DEF Spec, DecidedIsFinal

-----------------------------------------------------------------------------
(* Where a live job is accounted for                                       *)
(*                                                                         *)
(* With a wire key the jobs of an identity are told apart by their keys.   *)
(* The call that runs works on the checkpoint's job and under its key      *)
(* (Held); a key finds one job, and a request still under way carries a    *)
(* key that is known, current or superseded (Wire).                        *)

\* A key that a wait window made of another one.
Supersedes(new, old) == [new EXCEPT !.waits = old.waits] = old /\ new.waits > old.waits

\* The keys that can still be seen: GivenUp looks for a job among them.
Keys == {disk.key} \cup {jobs[k].key : k \in Jobs} \cup UnderWay

\* What the call holds is what the checkpoint says, but for a key that it has
\* not announced yet.
Held ==
    /\ pc # "idle" =>
         /\ mem.key # NoKey /\ disk.job = mem.job
         /\ \/ disk.key = mem.key
            \/ pc = "loop" /\ disk.key = NoKey
            \/ pc = "resubmit" /\ mem.phase = "terminal"
    /\ disk.job # 0 => disk.phase \in {"accepted", "terminal"} /\ jobs[disk.job].key = disk.key
    /\ mem.job # 0 => mem.phase \in {"accepted", "terminal"}
    /\ pc \in {"submit", "replied", "sleep"} => mem.job = 0
    /\ pc = "resubmit" => mem.phase \in {"rejected", "terminal"}
    /\ reply.kind = "job" => jobs[reply.job].key = mem.key /\ pc = "replied"

Wire ==
    /\ \A i, j \in Jobs : jobs[i].key = jobs[j].key => i = j
    /\ NoKey \notin UnderWay /\ \A j \in Jobs : jobs[j].key # NoKey
    /\ disk.key = NoKey => jobs = <<>> /\ UnderWay = {}
    /\ \A key \in UnderWay :
         Known(key) # {} \/ key = disk.key \/ \E other \in Keys : Supersedes(other, key)

\* With a wire key admission finds the one job of the key or makes it.
LEMMA AdmissionByKey ==
    ASSUME Idempotent, TypeOK, NEW key \in Key, Admit(key),
           \A i, j \in Jobs : jobs[i].key = jobs[j].key => i = j
    PROVE  /\ \A i, j \in DOMAIN jobs' : jobs'[i].key = jobs'[j].key => i = j
           /\ \A j \in DOMAIN jobs' \ DOMAIN jobs : jobs'[j].key = key /\ Known(key) = {}
           /\ jobs'[AdmittedJob(key)].key = key
           /\ \E j \in DOMAIN jobs' : jobs'[j].key = key
<1>1. /\ jobs \in Seq(Job) /\ jobs' \in Seq(Job) /\ AdmittedJob(key) \in DOMAIN jobs'
      /\ \A j \in DOMAIN jobs : jobs'[j] = jobs[j]
      /\ \A j \in DOMAIN jobs' \ DOMAIN jobs : jobs'[j].key = key
  BY Admission DEF TypeOK
<1>2. CASE Known(key) = {}
  <2>1. \A j \in DOMAIN jobs : jobs[j].key # key
    BY <1>2 DEF Known, Jobs
  <2>2. DOMAIN jobs' = DOMAIN jobs \cup {Len(jobs) + 1} /\ AdmittedJob(key) = Len(jobs) + 1
        /\ Len(jobs) + 1 \notin DOMAIN jobs
    BY <1>1, <1>2 DEF Admit, AdmittedJob
  <2> QED BY <1>1, <1>2, <2>1, <2>2 DEF Jobs
<1>3. CASE Known(key) # {}
  <2>1. AdmittedJob(key) \in Known(key) /\ jobs' = jobs
    BY <1>3 DEF AdmittedJob, Admit
  <2> QED BY <2>1 DEF Known, Jobs
<1> QED BY <1>2, <1>3

\* The key of the next wait window, with a wire key.
LEMMA NextWaitKey ==
    ASSUME Idempotent, TypeOK, NEW job \in Nat
    PROVE  /\ WaitKey(job) \in Key /\ (mem.key # NoKey => WaitKey(job) # NoKey)
           /\ job # 0 => WaitKey(job).kind = "wait" /\ WaitKey(job).of = job
           /\ job = 0 => Supersedes(WaitKey(job), mem.key)
<1>1. mem.key \in Key
  BY DEF TypeOK, Checkpoint
<1>2. CASE job # 0
  BY <1>2, WaitKeyType DEF WaitKey, ReplacementKey, NoKey
<1>3. CASE job = 0
  <2>1. WaitKey(job) = [mem.key EXCEPT !.waits = mem.key.waits + 1]
    BY <1>3 DEF WaitKey
  <2>2. mem.key.waits \in Nat /\ WaitKey(job).waits = mem.key.waits + 1
    BY <1>1, <2>1 DEF Key
  <2>3. [WaitKey(job) EXCEPT !.waits = mem.key.waits] = mem.key
    BY <1>1, <2>1 DEF Key
  <2>4. WaitKey(job) # NoKey
    BY <2>2 DEF NoKey
  <2> QED BY <1>3, <2>2, <2>3, <2>4, WaitKeyType DEF Supersedes
<1> QED BY <1>2, <1>3

\* A call that ended holds nothing.
LEMMA LeaveHeld ==
    ASSUME Held, Leave, UNCHANGED <<jobs>>, UNCHANGED disk
    PROVE  Held'
BY DEF Leave, Held, NoCheckpoint, NoReply

\* A job of the Gateway keeps its key.
LEMMA JobKeyKept ==
    ASSUME TypeOK, [Next]_vars, NEW j \in Jobs
    PROVE  j \in Jobs' /\ jobs'[j].key = jobs[j].key
BY GatewayStep DEF JobsKept, Jobs

\* The call stays with the checkpoint's job and key.
LEMMA HeldStep ==
    ASSUME Idempotent, IInv, Held, Wire, [Next]_vars
    PROVE  Held'
<1> USE DEF IInv
<1>1. /\ TypeOK /\ Tracked /\ TerminalHeld
      /\ mem \in Checkpoint /\ disk \in Checkpoint /\ mem.job \in Nat /\ mem.key \in Key
      /\ UnderWay \subseteq Key /\ invocations \in Nat
  BY UnderWayType DEF TypeOK, Checkpoint
<1>2. /\ disk.job # 0 => disk.job \in Jobs /\ jobs'[disk.job].key = jobs[disk.job].key
      /\ reply.kind = "job" => reply.job \in Jobs /\ jobs'[reply.job].key = jobs[reply.job].key
  BY <1>1, JobKeyKept DEF Tracked, Faithful, Jobs
<1>3. \A phase \in {"submitting", "rejected", "retry_pending"} :
        /\ AtPhase(phase) \in Checkpoint /\ AtPhase(phase).key = mem.key
        /\ AtPhase(phase).phase = phase /\ AtPhase(phase).job = 0
  BY <1>1, AtPhaseType DEF Phase
<1>4. ASSUME Leave, disk'.key = disk.key, disk'.job = 0 \/ UNCHANGED disk
      PROVE  Held'
  BY <1>2, <1>4 DEF Leave, Held, NoCheckpoint, NoReply
<1>5. ASSUME NEW job \in Nat, RetryWaitOrLeave(job), pc \in {"loop", "poll"}
      PROVE  Held'
  <2>1. CASE RetryWait(job)
    <3>1. /\ disk' = mem' /\ pc' = "loop" /\ reply' = reply
          /\ mem'.job = 0 /\ mem'.key = WaitKey(job) /\ WaitKey(job) # NoKey
      BY <1>1, <1>5, <2>1, RetryWaitFields, NextWaitKey DEF Held
    <3>2. reply.kind # "job"
      BY <1>5 DEF Held
    <3> QED BY <3>1, <3>2 DEF Held
  <2> QED BY <1>4, <1>5, <2>1 DEF RetryWaitOrLeave
<1>6. CASE Begin
  <2>1. /\ mem'.job = disk.job /\ mem'.phase = disk.phase /\ mem'.key # NoKey
        /\ mem'.key = disk.key \/ disk.key = NoKey
    BY <1>1, <1>6 DEF Begin, Checkpoint, FreshKey, NoKey
  <2>2. pc = "idle" /\ pc' = "loop" /\ UNCHANGED <<disk, reply, jobs>>
    BY <1>6 DEF Begin, gateway
  <2> QED BY <2>1, <2>2 DEF Held
<1>7. CASE DeadlineReached \/ CollectMissing \/ CollectNothing
  BY <1>1, <1>5, <1>7 DEF DeadlineReached, CollectMissing, CollectNothing
<1>8. CASE CollectFails \/ Decide \/ NoTimeToResubmit \/ Crash
  BY <1>4, <1>8 DEF CollectFails, Decide, NoTimeToResubmit, Crash
<1>9. CASE ReuseSaved \/ SubmitRefused \/ SubmitDelayed \/ Collect \/ Expire \/ Wake
  <2>1. UNCHANGED <<disk, mem, jobs>>
    BY <1>9 DEF ReuseSaved, SubmitRefused, SubmitDelayed, Collect, Expire, Wake, gateway
  <2>2. CASE SubmitRefused \/ SubmitDelayed
    BY <2>1, <2>2 DEF SubmitRefused, SubmitDelayed, Replied, Held
  <2>3. CASE ReuseSaved \/ Collect \/ Expire \/ Wake
    <3>1. UNCHANGED reply
      BY <2>3 DEF ReuseSaved, Collect, Expire, Wake
    <3>2. CASE ReuseSaved
      <4>1. disk.job # 0 /\ disk.job \in Jobs /\ pc = "loop" /\ pc' \in {"poll", "classify"}
        BY <1>1, <1>2, <3>2 DEF ReuseSaved, Tracked, Faithful, Held
      <4>2. disk.key # NoKey
        BY <4>1 DEF Held, Wire
      <4> QED BY <2>1, <3>1, <4>1, <4>2 DEF Held
    <3>3. CASE Collect \/ Expire \/ Wake
      BY <2>1, <3>1, <3>3 DEF Collect, Expire, Wake, Held
    <3> QED BY <2>3, <3>2, <3>3
  <2> QED BY <1>9, <2>2, <2>3
<1>10. CASE AnnounceSubmission
  BY <1>3, <1>10 DEF AnnounceSubmission, gateway, Held
<1>11. CASE SubmitAdmitted
  <2>1. jobs'[AdmittedJob(mem.key)].key = mem.key
    BY <1>1, <1>11, AdmissionByKey DEF SubmitAdmitted, Wire
  <2>2. /\ pc = "submit" /\ pc' = "replied" /\ UNCHANGED <<disk, mem>>
        /\ reply'.kind = "job" => reply'.job = AdmittedJob(mem.key)
    BY <1>11 DEF SubmitAdmitted, Replied
  <2> QED BY <1>2, <2>1, <2>2 DEF Held
<1>12. CASE SaveAccepted
  <2>1. /\ disk' = mem' /\ mem'.job = reply.job /\ mem'.key = mem.key /\ mem'.phase = "accepted"
        /\ pc = "replied" /\ pc' = "poll" /\ reply'.kind # "job" /\ reply.kind = "job" /\ jobs' = jobs
    BY <1>1, <1>12 DEF SaveAccepted, Checkpoint, NoReply, gateway
  <2> QED BY <2>1 DEF Held
<1>13. CASE SaveUncertain
  <2>1. disk'.key = mem.key /\ disk'.job = 0 /\ pc = "replied" /\ disk.key = mem.key
    BY <1>3, <1>13 DEF SaveUncertain, Held
  <2>2. CASE Leave
    BY <1>4, <2>1, <2>2
  <2>3. CASE pc' = "sleep" /\ reply' = NoReply /\ UNCHANGED mem
    BY <2>1, <2>3 DEF Held, NoReply
  <2> QED BY <1>13, <2>2, <2>3 DEF SaveUncertain
<1>14. CASE SaveRejected
  <2>1. /\ disk' = AtPhase("rejected") /\ disk'.key = mem.key /\ disk'.job = 0 /\ pc = "replied"
        /\ disk.key = mem.key /\ disk'.phase = "rejected"
    BY <1>3, <1>14 DEF SaveRejected, Held
  <2>2. CASE Leave
    BY <1>4, <2>1, <2>2
  <2>3. CASE pc' = "resubmit" /\ reply' = NoReply /\ mem' = AtPhase("rejected")
    BY <2>1, <2>3 DEF Held, NoReply
  <2> QED BY <1>14, <2>2, <2>3 DEF SaveRejected
<1>15. CASE SaveTerminal
  <2>1. /\ disk' = mem' /\ mem'.job = mem.job /\ mem'.key = mem.key /\ mem'.phase = "terminal"
        /\ pc = "collected" /\ pc' = "classify" /\ UNCHANGED <<jobs, reply>>
    BY <1>1, <1>15 DEF SaveTerminal, Checkpoint, gateway
  <2> QED BY <2>1 DEF Held
<1>16. CASE Replace
  <2>1. mem.phase = "terminal" /\ mem.outcome \in {"infra", "device"}
    BY <1>16 DEF Replace, Retryable, Tracked
  <2>2. /\ mem'.job = mem.job /\ mem'.phase = mem.phase /\ mem'.key # NoKey
        /\ pc = "classify" /\ pc' = "resubmit" /\ UNCHANGED <<disk, jobs, reply>>
    BY <1>1, <1>16, <2>1 DEF Replace, Checkpoint, gateway, ReplacementKey, NoKey
  <2> QED BY <2>1, <2>2 DEF Held
<1>17. CASE Resubmit
  <2>1. /\ mem'.key = mem.key /\ mem'.job = 0 /\ disk' = mem' /\ pc' = "sleep"
        /\ UNCHANGED <<jobs, reply>> /\ pc = "resubmit"
    BY <1>3, <1>17 DEF Resubmit, Checkpoint, gateway
  <2> QED BY <2>1 DEF Held
<1>18. CASE LateArrival \/ JobEnds \/ JobForgotten \/ UNCHANGED vars
  <2>1. UNCHANGED <<disk, mem, pc, reply>>
    BY <1>18 DEF LateArrival, JobEnds, JobForgotten, local, vars
  <2> QED BY <1>2, <2>1 DEF Held
<1> QED
  BY <1>6, <1>7, <1>8, <1>9, <1>10, <1>11, <1>12, <1>13, <1>14, <1>15, <1>16, <1>17, <1>18
     DEF Next, Call, Submission, Collection, Environment, BeginUnconfirmed

\* How the checkpoint comes to name another key or another job.
LEMMA CheckpointMoves ==
    ASSUME Idempotent, IInv, Held, Wire, [Next]_vars
    PROVE  \/ disk'.key = disk.key /\ (disk.job = 0 \/ disk'.job = disk.job)
           \/ disk.key = NoKey /\ disk'.key # NoKey /\ UNCHANGED <<jobs, late>>
           \/ /\ disk.job # 0 /\ jobs[disk.job].key = disk.key /\ UNCHANGED <<jobs, late>>
              /\ disk'.key # NoKey
              /\ \/ disk'.key.kind = "wait" /\ disk'.key.of = disk.job
                 \/ jobs[disk.job].status # "live"
           \/ disk.job = 0 /\ Supersedes(disk'.key, disk.key) /\ disk'.key # NoKey /\ UNCHANGED <<jobs, late>>
<1> USE DEF IInv
<1>1. /\ TypeOK /\ Tracked /\ mem \in Checkpoint /\ disk \in Checkpoint /\ mem.job \in Nat
  BY DEF TypeOK, Checkpoint
<1>2. \A phase \in {"submitting", "rejected", "retry_pending"} :
        AtPhase(phase) \in Checkpoint /\ AtPhase(phase).key = mem.key
  BY <1>1, AtPhaseType DEF Phase
<1>3. CASE RetryWait(mem.job) /\ pc \in {"loop", "poll"} /\ UNCHANGED <<jobs, late>>
  <2>1. disk'.key = WaitKey(mem.job) /\ mem.job = disk.job /\ mem.key # NoKey
    BY <1>1, <1>3, RetryWaitFields DEF Held
  <2>2. CASE disk.key = NoKey
    BY <1>1, <1>3, <2>1, <2>2, NextWaitKey
  <2>3. CASE disk.key # NoKey
    <3>1. disk.key = mem.key
      BY <1>3, <2>3 DEF Held
    <3> QED BY <1>1, <1>3, <2>1, <3>1, NextWaitKey DEF Held
  <2> QED BY <2>2, <2>3
<1>4. CASE AnnounceSubmission
  <2>1. disk'.key = mem.key /\ mem.job = 0 /\ disk.job = mem.job /\ mem.key # NoKey
    BY <1>2, <1>4 DEF AnnounceSubmission, Held
  <2>2. disk.key = mem.key \/ disk.key = NoKey
    BY <1>4 DEF AnnounceSubmission, Held
  <2> QED BY <1>4, <2>1, <2>2 DEF AnnounceSubmission, gateway
<1>5. CASE SaveAccepted \/ SaveUncertain \/ SaveRejected
  <2>1. disk'.key = mem.key
    BY <1>1, <1>2, <1>5 DEF SaveAccepted, SaveUncertain, SaveRejected, Checkpoint
  <2>2. pc = "replied" /\ disk.key = mem.key /\ disk.job = 0
    BY <1>5 DEF SaveAccepted, SaveUncertain, SaveRejected, Held
  <2> QED BY <2>1, <2>2
<1>6. CASE SaveTerminal
  <2>1. disk'.key = mem.key /\ disk'.job = mem.job
    BY <1>1, <1>6 DEF SaveTerminal, Checkpoint
  <2> QED BY <1>6, <2>1 DEF SaveTerminal, Held
<1>7. CASE Resubmit
  <2>1. disk'.key = mem.key /\ pc = "resubmit" /\ mem.key # NoKey /\ disk.job = mem.job
    BY <1>2, <1>7 DEF Resubmit, Checkpoint, Held
  <2>2. CASE mem.phase = "terminal"
    <3>1. mem.job # 0 /\ jobs[mem.job].status # "live"
      BY <1>1, <2>2 DEF Tracked, Faithful
    <3> QED BY <1>7, <2>1, <3>1 DEF Held, Resubmit, gateway
  <2>3. CASE mem.phase # "terminal"
    <3>1. mem.phase = "rejected" /\ mem.job = 0 /\ disk.key = mem.key
      BY <2>1, <2>3 DEF Held
    <3> QED BY <2>1, <3>1
  <2> QED BY <2>2, <2>3
<1>8. CASE UNCHANGED disk
  BY <1>8
<1>9. \/ RetryWait(mem.job) /\ pc \in {"loop", "poll"} /\ UNCHANGED <<jobs, late>>
      \/ AnnounceSubmission \/ SaveAccepted \/ SaveUncertain \/ SaveRejected \/ SaveTerminal
      \/ Resubmit \/ UNCHANGED disk
  BY DEF Next, Call, Submission, Collection, Environment, vars, gateway, Begin,
         BeginUnconfirmed, DeadlineReached, ReuseSaved, RetryWaitOrLeave,
         SubmitAdmitted, SubmitRefused, SubmitDelayed,
         Collect, CollectMissing, CollectNothing, CollectFails, Decide,
         Replace, NoTimeToResubmit, Wake, Expire, Crash, LateArrival, JobEnds, JobForgotten
<1> QED BY <1>3, <1>4, <1>5, <1>6, <1>7, <1>8, <1>9

\* A key that can be seen stays, or one that supersedes it can be seen.
LEMMA KeysStay ==
    ASSUME Idempotent, IInv, Held, Wire, [Next]_vars, NEW key \in Keys, key # NoKey
    PROVE  \E other \in Keys' : other = key \/ Supersedes(other, key)
<1> USE DEF IInv
<1>1. \A j \in Jobs : j \in Jobs' /\ jobs'[j].key = jobs[j].key
  BY JobKeyKept
<1>2. CASE \E j \in Jobs : key = jobs[j].key
  BY <1>1, <1>2 DEF Keys
<1>3. CASE key = disk.key
  <2>1. disk.job # 0 => disk.job \in Jobs
    BY DEF Tracked, Faithful, Jobs
  <2> QED BY <1>1, <1>2, <1>3, <2>1, CheckpointMoves DEF Keys
<1>4. CASE key \in UnderWay
  <2>1. CASE key \in UnderWay'
    BY <2>1 DEF Keys
  <2>2. CASE key \notin UnderWay'
    <3>1. Admit(key)
      BY <1>4, <2>2, WireMoves, Arrival, Delay
    <3>2. \E j \in DOMAIN jobs' : jobs'[j].key = key
      BY <1>4, <3>1, AdmissionByKey, UnderWayType DEF Wire
    <3> QED BY <3>2 DEF Keys, Jobs
  <2> QED BY <2>1, <2>2
<1> QED BY <1>2, <1>3, <1>4 DEF Keys

\* To supersede is transitive, and leaves the derivation of a key alone.
LEMMA SupersedesFurther ==
    ASSUME NEW new \in Key, NEW middle \in Key, NEW old \in Key,
           new = middle \/ Supersedes(new, middle)
    PROVE  /\ new.kind = middle.kind /\ new.of = middle.of
           /\ Supersedes(middle, old) => Supersedes(new, old)
BY DEF Supersedes, Key

\* The keys that can be seen are keys.
LEMMA KeysType ==
    /\ TypeOK => Keys \subseteq Key
    /\ TypeOK' => Keys' \subseteq Key
<1>1. ASSUME TypeOK PROVE Keys \subseteq Key
  <2>1. \A j \in Jobs : jobs[j] \in Job
    BY <1>1 DEF TypeOK, Jobs
  <2>2. \A j \in Jobs : jobs[j].key \in Key
    BY <2>1 DEF Job
  <2>3. disk.key \in Key
    BY <1>1 DEF TypeOK, Checkpoint
  <2> QED BY <1>1, <2>2, <2>3, UnderWayType DEF Keys
<1>2. ASSUME TypeOK' PROVE Keys' \subseteq Key
  <2>1. \A j \in Jobs' : jobs'[j] \in Job
    BY <1>2 DEF TypeOK, Jobs
  <2>2. \A j \in Jobs' : jobs'[j].key \in Key
    BY <2>1 DEF Job
  <2>3. disk'.key \in Key
    BY <1>2 DEF TypeOK, Checkpoint
  <2> QED BY <1>2, <2>2, <2>3, UnderWayType DEF Keys
<1> QED BY <1>1, <1>2

\* Keys find one job each, and a new job comes from the wire or from the call.
LEMMA NewJobs ==
    ASSUME Idempotent, IInv, Held, Wire, [Next]_vars
    PROVE  /\ \A i, j \in Jobs' : jobs'[i].key = jobs'[j].key => i = j
           /\ \A j \in Jobs' \ Jobs :
                  jobs'[j].key \in UnderWay \/ (pc = "submit" /\ jobs'[j].key = mem.key)
<1>1. /\ TypeOK /\ mem.key \in Key /\ UnderWay \subseteq Key
      /\ \A j \in Jobs : j \in Jobs' /\ jobs'[j].key = jobs[j].key
  BY JobKeyKept, UnderWayType DEF IInv, TypeOK, Checkpoint
<1>2. CASE SubmitAdmitted
  BY <1>1, <1>2, AdmissionByKey DEF SubmitAdmitted, Wire, Jobs
<1>3. CASE LateArrival
  <2>1. PICK key \in UnderWay : Admit(key)
    BY <1>3, Arrival
  <2> QED BY <1>1, <2>1, AdmissionByKey DEF Wire, Jobs
<1>4. CASE DOMAIN jobs' = DOMAIN jobs
  BY <1>1, <1>4 DEF Wire, Jobs
<1>5. SubmitAdmitted \/ LateArrival \/ DOMAIN jobs' = DOMAIN jobs
  BY DEF Next, Call, Submission, Collection, Environment, vars, gateway, Begin,
         BeginUnconfirmed, DeadlineReached, ReuseSaved, AnnounceSubmission,
         SubmitRefused, SubmitDelayed, SaveAccepted, SaveUncertain, SaveRejected,
         Collect, CollectMissing, CollectNothing, CollectFails, SaveTerminal, Decide,
         Replace, Resubmit, NoTimeToResubmit, Wake, Expire, Crash, JobEnds, JobForgotten
<1> QED BY <1>2, <1>3, <1>4, <1>5

\* Keys find one job each, and no key under way gets lost.
LEMMA WireStep ==
    ASSUME Idempotent, IInv, TypeOK', Held, Wire, [Next]_vars
    PROVE  Wire'
<1> USE DEF IInv
<1>1. /\ TypeOK /\ mem.key \in Key /\ UnderWay \subseteq Key /\ NoKey.kind = "none"
      /\ \A j \in Jobs : j \in Jobs' /\ jobs'[j].key = jobs[j].key
  BY JobKeyKept, UnderWayType DEF TypeOK, Checkpoint, NoKey
<1>2. /\ \A i, j \in Jobs' : jobs'[i].key = jobs'[j].key => i = j
      /\ \A j \in Jobs' \ Jobs :
             jobs'[j].key \in UnderWay \/ (pc = "submit" /\ jobs'[j].key = mem.key)
  BY NewJobs
<1>3. \A key \in UnderWay' : key \in UnderWay \/ (pc = "submit" /\ key = mem.key /\ UNCHANGED <<disk, jobs>>)
  BY WireMoves, Arrival, Delay DEF SubmitDelayed
<1>4. pc = "submit" => mem.key # NoKey /\ mem.key = disk.key
  BY DEF Held
<1>5. NoKey \notin UnderWay' /\ \A j \in Jobs' : jobs'[j].key # NoKey
  BY <1>1, <1>2, <1>3, <1>4 DEF Wire
<1>6. disk'.key = NoKey => jobs' = <<>> /\ UnderWay' = {}
  <2>1. SUFFICES ASSUME disk'.key = NoKey PROVE disk.key = NoKey /\ jobs' = <<>> /\ UnderWay' = {}
    OBVIOUS
  <2>2. disk.key = NoKey
    BY <2>1, CheckpointMoves
  <2>3. jobs = <<>> /\ UnderWay = {} /\ pc # "submit" /\ Jobs = {}
    BY <1>4, <2>2 DEF Wire, Jobs
  <2>4. UnderWay' = {} /\ Jobs' = {}
    BY <1>2, <1>3, <2>3
  <2>5. jobs' \in Seq(Job) /\ Len(jobs') = 0
    BY <2>4 DEF Jobs, TypeOK
  <2> QED BY <2>2, <2>4, <2>5
<1>7. ASSUME NEW key \in UnderWay'
      PROVE  (Known(key) # {} \/ key = disk.key \/ \E other \in Keys : Supersedes(other, key))'
  <2>1. CASE pc = "submit" /\ key = mem.key /\ UNCHANGED <<disk, jobs>>
    BY <1>4, <2>1
  <2>2. CASE key \in UnderWay
    <3>0. key \in Key /\ key # NoKey
      BY <1>1, <2>2 DEF Wire
    <3>1. ASSUME \E j \in Jobs : jobs[j].key = key PROVE Known(key)' # {}
      BY <1>1, <3>1 DEF Known
    <3>2. CASE Known(key) # {}
      BY <3>1, <3>2 DEF Known
    <3>3. CASE key = disk.key
      <4>1. disk.job # 0 => disk.job \in Jobs
        BY DEF Tracked, Faithful, Jobs
      <4>2. \/ disk'.key = key \/ Supersedes(disk'.key, key)
            \/ disk.job # 0 /\ jobs[disk.job].key = key
        BY <3>0, <3>3, CheckpointMoves
      <4>3. CASE disk'.key = key
        BY <4>3
      <4>4. CASE Supersedes(disk'.key, key)
        BY <4>4 DEF Keys, Supersedes
      <4>5. CASE disk.job # 0 /\ jobs[disk.job].key = key
        BY <3>1, <4>1, <4>5
      <4> QED BY <4>2, <4>3, <4>4, <4>5
    <3>4. CASE \E other \in Keys : Supersedes(other, key)
      <4>1. PICK other \in Keys : Supersedes(other, key)
        BY <3>4
      <4>2. other \in Key /\ other # NoKey
        <5>1. other.waits > key.waits /\ other \in Key /\ NoKey.waits = 0 /\ key.waits \in Nat
          BY <3>0, <4>1, KeysType DEF Supersedes, NoKey, Key
        <5> QED BY <5>1
      <4>3. PICK new \in Keys' : new = other \/ Supersedes(new, other)
        BY <4>1, <4>2, KeysStay
      <4>4. new \in Key
        BY <4>3, KeysType
      <4>5. Supersedes(new, key)
        BY <3>0, <4>1, <4>2, <4>3, <4>4, SupersedesFurther
      <4> QED BY <4>3, <4>5 DEF Supersedes
    <3> QED BY <2>2, <3>2, <3>3, <3>4 DEF Wire
  <2> QED BY <1>3, <2>1, <2>2
<1> QED BY <1>2, <1>5, <1>6, <1>7 DEF Wire

\* A live job stays accounted for.
LEMMA AccountedStep ==
    ASSUME Idempotent, IInv, IInv', Held, Wire, LiveJobsAccounted, [Next]_vars
    PROVE  LiveJobsAccounted'
<1> USE DEF IInv
<1>1. /\ TypeOK /\ TypeOK' /\ mem.key \in Key /\ UnderWay \subseteq Key
      /\ \A j \in Jobs : j \in Jobs' /\ jobs'[j].key = jobs[j].key
  BY JobKeyKept, UnderWayType DEF TypeOK, Checkpoint
<1>2. ASSUME NEW j \in Jobs', jobs'[j].status = "live"
      PROVE  (disk.job = j \/ disk.key = jobs[j].key \/ GivenUp(j))'
  <2>0. jobs'[j].key \in Key
    <3>1. jobs' \in Seq(Job)
      BY <1>1 DEF TypeOK
    <3>2. jobs'[j] \in Job
      BY <1>2, <3>1 DEF Jobs
    <3> QED BY <3>2 DEF Job
  <2>1. ASSUME NEW key \in Keys, key # NoKey,
               \/ key.kind = "wait" /\ key.of = j
               \/ Supersedes(key, jobs'[j].key)
        PROVE  GivenUp(j)'
    <3>1. PICK new \in Keys' : new = key \/ Supersedes(new, key)
      BY <2>1, KeysStay
    <3>2. key \in Key /\ new \in Key
      BY <1>1, <2>1, <3>1, KeysType
    <3>3. \/ new.kind = "wait" /\ new.of = j
          \/ Supersedes(new, jobs'[j].key)
      BY <2>0, <2>1, <3>1, <3>2, SupersedesFurther
    <3> QED BY <3>1, <3>3 DEF GivenUp, Keys, Supersedes
  <2>2. CASE j \notin Jobs
    <3>1. CASE SubmitAdmitted
      <4>1. jobs'[j].key = mem.key /\ disk'.key = disk.key /\ disk.key = mem.key
        BY <1>1, <1>2, <2>2, <3>1, AdmissionByKey DEF SubmitAdmitted, Wire, Jobs, Held
      <4> QED BY <4>1
    <3>2. CASE LateArrival
      <4>1. PICK key \in UnderWay : Admit(key) /\ UNCHANGED disk
        BY <3>2, Arrival
      <4>2. jobs'[j].key = key /\ Known(key) = {} /\ key \in Key /\ key # NoKey
        BY <1>1, <1>2, <2>2, <4>1, AdmissionByKey DEF Wire, Jobs
      <4>3. key = disk.key \/ \E other \in Keys : Supersedes(other, key)
        BY <4>2 DEF Wire
      <4>4. CASE key = disk.key
        BY <4>1, <4>2, <4>4
      <4>5. ASSUME NEW other \in Keys, Supersedes(other, key) PROVE GivenUp(j)'
        <5>1. other \in Key /\ other.waits > key.waits /\ NoKey.waits = 0 /\ key.waits \in Nat
          BY <1>1, <4>2, <4>5, KeysType DEF Supersedes, NoKey, Key
        <5> QED BY <2>1, <4>2, <4>5, <5>1
      <4> QED BY <4>3, <4>4, <4>5
    <3>3. CASE DOMAIN jobs' = DOMAIN jobs
      BY <1>2, <2>2, <3>3 DEF Jobs
    <3>4. SubmitAdmitted \/ LateArrival \/ DOMAIN jobs' = DOMAIN jobs
      BY DEF Next, Call, Submission, Collection, Environment, vars, gateway, Begin,
             BeginUnconfirmed, DeadlineReached, ReuseSaved, AnnounceSubmission,
             SubmitRefused, SubmitDelayed, SaveAccepted, SaveUncertain, SaveRejected,
             Collect, CollectMissing, CollectNothing, CollectFails, SaveTerminal, Decide,
             Replace, Resubmit, NoTimeToResubmit, Wake, Expire, Crash, JobEnds, JobForgotten
    <3> QED BY <3>1, <3>2, <3>3, <3>4
  <2>3. CASE j \in Jobs
    <3>0. /\ jobs[j].status = "live" /\ jobs'[j].key = jobs[j].key /\ jobs[j].key # NoKey
          /\ jobs[j].key \in Key /\ disk.key # NoKey
      <4>1. jobs[j].status = "live" /\ jobs'[j].key = jobs[j].key
        BY <1>1, <1>2, <2>3, GatewayStep DEF JobsKept, Jobs
      <4>2. jobs # <<>>
        BY <2>3 DEF Jobs
      <4> QED BY <2>0, <2>3, <4>1, <4>2 DEF Wire
    <3>1. CASE disk.job = j
      <4>0. j # 0 /\ disk.key = jobs[j].key
        <5>1. j # 0
          BY <1>1, <2>3 DEF Jobs, TypeOK
        <5> QED BY <3>1, <5>1 DEF Held
      <4>1. CASE disk'.key = disk.key
        BY <3>0, <4>0, <4>1
      <4>2. CASE disk'.key # disk.key
        <5>1. disk'.key.kind = "wait" /\ disk'.key.of = j
          BY <3>0, <3>1, <4>0, <4>2, CheckpointMoves
        <5> QED BY <5>1 DEF GivenUp
      <4> QED BY <4>1, <4>2
    <3>2. CASE disk.key = jobs[j].key
      <4>1. CASE disk'.key = disk.key
        BY <3>0, <3>2, <4>1
      <4>2. CASE Supersedes(disk'.key, disk.key)
        <5>1. Supersedes(disk'.key, jobs'[j].key)
          BY <3>0, <3>2, <4>2
        <5> QED BY <5>1 DEF GivenUp, Supersedes
      <4>3. CASE /\ disk.job # 0 /\ jobs[disk.job].key = disk.key
                 /\ \/ disk'.key.kind = "wait" /\ disk'.key.of = disk.job
                    \/ jobs[disk.job].status # "live"
        <5>1. disk.job \in Jobs
          BY <4>3 DEF Tracked, Faithful, Jobs
        <5>2. disk.job = j
          BY <2>3, <3>2, <4>3, <5>1 DEF Wire
        <5> QED BY <3>1, <5>2
      <4> QED BY <3>0, <4>1, <4>2, <4>3, CheckpointMoves
    <3>3. CASE GivenUp(j)
      <4>1. PICK key \in Keys : \/ key.kind = "wait" /\ key.of = j
                                \/ Supersedes(key, jobs[j].key)
        BY <3>3 DEF GivenUp, Keys, Supersedes
      <4>2. key # NoKey
        <5>1. /\ NoKey.waits = 0 /\ NoKey.kind = "none" /\ jobs[j].key.waits \in Nat
          BY <3>0 DEF NoKey, Key
        <5> QED BY <4>1, <5>1 DEF Supersedes
      <4> QED BY <2>1, <3>0, <4>1, <4>2
    <3> QED BY <2>3, <3>0, <3>1, <3>2, <3>3 DEF LiveJobsAccounted
  <2> QED BY <2>2, <2>3
<1> QED BY <1>2 DEF LiveJobsAccounted

\* With a wire key it all holds always.
LEMMA AccountsAlways ==
    ASSUME Idempotent
    PROVE  Spec => [](Held /\ Wire /\ LiveJobsAccounted)
<1>1. Init => Held /\ Wire /\ LiveJobsAccounted
  <2> SUFFICES ASSUME Init PROVE Held /\ Wire /\ LiveJobsAccounted
    OBVIOUS
  <2>1. Jobs = {}
    BY DEF Init, Jobs
  <2>2. Held
    BY DEF Init, Held, NoCheckpoint, NoReply
  <2>3. Wire
    BY <2>1 DEF Init, UnderWay, Wire
  <2> QED BY <2>1, <2>2, <2>3 DEF LiveJobsAccounted
<1>2. /\ IInv /\ IInv' /\ [Next]_vars /\ Held /\ Wire /\ LiveJobsAccounted
      => (Held /\ Wire /\ LiveJobsAccounted)'
  BY HeldStep, WireStep, AccountedStep DEF IInv
<1> QED BY <1>1, <1>2, Invariant, PTL DEF Spec

\* With a wire key no GPU job of execute_job runs unaccounted: a death between a POST
\* and the write of its answer, a late arrival or a repeated call loses none.
THEOREM NoJobIsLost ==
    ASSUME Idempotent
    PROVE  Spec => []LiveJobsAccounted
BY AccountsAlways, PTL

-----------------------------------------------------------------------------
(* How many jobs an identity may cost                                      *)
(*                                                                         *)
(* Every job but the first follows on a charge: an infrastructure or a     *)
(* device retry, which the checkpoint counts, or a wait window, of which   *)
(* each call has MaxWait.  With a wire key jobs have different keys, and   *)
(* each new key is charged; without one each request makes a job, and each *)
(* request is charged.                                                     *)

\* The wait windows that calls could have charged so far.
CallsOver == IF pc = "idle" THEN invocations ELSE invocations - 1
Waited == MaxWait * CallsOver + waits
Allowed == 1 + disk.infra + disk.device + Waited

\* Budgets are kept, and the call counts as the checkpoint does.
Charged ==
    /\ waits <= MaxWait /\ (pc = "idle" => waits = 0)
    /\ disk.infra <= MaxInfra /\ disk.device <= MaxDevice
    /\ pc # "idle" =>
           invocations > 0 /\ disk.infra = mem.infra /\ disk.device = mem.device

\* The step is a charge.
Charge ==
    \/ pc \in {"loop", "poll"} /\ RetryWait(mem.job)
    \/ Resubmit /\ mem.phase = "terminal"
    \/ BeginUnconfirmed /\ disk'.phase = "retry_pending"

\* A window more is MaxWait charges more.
LEMMA WindowsOfCalls ==
    ASSUME NEW n \in Nat
    PROVE  MaxWait * n \in Nat /\ MaxWait * (n + 1) = MaxWait * n + MaxWait
BY GatewayAssumption

\* What may be charged is a number.
LEMMA AllowedType ==
    ASSUME TypeOK, Charged
    PROVE  /\ CallsOver \in Nat /\ Waited \in Nat /\ Allowed \in Nat
           /\ disk.infra \in Nat /\ disk.device \in Nat /\ waits \in Nat
           /\ mem.infra \in Nat /\ mem.device \in Nat
<1>1. /\ invocations \in Nat /\ waits \in Nat /\ disk.infra \in Nat /\ disk.device \in Nat
      /\ mem.infra \in Nat /\ mem.device \in Nat
  BY DEF TypeOK, Checkpoint
<1>2. CallsOver \in Nat
  BY <1>1 DEF CallsOver, Charged
<1>3. MaxWait * CallsOver \in Nat
  BY <1>2, WindowsOfCalls
<1> QED BY <1>1, <1>2, <1>3 DEF Waited, Allowed

LEMMA AllowedTypeNext ==
    ASSUME TypeOK', Charged'
    PROVE  Allowed' \in Nat /\ 1 <= Allowed'
<1>1. /\ invocations' \in Nat /\ waits' \in Nat /\ disk'.infra \in Nat /\ disk'.device \in Nat
  BY DEF TypeOK, Checkpoint
<1>2. CASE pc' = "idle"
  <2>1. CallsOver' = invocations'
    BY <1>2 DEF CallsOver
  <2>2. MaxWait * CallsOver' \in Nat
    BY <1>1, <2>1, WindowsOfCalls
  <2> QED BY <1>1, <2>2 DEF Allowed, Waited
<1>3. CASE pc' # "idle"
  <2>1. CallsOver' = invocations' - 1 /\ invocations' > 0
    BY <1>3 DEF CallsOver, Charged
  <2>2. CallsOver' \in Nat
    <3>1. \A n \in Nat : n > 0 => n - 1 \in Nat
      OBVIOUS
    <3> QED BY <1>1, <2>1, <3>1
  <2>3. MaxWait * CallsOver' \in Nat
    BY <2>2, WindowsOfCalls
  <2> QED BY <1>1, <2>3 DEF Allowed, Waited
<1> QED BY <1>2, <1>3

\* Charges are kept within their budgets, and what may be charged grows with them.
LEMMA ChargeStep ==
    ASSUME IInv, Charged, [Next]_vars
    PROVE  /\ Charged' /\ Allowed <= Allowed'
           /\ Charge => Allowed + 1 <= Allowed'
<1> USE DEF IInv
<1>1. /\ TypeOK /\ Tracked /\ TerminalHeld /\ mem \in Checkpoint /\ disk \in Checkpoint
      /\ mem.job \in Nat /\ invocations \in Nat
      /\ MaxWait \in Nat /\ MaxInfra \in Nat /\ MaxDevice \in Nat
  BY GatewayAssumption DEF TypeOK, Checkpoint
<1>2. /\ CallsOver \in Nat /\ Waited \in Nat /\ Allowed \in Nat
      /\ disk.infra \in Nat /\ disk.device \in Nat /\ waits \in Nat
      /\ mem.infra \in Nat /\ mem.device \in Nat
  BY AllowedType
<1>3. \A phase \in {"submitting", "rejected", "retry_pending"} :
        /\ AtPhase(phase) \in Checkpoint
        /\ AtPhase(phase).infra = mem.infra /\ AtPhase(phase).device = mem.device
  BY <1>1, AtPhaseType DEF Phase
<1>4. CASE /\ pc # "idle" /\ Leave /\ invocations' = invocations
           /\ disk'.infra = disk.infra /\ disk'.device = disk.device
  <2>0. ~ Charge
    BY <1>4 DEF Leave, Charge, RetryWait, Resubmit, BeginUnconfirmed
  <2>1. CallsOver' = CallsOver + 1 /\ waits' = 0 /\ pc' = "idle"
    BY <1>1, <1>4 DEF Leave, CallsOver
  <2>2. Waited' = MaxWait * CallsOver + MaxWait /\ waits <= MaxWait /\ MaxWait * CallsOver \in Nat
    BY <1>1, <1>2, <2>1, WindowsOfCalls DEF Waited, Charged
  <2>3. Waited <= Waited'
    BY <1>1, <1>2, <2>2 DEF Waited
  <2>4. Charged'
    BY <1>1, <1>4, <2>1 DEF Charged
  <2>5. Waited' \in Nat
    <3> DEFINE closed == MaxWait * CallsOver
    <3>1. Waited' = closed + MaxWait /\ closed \in Nat /\ MaxWait \in Nat
      BY <1>1, <2>2
    <3> HIDE DEF closed
    <3> QED BY <3>1
  <2> QED BY <1>2, <1>4, <2>0, <2>3, <2>4, <2>5 DEF Allowed
<1>5. CASE /\ pc # "idle" /\ pc' # "idle" /\ invocations' = invocations
           /\ waits' = waits /\ (pc # "resubmit" \/ pc' # "sleep")
           /\ disk'.infra = disk.infra /\ disk'.device = disk.device
           /\ mem'.infra = mem.infra /\ mem'.device = mem.device
  <2>1. ~ Charge
    BY <1>2, <1>5 DEF Charge, RetryWait, Resubmit, BeginUnconfirmed
  <2> QED BY <1>1, <1>2, <1>5, <2>1 DEF Allowed, Waited, CallsOver, Charged
<1>6. CASE RetryWait(mem.job) /\ pc \in {"loop", "poll"} /\ invocations' = invocations
  <2>1. /\ disk' = mem' /\ mem'.infra = mem.infra /\ mem'.device = mem.device /\ pc' = "loop"
        /\ waits' = waits + 1 /\ waits < MaxWait
    BY <1>1, <1>6, RetryWaitFields DEF RetryWait
  <2>2. CallsOver' = CallsOver /\ Waited' = Waited + 1
    BY <1>1, <1>2, <1>6, <2>1, WindowsOfCalls DEF CallsOver, Waited
  <2> QED BY <1>1, <1>2, <1>6, <2>1, <2>2 DEF Allowed, Charged
<1>7. CASE Begin
  <2>1. /\ mem'.infra = disk.infra /\ mem'.device = disk.device
        /\ pc = "idle" /\ pc' = "loop" /\ invocations' = invocations + 1
        /\ UNCHANGED <<disk, waits>>
    BY <1>1, <1>7 DEF Begin, Checkpoint
  <2>2. ~ Charge
    BY <2>1 DEF Charge, Resubmit, BeginUnconfirmed
  <2> QED BY <1>1, <1>2, <2>1, <2>2 DEF Allowed, Waited, CallsOver, Charged
<1>8. CASE BeginUnconfirmed
  <2>1. pc = "idle" /\ invocations' = invocations + 1 /\ disk.phase = "submitting" /\ waits = 0
    BY <1>8 DEF BeginUnconfirmed, Charged
  <2>2. CASE /\ MaxWait > 0 /\ waits' = 1 /\ pc' = "loop" /\ disk' = mem'
             /\ mem' = [disk EXCEPT !.phase = "retry_pending", !.job = 0]
    <3>1. disk'.infra = disk.infra /\ disk'.device = disk.device
      BY <1>1, <2>2 DEF Checkpoint
    <3>2. CallsOver' = CallsOver /\ Waited' = Waited + 1
      BY <1>1, <1>2, <2>1, <2>2, WindowsOfCalls DEF CallsOver, Waited
    <3> QED BY <1>1, <1>2, <2>1, <2>2, <3>1, <3>2 DEF Allowed, Charged
  <2>3. CASE MaxWait = 0 /\ UNCHANGED <<waits, mem, disk, pc>>
    <3>1. CallsOver' = CallsOver + 1 /\ Waited' = Waited
      <4>1. CallsOver' = CallsOver + 1
        BY <1>1, <2>1, <2>3 DEF CallsOver
      <4>2. MaxWait * (CallsOver + 1) = MaxWait * CallsOver + 0
        BY <1>2, <2>3, WindowsOfCalls
      <4>3. MaxWait * CallsOver \in Nat
        BY <1>2, WindowsOfCalls
      <4> QED BY <1>2, <2>3, <4>1, <4>2, <4>3 DEF Waited
    <3>2. ~ Charge
      BY <2>1, <2>3 DEF Charge, Resubmit
    <3> QED BY <1>2, <2>1, <2>3, <3>1, <3>2 DEF Allowed, Charged
  <2> QED BY <1>8, <2>2, <2>3 DEF BeginUnconfirmed
<1>9. CASE Resubmit
  <2>1. /\ pc = "resubmit" /\ pc' = "sleep" /\ disk' = mem' /\ UNCHANGED <<waits, invocations>>
    BY <1>9 DEF Resubmit, spent
  <2>2. CallsOver' = CallsOver /\ Waited' = Waited
    BY <2>1 DEF CallsOver, Waited
  <2> DEFINE i == IF mem.outcome = "infra" THEN 1 ELSE 0
             d == IF mem.outcome = "device" THEN 1 ELSE 0
  <2>3. mem'.infra = mem.infra + i /\ mem'.device = mem.device + d
    BY <1>1, <1>3, <1>9 DEF Resubmit, Checkpoint
  <2>4. CASE mem.phase = "terminal"
    <3>1. Retryable(mem)
      BY <1>1, <2>1, <2>4 DEF TerminalHeld
    <3>2. /\ i + d = 1 /\ i \in Nat /\ d \in Nat
          /\ mem.infra + i <= MaxInfra /\ mem.device + d <= MaxDevice
      BY <1>1, <1>2, <2>1, <3>1 DEF Retryable, Charged
    <3> HIDE DEF i, d
    <3> QED BY <1>1, <1>2, <2>1, <2>2, <2>3, <3>2 DEF Allowed, Charged
  <2>5. CASE mem.phase # "terminal"
    <3>1. mem.outcome = "live"
      BY <1>1, <2>5 DEF Tracked, Faithful
    <3>2. i = 0 /\ d = 0 /\ ~ Charge
      BY <2>1, <2>5, <3>1 DEF Charge, BeginUnconfirmed
    <3> HIDE DEF i, d
    <3> QED BY <1>1, <1>2, <2>1, <2>2, <2>3, <3>2 DEF Allowed, Charged
  <2> QED BY <2>4, <2>5
<1>10. CASE LateArrival \/ JobEnds \/ JobForgotten \/ UNCHANGED vars
  <2>1. UNCHANGED <<disk, mem, pc, waits, invocations>>
    BY <1>10 DEF LateArrival, JobEnds, JobForgotten, local, spent, vars
  <2>2. ~ Charge
    BY <1>2, <2>1 DEF Charge, RetryWait, Resubmit, BeginUnconfirmed
  <2> QED BY <1>2, <2>1, <2>2 DEF Allowed, Waited, CallsOver, Charged

<1>11. ASSUME RetryWaitOrLeave(mem.job), pc \in {"loop", "poll"}, invocations' = invocations
       PROVE  /\ Charged' /\ Allowed <= Allowed'
              /\ Charge => Allowed + 1 <= Allowed'
  <2>1. CASE Leave /\ UNCHANGED disk
    BY <1>4, <1>11, <2>1
  <2> QED BY <1>6, <1>11, <2>1 DEF RetryWaitOrLeave
<1>12. CASE DeadlineReached \/ CollectMissing \/ CollectNothing
  <2>1. RetryWaitOrLeave(mem.job) /\ pc \in {"loop", "poll"} /\ invocations' = invocations
    BY <1>12 DEF DeadlineReached, CollectMissing, CollectNothing, spent
  <2> QED BY <1>11, <2>1
<1>13. CASE CollectFails
  <2>1. pc = "poll" /\ invocations' = invocations
    BY <1>13 DEF CollectFails, spent
  <2>2. CASE Leave /\ UNCHANGED disk
    BY <1>4, <2>1, <2>2
  <2> QED BY <1>11, <1>13, <2>1, <2>2 DEF CollectFails
<1>14. CASE Decide \/ NoTimeToResubmit \/ Crash
  <2>1. pc # "idle" /\ Leave /\ invocations' = invocations /\ UNCHANGED disk
    BY <1>14 DEF Decide, NoTimeToResubmit, Crash, spent
  <2> QED BY <1>4, <2>1
<1>15. CASE SaveUncertain
  <2>1. /\ pc = "replied" /\ disk' = AtPhase("submitting") /\ invocations' = invocations
        /\ disk'.infra = disk.infra /\ disk'.device = disk.device
    BY <1>3, <1>15 DEF SaveUncertain, spent, Charged
  <2>2. CASE Leave
    BY <1>4, <2>1, <2>2
  <2>3. CASE pc' = "sleep" /\ UNCHANGED <<mem, waits>>
    BY <1>5, <2>1, <2>3
  <2> QED BY <1>15, <2>2, <2>3 DEF SaveUncertain
<1>16. CASE SaveRejected
  <2>1. /\ pc = "replied" /\ disk' = AtPhase("rejected") /\ invocations' = invocations
        /\ disk'.infra = disk.infra /\ disk'.device = disk.device
    BY <1>3, <1>16 DEF SaveRejected, spent, Charged
  <2>2. CASE Leave
    BY <1>4, <2>1, <2>2
  <2>3. CASE pc' = "resubmit" /\ mem' = AtPhase("rejected") /\ waits' = waits
    <3>1. mem'.infra = mem.infra /\ mem'.device = mem.device
      BY <1>3, <2>3
    <3> QED BY <1>5, <2>1, <2>3, <3>1
  <2> QED BY <1>16, <2>2, <2>3 DEF SaveRejected
<1>17. CASE SaveAccepted \/ SaveTerminal \/ Replace
  <2>1. /\ pc \in {"replied", "collected", "classify"} /\ pc' \in {"poll", "classify", "resubmit"}
        /\ UNCHANGED <<waits, invocations>> /\ (disk' = disk \/ disk' = mem')
    BY <1>17 DEF SaveAccepted, SaveTerminal, Replace, spent
  <2>2. mem'.infra = mem.infra /\ mem'.device = mem.device
    BY <1>1, <1>17 DEF SaveAccepted, SaveTerminal, Replace, Checkpoint
  <2>3. disk'.infra = disk.infra /\ disk'.device = disk.device
    BY <2>1, <2>2 DEF Charged
  <2> QED BY <1>5, <2>1, <2>2, <2>3
<1>18. CASE AnnounceSubmission
  <2>1. /\ pc = "loop" /\ pc' = "submit" /\ disk' = AtPhase("submitting")
        /\ UNCHANGED <<mem, waits, invocations>>
        /\ disk'.infra = disk.infra /\ disk'.device = disk.device
    BY <1>3, <1>18 DEF AnnounceSubmission, spent, Charged
  <2> QED BY <1>5, <2>1
<1>19. CASE \/ ReuseSaved \/ SubmitAdmitted \/ SubmitRefused \/ SubmitDelayed
            \/ Collect \/ Wake \/ Expire
  <2>1. /\ pc # "idle" /\ pc' # "idle" /\ (pc # "resubmit" \/ pc' # "sleep")
        /\ UNCHANGED <<disk, mem, waits, invocations>>
    BY <1>19 DEF ReuseSaved, SubmitAdmitted, SubmitRefused, SubmitDelayed, Collect, Wake,
                 Expire, spent
  <2> QED BY <1>5, <2>1
<1> QED
  BY <1>7, <1>8, <1>9, <1>10, <1>12, <1>13, <1>14, <1>15, <1>16, <1>17, <1>18, <1>19
     DEF Next, Call, Submission, Collection, Environment

\* With a wire key: the keys that a checkpoint ever announced.
Seen == Keys \ {NoKey}
SeenBounded == IsFiniteSet(Seen) /\ Cardinality(Seen) <= Allowed

\* One announced key follows another only on a charge.
LEMMA NewKeyIsCharged ==
    ASSUME Idempotent, IInv, Held, Wire, [Next]_vars
    PROVE  disk'.key = disk.key \/ disk.key = NoKey \/ Charge
<1> USE DEF IInv
<1>1. /\ TypeOK /\ Tracked /\ mem \in Checkpoint /\ disk \in Checkpoint /\ mem.job \in Nat
  BY DEF TypeOK, Checkpoint
<1>2. \A phase \in {"submitting", "rejected", "retry_pending"} :
        AtPhase(phase) \in Checkpoint /\ AtPhase(phase).key = mem.key
  BY <1>1, AtPhaseType DEF Phase
<1>3. CASE RetryWait(mem.job) /\ pc \in {"loop", "poll"}
  BY <1>3 DEF Charge
<1>4. CASE AnnounceSubmission
  BY <1>2, <1>4 DEF AnnounceSubmission, Held
<1>5. CASE SaveAccepted \/ SaveUncertain \/ SaveRejected \/ SaveTerminal
  <2>1. disk'.key = mem.key
    <3>1. CASE SaveAccepted \/ SaveTerminal
      BY <1>1, <3>1 DEF SaveAccepted, SaveTerminal, Checkpoint
    <3>2. CASE SaveUncertain \/ SaveRejected
      BY <1>2, <3>2 DEF SaveUncertain, SaveRejected
    <3> QED BY <1>5, <3>1, <3>2
  <2>2. pc \in {"replied", "collected"}
    BY <1>5 DEF SaveAccepted, SaveUncertain, SaveRejected, SaveTerminal
  <2> QED BY <2>1, <2>2 DEF Held
<1>6. CASE Resubmit
  <2>1. disk'.key = mem.key /\ pc = "resubmit"
    BY <1>2, <1>6 DEF Resubmit, Checkpoint
  <2> QED BY <1>6, <2>1 DEF Held, Charge
<1>7. CASE UNCHANGED disk
  BY <1>7
<1>8. \/ RetryWait(mem.job) /\ pc \in {"loop", "poll"}
      \/ AnnounceSubmission \/ SaveAccepted \/ SaveUncertain \/ SaveRejected \/ SaveTerminal
      \/ Resubmit \/ UNCHANGED disk
  BY DEF Next, Call, Submission, Collection, Environment, vars, Begin,
         BeginUnconfirmed, DeadlineReached, ReuseSaved, RetryWaitOrLeave,
         SubmitAdmitted, SubmitRefused, SubmitDelayed,
         Collect, CollectMissing, CollectNothing, CollectFails, Decide,
         Replace, NoTimeToResubmit, Wake, Expire, Crash, LateArrival, JobEnds, JobForgotten
<1> QED BY <1>3, <1>4, <1>5, <1>6, <1>7, <1>8

\* The announced keys stay within what may be charged.
LEMMA SeenStep ==
    ASSUME Idempotent, IInv, IInv', Charged, Charged', Held, Wire, SeenBounded, [Next]_vars
    PROVE  SeenBounded'
<1>1. /\ Allowed \in Nat /\ Allowed' \in Nat /\ Allowed <= Allowed'
      /\ Charge => Allowed + 1 <= Allowed'
  BY AllowedType, AllowedTypeNext, ChargeStep DEF IInv
<1>2. Seen' \subseteq Seen \cup {disk'.key}
  <2> SUFFICES ASSUME NEW key \in Keys', key # NoKey, key # disk'.key
               PROVE  key \in Keys
    BY DEF Seen
  <2>1. CASE key \in UnderWay'
    <3>1. key \in UnderWay \/ (pc = "submit" /\ key = mem.key)
      BY <2>1, WireMoves, Arrival, Delay DEF SubmitDelayed
    <3> QED BY <3>1 DEF Keys, Held
  <2>2. CASE \E j \in Jobs' : key = jobs'[j].key
    <3>1. PICK j \in Jobs' : key = jobs'[j].key
      BY <2>2
    <3>2. CASE j \in Jobs
      BY <3>1, <3>2, JobKeyKept DEF Keys, IInv
    <3>3. CASE j \notin Jobs
      BY <3>1, <3>3, NewJobs DEF Keys, Held
    <3> QED BY <3>2, <3>3
  <2> QED BY <2>1, <2>2 DEF Keys
<1>3. /\ IsFiniteSet(Seen) /\ Cardinality(Seen) \in Nat /\ Cardinality(Seen) <= Allowed
  BY FS_CardinalityType DEF SeenBounded
<1>4. CASE disk'.key = disk.key
  <2>1. Seen' \in SUBSET Seen
    <3>1. disk.key \in Keys /\ NoKey \notin Seen'
      BY DEF Keys, Seen
    <3> QED BY <1>2, <1>4, <3>1 DEF Seen
  <2>2. IsFiniteSet(Seen') /\ Cardinality(Seen') <= Cardinality(Seen) /\ Cardinality(Seen') \in Nat
    BY <1>3, <2>1, FS_Subset, FS_CardinalityType
  <2> QED BY <1>1, <1>3, <2>2 DEF SeenBounded
<1>5. IsFiniteSet(Seen \cup {disk'.key})
      /\ Cardinality(Seen \cup {disk'.key}) <= Cardinality(Seen) + 1
      /\ Cardinality(Seen \cup {disk'.key}) \in Nat
  BY <1>3, FS_AddElement, FS_CardinalityType
<1>6. /\ IsFiniteSet(Seen') /\ Cardinality(Seen') \in Nat
      /\ Cardinality(Seen') <= Cardinality(Seen) + 1
  <2>1. Seen' \in SUBSET (Seen \cup {disk'.key})
    BY <1>2
  <2>2. IsFiniteSet(Seen') /\ Cardinality(Seen') <= Cardinality(Seen \cup {disk'.key})
    BY <1>5, <2>1, FS_Subset
  <2>3. Cardinality(Seen') \in Nat
    BY <2>2, FS_CardinalityType
  <2> QED BY <1>3, <1>5, <2>2, <2>3
<1>7. CASE disk.key = NoKey
  <2>1. Seen = {}
    BY <1>7 DEF Seen, Keys, Wire, Jobs
  <2>2. Cardinality(Seen) = 0
    BY <2>1, FS_EmptySet
  <2>3. 1 <= Allowed'
    BY AllowedTypeNext DEF IInv
  <2> QED BY <1>1, <1>6, <2>2, <2>3 DEF SeenBounded
<1>8. CASE Charge
  BY <1>1, <1>3, <1>6, <1>8 DEF SeenBounded
<1> QED BY <1>4, <1>7, <1>8, NewKeyIsCharged

\* Jobs have different announced keys.
LEMMA JobsAreSeen ==
    ASSUME IInv, Charged, Wire, SeenBounded
    PROVE  Len(jobs) <= Allowed
<1> DEFINE key == [j \in 1..Len(jobs) |-> jobs[j].key]
<1>1. jobs \in Seq(Job) /\ Len(jobs) \in Nat /\ Jobs = 1..Len(jobs) /\ Allowed \in Nat
  BY AllowedType DEF IInv, TypeOK, Jobs
<1>2. key \in Injection(1..Len(jobs), Seen)
  <2>1. key \in [1..Len(jobs) -> Seen]
    BY <1>1 DEF Seen, Keys, Wire
  <2>2. IsInjective(key)
    BY <1>1 DEF IsInjective, Wire
  <2> QED BY <2>1, <2>2 DEF Injection
<1>3. Cardinality(1..Len(jobs)) <= Cardinality(Seen)
  <2> HIDE DEF key
  <2> QED BY <1>2, FS_Injection DEF SeenBounded
<1>4. Cardinality(1..Len(jobs)) = Len(jobs)
  BY <1>1, FS_Interval, SMTT(30)
<1>5. Cardinality(Seen) \in Nat
  BY FS_CardinalityType DEF SeenBounded
<1> QED BY <1>1, <1>3, <1>4, <1>5 DEF SeenBounded

\* What may be charged is within the budgets of the calls.
LEMMA AllowedBound ==
    ASSUME IInv, Charged
    PROVE  Allowed <= 1 + MaxInfra + MaxDevice + MaxWait * invocations
<1>1. /\ invocations \in Nat /\ waits \in Nat /\ disk.infra \in Nat /\ disk.device \in Nat
      /\ CallsOver \in Nat /\ MaxWait * CallsOver \in Nat /\ MaxWait * invocations \in Nat
      /\ MaxWait \in Nat /\ MaxInfra \in Nat /\ MaxDevice \in Nat
  BY AllowedType, WindowsOfCalls, GatewayAssumption DEF IInv, TypeOK
<1>2. Waited <= MaxWait * invocations
  <2>1. CASE pc = "idle"
    BY <1>1, <2>1 DEF Waited, CallsOver, Charged
  <2>2. CASE pc # "idle"
    <3>1. CallsOver + 1 = invocations
      BY <1>1, <2>2 DEF CallsOver, Charged
    <3>2. MaxWait * invocations = MaxWait * CallsOver + MaxWait
      BY <1>1, <3>1, WindowsOfCalls
    <3> QED BY <1>1, <3>2 DEF Waited, Charged
  <2> QED BY <2>1, <2>2
<1>3. Waited \in Nat /\ disk.infra <= MaxInfra /\ disk.device <= MaxDevice
  BY <1>1 DEF Waited, Charged
<1>4. \A w \in Nat : w <= MaxWait * invocations =>
        1 + disk.infra + disk.device + w <= 1 + MaxInfra + MaxDevice + MaxWait * invocations
  <2> DEFINE m == MaxWait * invocations
  <2>1. m \in Nat
    BY <1>1
  <2> HIDE DEF m
  <2>2. \A w \in Nat : w <= m =>
          1 + disk.infra + disk.device + w <= 1 + MaxInfra + MaxDevice + m
    BY <1>1, <1>3, <2>1
  <2> QED BY <2>2 DEF m
<1> QED BY <1>2, <1>3, <1>4 DEF Allowed

\* Without a wire key: a request leaves no trace in the checkpoint but its phase.
\* While a call runs the checkpoint has the phase of the call, or the announcement.
PhaseHeld ==
    pc # "idle" =>
      /\ IF pc \in {"submit", "replied"} THEN disk.phase = "submitting"
         ELSE disk.phase = mem.phase /\ mem.phase # "submitting"
      /\ pc = "resubmit" => mem.phase \in {"rejected", "terminal"}

\* What was charged for and has not become a request yet.
Unused ==
    \/ disk.phase \in {"none", "retry_pending", "rejected"}
    \/ pc = "submit"
    \/ pc = "replied" /\ reply.kind \in {"permanent", "retryable"}

Requested == Len(jobs) + Cardinality(late)

RequestsBounded ==
    IsFiniteSet(late) /\ Requested + (IF Unused THEN 1 ELSE 0) <= Allowed

LEMMA PhaseHeldStep ==
    ASSUME ~ Idempotent, IInv, PhaseHeld, [Next]_vars
    PROVE  PhaseHeld'
<1>1. mem \in Checkpoint /\ disk \in Checkpoint /\ mem.job \in Nat
  BY DEF IInv, TypeOK, Checkpoint
<1>2. \A phase \in {"submitting", "rejected", "retry_pending"} :
        AtPhase(phase) \in Checkpoint /\ AtPhase(phase).phase = phase
  BY <1>1, AtPhaseType DEF Phase
<1>3. CASE Leave \/ SaveUncertain
  BY <1>3 DEF Leave, SaveUncertain, PhaseHeld
<1>4. CASE \E job \in Nat : RetryWait(job)
  <2>1. disk' = mem' /\ mem'.phase = "retry_pending" /\ pc' = "loop"
    BY <1>4, RetryWaitFields DEF IInv
  <2> QED BY <2>1 DEF PhaseHeld
<1>5. CASE Begin
  BY <1>5 DEF Begin, PhaseHeld
<1>6. CASE BeginUnconfirmed
  <2>1. CASE pc' = "loop" /\ disk' = mem' /\ mem' = [disk EXCEPT !.phase = "retry_pending", !.job = 0]
    <3>1. mem'.phase = "retry_pending"
      BY <1>1, <2>1 DEF Checkpoint
    <3> QED BY <2>1, <3>1 DEF PhaseHeld
  <2> QED BY <1>6, <2>1 DEF BeginUnconfirmed, PhaseHeld
<1>7. CASE AnnounceSubmission
  BY <1>2, <1>7 DEF AnnounceSubmission, PhaseHeld
<1>8. CASE SubmitAdmitted \/ SubmitRefused \/ SubmitDelayed
  BY <1>8 DEF SubmitAdmitted, SubmitRefused, SubmitDelayed, PhaseHeld
<1>9. CASE SaveAccepted \/ SaveTerminal
  <2>1. /\ disk' = mem' /\ mem'.phase \in {"accepted", "terminal"} /\ pc' \in {"poll", "classify"}
    BY <1>1, <1>9 DEF SaveAccepted, SaveTerminal, Checkpoint
  <2> QED BY <2>1 DEF PhaseHeld
<1>10. CASE SaveRejected /\ ~ Leave
  BY <1>2, <1>10 DEF SaveRejected, PhaseHeld
<1>11. CASE Replace
  <2>1. mem'.phase = mem.phase /\ mem.phase = "terminal"
    BY <1>1, <1>11 DEF Replace, Checkpoint, IInv, Tracked
  <2> QED BY <1>11, <2>1 DEF Replace, PhaseHeld
<1>12. CASE Resubmit
  <2>1. disk' = mem' /\ mem'.phase = "retry_pending" /\ pc' = "sleep"
    BY <1>2, <1>12 DEF Resubmit, Checkpoint
  <2> QED BY <2>1 DEF PhaseHeld
<1>13. CASE ReuseSaved \/ Collect \/ Wake \/ Expire
  BY <1>13 DEF ReuseSaved, Collect, Wake, Expire, PhaseHeld
<1>14. CASE LateArrival \/ JobEnds \/ JobForgotten \/ UNCHANGED vars
  BY <1>14 DEF LateArrival, JobEnds, JobForgotten, vars, local, PhaseHeld
<1>15. \A job \in Nat : RetryWaitOrLeave(job) => PhaseHeld'
  BY <1>3, <1>4 DEF RetryWaitOrLeave
<1>16. CASE DeadlineReached \/ CollectMissing \/ CollectNothing \/ CollectFails
  BY <1>1, <1>3, <1>15, <1>16 DEF DeadlineReached, CollectMissing, CollectNothing, CollectFails
<1>17. CASE Decide \/ NoTimeToResubmit \/ Crash
  BY <1>3, <1>17 DEF Decide, NoTimeToResubmit, Crash
<1> QED
  BY <1>3, <1>5, <1>6, <1>7, <1>8, <1>9, <1>10, <1>11, <1>12, <1>13, <1>14, <1>16, <1>17
     DEF Next, Call, Submission, Collection, Environment

\* Only a request that goes out adds to the requests.
LEMMA RequestedStep ==
    ASSUME ~ Idempotent, TypeOK, [Next]_vars, IsFiniteSet(late)
    PROVE  /\ IsFiniteSet(late') /\ Requested \in Nat /\ Requested' \in Nat
           /\ Requested' <= Requested + 1
           /\ ~ (SubmitAdmitted \/ SubmitDelayed) => Requested' = Requested
<1>1. jobs \in Seq(Job) /\ Len(jobs) \in Nat /\ Cardinality(late) \in Nat /\ mem.key \in Key
  BY FS_CardinalityType DEF TypeOK, Checkpoint
<1>2. \A key \in Key : Admit(key) => Len(jobs') = Len(jobs) + 1
  BY <1>1 DEF Admit, Known
<1>3. CASE SubmitAdmitted
  BY <1>1, <1>2, <1>3 DEF SubmitAdmitted, Requested
<1>4. CASE SubmitDelayed
  <2> DEFINE request == [key |-> mem.key, nth |-> delayed']
  <2>1. late' = late \cup {request} /\ jobs' = jobs
    BY <1>4 DEF SubmitDelayed
  <2> HIDE DEF request
  <2>2. IsFiniteSet(late') /\ Cardinality(late') \in Nat /\ Cardinality(late') <= Cardinality(late) + 1
    <3>1. /\ IsFiniteSet(late')
          /\ Cardinality(late') = IF request \in late THEN Cardinality(late) ELSE Cardinality(late) + 1
      BY <2>1, FS_AddElement
    <3> QED BY <1>1, <3>1
  <2> QED BY <1>1, <1>4, <2>1, <2>2 DEF Requested
<1>5. CASE LateArrival
  <2>1. PICK request \in late : Admit(request.key) /\ late' = late \ {request}
    BY <1>5 DEF LateArrival
  <2>2. request.key \in Key
    BY DEF TypeOK, Request
  <2>3. Len(jobs') = Len(jobs) + 1
    BY <1>2, <2>1, <2>2
  <2>4. IsFiniteSet(late') /\ Cardinality(late') = Cardinality(late) - 1 /\ Cardinality(late') \in Nat
    BY <1>1, <2>1, FS_RemoveElement, FS_CardinalityType
  <2> QED BY <1>1, <2>3, <2>4 DEF Requested
<1>6. CASE JobEnds \/ JobForgotten
  <2>1. jobs' \in Seq(Job) /\ DOMAIN jobs' = DOMAIN jobs /\ late' = late
    BY <1>6, GatewayStep DEF JobEnds, JobForgotten
  <2>2. Len(jobs') = Len(jobs)
    BY <1>1, <2>1
  <2> QED BY <1>1, <2>1, <2>2 DEF Requested
<1>7. CASE UNCHANGED gateway
  BY <1>1, <1>7 DEF gateway, Requested
<1> QED
  BY <1>3, <1>4, <1>5, <1>6, <1>7
     DEF Next, Call, Submission, Collection, Environment, vars, Begin, BeginUnconfirmed,
         DeadlineReached, ReuseSaved, AnnounceSubmission, SubmitRefused, SaveAccepted,
         SaveUncertain, SaveRejected, Collect, CollectMissing, CollectNothing, CollectFails,
         SaveTerminal, Decide, Replace, Resubmit, NoTimeToResubmit, Wake, Expire, Crash

\* A request uses up what was charged for it, and only a charge makes room for one.
LEMMA UnusedStep ==
    ASSUME ~ Idempotent, IInv, PhaseHeld, [Next]_vars
    PROVE  /\ SubmitAdmitted \/ SubmitDelayed => Unused /\ ~ Unused'
           /\ Unused' => Unused \/ Charge
<1>1. mem \in Checkpoint /\ disk \in Checkpoint /\ mem.job \in Nat /\ disk.phase \in Phase
  BY DEF IInv, TypeOK, Checkpoint
<1>2. \A phase \in {"submitting", "rejected", "retry_pending"} :
        AtPhase(phase) \in Checkpoint /\ AtPhase(phase).phase = phase
  BY <1>1, AtPhaseType DEF Phase
<1>3. SubmitAdmitted \/ SubmitDelayed => Unused /\ ~ Unused'
  <2> SUFFICES ASSUME SubmitAdmitted \/ SubmitDelayed PROVE Unused /\ ~ Unused'
    OBVIOUS
  <2>1. /\ pc = "submit" /\ pc' = "replied" /\ disk' = disk
        /\ reply'.kind \in {"job", "uncertain"}
    BY DEF SubmitAdmitted, SubmitDelayed, Replied
  <2> QED BY <2>1 DEF PhaseHeld, Unused
<1>4. SUFFICES ASSUME Unused' PROVE Unused \/ Charge
  BY <1>3
<1>5. CASE Leave /\ UNCHANGED disk
  BY <1>4, <1>5 DEF Leave, Unused
<1>6. ASSUME RetryWaitOrLeave(mem.job), pc \in {"loop", "poll"} PROVE Unused \/ Charge
  BY <1>5, <1>6 DEF RetryWaitOrLeave, Charge
<1>7. CASE DeadlineReached \/ CollectMissing \/ CollectNothing \/ CollectFails
  BY <1>6, <1>7 DEF DeadlineReached, CollectMissing, CollectNothing, CollectFails
<1>8. CASE Decide \/ NoTimeToResubmit \/ Crash
  BY <1>5, <1>8 DEF Decide, NoTimeToResubmit, Crash
<1>9. CASE BeginUnconfirmed
  <2>1. CASE disk' = mem' /\ mem' = [disk EXCEPT !.phase = "retry_pending", !.job = 0]
    <3>1. disk'.phase = "retry_pending"
      BY <1>1, <2>1 DEF Checkpoint
    <3> QED BY <1>9, <3>1 DEF Charge
  <2> QED BY <1>4, <1>9, <2>1 DEF BeginUnconfirmed, Unused
<1>10. CASE AnnounceSubmission
  <2>1. disk.phase = mem.phase /\ mem.phase \notin {"submitting", "accepted", "terminal"}
    BY <1>10 DEF AnnounceSubmission, PhaseHeld
  <2> QED BY <1>1, <2>1 DEF Unused, Phase
<1>11. CASE SubmitAdmitted \/ SubmitRefused \/ SubmitDelayed
  BY <1>11 DEF SubmitAdmitted, SubmitRefused, SubmitDelayed, Unused
<1>12. CASE SaveAccepted \/ SaveTerminal
  <2>1. disk'.phase \in {"accepted", "terminal"} /\ pc' \in {"poll", "classify"}
    BY <1>1, <1>12 DEF SaveAccepted, SaveTerminal, Checkpoint
  <2> QED BY <1>4, <2>1 DEF Unused
<1>13. CASE SaveUncertain
  BY <1>2, <1>4, <1>13 DEF SaveUncertain, Leave, Unused
<1>14. CASE SaveRejected
  BY <1>14 DEF SaveRejected, Unused
<1>15. CASE Resubmit
  <2>1. pc = "resubmit"
    BY <1>15 DEF Resubmit
  <2> QED BY <1>15, <2>1 DEF PhaseHeld, Unused, Charge
<1>16. CASE Begin \/ ReuseSaved \/ Collect \/ Replace \/ Wake \/ Expire
  BY <1>4, <1>16 DEF Begin, ReuseSaved, Collect, Replace, Wake, Expire, Unused
<1>17. CASE LateArrival \/ JobEnds \/ JobForgotten \/ UNCHANGED vars
  BY <1>4, <1>17 DEF LateArrival, JobEnds, JobForgotten, vars, local, Unused
<1> QED
  BY <1>7, <1>8, <1>9, <1>10, <1>11, <1>12, <1>13, <1>14, <1>15, <1>16, <1>17
     DEF Next, Call, Submission, Collection, Environment

\* The requests stay within what may be charged.
LEMMA RequestsStep ==
    ASSUME ~ Idempotent, IInv, IInv', Charged, Charged', PhaseHeld, RequestsBounded, [Next]_vars
    PROVE  RequestsBounded'
<1>1. /\ Allowed \in Nat /\ Allowed' \in Nat /\ Allowed <= Allowed'
      /\ Charge => Allowed + 1 <= Allowed'
  BY AllowedType, AllowedTypeNext, ChargeStep DEF IInv
<1>2. /\ IsFiniteSet(late') /\ Requested \in Nat /\ Requested' \in Nat
      /\ Requested' <= Requested + 1
      /\ ~ (SubmitAdmitted \/ SubmitDelayed) => Requested' = Requested
  BY RequestedStep DEF RequestsBounded, IInv
<1>3. /\ SubmitAdmitted \/ SubmitDelayed => Unused /\ ~ Unused'
      /\ Unused' => Unused \/ Charge
  BY UnusedStep
<1>4. Requested + (IF Unused THEN 1 ELSE 0) <= Allowed
  BY DEF RequestsBounded
<1>5. Requested' + (IF Unused' THEN 1 ELSE 0) <= Allowed'
  <2>1. CASE SubmitAdmitted \/ SubmitDelayed
    <3>1. Requested + 1 <= Allowed
      BY <1>3, <1>4, <2>1
    <3>2. Requested' <= Allowed' /\ ~ Unused'
      BY <1>1, <1>2, <1>3, <2>1, <3>1
    <3> QED BY <1>2, <3>2
  <2>2. CASE ~ (SubmitAdmitted \/ SubmitDelayed)
    BY <1>1, <1>2, <1>3, <1>4, <2>2
  <2> QED BY <2>1, <2>2
<1> QED BY <1>2, <1>5 DEF RequestsBounded

\* Every job was charged for.
LEMMA ChargesAlways ==
    Spec => [](/\ Charged
               /\ Idempotent => Held /\ Wire /\ SeenBounded
               /\ ~ Idempotent => PhaseHeld /\ RequestsBounded)
<1> DEFINE Bounds == /\ Charged
                     /\ Idempotent => Held /\ Wire /\ SeenBounded
                     /\ ~ Idempotent => PhaseHeld /\ RequestsBounded
<1>1. Init => Bounds
  <2> SUFFICES ASSUME Init PROVE Bounds
    OBVIOUS
  <2>1. TypeOK /\ Charged
    <3>1. disk.infra = 0 /\ disk.device = 0 /\ waits = 0 /\ pc = "idle"
      BY DEF Init, NoCheckpoint
    <3> QED BY <3>1, InitialInvariant, GatewayAssumption DEF IInv, Charged
  <2>2. Allowed = 1
    <3>1. MaxWait * 0 = 0
      BY GatewayAssumption
    <3> QED BY <3>1 DEF Init, NoCheckpoint, Allowed, Waited, CallsOver
  <2>3. ASSUME Idempotent PROVE Held /\ Wire /\ SeenBounded
    <3>1. Jobs = {} /\ Keys = {NoKey}
      BY DEF Init, NoCheckpoint, Jobs, Keys, UnderWay
    <3>2. Held
      BY DEF Init, Held, NoCheckpoint, NoReply
    <3>3. Wire
      BY <3>1 DEF Init, UnderWay, Wire
    <3>4. SeenBounded
      <4>1. Seen = {}
        BY <3>1 DEF Seen
      <4> QED BY <2>2, <4>1, FS_EmptySet DEF SeenBounded
    <3> QED BY <3>2, <3>3, <3>4
  <2>4. PhaseHeld /\ RequestsBounded
    <3>1. Requested = 0 /\ IsFiniteSet(late)
      BY FS_EmptySet DEF Init, Requested
    <3> QED BY <2>2, <3>1 DEF Init, PhaseHeld, RequestsBounded
  <2> QED BY <2>1, <2>3, <2>4
<1>2. IInv /\ IInv' /\ [Next]_vars /\ Bounds => Bounds'
  <2> SUFFICES ASSUME IInv, IInv', [Next]_vars, Bounds PROVE Bounds'
    OBVIOUS
  <2>1. Charged'
    BY ChargeStep
  <2>2. ASSUME Idempotent PROVE (Held /\ Wire /\ SeenBounded)'
    BY <2>1, <2>2, HeldStep, WireStep, SeenStep DEF IInv
  <2>3. ASSUME ~ Idempotent PROVE (PhaseHeld /\ RequestsBounded)'
    BY <2>1, <2>3, PhaseHeldStep, RequestsStep
  <2> QED BY <2>1, <2>2, <2>3
<1> QED BY <1>1, <1>2, Invariant, PTL DEF Spec

\* Over the whole life of its checkpoint an identity costs no more GPU jobs than its
\* budgets allow, however often execute_job is called, killed or answered late, and
\* whether or not the transport has a wire key.
THEOREM JobsStayBounded == Spec => []JobsBounded
<1>1. ASSUME IInv, Charged,
             Idempotent => Held /\ Wire /\ SeenBounded,
             ~ Idempotent => PhaseHeld /\ RequestsBounded
      PROVE  JobsBounded
  <2>1. Len(jobs) \in Nat /\ Allowed \in Nat /\ invocations \in Nat
    BY <1>1, AllowedType DEF IInv, TypeOK
  <2>2. Len(jobs) <= Allowed
    <3>1. CASE Idempotent
      BY <1>1, <3>1, JobsAreSeen
    <3>2. CASE ~ Idempotent
      <4>1. Cardinality(late) \in Nat /\ Requested + (IF Unused THEN 1 ELSE 0) <= Allowed
        BY <1>1, <3>2, FS_CardinalityType DEF RequestsBounded
      <4> QED BY <2>1, <4>1 DEF Requested
    <3> QED BY <3>1, <3>2
  <2>3. Allowed <= 1 + MaxInfra + MaxDevice + MaxWait * invocations
    BY <1>1, AllowedBound
  <2>4. MaxWait * invocations \in Nat
    BY <2>1, WindowsOfCalls
  <2> QED BY <2>1, <2>2, <2>3, <2>4, GatewayAssumption DEF JobsBounded
<1> QED BY <1>1, Invariant, ChargesAlways, PTL

=============================================================================
