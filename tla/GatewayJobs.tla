---------------------------- MODULE GatewayJobs ----------------------------
(***************************************************************************)
(* One physical GPU job of aka.light.execution.gateway_jobs: execute_job,  *)
(* invoked again and again for one identity, the checkpoint state.json it  *)
(* keeps, and the Gateway at the other end of the wire.                    *)
(*                                                                         *)
(* Two callers, one algorithm.  The direct HTTP transport submits under a  *)
(* wire key that the Gateway deduplicates (Idempotent); the Agate CLI has  *)
(* no such key.  The checkpoint is durable, what an invocation holds in    *)
(* memory is not, and the process may die between any two effects.  Time   *)
(* is one bit: has the deadline of the current wait window passed?         *)
(***************************************************************************)
EXTENDS Integers, Sequences, FiniteSets

CONSTANTS
    Idempotent,      \* idempotent_submission
    MaxInfra,        \* max_infra_retries
    MaxDevice,       \* max_device_retries
    MaxWait,         \* max_wait_retries
    MaxInvocations,  \* bound: calls of execute_job for this identity
    MaxCrashes,      \* bound: process deaths
    MaxLate,         \* bound: requests that reach the Gateway after their caller gave up
    MaxForgotten     \* bound: jobs the Gateway drops

ASSUME GatewayAssumption ==
    /\ Idempotent \in BOOLEAN
    /\ MaxInfra \in Nat
    /\ MaxDevice \in Nat
    /\ MaxWait \in Nat
    /\ MaxInvocations \in Nat
    /\ MaxCrashes \in Nat
    /\ MaxLate \in Nat
    /\ MaxForgotten \in Nat

VARIABLES
    disk,      \* state.json of this identity
    pc,        \* where the invocation is
    mem,       \* its state, retries and wire_key
    waits,     \* wait_retries
    probe,     \* probe_saved_job
    expired,   \* has its deadline passed?
    reply,     \* the answer to its last submission
    jobs,      \* the Gateway: every job it admitted
    late,      \* the wire: submissions still under way
    invocations, crashes, delayed   \* how much of each bound is used

local == <<pc, mem, waits, probe, expired, reply>>
gateway == <<jobs, late>>
spent == <<invocations, crashes, delayed>>
vars == <<disk, local, gateway, spent>>

-----------------------------------------------------------------------------
(* Values *)

Status == {"live", "final", "infra", "device"}
Phase == {"none", "submitting", "accepted", "terminal", "rejected", "retry_pending"}

\* A wire key by its derivation, equal derivations being equal digests: a fresh
\* uuid of one invocation, or the replacement key of a job; waits counts the
\* times it was hashed once more because a wait window closed over it.
Key == [kind : {"none", "uuid", "infra", "device", "wait"}, of : Nat,
        uuid : Nat, waits : Nat]
NoKey == [kind |-> "none", of |-> 0, uuid |-> 0, waits |-> 0]
FreshKey(n) == [kind |-> "uuid", of |-> 0, uuid |-> n, waits |-> 0]
ReplacementKey(kind, job) == [kind |-> kind, of |-> job, uuid |-> 0, waits |-> 0]

\* The saved process of a checkpoint is the job it names (0 for none) and the
\* outcome it carries ("live" until it is terminal).
Checkpoint == [phase : Phase, job : Nat, outcome : Status, key : Key,
               infra : Nat, device : Nat]
NoCheckpoint == [phase |-> "none", job |-> 0, outcome |-> "live", key |-> NoKey,
                 infra |-> 0, device |-> 0]

Job == [key : Key, status : Status, kept : BOOLEAN]
\* A request on the wire: its key, and which of the delayed ones it is.
Request == [key : Key, nth : Nat]
Reply == [kind : {"none", "job", "uncertain", "permanent", "retryable"}, job : Nat]
NoReply == [kind |-> "none", job |-> 0]
Location == {"idle", "loop", "submit", "replied", "poll", "collected", "classify",
             "resubmit", "sleep"}

Jobs == DOMAIN jobs
UnderWay == {request.key : request \in late}

AtPhase(phase) == [mem EXCEPT !.phase = phase, !.job = 0, !.outcome = "live"]

-----------------------------------------------------------------------------
(* The end of an invocation, by return, exception or death *)

Leave ==
    /\ pc' = "idle"
    /\ mem' = NoCheckpoint
    /\ waits' = 0
    /\ probe' = FALSE
    /\ expired' = FALSE
    /\ reply' = NoReply

\* The key of the next wait window: derived from the job given up, or from the
\* key whose submission was never confirmed.
WaitKey(job) ==
    IF ~Idempotent THEN NoKey
    ELSE IF job # 0 THEN ReplacementKey("wait", job)
    ELSE [mem.key EXCEPT !.waits = @ + 1]

\* Mutant: wait_retries is not counted.
UncountedRetryWait(job) ==
    /\ waits < MaxWait
    /\ expired' = FALSE
    /\ mem' = [AtPhase("retry_pending") EXCEPT !.key = WaitKey(job)]
    /\ disk' = mem'
    /\ pc' = "loop"
    /\ probe' = (probe /\ pc # "poll")
    /\ UNCHANGED <<waits, reply>>

\* retry_wait: one more wait window with a fresh submission, durably announced.
RetryWait(job) ==
    /\ waits < MaxWait
    /\ waits' = waits + 1
    /\ expired' = FALSE
    /\ mem' = [AtPhase("retry_pending") EXCEPT !.key = WaitKey(job)]
    /\ disk' = mem'
    /\ pc' = "loop"
    /\ probe' = (probe /\ pc # "poll")
    /\ UNCHANGED reply

\* Without a retry left the checkpoint stays as it is for a later invocation.
RetryWaitOrLeave(job) ==
    \/ RetryWait(job)
    \/ waits >= MaxWait /\ Leave /\ UNCHANGED disk

-----------------------------------------------------------------------------
(* The invocation *)

\* A call reads the checkpoint; without one it draws a fresh wire key.
Begin ==
    /\ pc = "idle"
    /\ invocations < MaxInvocations
    /\ disk.phase = "submitting" => Idempotent
    /\ mem' = IF Idempotent /\ disk.key = NoKey
              THEN [disk EXCEPT !.key = FreshKey(invocations + 1)]
              ELSE disk
    /\ probe' = (disk.phase = "accepted")
    /\ pc' = "loop"
    /\ invocations' = invocations + 1
    /\ UNCHANGED <<disk, waits, expired, reply, gateway, crashes, delayed>>

\* Mutant: the recovery of an unconfirmed submission is not charged.
BeginUncharged ==
    /\ pc = "idle"
    /\ invocations < MaxInvocations
    /\ ~Idempotent /\ disk.phase = "submitting"
    /\ invocations' = invocations + 1
    /\ mem' = [disk EXCEPT !.phase = "retry_pending", !.job = 0]
    /\ disk' = mem'
    /\ pc' = "loop"
    /\ UNCHANGED <<waits, probe, expired, reply, gateway, crashes, delayed>>

\* A CLI submission that never confirmed a job ID: one wait retry is charged
\* and the request goes out again, or the call fails where none is allowed.
BeginUnconfirmed ==
    /\ pc = "idle"
    /\ invocations < MaxInvocations
    /\ ~Idempotent /\ disk.phase = "submitting"
    /\ invocations' = invocations + 1
    /\ \/ /\ MaxWait > 0
          /\ waits' = 1
          /\ mem' = [disk EXCEPT !.phase = "retry_pending", !.job = 0]
          /\ disk' = mem'
          /\ pc' = "loop"
       \/ /\ MaxWait = 0
          /\ UNCHANGED <<waits, mem, disk, pc>>
    /\ UNCHANGED <<probe, expired, reply, gateway, crashes, delayed>>

\* Mutant: the deadline is renewed without opening a counted wait window.
DeadlineRenewed ==
    /\ pc = "loop" /\ expired
    /\ expired' = FALSE
    /\ UNCHANGED <<disk, pc, mem, waits, probe, reply, gateway, spent>>

\* The top of the loop past its deadline.
DeadlineReached ==
    /\ pc = "loop" /\ expired
    /\ RetryWaitOrLeave(mem.job)
    /\ UNCHANGED <<gateway, spent>>

\* A saved job is used before anything is submitted.
ReuseSaved ==
    /\ pc = "loop" /\ ~expired
    /\ mem.phase \in {"accepted", "terminal"}
    /\ pc' = IF mem.phase = "accepted" THEN "poll" ELSE "classify"
    /\ UNCHANGED <<disk, mem, waits, probe, expired, reply, gateway, spent>>

\* Mutant: the request goes out before its key is saved.
SubmitUnannounced ==
    /\ pc = "loop" /\ ~expired
    /\ mem.phase \notin {"accepted", "terminal"}
    /\ pc' = "submit"
    /\ UNCHANGED <<disk, mem, waits, probe, expired, reply, gateway, spent>>

\* Mutant: only an accepted job stops a new submission.
SubmitPastTerminal ==
    /\ pc = "loop" /\ ~expired
    /\ mem.phase # "accepted"
    /\ disk' = AtPhase("submitting")
    /\ pc' = "submit"
    /\ UNCHANGED <<mem, waits, probe, expired, reply, gateway, spent>>

\* The intent and its key are on disk before the request is on the wire.
AnnounceSubmission ==
    /\ pc = "loop" /\ ~expired
    /\ mem.phase \notin {"accepted", "terminal"}
    /\ disk' = AtPhase("submitting")
    /\ pc' = "submit"
    /\ UNCHANGED <<mem, waits, probe, expired, reply, gateway, spent>>

-----------------------------------------------------------------------------
(* The wire and the Gateway, as the transports use them *)

\* Admission: a wire key names at most one job, a CLI request always a new one.
Known(key) == {j \in Jobs : Idempotent /\ jobs[j].key = key}
AdmittedJob(key) == IF Known(key) = {} THEN Len(jobs) + 1 ELSE CHOOSE j \in Known(key) : TRUE
Admit(key) ==
    jobs' = IF Known(key) = {}
            THEN Append(jobs, [key |-> key, status |-> "live", kept |-> TRUE])
            ELSE jobs

Replied(kind, job) == reply' = [kind |-> kind, job |-> job]

\* The request is admitted and its answer arrives, or gets lost.
SubmitAdmitted ==
    /\ pc = "submit"
    /\ Admit(mem.key)
    /\ \/ Replied("job", AdmittedJob(mem.key))
       \/ Replied("uncertain", 0)
    /\ pc' = "replied"
    /\ UNCHANGED <<disk, mem, waits, probe, expired, late, spent>>

\* The request is refused, or never arrives.
SubmitRefused ==
    /\ pc = "submit"
    /\ \E kind \in {"uncertain", "permanent", "retryable"} : Replied(kind, 0)
    /\ pc' = "replied"
    /\ UNCHANGED <<disk, mem, waits, probe, expired, gateway, spent>>

\* The caller gives the request up while it is still under way.
SubmitDelayed ==
    /\ pc = "submit"
    /\ delayed < MaxLate
    /\ delayed' = delayed + 1
    /\ late' = late \cup {[key |-> mem.key, nth |-> delayed']}
    /\ Replied("uncertain", 0)
    /\ pc' = "replied"
    /\ UNCHANGED <<disk, mem, waits, probe, expired, jobs, invocations, crashes>>

LateArrival ==
    \E request \in late :
        /\ Admit(request.key)
        /\ late' = late \ {request}
        /\ UNCHANGED <<disk, local, spent>>

JobEnds ==
    \E j \in Jobs, status \in Status \ {"live"} :
        /\ jobs[j].status = "live"
        /\ jobs' = [jobs EXCEPT ![j].status = status]
        /\ UNCHANGED <<disk, local, late, spent>>

\* The Gateway loses track of a job, running or ended.
JobForgotten ==
    \E j \in Jobs :
        /\ jobs[j].kept
        /\ Cardinality({k \in Jobs : ~jobs[k].kept}) < MaxForgotten
        /\ jobs' = [jobs EXCEPT ![j].kept = FALSE]
        /\ UNCHANGED <<disk, local, late, spent>>

-----------------------------------------------------------------------------
(* The answer and the result *)

\* A job ID, whatever came with it, makes the submission an accepted job.
SaveAccepted ==
    /\ pc = "replied" /\ reply.kind = "job"
    /\ mem' = [mem EXCEPT !.phase = "accepted", !.job = reply.job, !.outcome = "live"]
    /\ disk' = mem'
    /\ reply' = NoReply
    /\ pc' = "poll"
    /\ UNCHANGED <<waits, probe, expired, gateway, spent>>

\* No ID and no rejection.  The CLI returns the uncertainty; the direct
\* transport sends the same key again after its backoff, time permitting.
SaveUncertain ==
    /\ pc = "replied" /\ reply.kind = "uncertain"
    /\ disk' = AtPhase("submitting")
    /\ \/ Leave
       \/ /\ Idempotent /\ ~expired
          /\ pc' = "sleep"
          /\ reply' = NoReply
          /\ UNCHANGED <<mem, waits, probe, expired>>
    /\ UNCHANGED <<gateway, spent>>

SaveRejected ==
    /\ pc = "replied" /\ reply.kind \in {"permanent", "retryable"}
    /\ disk' = AtPhase("rejected")
    /\ \/ reply.kind = "permanent" /\ Leave
       \/ /\ reply.kind = "retryable"
          /\ mem' = AtPhase("rejected")
          /\ reply' = NoReply
          /\ pc' = "resubmit"
          /\ UNCHANGED <<waits, probe, expired>>
    /\ UNCHANGED <<gateway, spent>>

\* A terminal result arrives.
Collect ==
    /\ pc = "poll"
    /\ jobs[mem.job].kept /\ jobs[mem.job].status # "live"
    /\ probe' = FALSE
    /\ pc' = "collected"
    /\ UNCHANGED <<disk, mem, waits, expired, reply, gateway, spent>>

\* The Gateway does not know the accepted job.
CollectMissing ==
    /\ pc = "poll"
    /\ ~jobs[mem.job].kept
    /\ RetryWaitOrLeave(mem.job)
    /\ UNCHANGED <<gateway, spent>>

\* The one-shot probe of a recovered job found it unfinished or unreadable, or
\* the window of a job closed over it.
CollectNothing ==
    /\ pc = "poll"
    /\ probe \/ expired
    /\ RetryWaitOrLeave(mem.job)
    /\ UNCHANGED <<gateway, spent>>

\* A permanent error of the collecting request: the direct transport lets it
\* through, the CLI reports it like an unfinished job.
CollectFails ==
    /\ pc = "poll"
    /\ IF Idempotent THEN Leave /\ UNCHANGED disk ELSE RetryWaitOrLeave(mem.job)
    /\ UNCHANGED <<gateway, spent>>

SaveTerminal ==
    /\ pc = "collected"
    /\ mem' = [mem EXCEPT !.phase = "terminal", !.outcome = jobs[mem.job].status]
    /\ disk' = mem'
    /\ pc' = "classify"
    /\ UNCHANGED <<waits, probe, expired, reply, gateway, spent>>

\* May this outcome be replaced by one more job?
Retryable(state) ==
    \/ state.outcome = "infra" /\ state.infra < MaxInfra
    \/ state.outcome = "device" /\ state.device < MaxDevice

\* A verdict is returned; an exhausted failure is returned or raised.
Decide ==
    /\ pc = "classify"
    /\ ~Retryable(mem)
    /\ Leave
    /\ UNCHANGED <<disk, gateway, spent>>

\* The replacement gets a key derived from the failed job.
Replace ==
    /\ pc = "classify"
    /\ Retryable(mem)
    /\ mem' = [mem EXCEPT !.key = IF Idempotent THEN ReplacementKey(mem.outcome, mem.job)
                                  ELSE NoKey]
    /\ pc' = "resubmit"
    /\ UNCHANGED <<disk, waits, probe, expired, reply, gateway, spent>>

\* Counter, backoff check against the deadline, checkpoint, backoff.
Resubmit ==
    /\ pc = "resubmit"
    /\ ~expired
    /\ mem' = [AtPhase("retry_pending") EXCEPT
                  !.infra = @ + (IF mem.outcome = "infra" THEN 1 ELSE 0),
                  !.device = @ + (IF mem.outcome = "device" THEN 1 ELSE 0)]
    /\ disk' = mem'
    /\ pc' = "sleep"
    /\ UNCHANGED <<waits, probe, expired, reply, gateway, spent>>

NoTimeToResubmit ==
    /\ pc = "resubmit"
    /\ Leave
    /\ UNCHANGED <<disk, gateway, spent>>

Wake ==
    /\ pc = "sleep"
    /\ pc' = "loop"
    /\ UNCHANGED <<disk, mem, waits, probe, expired, reply, gateway, spent>>

\* The loop is entered with its whole budget: the first check of a deadline
\* follows at once on its computation.
Expire ==
    /\ pc \notin {"idle", "loop"}
    /\ ~expired
    /\ expired' = TRUE
    /\ UNCHANGED <<disk, pc, mem, waits, probe, reply, gateway, spent>>

Crash ==
    /\ pc # "idle"
    /\ crashes < MaxCrashes
    /\ crashes' = crashes + 1
    /\ Leave
    /\ UNCHANGED <<disk, gateway, invocations, delayed>>

-----------------------------------------------------------------------------
(* The specification *)

Init ==
    /\ disk = NoCheckpoint
    /\ pc = "idle" /\ mem = NoCheckpoint /\ waits = 0
    /\ probe = FALSE /\ expired = FALSE /\ reply = NoReply
    /\ jobs = <<>> /\ late = {}
    /\ invocations = 0 /\ crashes = 0 /\ delayed = 0

Call == Begin \/ BeginUnconfirmed

Submission ==
    \/ DeadlineReached \/ ReuseSaved \/ AnnounceSubmission
    \/ SubmitAdmitted \/ SubmitRefused \/ SubmitDelayed
    \/ SaveAccepted \/ SaveUncertain \/ SaveRejected

Collection ==
    \/ Collect \/ CollectMissing \/ CollectNothing \/ CollectFails \/ SaveTerminal
    \/ Decide \/ Replace \/ Resubmit \/ NoTimeToResubmit \/ Wake

Environment == LateArrival \/ JobEnds \/ JobForgotten \/ Expire \/ Crash

Next == Call \/ Submission \/ Collection \/ Environment

Spec == Init /\ [][Next]_vars

\* The process runs and its clock advances.  Strong fairness of Expire says that
\* a window does not outlast infinitely many backoffs, each of which sleeps at
\* least five seconds of it; the step is disabled in passing at the top of the
\* loop.  Nothing is asked of the Gateway, not even that a job ever ends.
Fairness == WF_vars(Submission \/ Collection) /\ SF_vars(Expire)
FairSpec == Spec /\ Fairness

-----------------------------------------------------------------------------
(* Properties *)

\* Every variable has the type of what execute_job and the Gateway keep in it.
TypeOK ==
    /\ disk \in Checkpoint /\ mem \in Checkpoint
    /\ pc \in Location
    /\ waits \in Nat /\ probe \in BOOLEAN /\ expired \in BOOLEAN
    /\ reply \in Reply
    /\ jobs \in Seq(Job) /\ late \subseteq Request
    /\ invocations \in Nat /\ crashes \in Nat /\ delayed \in Nat

\* However often it is called, killed and answered late, one identity costs one
\* job, its infrastructure and device budgets, and one replacement per wait
\* window that each call may abandon: the "bounded fresh submission" of
\* execute_job's docstring, over the whole life of the checkpoint.
JobsBounded ==
    Len(jobs) <= 1 + MaxInfra + MaxDevice + MaxWait * invocations

\* A job is replaced as an infrastructure or device failure only if that is how
\* it ended, never because it was cancelled, rejected the candidate or still ran
\* (retry_kind, embedded_device_failure).
KnownOutcome ==
    \A j \in Jobs : jobs[j].key.kind \in {"infra", "device"} =>
        /\ jobs[j].key.of \in Jobs
        /\ jobs[jobs[j].key.of].status = jobs[j].key.kind

\* Has a wait window been closed over job j?
GivenUp(j) ==
    \E key \in {disk.key} \cup {jobs[k].key : k \in Jobs} \cup UnderWay :
        \/ key.kind = "wait" /\ key.of = j
        \/ [key EXCEPT !.waits = jobs[j].key.waits] = jobs[j].key /\ key.waits > jobs[j].key.waits

\* No GPU job runs unaccounted: it is the job of the checkpoint, or the
\* checkpoint's wire key finds it again, or a wait window was closed over it.
\* In particular a death between a POST and the write of its answer loses none.
LiveJobsAccounted ==
    \A j \in Jobs : jobs[j].status = "live" =>
        disk.job = j \/ disk.key = jobs[j].key \/ GivenUp(j)

\* A saved verdict is final: no later call submits, polls or rewrites anything
\* ("terminal" checkpoints are reused).
DecidedIsFinal ==
    [][disk.phase = "terminal" /\ ~Retryable(disk) =>
         disk' = disk /\ pc' \notin {"submit", "poll"}]_vars

\* Every call of execute_job comes to an end, whatever the Gateway does: each
\* wait window closes and only MaxWait more are opened.
InvocationsEnd == pc # "idle" ~> pc = "idle"
=============================================================================
