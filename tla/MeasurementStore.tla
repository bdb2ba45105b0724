--------------------------- MODULE MeasurementStore ---------------------------
(***************************************************************************)
(* One measurement task of aka.light.experiment: the reservation and the   *)
(* records of store.py, the request threads that go through records.py's   *)
(* execute, and the executor processes they start.                         *)
(*                                                                         *)
(* A task is the digest of a request; tasks share nothing.  Its lock file  *)
(* is held by one request of the Supervisor and released by the kernel     *)
(* when the Supervisor dies.  Its marker names the record it works on.  A  *)
(* record has frozen inputs, a directory of Gateway jobs per repetition    *)
(* and, in the end, record.json.  Executors run in a session of their own: *)
(* they end with the Supervisor only if the whole machine does.            *)
(***************************************************************************)
EXTENDS Integers, FiniteSets

CONSTANTS
    Caller,        \* request threads, of Agents and of trusted acceptance
    Nobody,        \* not a caller
    Repetitions,   \* measurement_repetitions
    MaxCalls,      \* bound: requests for this task, each of which makes at most one record
    MaxUnread,     \* bound: passed repetitions whose executor answers without a result
    MaxCrashes     \* bound: deaths of the Supervisor

ASSUME MeasurementAssumption ==
    /\ Nobody \notin Caller
    /\ Repetitions \in Nat \ {0}
    /\ MaxCalls \in Nat
    /\ MaxUnread \in Nat
    /\ MaxCrashes \in Nat

VARIABLES
    lock,       \* tasks/KEY.lock: the request that holds it
    marker,     \* tasks/KEY.json
    made,       \* records made so far
    verdict,    \* of each record: is record.json there, and cacheable?
    jobs,       \* of each record and repetition: its jobs/*/state.json
    active,     \* _active_tasks[KEY], in the memory of the Supervisor
    executors,  \* executor processes of this task
    pc, at, repetition, cacheable, pending,  \* of each request: execute's locals
    calls, unread, crashes, orphaned         \* bounds used; deaths that left executors

task == <<marker, made, verdict, jobs>>
locals == <<at, repetition, cacheable, pending>>
spent == <<calls, unread, crashes, orphaned>>
vars == <<lock, task, active, executors, pc, locals, spent>>

-----------------------------------------------------------------------------
(* Values *)

Record == 1 .. MaxCalls
Repetition == 1 .. Repetitions

\* The job evidence of one repetition: no job, a job that is not terminal, only
\* terminal jobs without a verdict (infrastructure, cancelled), or a completed
\* verdict for or against the candidate (after a rejection no repetition follows).
\* A native ABBA comparison that timed out twice is one against it.
Evidence == {"none", "open", "failed", "passed", "rejected"}
Complete == {"passed", "rejected"}
Terminal == Complete \cup {"failed"}

Verdict == {"none", "uncertain", "cacheable"}
Status == {"none", "running", "validation_pending", "completed", "not_cacheable"}
Resumable == {"running", "validation_pending"}
NoMarker == [status |-> "none", record |-> 0]

Location == {"idle", "lookup", "mark", "run", "wait", "record", "marked", "close",
             "leave"}

\* An executor's memory is the checkpoint it loaded and keeps writing; death
\* counts the death of the Supervisor that left it behind, 0 for none.
Executor == [record : Record, repetition : Repetition, owner : Caller \cup {Nobody},
             death : 0 .. MaxCrashes, mem : Evidence]

\* The record of the marker holds a verdict that _cached accepts.
Cached == marker.record # 0 /\ verdict[marker.record] = "cacheable"

\* The locals of a request end with it.
Forget(c) ==
    /\ pc' = [pc EXCEPT ![c] = "idle"]
    /\ at' = [at EXCEPT ![c] = 0]
    /\ repetition' = [repetition EXCEPT ![c] = 1]
    /\ cacheable' = [cacheable EXCEPT ![c] = FALSE]
    /\ pending' = [pending EXCEPT ![c] = FALSE]

\* The executor a request waits for.
Own(c) == {e \in executors : e.owner = c}

-----------------------------------------------------------------------------
(* reserve *)

\* Mutant: the executor of a request that fails is left alone.
LeaveExecutor(c) ==
    /\ active' = Nobody
    /\ lock' = Nobody
    /\ executors' = {IF e.owner = c THEN [e EXCEPT !.owner = Nobody] ELSE e :
                         e \in executors}
    /\ Forget(c)

\* Leaving the with statement, by return or exception: the active entry goes,
\* the lock is released.  run_gateway has killed its executor by then.
Leave(c) ==
    /\ active' = Nobody
    /\ lock' = Nobody
    /\ executors' = executors \ Own(c)
    /\ Forget(c)

Reserve(c) ==
    /\ pc[c] = "idle"
    /\ calls < MaxCalls
    /\ lock = Nobody
    /\ calls' = calls + 1
    /\ lock' = c
    /\ pc' = [pc EXCEPT ![c] = "lookup"]
    /\ UNCHANGED <<task, active, executors, locals, unread, crashes, orphaned>>

\* TaskRunning: the lock is held, or check_running sees the active call.
Refuse(c) ==
    /\ pc[c] = "idle"
    /\ calls < MaxCalls
    /\ lock # Nobody
    /\ calls' = calls + 1
    /\ UNCHANGED <<lock, task, active, executors, pc, locals, unread, crashes, orphaned>>

\* DuplicateTask: the record of the marker is the answer.
Reuse(c) ==
    /\ pc[c] = "lookup"
    /\ Cached
    /\ Leave(c)
    /\ UNCHANGED <<task, spent>>

\* Mutant: only a completed marker is looked up in the records.
ResumeUnlooked(c) ==
    /\ pc[c] = "lookup"
    /\ marker.status \in Resumable
    /\ at' = [at EXCEPT ![c] = marker.record]
    /\ pc' = [pc EXCEPT ![c] = "mark"]
    /\ UNCHANGED <<lock, task, active, executors, repetition, cacheable, pending, spent>>

\* An interrupted request's record is taken up again, with its jobs.
Resume(c) ==
    /\ pc[c] = "lookup"
    /\ ~ Cached
    /\ marker.status \in Resumable
    /\ at' = [at EXCEPT ![c] = marker.record]
    /\ pc' = [pc EXCEPT ![c] = "mark"]
    /\ UNCHANGED <<lock, task, active, executors, repetition, cacheable, pending, spent>>

\* Otherwise a new record is made, request.json before the marker names it.
NewRecord(c) ==
    /\ pc[c] = "lookup"
    /\ ~ Cached
    /\ marker.status \notin Resumable
    /\ made < MaxCalls
    /\ made' = made + 1
    /\ at' = [at EXCEPT ![c] = made + 1]
    /\ pc' = [pc EXCEPT ![c] = "mark"]
    /\ UNCHANGED <<lock, marker, verdict, jobs, active, executors,
                   repetition, cacheable, pending, spent>>

\* The marker names the record before anything is dispatched for it.
MarkRunning(c) ==
    /\ pc[c] = "mark"
    /\ marker' = [status |-> "running", record |-> at[c]]
    /\ active' = c
    /\ repetition' = [repetition EXCEPT ![c] = 1]
    /\ cacheable' = [cacheable EXCEPT ![c] = TRUE]
    /\ pending' = [pending EXCEPT ![c] = FALSE]
    /\ pc' = [pc EXCEPT ![c] = "run"]
    /\ UNCHANGED <<lock, made, verdict, jobs, executors, at, spent>>

-----------------------------------------------------------------------------
(* Executors: one run of the Gateway driver for one repetition *)

\* effects.run starts an executor, which loads the checkpoints of its directory.
Dispatch(c) ==
    /\ pc[c] = "run"
    /\ executors' = executors \cup
           {[record |-> at[c], repetition |-> repetition[c], owner |-> c,
             death |-> 0, mem |-> jobs[at[c]][repetition[c]]]}
    /\ pc' = [pc EXCEPT ![c] = "wait"]
    /\ UNCHANGED <<lock, task, active, locals, spent>>

\* The executor writes its checkpoint: a job was submitted or replaced (open), or
\* ended.  A verdict it loaded or wrote it does not touch.
Write(e, evidence) ==
    /\ jobs' = [jobs EXCEPT ![e.record][e.repetition] = evidence]
    /\ executors' = (executors \ {e}) \cup {[e EXCEPT !.mem = evidence]}
    /\ UNCHANGED <<lock, marker, made, verdict, active, pc, locals, spent>>

\* A failed job may be replaced, by this executor or by one that resumes it.
JobOpens(e) == e.mem \notin Complete /\ Write(e, "open")
JobEnds(e, evidence) == e.mem = "open" /\ evidence \in Terminal /\ Write(e, evidence)

\* Mutant: only a failure does not count.
CountsUnlessFailed(evidence) == evidence # "failed"

\* Is a repetition complete evidence (cacheable_job)?
Counts(evidence) == evidence \in Complete

\* Does another repetition follow?
Another(c, evidence) == evidence = "passed" /\ repetition[c] < Repetitions

\* Mutant: an executor is waited for until its job ends.
EndsWithJob(c) == \E e \in Own(c) : e.mem \in Terminal /\ executors' = executors \ {e}

\* The executor of a request ends, with its job or without it.
Ends(c) == \E e \in Own(c) : executors' = executors \ {e}

\* The executor's answer: one without the result of the job it waited for (it
\* failed itself, or the answer was truncated) ends the sequence.
Answers(evidence) ==
    IF evidence = "passed" /\ unread < MaxUnread THEN BOOLEAN ELSE {evidence = "passed"}

\* The states on disk and the answer decide whether the repetition counts and what
\* follows.
Collect(c) ==
    /\ pc[c] = "wait"
    /\ Ends(c)
    /\ LET evidence == jobs[at[c]][repetition[c]]
       IN \E answered \in Answers(evidence) :
          /\ unread' = IF evidence = "passed" /\ ~ answered THEN unread + 1 ELSE unread
          /\ pending' = [pending EXCEPT ![c] = @ \/ evidence = "open"]
          /\ cacheable' = [cacheable EXCEPT ![c] =
                 @ /\ Counts(evidence) /\ (evidence = "passed" => answered)]
          /\ IF answered /\ Another(c, evidence)
             THEN /\ repetition' = [repetition EXCEPT ![c] = @ + 1]
                  /\ pc' = [pc EXCEPT ![c] = "run"]
             ELSE /\ pc' = [pc EXCEPT ![c] = "record"]
                  /\ UNCHANGED repetition
    /\ UNCHANGED <<lock, task, active, at, calls, crashes, orphaned>>

\* An executor whose Supervisor is gone ends by itself.
OrphanEnds(e) ==
    /\ e.owner = Nobody
    /\ executors' = executors \ {e}
    /\ UNCHANGED <<lock, task, active, pc, locals, spent>>

-----------------------------------------------------------------------------
(* finish *)

\* A measurement under custom launcher values, or whose sealed response is no
\* complete evaluation, is recorded but not to be reused.
WriteRecord(c) ==
    /\ pc[c] = "record"
    /\ \E reusable \in {cacheable[c], FALSE} :
           /\ cacheable' = [cacheable EXCEPT ![c] = reusable]
           /\ verdict' = [verdict EXCEPT ![at[c]] =
                              IF reusable THEN "cacheable" ELSE "uncertain"]
    /\ pc' = [pc EXCEPT ![c] = "marked"]
    /\ UNCHANGED <<lock, marker, made, jobs, active, executors, at, repetition,
                   pending, spent>>

\* The marker keeps its reference should the validation meet an outage.
MarkPending(c) ==
    /\ pc[c] = "marked"
    /\ marker' = [status |-> "validation_pending", record |-> at[c]]
    /\ pc' = [pc EXCEPT ![c] = "close"]
    /\ UNCHANGED <<lock, made, verdict, jobs, active, executors, locals, spent>>

\* Mutant: a record whose jobs are not terminal is closed all the same.
CloseUnfinished(c) ==
    /\ pc[c] = "close"
    /\ marker' = [status |-> IF cacheable[c] THEN "completed" ELSE "not_cacheable",
                  record |-> at[c]]
    /\ pc' = [pc EXCEPT ![c] = "leave"]
    /\ UNCHANGED <<lock, made, verdict, jobs, active, executors, locals, spent>>

Close(c) ==
    /\ pc[c] = "close"
    /\ marker' = [status |-> IF pending[c] THEN "running"
                             ELSE IF cacheable[c] THEN "completed"
                             ELSE "not_cacheable",
                  record |-> at[c]]
    /\ pc' = [pc EXCEPT ![c] = "leave"]
    /\ UNCHANGED <<lock, made, verdict, jobs, active, executors, locals, spent>>

\* Outputs are published after the record; then the reservation ends.
Finish(c) ==
    /\ pc[c] = "leave"
    /\ Leave(c)
    /\ UNCHANGED <<task, spent>>

\* Every step may raise: storage that cannot be read or written, no slot before
\* the deadline, a deadline or revocation while the executor runs, a response
\* or record beyond its limit, a validation that fails.  What is on disk stays.
Abandon(c) ==
    /\ pc[c] # "idle"
    /\ Leave(c)
    /\ UNCHANGED <<task, spent>>

-----------------------------------------------------------------------------
(* The death of the Supervisor *)

Die ==
    /\ crashes < MaxCrashes
    /\ crashes' = crashes + 1
    /\ lock' = Nobody /\ active' = Nobody
    /\ pc' = [c \in Caller |-> "idle"]
    /\ at' = [c \in Caller |-> 0]
    /\ repetition' = [c \in Caller |-> 1]
    /\ cacheable' = [c \in Caller |-> FALSE]
    /\ pending' = [c \in Caller |-> FALSE]
    /\ UNCHANGED <<task, calls, unread>>

\* The machine goes down, executors and all.
Crash == Die /\ executors' = {} /\ UNCHANGED orphaned

\* The process alone is killed: its executor goes on, with nobody to wait for it.
Killed ==
    /\ \E e \in executors : e.owner # Nobody
    /\ Die
    /\ executors' = {IF e.owner = Nobody THEN e
                     ELSE [e EXCEPT !.owner = Nobody, !.death = crashes + 1] :
                         e \in executors}
    /\ orphaned' = orphaned + 1

-----------------------------------------------------------------------------
(* The specification *)

Init ==
    /\ lock = Nobody /\ active = Nobody /\ executors = {}
    /\ marker = NoMarker /\ made = 0
    /\ verdict = [r \in Record |-> "none"]
    /\ jobs = [r \in Record |-> [i \in Repetition |-> "none"]]
    /\ pc = [c \in Caller |-> "idle"]
    /\ at = [c \in Caller |-> 0]
    /\ repetition = [c \in Caller |-> 1]
    /\ cacheable = [c \in Caller |-> FALSE]
    /\ pending = [c \in Caller |-> FALSE]
    /\ calls = 0 /\ unread = 0 /\ crashes = 0 /\ orphaned = 0

Reservation(c) ==
    Reserve(c) \/ Refuse(c) \/ Reuse(c) \/ Resume(c) \/ NewRecord(c) \/ MarkRunning(c)
Measurement(c) ==
    Dispatch(c) \/ Collect(c) \/ WriteRecord(c) \/ MarkPending(c) \/ Close(c)
Execution(e) ==
    JobOpens(e) \/ (\E evidence \in Terminal : JobEnds(e, evidence)) \/ OrphanEnds(e)

Next ==
    \/ \E c \in Caller : Reservation(c) \/ Measurement(c) \/ Finish(c) \/ Abandon(c)
    \/ \E e \in executors : Execution(e)
    \/ Crash \/ Killed

Spec == Init /\ [][Next]_vars

\* A request that holds the reservation goes on; run_gateway stops waiting at the
\* deadline, so the end of an executor is part of that.  Nothing is asked of jobs.
Progress(c) ==
    Reuse(c) \/ Resume(c) \/ NewRecord(c) \/ MarkRunning(c) \/ Measurement(c) \/ Finish(c)
Fairness == \A c \in Caller : WF_vars(Progress(c))
FairSpec == Spec /\ Fairness

-----------------------------------------------------------------------------
(* Properties *)

\* Every variable has the type of what the store, the Supervisor and the
\* executors keep in it.
TypeOK ==
    /\ lock \in Caller \cup {Nobody} /\ active \in Caller \cup {Nobody}
    /\ marker \in [status : Status, record : 0 .. MaxCalls]
    /\ made \in 0 .. MaxCalls
    /\ verdict \in [Record -> Verdict]
    /\ jobs \in [Record -> [Repetition -> Evidence]]
    /\ executors \subseteq Executor
    /\ pc \in [Caller -> Location] /\ at \in [Caller -> 0 .. MaxCalls]
    /\ repetition \in [Caller -> Repetition]
    /\ cacheable \in [Caller -> BOOLEAN] /\ pending \in [Caller -> BOOLEAN]
    /\ calls \in 0 .. MaxCalls /\ unread \in 0 .. MaxUnread
    /\ crashes \in 0 .. MaxCrashes /\ orphaned \in 0 .. crashes

\* "A later filesystem error cannot cause a completed GPU task to run again"
\* (execute): once a task has a cacheable record it keeps it, as it is, and no
\* executor is started for the task, wherever the Supervisor died or failed
\* between writing the record and the marker that announces it.
Published == \E r \in Record : verdict[r] = "cacheable"
Started == {[record |-> e.record, owner |-> e.owner] : e \in {x \in executors : x.owner # Nobody}}
PublishedIsFinal ==
    [][Published => verdict' = verdict /\ made' = made /\ Started' \subseteq Started]_vars

\* While no Supervisor was killed over a running executor, a task has one
\* executor at most, and the request that holds its reservation waits for it:
\* the files of a Gateway job have one writer.
OneExecutor ==
    orphaned = 0 =>
        \A e \in executors : e.owner = lock /\ executors = {e}

\* "Accepted job ID, collection interrupted: Poll the same accepted job"
\* (docs/measurement-records.md): while no Supervisor was killed over a running
\* executor, the marker names the record of every job that is not terminal as one
\* to resume.  This fails: execute looks for pending jobs only in the repetitions
\* it went through, and an answer lost in an early one closes the record over the
\* job that an earlier request left in a later one.
InterruptedJobIsResumed ==
    orphaned = 0 =>
        \A r \in Record :
            (\E i \in Repetition : jobs[r][i] = "open") =>
                marker.record = r /\ marker.status \in Resumable

\* That is the one way to leave such a job behind: wherever requests failed, timed
\* out or died, the next one polls or settles it before any other job is paid for.
NothingAbandoned == unread = 0 => InterruptedJobIsResumed

\* "An incomplete or rejected repetition cannot become a successful median"
\* (docs/measurement-records.md): a cacheable record rests on complete evidence
\* of every repetition up to the last or up to the first rejection.
VerdictHasEvidence ==
    orphaned = 0 =>
        \A r \in Record : verdict[r] = "cacheable" =>
            \E last \in Repetition :
                /\ \A i \in 1 .. last - 1 : jobs[r][i] = "passed"
                /\ jobs[r][last] \in Complete
                /\ jobs[r][last] = "passed" => last = Repetitions

\* check_running sees a request from the moment it may dispatch until it leaves,
\* whoever else is refused meanwhile, and nobody sees one that is over.
RunningIsSeen ==
    active = IF lock # Nobody /\ pc[lock] \notin {"lookup", "mark"} THEN lock ELSE Nobody

\* Every request ends, although its jobs may never do.
CallsEnd == \A c \in Caller : pc[c] # "idle" ~> pc[c] = "idle"
=============================================================================
