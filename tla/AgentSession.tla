---------------------------- MODULE AgentSession ----------------------------
(***************************************************************************)
(* One Episode's coding session: LongSessionRunner (workflow/session.py)   *)
(* launches the Agent turn after turn, run_bounded (agent/runtime/         *)
(* process.py) supervises each launch against the Episode's active-time    *)
(* budget, and the Supervisor Runtime (runtime/server.py) serves the       *)
(* requests the Agent sends over HTTP, stopping its process tree while it  *)
(* does (agent/execution_clock.py).                                        *)
(*                                                                         *)
(* Threads: the runner, one handler per request, the host that may close   *)
(* the Runtime.  A launch ("turn") has a capability and a SessionControl   *)
(* of its own; a request keeps those of the turn that sent it.             *)
(***************************************************************************)
EXTENDS Integers, FiniteSets

CONSTANTS
    Requests,       \* the requests of a behaviour, each sent at most once
    Journal,        \* those that report to the Journal; the others run the Gateway
    Slots,          \* max_workers
    Allowances,     \* handoff_resumes and output_limit_recovery_retries, and a bound:
                    \* the turns the provider throttles
    Budget,         \* episode_timeout_seconds, in ticks
    TurnLimit,      \* the active-time limit of one launch, in ticks
    MaxPause        \* bound: ticks of one suspension

ASSUME SessionAssumption ==
    /\ Journal \subseteq Requests
    /\ Slots \in Nat \ {0}
    /\ Allowances \subseteq [resumes : Nat, recoveries : Nat, rates : Nat]
    /\ Budget \in Nat \ {0} /\ TurnLimit \in Nat \ {0}
    /\ MaxPause \in Nat

VARIABLES
    turn,      \* the launch under way or last ended; 0 before the first
    phase,     \* where the runner is, see Phase
    exit,      \* how the wait for the Agent ended
    tree,      \* the Provider's processes: "none", "running", "stopped", "dead"
    control,   \* the turn's SessionControl, see Control
    live,      \* is the turn's capability registered?
    runtime,   \* "open", "closing" (capabilities dropped), "closed"
    handler,   \* of each request, where its handler is
    of,        \* of each request, the turn that sent it
    report,    \* the Journal: "none", "saved" (finalised), "published" (handoff.json)
    published, \* the last turn whose draft was published
    runner,    \* the locals of _run, see Runner
    used,      \* ActiveBudget.used
    result,    \* how the run ended: "none", "returned", "raised"
    ran,       \* history: ticks the Agent ran in this turn
    spent      \* history: and in all

launch == <<turn, exit>>
session == <<live, runtime, published>>
requests == <<handler, of, report>>
loop == <<runner, used, result>>
history == <<ran, spent>>
vars == <<turn, phase, exit, tree, control, live, runtime, handler, of, report,
          published, runner, used, result, ran, spent>>

Kind == {"ok", "error", "sigterm", "rate_limit", "output_limit"}
Phase == {"top", "granting", "spawning", "attaching", "running", "drained", "leaving", "revoked",
          "judging", "over"}
Minimum(a, b) == IF a < b THEN a ELSE b

-----------------------------------------------------------------------------
(* SessionControl.  `since` is now - started - wait_seconds and `paused`   *)
(* is now - paused_since.                                                  *)

Unfinished == -1
NewControl == [since |-> 0, paused |-> 0, finished |-> Unfinished, closed |-> FALSE]

\* Handlers between the entry and the exit of SessionControl.request(), and the locks
\* they hold there.
JournalHeld == {"writing", "publishing"}
LockHeld == {"slot_wait", "executing", "journal_wait"} \cup JournalHeld
Suspended == {"queued", "leaving"} \cup LockHeld

In(states) == {r \in Requests : handler[r] \in states}
Pending == {r \in In(Suspended) : of[r] = turn}

ActiveSeconds ==
    IF control.finished # Unfinished THEN control.finished ELSE control.since - control.paused

Remaining == IF Budget > used THEN Budget - used ELSE 0
Limit == Minimum(TurnLimit, Remaining)

\* close(): the other readings are not used again.
Closed == [since |-> 0, paused |-> 0, finished |-> ActiveSeconds, closed |-> TRUE]

\* kill(): close, then stop and kill the whole tree.
Kill ==
    /\ control' = Closed
    /\ tree' = IF tree = "none" THEN "none" ELSE "dead"

\* A request whose turn is over finds its own control closed.
Attached == phase \in {"running", "drained"}
ControlClosed(r) == of[r] # turn \/ control.closed
Live(r) == live /\ of[r] = turn

-----------------------------------------------------------------------------
(* A request, do_POST: authenticate, suspend, capability.lock, execute.    *)

To(r, state) ==
    /\ handler' = [handler EXCEPT ![r] = state]
    /\ of' = [of EXCEPT ![r] = IF state = "done" THEN 0 ELSE @]
SupervisorUnchanged ==
    UNCHANGED <<phase, launch, session, loop, history>>
OnlyHandler == SupervisorUnchanged /\ UNCHANGED <<tree, control, report>>

Send(r) ==
    /\ handler[r] = "none" /\ tree = "running"
    /\ handler' = [handler EXCEPT ![r] = "sent"]
    /\ of' = [of EXCEPT ![r] = turn]
    /\ SupervisorUnchanged /\ UNCHANGED <<tree, control, report>>

Authenticate(r) ==
    /\ handler[r] = "sent"
    /\ To(r, IF Live(r) THEN "arrived" ELSE "done")
    /\ OnlyHandler

\* request(): wait for the launch to attach, then stop its tree.
Refuse(r) ==
    /\ handler[r] = "arrived" /\ ControlClosed(r)
    /\ To(r, "done")
    /\ OnlyHandler

\* Mutant: every request begins the pause anew.
SuspendAnew(r) ==
    /\ handler[r] = "arrived" /\ ~ControlClosed(r) /\ Attached
    /\ To(r, "queued")
    /\ tree' = IF tree = "running" THEN "stopped" ELSE tree
    /\ control' = [control EXCEPT !.paused = 0]
    /\ SupervisorUnchanged /\ UNCHANGED report

Suspend(r) ==
    /\ handler[r] = "arrived" /\ ~ControlClosed(r) /\ Attached
    /\ \/ /\ To(r, "queued")
          /\ tree' = IF tree = "running" THEN "stopped" ELSE tree
          /\ UNCHANGED control
       \/ /\ To(r, "done")                          \* a signal failed
          /\ tree' = "dead"
          /\ control' = [control EXCEPT !.closed = TRUE]
    /\ SupervisorUnchanged /\ UNCHANGED report

\* Mutant: the first one out resumes the tree.
FirstOut(r) == r \in Pending

\* The end of request(): the last one out accounts for the pause and resumes the tree.
LastOut(r) == Pending = {r}

\* Mutant: the tree is resumed though the control has been closed.
ReleaseClosed(r) ==
    /\ handler[r] = "leaving"
    /\ To(r, "done")
    /\ IF LastOut(r)
       THEN /\ control' = [control EXCEPT !.since = @ - control.paused, !.paused = 0]
            /\ tree' = IF tree = "stopped" THEN "running" ELSE tree
       ELSE UNCHANGED <<control, tree>>
    /\ SupervisorUnchanged /\ UNCHANGED report

Release(r) ==
    /\ handler[r] = "leaving"
    /\ To(r, "done")
    /\ IF LastOut(r)
       THEN LET resumed == [control EXCEPT !.since = @ - control.paused, !.paused = 0] IN
            \/ /\ control' = resumed
               /\ tree' = IF tree = "stopped" /\ ~control.closed THEN "running" ELSE tree
            \/ /\ ~control.closed                   \* SIGCONT failed
               /\ control' = Closed
               /\ tree' = "dead"
       ELSE UNCHANGED <<control, tree>>
    /\ SupervisorUnchanged /\ UNCHANGED report

\* capability.lock, one request of a session at a time; under it the capability is looked
\* up again.
Lock(r) ==
    /\ handler[r] = "queued"
    /\ \A q \in In(LockHeld) : of[q] # of[r]
    /\ To(r, IF ~Live(r) THEN "leaving" ELSE IF r \in Journal THEN "journal_wait" ELSE "slot_wait")
    /\ OnlyHandler

\* run_gateway: a slot, and the executor, for a session that is still live.
StartExecutor(r) ==
    /\ handler[r] = "slot_wait" /\ Cardinality(In({"executing"})) < Slots
    /\ To(r, IF Live(r) THEN "executing" ELSE "leaving")
    /\ OnlyHandler

\* Mutant: no second look at the capability once binding.lock is held.
OpenJournalUnchecked(r) ==
    /\ handler[r] = "journal_wait" /\ In(JournalHeld) = {}
    /\ To(r, "writing")
    /\ OnlyHandler

\* execute_journal: binding.lock, then the capability once more.
OpenJournal(r) ==
    /\ handler[r] = "journal_wait" /\ In(JournalHeld) = {}
    /\ To(r, IF Live(r) THEN "writing" ELSE "leaving")
    /\ OnlyHandler

\* Mutant: an executor that started has no deadline.
GiveUpWaiting(r) ==
    /\ handler[r] \in {"queued", "slot_wait", "journal_wait"}
    /\ To(r, "leaving")
    /\ OnlyHandler

\* The deadline passes or the session is revoked: _acquire() gives up, run_gateway kills
\* the executor.
GiveUp(r) ==
    /\ handler[r] \in {"queued", "slot_wait", "executing", "journal_wait"}
    /\ To(r, "leaving")
    /\ OnlyHandler

\* The executor ends.
Finish(r) ==
    /\ handler[r] = "executing"
    /\ To(r, "leaving")
    /\ OnlyHandler

\* _submit_report: refused, or finalised; a repeated report republishes the handoff.
SaveReport(r) ==
    /\ handler[r] = "writing"
    /\ \/ To(r, "leaving") /\ UNCHANGED report
       \/ To(r, "publishing") /\ report' = (IF report = "none" THEN "saved" ELSE report)
    /\ SupervisorUnchanged /\ UNCHANGED <<tree, control>>

PublishReport(r) ==
    /\ handler[r] = "publishing"
    /\ To(r, "leaving")
    /\ report' \in {report, "published"}            \* or the write fails
    /\ SupervisorUnchanged /\ UNCHANGED <<tree, control>>

-----------------------------------------------------------------------------
(* A launch: run_bounded within SupervisorRuntime.session.                 *)

RequestsUnchanged == UNCHANGED requests
Idle == UNCHANGED <<loop, history>> /\ RequestsUnchanged

\* The token is registered, unless the Runtime is closed.
Grant ==
    /\ phase = "granting" /\ In(JournalHeld) = {}
    /\ IF runtime = "open"
       THEN /\ live' = TRUE /\ phase' = "spawning"
            /\ UNCHANGED <<runner, used, result>>
       ELSE /\ result' = "raised" /\ phase' = "over"
            /\ UNCHANGED <<live, runner, used>>
    /\ UNCHANGED <<launch, tree, control, runtime, published, history>> /\ RequestsUnchanged

\* The Agent is spawned; preparing it may fail instead.
Spawn ==
    /\ phase = "spawning"
    /\ \/ phase' = "attaching" /\ tree' = "running" /\ UNCHANGED <<exit, control>>
       \/ phase' = "leaving" /\ exit' = "failed" /\ control' = Closed /\ UNCHANGED tree
    /\ UNCHANGED <<turn, session>> /\ Idle

\* attach() refuses a closed control and may fail to inspect the tree.
Attach ==
    /\ phase = "attaching"
    /\ \/ ~control.closed /\ phase' = "running" /\ UNCHANGED <<exit, tree, control>>
       \/ phase' = "leaving" /\ exit' = "failed" /\ Kill
    /\ UNCHANGED <<turn, session>> /\ Idle

\* The Agent leaves, or is killed from outside; children of it may stay, stopped or not.
AgentExits ==
    /\ phase = "running" /\ tree \in {"running", "stopped"}
    /\ phase' = "drained"
    /\ tree' \in {tree, "dead"}
    /\ UNCHANGED <<launch, control, session>> /\ Idle

PipesClose ==
    /\ phase = "running" /\ tree = "dead"
    /\ phase' = "drained"
    /\ UNCHANGED <<launch, tree, control, session>> /\ Idle

\* The end of the wait: the control is closed, its tree killed unless the Agent ended by
\* itself, and the Episode charged.
EndWait(how) ==
    /\ phase' = "leaving" /\ exit' = how
    /\ used' = used + ActiveSeconds
    /\ UNCHANGED <<turn, session, runner, result, history>> /\ RequestsUnchanged

Communicated ==
    /\ phase = "drained"
    /\ control' = Closed /\ UNCHANGED tree
    /\ EndWait("eof")

TimeOut ==
    /\ phase \in {"running", "drained"} /\ ActiveSeconds >= Limit
    /\ Kill
    /\ EndWait("timeout")

\* An exception in the runner's thread: cancellation, an operator's interrupt.
Interrupt ==
    /\ phase \in {"running", "drained"}
    /\ Kill
    /\ EndWait("failed")

\* Mutant: only the token goes.
RevokeToken ==
    /\ phase = "leaving"
    /\ phase' = "revoked"
    /\ live' = FALSE
    /\ UNCHANGED <<launch, tree, control, runtime, published>> /\ Idle

\* revoke(): nobody is killed when close() has dropped the capability already.
Revoke ==
    /\ phase = "leaving"
    /\ phase' = "revoked"
    /\ live' = FALSE
    /\ IF live THEN Kill ELSE UNCHANGED <<tree, control>>
    /\ UNCHANGED <<launch, runtime, published>> /\ Idle

\* Mutant: without binding.lock.
PublishUnlocked ==
    /\ phase = "revoked"
    /\ published' = turn
    /\ IF exit = "failed"
       THEN phase' = "over" /\ result' = "raised"
       ELSE phase' = "judging" /\ UNCHANGED result
    /\ UNCHANGED <<launch, tree, control, live, runtime, runner, used, history>>
    /\ RequestsUnchanged

\* view.publish() under binding.lock; failing, it ends the run.
Publish ==
    /\ phase = "revoked" /\ In(JournalHeld) = {}
    /\ published' = turn
    /\ \E failed \in BOOLEAN :
           IF failed \/ exit = "failed"
           THEN phase' = "over" /\ result' = "raised"
           ELSE phase' = "judging" /\ UNCHANGED result
    /\ UNCHANGED <<launch, tree, control, live, runtime, runner, used, history>>
    /\ RequestsUnchanged

\* SupervisorRuntime.close() drops the capabilities, then kills their trees.
CloseRuntime ==
    /\ runtime = "open"
    /\ runtime' = "closing" /\ live' = FALSE
    /\ UNCHANGED <<phase, launch, tree, control, published>> /\ Idle

KillSessions ==
    /\ runtime = "closing"
    /\ runtime' = "closed"
    /\ Kill
    /\ UNCHANGED <<phase, launch, live, published>> /\ Idle

\* The supervisor looks at the clock every 50 ms: no tick passes a limit or a dead tree.
Tick ==
    /\ phase = "running" /\ ~control.closed
    /\ \/ tree = "running" /\ ActiveSeconds < Limit
       \/ tree = "stopped" /\ control.paused < MaxPause
    /\ control' = [control EXCEPT !.since = @ + 1,
                                  !.paused = IF Pending = {} THEN @ ELSE @ + 1]
    /\ ran' = IF tree = "running" THEN ran + 1 ELSE ran
    /\ spent' = IF tree = "running" THEN spent + 1 ELSE spent
    /\ UNCHANGED <<phase, launch, tree, session, loop>> /\ RequestsUnchanged

-----------------------------------------------------------------------------
(* The runner's loop.                                                      *)

Stop(outcome) == phase' = "over" /\ result' = outcome
Return == Stop("returned")
Raise == Stop("raised")
LaunchUnchanged == UNCHANGED <<launch, tree, control, session, used, history>> /\ RequestsUnchanged

\* Out of active time or tokens: a throttled Episode is preserved, another one ends.
ExhaustedAt(recovering) == IF recovering THEN Raise ELSE Return

StartTurn ==
    /\ phase' = "granting"
    /\ turn' = turn + 1 /\ UNCHANGED exit
    /\ tree' = "none" /\ control' = NewControl /\ ran' = 0
    /\ UNCHANGED <<session, used, result, spent>> /\ RequestsUnchanged

Exhausted == Remaining = 0 \/ runner.broke

Continue ==
    /\ phase = "top"
    /\ \/ /\ Exhausted
          /\ ExhaustedAt(runner.throttled)
          /\ UNCHANGED runner /\ LaunchUnchanged
       \/ /\ ~Exhausted /\ runner.prompt
          /\ runner' = [runner EXCEPT !.prompt = FALSE, !.saw = "none"]
          /\ StartTurn
       \/ /\ ~Exhausted /\ ~runner.prompt /\ runner.resumes < runner.allowed.resumes
          /\ runner' = [runner EXCEPT !.resumes = @ + 1, !.throttled = FALSE,
                                    !.saw = "none"]
          /\ StartTurn
       \/ /\ ~Exhausted /\ ~runner.prompt           \* no resume left, or none possible
          /\ Return
          /\ UNCHANGED runner /\ LaunchUnchanged

\* Search stops an Episode between turns.
Cancel ==
    /\ phase = "top" /\ Remaining > 0
    /\ Raise
    /\ UNCHANGED runner /\ LaunchUnchanged

CanResume == runner.resumes < runner.allowed.resumes
Retry(change) == phase' = "top" /\ runner' = change /\ UNCHANGED result

\* Mutant: the turn after a throttled one is charged as a resume.
JudgeRateLimitAsResume(r) ==
    LET recovering == [r EXCEPT !.rates = @ + 1, !.throttled = TRUE] IN
    IF Remaining = 0 \/ r.broke
    THEN Raise /\ runner' = recovering
    ELSE CanResume /\ Retry(recovering)

\* A throttled turn costs no resume.  One that reached its limit as well is judged by the
\* limit, and may be the Episode's outcome.
JudgeRateLimit(r) ==
    LET recovering == [r EXCEPT !.rates = @ + 1, !.throttled = TRUE] IN
    IF Remaining = 0 \/ r.broke
    THEN Raise /\ runner' = recovering
    ELSE \/ Retry([recovering EXCEPT !.prompt = TRUE])
         \/ Raise /\ runner' = recovering

JudgeTimeOut(r) ==
    \/ Return /\ runner' = r
    \/ Remaining > 0 /\ CanResume /\ Retry(r)

JudgeOutputLimit(r) ==
    \/ Return /\ runner' = r                        \* its usage may be unknown
    \/ /\ r.recoveries < runner.allowed.recoveries /\ ~r.broke
       /\ Retry([r EXCEPT !.recoveries = @ + 1, !.prompt = TRUE])

JudgeTerminated(r) ==
    \/ Return /\ runner' = r
    \/ CanResume /\ Retry(r)

\* After a turn: usage first, then the environment, the handoff, and only then how the
\* turn ended.
Account(kind, breaks) ==
    [runner EXCEPT !.broke = @ \/ breaks,
                   !.throttled = @ /\ kind = "rate_limit"]

JudgeFailure(r, kind, timedOut) ==
    CASE kind = "rate_limit" /\ ~timedOut -> JudgeRateLimit(r)
      [] timedOut -> JudgeTimeOut(r)
      [] ~timedOut /\ kind = "output_limit" -> JudgeOutputLimit(r)
      [] ~timedOut /\ kind = "sigterm" -> JudgeTerminated(r)
      [] ~timedOut /\ kind = "error" -> Return /\ runner' = r
      [] OTHER -> Retry(r)

Judge ==
    /\ phase = "judging"
    /\ \E kind \in Kind, breaks \in BOOLEAN :
        LET r == Account(kind, breaks) IN
        /\ kind = "rate_limit" => runner.rates < runner.allowed.rates
        /\ \/ Raise /\ runner' = r
           \/ /\ report = "published"
              /\ Return
              /\ runner' = [r EXCEPT !.saw = "accepted"]
           \/ /\ JudgeFailure([r EXCEPT !.saw = IF report = "published" THEN "refused" ELSE "none"],
                              kind, exit = "timeout")
    /\ exit' = "none"
    /\ UNCHANGED <<turn, tree, control, session, used, history>> /\ RequestsUnchanged

-----------------------------------------------------------------------------
Init ==
    /\ turn = 0 /\ phase = "top" /\ exit = "none"
    /\ tree = "none" /\ control = NewControl
    /\ live = FALSE /\ runtime = "open" /\ published = 0
    /\ handler = [r \in Requests |-> "none"] /\ of = [r \in Requests |-> 0]
    /\ report = "none"
    /\ \E allowed \in Allowances :
       runner = [allowed |-> allowed,
                 resumes |-> 0, recoveries |-> 0, rates |-> 0,
                 throttled |-> FALSE, prompt |-> TRUE, broke |-> FALSE, saw |-> "none"]
    /\ used = 0 /\ result = "none" /\ ran = 0 /\ spent = 0

\* What a handler does by itself, and what the supervisor's thread does.
Handle(r) ==
    \/ Authenticate(r) \/ Refuse(r) \/ Suspend(r) \/ Release(r)
    \/ Lock(r) \/ StartExecutor(r) \/ OpenJournal(r) \/ GiveUp(r)
    \/ SaveReport(r) \/ PublishReport(r)

Supervise ==
    \/ Grant \/ Spawn \/ Attach \/ Communicated \/ TimeOut \/ Revoke \/ Publish
    \/ Continue \/ Judge

Next ==
    \/ \E r \in Requests : Send(r) \/ Handle(r) \/ Finish(r)
    \/ Supervise
    \/ AgentExits \/ PipesClose \/ Interrupt \/ Cancel \/ Tick
    \/ CloseRuntime \/ KillSessions

\* Every thread of the Supervisor keeps running, time passes, and a dead tree's pipes
\* close.  Nothing is assumed of the Agent or of the executors.
Fairness ==
    /\ \A r \in Requests : WF_vars(Handle(r))
    /\ WF_vars(Supervise) /\ WF_vars(PipesClose) /\ WF_vars(Tick) /\ WF_vars(KillSessions)

Spec == Init /\ [][Next]_vars /\ Fairness

-----------------------------------------------------------------------------
(* Properties.                                                             *)

Control == [since : Int, paused : Int, finished : Int, closed : BOOLEAN]
Runner == [allowed : Allowances, resumes : Nat, recoveries : Nat, rates : Nat,
           throttled : BOOLEAN, prompt : BOOLEAN, broke : BOOLEAN,
           saw : {"none", "refused", "accepted"}]

\* The shape of the state.
TypeOK ==
    /\ turn \in Nat /\ phase \in Phase /\ exit \in {"none", "eof", "timeout", "failed"}
    /\ tree \in {"none", "running", "stopped", "dead"}
    /\ control \in Control /\ live \in BOOLEAN /\ runtime \in {"open", "closing", "closed"}
    /\ handler \in [Requests -> {"none", "sent", "arrived", "done"} \cup Suspended]
    /\ of \in [Requests -> Nat] /\ report \in {"none", "saved", "published"}
    /\ published \in Nat /\ runner \in Runner /\ used \in Int
    /\ runner.resumes <= runner.allowed.resumes
    /\ runner.recoveries <= runner.allowed.recoveries
    /\ result \in {"none", "returned", "raised"}
    /\ ran \in Nat /\ spent \in Nat

\* However requests overlap, the clock of a launch counts the time its Agent was free to
\* run; the Episode is charged that and no more, and all its turns, resumes and fresh
\* sessions together stay within its active time.
ClockExact ==
    /\ phase = "running" => ActiveSeconds = ran
    /\ phase \in {"top", "judging"} => used = spent
    /\ spent <= Budget

\* The Agent is stopped (or gone) exactly while a request of it is served:
\* execution_clock.py:164 "A partially stopped tree must never be abandoned frozen".
FrozenWhileServed ==
    /\ Pending # {} => tree # "running"
    /\ tree = "stopped" /\ ~control.closed => Pending # {}

\* execution_clock.py:185 "Never resume a cancelled Agent, even if a late request
\* completes".
NeverResumed ==
    [][turn' = turn /\ control.closed /\ tree \in {"stopped", "dead"} => tree' # "running"]_vars

\* No request writes to the Journal once its session's draft has been published: the
\* runner reads the handoff, and the Supervisor seals the draft, behind the last write.
NoLateWrite == \A r \in In(JournalHeld) : of[r] > published

\* A turn ends with its processes gone and its token revoked, before the next is judged
\* or begun; only a Runtime that is closing kills them itself.
SessionEndsClean ==
    phase \in {"judging", "top", "granting", "spawning", "over"} =>
        /\ tree \in {"none", "dead"} \/ runtime = "closing"
        /\ live => phase = "spawning"

\* A handoff the Journal published is never passed over: a run that returned read it and
\* accepted it, or refused it.
ReportIsNotLost == result = "returned" /\ report = "published" => runner.saw # "none"

\* However its turns ended, a run pays for every launch once: the first is free, each other
\* one takes a resume, a fresh-session recovery or a throttled turn, and never two of them.
\* So throttling uses up no resume, and what a run that returned was allowed is what it
\* launched, but for a launch it was owed when it ran out of time or tokens.
Owed == IF runner.prompt THEN 1 ELSE 0
LaunchesArePaid ==
    result # "raised" =>
        turn + Owed = 1 + runner.resumes + runner.recoveries + runner.rates

\* The session ends, whatever the Agent and the executors do: the run is over some day and
\* no handler is left, whether its turn was live, frozen, cut short or long gone.
SessionEnds ==
    <>[](phase = "over" /\ \A r \in Requests : handler[r] \in {"none", "done"})
=============================================================================
