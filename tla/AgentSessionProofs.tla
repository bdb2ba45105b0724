------------------------- MODULE AgentSessionProofs -------------------------
(***************************************************************************)
(* What AgentSession keeps for every set of requests, budget, limit and    *)
(* allowance, however requests, time outs, interrupts and the closing of   *)
(* the Runtime interleave.                                                 *)
(*                                                                         *)
(* The properties need to know which turn is published and whose token is  *)
(* live at each stage of a launch (Stages), that only requests of an       *)
(* unpublished turn write (Writers), that the tree is stopped exactly      *)
(* while one is pending (Frozen), what is left of it where (Trees), how    *)
(* the clock and the budget relate to the ticks the Agent ran (Clock), and *)
(* that only the top of the loop owes a launch (Paid).                     *)
(***************************************************************************)
EXTENDS AgentSession, TLAPS

-----------------------------------------------------------------------------
(* The inductive invariant *)

OnTurn == {"granting", "spawning", "attaching", "running", "drained", "leaving", "revoked"}
Granted == {"spawning", "attaching", "running", "drained", "leaving"}

\* A turn is published when it ends, and no request is of a turn yet to be spawned.
Stages ==
    /\ published <= turn
    /\ phase \in OnTurn => published < turn
    /\ phase \in {"judging", "top"} \/ result = "returned" => published = turn
    /\ result = "returned" => phase = "over"
    /\ live <=> phase \in Granted /\ runtime = "open"
    /\ \A r \in Requests : of[r] <= turn
    /\ phase \in {"granting", "spawning"} => \A r \in Requests : of[r] < turn

\* A request that holds binding.lock is of a turn whose draft is yet to be published.
Writers == \A r \in Requests : handler[r] \in JournalHeld => of[r] > published

\* The tree of the turn is stopped just when one of its requests is pending.
Frozen ==
    /\ \A r \in Requests : handler[r] \in Suspended /\ of[r] = turn => tree # "running"
    /\ tree = "stopped" /\ ~control.closed =>
         \E r \in Requests : handler[r] \in Suspended /\ of[r] = turn

\* What is left of the tree at each stage, and when the Runtime is closed.
Trees ==
    /\ phase \in {"granting", "spawning"} => tree = "none"
    /\ phase \in {"judging", "top", "revoked", "over"} =>
         tree \in {"none", "dead"} \/ runtime = "closing"
    /\ runtime = "closed" => tree \in {"none", "dead"} \/ phase = "attaching"
    /\ runtime = "closed" /\ phase \in {"spawning", "attaching"} => control.closed

\* The clock reads the ticks the Agent ran; until it is charged they are not in `used`.
Clock ==
    /\ ~control.closed => control.finished = Unfinished
    /\ ActiveSeconds = ran
    /\ phase \in {"granting", "spawning", "attaching"} => ran = 0
    /\ spent = IF phase \in {"running", "drained"} THEN used + ran ELSE used
    /\ spent <= Budget

\* At the top of the loop a published handoff was read.
Outcome ==
    (phase = "top" \/ result = "returned") /\ report = "published" => runner.saw # "none"

\* A launch is owed at the top of the loop, or to a run that is over.
Paid ==
    /\ phase \notin {"top", "over"} => ~runner.prompt
    /\ result = "raised" => phase = "over"
    /\ LaunchesArePaid

IInv == TypeOK /\ Stages /\ Writers /\ Frozen /\ Trees /\ Clock /\ Outcome /\ Paid

-----------------------------------------------------------------------------
(* What the records hold *)

\* A record of control with two fields changed is one.
LEMMA ControlUpdate ==
    ASSUME NEW c \in Control, NEW since \in Int, NEW paused \in Int
    PROVE  [c EXCEPT !.since = since, !.paused = paused] \in Control
BY Zenon DEF Control

\* So is a record of the runner.
LEMMA RunnerUpdate ==
    ASSUME NEW r \in Runner, NEW n \in Nat
    PROVE  /\ [r EXCEPT !.rates = n, !.throttled = TRUE] \in Runner
           /\ [r EXCEPT !.recoveries = n, !.prompt = TRUE] \in Runner
           /\ [r EXCEPT !.prompt = TRUE] \in Runner
BY Zenon DEF Runner

\* The types of the clock's readings.
LEMMA ControlFields ==
    ASSUME TypeOK
    PROVE  /\ control.since \in Int /\ control.paused \in Int
           /\ control.finished \in Int /\ control.closed \in BOOLEAN
BY DEF TypeOK, Control

\* A closed control keeps its reading.
LEMMA ClosedFields ==
    ASSUME TypeOK
    PROVE  /\ Closed \in Control
           /\ Closed.finished = ActiveSeconds /\ Closed.closed
BY ControlFields DEF Closed, Control, ActiveSeconds, Unfinished

\* What the end of a request does to the clock and the tree: nothing unless it is the last.
LEMMA Released ==
    ASSUME TypeOK, NEW r \in Requests, Release(r)
    PROVE  \/ ~LastOut(r) /\ UNCHANGED <<tree, control>>
           \/ /\ LastOut(r)
              /\ control' \in Control
              /\ control'.since = control.since - control.paused /\ control'.paused = 0
              /\ control'.finished = control.finished /\ control'.closed = control.closed
              /\ tree' = IF tree = "stopped" /\ ~control.closed THEN "running" ELSE tree
           \/ LastOut(r) /\ ~control.closed /\ control' = Closed /\ tree' = "dead"
<1>1. CASE ~LastOut(r)
  BY <1>1 DEF Release
<1>2. CASE LastOut(r)
  <2> DEFINE resumed == [control EXCEPT !.since = @ - control.paused, !.paused = 0]
  <2>1. /\ resumed \in Control
        /\ resumed.since = control.since - control.paused /\ resumed.paused = 0
        /\ resumed.finished = control.finished /\ resumed.closed = control.closed
    <3>1. control.since - control.paused \in Int /\ 0 \in Int
      BY ControlFields
    <3>2. resumed \in Control
      BY <3>1, Zenon DEF TypeOK, Control
    <3>3. QED
      BY <3>2 DEF TypeOK, Control
  <2>2. \/ /\ control' = resumed
           /\ tree' = IF tree = "stopped" /\ ~control.closed THEN "running" ELSE tree
        \/ ~control.closed /\ control' = Closed /\ tree' = "dead"
    BY <1>2 DEF Release
  <2>3. QED
    BY <1>2, <2>1, <2>2
<1>3. QED
  BY <1>1, <1>2

\* The beginning of a request leaves the clock alone.
LEMMA SuspendedControl ==
    ASSUME TypeOK, NEW r \in Requests, Suspend(r)
    PROVE  /\ control' \in Control
           /\ control'.since = control.since /\ control'.paused = control.paused
           /\ control'.finished = control.finished
           /\ control'.closed = control.closed \/ (control'.closed /\ tree' = "dead")
BY DEF Suspend, TypeOK, Control

\* A tick.
LEMMA Ticked ==
    ASSUME TypeOK, Tick
    PROVE  /\ control' \in Control
           /\ control'.since = control.since + 1
           /\ control'.paused = IF Pending = {} THEN control.paused ELSE control.paused + 1
           /\ control'.finished = control.finished /\ control'.closed = control.closed
<1>1. control.since + 1 \in Int /\ (IF Pending = {} THEN control.paused ELSE control.paused + 1) \in Int
  BY ControlFields
<1>2. control' = [control EXCEPT !.since = @ + 1,
                                 !.paused = IF Pending = {} THEN @ ELSE @ + 1]
  BY DEF Tick
<1>3. control' \in Control
  BY <1>1, <1>2, ControlUpdate DEF TypeOK
<1>4. QED
  BY <1>2, <1>3 DEF TypeOK, Control

\* A new control reads zero.
LEMMA NewControlFields ==
    /\ NewControl \in Control
    /\ NewControl.since = 0 /\ NewControl.paused = 0
    /\ NewControl.finished = Unfinished /\ ~NewControl.closed
BY DEF NewControl, Control, Unfinished

\* The types of the runner's locals.
LEMMA RunnerFields ==
    ASSUME TypeOK
    PROVE  /\ runner.allowed \in [resumes : Nat, recoveries : Nat, rates : Nat]
           /\ runner.resumes \in Nat /\ runner.recoveries \in Nat /\ runner.rates \in Nat
           /\ runner.throttled \in BOOLEAN /\ runner.prompt \in BOOLEAN
           /\ runner.broke \in BOOLEAN
BY SessionAssumption DEF TypeOK, Runner

\* The runner's locals within their allowance.
Allowed(r) ==
    /\ r \in Runner
    /\ r.resumes <= r.allowed.resumes /\ r.recoveries <= r.allowed.recoveries

\* What it has been charged.
Charged(r) == r.resumes + r.recoveries + r.rates

\* Accounting for a turn spends no allowance.
LEMMA AccountAllowed ==
    ASSUME TypeOK, NEW kind \in Kind, NEW breaks \in BOOLEAN,
           NEW seen \in {"none", "refused", "accepted"}
    PROVE  /\ Account(kind, breaks) \in Runner
           /\ Account(kind, breaks).allowed = runner.allowed
           /\ Account(kind, breaks).resumes = runner.resumes
           /\ Account(kind, breaks).recoveries = runner.recoveries
           /\ Account(kind, breaks).rates = runner.rates
           /\ Account(kind, breaks).prompt = runner.prompt
           /\ Allowed([Account(kind, breaks) EXCEPT !.saw = seen])
           /\ [Account(kind, breaks) EXCEPT !.saw = seen].allowed = runner.allowed
           /\ [Account(kind, breaks) EXCEPT !.saw = seen].saw = seen
           /\ Charged([Account(kind, breaks) EXCEPT !.saw = seen]) = Charged(runner)
           /\ [Account(kind, breaks) EXCEPT !.saw = seen].prompt = runner.prompt
BY RunnerFields DEF TypeOK, Runner, Account, Kind, Allowed, Charged

\* Judging it charges at most one, and then owes a launch, unless the run is thrown away.
LEMMA JudgedAllowed ==
    ASSUME TypeOK, NEW r, Allowed(r), r.allowed = runner.allowed,
           NEW kind \in Kind, NEW timedOut \in BOOLEAN,
           JudgeFailure(r, kind, timedOut)
    PROVE  /\ Allowed(runner')
           /\ runner'.saw = r.saw
           /\ phase' \in {"top", "over"}
           /\ result' \in {result, "returned", "raised"}
           /\ phase' = "top" => result' = result
           /\ result' = "raised" => phase' = "over" \/ result = "raised"
           /\ result' # "raised" =>
                \/ Charged(runner') = Charged(r) /\ runner'.prompt = r.prompt
                \/ Charged(runner') = Charged(r) + 1 /\ runner'.prompt
<1> USE DEF Return, Raise, Stop, Retry
<1> /\ r.rates \in Nat /\ r.recoveries \in Nat /\ r.resumes \in Nat
  BY DEF Allowed, Runner
<1>1. CASE kind = "rate_limit" /\ ~timedOut
  <2>1. JudgeRateLimit(r)
    BY <1>1 DEF JudgeFailure
  <2> DEFINE recovering == [r EXCEPT !.rates = @ + 1, !.throttled = TRUE]
             again == [recovering EXCEPT !.prompt = TRUE]
  <2>2. /\ Allowed(recovering) /\ recovering.saw = r.saw
        /\ Allowed(again) /\ again.saw = r.saw
        /\ Charged(again) = Charged(r) + 1 /\ again.prompt
    <3>1. r.rates + 1 \in Nat
      OBVIOUS
    <3>2. recovering \in Runner /\ again \in Runner
      BY <3>1, RunnerUpdate DEF Allowed
    <3>3. QED
      BY <3>2 DEF Allowed, Runner, Charged
  <2>3. QED
    BY <1>1, <2>1, <2>2 DEF JudgeRateLimit
<1>2. CASE timedOut
  BY <1>2 DEF JudgeFailure, JudgeTimeOut
<1>3. CASE ~timedOut /\ kind = "output_limit"
  <2>1. JudgeOutputLimit(r)
    BY <1>3 DEF JudgeFailure
  <2> DEFINE again == [r EXCEPT !.recoveries = @ + 1, !.prompt = TRUE]
  <2>2. r.recoveries < runner.allowed.recoveries =>
          /\ Allowed(again) /\ again.saw = r.saw
          /\ Charged(again) = Charged(r) + 1 /\ again.prompt
    <3>1. r.recoveries \in Nat /\ r.allowed.recoveries \in Nat /\ r.recoveries + 1 \in Nat
      BY SessionAssumption DEF Allowed, Runner
    <3>2. again \in Runner
      BY <3>1, RunnerUpdate DEF Allowed
    <3>3. QED
      BY <3>1, <3>2 DEF Allowed, Runner, Charged
  <2>3. QED
    BY <1>3, <2>1, <2>2 DEF JudgeOutputLimit
<1>4. CASE ~timedOut /\ kind \in {"sigterm", "error", "ok"}
  BY <1>4 DEF JudgeFailure, JudgeTerminated
<1>5. QED
  BY <1>1, <1>2, <1>3, <1>4 DEF Kind

-----------------------------------------------------------------------------
(* How a turn is begun, charged and judged *)

\* A launch is charged what its clock shows.
LEMMA ChargedType ==
    ASSUME TypeOK
    PROVE  used + ActiveSeconds \in Int
BY ControlFields DEF TypeOK, ActiveSeconds

\* Beginning a turn keeps the runner within its allowance.
LEMMA ContinuedAllowed ==
    ASSUME TypeOK
    PROVE  /\ Allowed([runner EXCEPT !.prompt = FALSE, !.saw = "none"])
           /\ runner.resumes < runner.allowed.resumes =>
                Allowed([runner EXCEPT !.resumes = @ + 1, !.throttled = FALSE, !.saw = "none"])
<1>1. runner.resumes + 1 \in Nat
  BY RunnerFields
<1>2. [runner EXCEPT !.prompt = FALSE, !.saw = "none"] \in Runner
  BY Zenon DEF TypeOK, Runner
<1>3. [runner EXCEPT !.resumes = @ + 1, !.throttled = FALSE, !.saw = "none"] \in Runner
  BY <1>1, Zenon DEF TypeOK, Runner
<1>4. QED
  BY <1>2, <1>3, RunnerFields DEF TypeOK, Runner, Allowed

\* What a turn's end does to the runner, for one way it may have ended.
Judged(kind, breaks) ==
    LET r == Account(kind, breaks) IN
    /\ \/ Raise /\ runner' = r
       \/ report = "published" /\ Return /\ runner' = [r EXCEPT !.saw = "accepted"]
       \/ JudgeFailure([r EXCEPT !.saw = IF report = "published" THEN "refused" ELSE "none"],
                       kind, exit = "timeout")
    /\ exit' = "none" /\ report' = report

\* Judge is one of them.
LEMMA JudgeCases ==
    ASSUME Judge
    PROVE  \E kind \in Kind, breaks \in BOOLEAN : Judged(kind, breaks)
BY DEF Judge, Judged, RequestsUnchanged, requests

\* The runner after a turn: within its allowance, its handoff seen, its launches paid.
LEMMA JudgedRunner ==
    ASSUME TypeOK, NEW kind \in Kind, NEW breaks \in BOOLEAN, Judged(kind, breaks)
    PROVE  /\ Allowed(runner')
           /\ phase' \in {"top", "over"}
           /\ result' \in {result, "returned", "raised"}
           /\ phase' = "top" => result' = result
           /\ (phase' = "top" \/ (result' = "returned" /\ result # "returned")) /\ report' = "published" =>
                runner'.saw # "none"
           /\ result' = "raised" => phase' = "over" \/ result = "raised"
           /\ result' # "raised" =>
                \/ Charged(runner') = Charged(runner) /\ runner'.prompt = runner.prompt
                \/ Charged(runner') = Charged(runner) + 1 /\ runner'.prompt
<1> DEFINE r == Account(kind, breaks)
           seen == IF report = "published" THEN "refused" ELSE "none"
<1>1. CASE Raise /\ runner' = r
  BY <1>1, AccountAllowed, ZenonT(40) DEF Raise, Stop, Allowed, TypeOK, Judged
<1>2. CASE report = "published" /\ Return /\ runner' = [r EXCEPT !.saw = "accepted"]
  BY <1>2, AccountAllowed DEF Return, Stop, Judged
<1>3. CASE JudgeFailure([r EXCEPT !.saw = seen], kind, exit = "timeout")
  <2>1. /\ Allowed([r EXCEPT !.saw = seen])
        /\ [r EXCEPT !.saw = seen].allowed = runner.allowed
        /\ [r EXCEPT !.saw = seen].saw = seen
    BY AccountAllowed, ZenonT(40)
  <2>2. (exit = "timeout") \in BOOLEAN
    OBVIOUS
  <2>3. /\ Allowed(runner') /\ runner'.saw = seen
        /\ phase' \in {"top", "over"} /\ result' \in {result, "returned", "raised"}
        /\ phase' = "top" => result' = result
        /\ result' = "raised" => phase' = "over" \/ result = "raised"
        /\ result' # "raised" =>
             \/ /\ Charged(runner') = Charged([r EXCEPT !.saw = seen])
                /\ runner'.prompt = [r EXCEPT !.saw = seen].prompt
             \/ /\ Charged(runner') = Charged([r EXCEPT !.saw = seen]) + 1
                /\ runner'.prompt
    BY <1>3, <2>1, <2>2, JudgedAllowed
  <2>4. /\ Charged([r EXCEPT !.saw = seen]) = Charged(runner)
        /\ [r EXCEPT !.saw = seen].prompt = runner.prompt
    BY AccountAllowed, ZenonT(40)
  <2>5. QED
    BY <2>3, <2>4 DEF Judged
<1>4. QED
  BY <1>1, <1>2, <1>3 DEF Judged

-----------------------------------------------------------------------------
(* Every step *)

\* Every action keeps the types, and the runner within its allowance.
LEMMA TypeStep ==
    ASSUME TypeOK, [Next]_vars
    PROVE  TypeOK'
<1>1. ASSUME NEW r \in Requests, Send(r) \/ Handle(r) \/ Finish(r)
      PROVE  TypeOK'
  <2>1. CASE Send(r)
    BY <2>1 DEF Send, SupervisorUnchanged, launch, session, loop, history, TypeOK, Suspended, LockHeld, JournalHeld, Phase
  <2>2. CASE Authenticate(r)
    BY <2>2 DEF Authenticate, To, OnlyHandler, SupervisorUnchanged, launch, session, loop, history, TypeOK, Suspended, LockHeld, JournalHeld, Phase
  <2>3. CASE Refuse(r)
    BY <2>3 DEF Refuse, To, OnlyHandler, SupervisorUnchanged, launch, session, loop, history, TypeOK, Suspended, LockHeld, JournalHeld, Phase
  <2>4. CASE Suspend(r)
    BY <2>4, SuspendedControl DEF Suspend, To, SupervisorUnchanged, launch, session, loop, history, TypeOK, Suspended, LockHeld, JournalHeld, Phase
  <2>5. CASE Release(r)
    <3>1. control' \in Control /\ tree' \in {"none", "running", "stopped", "dead"}
      BY <2>5, Released, ClosedFields DEF TypeOK
    <3>2. QED
      BY <2>5, <3>1 DEF Release, To, SupervisorUnchanged, launch, session, loop, history, TypeOK,
                        Suspended, LockHeld, JournalHeld
  <2>6. CASE Lock(r)
    BY <2>6 DEF Lock, To, OnlyHandler, SupervisorUnchanged, launch, session, loop, history, TypeOK, Suspended, LockHeld, JournalHeld, Phase
  <2>7. CASE StartExecutor(r)
    BY <2>7 DEF StartExecutor, To, OnlyHandler, SupervisorUnchanged, launch, session, loop, history, TypeOK, Suspended, LockHeld, JournalHeld, Phase
  <2>8. CASE OpenJournal(r)
    BY <2>8 DEF OpenJournal, To, OnlyHandler, SupervisorUnchanged, launch, session, loop, history, TypeOK, Suspended, LockHeld, JournalHeld, Phase
  <2>9. CASE GiveUp(r)
    BY <2>9 DEF GiveUp, To, OnlyHandler, SupervisorUnchanged, launch, session, loop, history, TypeOK, Suspended, LockHeld, JournalHeld, Phase
  <2>10. CASE SaveReport(r)
    BY <2>10 DEF SaveReport, To, SupervisorUnchanged, launch, session, loop, history, TypeOK, Suspended, LockHeld, JournalHeld, Phase
  <2>11. CASE PublishReport(r)
    BY <2>11 DEF PublishReport, To, SupervisorUnchanged, launch, session, loop, history, TypeOK, Suspended, LockHeld, JournalHeld, Phase
  <2>12. CASE Finish(r)
    BY <2>12 DEF Finish, To, OnlyHandler, SupervisorUnchanged, launch, session, loop, history, TypeOK, Suspended, LockHeld, JournalHeld, Phase
  <2>13. QED
    BY <1>1, <2>1, <2>2, <2>3, <2>4, <2>5, <2>6, <2>7, <2>8, <2>9, <2>10, <2>11, <2>12 DEF Handle
<1>2. CASE Grant
  BY <1>2, ZenonT(40) DEF Grant, Idle, RequestsUnchanged, launch, session, requests, loop, history, TypeOK, Suspended, LockHeld, JournalHeld, Phase
<1>3. CASE Spawn
  BY <1>3, ClosedFields DEF Spawn, Idle, RequestsUnchanged, launch, session, requests, loop, history, Closed, TypeOK, Suspended, LockHeld, JournalHeld, Phase
<1>4. CASE Attach
  BY <1>4, ClosedFields, ZenonT(40) DEF Attach, Idle, RequestsUnchanged, launch, session, requests, loop, history, Kill, Closed, TypeOK, Suspended, LockHeld, JournalHeld, Phase
<1>5. CASE Communicated
  BY <1>5, ClosedFields, ChargedType DEF Communicated, Idle, RequestsUnchanged, launch, session, requests, loop, history, EndWait, Closed, TypeOK, Suspended, LockHeld, JournalHeld, Phase
<1>6. CASE TimeOut
  BY <1>6, ClosedFields, ChargedType DEF TimeOut, Idle, RequestsUnchanged, launch, session, requests, loop, history, EndWait, Kill, Closed, TypeOK, Suspended, LockHeld, JournalHeld, Phase
<1>7. CASE Revoke
  BY <1>7, ClosedFields, ZenonT(40) DEF Revoke, Idle, RequestsUnchanged, launch, session, requests, loop, history, Kill, Closed, TypeOK, Suspended, LockHeld, JournalHeld, Phase
<1>8. CASE Publish
  BY <1>8 DEF Publish, Idle, RequestsUnchanged, launch, session, requests, loop, history, TypeOK, Suspended, LockHeld, JournalHeld, Phase
<1>9. CASE Continue
  <2>1. Allowed(runner')
    BY <1>9, RunnerFields, ContinuedAllowed DEF Continue, TypeOK, Allowed
  <2>2. CASE StartTurn
    <3>1. /\ turn' \in Nat /\ phase' \in Phase /\ exit' = exit /\ tree' = "none"
          /\ ran' \in Nat
      BY <2>2 DEF StartTurn, TypeOK, Phase
    <3>2. control' \in Control
      BY <2>2, NewControlFields DEF StartTurn
    <3>3. UNCHANGED <<live, runtime, published, handler, of, report, used, result, spent>>
      BY <2>2 DEF StartTurn, session, RequestsUnchanged, requests
    <3>4. QED
      BY <2>1, <3>1, <3>2, <3>3 DEF TypeOK, Allowed
  <2>3. CASE LaunchUnchanged /\ (Return \/ Raise)
    BY <2>1, <2>3 DEF LaunchUnchanged, Raise, Return, Stop, RequestsUnchanged, launch, session,
                      requests, history, TypeOK, Allowed, Phase
  <2>4. QED
    BY <1>9, <2>2, <2>3 DEF Continue, ExhaustedAt
<1>10. CASE Judge
  <2>1. PICK kind \in Kind, breaks \in BOOLEAN : Judged(kind, breaks)
    BY <1>10, JudgeCases
  <2>2. Allowed(runner') /\ phase' \in Phase /\ result' \in {"none", "returned", "raised"}
    BY <2>1, JudgedRunner DEF TypeOK, Phase
  <2>3. QED
    BY <1>10, <2>1, <2>2 DEF Judge, Judged, RequestsUnchanged, session, requests, history, TypeOK, Allowed
<1>11. CASE AgentExits
  BY <1>11 DEF AgentExits, Idle, RequestsUnchanged, launch, session, requests, loop, history, TypeOK, Suspended, LockHeld, JournalHeld, Phase
<1>12. CASE PipesClose
  BY <1>12 DEF PipesClose, Idle, RequestsUnchanged, launch, session, requests, loop, history, TypeOK, Suspended, LockHeld, JournalHeld, Phase
<1>13. CASE Interrupt
  BY <1>13, ClosedFields, ChargedType DEF Interrupt, Idle, RequestsUnchanged, launch, session, requests, loop, history, EndWait, Kill, Closed, TypeOK, Suspended, LockHeld, JournalHeld, Phase
<1>14. CASE Cancel
  BY <1>14 DEF Cancel, Idle, RequestsUnchanged, launch, session, requests, loop, history, LaunchUnchanged, Raise, Stop, TypeOK, Suspended, LockHeld, JournalHeld, Phase
<1>15. CASE Tick
  <2>1. control' \in Control /\ ran' \in Nat /\ spent' \in Nat
    BY <1>15, Ticked DEF Tick, TypeOK
  <2>2. QED
    BY <1>15, <2>1 DEF Tick, RequestsUnchanged, launch, session, requests, loop, TypeOK
<1>16. CASE CloseRuntime
  BY <1>16, ZenonT(40) DEF CloseRuntime, Idle, RequestsUnchanged, launch, session, requests, loop, history, TypeOK, Suspended, LockHeld, JournalHeld, Phase
<1>17. CASE KillSessions
  BY <1>17, ClosedFields DEF KillSessions, Idle, RequestsUnchanged, launch, session, requests, loop, history, Kill, Closed, TypeOK, Suspended, LockHeld, JournalHeld, Phase
<1>18. CASE UNCHANGED vars
  BY <1>18 DEF vars, TypeOK, Suspended, LockHeld, JournalHeld, Phase
<1>19. QED
  BY <1>1, <1>2, <1>3, <1>4, <1>5, <1>6, <1>7, <1>8, <1>9, <1>10, <1>11, <1>12, <1>13, <1>14, <1>15, <1>16, <1>17, <1>18 DEF Next, Supervise

\* Turns are published in order, and a token is live only between grant and revocation.
LEMMA StagesStep ==
    ASSUME TypeOK, Stages, Trees, [Next]_vars
    PROVE  Stages'
<1>1. ASSUME NEW r \in Requests, Send(r) \/ Handle(r) \/ Finish(r)
      PROVE  Stages'
  <2>1. CASE Send(r)
    BY <2>1 DEF Send, SupervisorUnchanged, launch, session, loop, history, TypeOK, Stages, Trees, OnTurn, Granted, Live
  <2>2. CASE Authenticate(r)
    BY <2>2 DEF Authenticate, To, OnlyHandler, SupervisorUnchanged, launch, session, loop, history, TypeOK, Stages, Trees, OnTurn, Granted, Live
  <2>3. CASE Refuse(r)
    BY <2>3 DEF Refuse, To, OnlyHandler, SupervisorUnchanged, launch, session, loop, history, TypeOK, Stages, Trees, OnTurn, Granted, Live
  <2>4. CASE Suspend(r)
    BY <2>4 DEF Suspend, To, SupervisorUnchanged, launch, session, loop, history, TypeOK, Stages, Trees, OnTurn, Granted, Live
  <2>5. CASE Release(r)
    BY <2>5 DEF Release, To, SupervisorUnchanged, Closed, launch, session, loop, history, TypeOK, Stages, Trees, OnTurn, Granted, Live
  <2>6. CASE Lock(r)
    BY <2>6 DEF Lock, To, OnlyHandler, SupervisorUnchanged, launch, session, loop, history, TypeOK, Stages, Trees, OnTurn, Granted, Live
  <2>7. CASE StartExecutor(r)
    BY <2>7 DEF StartExecutor, To, OnlyHandler, SupervisorUnchanged, launch, session, loop, history, TypeOK, Stages, Trees, OnTurn, Granted, Live
  <2>8. CASE OpenJournal(r)
    BY <2>8 DEF OpenJournal, To, OnlyHandler, SupervisorUnchanged, launch, session, loop, history, TypeOK, Stages, Trees, OnTurn, Granted, Live
  <2>9. CASE GiveUp(r)
    BY <2>9 DEF GiveUp, To, OnlyHandler, SupervisorUnchanged, launch, session, loop, history, TypeOK, Stages, Trees, OnTurn, Granted, Live
  <2>10. CASE SaveReport(r)
    BY <2>10 DEF SaveReport, To, SupervisorUnchanged, launch, session, loop, history, TypeOK, Stages, Trees, OnTurn, Granted, Live
  <2>11. CASE PublishReport(r)
    BY <2>11 DEF PublishReport, To, SupervisorUnchanged, launch, session, loop, history, TypeOK, Stages, Trees, OnTurn, Granted, Live
  <2>12. CASE Finish(r)
    BY <2>12 DEF Finish, To, OnlyHandler, SupervisorUnchanged, launch, session, loop, history, TypeOK, Stages, Trees, OnTurn, Granted, Live
  <2>13. QED
    BY <1>1, <2>1, <2>2, <2>3, <2>4, <2>5, <2>6, <2>7, <2>8, <2>9, <2>10, <2>11, <2>12 DEF Handle
<1>2. CASE Grant
  BY <1>2 DEF Grant, Idle, RequestsUnchanged, launch, session, requests, loop, history, TypeOK, Stages, Trees, OnTurn, Granted, Live
<1>3. CASE Spawn
  BY <1>3 DEF Spawn, Idle, RequestsUnchanged, launch, session, requests, loop, history, Closed, TypeOK, Stages, Trees, OnTurn, Granted, Live
<1>4. CASE Attach
  BY <1>4 DEF Attach, Idle, RequestsUnchanged, launch, session, requests, loop, history, Kill, Closed, TypeOK, Stages, Trees, OnTurn, Granted, Live
<1>5. CASE Communicated
  BY <1>5 DEF Communicated, Idle, RequestsUnchanged, launch, session, requests, loop, history, EndWait, Closed, TypeOK, Stages, Trees, OnTurn, Granted, Live
<1>6. CASE TimeOut
  BY <1>6 DEF TimeOut, Idle, RequestsUnchanged, launch, session, requests, loop, history, EndWait, Kill, Closed, TypeOK, Stages, Trees, OnTurn, Granted, Live
<1>7. CASE Revoke
  BY <1>7 DEF Revoke, Idle, RequestsUnchanged, launch, session, requests, loop, history, Kill, Closed, TypeOK, Stages, Trees, OnTurn, Granted, Live
<1>8. CASE Publish
  BY <1>8 DEF Publish, Idle, RequestsUnchanged, launch, session, requests, loop, history, TypeOK, Stages, Trees, OnTurn, Granted, Live
<1>9. CASE Continue
  BY <1>9 DEF Continue, Idle, RequestsUnchanged, launch, session, requests, loop, history, LaunchUnchanged, StartTurn, ExhaustedAt, Raise, Return, Stop, NewControl, TypeOK, Stages, Trees, OnTurn, Granted, Live
<1>10. CASE Judge
  BY <1>10 DEF Judge, Idle, RequestsUnchanged, launch, session, requests, loop, history, Raise, Return, Stop, Retry, JudgeFailure, JudgeRateLimit, JudgeTimeOut, JudgeOutputLimit, JudgeTerminated, CanResume, Account, Kind, TypeOK, Stages, Trees, OnTurn, Granted, Live
<1>11. CASE AgentExits
  BY <1>11 DEF AgentExits, Idle, RequestsUnchanged, launch, session, requests, loop, history, TypeOK, Stages, Trees, OnTurn, Granted, Live
<1>12. CASE PipesClose
  BY <1>12 DEF PipesClose, Idle, RequestsUnchanged, launch, session, requests, loop, history, TypeOK, Stages, Trees, OnTurn, Granted, Live
<1>13. CASE Interrupt
  BY <1>13 DEF Interrupt, Idle, RequestsUnchanged, launch, session, requests, loop, history, EndWait, Kill, Closed, TypeOK, Stages, Trees, OnTurn, Granted, Live
<1>14. CASE Cancel
  BY <1>14 DEF Cancel, Idle, RequestsUnchanged, launch, session, requests, loop, history, LaunchUnchanged, Raise, Stop, TypeOK, Stages, Trees, OnTurn, Granted, Live
<1>15. CASE Tick
  BY <1>15 DEF Tick, Idle, RequestsUnchanged, launch, session, requests, loop, history, TypeOK, Stages, Trees, OnTurn, Granted, Live
<1>16. CASE CloseRuntime
  BY <1>16 DEF CloseRuntime, Idle, RequestsUnchanged, launch, session, requests, loop, history, TypeOK, Stages, Trees, OnTurn, Granted, Live
<1>17. CASE KillSessions
  BY <1>17 DEF KillSessions, Idle, RequestsUnchanged, launch, session, requests, loop, history, Kill, Closed, TypeOK, Stages, Trees, OnTurn, Granted, Live
<1>18. CASE UNCHANGED vars
  BY <1>18 DEF vars, TypeOK, Stages, Trees, OnTurn, Granted, Live
<1>19. QED
  BY <1>1, <1>2, <1>3, <1>4, <1>5, <1>6, <1>7, <1>8, <1>9, <1>10, <1>11, <1>12, <1>13, <1>14, <1>15, <1>16, <1>17, <1>18 DEF Next, Supervise

\* A writer keeps binding.lock, which publication waits for.
LEMMA WritersStep ==
    ASSUME TypeOK, Stages, Writers, [Next]_vars
    PROVE  Writers'
<1>1. ASSUME NEW r \in Requests, Send(r) \/ Handle(r) \/ Finish(r)
      PROVE  Writers'
  <2>1. CASE Send(r)
    BY <2>1 DEF Send, SupervisorUnchanged, launch, session, loop, history, TypeOK, Stages, Writers, OnTurn, Granted, Live, In, JournalHeld
  <2>2. CASE Authenticate(r)
    BY <2>2 DEF Authenticate, To, OnlyHandler, SupervisorUnchanged, launch, session, loop, history, TypeOK, Stages, Writers, OnTurn, Granted, Live, In, JournalHeld
  <2>3. CASE Refuse(r)
    BY <2>3 DEF Refuse, To, OnlyHandler, SupervisorUnchanged, launch, session, loop, history, TypeOK, Stages, Writers, OnTurn, Granted, Live, In, JournalHeld
  <2>4. CASE Suspend(r)
    BY <2>4 DEF Suspend, To, SupervisorUnchanged, launch, session, loop, history, TypeOK, Stages, Writers, OnTurn, Granted, Live, In, JournalHeld
  <2>5. CASE Release(r)
    BY <2>5 DEF Release, To, SupervisorUnchanged, Closed, launch, session, loop, history, TypeOK, Stages, Writers, OnTurn, Granted, Live, In, JournalHeld
  <2>6. CASE Lock(r)
    BY <2>6 DEF Lock, To, OnlyHandler, SupervisorUnchanged, launch, session, loop, history, TypeOK, Stages, Writers, OnTurn, Granted, Live, In, JournalHeld
  <2>7. CASE StartExecutor(r)
    BY <2>7 DEF StartExecutor, To, OnlyHandler, SupervisorUnchanged, launch, session, loop, history, TypeOK, Stages, Writers, OnTurn, Granted, Live, In, JournalHeld
  <2>8. CASE OpenJournal(r)
    BY <2>8 DEF OpenJournal, To, OnlyHandler, SupervisorUnchanged, launch, session, loop, history, TypeOK, Stages, Writers, OnTurn, Granted, Live, In, JournalHeld
  <2>9. CASE GiveUp(r)
    BY <2>9 DEF GiveUp, To, OnlyHandler, SupervisorUnchanged, launch, session, loop, history, TypeOK, Stages, Writers, OnTurn, Granted, Live, In, JournalHeld
  <2>10. CASE SaveReport(r)
    BY <2>10 DEF SaveReport, To, SupervisorUnchanged, launch, session, loop, history, TypeOK, Stages, Writers, OnTurn, Granted, Live, In, JournalHeld
  <2>11. CASE PublishReport(r)
    BY <2>11 DEF PublishReport, To, SupervisorUnchanged, launch, session, loop, history, TypeOK, Stages, Writers, OnTurn, Granted, Live, In, JournalHeld
  <2>12. CASE Finish(r)
    BY <2>12 DEF Finish, To, OnlyHandler, SupervisorUnchanged, launch, session, loop, history, TypeOK, Stages, Writers, OnTurn, Granted, Live, In, JournalHeld
  <2>13. QED
    BY <1>1, <2>1, <2>2, <2>3, <2>4, <2>5, <2>6, <2>7, <2>8, <2>9, <2>10, <2>11, <2>12 DEF Handle
<1>2. CASE Grant
  BY <1>2 DEF Grant, Idle, RequestsUnchanged, launch, session, requests, loop, history, TypeOK, Stages, Writers, OnTurn, Granted, Live, In, JournalHeld
<1>3. CASE Spawn
  BY <1>3 DEF Spawn, Idle, RequestsUnchanged, launch, session, requests, loop, history, Closed, TypeOK, Stages, Writers, OnTurn, Granted, Live, In, JournalHeld
<1>4. CASE Attach
  BY <1>4 DEF Attach, Idle, RequestsUnchanged, launch, session, requests, loop, history, Kill, Closed, TypeOK, Stages, Writers, OnTurn, Granted, Live, In, JournalHeld
<1>5. CASE Communicated
  BY <1>5 DEF Communicated, Idle, RequestsUnchanged, launch, session, requests, loop, history, EndWait, Closed, TypeOK, Stages, Writers, OnTurn, Granted, Live, In, JournalHeld
<1>6. CASE TimeOut
  BY <1>6 DEF TimeOut, Idle, RequestsUnchanged, launch, session, requests, loop, history, EndWait, Kill, Closed, TypeOK, Stages, Writers, OnTurn, Granted, Live, In, JournalHeld
<1>7. CASE Revoke
  BY <1>7 DEF Revoke, Idle, RequestsUnchanged, launch, session, requests, loop, history, Kill, Closed, TypeOK, Stages, Writers, OnTurn, Granted, Live, In, JournalHeld
<1>8. CASE Publish
  BY <1>8 DEF Publish, Idle, RequestsUnchanged, launch, session, requests, loop, history, TypeOK, Stages, Writers, OnTurn, Granted, Live, In, JournalHeld
<1>9. CASE Continue
  BY <1>9 DEF Continue, Idle, RequestsUnchanged, launch, session, requests, loop, history, LaunchUnchanged, StartTurn, ExhaustedAt, Raise, Return, Stop, NewControl, TypeOK, Stages, Writers, OnTurn, Granted, Live, In, JournalHeld
<1>10. CASE Judge
  BY <1>10 DEF Judge, Idle, RequestsUnchanged, launch, session, requests, loop, history, Raise, Return, Stop, Retry, JudgeFailure, JudgeRateLimit, JudgeTimeOut, JudgeOutputLimit, JudgeTerminated, CanResume, Account, Kind, TypeOK, Stages, Writers, OnTurn, Granted, Live, In, JournalHeld
<1>11. CASE AgentExits
  BY <1>11 DEF AgentExits, Idle, RequestsUnchanged, launch, session, requests, loop, history, TypeOK, Stages, Writers, OnTurn, Granted, Live, In, JournalHeld
<1>12. CASE PipesClose
  BY <1>12 DEF PipesClose, Idle, RequestsUnchanged, launch, session, requests, loop, history, TypeOK, Stages, Writers, OnTurn, Granted, Live, In, JournalHeld
<1>13. CASE Interrupt
  BY <1>13 DEF Interrupt, Idle, RequestsUnchanged, launch, session, requests, loop, history, EndWait, Kill, Closed, TypeOK, Stages, Writers, OnTurn, Granted, Live, In, JournalHeld
<1>14. CASE Cancel
  BY <1>14 DEF Cancel, Idle, RequestsUnchanged, launch, session, requests, loop, history, LaunchUnchanged, Raise, Stop, TypeOK, Stages, Writers, OnTurn, Granted, Live, In, JournalHeld
<1>15. CASE Tick
  BY <1>15 DEF Tick, Idle, RequestsUnchanged, launch, session, requests, loop, history, TypeOK, Stages, Writers, OnTurn, Granted, Live, In, JournalHeld
<1>16. CASE CloseRuntime
  BY <1>16 DEF CloseRuntime, Idle, RequestsUnchanged, launch, session, requests, loop, history, TypeOK, Stages, Writers, OnTurn, Granted, Live, In, JournalHeld
<1>17. CASE KillSessions
  BY <1>17 DEF KillSessions, Idle, RequestsUnchanged, launch, session, requests, loop, history, Kill, Closed, TypeOK, Stages, Writers, OnTurn, Granted, Live, In, JournalHeld
<1>18. CASE UNCHANGED vars
  BY <1>18 DEF vars, TypeOK, Stages, Writers, OnTurn, Granted, Live, In, JournalHeld
<1>19. QED
  BY <1>1, <1>2, <1>3, <1>4, <1>5, <1>6, <1>7, <1>8, <1>9, <1>10, <1>11, <1>12, <1>13, <1>14, <1>15, <1>16, <1>17, <1>18 DEF Next, Supervise

\* The tree is stopped exactly while requests are pending.
LEMMA FrozenStep ==
    ASSUME TypeOK, Stages, Trees, Frozen, [Next]_vars
    PROVE  Frozen'
<1>1. ASSUME NEW r \in Requests, Send(r) \/ Handle(r) \/ Finish(r)
      PROVE  Frozen'
  <2>1. CASE Send(r)
    BY <2>1 DEF Send, SupervisorUnchanged, launch, session, loop, history, TypeOK, Stages, Trees, Frozen, Suspended, LockHeld, JournalHeld, OnTurn, Granted, Attached, ControlClosed
  <2>2. CASE Authenticate(r)
    BY <2>2 DEF Authenticate, To, OnlyHandler, SupervisorUnchanged, launch, session, loop, history, TypeOK, Stages, Trees, Frozen, Suspended, LockHeld, JournalHeld, OnTurn, Granted, Attached, ControlClosed
  <2>3. CASE Refuse(r)
    BY <2>3 DEF Refuse, To, OnlyHandler, SupervisorUnchanged, launch, session, loop, history, TypeOK, Stages, Trees, Frozen, Suspended, LockHeld, JournalHeld, OnTurn, Granted, Attached, ControlClosed
  <2>4. CASE Suspend(r)
    BY <2>4 DEF Suspend, To, SupervisorUnchanged, launch, session, loop, history, TypeOK, Stages, Trees, Frozen, Suspended, LockHeld, JournalHeld, OnTurn, Granted, Attached, ControlClosed
  <2>5. CASE Release(r)
    <3>1. CASE LastOut(r)
      <4>1. \A q \in Requests : ~(handler'[q] \in Suspended /\ of'[q] = turn')
        BY <2>5, <3>1 DEF Release, To, SupervisorUnchanged, launch, LastOut, Pending, In, TypeOK,
                          Suspended, LockHeld, JournalHeld
      <4>2. tree' = "stopped" => control'.closed
        BY <2>5, <3>1, Released, ClosedFields DEF TypeOK
      <4>3. QED
        BY <4>1, <4>2 DEF Frozen
    <3>2. CASE ~LastOut(r)
      <4>1. UNCHANGED <<tree, control, turn>>
        BY <2>5, <3>2, Released DEF Release, SupervisorUnchanged, launch
      <4>2. \A q \in Requests : q # r => handler'[q] = handler[q] /\ of'[q] = of[q]
        BY <2>5 DEF Release, To, TypeOK
      <4>3. handler'[r] = "done"
        BY <2>5 DEF Release, To, TypeOK
      <4>4. ASSUME NEW q \in Requests, handler[q] \in Suspended, of[q] = turn
            PROVE  \E p \in Requests : handler'[p] \in Suspended /\ of'[p] = turn
        <5>1. CASE q # r
          BY <4>2, <4>4, <5>1
        <5>2. CASE q = r
          <6>1. r \in Pending
            BY <4>4, <5>2 DEF Pending, In
          <6>2. PICK p \in Pending : p # r
            BY <3>2, <6>1 DEF LastOut
          <6>3. QED
            BY <4>2, <6>2 DEF Pending, In
        <5>3. QED
          BY <5>1, <5>2
      <4>5. QED
        BY <4>1, <4>2, <4>3, <4>4 DEF Frozen, Suspended, LockHeld, JournalHeld
    <3>3. QED
      BY <3>1, <3>2
  <2>6. CASE Lock(r)
    BY <2>6 DEF Lock, To, OnlyHandler, SupervisorUnchanged, launch, session, loop, history, TypeOK, Stages, Trees, Frozen, Suspended, LockHeld, JournalHeld, OnTurn, Granted, Attached, ControlClosed
  <2>7. CASE StartExecutor(r)
    BY <2>7 DEF StartExecutor, To, OnlyHandler, SupervisorUnchanged, launch, session, loop, history, TypeOK, Stages, Trees, Frozen, Suspended, LockHeld, JournalHeld, OnTurn, Granted, Attached, ControlClosed
  <2>8. CASE OpenJournal(r)
    BY <2>8 DEF OpenJournal, To, OnlyHandler, SupervisorUnchanged, launch, session, loop, history, TypeOK, Stages, Trees, Frozen, Suspended, LockHeld, JournalHeld, OnTurn, Granted, Attached, ControlClosed
  <2>9. CASE GiveUp(r)
    BY <2>9 DEF GiveUp, To, OnlyHandler, SupervisorUnchanged, launch, session, loop, history, TypeOK, Stages, Trees, Frozen, Suspended, LockHeld, JournalHeld, OnTurn, Granted, Attached, ControlClosed
  <2>10. CASE SaveReport(r)
    BY <2>10 DEF SaveReport, To, SupervisorUnchanged, launch, session, loop, history, TypeOK, Stages, Trees, Frozen, Suspended, LockHeld, JournalHeld, OnTurn, Granted, Attached, ControlClosed
  <2>11. CASE PublishReport(r)
    BY <2>11 DEF PublishReport, To, SupervisorUnchanged, launch, session, loop, history, TypeOK, Stages, Trees, Frozen, Suspended, LockHeld, JournalHeld, OnTurn, Granted, Attached, ControlClosed
  <2>12. CASE Finish(r)
    BY <2>12 DEF Finish, To, OnlyHandler, SupervisorUnchanged, launch, session, loop, history, TypeOK, Stages, Trees, Frozen, Suspended, LockHeld, JournalHeld, OnTurn, Granted, Attached, ControlClosed
  <2>13. QED
    BY <1>1, <2>1, <2>2, <2>3, <2>4, <2>5, <2>6, <2>7, <2>8, <2>9, <2>10, <2>11, <2>12 DEF Handle
<1>2. CASE Grant
  BY <1>2 DEF Grant, Idle, RequestsUnchanged, launch, session, requests, loop, history, TypeOK, Stages, Trees, Frozen, Suspended, LockHeld, JournalHeld, OnTurn, Granted, Attached, ControlClosed
<1>3. CASE Spawn
  BY <1>3 DEF Spawn, Idle, RequestsUnchanged, launch, session, requests, loop, history, Closed, TypeOK, Stages, Trees, Frozen, Suspended, LockHeld, JournalHeld, OnTurn, Granted, Attached, ControlClosed
<1>4. CASE Attach
  BY <1>4 DEF Attach, Idle, RequestsUnchanged, launch, session, requests, loop, history, Kill, Closed, TypeOK, Stages, Trees, Frozen, Suspended, LockHeld, JournalHeld, OnTurn, Granted, Attached, ControlClosed
<1>5. CASE Communicated
  BY <1>5 DEF Communicated, Idle, RequestsUnchanged, launch, session, requests, loop, history, EndWait, Closed, TypeOK, Stages, Trees, Frozen, Suspended, LockHeld, JournalHeld, OnTurn, Granted, Attached, ControlClosed
<1>6. CASE TimeOut
  BY <1>6 DEF TimeOut, Idle, RequestsUnchanged, launch, session, requests, loop, history, EndWait, Kill, Closed, TypeOK, Stages, Trees, Frozen, Suspended, LockHeld, JournalHeld, OnTurn, Granted, Attached, ControlClosed
<1>7. CASE Revoke
  BY <1>7 DEF Revoke, Idle, RequestsUnchanged, launch, session, requests, loop, history, Kill, Closed, TypeOK, Stages, Trees, Frozen, Suspended, LockHeld, JournalHeld, OnTurn, Granted, Attached, ControlClosed
<1>8. CASE Publish
  BY <1>8 DEF Publish, Idle, RequestsUnchanged, launch, session, requests, loop, history, TypeOK, Stages, Trees, Frozen, Suspended, LockHeld, JournalHeld, OnTurn, Granted, Attached, ControlClosed
<1>9. CASE Continue
  BY <1>9 DEF Continue, Idle, RequestsUnchanged, launch, session, requests, loop, history, LaunchUnchanged, StartTurn, ExhaustedAt, Raise, Return, Stop, NewControl, TypeOK, Stages, Trees, Frozen, Suspended, LockHeld, JournalHeld, OnTurn, Granted, Attached, ControlClosed
<1>10. CASE Judge
  BY <1>10 DEF Judge, Idle, RequestsUnchanged, launch, session, requests, loop, history, Raise, Return, Stop, Retry, JudgeFailure, JudgeRateLimit, JudgeTimeOut, JudgeOutputLimit, JudgeTerminated, CanResume, Account, Kind, TypeOK, Stages, Trees, Frozen, Suspended, LockHeld, JournalHeld, OnTurn, Granted, Attached, ControlClosed
<1>11. CASE AgentExits
  BY <1>11 DEF AgentExits, Idle, RequestsUnchanged, launch, session, requests, loop, history, TypeOK, Stages, Trees, Frozen, Suspended, LockHeld, JournalHeld, OnTurn, Granted, Attached, ControlClosed
<1>12. CASE PipesClose
  BY <1>12 DEF PipesClose, Idle, RequestsUnchanged, launch, session, requests, loop, history, TypeOK, Stages, Trees, Frozen, Suspended, LockHeld, JournalHeld, OnTurn, Granted, Attached, ControlClosed
<1>13. CASE Interrupt
  BY <1>13 DEF Interrupt, Idle, RequestsUnchanged, launch, session, requests, loop, history, EndWait, Kill, Closed, TypeOK, Stages, Trees, Frozen, Suspended, LockHeld, JournalHeld, OnTurn, Granted, Attached, ControlClosed
<1>14. CASE Cancel
  BY <1>14 DEF Cancel, Idle, RequestsUnchanged, launch, session, requests, loop, history, LaunchUnchanged, Raise, Stop, TypeOK, Stages, Trees, Frozen, Suspended, LockHeld, JournalHeld, OnTurn, Granted, Attached, ControlClosed
<1>15. CASE Tick
  BY <1>15 DEF Tick, Idle, RequestsUnchanged, launch, session, requests, loop, history, TypeOK, Stages, Trees, Frozen, Suspended, LockHeld, JournalHeld, OnTurn, Granted, Attached, ControlClosed
<1>16. CASE CloseRuntime
  BY <1>16 DEF CloseRuntime, Idle, RequestsUnchanged, launch, session, requests, loop, history, TypeOK, Stages, Trees, Frozen, Suspended, LockHeld, JournalHeld, OnTurn, Granted, Attached, ControlClosed
<1>17. CASE KillSessions
  BY <1>17 DEF KillSessions, Idle, RequestsUnchanged, launch, session, requests, loop, history, Kill, Closed, TypeOK, Stages, Trees, Frozen, Suspended, LockHeld, JournalHeld, OnTurn, Granted, Attached, ControlClosed
<1>18. CASE UNCHANGED vars
  BY <1>18 DEF vars, TypeOK, Stages, Trees, Frozen, Suspended, LockHeld, JournalHeld, OnTurn, Granted, Attached, ControlClosed
<1>19. QED
  BY <1>1, <1>2, <1>3, <1>4, <1>5, <1>6, <1>7, <1>8, <1>9, <1>10, <1>11, <1>12, <1>13, <1>14, <1>15, <1>16, <1>17, <1>18 DEF Next, Supervise

\* The processes of a turn are gone when it is over, unless a closing Runtime is about to kill them.
LEMMA TreesStep ==
    ASSUME TypeOK, Stages, Trees, [Next]_vars
    PROVE  Trees'
<1>1. ASSUME NEW r \in Requests, Send(r) \/ Handle(r) \/ Finish(r)
      PROVE  Trees'
  <2>1. CASE Send(r)
    BY <2>1 DEF Send, SupervisorUnchanged, launch, session, loop, history, TypeOK, Stages, Trees, OnTurn, Granted, Attached, ControlClosed, LastOut
  <2>2. CASE Authenticate(r)
    BY <2>2 DEF Authenticate, To, OnlyHandler, SupervisorUnchanged, launch, session, loop, history, TypeOK, Stages, Trees, OnTurn, Granted, Attached, ControlClosed, LastOut
  <2>3. CASE Refuse(r)
    BY <2>3 DEF Refuse, To, OnlyHandler, SupervisorUnchanged, launch, session, loop, history, TypeOK, Stages, Trees, OnTurn, Granted, Attached, ControlClosed, LastOut
  <2>4. CASE Suspend(r)
    BY <2>4 DEF Suspend, To, SupervisorUnchanged, launch, session, loop, history, TypeOK, Stages, Trees, OnTurn, Granted, Attached, ControlClosed, LastOut
  <2>5. CASE Release(r)
    <3>1. LastOut(r) => of[r] = turn
      BY DEF LastOut, Pending
    <3>2. LastOut(r) => phase \notin {"granting", "spawning"}
      BY <3>1 DEF Stages, TypeOK
    <3>3. UNCHANGED <<phase, runtime>>
      BY <2>5 DEF Release, SupervisorUnchanged, session
    <3>4. QED
      BY <3>2, <3>3, <2>5, Released, ClosedFields DEF TypeOK, Trees
  <2>6. CASE Lock(r)
    BY <2>6 DEF Lock, To, OnlyHandler, SupervisorUnchanged, launch, session, loop, history, TypeOK, Stages, Trees, OnTurn, Granted, Attached, ControlClosed, LastOut
  <2>7. CASE StartExecutor(r)
    BY <2>7 DEF StartExecutor, To, OnlyHandler, SupervisorUnchanged, launch, session, loop, history, TypeOK, Stages, Trees, OnTurn, Granted, Attached, ControlClosed, LastOut
  <2>8. CASE OpenJournal(r)
    BY <2>8 DEF OpenJournal, To, OnlyHandler, SupervisorUnchanged, launch, session, loop, history, TypeOK, Stages, Trees, OnTurn, Granted, Attached, ControlClosed, LastOut
  <2>9. CASE GiveUp(r)
    BY <2>9 DEF GiveUp, To, OnlyHandler, SupervisorUnchanged, launch, session, loop, history, TypeOK, Stages, Trees, OnTurn, Granted, Attached, ControlClosed, LastOut
  <2>10. CASE SaveReport(r)
    BY <2>10 DEF SaveReport, To, SupervisorUnchanged, launch, session, loop, history, TypeOK, Stages, Trees, OnTurn, Granted, Attached, ControlClosed, LastOut
  <2>11. CASE PublishReport(r)
    BY <2>11 DEF PublishReport, To, SupervisorUnchanged, launch, session, loop, history, TypeOK, Stages, Trees, OnTurn, Granted, Attached, ControlClosed, LastOut
  <2>12. CASE Finish(r)
    BY <2>12 DEF Finish, To, OnlyHandler, SupervisorUnchanged, launch, session, loop, history, TypeOK, Stages, Trees, OnTurn, Granted, Attached, ControlClosed, LastOut
  <2>13. QED
    BY <1>1, <2>1, <2>2, <2>3, <2>4, <2>5, <2>6, <2>7, <2>8, <2>9, <2>10, <2>11, <2>12 DEF Handle
<1>2. CASE Grant
  BY <1>2 DEF Grant, Idle, RequestsUnchanged, launch, session, requests, loop, history, TypeOK, Stages, Trees, OnTurn, Granted, Attached, ControlClosed, LastOut
<1>3. CASE Spawn
  BY <1>3 DEF Spawn, Idle, RequestsUnchanged, launch, session, requests, loop, history, Closed, TypeOK, Stages, Trees, OnTurn, Granted, Attached, ControlClosed, LastOut
<1>4. CASE Attach
  BY <1>4 DEF Attach, Idle, RequestsUnchanged, launch, session, requests, loop, history, Kill, Closed, TypeOK, Stages, Trees, OnTurn, Granted, Attached, ControlClosed, LastOut
<1>5. CASE Communicated
  BY <1>5 DEF Communicated, Idle, RequestsUnchanged, launch, session, requests, loop, history, EndWait, Closed, TypeOK, Stages, Trees, OnTurn, Granted, Attached, ControlClosed, LastOut
<1>6. CASE TimeOut
  BY <1>6 DEF TimeOut, Idle, RequestsUnchanged, launch, session, requests, loop, history, EndWait, Kill, Closed, TypeOK, Stages, Trees, OnTurn, Granted, Attached, ControlClosed, LastOut
<1>7. CASE Revoke
  BY <1>7 DEF Revoke, Idle, RequestsUnchanged, launch, session, requests, loop, history, Kill, Closed, TypeOK, Stages, Trees, OnTurn, Granted, Attached, ControlClosed, LastOut
<1>8. CASE Publish
  BY <1>8 DEF Publish, Idle, RequestsUnchanged, launch, session, requests, loop, history, TypeOK, Stages, Trees, OnTurn, Granted, Attached, ControlClosed, LastOut
<1>9. CASE Continue
  BY <1>9 DEF Continue, Idle, RequestsUnchanged, launch, session, requests, loop, history, LaunchUnchanged, StartTurn, ExhaustedAt, Raise, Return, Stop, NewControl, TypeOK, Stages, Trees, OnTurn, Granted, Attached, ControlClosed, LastOut
<1>10. CASE Judge
  BY <1>10 DEF Judge, Idle, RequestsUnchanged, launch, session, requests, loop, history, Raise, Return, Stop, Retry, JudgeFailure, JudgeRateLimit, JudgeTimeOut, JudgeOutputLimit, JudgeTerminated, CanResume, Account, Kind, TypeOK, Stages, Trees, OnTurn, Granted, Attached, ControlClosed, LastOut
<1>11. CASE AgentExits
  BY <1>11 DEF AgentExits, Idle, RequestsUnchanged, launch, session, requests, loop, history, TypeOK, Stages, Trees, OnTurn, Granted, Attached, ControlClosed, LastOut
<1>12. CASE PipesClose
  BY <1>12 DEF PipesClose, Idle, RequestsUnchanged, launch, session, requests, loop, history, TypeOK, Stages, Trees, OnTurn, Granted, Attached, ControlClosed, LastOut
<1>13. CASE Interrupt
  BY <1>13 DEF Interrupt, Idle, RequestsUnchanged, launch, session, requests, loop, history, EndWait, Kill, Closed, TypeOK, Stages, Trees, OnTurn, Granted, Attached, ControlClosed, LastOut
<1>14. CASE Cancel
  BY <1>14 DEF Cancel, Idle, RequestsUnchanged, launch, session, requests, loop, history, LaunchUnchanged, Raise, Stop, TypeOK, Stages, Trees, OnTurn, Granted, Attached, ControlClosed, LastOut
<1>15. CASE Tick
  BY <1>15 DEF Tick, Idle, RequestsUnchanged, launch, session, requests, loop, history, TypeOK, Stages, Trees, OnTurn, Granted, Attached, ControlClosed, LastOut
<1>16. CASE CloseRuntime
  BY <1>16 DEF CloseRuntime, Idle, RequestsUnchanged, launch, session, requests, loop, history, TypeOK, Stages, Trees, OnTurn, Granted, Attached, ControlClosed, LastOut
<1>17. CASE KillSessions
  BY <1>17 DEF KillSessions, Idle, RequestsUnchanged, launch, session, requests, loop, history, Kill, Closed, TypeOK, Stages, Trees, OnTurn, Granted, Attached, ControlClosed, LastOut
<1>18. CASE UNCHANGED vars
  BY <1>18 DEF vars, TypeOK, Stages, Trees, OnTurn, Granted, Attached, ControlClosed, LastOut
<1>19. QED
  BY <1>1, <1>2, <1>3, <1>4, <1>5, <1>6, <1>7, <1>8, <1>9, <1>10, <1>11, <1>12, <1>13, <1>14, <1>15, <1>16, <1>17, <1>18 DEF Next, Supervise

\* A tick counts for the Agent exactly when its tree runs, and only within the budget left.
LEMMA ClockStep ==
    ASSUME TypeOK, Stages, Frozen, Clock, [Next]_vars
    PROVE  Clock'
<1>1. ASSUME NEW r \in Requests, Send(r) \/ Handle(r) \/ Finish(r)
      PROVE  Clock'
  <2>1. CASE Send(r)
    BY <2>1 DEF Send, SupervisorUnchanged, launch, session, loop, history, TypeOK, Stages, Frozen, Clock, ActiveSeconds, Unfinished, Limit, Remaining, Minimum, Pending, In
  <2>2. CASE Authenticate(r)
    BY <2>2 DEF Authenticate, To, OnlyHandler, SupervisorUnchanged, launch, session, loop, history, TypeOK, Stages, Frozen, Clock, ActiveSeconds, Unfinished, Limit, Remaining, Minimum, Pending, In
  <2>3. CASE Refuse(r)
    BY <2>3 DEF Refuse, To, OnlyHandler, SupervisorUnchanged, launch, session, loop, history, TypeOK, Stages, Frozen, Clock, ActiveSeconds, Unfinished, Limit, Remaining, Minimum, Pending, In
  <2>4. CASE Suspend(r)
    BY <2>4, SuspendedControl, ControlFields DEF Suspend, SupervisorUnchanged, launch, session, loop, history, TypeOK, Clock, ActiveSeconds, Unfinished
  <2>5. CASE Release(r)
    BY <2>5, Released, ClosedFields, ControlFields DEF Release, SupervisorUnchanged, launch, session, loop, history, TypeOK, Clock, ActiveSeconds, Unfinished
  <2>6. CASE Lock(r)
    BY <2>6 DEF Lock, To, OnlyHandler, SupervisorUnchanged, launch, session, loop, history, TypeOK, Stages, Frozen, Clock, ActiveSeconds, Unfinished, Limit, Remaining, Minimum, Pending, In
  <2>7. CASE StartExecutor(r)
    BY <2>7 DEF StartExecutor, To, OnlyHandler, SupervisorUnchanged, launch, session, loop, history, TypeOK, Stages, Frozen, Clock, ActiveSeconds, Unfinished, Limit, Remaining, Minimum, Pending, In
  <2>8. CASE OpenJournal(r)
    BY <2>8 DEF OpenJournal, To, OnlyHandler, SupervisorUnchanged, launch, session, loop, history, TypeOK, Stages, Frozen, Clock, ActiveSeconds, Unfinished, Limit, Remaining, Minimum, Pending, In
  <2>9. CASE GiveUp(r)
    BY <2>9 DEF GiveUp, To, OnlyHandler, SupervisorUnchanged, launch, session, loop, history, TypeOK, Stages, Frozen, Clock, ActiveSeconds, Unfinished, Limit, Remaining, Minimum, Pending, In
  <2>10. CASE SaveReport(r)
    BY <2>10 DEF SaveReport, To, SupervisorUnchanged, launch, session, loop, history, TypeOK, Stages, Frozen, Clock, ActiveSeconds, Unfinished, Limit, Remaining, Minimum, Pending, In
  <2>11. CASE PublishReport(r)
    BY <2>11 DEF PublishReport, To, SupervisorUnchanged, launch, session, loop, history, TypeOK, Stages, Frozen, Clock, ActiveSeconds, Unfinished, Limit, Remaining, Minimum, Pending, In
  <2>12. CASE Finish(r)
    BY <2>12 DEF Finish, To, OnlyHandler, SupervisorUnchanged, launch, session, loop, history, TypeOK, Stages, Frozen, Clock, ActiveSeconds, Unfinished, Limit, Remaining, Minimum, Pending, In
  <2>13. QED
    BY <1>1, <2>1, <2>2, <2>3, <2>4, <2>5, <2>6, <2>7, <2>8, <2>9, <2>10, <2>11, <2>12 DEF Handle
<1>2. CASE Grant
  BY <1>2 DEF Grant, Idle, RequestsUnchanged, launch, session, requests, loop, history, TypeOK, Stages, Frozen, Clock, ActiveSeconds, Unfinished, Limit, Remaining, Minimum, Pending, In
<1>3. CASE Spawn
  BY <1>3 DEF Spawn, Idle, RequestsUnchanged, launch, session, requests, loop, history, Closed, TypeOK, Stages, Frozen, Clock, ActiveSeconds, Unfinished, Limit, Remaining, Minimum, Pending, In
<1>4. CASE Attach
  BY <1>4 DEF Attach, Idle, RequestsUnchanged, launch, session, requests, loop, history, Kill, Closed, TypeOK, Stages, Frozen, Clock, ActiveSeconds, Unfinished, Limit, Remaining, Minimum, Pending, In
<1>5. CASE Communicated
  BY <1>5 DEF Communicated, Idle, RequestsUnchanged, launch, session, requests, loop, history, EndWait, Closed, TypeOK, Stages, Frozen, Clock, ActiveSeconds, Unfinished, Limit, Remaining, Minimum, Pending, In
<1>6. CASE TimeOut
  BY <1>6 DEF TimeOut, Idle, RequestsUnchanged, launch, session, requests, loop, history, EndWait, Kill, Closed, TypeOK, Stages, Frozen, Clock, ActiveSeconds, Unfinished, Limit, Remaining, Minimum, Pending, In
<1>7. CASE Revoke
  BY <1>7 DEF Revoke, Idle, RequestsUnchanged, launch, session, requests, loop, history, Kill, Closed, TypeOK, Stages, Frozen, Clock, ActiveSeconds, Unfinished, Limit, Remaining, Minimum, Pending, In
<1>8. CASE Publish
  BY <1>8 DEF Publish, Idle, RequestsUnchanged, launch, session, requests, loop, history, TypeOK, Stages, Frozen, Clock, ActiveSeconds, Unfinished, Limit, Remaining, Minimum, Pending, In
<1>9. CASE Continue
  BY <1>9 DEF Continue, Idle, RequestsUnchanged, launch, session, requests, loop, history, LaunchUnchanged, StartTurn, ExhaustedAt, Raise, Return, Stop, NewControl, TypeOK, Stages, Frozen, Clock, ActiveSeconds, Unfinished, Limit, Remaining, Minimum, Pending, In
<1>10. CASE Judge
  BY <1>10 DEF Judge, Idle, RequestsUnchanged, launch, session, requests, loop, history, Raise, Return, Stop, Retry, JudgeFailure, JudgeRateLimit, JudgeTimeOut, JudgeOutputLimit, JudgeTerminated, CanResume, Account, Kind, TypeOK, Stages, Frozen, Clock, ActiveSeconds, Unfinished, Limit, Remaining, Minimum, Pending, In
<1>11. CASE AgentExits
  BY <1>11 DEF AgentExits, Idle, RequestsUnchanged, launch, session, requests, loop, history, TypeOK, Stages, Frozen, Clock, ActiveSeconds, Unfinished, Limit, Remaining, Minimum, Pending, In
<1>12. CASE PipesClose
  BY <1>12 DEF PipesClose, Idle, RequestsUnchanged, launch, session, requests, loop, history, TypeOK, Stages, Frozen, Clock, ActiveSeconds, Unfinished, Limit, Remaining, Minimum, Pending, In
<1>13. CASE Interrupt
  BY <1>13 DEF Interrupt, Idle, RequestsUnchanged, launch, session, requests, loop, history, EndWait, Kill, Closed, TypeOK, Stages, Frozen, Clock, ActiveSeconds, Unfinished, Limit, Remaining, Minimum, Pending, In
<1>14. CASE Cancel
  BY <1>14 DEF Cancel, Idle, RequestsUnchanged, launch, session, requests, loop, history, LaunchUnchanged, Raise, Stop, TypeOK, Stages, Frozen, Clock, ActiveSeconds, Unfinished, Limit, Remaining, Minimum, Pending, In
<1>15. CASE Tick
  <2>1. control.finished = Unfinished /\ control.since - control.paused = ran
    BY <1>15 DEF Tick, Clock, ActiveSeconds
  <2>2. tree = "running" => Pending = {}
    BY DEF Frozen, Pending, In
  <2>3. tree = "stopped" => Pending # {}
    BY <1>15 DEF Tick, Frozen, Pending, In
  <2>4. ActiveSeconds' = ran'
    BY <1>15, <2>1, <2>2, <2>3, Ticked, ControlFields DEF Tick, ActiveSeconds, Unfinished, TypeOK
  <2>5. tree = "running" => used + ran + 1 <= Budget
    BY <1>15, SessionAssumption DEF Tick, Clock, Limit, Remaining, Minimum, TypeOK
  <2>6. QED
    BY <1>15, <2>1, <2>4, <2>5, Ticked DEF Tick, Clock, loop, TypeOK
<1>16. CASE CloseRuntime
  BY <1>16 DEF CloseRuntime, Idle, RequestsUnchanged, launch, session, requests, loop, history, TypeOK, Stages, Frozen, Clock, ActiveSeconds, Unfinished, Limit, Remaining, Minimum, Pending, In
<1>17. CASE KillSessions
  BY <1>17 DEF KillSessions, Idle, RequestsUnchanged, launch, session, requests, loop, history, Kill, Closed, TypeOK, Stages, Frozen, Clock, ActiveSeconds, Unfinished, Limit, Remaining, Minimum, Pending, In
<1>18. CASE UNCHANGED vars
  BY <1>18 DEF vars, TypeOK, Stages, Frozen, Clock, ActiveSeconds, Unfinished, Limit, Remaining, Minimum, Pending, In
<1>19. QED
  BY <1>1, <1>2, <1>3, <1>4, <1>5, <1>6, <1>7, <1>8, <1>9, <1>10, <1>11, <1>12, <1>13, <1>14, <1>15, <1>16, <1>17, <1>18 DEF Next, Supervise

\* The runner judges a turn behind the last write to the Journal.
LEMMA OutcomeStep ==
    ASSUME TypeOK, Stages, Writers, Outcome, [Next]_vars
    PROVE  Outcome'
<1>1. ASSUME NEW r \in Requests, Send(r) \/ Handle(r) \/ Finish(r)
      PROVE  Outcome'
  <2>1. CASE Send(r)
    BY <2>1 DEF Send, SupervisorUnchanged, launch, session, loop, history, TypeOK, Stages, Writers, Outcome, JournalHeld
  <2>2. CASE Authenticate(r)
    BY <2>2 DEF Authenticate, To, OnlyHandler, SupervisorUnchanged, launch, session, loop, history, TypeOK, Stages, Writers, Outcome, JournalHeld
  <2>3. CASE Refuse(r)
    BY <2>3 DEF Refuse, To, OnlyHandler, SupervisorUnchanged, launch, session, loop, history, TypeOK, Stages, Writers, Outcome, JournalHeld
  <2>4. CASE Suspend(r)
    BY <2>4 DEF Suspend, To, SupervisorUnchanged, launch, session, loop, history, TypeOK, Stages, Writers, Outcome, JournalHeld
  <2>5. CASE Release(r)
    BY <2>5 DEF Release, To, SupervisorUnchanged, Closed, launch, session, loop, history, TypeOK, Stages, Writers, Outcome, JournalHeld
  <2>6. CASE Lock(r)
    BY <2>6 DEF Lock, To, OnlyHandler, SupervisorUnchanged, launch, session, loop, history, TypeOK, Stages, Writers, Outcome, JournalHeld
  <2>7. CASE StartExecutor(r)
    BY <2>7 DEF StartExecutor, To, OnlyHandler, SupervisorUnchanged, launch, session, loop, history, TypeOK, Stages, Writers, Outcome, JournalHeld
  <2>8. CASE OpenJournal(r)
    BY <2>8 DEF OpenJournal, To, OnlyHandler, SupervisorUnchanged, launch, session, loop, history, TypeOK, Stages, Writers, Outcome, JournalHeld
  <2>9. CASE GiveUp(r)
    BY <2>9 DEF GiveUp, To, OnlyHandler, SupervisorUnchanged, launch, session, loop, history, TypeOK, Stages, Writers, Outcome, JournalHeld
  <2>10. CASE SaveReport(r)
    BY <2>10 DEF SaveReport, To, SupervisorUnchanged, launch, session, loop, history, TypeOK, Stages, Writers, Outcome, JournalHeld
  <2>11. CASE PublishReport(r)
    BY <2>11 DEF PublishReport, To, SupervisorUnchanged, launch, session, loop, history, TypeOK, Stages, Writers, Outcome, JournalHeld
  <2>12. CASE Finish(r)
    BY <2>12 DEF Finish, To, OnlyHandler, SupervisorUnchanged, launch, session, loop, history, TypeOK, Stages, Writers, Outcome, JournalHeld
  <2>13. QED
    BY <1>1, <2>1, <2>2, <2>3, <2>4, <2>5, <2>6, <2>7, <2>8, <2>9, <2>10, <2>11, <2>12 DEF Handle
<1>2. CASE Grant
  BY <1>2 DEF Grant, Idle, RequestsUnchanged, launch, session, requests, loop, history, TypeOK, Stages, Writers, Outcome, JournalHeld
<1>3. CASE Spawn
  BY <1>3 DEF Spawn, Idle, RequestsUnchanged, launch, session, requests, loop, history, Closed, TypeOK, Stages, Writers, Outcome, JournalHeld
<1>4. CASE Attach
  BY <1>4 DEF Attach, Idle, RequestsUnchanged, launch, session, requests, loop, history, Kill, Closed, TypeOK, Stages, Writers, Outcome, JournalHeld
<1>5. CASE Communicated
  BY <1>5 DEF Communicated, Idle, RequestsUnchanged, launch, session, requests, loop, history, EndWait, Closed, TypeOK, Stages, Writers, Outcome, JournalHeld
<1>6. CASE TimeOut
  BY <1>6 DEF TimeOut, Idle, RequestsUnchanged, launch, session, requests, loop, history, EndWait, Kill, Closed, TypeOK, Stages, Writers, Outcome, JournalHeld
<1>7. CASE Revoke
  BY <1>7 DEF Revoke, Idle, RequestsUnchanged, launch, session, requests, loop, history, Kill, Closed, TypeOK, Stages, Writers, Outcome, JournalHeld
<1>8. CASE Publish
  BY <1>8 DEF Publish, Idle, RequestsUnchanged, launch, session, requests, loop, history, TypeOK, Stages, Writers, Outcome, JournalHeld
<1>9. CASE Continue
  BY <1>9 DEF Continue, Idle, RequestsUnchanged, launch, session, requests, loop, history, LaunchUnchanged, StartTurn, ExhaustedAt, Raise, Return, Stop, NewControl, TypeOK, Stages, Writers, Outcome, JournalHeld
<1>10. CASE Judge
  <2>1. PICK kind \in Kind, breaks \in BOOLEAN : Judged(kind, breaks)
    BY <1>10, JudgeCases
  <2>2. result # "returned"
    BY <1>10 DEF Judge, Stages
  <2>3. QED
    BY <2>1, <2>2, JudgedRunner DEF Outcome
<1>11. CASE AgentExits
  BY <1>11 DEF AgentExits, Idle, RequestsUnchanged, launch, session, requests, loop, history, TypeOK, Stages, Writers, Outcome, JournalHeld
<1>12. CASE PipesClose
  BY <1>12 DEF PipesClose, Idle, RequestsUnchanged, launch, session, requests, loop, history, TypeOK, Stages, Writers, Outcome, JournalHeld
<1>13. CASE Interrupt
  BY <1>13 DEF Interrupt, Idle, RequestsUnchanged, launch, session, requests, loop, history, EndWait, Kill, Closed, TypeOK, Stages, Writers, Outcome, JournalHeld
<1>14. CASE Cancel
  BY <1>14 DEF Cancel, Idle, RequestsUnchanged, launch, session, requests, loop, history, LaunchUnchanged, Raise, Stop, TypeOK, Stages, Writers, Outcome, JournalHeld
<1>15. CASE Tick
  BY <1>15 DEF Tick, Idle, RequestsUnchanged, launch, session, requests, loop, history, TypeOK, Stages, Writers, Outcome, JournalHeld
<1>16. CASE CloseRuntime
  BY <1>16 DEF CloseRuntime, Idle, RequestsUnchanged, launch, session, requests, loop, history, TypeOK, Stages, Writers, Outcome, JournalHeld
<1>17. CASE KillSessions
  BY <1>17 DEF KillSessions, Idle, RequestsUnchanged, launch, session, requests, loop, history, Kill, Closed, TypeOK, Stages, Writers, Outcome, JournalHeld
<1>18. CASE UNCHANGED vars
  BY <1>18 DEF vars, TypeOK, Stages, Writers, Outcome, JournalHeld
<1>19. QED
  BY <1>1, <1>2, <1>3, <1>4, <1>5, <1>6, <1>7, <1>8, <1>9, <1>10, <1>11, <1>12, <1>13, <1>14, <1>15, <1>16, <1>17, <1>18 DEF Next, Supervise

\* Only the loop charges, and only it begins a launch.
LEMMA PaidElsewhere ==
    ASSUME Paid, UNCHANGED <<turn, runner>>,
           \/ phase' = phase /\ result' = result
           \/ phase \notin {"top", "over"} /\ phase' \notin {"top", "over"} /\ result' = result
           \/ phase' = "over" /\ result' = "raised"
    PROVE  Paid'
BY DEF Paid, LaunchesArePaid, Owed

\* Every charge is for the launch that is begun, or owed.
LEMMA PaidStep ==
    ASSUME TypeOK, Stages, Paid, [Next]_vars
    PROVE  Paid'
<1> turn \in Nat /\ runner.resumes \in Nat /\ runner.recoveries \in Nat /\ runner.rates \in Nat
    /\ runner.prompt \in BOOLEAN
  BY RunnerFields DEF TypeOK
<1>1. ASSUME NEW r \in Requests, Send(r) \/ Handle(r) \/ Finish(r)
      PROVE  Paid'
  <2>1. SupervisorUnchanged
    BY <1>1 DEF Send, Handle, Finish, Authenticate, Refuse, Suspend, Release, Lock, StartExecutor,
                OpenJournal, GiveUp, SaveReport, PublishReport, OnlyHandler
  <2>2. QED
    BY <2>1, PaidElsewhere DEF SupervisorUnchanged, launch, loop
<1>2. CASE Spawn \/ Attach \/ Communicated \/ TimeOut \/ Interrupt \/ Revoke
  BY <1>2, PaidElsewhere DEF Spawn, Attach, Communicated, TimeOut, Interrupt, EndWait, Revoke, Idle,
                             launch, loop
<1>3. CASE AgentExits \/ PipesClose \/ Tick \/ CloseRuntime \/ KillSessions \/ UNCHANGED vars
  BY <1>3, PaidElsewhere DEF AgentExits, PipesClose, Tick, CloseRuntime, KillSessions, Idle, launch,
                             loop, vars
<1>4. CASE Grant \/ Publish \/ Cancel
  BY <1>4, PaidElsewhere DEF Grant, Publish, Cancel, Raise, Stop, LaunchUnchanged, launch
<1>5. CASE Continue
  <2>1. CASE (Return \/ Raise) /\ UNCHANGED runner /\ LaunchUnchanged
    BY <1>5, <2>1 DEF Return, Raise, Stop, LaunchUnchanged, launch, Paid, LaunchesArePaid, Owed,
                      Continue
  <2>2. CASE /\ runner.prompt /\ StartTurn
             /\ runner' = [runner EXCEPT !.prompt = FALSE, !.saw = "none"]
    <3>1. /\ runner'.resumes = runner.resumes /\ runner'.recoveries = runner.recoveries
          /\ runner'.rates = runner.rates /\ runner'.prompt = FALSE
      BY <2>2 DEF TypeOK, Runner
    <3>2. phase = "top" /\ phase' = "granting" /\ turn' = turn + 1 /\ result' = result
      BY <1>5, <2>2 DEF Continue, StartTurn
    <3>3. QED
      BY <2>2, <3>1, <3>2 DEF Paid, LaunchesArePaid, Owed
  <2>3. CASE /\ ~runner.prompt /\ StartTurn
             /\ runner' = [runner EXCEPT !.resumes = @ + 1, !.throttled = FALSE, !.saw = "none"]
    <3>1. /\ runner'.resumes = runner.resumes + 1 /\ runner'.recoveries = runner.recoveries
          /\ runner'.rates = runner.rates /\ runner'.prompt = FALSE
      BY <2>3 DEF TypeOK, Runner
    <3>2. phase = "top" /\ phase' = "granting" /\ turn' = turn + 1 /\ result' = result
      BY <1>5, <2>3 DEF Continue, StartTurn
    <3>3. QED
      BY <2>3, <3>1, <3>2 DEF Paid, LaunchesArePaid, Owed
  <2>4. QED
    BY <1>5, <2>1, <2>2, <2>3 DEF Continue, ExhaustedAt
<1>6. CASE Judge
  <2>1. PICK kind \in Kind, breaks \in BOOLEAN : Judged(kind, breaks)
    BY <1>6, JudgeCases
  <2>2. phase = "judging" /\ turn' = turn /\ ~runner.prompt /\ result # "raised"
    BY <1>6 DEF Judge, Paid
  <2>3. /\ phase' \in {"top", "over"}
        /\ result' = "raised" => phase' = "over"
        /\ result' # "raised" =>
             \/ Charged(runner') = Charged(runner) /\ ~runner'.prompt
             \/ Charged(runner') = Charged(runner) + 1 /\ runner'.prompt
    BY <2>1, <2>2, JudgedRunner
  <2>4. runner' \in Runner
    BY <2>1, JudgedRunner DEF Allowed
  <2>5. /\ runner'.resumes \in Nat /\ runner'.recoveries \in Nat /\ runner'.rates \in Nat
    BY <2>4 DEF Runner
  <2>6. turn + 0 = 1 + Charged(runner)
    BY <2>2 DEF Paid, LaunchesArePaid, Owed, Charged
  <2>7. result' # "raised" => turn' + Owed' = 1 + Charged(runner')
    BY <2>2, <2>3, <2>5, <2>6 DEF Owed, Charged
  <2>8. QED
    BY <2>3, <2>5, <2>7 DEF Paid, LaunchesArePaid, Charged
<1>7. QED
  BY <1>1, <1>2, <1>3, <1>4, <1>5, <1>6 DEF Next, Supervise

-----------------------------------------------------------------------------
(* The theorems *)

\* A run begins within the invariant.
LEMMA InitInv == Init => IInv
<1> SUFFICES ASSUME Init PROVE IInv
  OBVIOUS
<1> PICK allowed \in Allowances :
       runner = [allowed |-> allowed, resumes |-> 0, recoveries |-> 0, rates |-> 0,
                 throttled |-> FALSE, prompt |-> TRUE, broke |-> FALSE, saw |-> "none"]
  BY DEF Init
<1> allowed \in [resumes : Nat, recoveries : Nat, rates : Nat]
  BY SessionAssumption
<1>1. TypeOK
  <2>1. runner \in Runner
    BY DEF Runner
  <2>2. runner.resumes <= runner.allowed.resumes /\ runner.recoveries <= runner.allowed.recoveries
    OBVIOUS
  <2>3. control \in Control
    BY DEF Init, Control, NewControl, Unfinished
  <2>4. handler \in [Requests -> {"none", "sent", "arrived", "done"} \cup Suspended]
    BY DEF Init
  <2>5. of \in [Requests -> Nat]
    BY DEF Init
  <2>6. /\ turn = 0 /\ phase = "top" /\ exit = "none" /\ tree = "none" /\ live = FALSE
        /\ runtime = "open" /\ published = 0 /\ report = "none" /\ used = 0 /\ result = "none"
        /\ ran = 0 /\ spent = 0
    BY DEF Init
  <2>7. QED
    <3>1. live \in BOOLEAN
      BY <2>6, Zenon
    <3>2. /\ exit \in {"none", "eof", "timeout", "failed"}
          /\ tree \in {"none", "running", "stopped", "dead"}
          /\ runtime \in {"open", "closing", "closed"}
          /\ report \in {"none", "saved", "published"} /\ result \in {"none", "returned", "raised"}
          /\ turn \in Nat /\ published \in Nat /\ ran \in Nat /\ spent \in Nat
          /\ phase \in Phase /\ used \in Int
      BY <2>6 DEF Phase
    <3>3. QED
      BY <2>1, <2>2, <2>3, <2>4, <2>5, <3>1, <3>2, Zenon DEF TypeOK
<1>2. Stages /\ Writers /\ Frozen /\ Trees
  BY SessionAssumption DEF Init, Stages, Writers, Frozen, Trees, OnTurn, Granted, JournalHeld,
     LockHeld, Suspended
<1>3. Clock
  BY SessionAssumption DEF Init, Clock, NewControl, Unfinished, ActiveSeconds
<1>4. Outcome /\ Paid
  BY DEF Init, Outcome, Paid, LaunchesArePaid, Owed
<1>5. QED
  BY <1>1, <1>2, <1>3, <1>4 DEF IInv

\* The invariant is inductive.
LEMMA Invariant == Spec => []IInv
<1>1. IInv /\ [Next]_vars => IInv'
  BY TypeStep, StagesStep, WritersStep, FrozenStep, TreesStep, ClockStep, OutcomeStep, PaidStep DEF IInv
<1>2. QED
  BY InitInv, <1>1, PTL DEF Spec

\* Every variable keeps its type, and the runner its allowance, whatever the Agent does.
THEOREM TypeCorrect == Spec => []TypeOK
<1>1. IInv => TypeOK
  BY DEF IInv
<1>2. QED
  BY Invariant, <1>1, PTL

\* SessionControl counts the time the Agent ran, however many requests overlap; the Episode
\* is charged exactly that, and never more than it was given.
THEOREM ClockIsExact == Spec => []ClockExact
<1>1. IInv => ClockExact
  BY DEF IInv, Clock, ClockExact
<1>2. QED
  BY Invariant, <1>1, PTL

\* The Agent never runs while a request of it is served, and a stopped one has a request
\* to wait for until its control is closed.
THEOREM FrozenExactly == Spec => []FrozenWhileServed
<1>1. IInv => FrozenWhileServed
  BY DEF IInv, Frozen, FrozenWhileServed, Pending, In
<1>2. QED
  BY Invariant, <1>1, PTL

\* No request writes to the Journal behind the publication of its session's draft.
THEOREM WritesPrecedePublication == Spec => []NoLateWrite
<1>1. IInv => NoLateWrite
  BY DEF IInv, Writers, NoLateWrite, In
<1>2. QED
  BY Invariant, <1>1, PTL

\* A turn that is over has left no process and no token.
THEOREM SessionsEndClean == Spec => []SessionEndsClean
<1>1. IInv => SessionEndsClean
  BY DEF IInv, Trees, Stages, SessionEndsClean, Granted
<1>2. QED
  BY Invariant, <1>1, PTL

\* A run that returns has read every handoff that was published.
THEOREM ReportsAreSeen == Spec => []ReportIsNotLost
<1>1. IInv => ReportIsNotLost
  BY DEF IInv, Outcome, ReportIsNotLost
<1>2. QED
  BY Invariant, <1>1, PTL

\* No launch is charged to two allowances, and none is begun that no allowance paid for.
THEOREM LaunchesPaidOnce == Spec => []LaunchesArePaid
<1>1. IInv => LaunchesArePaid
  BY DEF IInv, Paid
<1>2. QED
  BY Invariant, <1>1, PTL

\* A control that has been closed never resumes its tree: only the release of a request
\* and a new turn's spawn make a tree run.
THEOREM ClosedIsNeverResumed == Spec => NeverResumed
<1> DEFINE Resumed == turn' = turn /\ control.closed /\ tree \in {"stopped", "dead"} => tree' # "running"
<1>1. ASSUME TypeOK, Trees, Next PROVE Resumed
  <2>1. ASSUME NEW r \in Requests, Release(r) PROVE Resumed
    BY <1>1, <2>1, Released
  <2>2. ASSUME NEW r \in Requests, Suspend(r) PROVE Resumed
    BY <2>2 DEF Suspend
  <2>3. ASSUME NEW r \in Requests,
               \/ Send(r) \/ Authenticate(r) \/ Refuse(r) \/ Lock(r) \/ StartExecutor(r)
               \/ OpenJournal(r) \/ GiveUp(r) \/ SaveReport(r) \/ PublishReport(r) \/ Finish(r)
        PROVE  Resumed
    BY <2>3 DEF Send, Authenticate, Refuse, Lock, StartExecutor, OpenJournal, GiveUp, SaveReport,
               PublishReport, Finish, OnlyHandler
  <2>4. CASE Spawn
    BY <1>1, <2>4 DEF Spawn, Trees
  <2>5. CASE Attach \/ TimeOut \/ Interrupt \/ Revoke \/ KillSessions
    BY <2>5 DEF Attach, TimeOut, Interrupt, Revoke, KillSessions, Kill
  <2>6. CASE Continue \/ Cancel \/ Judge
    BY <2>6 DEF Continue, Cancel, Judge, StartTurn, LaunchUnchanged
  <2>7. CASE Grant \/ Communicated \/ Publish \/ PipesClose \/ Tick \/ CloseRuntime \/ AgentExits
    BY <2>7 DEF Grant, Communicated, Publish, PipesClose, Tick, CloseRuntime, AgentExits
  <2>8. QED
    BY <1>1, <2>1, <2>2, <2>3, <2>4, <2>5, <2>6, <2>7 DEF Next, Handle, Supervise
<1>2. IInv /\ [Next]_vars => [Resumed]_vars
  BY <1>1 DEF IInv
<1>3. QED
  BY Invariant, <1>2, PTL DEF Spec, NeverResumed
=============================================================================
