-------------------------- MODULE EpisodeLifecycle --------------------------
(***************************************************************************)
(* The Episode loop of one Light campaign: LongHorizonCampaign.run with    *)
(* its recovery, its verdict, the Git promotion and the bookkeeping files. *)
(*                                                                         *)
(* What survives the process is durable: the incumbent's Git history, its  *)
(* index and working tree, the promotion audits, active_episode.json,      *)
(* state.json, the stall file, the Episode worktree and the private report *)
(* with its published handoff.  What does not is volatile: the program     *)
(* counter, the SupervisorState in memory, the verdict being applied and   *)
(* the report request in flight.  The process may die between any two      *)
(* steps, and one step is one durable effect.                              *)
(***************************************************************************)
EXTENDS Naturals, Sequences, FiniteSets

CONSTANTS
    Kernel,       \* candidate and incumbent sources, by content
    BaseKernel,   \* the source of the baseline commit
    Latency,      \* geometric-mean latency of a kernel, as the ABBA gate measures it
    Clean,        \* the kernels the production source policy admits
    None,         \* an absent checkpoint, report request, staged source or stall file
    MaxEpisodes,  \* max_episodes of the campaign
    StallLimit,   \* max_stall of the campaign, 0 for no limit
    MaxCrashes,   \* bound: process deaths and failing Git commands
    MaxLosses,    \* bound: audit files lost or damaged behind the controller's back
    MaxForeign    \* bound: commits of somebody else in the incumbent workspace

ASSUME EpisodeAssumption ==
    /\ BaseKernel \in Kernel
    /\ Latency \in [Kernel -> Nat]
    /\ Clean \subseteq Kernel
    /\ None \notin Kernel
    /\ MaxEpisodes \in Nat \ {0}
    /\ StallLimit \in Nat
    /\ MaxCrashes \in Nat
    /\ MaxLosses \in Nat
    /\ MaxForeign \in Nat

VARIABLES
    history,   \* commits of the incumbent branch, the baseline first
    staged,    \* source the squash merge left in the incumbent index, or None
    record,    \* the uncommitted version record of the incumbent working tree
    audits,    \* promotions/long_horizon_eNNNN.json, per Episode
    receipts,  \* operator acknowledgements of a missing audit
    active,    \* active_episode.json, or None
    saved,     \* state.json
    stall,     \* the stall file, or None while it does not exist
    worktree,  \* the Episode worktree: the kernel at its branch head, or None
    report,    \* the Episode's private Journal: its terminal report
    handoff,   \* is handoff.json published in the worktree?
    pc,        \* where the controller is
    st,        \* SupervisorState in memory
    verdict,   \* the terminal verdict being recorded
    request,   \* the episode-report request in flight, or None
    crashes, losses, foreign   \* how much of each bound is used

durable == <<history, staged, record, audits, receipts, active, saved, stall,
             worktree, report, handoff>>
git == <<history, staged, record>>
spent == <<crashes, losses, foreign>>
vars == <<durable, pc, st, verdict, request, spent>>

-----------------------------------------------------------------------------
(* Values *)

ReportStatus == {"candidate_ready", "pivot", "blocked"}
Status == ReportStatus \cup {"invalid_handoff", "interrupted"}
Outcome == {"accepted", "rejected", "pivoted", "blocked", "protocol_failures",
            "interrupted"}
Episode == 1 .. MaxEpisodes
Phase == {"preparing", "exploring", "verifying", "promoting", "promoted",
          "recording", "recorded"}

\* The audit evidence a promotion binds by digest: equal evidence, equal digest.
Evidence == [episode : Episode, version : Nat, base : Nat, kernel : Kernel,
             recovered : BOOLEAN]
NoEvidence == [episode |-> 1, version |-> 0, base |-> 0, kernel |-> BaseKernel,
               recovered |-> FALSE]

Commit == [kind : {"base", "promotion", "outcome", "foreign"},
           episode : Episode \cup {0}, version : Nat,
           status : Status \cup {"none"}, kernel : Kernel,
           audit : Evidence]

Attempt == [episode : Episode, version : Nat, status : Status, accepted : BOOLEAN]
SupervisorState == [episodes : Nat, tally : [Outcome -> Nat], consecutive : Nat,
                    attempts : Seq(Attempt)]
Active == [episode : Episode, version : Nat, base : Nat, phase : Phase,
           terminal : Status \cup {"none"}]
Report == [status : ReportStatus \cup {"open"}, kernel : Kernel]
Request == [status : ReportStatus, kernel : Kernel, step : {"save", "publish"}]
Verdict == [status : Status, kernel : Kernel, accepted : BOOLEAN,
            recovered : BOOLEAN]

Open == [status |-> "open", kernel |-> BaseKernel]
NoVerdict == [status |-> "interrupted", kernel |-> BaseKernel, accepted |-> FALSE,
              recovered |-> FALSE]
NoRecord == [where |-> "none", version |-> 0]
FreshState == [episodes |-> 0, tally |-> [o \in Outcome |-> 0], consecutive |-> 0,
               attempts |-> <<>>]
BaseCommit == [kind |-> "base", episode |-> 0, version |-> 0, status |-> "none",
               kernel |-> BaseKernel, audit |-> NoEvidence]

ASSUME NoneAssumption ==
    /\ None \notin Active
    /\ None \notin Evidence
    /\ None \notin Request

\* A commit is named by its position: the history is never rewritten below HEAD.
HEAD == Len(history)
Tip == history[HEAD]
Commits == 1 .. HEAD

-----------------------------------------------------------------------------
(* Reading the durable state *)

\* How one terminal status is counted.  A pivot or blocked handoff carries no
\* violation: the session runner hands over only handoffs it validated.
OutcomeOf(status, accepted) ==
    CASE accepted                   -> "accepted"
      [] status = "pivot"           -> "pivoted"
      [] status = "blocked"         -> "blocked"
      [] status = "invalid_handoff" -> "protocol_failures"
      [] status = "interrupted"     -> "interrupted"
      [] OTHER                      -> "rejected"

Later(a, b) == IF a > b THEN a ELSE b

\* Bookkeeping of one recorded Episode in the SupervisorState.
Counted(s, episode, version, status, accepted) ==
    [episodes |-> Later(s.episodes, episode),
     tally |-> [s.tally EXCEPT ![OutcomeOf(status, accepted)] = @ + 1],
     consecutive |-> IF accepted THEN 0 ELSE s.consecutive + 1,
     attempts |-> Append(s.attempts, [episode |-> episode, version |-> version,
                                      status |-> status, accepted |-> accepted])]

\* Mutant: recovery forgets to look for the Episode among the attempts.
NeverRecorded(s, episode) == FALSE

AlreadyRecorded(s, episode) ==
    \E i \in DOMAIN s.attempts : s.attempts[i].episode = episode

\* Trailing commits that left the kernel alone: reconstruct_stall.
TrailingUnchanged ==
    Cardinality({i \in 2 .. HEAD :
                    \A j \in i .. HEAD : history[j].kernel = history[j-1].kernel})

RestoredStall == IF stall = None THEN TrailingUnchanged ELSE stall

\* load_state, then the stall of a campaign whose state counts nothing yet.
LoadedState ==
    IF saved.episodes = 0 /\ saved.consecutive = 0
    THEN [saved EXCEPT !.consecutive = RestoredStall]
    ELSE saved

\* The version records of the incumbent working tree, and the latest of them.
KnownVersions ==
    {history[i].version : i \in Commits} \cup
    (IF record.where = "none" THEN {} ELSE {record.version})

IsLatestVersion(v) == \A w \in KnownVersions : w <= v

\* HEAD is this Episode's promotion commit on top of its base.
PromotionBinding ==
    /\ Tip.kind = "promotion"
    /\ Tip.episode = active.episode
    /\ HEAD = active.base + 1

AuditVerified ==
    /\ audits[active.episode] = Tip.audit
    /\ Tip.audit.episode = active.episode
    /\ Tip.audit.version = active.version
    /\ Tip.audit.base = active.base
AuditAcknowledged ==
    /\ audits[active.episode] = None
    /\ [episode |-> active.episode, commit |-> HEAD] \in receipts
AuditAccepted == AuditVerified \/ AuditAcknowledged

\* Mutant: recovery trusts the commit subject.
AuditIgnored == TRUE

\* recover_promotion_audit raises nothing: no promotion at HEAD, or an accepted one.
AuditSettled == PromotionBinding => AuditAccepted

RecoveredPromotion ==
    /\ active.phase \in {"promoting", "promoted"}
    /\ PromotionBinding

RecoveredOutcome ==
    /\ active.phase \in {"recording", "recorded"}
    /\ active.version > 0
    /\ active.terminal # "none"
    /\ HEAD = active.base + 1
    /\ Tip.kind = "outcome"
    /\ Tip.episode = active.episode
    /\ Tip.version = active.version
    /\ Tip.status = active.terminal

\* _require_canonical_memory: the version record is committed, and the working
\* copy is the committed one.
CanonicalMemory(version) ==
    /\ \E i \in Commits : history[i].version = version
    /\ ~ (record.where # "none" /\ record.version = version)

\* git reset --hard base: the index and tracked files go back to the base
\* commit, an untracked version record stays.
ResetHard ==
    /\ history' = SubSeq(history, 1, active.base)
    /\ staged' = None
    /\ record' = IF record.where = "staged" THEN NoRecord ELSE record
-----------------------------------------------------------------------------
(* Initial state: the baseline is committed, no Episode has run.  A framework
   baseline leaves a stall file of 0. *)

Init ==
    /\ history = <<BaseCommit>>
    /\ staged = None
    /\ record = NoRecord
    /\ audits = [e \in Episode |-> None]
    /\ receipts = {}
    /\ active = None
    /\ saved = FreshState
    /\ stall \in {None, 0}
    /\ worktree = None
    /\ report = Open
    /\ handoff = FALSE
    /\ pc = "down"
    /\ st = FreshState
    /\ verdict = NoVerdict
    /\ request = None
    /\ crashes = 0 /\ losses = 0 /\ foreign = 0

-----------------------------------------------------------------------------
(* Planning and starting an Episode: LongHorizonCampaign.run *)

\* The process starts, or is restarted by its operator, on the durable state.
Start ==
    /\ pc \in {"down", "paused"}
    /\ st' = LoadedState
    /\ pc' = IF active = None THEN "choose" ELSE "recover"
    /\ verdict' = NoVerdict
    /\ UNCHANGED <<durable, request, spent>>

\* Mutant: off by one.
StopPastBudget ==
    /\ pc = "choose"
    /\ st.episodes > MaxEpisodes
    /\ pc' = "stopped"
    /\ UNCHANGED <<durable, st, verdict, request, spent>>

\* The Episode budget is spent.
StopAtBudget ==
    /\ pc = "choose"
    /\ st.episodes >= MaxEpisodes
    /\ pc' = "stopped"
    /\ UNCHANGED <<durable, st, verdict, request, spent>>

\* Plan the next Episode and save its checkpoint before anything is created.
Plan ==
    /\ pc = "choose"
    /\ st.episodes < MaxEpisodes
    /\ \E latest \in KnownVersions :
        /\ IsLatestVersion(latest)
        /\ active' = [episode |-> st.episodes + 1, version |-> latest + 1,
                      base |-> HEAD, phase |-> "preparing", terminal |-> "none"]
    /\ report' = Open
    /\ handoff' = FALSE
    /\ pc' = "materialize"
    /\ UNCHANGED <<git, audits, receipts, saved, stall, worktree, st, verdict,
                   request, spent>>

\* git worktree add: the Episode branch starts at the base commit.
Materialize ==
    /\ pc = "materialize"
    /\ worktree' = history[active.base].kernel
    /\ pc' = "prepared"
    /\ UNCHANGED <<git, audits, receipts, active, saved, stall, report, handoff,
                   st, verdict, request, spent>>

BeginExploring ==
    /\ pc = "prepared"
    /\ active' = [active EXCEPT !.phase = "exploring"]
    /\ pc' = "session"
    /\ UNCHANGED <<git, audits, receipts, saved, stall, worktree, report, handoff,
                   st, verdict, request, spent>>

-----------------------------------------------------------------------------
(* The Agent reports through the Runtime while its Session runs *)

\* A candidate_ready report passed its evidence checks: the Supervisor seals the
\* measured source on the Episode branch before the Journal is saved.
SealCandidate(k) ==
    /\ pc = "session"
    /\ request = None
    /\ report = Open
    /\ k # history[active.base].kernel
    /\ worktree' = k
    /\ request' = [status |-> "candidate_ready", kernel |-> k, step |-> "save"]
    /\ UNCHANGED <<git, audits, receipts, active, saved, stall, report, handoff,
                   pc, st, verdict, spent>>

SubmitPlain(status) ==
    /\ pc = "session"
    /\ request = None
    /\ report = Open
    /\ request' = [status |-> status, kernel |-> BaseKernel, step |-> "save"]
    /\ UNCHANGED <<durable, pc, st, verdict, spent>>

\* The private Journal takes the report: from here on it is final.
SaveReport ==
    /\ pc = "session"
    /\ request # None
    /\ request.step = "save"
    /\ report' = [status |-> request.status, kernel |-> request.kernel]
    /\ request' = [request EXCEPT !.step = "publish"]
    /\ UNCHANGED <<git, audits, receipts, active, saved, stall, worktree, handoff,
                   pc, st, verdict, spent>>

\* Publish the handoff, or fail to: the report stays recorded.
PublishReport ==
    /\ pc = "session"
    /\ request # None
    /\ request.step = "publish"
    /\ \E published \in BOOLEAN : handoff' = (handoff \/ published)
    /\ request' = None
    /\ UNCHANGED <<git, audits, receipts, active, saved, stall, worktree, report,
                   pc, st, verdict, spent>>

\* The Agent resubmits the identical report to have its handoff published.
ResubmitReport ==
    /\ pc = "session"
    /\ request = None
    /\ report # Open
    /\ ~ handoff
    /\ request' = [status |-> report.status, kernel |-> report.kernel,
                   step |-> "publish"]
    /\ UNCHANGED <<durable, pc, st, verdict, spent>>

\* The Session is over: its close waits for the report request in flight, the
\* usage receipt is saved with the state, and a handoff is terminal, if there is one
\* and the completion check finds nothing against it.
EndSession ==
    /\ pc = "session"
    /\ request = None
    /\ saved' = st
    /\ \/ /\ handoff
          /\ verdict' = [status |-> report.status, kernel |-> report.kernel,
                         accepted |-> FALSE, recovered |-> FALSE]
       \/ verdict' = [status |-> "invalid_handoff", kernel |-> BaseKernel,
                      accepted |-> FALSE, recovered |-> FALSE]
    /\ pc' = "assess"
    /\ UNCHANGED <<git, audits, receipts, active, stall, worktree, report, handoff,
                   st, request, spent>>

-----------------------------------------------------------------------------
(* The verdict: _assess_terminal_handoff *)

\* Strict improvement over the incumbent the Episode started from.
Improves(k) == Latency[k] < Latency[history[active.base].kernel]

\* Mutant: the policy screen is skipped.
AssessUnscreened ==
    /\ pc = "assess"
    /\ IF verdict.status = "candidate_ready"
       THEN /\ active' = [active EXCEPT !.phase = "verifying"]
            /\ verdict' = [verdict EXCEPT !.accepted = Improves(verdict.kernel)]
       ELSE UNCHANGED <<active, verdict>>
    /\ pc' = "capture"
    /\ UNCHANGED <<git, audits, receipts, saved, stall, worktree, report, handoff,
                   st, request, spent>>

\* A candidate is screened by policy and, if clean, measured against its base.
Assess ==
    /\ pc = "assess"
    /\ IF verdict.status = "candidate_ready" /\ verdict.kernel \in Clean
       THEN /\ active' = [active EXCEPT !.phase = "verifying"]
            /\ verdict' = [verdict EXCEPT !.accepted = Improves(verdict.kernel)]
       ELSE UNCHANGED <<active, verdict>>
    /\ pc' = "capture"
    /\ UNCHANGED <<git, audits, receipts, saved, stall, worktree, report, handoff,
                   st, request, spent>>

\* The Episode output is captured; if it cannot be, nothing is accepted.  The
\* checkpoint then says what the controller is about to commit.
Capture ==
    /\ pc = "capture"
    /\ \E captured \in BOOLEAN :
        LET accepted == verdict.accepted /\ captured
        IN /\ verdict' = [verdict EXCEPT !.accepted = accepted]
           /\ active' = IF accepted
                        THEN [active EXCEPT !.phase = "promoting"]
                        ELSE [active EXCEPT !.phase = "recording",
                                            !.terminal = verdict.status]
           /\ pc' = IF accepted THEN "audit" ELSE "outcome"
    /\ UNCHANGED <<git, audits, receipts, saved, stall, worktree, report, handoff,
                   st, request, spent>>

-----------------------------------------------------------------------------
(* One Git commit: promote_candidate and record_episode_outcome *)

\* An exception leaves the process; its operator may start it again.
Raise == /\ pc' = "down"
         /\ UNCHANGED <<durable, st, verdict, request, spent>>

\* What the audit file holds and the promotion commit's trailer binds.
PromotionEvidence ==
    [episode |-> active.episode, version |-> active.version, base |-> active.base,
     kernel |-> verdict.kernel, recovered |-> verdict.recovered]

BaseMoved ==
    /\ pc \in {"audit", "outcome"}
    /\ HEAD # active.base
    /\ Raise

\* Mutant: an audit left by an earlier attempt is kept.
WriteMissingAudit ==
    /\ pc = "audit"
    /\ HEAD = active.base
    /\ audits' = IF audits[active.episode] # None THEN audits
                 ELSE [audits EXCEPT ![active.episode] = PromotionEvidence]
    /\ pc' = "squash"
    /\ UNCHANGED <<git, receipts, active, saved, stall, worktree, report, handoff,
                   st, verdict, request, spent>>

WriteAudit ==
    /\ pc = "audit"
    /\ HEAD = active.base
    /\ audits' = [audits EXCEPT ![active.episode] = PromotionEvidence]
    /\ pc' = "squash"
    /\ UNCHANGED <<git, receipts, active, saved, stall, worktree, report, handoff,
                   st, verdict, request, spent>>

\* git merge --squash: the sealed candidate is staged in the incumbent.
Squash ==
    /\ pc = "squash"
    /\ staged' = verdict.kernel
    /\ pc' = "screen"
    /\ UNCHANGED <<history, record, audits, receipts, active, saved, stall,
                   worktree, report, handoff, st, verdict, request, spent>>

\* Only the candidate's source may be staged: a version record an interrupted
\* outcome left in the index refuses the promotion.
Screen ==
    /\ pc = "screen"
    /\ IF record.where = "staged"
       THEN /\ ResetHard
            /\ pc' = "down"
       ELSE /\ pc' = "write"
            /\ UNCHANGED git
    /\ UNCHANGED <<audits, receipts, active, saved, stall, worktree, report,
                   handoff, st, verdict, request, spent>>

\* save_version_record, of a promotion or of an outcome on an unmoved base.
WriteRecord ==
    /\ \/ pc = "write"
       \/ pc = "outcome" /\ HEAD = active.base
    /\ record' = [where |-> IF record.where = "staged" THEN "staged" ELSE "file",
                  version |-> active.version]
    /\ pc' = "add"
    /\ UNCHANGED <<history, staged, audits, receipts, active, saved, stall, worktree,
                   report, handoff, st, verdict, request, spent>>

AddRecord ==
    /\ pc = "add"
    /\ record' = [record EXCEPT !.where = "staged"]
    /\ pc' = "commit"
    /\ UNCHANGED <<history, staged, audits, receipts, active, saved, stall, worktree,
                   report, handoff, st, verdict, request, spent>>

CommitPromotion ==
    /\ pc = "commit"
    /\ verdict.accepted
    /\ history' = Append(history,
           [kind |-> "promotion", episode |-> active.episode,
            version |-> active.version, status |-> "candidate_ready",
            kernel |-> staged, audit |-> PromotionEvidence])
    /\ staged' = None
    /\ record' = NoRecord
    /\ pc' = "account"
    /\ UNCHANGED <<audits, receipts, active, saved, stall, worktree, report, handoff,
                   st, verdict, request, spent>>

\* git commit --only: the version record and nothing else of the index.
CommitOutcome ==
    /\ pc = "commit"
    /\ ~ verdict.accepted
    /\ history' = Append(history,
           [kind |-> "outcome", episode |-> active.episode,
            version |-> active.version, status |-> verdict.status,
            kernel |-> Tip.kernel, audit |-> NoEvidence])
    /\ record' = NoRecord
    /\ pc' = IF verdict.status = "interrupted" THEN "interrupted" ELSE "account"
    /\ UNCHANGED <<staged, audits, receipts, active, saved, stall, worktree, report,
                   handoff, st, verdict, request, spent>>

\* Mutant: reading HEAD after the commit is covered by the same handler.
PromotionFailsLate ==
    /\ pc \in {"squash", "screen", "write", "add", "commit", "account"}
    /\ verdict.accepted
    /\ crashes < MaxCrashes
    /\ crashes' = crashes + 1
    /\ ResetHard
    /\ pc' = "down"
    /\ UNCHANGED <<audits, receipts, active, saved, stall, worktree, report, handoff,
                   st, verdict, request, losses, foreign>>

\* A Git command of the promotion fails before its commit: reset and re-raise.
PromotionFails ==
    /\ pc \in {"squash", "screen", "write", "add", "commit"}
    /\ verdict.accepted
    /\ crashes < MaxCrashes
    /\ crashes' = crashes + 1
    /\ ResetHard
    /\ pc' = "down"
    /\ UNCHANGED <<audits, receipts, active, saved, stall, worktree, report, handoff,
                   st, verdict, request, losses, foreign>>

-----------------------------------------------------------------------------
(* Accounting for the commit: the rest of _record_terminal_episode *)

\* The counters move in memory and the stall file is replaced.
Account ==
    /\ pc = "account"
    /\ st' = Counted(st, active.episode, active.version, verdict.status,
                     verdict.accepted)
    /\ stall' = st'.consecutive
    /\ pc' = IF verdict.accepted THEN "mark" ELSE "persist"
    /\ UNCHANGED <<git, audits, receipts, active, saved, worktree, report, handoff,
                   verdict, request, spent>>

MarkPromoted ==
    /\ pc = "mark"
    /\ active' = [active EXCEPT !.phase = "promoted"]
    /\ pc' = "persist"
    /\ UNCHANGED <<git, audits, receipts, saved, stall, worktree, report, handoff,
                   st, verdict, request, spent>>

\* state.json takes the attempt, once its version record is known committed.
Persist ==
    /\ pc = "persist"
    /\ IF CanonicalMemory(active.version)
       THEN /\ saved' = st
            /\ pc' = "remove"
       ELSE /\ pc' = "down"
            /\ UNCHANGED saved
    /\ UNCHANGED <<git, audits, receipts, active, stall, worktree, report, handoff,
                   st, verdict, request, spent>>

RemoveWorktree ==
    /\ pc = "remove"
    /\ worktree' = None
    /\ pc' = "clear"
    /\ UNCHANGED <<git, audits, receipts, active, saved, stall, report, handoff,
                   st, verdict, request, spent>>

\* The stall limit stops a campaign after an Episode it ran itself; a blocked
\* Episode is retried first.
Stalled ==
    /\ StallLimit > 0
    /\ ~ verdict.recovered
    /\ verdict.status # "blocked"
    /\ st.consecutive >= StallLimit

\* active_episode.json is unlinked: the Episode is over.
ClearActive ==
    /\ pc = "clear"
    /\ active' = None
    /\ pc' = IF Stalled THEN "stopped" ELSE "choose"
    /\ UNCHANGED <<git, audits, receipts, saved, stall, worktree, report, handoff,
                   st, verdict, request, spent>>

-----------------------------------------------------------------------------
(* Recovery: _recover_interrupted *)

Resumable == HEAD = active.base /\ worktree # None

\* Mutant: the half-done squash stays.
NoRollBack == UNCHANGED git

\* A crash during the squash left the incumbent dirty: roll it back.
RollBack ==
    IF active.phase = "promoting" /\ (staged # None \/ record.where # "none")
    THEN ResetHard
    ELSE UNCHANGED git

\* The report was final: its handoff is published again, and if the completion check
\* finds nothing against it the Episode goes through the same verdict.
RecoverHandoff ==
    /\ pc = "recover"
    /\ Resumable
    /\ report # Open
    /\ RollBack
    /\ handoff' = TRUE
    /\ verdict' = [status |-> report.status, kernel |-> report.kernel,
                   accepted |-> FALSE, recovered |-> TRUE]
    /\ pc' = "assess"
    /\ UNCHANGED <<audits, receipts, active, saved, stall, worktree, report, st,
                   request, spent>>

\* No report yet, or one whose handoff the completion check refuses: the same Episode
\* goes on exploring in its own worktree.
ResumeExploring ==
    /\ pc = "recover"
    /\ Resumable
    /\ RollBack
    /\ handoff' = (report # Open)
    /\ active' = [active EXCEPT !.phase = "exploring"]
    /\ pc' = "session"
    /\ UNCHANGED <<audits, receipts, saved, stall, worktree, report, st, verdict,
                   request, spent>>

\* No commit and no usable worktree: record the Episode as interrupted.
RecordInterrupted ==
    /\ pc = "recover"
    /\ HEAD = active.base
    /\ worktree = None
    /\ RollBack
    /\ active' = [active EXCEPT !.phase = "recording", !.terminal = "interrupted"]
    /\ verdict' = [NoVerdict EXCEPT !.recovered = TRUE]
    /\ pc' = "outcome"
    /\ UNCHANGED <<audits, receipts, saved, stall, worktree, report, handoff, st,
                   request, spent>>

\* The interrupted outcome is committed: mark it and count it.
CountInterrupted ==
    /\ pc = "interrupted"
    /\ active' = [active EXCEPT !.phase = "recorded"]
    /\ st' = IF AlreadyRecorded(st, active.episode) THEN st
             ELSE Counted(st, active.episode, active.version, "interrupted", FALSE)
    /\ pc' = "detach"
    /\ UNCHANGED <<git, audits, receipts, saved, stall, worktree, report, handoff,
                   verdict, request, spent>>

\* HEAD carries this Episode's promotion, but its audit cannot be verified:
\* recovery pauses with phase, worktree and counters intact.
PauseForAudit ==
    /\ pc = "recover"
    /\ HEAD # active.base
    /\ ~ AuditSettled
    /\ pc' = "paused"
    /\ UNCHANGED <<durable, st, verdict, request, spent>>

\* HEAD moved past the base: the commit is this Episode's, or the Episode is
\* superseded.  Its version record must be committed either way.
RecoverCommitted ==
    /\ pc = "recover"
    /\ HEAD # active.base
    /\ AuditSettled
    /\ LET terminal == IF RecoveredPromotion THEN "candidate_ready"
                       ELSE IF RecoveredOutcome THEN active.terminal
                       ELSE "interrupted"
       IN IF CanonicalMemory(active.version)
          THEN /\ st' = IF AlreadyRecorded(st, active.episode) THEN st
                        ELSE Counted(st, active.episode, active.version, terminal,
                                     RecoveredPromotion)
               /\ verdict' = [NoVerdict EXCEPT !.recovered = TRUE]
               /\ pc' = "detach"
          ELSE /\ pc' = "down"
               /\ UNCHANGED <<st, verdict>>
    /\ UNCHANGED <<durable, request, spent>>

DetachWorktree ==
    /\ pc = "detach"
    /\ worktree' = None
    /\ pc' = "restall"
    /\ UNCHANGED <<git, audits, receipts, active, saved, stall, report, handoff,
                   st, verdict, request, spent>>

SaveStall ==
    /\ pc = "restall"
    /\ stall' = st.consecutive
    /\ pc' = "resave"
    /\ UNCHANGED <<git, audits, receipts, active, saved, worktree, report, handoff,
                   st, verdict, request, spent>>

SaveRecovered ==
    /\ pc = "resave"
    /\ saved' = st
    /\ pc' = "clear"
    /\ UNCHANGED <<git, audits, receipts, active, stall, worktree, report, handoff,
                   st, verdict, request, spent>>

-----------------------------------------------------------------------------
(* The world around the controller *)

\* The process dies: a kill, a power loss, an exception of an unmodelled step.
\* Only the stall file is written in place: a death inside its write empties it.
Crash ==
    /\ pc \notin {"down", "paused", "stopped"}
    /\ crashes < MaxCrashes
    /\ crashes' = crashes + 1
    /\ pc' = "down"
    /\ request' = None
    /\ \/ UNCHANGED stall
       \/ pc \in {"account", "restall"} /\ stall' = None
    /\ UNCHANGED <<git, audits, receipts, active, saved, worktree, report, handoff,
                   st, verdict, losses, foreign>>

\* An audit file is lost, or damaged: its digest is no longer the committed one.
LoseAudit(e) ==
    /\ pc = "down"
    /\ losses < MaxLosses
    /\ audits[e] # None
    /\ \/ audits' = [audits EXCEPT ![e] = None]
       \/ audits' = [audits EXCEPT ![e].version = 0]
    /\ losses' = losses + 1
    /\ UNCHANGED <<git, receipts, active, saved, stall, worktree, report, handoff,
                   pc, st, verdict, request, crashes, foreign>>

\* audit_recovery restore: exactly the bytes the promotion commit binds.
RestoreAudit ==
    /\ pc = "paused"
    /\ PromotionBinding
    /\ audits' = [audits EXCEPT ![active.episode] = Tip.audit]
    /\ UNCHANGED <<git, receipts, active, saved, stall, worktree, report, handoff,
                   pc, st, verdict, request, spent>>

\* audit_recovery acknowledge-missing: a receipt bound to the promotion commit.
AcknowledgeMissing ==
    /\ pc = "paused"
    /\ PromotionBinding
    /\ audits[active.episode] = None
    /\ receipts' = receipts \cup {[episode |-> active.episode, commit |-> HEAD]}
    /\ UNCHANGED <<git, audits, active, saved, stall, worktree, report, handoff,
                   pc, st, verdict, request, spent>>

\* Somebody else commits to the incumbent workspace while an Episode runs.
ForeignCommit ==
    /\ pc \in {"session", "down"}
    /\ active # None
    /\ foreign < MaxForeign
    /\ history' = Append(history, [BaseCommit EXCEPT !.kind = "foreign",
                                                     !.kernel = Tip.kernel])
    /\ foreign' = foreign + 1
    /\ UNCHANGED <<staged, record, audits, receipts, active, saved, stall, worktree,
                   report, handoff, pc, st, verdict, request, crashes, losses>>

-----------------------------------------------------------------------------
(* The specification *)

\* An Episode from its plan to its verdict.
Exploration ==
    \/ StopAtBudget \/ Plan \/ Materialize \/ BeginExploring
    \/ \E k \in Kernel : SealCandidate(k)
    \/ \E status \in {"pivot", "blocked"} : SubmitPlain(status)
    \/ SaveReport \/ PublishReport \/ ResubmitReport \/ EndSession
    \/ Assess \/ Capture

\* From the verdict to the end of the Episode.
Recording ==
    \/ BaseMoved \/ WriteAudit \/ Squash \/ Screen \/ WriteRecord \/ AddRecord
    \/ CommitPromotion \/ CommitOutcome \/ PromotionFails
    \/ Account \/ MarkPromoted \/ Persist \/ RemoveWorktree \/ ClearActive

Recovery ==
    \/ RecoverHandoff \/ ResumeExploring \/ RecordInterrupted \/ CountInterrupted
    \/ PauseForAudit \/ RecoverCommitted \/ DetachWorktree \/ SaveStall
    \/ SaveRecovered

World ==
    \/ Crash
    \/ \E e \in Episode : LoseAudit(e)
    \/ RestoreAudit \/ AcknowledgeMissing \/ ForeignCommit

Next == Start \/ Exploration \/ Recording \/ Recovery \/ World

\* The controller never stops by itself between two steps, and its operator
\* starts it again after an exception.  A report request runs to its end.  The
\* Agent need not report anything: the Episode timeout ends its Session, and
\* because closing revokes the capability first, resubmissions cannot hold it up.
ControllerStep ==
    \/ Start \/ StopAtBudget \/ Plan \/ Materialize \/ BeginExploring
    \/ Assess \/ Capture \/ Recording \/ Recovery
Fairness ==
    /\ WF_vars(ControllerStep)
    /\ WF_vars(SaveReport \/ PublishReport)
    /\ SF_vars(EndSession)

Spec == Init /\ [][Next]_vars
FairSpec == Spec /\ Fairness

-----------------------------------------------------------------------------
(* Types *)

TypeOK ==
    /\ history \in Seq(Commit) /\ HEAD > 0
    /\ staged \in Kernel \cup {None}
    /\ record \in [where : {"none", "file", "staged"}, version : Nat]
    /\ audits \in [Episode -> Evidence \cup {None}]
    /\ receipts \subseteq [episode : Episode, commit : Nat]
    /\ active \in Active \cup {None}
    /\ saved \in SupervisorState
    /\ stall \in Nat \cup {None}
    /\ worktree \in Kernel \cup {None}
    /\ report \in Report
    /\ handoff \in BOOLEAN
    /\ pc \in {"down", "paused", "stopped", "recover", "choose", "materialize",
               "prepared", "session", "assess", "capture", "audit", "squash",
               "screen", "write", "outcome", "add", "commit", "account", "mark",
               "persist", "remove", "clear", "interrupted", "detach", "restall",
               "resave"}
    /\ st \in SupervisorState
    /\ verdict \in Verdict
    /\ request \in Request \cup {None}
    /\ crashes \in 0 .. MaxCrashes
    /\ losses \in 0 .. MaxLosses
    /\ foreign \in 0 .. MaxForeign

-----------------------------------------------------------------------------
(* Safety *)

\* Every promotion on the incumbent branch was screened clean, is strictly
\* faster than the commit it replaced and binds the audit of exactly that
\* replacement, and every other commit leaves the kernel alone: promote_candidate
\* squashes the sealed candidate of its own Episode and record_episode_outcome
\* commits the version record only, whatever an earlier attempt left staged.
VerifiedHistory ==
    \A i \in 2 .. HEAD :
        IF history[i].kind = "promotion"
        THEN /\ history[i].kernel \in Clean
             /\ Latency[history[i].kernel] < Latency[history[i-1].kernel]
             /\ history[i].audit.episode = history[i].episode
             /\ history[i].audit.version = history[i].version
             /\ history[i].audit.base = i - 1
             /\ history[i].audit.kernel = history[i].kernel
        ELSE history[i].kernel = history[i-1].kernel

\* The incumbent only ever improves: no commit is slower than an earlier one, so
\* HEAD is the fastest kernel the campaign ever had.
IncumbentIsBest ==
    \A i, j \in Commits :
        i <= j => Latency[history[j].kernel] <= Latency[history[i].kernel]

\* With nobody else committing, the campaign's commits are those above the baseline.
CampaignCommits == Tail(history)

\* A state's attempts are the campaign's commits, one for one and in order, and
\* its counters are the tally of those attempts.
Matches(state, commits) ==
    /\ state.episodes = Len(commits)
    /\ Len(state.attempts) = Len(commits)
    /\ \A i \in DOMAIN commits :
        LET attempt == state.attempts[i]
            commit == commits[i]
        IN /\ attempt.episode = i /\ commit.episode = i
           /\ attempt.version = commit.version
           /\ attempt.status = commit.status
           /\ attempt.accepted <=> commit.kind = "promotion"
    /\ \A outcome \in Outcome :
        state.tally[outcome] =
            Cardinality({i \in DOMAIN state.attempts :
                OutcomeOf(state.attempts[i].status,
                          state.attempts[i].accepted) = outcome})

\* Archive and commit one terminal Episode exactly once: between Episodes
\* state.json counts each commit once, as what it was, whatever crashed in between,
\* and no Episode or version number is used twice.  (A promotion that somebody else
\* commits upon before it is counted is recorded as interrupted.)
VersionsIncrease(commits) ==
    \A i, j \in DOMAIN commits : i < j => commits[i].version < commits[j].version
ExactlyOnce ==
    foreign = 0 /\ active = None =>
        Matches(saved, CampaignCommits) /\ VersionsIncrease(CampaignCommits)

\* Write before Git commit: with nobody damaging files, every promotion commit's
\* audit is on disk with the bytes its trailer binds, and no later attempt or
\* recovery overwrites it.
AuditBeforePromotion ==
    losses = 0 =>
        \A i \in Commits :
            history[i].kind = "promotion" =>
                audits[history[i].episode] = history[i].audit

\* Between Episodes the incumbent checkout is exactly its HEAD: no squash and no
\* version record of an interrupted attempt survives into the next Episode.
CleanBetweenEpisodes == active = None => staged = None /\ record = NoRecord

Prefix(s, t) == Len(s) <= Len(t) /\ s = SubSeq(t, 1, Len(s))

\* No step drops or rewrites a commit: every git reset --hard of a failing or
\* rolled back promotion lands where HEAD already was.
HistoryIsAppendOnly == [][Prefix(history, history')]_vars

\* A promotion enters the counters, in the ordinary run or in recovery, only
\* while its audit verifies or its loss was acknowledged by an operator.
CountedWithAudit ==
    [][st'.tally["accepted"] = st.tally["accepted"] + 1 /\ pc # "down" /\ pc # "paused"
        => AuditAccepted]_vars

\* The number of Episodes since the last promotion.
TrailingUnpromoted(attempts) ==
    Cardinality({i \in DOMAIN attempts :
                    \A j \in i .. Len(attempts) : ~ attempts[j].accepted})

\* workspace/state.py: "Persist the live stall counter so a restart resumes the
\* exact value".  Between Episodes the counter is the number of Episodes since
\* the last promotion.
StallIsExact ==
    active = None => saved.consecutive = TrailingUnpromoted(saved.attempts)

-----------------------------------------------------------------------------
(* Liveness *)

\* The campaign reaches its Episode budget or its stall limit: every Episode that was
\* planned is over some day, whatever the Agent does and wherever the process died.
CampaignStops == <>[](pc = "stopped")

\* episode.py: "The episode never reached a terminal handoff and its base is now
\* stale, so it is superseded rather than rejected on its merits".  An Episode
\* found on a stale base is superseded, and the campaign goes on.
StaleBaseIsSuperseded == pc = "recover" /\ HEAD # active.base ~> active = None

-----------------------------------------------------------------------------
(* The Episode loop implements the ledger: the incumbent's history is the log,
   state.json counts it. *)

Ledger == INSTANCE EpisodeLedger WITH
    log <- [i \in Commits |-> [kernel |-> history[i].kernel,
                               promoted |-> history[i].kind = "promotion"]],
    counted <- Len(saved.attempts) + 1

\* Through crashes, retries and recovery, the durable history and its accounting
\* are the ones the ledger promises, and what is committed is counted some day.
ImplementsLedger == Ledger!FairSpec
=============================================================================
