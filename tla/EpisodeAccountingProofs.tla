----------------------- MODULE EpisodeAccountingProofs -----------------------
(***************************************************************************)
(* Theorems about the bookkeeping of EpisodeLifecycle, for every value of  *)
(* its constants: the incumbent checkout is clean between Episodes, an     *)
(* audit is on disk before its commit, every commit is counted exactly     *)
(* once, and the Episode loop implements the ledger.                       *)
(***************************************************************************)
EXTENDS EpisodeLifecycleProofs

USE EpisodeAssumption, NoneAssumption

-----------------------------------------------------------------------------
(* What a step can do to the checkpoint and to the history *)

\* The checkpoint goes on being that of the same Episode, at another phase.
SameEpisode ==
    /\ active # None /\ active' # None
    /\ active'.episode = active.episode
    /\ active'.version = active.version
    /\ active'.base = active.base

\* A save_active that moves the phase, with or without the terminal status.
Rephased(a, b) ==
    \E phase \in Phase :
        \/ b = [a EXCEPT !.phase = phase]
        \/ \E status \in Status : b = [a EXCEPT !.phase = phase, !.terminal = status]

\* Such a save keeps the checkpoint's Episode.
LEMMA PhaseKeepsEpisode ==
    ASSUME NEW a \in Active, NEW b, Rephased(a, b)
    PROVE  b \in Active /\ b.episode = a.episode /\ b.version = a.version /\ b.base = a.base
<1>1. PICK phase \in Phase :
          \/ b = [a EXCEPT !.phase = phase]
          \/ \E status \in Status : b = [a EXCEPT !.phase = phase, !.terminal = status]
  BY DEF Rephased
<1>2. CASE b = [a EXCEPT !.phase = phase]
  BY <1>2 DEF Active
<1>3. CASE \E status \in Status : b = [a EXCEPT !.phase = phase, !.terminal = status]
  <2>1. PICK status \in Status : b = [a EXCEPT !.phase = phase, !.terminal = status]
    BY <1>3
  <2>2. b \in Active /\ b.base = a.base
    BY <2>1, ActiveTerminal
  <2> QED
    BY <2>1, <2>2 DEF Active
<1> QED
  BY <1>1, <1>2, <1>3

\* Only Plan makes an Episode and only ClearActive ends one; every other step keeps
\* the number, the version and the base of the Episode under way.
LEMMA EpisodeStep ==
    ASSUME TypeInv, [Next]_vars
    PROVE  active' = active \/ SameEpisode \/ Plan \/ ClearActive
<1> USE DEF durable
<1>0. {"promoting", "recording", "verifying"} \subseteq Phase
  BY DEF Phase
<1>1. CASE UNCHANGED vars
  BY <1>1 DEF vars
<1>2. CASE Start \/ StopAtBudget \/ Materialize \/ (\E k \in Kernel : SealCandidate(k))
          \/ (\E status \in {"pivot", "blocked"} : SubmitPlain(status))
          \/ SaveReport \/ PublishReport \/ ResubmitReport \/ EndSession
  BY <1>2 DEF Start, StopAtBudget, Materialize, SealCandidate, SubmitPlain, SaveReport,
     PublishReport, ResubmitReport, EndSession
<1>3. ASSUME active \in Active, Rephased(active, active')
      PROVE  SameEpisode
  BY <1>3, PhaseKeepsEpisode, NoneAssumption DEF SameEpisode
<1>4. CASE BeginExploring \/ MarkPromoted \/ ResumeExploring \/ CountInterrupted
  <2>1. /\ active \in Active
        /\ \E phase \in Phase : active' = [active EXCEPT !.phase = phase]
    BY <1>4 DEF BeginExploring, MarkPromoted, ResumeExploring, CountInterrupted, Phase,
       TypeInv, TypeOK, UnderWay
  <2>2. Rephased(active, active')
    BY <2>1 DEF Rephased
  <2> QED
    BY <1>3, <2>1, <2>2
<1>5. CASE Assess
  <2>1. /\ active \in Active
        /\ \/ active' = active
           \/ active' = [active EXCEPT !.phase = "verifying"]
    BY <1>5 DEF Assess, TypeInv, TypeOK, UnderWay
  <2>2. active' # active => Rephased(active, active')
    BY <1>0, <2>1 DEF Rephased
  <2> QED
    BY <1>3, <2>1, <2>2
<1>6. CASE Capture \/ RecordInterrupted
  <2>1. active \in Active /\ verdict.status \in Status /\ "interrupted" \in Status
    BY <1>6, VerdictFields DEF Capture, RecordInterrupted, Status, TypeInv, TypeOK, UnderWay
  <2>2. \/ active' = [active EXCEPT !.phase = "promoting"]
        \/ active' = [active EXCEPT !.phase = "recording", !.terminal = verdict.status]
        \/ active' = [active EXCEPT !.phase = "recording", !.terminal = "interrupted"]
    BY <1>6 DEF Capture, RecordInterrupted
  <2>3. Rephased(active, active')
    BY <1>0, <2>1, <2>2 DEF Rephased
  <2> QED
    BY <1>3, <2>1, <2>3
<1>7. CASE BaseMoved \/ WriteAudit \/ Squash \/ Screen \/ WriteRecord \/ AddRecord
          \/ CommitPromotion \/ CommitOutcome \/ PromotionFails
          \/ Account \/ Persist \/ RemoveWorktree
  BY <1>7 DEF BaseMoved, Raise, WriteAudit, Squash, Screen, WriteRecord, AddRecord,
     CommitPromotion, CommitOutcome, PromotionFails, Account, Persist, RemoveWorktree
<1>8. CASE RecoverHandoff \/ PauseForAudit \/ RecoverCommitted \/ DetachWorktree
          \/ SaveStall \/ SaveRecovered
  BY <1>8 DEF RecoverHandoff, PauseForAudit, RecoverCommitted, DetachWorktree,
     SaveStall, SaveRecovered
<1>9. CASE World
  BY <1>9 DEF World, Crash, LoseAudit, RestoreAudit, AcknowledgeMissing, ForeignCommit
<1> QED
  BY <1>1, <1>2, <1>3, <1>4, <1>5, <1>6, <1>7, <1>8, <1>9
  DEF Next, Exploration, Recording, Recovery

\* Only the two commits of an Episode and somebody else's move HEAD.
LEMMA CommitStep ==
    ASSUME HistoryInv, [Next]_vars
    PROVE  history' = history \/ CommitPromotion \/ CommitOutcome \/ ForeignCommit
<1> USE DEF durable, git
<1>1. CASE UNCHANGED vars \/ Start
  BY <1>1 DEF vars, Start
<1>2. CASE Exploration
  BY <1>2 DEF Exploration, StopAtBudget, Plan, Materialize, BeginExploring,
     SealCandidate, SubmitPlain, SaveReport, PublishReport, ResubmitReport,
     EndSession, Assess, Capture
<1>3. CASE Screen \/ PromotionFails
  <2>1. active # None /\ HEAD = active.base
    BY <1>3 DEF Screen, PromotionFails, HistoryInv, TypeInv, UnderWay, OnBase
  <2> QED
    BY <1>3, <2>1, ResetAtBase DEF Screen, PromotionFails, HistoryInv
<1>4. CASE BaseMoved \/ WriteAudit \/ Squash \/ WriteRecord \/ AddRecord \/ Account
          \/ MarkPromoted \/ Persist \/ RemoveWorktree \/ ClearActive
  BY <1>4 DEF BaseMoved, Raise, WriteAudit, Squash, WriteRecord, AddRecord, Account,
     MarkPromoted, Persist, RemoveWorktree, ClearActive
<1>5. CASE RecoverHandoff \/ ResumeExploring \/ RecordInterrupted
  <2>1. active # None /\ HEAD = active.base /\ RollBack
    BY <1>5 DEF RecoverHandoff, ResumeExploring, RecordInterrupted, Resumable,
       HistoryInv, TypeInv, UnderWay
  <2> QED
    BY <2>1, ResetAtBase DEF RollBack, HistoryInv
<1>6. CASE CountInterrupted \/ PauseForAudit \/ RecoverCommitted \/ DetachWorktree
          \/ SaveStall \/ SaveRecovered
  BY <1>6 DEF CountInterrupted, PauseForAudit, RecoverCommitted, DetachWorktree,
     SaveStall, SaveRecovered
<1>7. CASE Crash \/ (\E e \in Episode : LoseAudit(e)) \/ RestoreAudit
          \/ AcknowledgeMissing
  BY <1>7 DEF Crash, LoseAudit, RestoreAudit, AcknowledgeMissing
<1> QED
  BY <1>1, <1>2, <1>3, <1>4, <1>5, <1>6, <1>7 DEF Next, Recording, Recovery, World

\* A commit leaves every earlier one where it is.
LEMMA CommitAppends ==
    ASSUME HistoryInv, HistoryInv', CommitPromotion \/ CommitOutcome \/ ForeignCommit
    PROVE  /\ HEAD \in Nat /\ HEAD' = HEAD + 1
           /\ \A i \in 1 .. HEAD : history'[i] = history[i]
           /\ Tip' = history'[HEAD + 1]
           /\ CommitPromotion =>
                Tip' = [kind |-> "promotion", episode |-> active.episode,
                        version |-> active.version, status |-> "candidate_ready",
                        kernel |-> staged, audit |-> PromotionEvidence]
           /\ CommitOutcome =>
                Tip' = [kind |-> "outcome", episode |-> active.episode,
                        version |-> active.version, status |-> verdict.status,
                        kernel |-> Tip.kernel, audit |-> NoEvidence]
           /\ ForeignCommit =>
                /\ Tip'.kind = "foreign" /\ Tip'.episode = 0 /\ Tip'.version = 0
<1>1. history \in Seq(Commit) /\ HEAD \in Nat
  BY DEF HistoryInv, TypeInv, TypeOK, HEAD
<1>2. CASE CommitPromotion
  <2>1. PICK c : c = [kind |-> "promotion", episode |-> active.episode,
                      version |-> active.version, status |-> "candidate_ready",
                      kernel |-> staged, audit |-> PromotionEvidence]
    OBVIOUS
  <2>2. history' = Append(history, c) /\ pc' = "account"
    BY <1>2, <2>1 DEF CommitPromotion
  <2>3. ~ CommitOutcome /\ ~ ForeignCommit
    BY <1>2 DEF CommitPromotion, CommitOutcome, ForeignCommit
  <2> QED
    BY <1>1, <1>2, <2>1, <2>2, <2>3 DEF Tip, HEAD
<1>3. CASE CommitOutcome
  <2>1. PICK c : c = [kind |-> "outcome", episode |-> active.episode,
                      version |-> active.version, status |-> verdict.status,
                      kernel |-> Tip.kernel, audit |-> NoEvidence]
    OBVIOUS
  <2>2. history' = Append(history, c)
    BY <1>3, <2>1 DEF CommitOutcome
  <2>3. ~ CommitPromotion /\ ~ ForeignCommit
    BY <1>3 DEF CommitPromotion, CommitOutcome, ForeignCommit
  <2> QED
    BY <1>1, <1>3, <2>1, <2>2, <2>3 DEF Tip, HEAD
<1>4. CASE ForeignCommit
  <2>1. PICK c : c = [BaseCommit EXCEPT !.kind = "foreign", !.kernel = Tip.kernel]
    OBVIOUS
  <2>2. history' = Append(history, c)
    BY <1>4, <2>1 DEF ForeignCommit
  <2>3. c.kind = "foreign" /\ c.episode = 0 /\ c.version = 0
    BY <2>1 DEF BaseCommit
  <2>4. ~ CommitPromotion /\ ~ CommitOutcome
    BY <1>4 DEF CommitPromotion, CommitOutcome, ForeignCommit
  <2> QED
    BY <1>1, <1>4, <2>2, <2>3, <2>4 DEF Tip, HEAD
<1> QED
  BY <1>2, <1>3, <1>4

-----------------------------------------------------------------------------
(* Between Episodes the checkout is clean *)

\* promote_candidate is at work on this Episode's candidate.
Promoting ==
    \/ pc \in {"audit", "squash", "screen", "write"}
    \/ pc \in {"add", "commit"} /\ verdict.accepted

\* The Episode's commit is made, and its version record with it.
Recorded == {"account", "mark", "persist", "remove", "clear", "interrupted", "detach",
             "restall", "resave"}

\* Where the next Episode is chosen no checkpoint is left.
Over == pc \in {"choose", "stopped"} => active = None

\* The checkpoint says "promoting" for as long as promote_candidate runs.
PromotingPhase == Promoting => active.phase = "promoting" /\ verdict.accepted

\* What is staged is the squash of a promotion that is running, or that a crash cut
\* short: the checkpoint says so, and recovery rolls it back by that word.
SquashOwned ==
    staged # None =>
        /\ active # None /\ active.phase = "promoting"
        /\ pc \in {"down", "paused", "recover"} \/ Promoting

\* An uncommitted version record is that of the Episode under way, before its commit.
RecordOwned ==
    /\ record.where = "none" => record = NoRecord
    /\ record.where # "none" =>
        active # None /\ record.version = active.version /\ pc \notin Recorded
    /\ pc \in {"add", "commit"} => record.where # "none"

\* No commit below the base has the Episode's version, and while its candidate is
\* staged no commit at all has: CanonicalMemory cannot take the squash for recorded.
NewVersion ==
    active # None =>
        /\ \A i \in 1 .. active.base : history[i].version < active.version
        /\ staged # None => \A i \in Commits : history[i].version # active.version

\* What keeps the checkout clean between Episodes, together.
CheckoutInv ==
    HistoryInv /\ Over /\ PromotingPhase /\ SquashOwned /\ RecordOwned /\ NewVersion

\* A git reset --hard leaves nothing staged, and no record but the one it found
\* untracked.
LEMMA ResetCleans ==
    ASSUME ResetHard, RecordOwned
    PROVE  /\ staged' = None
           /\ record' = NoRecord \/ record' = record
  BY DEF ResetHard

\* The rollback of a recovery leaves nothing staged.
LEMMA RollBackCleans ==
    ASSUME RollBack, SquashOwned, RecordOwned
    PROVE  /\ staged' = None
           /\ record' = NoRecord \/ record' = record
  BY ResetCleans DEF RollBack, SquashOwned, git

\* Planning takes a version above every recorded one.
LEMMA PlanIsNew ==
    ASSUME CheckoutInv, Plan
    PROVE  /\ active' # None /\ active'.base = HEAD /\ active'.phase = "preparing"
           /\ active'.episode = st.episodes + 1
           /\ \A i \in Commits : history[i].version < active'.version
           /\ staged = None /\ record = NoRecord /\ active = None
<1>1. active = None /\ staged = None /\ record = NoRecord
  BY DEF Plan, CheckoutInv, Over, SquashOwned, RecordOwned
<1>2. PICK latest \in KnownVersions :
          /\ IsLatestVersion(latest)
          /\ active' = [episode |-> st.episodes + 1, version |-> latest + 1,
                        base |-> HEAD, phase |-> "preparing", terminal |-> "none"]
  BY DEF Plan
<1>3. TypeInv' /\ pc' = "materialize"
  BY TypeStep DEF Plan, Next, Exploration, CheckoutInv, HistoryInv
<1>4. active' # None
  BY <1>3 DEF TypeInv, UnderWay
<1>5. KnownVersions = {history[i].version : i \in Commits}
  BY <1>1 DEF KnownVersions, NoRecord
<1>6. \A i \in Commits : history[i].version \in Nat
  BY CommitFields DEF Commits, CheckoutInv, HistoryInv
<1>7. ASSUME NEW i \in Commits
      PROVE  history[i].version < latest + 1
  <2>1. history[i].version \in KnownVersions
    BY <1>5
  <2>2. latest \in Nat
    BY <1>2, <1>5, <1>6
  <2> QED
    BY <1>2, <1>6, <2>1, <2>2 DEF IsLatestVersion
<1> QED
  BY <1>1, <1>2, <1>4, <1>7

\* Only the squash of a promotion stages a candidate.
LEMMA SquashStages ==
    ASSUME [Next]_vars
    PROVE  staged' = staged \/ staged' = None \/ Squash
<1> USE DEF durable, git
<1>1. CASE UNCHANGED vars \/ Start
  BY <1>1 DEF vars, Start
<1>2. CASE Exploration
  BY <1>2 DEF Exploration, StopAtBudget, Plan, Materialize, BeginExploring,
     SealCandidate, SubmitPlain, SaveReport, PublishReport, ResubmitReport,
     EndSession, Assess, Capture
<1>3. CASE Recording
  BY <1>3 DEF Recording, BaseMoved, Raise, WriteAudit, Screen, WriteRecord, AddRecord,
     CommitPromotion, CommitOutcome, PromotionFails, Account, MarkPromoted, Persist,
     RemoveWorktree, ClearActive, ResetHard
<1>4. CASE Recovery
  BY <1>4 DEF Recovery, RecoverHandoff, ResumeExploring, RecordInterrupted,
     CountInterrupted, PauseForAudit, RecoverCommitted, DetachWorktree, SaveStall,
     SaveRecovered, RollBack, ResetHard
<1>5. CASE World
  BY <1>5 DEF World, Crash, LoseAudit, RestoreAudit, AcknowledgeMissing, ForeignCommit
<1> QED
  BY <1>1, <1>2, <1>3, <1>4, <1>5 DEF Next

\* No step gives the Episode under way a version that is already recorded.
LEMMA NewVersionStep ==
    ASSUME CheckoutInv, HistoryInv', [Next]_vars
    PROVE  NewVersion'
<1> USE DEF Commits
<1>1. /\ TypeInv /\ HEAD \in Nat
      /\ active # None => active.base \in 1 .. HEAD /\ active.version \in Nat
      /\ \A i \in Commits : history[i].version \in Nat
  <2>1. TypeInv
    BY DEF CheckoutInv, HistoryInv
  <2>2. HEAD \in Nat /\ (active # None => active \in Active)
    BY <2>1 DEF TypeInv, TypeOK, HEAD
  <2>3. active # None => active.base \in 1 .. HEAD
    BY <2>1 DEF TypeInv, UnderWay
  <2> QED
    BY <2>1, <2>2, <2>3, CommitFields, ActiveFields
<1>2. CASE Plan
  <2>1. history' = history /\ staged' = staged
    BY <1>2 DEF Plan, git
  <2> QED
    BY <1>1, <1>2, <2>1, PlanIsNew DEF NewVersion
<1>3. CASE ClearActive
  BY <1>3 DEF ClearActive, NewVersion
<1>4. CASE history' = history /\ (active' = active \/ SameEpisode)
  <2>1. HEAD' = HEAD
    BY <1>4 DEF HEAD
  <2>2. /\ active' # None => active # None
        /\ active'.version = active.version /\ active'.base = active.base
    BY <1>4 DEF SameEpisode
  <2>3. CASE Squash
    <3>1. active # None /\ HEAD = active.base
      BY <2>3 DEF Squash, CheckoutInv, HistoryInv, TypeInv, UnderWay, OnBase
    <3>2. \A i \in 1 .. HEAD : history[i].version < active.version
      BY <3>1 DEF CheckoutInv, NewVersion
    <3> QED
      BY <1>1, <1>4, <2>1, <2>2, <3>1, <3>2 DEF NewVersion
  <2>4. CASE staged' = staged \/ staged' = None
    BY <1>1, <1>4, <2>1, <2>2, <2>4 DEF NewVersion, CheckoutInv
  <2> QED
    BY <2>3, <2>4, SquashStages
<1>5. CASE CommitPromotion \/ CommitOutcome
  <2>1. active # None /\ active' = active /\ HEAD = active.base /\ staged' = None
    BY <1>5 DEF CommitPromotion, CommitOutcome, CheckoutInv, HistoryInv, TypeInv,
       UnderWay, OnBase, SquashOwned, Promoting
  <2>2. \A i \in 1 .. HEAD : history'[i] = history[i]
    BY <1>5, CommitAppends DEF CheckoutInv
  <2> QED
    BY <1>1, <2>1, <2>2 DEF NewVersion, CheckoutInv
<1>6. CASE ForeignCommit
  <2>1. active # None /\ active' = active /\ staged' = staged
    BY <1>6 DEF ForeignCommit
  <2>2. /\ \A i \in 1 .. HEAD : history'[i] = history[i]
        /\ history'[HEAD + 1].version = 0 /\ HEAD' = HEAD + 1
    BY <1>6, CommitAppends DEF CheckoutInv
  <2>3. history[1].version \in Nat /\ history[1].version < active.version
    BY <1>1, <2>1 DEF NewVersion, CheckoutInv
  <2>4. \A i \in 1 .. active.base : history'[i].version < active.version
    BY <1>1, <2>1, <2>2 DEF NewVersion, CheckoutInv
  <2>5. ASSUME staged # None, NEW i \in 1 .. HEAD + 1
        PROVE  history'[i].version # active.version
    <3>1. CASE i \in 1 .. HEAD
      BY <1>1, <2>1, <2>2, <2>5, <3>1 DEF NewVersion, CheckoutInv
    <3>2. CASE i = HEAD + 1
      BY <1>1, <2>1, <2>2, <2>3, <3>2
    <3> QED
      BY <1>1, <2>5, <3>1, <3>2
  <2> QED
    BY <2>1, <2>2, <2>4, <2>5 DEF NewVersion
<1> QED
  BY <1>1, <1>2, <1>3, <1>4, <1>5, <1>6, EpisodeStep, CommitStep DEF CheckoutInv,
     CommitPromotion, CommitOutcome, ForeignCommit

\* A step that leaves nothing staged and makes no record keeps the checkout owned.
LEMMA CheckoutCarried ==
    ASSUME CheckoutInv, active # None, active' = active \/ SameEpisode,
           staged' = None, record' = record \/ record' = NoRecord,
           pc' \notin {"choose", "stopped", "add", "commit"},
           record'.where # "none" => pc' \notin Recorded
    PROVE  (Over /\ SquashOwned /\ RecordOwned)'
<1>1. active' # None /\ active'.version = active.version
  BY DEF SameEpisode
<1>2. NoRecord.where = "none"
  BY DEF NoRecord
<1> QED
  BY <1>1, <1>2 DEF CheckoutInv, Over, SquashOwned, RecordOwned, Recorded

\* Every step keeps what is staged, and what is recorded but not committed, that of
\* the Episode whose checkpoint says so.
LEMMA CheckoutStep ==
    ASSUME CheckoutInv, HistoryInv', [Next]_vars
    PROVE  (Over /\ PromotingPhase /\ SquashOwned /\ RecordOwned)'
<1> USE DEF durable, git
<1>0. /\ TypeInv /\ TypeInv'
      /\ pc \notin {"down", "choose", "stopped"} => active # None
      /\ Over /\ PromotingPhase /\ SquashOwned /\ RecordOwned
  BY DEF CheckoutInv, HistoryInv, TypeInv, UnderWay
<1>1. CASE UNCHANGED vars
  BY <1>0, <1>1 DEF vars, Over, PromotingPhase, SquashOwned, RecordOwned, Promoting
<1>2. CASE Start \/ StopAtBudget
  BY <1>0, <1>2 DEF Start, StopAtBudget, Over, PromotingPhase, SquashOwned, RecordOwned,
     Promoting, Recorded
<1>3. CASE Plan
  <2>1. staged' = None /\ record' = NoRecord /\ pc' = "materialize"
    BY <1>3, PlanIsNew DEF Plan
  <2> QED
    BY <2>1 DEF Over, PromotingPhase, SquashOwned, RecordOwned, Promoting, NoRecord
<1>4. CASE Materialize \/ BeginExploring \/ (\E k \in Kernel : SealCandidate(k))
          \/ (\E status \in {"pivot", "blocked"} : SubmitPlain(status))
          \/ SaveReport \/ PublishReport \/ ResubmitReport \/ EndSession \/ Assess
  <2>1. /\ pc \in {"materialize", "prepared", "session", "assess"}
        /\ pc' \in {"prepared", "session", "assess", "capture"}
        /\ staged' = staged /\ record' = record /\ pc # "choose" /\ pc # "clear"
    BY <1>4 DEF Materialize, BeginExploring, SealCandidate, SubmitPlain, SaveReport,
       PublishReport, ResubmitReport, EndSession, Assess
  <2>2. /\ staged' = None /\ PromotingPhase'
        /\ active # None /\ (active' = active \/ SameEpisode)
    BY <1>0, <2>1, EpisodeStep DEF SquashOwned, PromotingPhase, Promoting, Plan, ClearActive
  <2> QED
    BY <2>1, <2>2, CheckoutCarried DEF Recorded
<1>5. CASE Capture
  <2>1. PICK captured \in BOOLEAN :
            /\ verdict' = [verdict EXCEPT !.accepted = verdict.accepted /\ captured]
            /\ active' = IF verdict.accepted /\ captured
                         THEN [active EXCEPT !.phase = "promoting"]
                         ELSE [active EXCEPT !.phase = "recording",
                                             !.terminal = verdict.status]
            /\ pc' = IF verdict.accepted /\ captured THEN "audit" ELSE "outcome"
    BY <1>5 DEF Capture
  <2>2. pc = "capture" /\ staged' = staged /\ record' = record
    BY <1>5 DEF Capture
  <2>3. PromotingPhase'
    <3>1. active \in Active /\ verdict \in Verdict
      BY <1>0, <2>2 DEF TypeInv, TypeOK
    <3>2. CASE verdict.accepted /\ captured
      <4>1. /\ active' = [active EXCEPT !.phase = "promoting"]
            /\ verdict' = [verdict EXCEPT !.accepted = verdict.accepted /\ captured]
        BY <2>1, <3>2
      <4>2. active'.phase = "promoting"
        BY <3>1, <4>1 DEF Active
      <4>3. verdict'.accepted
        BY <3>1, <3>2, <4>1 DEF Verdict
      <4> QED
        BY <4>2, <4>3 DEF PromotingPhase
    <3>3. CASE ~ (verdict.accepted /\ captured)
      BY <2>1, <3>3 DEF PromotingPhase, Promoting
    <3> QED
      BY <3>2, <3>3
  <2>4. /\ staged' = None /\ pc' \in {"audit", "outcome"}
        /\ active # None /\ (active' = active \/ SameEpisode)
    BY <1>0, <2>1, <2>2, EpisodeStep DEF SquashOwned, Promoting, Plan, ClearActive
  <2> QED
    BY <2>2, <2>3, <2>4, CheckoutCarried DEF Recorded
<1>6. CASE BaseMoved \/ WriteAudit \/ PauseForAudit
  BY <1>0, <1>6 DEF BaseMoved, Raise, WriteAudit, PauseForAudit, Over, PromotingPhase,
     SquashOwned, RecordOwned, Promoting, Recorded
<1>7. CASE Squash
  BY <1>0, <1>7 DEF Squash, Over, PromotingPhase, SquashOwned, RecordOwned, Promoting,
     Recorded
<1>8. CASE Screen \/ PromotionFails
  <2>1. CASE ResetHard /\ pc' = "down"
    <3>1. /\ active # None /\ active' = active
          /\ staged' = None /\ (record' = record \/ record' = NoRecord)
      BY <1>0, <1>8, <2>1, ResetCleans DEF Screen, PromotionFails
    <3> QED
      BY <2>1, <3>1, CheckoutCarried DEF Recorded, PromotingPhase, Promoting
  <2>2. CASE Screen /\ pc' = "write" /\ UNCHANGED git
    BY <1>0, <2>2 DEF Screen, Over, PromotingPhase, SquashOwned, RecordOwned, Promoting,
       Recorded
  <2> QED
    BY <1>8, <2>1, <2>2 DEF Screen, PromotionFails
<1>9. CASE WriteRecord
  <2>1. /\ active' = active /\ staged' = staged /\ verdict' = verdict /\ pc' = "add"
        /\ pc = "write" \/ (pc = "outcome" /\ ~ verdict.accepted)
    BY <1>0, <1>9 DEF WriteRecord, TypeInv, Staging
  <2>2. record'.where \in {"file", "staged"} /\ record'.version = active.version
    BY <1>9 DEF WriteRecord
  <2> QED
    BY <1>0, <2>1, <2>2 DEF Over, PromotingPhase, SquashOwned, RecordOwned,
       Promoting, Recorded
<1>10. CASE AddRecord
  <2>1. record \in [where : {"none", "file", "staged"}, version : Nat]
    BY <1>0 DEF TypeInv, TypeOK
  <2>2. /\ pc = "add" /\ pc' = "commit" /\ active' = active /\ staged' = staged
        /\ verdict' = verdict /\ record'.where = "staged" /\ record'.version = record.version
    BY <1>10, <2>1 DEF AddRecord
  <2>3. record'.version = active.version
    BY <1>0, <1>10, <2>2 DEF AddRecord, RecordOwned
  <2> QED
    BY <1>0, <2>2, <2>3 DEF Over, PromotingPhase, SquashOwned, RecordOwned, Promoting,
       Recorded
<1>11. CASE CommitPromotion \/ CommitOutcome
  <2>1. /\ staged' = None /\ record' = NoRecord /\ active # None /\ active' = active
        /\ pc' \in {"account", "interrupted"}
    BY <1>0, <1>11 DEF CommitPromotion, CommitOutcome, SquashOwned, Promoting
  <2> QED
    BY <2>1, CheckoutCarried DEF NoRecord, PromotingPhase, Promoting
<1>12. CASE Account \/ MarkPromoted \/ Persist \/ RemoveWorktree \/ CountInterrupted
           \/ DetachWorktree \/ SaveStall \/ SaveRecovered
  <2>1. /\ pc \in Recorded /\ pc \notin {"choose", "clear"}
        /\ pc' \in Recorded \cup {"down"}
        /\ staged' = staged /\ record' = record
    BY <1>12 DEF Account, MarkPromoted, Persist, RemoveWorktree, CountInterrupted,
       DetachWorktree, SaveStall, SaveRecovered, Recorded
  <2>2. /\ staged' = None /\ record.where = "none" /\ PromotingPhase'
        /\ active # None /\ (active' = active \/ SameEpisode)
    BY <1>0, <2>1, EpisodeStep
    DEF SquashOwned, RecordOwned, PromotingPhase, Promoting, Plan, ClearActive, Recorded
  <2> QED
    BY <2>1, <2>2, CheckoutCarried DEF Recorded
<1>13. CASE ClearActive
  <2>1. /\ staged' = None /\ record' = NoRecord /\ active' = None
        /\ pc' \in {"stopped", "choose"}
    BY <1>0, <1>13 DEF ClearActive, SquashOwned, RecordOwned, Promoting, Recorded
  <2> QED
    BY <2>1 DEF Over, PromotingPhase, SquashOwned, RecordOwned, Promoting, NoRecord
<1>14. CASE RecoverHandoff \/ ResumeExploring \/ RecordInterrupted
  <2>1. pc = "recover" /\ pc' \in {"assess", "session", "outcome"} /\ RollBack
    BY <1>14 DEF RecoverHandoff, ResumeExploring, RecordInterrupted
  <2>2. /\ staged' = None /\ (record' = record \/ record' = NoRecord) /\ PromotingPhase'
        /\ active # None /\ (active' = active \/ SameEpisode)
    BY <1>0, <2>1, RollBackCleans, EpisodeStep
    DEF PromotingPhase, Promoting, Plan, ClearActive
  <2> QED
    BY <2>1, <2>2, CheckoutCarried DEF Recorded
<1>15. CASE RecoverCommitted
  <2>1. /\ pc = "recover" /\ active # None /\ active' = active
        /\ staged' = staged /\ record' = record
    BY <1>0, <1>15 DEF RecoverCommitted
  <2>2. CASE CanonicalMemory(active.version)
    <3>1. staged = None /\ record.where = "none" /\ pc' = "detach"
      BY <1>0, <1>15, <2>1, <2>2
      DEF RecoverCommitted, CanonicalMemory, CheckoutInv, NewVersion, RecordOwned
    <3> QED
      BY <2>1, <3>1, CheckoutCarried DEF PromotingPhase, Promoting
  <2>3. CASE ~ CanonicalMemory(active.version)
    <3>1. pc' = "down"
      BY <1>15, <2>3 DEF RecoverCommitted
    <3> QED
      BY <1>0, <2>1, <3>1 DEF Over, PromotingPhase, SquashOwned, RecordOwned, Promoting,
         Recorded
  <2> QED
    BY <2>2, <2>3
<1>16. CASE World
  <2>1. /\ staged' = staged /\ record' = record /\ active' = active
        /\ verdict' = verdict /\ pc' \in {pc, "down"}
    BY <1>16 DEF World, Crash, LoseAudit, RestoreAudit, AcknowledgeMissing, ForeignCommit
  <2> QED
    BY <1>0, <2>1 DEF Over, PromotingPhase, SquashOwned, RecordOwned, Promoting,
       Recorded
<1> QED
  BY <1>1, <1>2, <1>3, <1>4, <1>5, <1>6, <1>7, <1>8, <1>9, <1>10, <1>11, <1>12, <1>13,
     <1>14, <1>15, <1>16
  DEF Next, Exploration, Recording, Recovery

\* The checkout of a fresh campaign is clean.
LEMMA CheckoutInit == Init => CheckoutInv
<1> SUFFICES ASSUME Init
             PROVE  CheckoutInv
  OBVIOUS
<1> QED
  BY HistoryInit DEF Init, CheckoutInv, Over, PromotingPhase, SquashOwned, RecordOwned,
     NewVersion, Promoting, NoRecord

\* Every step keeps the checkout owned by the Episode under way.
LEMMA CheckoutInvStep == CheckoutInv /\ [Next]_vars => CheckoutInv'
  BY HistoryInvStep, CheckoutStep, NewVersionStep DEF CheckoutInv

\* The inductive invariant of the checkout holds in every behaviour.
LEMMA CheckoutInvariant == Spec => []CheckoutInv
  BY CheckoutInit, CheckoutInvStep, PTL DEF Spec

\* No squash and no version record of an attempt that failed, or that a crash cut
\* short, survives into the next Episode.
THEOREM CheckoutIsClean == Spec => []CleanBetweenEpisodes
<1>1. CheckoutInv => CleanBetweenEpisodes
  BY DEF CheckoutInv, SquashOwned, RecordOwned, CleanBetweenEpisodes
<1> QED
  BY <1>1, CheckoutInvariant, PTL

-----------------------------------------------------------------------------
(* The numbers of Episodes, and how they are counted *)

\* A state's attempts are of Episodes it has counted.
CountedEpisodes(s) == \A i \in DOMAIN s.attempts : s.attempts[i].episode <= s.episodes

\* An Episode is counted in memory, as one of the outcomes.
Counting ==
    /\ pc \in {"account", "interrupted", "recover"}
    /\ \E status \in Status, accepted \in BOOLEAN :
          st' = Counted(st, active.episode, active.version, status, accepted)

\* What a step can do to the counters: load them, count one Episode, save them.
LEMMA CountStep ==
    ASSUME TypeInv, [Next]_vars
    PROVE  \/ st' = st /\ saved' \in {saved, st}
           \/ Start
           \/ Counting /\ saved' = saved
<1> USE DEF durable
<1>0. /\ "interrupted" \in Status /\ "candidate_ready" \in Status
      /\ verdict.status \in Status /\ verdict.accepted \in BOOLEAN
  BY VerdictFields DEF Status, ReportStatus, TypeInv, TypeOK
<1>1. CASE UNCHANGED vars
  BY <1>1 DEF vars
<1>2. CASE Exploration
  BY <1>2 DEF Exploration, StopAtBudget, Plan, Materialize, BeginExploring,
     SealCandidate, SubmitPlain, SaveReport, PublishReport, ResubmitReport,
     EndSession, Assess, Capture
<1>3. CASE Account
  BY <1>0, <1>3 DEF Account, Counting
<1>4. CASE BaseMoved \/ WriteAudit \/ Squash \/ Screen \/ WriteRecord \/ AddRecord
          \/ CommitPromotion \/ CommitOutcome \/ PromotionFails \/ MarkPromoted
          \/ Persist \/ RemoveWorktree \/ ClearActive
  BY <1>4 DEF BaseMoved, Raise, WriteAudit, Squash, Screen, WriteRecord, AddRecord,
     CommitPromotion, CommitOutcome, PromotionFails, MarkPromoted, Persist,
     RemoveWorktree, ClearActive
<1>5. CASE CountInterrupted
  BY <1>0, <1>5 DEF CountInterrupted, Counting
<1>6. CASE RecoverCommitted
  <2>1. RecoveredOutcome => active.terminal \in Status
    <3>1. active \in Active
      BY <1>6 DEF RecoverCommitted, TypeInv, TypeOK, UnderWay
    <3> QED
      BY <3>1, ActiveFields DEF RecoveredOutcome
  <2>2. RecoveredPromotion \in BOOLEAN
    BY DEF RecoveredPromotion
  <2>3. saved' = saved
    BY <1>6 DEF RecoverCommitted
  <2>4. st' = st \/ Counting
    BY <1>0, <1>6, <2>1, <2>2 DEF RecoverCommitted, Counting
  <2> QED
    BY <2>3, <2>4
<1>7. CASE RecoverHandoff \/ ResumeExploring \/ RecordInterrupted \/ PauseForAudit
          \/ DetachWorktree \/ SaveStall \/ SaveRecovered
  BY <1>7 DEF RecoverHandoff, ResumeExploring, RecordInterrupted, PauseForAudit,
     DetachWorktree, SaveStall, SaveRecovered
<1>8. CASE World
  BY <1>8 DEF World, Crash, LoseAudit, RestoreAudit, AcknowledgeMissing, ForeignCommit
<1> QED
  BY <1>1, <1>2, <1>3, <1>4, <1>5, <1>6, <1>7, <1>8 DEF Next, Recording, Recovery

\* Three steps of the controller count: the ordinary accounting, and the two of
\* recovery.
LEMMA CountingSteps ==
    ASSUME [Next]_vars, st' # st, ~ Start
    PROVE  \/ Account \/ CountInterrupted
           \/ RecoverCommitted /\ CanonicalMemory(active.version)
<1> USE DEF durable
<1>1. ~ UNCHANGED vars
  BY DEF vars
<1>2. ~ Exploration
  BY DEF Exploration, StopAtBudget, Plan, Materialize, BeginExploring,
     SealCandidate, SubmitPlain, SaveReport, PublishReport, ResubmitReport,
     EndSession, Assess, Capture
<1>3. Recording => Account
  BY DEF Recording, BaseMoved, Raise, WriteAudit, Squash, Screen, WriteRecord,
     AddRecord, CommitPromotion, CommitOutcome, PromotionFails, MarkPromoted,
     Persist, RemoveWorktree, ClearActive
<1>4. Recovery => CountInterrupted \/ (RecoverCommitted /\ CanonicalMemory(active.version))
  BY DEF Recovery, RecoverHandoff, ResumeExploring, RecordInterrupted,
     PauseForAudit, RecoverCommitted, DetachWorktree, SaveStall, SaveRecovered
<1>5. ~ World
  BY DEF World, Crash, LoseAudit, RestoreAudit, AcknowledgeMissing, ForeignCommit
<1> QED
  BY <1>1, <1>2, <1>3, <1>4, <1>5 DEF Next

\* Loading restores the stall only: the Episodes and attempts are the saved ones.
LEMMA LoadedCounters ==
    ASSUME TypeInv
    PROVE  /\ LoadedState.episodes = saved.episodes
           /\ LoadedState.attempts = saved.attempts
           /\ LoadedState.tally = saved.tally
  BY DEF LoadedState, SupervisorState, TypeInv, TypeOK

\* t is s with one attempt more, of this Episode, and counts at least that far.
Extends(t, s, episode) ==
    /\ t.episodes = Later(s.episodes, episode)
    /\ Len(t.attempts) = Len(s.attempts) + 1
    /\ \A i \in 1 .. Len(s.attempts) : t.attempts[i] = s.attempts[i]
    /\ t.attempts[Len(s.attempts) + 1].episode = episode
    /\ DOMAIN t.attempts = 1 .. Len(s.attempts) + 1

\* Counting an Episode appends it to the attempts and raises the number of Episodes to
\* its own.
LEMMA CountedExtends ==
    ASSUME NEW s \in SupervisorState, NEW episode \in Episode, NEW version \in Nat,
           NEW status \in Status, NEW accepted \in BOOLEAN
    PROVE  Extends(Counted(s, episode, version, status, accepted), s, episode)
<1> DEFINE attempt == [episode |-> episode, version |-> version,
                       status |-> status, accepted |-> accepted]
           t == Counted(s, episode, version, status, accepted)
<1>1. /\ s.episodes \in Nat /\ s.attempts \in Seq(Attempt) /\ episode \in Nat
      /\ attempt \in Attempt
  BY DEF SupervisorState, Episode, Attempt
<1>2. /\ t.episodes = Later(s.episodes, episode)
      /\ t.attempts = Append(s.attempts, attempt)
  BY DEF Counted
<1> HIDE DEF t
<1>3. /\ t.attempts \in Seq(Attempt)
      /\ Len(t.attempts) = Len(s.attempts) + 1
      /\ \A i \in 1 .. Len(s.attempts) : t.attempts[i] = s.attempts[i]
      /\ t.attempts[Len(s.attempts) + 1] = attempt
  BY <1>1, <1>2, AppendProperties
<1>4. DOMAIN t.attempts = 1 .. Len(s.attempts) + 1
  BY <1>3
<1>5. t.attempts[Len(s.attempts) + 1].episode = episode
  BY <1>3
<1>6. Extends(t, s, episode)
  BY <1>2, <1>3, <1>4, <1>5 DEF Extends
<1> QED
  BY <1>6 DEF t

\* No counter is ahead of the commits, and none behind what it should have counted.
CountersInv ==
    /\ CountedEpisodes(st) /\ CountedEpisodes(saved)
    /\ st.episodes >= saved.episodes
    /\ pc \in {"mark", "persist", "remove", "clear", "detach", "restall", "resave"} =>
            st.episodes >= active.episode
    /\ pc \in {"remove", "clear"} => saved.episodes >= active.episode

\* The Episode under way is later than every commit below its base, and no commit
\* is of a later Episode.
EpisodeNumbers ==
    IF active = None
    THEN \A i \in Commits : history[i].episode <= saved.episodes
    ELSE /\ \A i \in 1 .. active.base : history[i].episode < active.episode
         /\ \A i \in Commits : history[i].episode <= active.episode

\* The checkpoint names an Episode of the campaign.
LEMMA ActiveEpisode ==
    ASSUME TypeInv, active # None
    PROVE  /\ active.episode \in Episode /\ active.episode \in Nat
           /\ active.version \in Nat /\ active.base \in 1 .. HEAD /\ HEAD \in Nat
  BY ActiveFields DEF TypeInv, TypeOK, UnderWay, Episode, HEAD

\* Counting the Episode under way extends the state in memory by it.
LEMMA CountingExtends ==
    ASSUME TypeInv, Counting
    PROVE  /\ active # None /\ active.episode \in Nat
           /\ Extends(st', st, active.episode)
<1>1. active # None
  BY DEF Counting, TypeInv, UnderWay
<1>2. PICK status \in Status, accepted \in BOOLEAN :
          st' = Counted(st, active.episode, active.version, status, accepted)
  BY DEF Counting
<1>3. /\ st \in SupervisorState /\ active.episode \in Episode /\ active.version \in Nat
      /\ active.episode \in Nat
  BY <1>1, ActiveEpisode DEF TypeInv, TypeOK
<1> QED
  BY <1>1, <1>2, <1>3, CountedExtends

\* Counting keeps the attempts among the counted Episodes.
LEMMA CountingCounts ==
    ASSUME TypeInv, CountedEpisodes(st), Counting
    PROVE  /\ CountedEpisodes(st)'
           /\ st'.episodes >= st.episodes /\ st'.episodes >= active.episode
<1>1. st \in SupervisorState /\ st.episodes \in Nat
  BY DEF TypeInv, TypeOK, SupervisorState
<1>2. active.episode \in Nat /\ Extends(st', st, active.episode)
  BY CountingExtends
<1>3. /\ st'.episodes \in Nat
      /\ st'.episodes >= st.episodes /\ st'.episodes >= active.episode
      /\ \A i \in 1 .. Len(st.attempts) : st'.attempts[i] = st.attempts[i]
      /\ st'.attempts[Len(st.attempts) + 1].episode = active.episode
      /\ DOMAIN st'.attempts = 1 .. Len(st.attempts) + 1
  BY <1>1, <1>2 DEF Extends, Later
<1>4. st.attempts \in Seq(Attempt) /\ st.episodes \in Nat
  BY <1>1 DEF SupervisorState
<1>5. \A i \in 1 .. Len(st.attempts) : st.attempts[i].episode \in Nat
  <2>1. \A i \in 1 .. Len(st.attempts) : st.attempts[i] \in Attempt
    BY <1>4
  <2> QED
    BY <2>1 DEF Attempt, Episode
<1>6. ASSUME NEW i \in 1 .. Len(st.attempts) + 1
      PROVE  st'.attempts[i].episode <= st'.episodes
  <2>1. CASE i \in 1 .. Len(st.attempts)
    <3>1. st.attempts[i].episode <= st.episodes
      BY <1>4, <2>1 DEF CountedEpisodes
    <3> QED
      BY <1>3, <1>4, <1>5, <2>1, <3>1, SMTT(30)
  <2>2. CASE i = Len(st.attempts) + 1
    BY <1>3, <2>2
  <2> QED
    BY <1>4, <2>1, <2>2
<1> QED
  BY <1>3, <1>6 DEF CountedEpisodes

\* No step leaves a counter ahead of the Episode it should have counted, or behind it.
LEMMA CountersStep ==
    ASSUME TypeInv, TypeInv', CountersInv, [Next]_vars
    PROVE  CountersInv'
<1> DEFINE Ahead == {"mark", "persist", "remove", "clear", "detach", "restall", "resave"}
<1> USE DEF durable
<1>0. /\ st.episodes \in Nat /\ saved.episodes \in Nat
      /\ pc \notin {"down", "choose", "stopped"} => active # None /\ active.episode \in Nat
      /\ CountedEpisodes(st) /\ CountedEpisodes(saved) /\ st.episodes >= saved.episodes
  BY ActiveEpisode DEF CountersInv, TypeInv, TypeOK, UnderWay, SupervisorState
<1>1. CASE UNCHANGED vars
  BY <1>1 DEF vars, CountersInv, CountedEpisodes
<1>2. CASE Start
  <2>1. /\ pc' \notin Ahead /\ saved' = saved
        /\ st'.episodes = saved.episodes /\ st'.attempts = saved.attempts
    BY <1>2, LoadedCounters DEF Start
  <2> QED
    BY <1>0, <2>1 DEF CountersInv, CountedEpisodes
<1>3. ASSUME pc' \notin Ahead, st' = st, saved' \in {saved, st}
      PROVE  CountersInv'
  BY <1>0, <1>3 DEF CountersInv, CountedEpisodes
<1>4. CASE Exploration
  <2>1. pc' \notin Ahead /\ st' = st /\ saved' \in {saved, st}
    BY <1>4 DEF Exploration, StopAtBudget, Plan, Materialize, BeginExploring,
       SealCandidate, SubmitPlain, SaveReport, PublishReport, ResubmitReport,
       EndSession, Assess, Capture
  <2> QED
    BY <1>3, <2>1
<1>5. CASE BaseMoved \/ WriteAudit \/ Squash \/ Screen \/ WriteRecord \/ AddRecord
          \/ CommitPromotion \/ CommitOutcome \/ PromotionFails \/ ClearActive
  <2>1. pc' \notin Ahead /\ st' = st /\ saved' \in {saved, st}
    BY <1>5 DEF BaseMoved, Raise, WriteAudit, Squash, Screen, WriteRecord, AddRecord,
       CommitPromotion, CommitOutcome, PromotionFails, ClearActive
  <2> QED
    BY <1>3, <2>1
<1>6. CASE RecoverHandoff \/ ResumeExploring \/ RecordInterrupted \/ PauseForAudit
  <2>1. pc' \notin Ahead /\ st' = st /\ saved' \in {saved, st}
    BY <1>6 DEF RecoverHandoff, ResumeExploring, RecordInterrupted, PauseForAudit
  <2> QED
    BY <1>3, <2>1
<1>7. CASE Account \/ CountInterrupted \/ RecoverCommitted
  <2>1. /\ active # None /\ active.episode \in Nat
        /\ active' = active \/ SameEpisode
    BY <1>0, <1>7, EpisodeStep
    DEF Account, CountInterrupted, RecoverCommitted, Plan, ClearActive
  <2>2. saved' = saved /\ pc' \notin {"remove", "clear"}
    BY <1>7 DEF Account, CountInterrupted, RecoverCommitted
  <2>3. \/ Counting
        \/ st' = st /\ AlreadyRecorded(st, active.episode)
        \/ st' = st /\ pc' \notin Ahead
    <3>1. st' = st \/ Counting
      BY <1>7, CountStep DEF Account, CountInterrupted, RecoverCommitted, Start
    <3>2. CASE Account
      <4>1. verdict.status \in Status /\ verdict.accepted \in BOOLEAN
        BY VerdictFields DEF TypeInv, TypeOK
      <4> QED
        BY <3>2, <4>1 DEF Account, Counting
    <3>3. CASE CountInterrupted
      <4>1. CASE AlreadyRecorded(st, active.episode)
        BY <3>3, <4>1 DEF CountInterrupted
      <4>2. CASE ~ AlreadyRecorded(st, active.episode)
        BY <3>3, <4>2 DEF CountInterrupted, Counting, Status
      <4> QED
        BY <4>1, <4>2
    <3>4. CASE RecoverCommitted
      <4>1. CASE ~ CanonicalMemory(active.version)
        BY <3>4, <4>1 DEF RecoverCommitted
      <4>2. CASE CanonicalMemory(active.version) /\ AlreadyRecorded(st, active.episode)
        BY <3>4, <4>2 DEF RecoverCommitted
      <4>3. CASE CanonicalMemory(active.version) /\ ~ AlreadyRecorded(st, active.episode)
        <5>1. /\ pc = "recover"
              /\ st' = Counted(st, active.episode, active.version,
                               IF RecoveredPromotion THEN "candidate_ready"
                               ELSE IF RecoveredOutcome THEN active.terminal
                               ELSE "interrupted", RecoveredPromotion)
          BY <3>4, <4>3 DEF RecoverCommitted
        <5>2. RecoveredOutcome => active.terminal \in Status
          BY <2>1, ActiveFields DEF RecoveredOutcome, TypeInv, TypeOK
        <5>3. RecoveredPromotion \in BOOLEAN
          BY DEF RecoveredPromotion
        <5> QED
          BY <5>1, <5>2, <5>3 DEF Counting, Status, ReportStatus
      <4> QED
        BY <4>1, <4>2, <4>3
    <3> QED
      BY <1>7, <3>2, <3>3, <3>4
  <2>4. CASE Counting
    <3>1. /\ CountedEpisodes(st)'
          /\ st'.episodes >= st.episodes /\ st'.episodes >= active.episode
      BY <1>0, <2>4, CountingCounts
    <3>2. st'.episodes \in Nat /\ active'.episode = active.episode
      BY <2>1 DEF SameEpisode, TypeInv, TypeOK, SupervisorState
    <3> QED
      BY <1>0, <2>1, <2>2, <3>1, <3>2 DEF CountersInv, CountedEpisodes
  <2>5. CASE st' = st /\ AlreadyRecorded(st, active.episode)
    <3>1. PICK i \in DOMAIN st.attempts : st.attempts[i].episode = active.episode
      BY <2>5 DEF AlreadyRecorded
    <3>2. st.episodes >= active.episode /\ active'.episode = active.episode
      BY <1>0, <2>1, <3>1 DEF CountedEpisodes, SameEpisode
    <3> QED
      BY <1>0, <2>2, <2>5, <3>2 DEF CountersInv, CountedEpisodes
  <2> QED
    BY <1>3, <2>2, <2>3, <2>4, <2>5
<1>8. CASE MarkPromoted \/ Persist \/ RemoveWorktree \/ DetachWorktree \/ SaveStall
          \/ SaveRecovered
  <2>1. /\ pc \in Ahead \ {"clear"} /\ st' = st /\ saved' \in {saved, st}
        /\ pc' \in {"remove", "clear"} => saved' = st \/ (pc = "remove" /\ saved' = saved)
    BY <1>8 DEF MarkPromoted, Persist, RemoveWorktree, DetachWorktree, SaveStall,
       SaveRecovered
  <2>2. active # None /\ active.episode \in Nat /\ (active' = active \/ SameEpisode)
    BY <1>0, <2>1, EpisodeStep DEF Plan, ClearActive
  <2>3. active'.episode = active.episode
    BY <2>2 DEF SameEpisode
  <2>4. st.episodes >= active.episode /\ (pc = "remove" => saved.episodes >= active.episode)
    BY <2>1 DEF CountersInv
  <2> QED
    BY <1>0, <2>1, <2>2, <2>3, <2>4 DEF CountersInv, CountedEpisodes
<1>9. CASE World
  <2>1. st' = st /\ saved' = saved /\ active' = active /\ pc' \in {pc, "down"}
    BY <1>9 DEF World, Crash, LoseAudit, RestoreAudit, AcknowledgeMissing, ForeignCommit
  <2> QED
    BY <2>1 DEF CountersInv, CountedEpisodes
<1> QED
  BY <1>1, <1>2, <1>4, <1>5, <1>6, <1>7, <1>8, <1>9 DEF Next, Recording, Recovery

\* No commit is of a later Episode than the checkpoint, or the saved state, says.
LEMMA EpisodeNumbersStep ==
    ASSUME CheckoutInv, HistoryInv', CountersInv, EpisodeNumbers, [Next]_vars
    PROVE  EpisodeNumbers'
<1> USE DEF Commits
<1>1. /\ TypeInv /\ HEAD \in Nat
      /\ \A i \in Commits : history[i].episode \in Nat
      /\ st.episodes \in Nat /\ saved.episodes \in Nat
      /\ active # None => active.episode \in Nat /\ active.base \in 1 .. HEAD
  <2>1. TypeInv
    BY DEF CheckoutInv, HistoryInv
  <2>2. HEAD \in Nat /\ st.episodes \in Nat /\ saved.episodes \in Nat
    BY <2>1 DEF TypeInv, TypeOK, HEAD, SupervisorState
  <2>3. \A i \in Commits : history[i].episode \in Episode \cup {0}
    BY <2>1, CommitFields
  <2>4. \A i \in Commits : history[i].episode \in Nat
    BY <2>3 DEF Episode
  <2> QED
    BY <2>1, <2>2, <2>4, ActiveEpisode
<1>2. CASE Plan
  <2>1. history' = history /\ HEAD' = HEAD
    BY <1>2 DEF Plan, git, HEAD
  <2>2. \A i \in Commits : history[i].episode < st.episodes + 1
    BY <1>1, <1>2, PlanIsNew DEF EpisodeNumbers, CountersInv
  <2>3. active' # None /\ active'.base = HEAD /\ active'.episode = st.episodes + 1
    BY <1>2, PlanIsNew
  <2> QED
    BY <1>1, <2>1, <2>2, <2>3 DEF EpisodeNumbers
<1>3. CASE ClearActive
  <2>1. /\ history' = history /\ HEAD' = HEAD /\ saved' = saved /\ active' = None
        /\ pc = "clear" /\ active # None
    BY <1>1, <1>3 DEF ClearActive, git, HEAD, TypeInv, UnderWay
  <2> QED
    BY <1>1, <2>1 DEF EpisodeNumbers, CountersInv
<1>4. CASE history' = history /\ (active' = active \/ SameEpisode)
  <2>1. HEAD' = HEAD
    BY <1>4 DEF HEAD
  <2>2. CASE active = None
    <3>1. active' = None
      BY <1>4, <2>2 DEF SameEpisode
    <3>2. saved' = saved \/ saved' = st
      BY <1>1, CountStep DEF Start, durable
    <3> QED
      BY <1>1, <1>4, <2>1, <2>2, <3>1, <3>2 DEF EpisodeNumbers, CountersInv
  <2>3. CASE active # None
    <3>1. /\ active' # None /\ active'.episode = active.episode
          /\ active'.base = active.base
      BY <1>4, <2>3 DEF SameEpisode
    <3> QED
      BY <1>4, <2>1, <2>3, <3>1 DEF EpisodeNumbers
  <2> QED
    BY <2>2, <2>3
<1>5. CASE CommitPromotion \/ CommitOutcome \/ ForeignCommit
  <2>1. active # None /\ active' = active
    BY <1>1, <1>5 DEF CommitPromotion, CommitOutcome, ForeignCommit, TypeInv, UnderWay
  <2>2. /\ HEAD' = HEAD + 1
        /\ \A i \in 1 .. HEAD : history'[i] = history[i]
        /\ history'[HEAD + 1].episode \in {active.episode, 0}
    BY <1>5, CommitAppends DEF CheckoutInv
  <2> QED
    BY <1>1, <2>1, <2>2 DEF EpisodeNumbers
<1> QED
  BY <1>1, <1>2, <1>3, <1>4, <1>5, EpisodeStep, CommitStep DEF CheckoutInv,
     CommitPromotion, CommitOutcome, ForeignCommit

-----------------------------------------------------------------------------
(* The audit of a promotion *)

\* From its audit to its commit a promotion binds the evidence that is on disk.
AuditWritten ==
    pc # "audit" /\ Promoting => audits[active.episode] = PromotionEvidence

\* A promotion that was just committed verifies.
AuditFresh == pc = "account" /\ verdict.accepted => AuditVerified

\* What keeps the audits and the Episode numbers right, together.
AccountInv ==
    /\ CheckoutInv /\ CountersInv /\ EpisodeNumbers
    /\ AuditWritten /\ AuditFresh /\ AuditBeforePromotion

\* What every proof about the accounting starts from.
LEMMA AccountFacts ==
    ASSUME AccountInv
    PROVE  /\ CheckoutInv /\ HistoryInv /\ TypeInv /\ Over /\ HEAD \in Nat
           /\ history \in Seq(Commit)
           /\ pc \notin {"down", "choose", "stopped"} => active # None
           /\ active # None =>
                /\ active.base \in Nat \ {0} /\ active.base \in 1 .. HEAD
                /\ active.episode \in Episode /\ active.version \in Nat
<1>1. CheckoutInv /\ HistoryInv /\ TypeInv /\ Over
  BY DEF AccountInv, CheckoutInv, HistoryInv
<1>2. history \in Seq(Commit) /\ HEAD \in Nat
  BY <1>1 DEF TypeInv, TypeOK, HEAD
<1>3. pc \notin {"down", "choose", "stopped"} => active # None
  BY <1>1 DEF TypeInv, UnderWay
<1>4. active # None =>
        /\ active.base \in 1 .. HEAD
        /\ active.episode \in Episode /\ active.version \in Nat
  BY <1>1, ActiveEpisode
<1> QED
  BY <1>1, <1>2, <1>3, <1>4

\* The audits change where promote_candidate writes one, where the world loses one
\* and where an operator restores one.
LEMMA AuditStep ==
    ASSUME [Next]_vars
    PROVE  \/ audits' = audits /\ losses' = losses
           \/ WriteAudit
           \/ \E e \in Episode : LoseAudit(e)
           \/ RestoreAudit
<1> USE DEF durable, spent
<1>1. CASE UNCHANGED vars \/ Start
  BY <1>1 DEF vars, Start
<1>2. CASE Exploration
  BY <1>2 DEF Exploration, StopAtBudget, Plan, Materialize, BeginExploring,
     SealCandidate, SubmitPlain, SaveReport, PublishReport, ResubmitReport,
     EndSession, Assess, Capture
<1>3. CASE Recording
  BY <1>3 DEF Recording, BaseMoved, Raise, Squash, Screen, WriteRecord, AddRecord,
     CommitPromotion, CommitOutcome, PromotionFails, Account, MarkPromoted, Persist,
     RemoveWorktree, ClearActive
<1>4. CASE Recovery
  BY <1>4 DEF Recovery, RecoverHandoff, ResumeExploring, RecordInterrupted,
     CountInterrupted, PauseForAudit, RecoverCommitted, DetachWorktree, SaveStall,
     SaveRecovered
<1>5. CASE World
  BY <1>5 DEF World, Crash, AcknowledgeMissing, ForeignCommit
<1> QED
  BY <1>1, <1>2, <1>3, <1>4, <1>5 DEF Next

\* What promote_candidate wrote is what it commits.
LEMMA AuditWrittenStep ==
    ASSUME AccountInv, CheckoutInv', [Next]_vars
    PROVE  (AuditWritten /\ AuditFresh)'
<1> USE DEF durable
<1>0. /\ TypeInv /\ AuditWritten /\ AuditFresh
      /\ pc \notin {"down", "choose", "stopped"} => active # None /\ active.episode \in Episode
  BY ActiveEpisode DEF AccountInv, CheckoutInv, HistoryInv, TypeInv, UnderWay
<1>1. ASSUME pc' \notin {"squash", "screen", "write", "add", "commit", "account"}
      PROVE  (AuditWritten /\ AuditFresh)'
  BY <1>1 DEF AuditWritten, AuditFresh, Promoting
<1>2. CASE UNCHANGED vars
  BY <1>0, <1>2 DEF vars, AuditWritten, AuditFresh, Promoting, PromotionEvidence,
     AuditVerified, Tip, HEAD
<1>3. CASE Start \/ Exploration
  BY <1>1, <1>3 DEF Start, Exploration, StopAtBudget, Plan, Materialize, BeginExploring,
     SealCandidate, SubmitPlain, SaveReport, PublishReport, ResubmitReport, EndSession,
     Assess, Capture
<1>4. CASE WriteAudit
  <2>1. /\ audits' = [audits EXCEPT ![active.episode] = PromotionEvidence]
        /\ audits \in [Episode -> Evidence \cup {None}] /\ active.episode \in Episode
        /\ pc' = "squash" /\ active' = active /\ verdict' = verdict
    BY <1>0, <1>4 DEF WriteAudit, TypeInv, TypeOK
  <2>2. audits'[active.episode] = PromotionEvidence
    BY <2>1
  <2>3. PromotionEvidence' = PromotionEvidence
    BY <2>1 DEF PromotionEvidence
  <2> QED
    BY <2>1, <2>2, <2>3 DEF AuditWritten, AuditFresh
<1>5. CASE Squash \/ Screen \/ WriteRecord \/ AddRecord
  <2>1. audits' = audits /\ active' = active /\ verdict' = verdict /\ pc' # "account"
    BY <1>5 DEF Squash, Screen, WriteRecord, AddRecord
  <2>2. PromotionEvidence' = PromotionEvidence
    BY <2>1 DEF PromotionEvidence
  <2>3. pc = "outcome" => ~ verdict.accepted
    BY <1>0 DEF TypeInv, Staging
  <2>4. pc' # "audit" /\ Promoting' => pc # "audit" /\ Promoting
    BY <1>5, <2>1, <2>3 DEF Promoting, Squash, Screen, WriteRecord, AddRecord
  <2> QED
    BY <1>0, <2>1, <2>2, <2>4 DEF AuditWritten, AuditFresh
<1>6. CASE CommitPromotion
  <2>1. /\ pc = "commit" /\ pc' = "account" /\ verdict.accepted
        /\ active' = active /\ audits' = audits
    BY <1>6 DEF CommitPromotion
  <2>2. audits[active.episode] = PromotionEvidence
    BY <1>0, <2>1 DEF AuditWritten, Promoting
  <2>3. Tip'.audit = PromotionEvidence
    BY <1>6, CommitAppends DEF AccountInv, CheckoutInv
  <2>4. /\ PromotionEvidence.episode = active.episode
        /\ PromotionEvidence.version = active.version
        /\ PromotionEvidence.base = active.base
    BY DEF PromotionEvidence
  <2>5. AuditVerified'
    BY <2>1, <2>2, <2>3, <2>4 DEF AuditVerified
  <2> QED
    BY <2>1, <2>5 DEF AuditWritten, AuditFresh, Promoting
<1>7. CASE CommitOutcome
  BY <1>7 DEF CommitOutcome, AuditWritten, AuditFresh, Promoting
<1>8. CASE BaseMoved \/ PromotionFails \/ Account \/ MarkPromoted \/ Persist
          \/ RemoveWorktree \/ ClearActive
  BY <1>1, <1>8 DEF BaseMoved, Raise, PromotionFails, Account, MarkPromoted, Persist,
     RemoveWorktree, ClearActive
<1>9. CASE Recovery
  BY <1>1, <1>9 DEF Recovery, RecoverHandoff, ResumeExploring, RecordInterrupted,
     CountInterrupted, PauseForAudit, RecoverCommitted, DetachWorktree, SaveStall,
     SaveRecovered
<1>10. CASE World
  BY <1>1, <1>10 DEF World, Crash, LoseAudit, RestoreAudit, AcknowledgeMissing,
     ForeignCommit
<1> QED
  BY <1>2, <1>3, <1>4, <1>5, <1>6, <1>7, <1>8, <1>9, <1>10 DEF Next, Recording

\* No write, no commit and no restored audit separates a promotion from its audit.
LEMMA AuditBeforePromotionStep ==
    ASSUME AccountInv, CheckoutInv', [Next]_vars
    PROVE  AuditBeforePromotion'
<1> USE DEF Commits
<1>1. TypeInv /\ HistoryInv /\ HistoryInv'
  BY DEF AccountInv, CheckoutInv, HistoryInv
<1>2. /\ HEAD \in Nat /\ audits \in [Episode -> Evidence \cup {None}] /\ losses \in Nat
      /\ active # None => /\ active.episode \in Episode /\ active.episode \in Nat
                          /\ active.base \in 1 .. HEAD
      /\ \A i \in Commits : history[i].episode \in Nat
  <2>1. \A i \in Commits : history[i].episode \in Episode \cup {0}
    BY <1>1, CommitFields
  <2> QED
    BY <1>1, <2>1, ActiveEpisode DEF TypeInv, TypeOK, HEAD, Episode
<1>3. SUFFICES ASSUME losses' = 0, NEW i \in 1 .. HEAD', history'[i].kind = "promotion"
               PROVE  audits'[history'[i].episode] = history'[i].audit
  BY DEF AuditBeforePromotion
<1>4. losses = 0 /\ ~ \E e \in Episode : LoseAudit(e)
  BY <1>2, <1>3, AuditStep DEF LoseAudit, WriteAudit, RestoreAudit, spent
<1>5. \A j \in 1 .. HEAD :
          history[j].kind = "promotion" => audits[history[j].episode] = history[j].audit
  BY <1>4 DEF AccountInv, AuditBeforePromotion
<1>6. CASE WriteAudit
  <2>1. /\ history' = history /\ HEAD' = HEAD /\ HEAD = active.base /\ active # None
        /\ audits' = [audits EXCEPT ![active.episode] = PromotionEvidence]
    BY <1>1, <1>6 DEF WriteAudit, git, HEAD, TypeInv, UnderWay
  <2>2. history[i].episode # active.episode
    BY <1>2, <2>1 DEF AccountInv, EpisodeNumbers
  <2> QED
    BY <1>2, <1>3, <1>5, <2>1, <2>2
<1>7. CASE RestoreAudit
  <2>1. /\ history' = history /\ HEAD' = HEAD /\ active # None
        /\ Tip.episode = active.episode /\ HEAD = active.base + 1
        /\ audits' = [audits EXCEPT ![active.episode] = Tip.audit]
    BY <1>1, <1>7 DEF RestoreAudit, PromotionBinding, git, HEAD, TypeInv, UnderWay
  <2>2. CASE i = HEAD
    BY <1>2, <2>1, <2>2 DEF Tip
  <2>3. CASE i \in 1 .. active.base
    <3>1. history[i].episode # active.episode
      BY <1>2, <2>1, <2>3 DEF AccountInv, EpisodeNumbers
    <3> QED
      BY <1>2, <1>3, <1>5, <2>1, <3>1
  <2> QED
    BY <1>2, <2>1, <2>2, <2>3
<1>8. CASE audits' = audits /\ history' = history
  BY <1>3, <1>5, <1>8 DEF HEAD
<1>9. CASE CommitPromotion \/ CommitOutcome \/ ForeignCommit
  <2>1. /\ HEAD' = HEAD + 1
        /\ \A j \in 1 .. HEAD : history'[j] = history[j]
        /\ CommitPromotion => /\ history'[HEAD + 1].episode = active.episode
                              /\ history'[HEAD + 1].audit = PromotionEvidence
        /\ ~ CommitPromotion => history'[HEAD + 1].kind # "promotion"
    BY <1>1, <1>9, CommitAppends
  <2>2. audits' = audits
    BY <1>9 DEF CommitPromotion, CommitOutcome, ForeignCommit
  <2>3. CASE i \in 1 .. HEAD
    BY <1>3, <1>5, <2>1, <2>2, <2>3
  <2>4. CASE i = HEAD + 1
    <3>1. CommitPromotion
      BY <1>3, <2>1, <2>4
    <3>2. audits[active.episode] = PromotionEvidence
      BY <3>1 DEF CommitPromotion, AccountInv, AuditWritten, Promoting
    <3> QED
      BY <2>1, <2>2, <2>4, <3>1, <3>2
  <2> QED
    BY <1>2, <2>1, <2>3, <2>4
<1> QED
  BY <1>1, <1>4, <1>6, <1>7, <1>8, <1>9, AuditStep, CommitStep

\* The accounting of a fresh campaign is right, and every step keeps it right.
LEMMA AccountInvariant == Spec => []AccountInv
<1>1. Init => AccountInv
  <2> SUFFICES ASSUME Init
               PROVE  AccountInv
    OBVIOUS
  <2>1. CheckoutInv
    BY CheckoutInit
  <2>2. HEAD = 1 /\ history[1].episode = 0 /\ history[1].kind = "base"
    BY DEF Init, BaseCommit, HEAD
  <2>3. /\ st = FreshState /\ saved = FreshState /\ pc = "down" /\ active = None
    BY DEF Init
  <2>4. FreshState.episodes = 0 /\ FreshState.attempts = <<>>
    BY DEF FreshState
  <2>5. CountersInv
    BY <2>3, <2>4 DEF CountersInv, CountedEpisodes
  <2>6. EpisodeNumbers /\ AuditBeforePromotion
    BY <2>2, <2>3, <2>4 DEF EpisodeNumbers, AuditBeforePromotion, Commits
  <2> QED
    BY <2>1, <2>3, <2>5, <2>6 DEF AccountInv, AuditWritten, AuditFresh, Promoting
<1>2. AccountInv /\ [Next]_vars => AccountInv'
  <2> SUFFICES ASSUME AccountInv, [Next]_vars
               PROVE  AccountInv'
    OBVIOUS
  <2>1. CheckoutInv /\ CheckoutInv' /\ HistoryInv' /\ TypeInv /\ TypeInv'
    BY CheckoutInvStep DEF AccountInv, CheckoutInv, HistoryInv
  <2>2. CountersInv'
    BY <2>1, CountersStep DEF AccountInv
  <2>3. EpisodeNumbers'
    BY <2>1, EpisodeNumbersStep DEF AccountInv
  <2> QED
    BY <2>1, <2>2, <2>3, AuditWrittenStep, AuditBeforePromotionStep DEF AccountInv
<1> QED
  BY <1>1, <1>2, PTL DEF Spec

\* With nobody damaging files, every promotion commit's audit is on disk with the
\* bytes its trailer binds, through crashes, retries and recoveries.
THEOREM AuditsAreWritten == Spec => []AuditBeforePromotion
<1>1. AccountInv => AuditBeforePromotion
  BY DEF AccountInv
<1> QED
  BY <1>1, AccountInvariant, PTL

\* Counting an attempt that was not accepted does not raise the promotions.
LEMMA UnacceptedTally ==
    ASSUME NEW s \in SupervisorState, NEW episode, NEW version, NEW status
    PROVE  Counted(s, episode, version, status, FALSE).tally["accepted"] =
               s.tally["accepted"]
<1>1. OutcomeOf(status, FALSE) # "accepted"
  BY DEF OutcomeOf
<1>2. s.tally \in [Outcome -> Nat] /\ "accepted" \in Outcome
  BY DEF SupervisorState, Outcome
<1>3. Counted(s, episode, version, status, FALSE).tally =
          [s.tally EXCEPT ![OutcomeOf(status, FALSE)] = @ + 1]
  BY DEF Counted
<1> QED
  BY <1>1, <1>2, <1>3

\* A promotion enters the counters only while its audit verifies, or an operator
\* acknowledged its loss: in the ordinary run because the audit was just written, in
\* recovery because recover_promotion_audit was asked first.
THEOREM CountingNeedsAudit == Spec => CountedWithAudit
<1>1. AccountInv /\ [Next]_vars =>
        [st'.tally["accepted"] = st.tally["accepted"] + 1 /\ pc # "down" /\ pc # "paused"
            => AuditAccepted]_vars
  <2> SUFFICES ASSUME AccountInv, [Next]_vars, pc # "down", pc # "paused",
                      st'.tally["accepted"] = st.tally["accepted"] + 1
               PROVE  AuditAccepted
    OBVIOUS
  <2>1. TypeInv /\ st \in SupervisorState /\ st.tally["accepted"] \in Nat
    BY DEF AccountInv, CheckoutInv, HistoryInv, TypeInv, TypeOK, SupervisorState, Outcome
  <2>2. st'.tally["accepted"] # st.tally["accepted"]
    BY <2>1
  <2>3. Account \/ CountInterrupted \/ RecoverCommitted
    BY <2>2, CountingSteps DEF Start
  <2>4. CASE Account
    <3>1. verdict.accepted \in BOOLEAN
      BY <2>1, VerdictFields DEF TypeInv, TypeOK
    <3>2. verdict.accepted
      <4>1. SUFFICES ASSUME verdict.accepted = FALSE
                     PROVE  FALSE
        BY <3>1
      <4>2. st' = Counted(st, active.episode, active.version, verdict.status, FALSE)
        BY <2>4, <4>1 DEF Account
      <4> QED
        BY <2>1, <2>2, <4>2, UnacceptedTally
    <3> QED
      BY <2>4, <3>2 DEF Account, AccountInv, AuditFresh, AuditAccepted
  <2>5. CASE CountInterrupted
    BY <2>1, <2>2, <2>5, UnacceptedTally DEF CountInterrupted
  <2>6. CASE RecoverCommitted
    <3>1. RecoveredPromotion
      <4>1. SUFFICES ASSUME ~ RecoveredPromotion
                     PROVE  FALSE
        OBVIOUS
      <4>2. RecoveredPromotion = FALSE
        BY <4>1 DEF RecoveredPromotion
      <4>3. \/ st' = st
            \/ \E status : st' = Counted(st, active.episode, active.version, status, FALSE)
        <5> DEFINE terminal == IF RecoveredPromotion THEN "candidate_ready"
                               ELSE IF RecoveredOutcome THEN active.terminal
                               ELSE "interrupted"
        <5>1. \/ st' = st
              \/ st' = Counted(st, active.episode, active.version, terminal,
                               RecoveredPromotion)
          BY <2>6 DEF RecoverCommitted
        <5> HIDE DEF terminal
        <5> QED
          BY <4>2, <5>1
      <4>4. PICK status :
                st' = Counted(st, active.episode, active.version, status, FALSE)
        BY <2>2, <4>3
      <4> QED
        BY <2>1, <2>2, <4>4, UnacceptedTally
    <3> QED
      BY <2>6, <3>1 DEF RecoverCommitted, RecoveredPromotion, AuditSettled
  <2> QED
    BY <2>3, <2>4, <2>5, <2>6
<1> QED
  BY <1>1, AccountInvariant, PTL DEF Spec, CountedWithAudit

-----------------------------------------------------------------------------
(* The Episode loop implements the ledger *)

\* A state counts the first n Episodes, one for one and in order.
Numbered(s, n) ==
    Len(s.attempts) = n /\ s.episodes = n /\ \A i \in 1 .. n : s.attempts[i].episode = i

\* Two states count the same Episodes.
SameCount(s, t) == t.attempts = s.attempts /\ t.episodes = s.episodes

\* The Episode under way is not committed yet.
BeforeCommit == {"materialize", "prepared", "session", "assess", "capture", "audit",
                 "squash", "screen", "write", "outcome", "add", "commit"}

\* With nobody else committing, HEAD is the Episode's base until its commit and one
\* above it until the Episode is over, and state.json counts the Episodes below the
\* base, or this one too.
LedgerInv ==
    /\ active = None => Numbered(saved, HEAD - 1)
    /\ active # None =>
        /\ active.episode = active.base
        /\ HEAD \in {active.base, active.base + 1}
        /\ \/ Numbered(saved, active.base - 1)
           \/ Numbered(saved, active.base) /\ HEAD = active.base + 1
    /\ pc \in BeforeCommit => HEAD = active.base
    /\ pc \in Recorded => HEAD = active.base + 1
    /\ pc \in {"account", "interrupted"} => Numbered(saved, active.base - 1)
    /\ pc \in {"mark", "persist", "detach", "restall", "resave"} =>
            Numbered(st, active.base)
    /\ pc \in {"remove", "clear"} => Numbered(saved, active.base)
    /\ pc \in BeforeCommit \cup {"choose", "recover", "account", "interrupted", "remove",
                                 "clear"} => SameCount(saved, st)

\* Equal attempts count the same Episodes.
LEMMA SameNumbered ==
    ASSUME NEW s, NEW t, SameCount(s, t), NEW n
    PROVE  Numbered(t, n) <=> Numbered(s, n)
  BY DEF SameCount, Numbered

\* A state extended by Episode n counts the first n.
LEMMA ExtendsNumbered ==
    ASSUME NEW s, NEW t, NEW n \in Nat \ {0}, Numbered(s, n - 1), Extends(t, s, n)
    PROVE  Numbered(t, n)
<1>1. Len(s.attempts) = n - 1 /\ s.episodes = n - 1
  BY DEF Numbered
<1>2. Len(t.attempts) = n /\ t.episodes = n
  BY <1>1 DEF Extends, Later
<1>3. ASSUME NEW i \in 1 .. n
      PROVE  t.attempts[i].episode = i
  <2>1. CASE i \in 1 .. n - 1
    BY <1>1, <2>1 DEF Extends, Numbered
  <2>2. CASE i = n
    BY <1>1, <2>2 DEF Extends
  <2> QED
    BY <2>1, <2>2
<1> QED
  BY <1>2, <1>3 DEF Numbered

\* Counting the Episode after the n - 1 counted ones, unless it is counted already.
LEMMA CountedNumbered ==
    ASSUME TypeInv, active # None, active.episode = active.base,
           \/ Numbered(st, active.base - 1)
           \/ Numbered(st, active.base),
           NEW status \in Status, NEW accepted \in BOOLEAN,
           st' = IF AlreadyRecorded(st, active.episode) THEN st
                 ELSE Counted(st, active.episode, active.version, status, accepted)
    PROVE  Numbered(st', active.base)
<1>1. /\ active.base \in Nat \ {0} /\ active.episode \in Episode /\ active.version \in Nat
      /\ st \in SupervisorState /\ st.attempts \in Seq(Attempt)
  BY ActiveEpisode, SMTT(30) DEF TypeInv, TypeOK, HEAD, SupervisorState
<1>2. DOMAIN st.attempts = 1 .. Len(st.attempts)
  BY <1>1
<1>3. CASE Numbered(st, active.base - 1)
  <2>1. ~ AlreadyRecorded(st, active.episode)
    BY <1>1, <1>2, <1>3 DEF AlreadyRecorded, Numbered
  <2>2. Extends(st', st, active.episode)
    BY <1>1, <2>1, CountedExtends
  <2> QED
    BY <1>1, <1>3, <2>2, ExtendsNumbered
<1>4. CASE Numbered(st, active.base)
  <2>1. AlreadyRecorded(st, active.episode)
    <3>1. active.base \in DOMAIN st.attempts /\ st.attempts[active.base].episode = active.base
      BY <1>1, <1>2, <1>4 DEF Numbered
    <3> QED
      BY <3>1 DEF AlreadyRecorded
  <2> QED
    BY <1>4, <2>1
<1> QED
  BY <1>3, <1>4

\* A step that only moves the controller on, within the same Episode.
LEMMA LedgerCarried ==
    ASSUME LedgerInv, active # None, active' = active \/ SameEpisode, HEAD' = HEAD,
           SameCount(saved, saved'), st' = st,
           \/ pc' = "down" \/ pc' = "paused"
           \/ pc \in BeforeCommit \cup {"recover"} /\ HEAD = active.base
                /\ pc' \in BeforeCommit
           \/ pc \in {"mark", "persist", "detach", "restall", "resave"}
                /\ pc' \in {"persist", "restall", "resave"}
           \/ pc = "remove" /\ pc' = "clear"
    PROVE  LedgerInv'
<1>1. /\ active' # None /\ active'.episode = active.episode /\ active'.base = active.base
  BY DEF SameEpisode
<1>2. \A n : Numbered(saved', n) <=> Numbered(saved, n)
  BY SameNumbered
<1>3. pc \in BeforeCommit \cup {"recover", "remove"} => SameCount(saved', st')
  BY DEF SameCount, LedgerInv
<1> QED
  BY <1>1, <1>2, <1>3 DEF LedgerInv, BeforeCommit, Recorded

\* Every step keeps HEAD and the counters one Episode apart at most.
LEMMA LedgerStep ==
    ASSUME ~ ForeignCommit, AccountInv, AccountInv', LedgerInv, [Next]_vars
    PROVE  LedgerInv'
<1> USE DEF durable
<1>0. /\ TypeInv /\ HistoryInv /\ CheckoutInv /\ Over /\ HEAD \in Nat
      /\ pc \notin {"down", "choose", "stopped"} => active # None
      /\ active # None => active.base \in Nat \ {0} /\ active.episode \in Episode
                          /\ active.version \in Nat
  BY AccountFacts
<1>1. CASE UNCHANGED vars
  BY <1>1 DEF vars, LedgerInv, Numbered, SameCount, HEAD
<1>2. CASE Start
  <2>1. /\ pc' \in {"choose", "recover"} /\ saved' = saved /\ active' = active
        /\ history' = history /\ HEAD' = HEAD /\ SameCount(saved, st')
    BY <1>0, <1>2, LoadedCounters DEF Start, HEAD, SameCount
  <2> QED
    BY <2>1 DEF LedgerInv, BeforeCommit, Recorded
<1>3. CASE StopAtBudget
  <2>1. pc = "choose" /\ pc' = "stopped" /\ saved' = saved /\ active' = active
        /\ history' = history /\ HEAD' = HEAD /\ st' = st
    BY <1>3 DEF StopAtBudget, HEAD
  <2> QED
    BY <2>1 DEF LedgerInv, BeforeCommit, Recorded
<1>4. CASE Plan
  <2>1. /\ active = None /\ active' # None /\ active'.base = HEAD
        /\ active'.episode = st.episodes + 1
    BY <1>4, PlanIsNew DEF AccountInv
  <2>2. /\ pc = "choose" /\ pc' = "materialize" /\ saved' = saved /\ st' = st
        /\ history' = history /\ HEAD' = HEAD
    BY <1>4 DEF Plan, git, HEAD
  <2>3. Numbered(saved, HEAD - 1) /\ SameCount(saved, st)
    BY <2>1, <2>2 DEF LedgerInv
  <2>4. st.episodes + 1 = HEAD
    BY <1>0, <2>3 DEF Numbered, SameCount
  <2> QED
    BY <2>1, <2>2, <2>3, <2>4 DEF LedgerInv, BeforeCommit, Recorded
<1>5. CASE Materialize \/ BeginExploring \/ (\E k \in Kernel : SealCandidate(k))
          \/ (\E status \in {"pivot", "blocked"} : SubmitPlain(status))
          \/ SaveReport \/ PublishReport \/ ResubmitReport \/ EndSession \/ Assess
          \/ Capture \/ BaseMoved \/ WriteAudit \/ Squash \/ Screen \/ WriteRecord
          \/ AddRecord \/ PromotionFails
  <2>1. /\ pc \in BeforeCommit /\ pc' \in BeforeCommit \cup {"down"}
        /\ st' = st /\ (saved' = saved \/ saved' = st) /\ pc # "choose" /\ pc # "clear"
    BY <1>5 DEF Materialize, BeginExploring, SealCandidate, SubmitPlain, SaveReport,
       PublishReport, ResubmitReport, EndSession, Assess, Capture, BaseMoved, Raise,
       WriteAudit, Squash, Screen, WriteRecord, AddRecord, PromotionFails, BeforeCommit
  <2>2. active # None /\ (active' = active \/ SameEpisode)
    BY <1>0, <2>1, EpisodeStep DEF Plan, ClearActive, BeforeCommit
  <2>3. HEAD = active.base /\ SameCount(saved, st)
    BY <2>1 DEF LedgerInv
  <2>4. SameCount(saved, saved')
    BY <2>1, <2>3 DEF SameCount
  <2>5. HEAD' = HEAD
    <3>1. pc' # "account" /\ pc' # "interrupted"
      BY <2>1 DEF BeforeCommit
    <3> QED
      BY <1>0, <3>1, CommitStep DEF CommitPromotion, CommitOutcome, HEAD
  <2> QED
    BY <2>1, <2>2, <2>3, <2>4, <2>5, LedgerCarried
<1>6. CASE CommitPromotion \/ CommitOutcome
  <2>1. /\ pc = "commit" /\ pc' \in {"account", "interrupted"} /\ active # None
        /\ active' = active /\ saved' = saved /\ st' = st
    BY <1>0, <1>6 DEF CommitPromotion, CommitOutcome
  <2>2. HEAD' = HEAD + 1
    BY <1>0, <1>6, CommitAppends DEF AccountInv, CheckoutInv
  <2> QED
    BY <1>0, <2>1, <2>2 DEF LedgerInv, BeforeCommit, Recorded
<1>7. CASE Account \/ CountInterrupted \/ RecoverCommitted
  <2>1. /\ active # None /\ (active' = active \/ SameEpisode)
        /\ saved' = saved /\ HEAD' = HEAD
    BY <1>0, <1>7, EpisodeStep
    DEF Account, CountInterrupted, RecoverCommitted, Plan, ClearActive, git, HEAD
  <2>2. /\ active.episode = active.base /\ HEAD = active.base + 1
        /\ active' # None /\ active'.episode = active.episode /\ active'.base = active.base
        /\ Numbered(saved, active.base - 1) \/ Numbered(saved, active.base)
        /\ SameCount(saved, st)
    BY <1>7, <2>1
    DEF LedgerInv, SameEpisode, Account, CountInterrupted, RecoverCommitted, Recorded
  <2>3. Numbered(st, active.base - 1) \/ Numbered(st, active.base)
    BY <2>2, SameNumbered
  <2>4. pc' = "down" \/ Numbered(st', active.base)
    <3>1. CASE Account
      <4>1. Numbered(st, active.base - 1)
        BY <2>2, <3>1, SameNumbered DEF Account, LedgerInv
      <4>2. verdict.status \in Status /\ verdict.accepted \in BOOLEAN /\ st \in SupervisorState
        BY <1>0, VerdictFields DEF TypeInv, TypeOK
      <4>3. st' = Counted(st, active.episode, active.version, verdict.status,
                          verdict.accepted)
        BY <3>1 DEF Account
      <4>4. Extends(st', st, active.episode)
        BY <1>0, <2>1, <4>2, <4>3, CountedExtends
      <4> QED
        BY <1>0, <2>1, <2>2, <4>1, <4>4, ExtendsNumbered
    <3>2. CASE CountInterrupted
      <4>1. st' = IF AlreadyRecorded(st, active.episode) THEN st
                  ELSE Counted(st, active.episode, active.version, "interrupted", FALSE)
        BY <3>2 DEF CountInterrupted
      <4>2. "interrupted" \in Status
        BY DEF Status
      <4> QED
        BY <1>0, <2>1, <2>2, <2>3, <4>1, <4>2, CountedNumbered
    <3>3. CASE RecoverCommitted /\ CanonicalMemory(active.version)
      <4> DEFINE terminal == IF RecoveredPromotion THEN "candidate_ready"
                             ELSE IF RecoveredOutcome THEN active.terminal
                             ELSE "interrupted"
      <4>1. st' = IF AlreadyRecorded(st, active.episode) THEN st
                  ELSE Counted(st, active.episode, active.version, terminal,
                               RecoveredPromotion)
        BY <3>3 DEF RecoverCommitted
      <4>2. terminal \in Status
        <5>1. active \in Active
          BY <1>0, <2>1 DEF TypeInv, TypeOK
        <5>2. RecoveredOutcome => active.terminal \in Status
          BY <5>1, ActiveFields DEF RecoveredOutcome
        <5> QED
          BY <5>2 DEF Status, ReportStatus
      <4>3. RecoveredPromotion \in BOOLEAN
        BY DEF RecoveredPromotion
      <4> HIDE DEF terminal
      <4> QED
        BY <1>0, <2>1, <2>2, <2>3, <4>1, <4>2, <4>3, CountedNumbered
    <3>4. CASE RecoverCommitted /\ ~ CanonicalMemory(active.version)
      BY <3>4 DEF RecoverCommitted
    <3> QED
      BY <1>7, <3>1, <3>2, <3>3, <3>4
  <2>5. pc' \in {"mark", "persist", "detach", "down"}
    BY <1>7 DEF Account, CountInterrupted, RecoverCommitted
  <2> QED
    BY <1>0, <2>1, <2>2, <2>4, <2>5 DEF LedgerInv, BeforeCommit, Recorded
<1>8. CASE Persist \/ SaveRecovered
  <2>1. /\ pc \in {"persist", "resave"} /\ active # None /\ active' = active
        /\ HEAD' = HEAD /\ st' = st
        /\ \/ saved' = st /\ pc' \in {"remove", "clear"}
           \/ saved' = saved /\ pc' = "down"
    BY <1>0, <1>8 DEF Persist, SaveRecovered, git, HEAD
  <2>2. Numbered(st, active.base) /\ HEAD = active.base + 1
    BY <2>1 DEF LedgerInv, Recorded
  <2> QED
    BY <2>1, <2>2 DEF LedgerInv, BeforeCommit, Recorded, SameCount
<1>9. CASE MarkPromoted \/ RemoveWorktree \/ DetachWorktree \/ SaveStall
  <2>1. /\ st' = st /\ saved' = saved /\ HEAD' = HEAD
        /\ pc \notin {"down", "choose", "stopped", "clear"}
        /\ \/ pc \in {"mark", "persist", "detach", "restall", "resave"}
                /\ pc' \in {"persist", "restall", "resave"}
           \/ pc = "remove" /\ pc' = "clear"
    BY <1>9 DEF MarkPromoted, RemoveWorktree, DetachWorktree, SaveStall, git, HEAD
  <2>2. /\ active # None /\ (active' = active \/ SameEpisode) /\ SameCount(saved, saved')
    BY <1>0, <2>1, EpisodeStep DEF Plan, ClearActive, SameCount
  <2> QED
    BY <2>1, <2>2, LedgerCarried
<1>10. CASE ClearActive
  <2>1. /\ pc = "clear" /\ active # None /\ active' = None /\ pc' \in {"stopped", "choose"}
        /\ HEAD' = HEAD /\ st' = st /\ saved' = saved
    BY <1>0, <1>10 DEF ClearActive, git, HEAD
  <2>2. Numbered(saved, HEAD - 1) /\ SameCount(saved, st)
    <3>1. Numbered(saved, active.base) /\ HEAD = active.base + 1 /\ SameCount(saved, st)
      BY <2>1 DEF LedgerInv, Recorded
    <3>2. HEAD - 1 = active.base
      BY <1>0, <2>1, <3>1
    <3> QED
      BY <3>1, <3>2
  <2> QED
    BY <2>1, <2>2 DEF LedgerInv, BeforeCommit, Recorded
<1>11. CASE RecoverHandoff \/ ResumeExploring \/ RecordInterrupted \/ PauseForAudit
  <2>1. /\ pc = "recover" /\ st' = st /\ saved' = saved /\ active # None
        /\ \/ pc' \in {"assess", "session", "outcome"} /\ HEAD = active.base
           \/ pc' = "paused"
    BY <1>0, <1>11
    DEF RecoverHandoff, ResumeExploring, RecordInterrupted, PauseForAudit, Resumable
  <2>2. active' = active \/ SameEpisode
    BY <1>0, <2>1, EpisodeStep DEF Plan, ClearActive
  <2>3. HEAD' = HEAD
    BY <1>0, <2>1, CommitStep DEF CommitPromotion, CommitOutcome, HEAD
  <2>4. SameCount(saved, saved') /\ (pc' = "paused" \/ pc' \in BeforeCommit)
    BY <2>1 DEF SameCount, BeforeCommit
  <2> QED
    BY <2>1, <2>2, <2>3, <2>4, LedgerCarried
<1>12. CASE World
  <2>1. /\ st' = st /\ saved' = saved /\ active' = active /\ HEAD' = HEAD
        /\ pc' \in {pc, "down"}
    BY <1>0, <1>12
    DEF World, Crash, LoseAudit, RestoreAudit, AcknowledgeMissing, git, HEAD
  <2> QED
    BY <2>1 DEF LedgerInv, BeforeCommit, Recorded
<1> QED
  BY <1>1, <1>2, <1>3, <1>4, <1>5, <1>6, <1>7, <1>8, <1>9, <1>10, <1>11, <1>12
  DEF Next, Exploration, Recording, Recovery

\* Only the end of a Session and the two saves of an accounting write state.json.
LEMMA SavedStep ==
    ASSUME [Next]_vars
    PROVE  saved' = saved \/ EndSession \/ Persist \/ SaveRecovered
<1> USE DEF durable
<1>1. CASE UNCHANGED vars \/ Start
  BY <1>1 DEF vars, Start
<1>2. CASE Exploration
  BY <1>2 DEF Exploration, StopAtBudget, Plan, Materialize, BeginExploring,
     SealCandidate, SubmitPlain, SaveReport, PublishReport, ResubmitReport, Assess,
     Capture
<1>3. CASE Recording
  BY <1>3 DEF Recording, BaseMoved, Raise, WriteAudit, Squash, Screen, WriteRecord,
     AddRecord, CommitPromotion, CommitOutcome, PromotionFails, Account, MarkPromoted,
     RemoveWorktree, ClearActive
<1>4. CASE Recovery
  BY <1>4 DEF Recovery, RecoverHandoff, ResumeExploring, RecordInterrupted,
     CountInterrupted, PauseForAudit, RecoverCommitted, DetachWorktree, SaveStall
<1>5. CASE World
  BY <1>5 DEF World, Crash, LoseAudit, RestoreAudit, AcknowledgeMissing, ForeignCommit
<1> QED
  BY <1>1, <1>2, <1>3, <1>4, <1>5 DEF Next

\* The ledger's entry of one commit, and the ledger's log.
EntryOf(c) == [kernel |-> c.kernel, promoted |-> c.kind = "promotion"]
Log(h) == [i \in 1 .. Len(h) |-> EntryOf(h[i])]

\* One more commit is one more entry.
LEMMA LogAppends ==
    ASSUME NEW h \in Seq(Commit), NEW c \in Commit, NEW g, g = Append(h, c)
    PROVE  Log(g) = Append(Log(h), EntryOf(c))
<1> DEFINE S == {EntryOf(d) : d \in Commit}
           s == Log(h)
           t == Append(s, EntryOf(c))
<1>1. /\ g \in Seq(Commit) /\ Len(g) = Len(h) + 1 /\ g[Len(h) + 1] = c
      /\ \A i \in 1 .. Len(h) : g[i] = h[i]
      /\ Len(h) \in Nat
  BY AppendProperties
<1>2. ASSUME NEW k \in Seq(Commit)
      PROVE  /\ Log(k) \in Seq(S) /\ Len(Log(k)) = Len(k)
             /\ \A i \in 1 .. Len(k) : Log(k)[i] = EntryOf(k[i])
  <2>1. Len(k) \in Nat /\ \A i \in 1 .. Len(k) : k[i] \in Commit
    OBVIOUS
  <2>2. \A i \in 1 .. Len(k) : EntryOf(k[i]) \in S
    BY <2>1
  <2> HIDE DEF S
  <2> QED
    BY <2>1, <2>2 DEF Log
<1>3. EntryOf(c) \in S
  OBVIOUS
<1> HIDE DEF S
<1>4. /\ s \in Seq(S) /\ Len(s) = Len(h) /\ Log(g) \in Seq(S) /\ Len(Log(g)) = Len(h) + 1
      /\ \A i \in 1 .. Len(h) : s[i] = EntryOf(h[i])
      /\ \A i \in 1 .. Len(h) + 1 : Log(g)[i] = EntryOf(g[i])
  BY <1>1, <1>2
<1> HIDE DEF s
<1>5. /\ t \in Seq(S) /\ Len(t) = Len(h) + 1 /\ t[Len(h) + 1] = EntryOf(c)
      /\ \A i \in 1 .. Len(h) : t[i] = s[i]
  BY <1>3, <1>4, AppendProperties
<1> HIDE DEF t
<1>6. \A i \in 1 .. Len(h) + 1 : t[i] = Log(g)[i]
  <2>1. ASSUME NEW i \in 1 .. Len(h) + 1
        PROVE  t[i] = Log(g)[i]
    <3>1. CASE i \in 1 .. Len(h)
      BY <1>1, <1>4, <1>5, <3>1
    <3>2. CASE i = Len(h) + 1
      BY <1>1, <1>4, <1>5, <3>2
    <3> QED
      BY <1>1, <3>1, <3>2
  <2> QED
    BY <2>1
<1>7. t = Log(g)
  BY <1>4, <1>5, <1>6, SeqEqual
<1> QED
  BY <1>7 DEF s, t

\* The refinement mapping.
LEMMA LedgerLog ==
    [i \in Commits |-> [kernel |-> history[i].kernel,
                        promoted |-> history[i].kind = "promotion"]] = Log(history)
  BY DEF Commits, HEAD, Log, EntryOf

\* Every commit of the campaign is a promotion or a refusal of the ledger, written
\* while everything before it is counted, every accounting that reaches state.json
\* counts it, and every other step stutters.
LEMMA LedgerNext ==
    ASSUME ~ ForeignCommit, AccountInv, AccountInv', LedgerInv, [Next]_vars
    PROVE  [Ledger!Next]_(Ledger!ledger)
<1> DEFINE log == Log(history)
           counted == Len(saved.attempts) + 1
<1>0. /\ TypeInv /\ TypeInv' /\ HistoryInv /\ HEAD \in Nat
      /\ history \in Seq(Commit) /\ history' \in Seq(Commit)
      /\ active # None => /\ active.base \in Nat \ {0} /\ active.episode \in Episode
  <2>1. TypeInv' /\ history' \in Seq(Commit)
    BY DEF AccountInv, CheckoutInv, HistoryInv, TypeInv, TypeOK
  <2> QED
    BY <2>1, AccountFacts
<1>1. /\ [i \in Commits |-> [kernel |-> history[i].kernel,
                             promoted |-> history[i].kind = "promotion"]] = log
      /\ [i \in Commits |-> [kernel |-> history[i].kernel,
                             promoted |-> history[i].kind = "promotion"]]' = log'
  BY LedgerLog DEF Commits, HEAD, Log, EntryOf
<1>2. /\ Len(log) = HEAD /\ log[HEAD].kernel = Tip.kernel
  <2>1. HEAD \in 1 .. HEAD /\ HEAD = Len(history)
    BY <1>0, TipFields DEF HEAD
  <2> QED
    BY <2>1 DEF Log, EntryOf, Tip
<1>3. CASE history' = history
  <2>1. log' = log /\ HEAD' = HEAD
    BY <1>3 DEF HEAD, Log
  <2>2. CASE counted' = counted
    BY <1>1, <2>1, <2>2 DEF Ledger!ledger
  <2>3. CASE counted' # counted
    <3>1. EndSession \/ Persist \/ SaveRecovered
      BY <2>3, SavedStep
    <3>2. ~ EndSession
      <4>1. SUFFICES ASSUME EndSession
                     PROVE  saved'.attempts = saved.attempts
        BY <2>3
      <4> QED
        BY <4>1 DEF EndSession, LedgerInv, BeforeCommit, SameCount
    <3>3. /\ pc \in {"persist", "resave"} /\ active # None /\ saved' = st
      BY <1>0, <2>3, <3>1, <3>2 DEF Persist, SaveRecovered, TypeInv, UnderWay
    <3>4. /\ Numbered(st, active.base) /\ HEAD = active.base + 1
          /\ Numbered(saved, active.base - 1) \/ Numbered(saved, active.base)
      BY <3>3 DEF LedgerInv, Recorded
    <3>5. counted' = HEAD
      BY <3>3, <3>4 DEF Numbered
    <3>6. counted # HEAD
      BY <2>3, <3>5
    <3>7. Ledger!Count
      BY <1>1, <1>2, <2>1, <3>5, <3>6 DEF Ledger!Count, Ledger!Settled
    <3> QED
      BY <3>7 DEF Ledger!Next
  <2> QED
    BY <2>2, <2>3
<1>4. CASE CommitPromotion \/ CommitOutcome
  <2>1. pc = "commit" /\ active # None /\ saved' = saved
    BY <1>0, <1>4 DEF CommitPromotion, CommitOutcome, TypeInv, UnderWay
  <2>2. HEAD = active.base /\ active.episode = active.base /\ Numbered(saved, active.base - 1)
    BY <1>0, <2>1 DEF LedgerInv, BeforeCommit
  <2>3. /\ counted = HEAD /\ counted' = counted /\ HEAD <= MaxEpisodes
    BY <1>0, <2>1, <2>2 DEF Numbered, Episode
  <2>4. PICK c \in Commit : GoodCommit(c) /\ history' = Append(history, c)
    <3>1. history' # history
      BY <1>0, <1>4, CommitAppends DEF AccountInv, CheckoutInv, HEAD
    <3> QED
      BY <1>0, <3>1, HistoryStep
  <2>5. log' = Append(log, EntryOf(c))
    BY <1>0, <2>4, LogAppends
  <2>6. c.kernel \in Kernel
    BY DEF Commit
  <2>7. CASE c.kind = "promotion"
    <3>1. /\ EntryOf(c) = [kernel |-> c.kernel, promoted |-> TRUE]
          /\ c.kernel \in Clean /\ Latency[c.kernel] < Latency[Tip.kernel]
      BY <2>4, <2>7 DEF EntryOf, GoodCommit
    <3>2. Ledger!Promote(c.kernel)
      BY <1>1, <1>2, <2>3, <2>5, <3>1
      DEF Ledger!Promote, Ledger!Write, Ledger!Settled, Ledger!Incumbent
    <3> QED
      BY <2>6, <3>2 DEF Ledger!Next
  <2>8. CASE c.kind # "promotion"
    <3>1. EntryOf(c) = [kernel |-> Tip.kernel, promoted |-> FALSE]
      BY <2>4, <2>8 DEF EntryOf, GoodCommit
    <3>2. Ledger!Decline
      BY <1>1, <1>2, <2>3, <2>5, <3>1
      DEF Ledger!Decline, Ledger!Write, Ledger!Settled, Ledger!Incumbent
    <3> QED
      BY <3>2 DEF Ledger!Next
  <2> QED
    BY <2>7, <2>8
<1> QED
  BY <1>0, <1>3, <1>4, CommitStep

\* A fresh campaign is a fresh ledger.
LEMMA LedgerInit == Init => Ledger!Init /\ LedgerInv
<1> SUFFICES ASSUME Init
             PROVE  Ledger!Init /\ LedgerInv
  OBVIOUS
<1>1. /\ history = <<BaseCommit>> /\ HEAD = 1 /\ active = None /\ pc = "down"
      /\ saved = FreshState
  BY DEF Init, HEAD
<1>2. FreshState.attempts = <<>> /\ FreshState.episodes = 0 /\ Len(<<>>) = 0
  BY DEF FreshState
<1>3. Ledger!Init
  <2>1. EntryOf(BaseCommit) = [kernel |-> BaseKernel, promoted |-> FALSE]
    BY DEF EntryOf, BaseCommit
  <2>2. Log(history) = <<[kernel |-> BaseKernel, promoted |-> FALSE]>>
    <3> DEFINE e == [kernel |-> BaseKernel, promoted |-> FALSE]
    <3>1. Len(history) = 1 /\ history[1] = BaseCommit
      BY <1>1
    <3>2. Log(history) = [i \in 1 .. 1 |-> e]
      BY <2>1, <3>1 DEF Log
    <3> HIDE DEF e
    <3>3. /\ [i \in 1 .. 1 |-> e] \in Seq({e}) /\ Len([i \in 1 .. 1 |-> e]) = 1
          /\ <<e>> \in Seq({e}) /\ Len(<<e>>) = 1 /\ <<e>>[1] = e
      OBVIOUS
    <3>4. [i \in 1 .. 1 |-> e] = <<e>>
      BY <3>3, SeqEqual
    <3> QED
      BY <3>2, <3>4 DEF e
  <2>3. Len(saved.attempts) + 1 = 1
    BY <1>1, <1>2
  <2>4. [i \in Commits |-> [kernel |-> history[i].kernel,
                            promoted |-> history[i].kind = "promotion"]] =
            <<[kernel |-> BaseKernel, promoted |-> FALSE]>>
    BY <2>2, LedgerLog
  <2> QED
    BY <2>3, <2>4 DEF Ledger!Init
<1>4. LedgerInv
  BY <1>1, <1>2 DEF LedgerInv, Numbered, BeforeCommit, Recorded
<1> QED
  BY <1>3, <1>4

-----------------------------------------------------------------------------
(* Every commit is counted exactly once, as what it was *)

\* The counters of a state are the tally of its attempts.
Counts(s, o) == {i \in DOMAIN s.attempts :
                    OutcomeOf(s.attempts[i].status, s.attempts[i].accepted) = o}

\* Every counter of a state is the number of its attempts of that outcome.
Tallied(s) == \A o \in Outcome : s.tally[o] = Cardinality(Counts(s, o))

\* An accepted verdict is that of a candidate; what is recorded as an outcome is
\* what the checkpoint says.
VerdictInv ==
    /\ pc \in {"capture", "audit", "squash", "screen", "write", "add", "commit", "account"}
            /\ verdict.accepted
        => verdict.status = "candidate_ready"
    /\ pc = "outcome" \/ (pc \in {"add", "commit"} /\ ~ verdict.accepted)
        => active.phase = "recording" /\ active.terminal = verdict.status

\* What keeps the tallies right, together, whoever else commits.
TallyInv == AccountInv /\ VerdictInv /\ Tallied(st) /\ Tallied(saved)

\* Counting one attempt raises the counter of its outcome and no other.
LEMMA CountedTallied ==
    ASSUME NEW s \in SupervisorState, Tallied(s), NEW episode \in Episode,
           NEW version \in Nat, NEW status \in Status, NEW accepted \in BOOLEAN
    PROVE  Tallied(Counted(s, episode, version, status, accepted))
<1> DEFINE a == [episode |-> episode, version |-> version,
                 status |-> status, accepted |-> accepted]
           t == Counted(s, episode, version, status, accepted)
           n == Len(s.attempts)
           p == OutcomeOf(status, accepted)
<1>1. /\ s.attempts \in Seq(Attempt) /\ s.tally \in [Outcome -> Nat] /\ n \in Nat
      /\ a \in Attempt /\ p \in Outcome
  BY OutcomeOfType DEF SupervisorState, Attempt
<1>2. t.attempts = Append(s.attempts, a) /\ t.tally = [s.tally EXCEPT ![p] = @ + 1]
  BY DEF Counted
<1> HIDE DEF t
<1>3. /\ DOMAIN s.attempts = 1 .. n /\ DOMAIN t.attempts = 1 .. n + 1
      /\ \A i \in 1 .. n : t.attempts[i] = s.attempts[i]
      /\ t.attempts[n + 1] = a
  BY <1>1, <1>2, AppendProperties
<1>4. a.status = status /\ a.accepted = accepted
  OBVIOUS
<1> HIDE DEF a
<1>5. SUFFICES ASSUME NEW o \in Outcome
               PROVE  t.tally[o] = Cardinality(Counts(t, o))
  BY DEF Tallied, t
<1>6. /\ IsFiniteSet(Counts(s, o)) /\ Cardinality(Counts(s, o)) \in Nat
      /\ n + 1 \notin Counts(s, o)
  <2>1. IsFiniteSet(1 .. n)
    <3>1. 1 \in Int /\ n \in Int
      BY <1>1
    <3> HIDE DEF n
    <3> QED
      BY <3>1, FS_Interval
  <2>2. Counts(s, o) \subseteq 1 .. n
    BY <1>3 DEF Counts
  <2>3. n + 1 \notin 1 .. n
    BY <1>1
  <2> QED
    BY <2>1, <2>2, <2>3, FS_Subset, FS_CardinalityType
<1>7. s.tally[o] = Cardinality(Counts(s, o))
  BY DEF Tallied
<1>8. \A i \in 1 .. n : i \in Counts(t, o) <=> i \in Counts(s, o)
  BY <1>1, <1>3 DEF Counts
<1>9. n + 1 \in Counts(t, o) <=> p = o
  BY <1>1, <1>3, <1>4 DEF Counts
<1>10. Counts(t, o) \subseteq 1 .. n + 1 /\ Counts(s, o) \subseteq 1 .. n
  BY <1>3 DEF Counts
<1>11. CASE p = o
  <2>1. Counts(t, o) = Counts(s, o) \cup {n + 1}
    BY <1>1, <1>8, <1>9, <1>10, <1>11
  <2>2. Cardinality(Counts(t, o)) = Cardinality(Counts(s, o)) + 1
    BY <1>6, <2>1, FS_AddElement
  <2>3. t.tally[o] = s.tally[o] + 1
    BY <1>1, <1>2, <1>11
  <2> QED
    BY <1>7, <2>2, <2>3
<1>12. CASE p # o
  <2>1. Counts(t, o) = Counts(s, o)
    <3>1. Counts(t, o) \subseteq 1 .. n
      BY <1>1, <1>9, <1>10, <1>12
    <3> HIDE DEF n
    <3> QED
      BY <1>8, <1>10, <3>1
  <2> QED
    BY <1>1, <1>2, <1>7, <1>12, <2>1
<1> QED
  BY <1>11, <1>12

\* Loading, counting and saving keep the counters the tally of the attempts.
LEMMA TalliedStep ==
    ASSUME TypeInv, Tallied(st), Tallied(saved), [Next]_vars
    PROVE  Tallied(st') /\ Tallied(saved')
<1>1. CASE st' = st /\ saved' \in {saved, st}
  BY <1>1
<1>2. CASE Start
  <2>1. st' = LoadedState /\ saved' = saved
    BY <1>2 DEF Start, durable
  <2> QED
    BY <2>1, LoadedCounters DEF Tallied, Counts
<1>3. CASE Counting /\ saved' = saved
  <2>1. active # None
    BY <1>3 DEF Counting, TypeInv, UnderWay
  <2>2. PICK status \in Status, accepted \in BOOLEAN :
            st' = Counted(st, active.episode, active.version, status, accepted)
    BY <1>3 DEF Counting
  <2>3. /\ st \in SupervisorState /\ active.episode \in Episode /\ active.version \in Nat
    BY <2>1, ActiveEpisode DEF TypeInv, TypeOK
  <2> QED
    BY <1>3, <2>2, <2>3, CountedTallied
<1> QED
  BY <1>1, <1>2, <1>3, CountStep

\* A verdict stays what it is, and its checkpoint says so, until it is accounted for.
LEMMA VerdictStep ==
    ASSUME AccountInv, VerdictInv, [Next]_vars
    PROVE  VerdictInv'
<1> USE DEF durable
<1>0. TypeInv /\ PromotingPhase /\ (pc = "assess" => ~ verdict.accepted)
  BY DEF AccountInv, CheckoutInv, HistoryInv, Judged
<1>1. CASE UNCHANGED vars
  BY <1>1 DEF vars, VerdictInv
<1>2. ASSUME pc' \notin {"capture", "audit", "squash", "screen", "write", "outcome",
                         "add", "commit", "account"}
      PROVE  VerdictInv'
  BY <1>2 DEF VerdictInv
<1>3. CASE Start \/ StopAtBudget \/ Plan \/ Materialize \/ BeginExploring
          \/ (\E k \in Kernel : SealCandidate(k))
          \/ (\E status \in {"pivot", "blocked"} : SubmitPlain(status))
          \/ SaveReport \/ PublishReport \/ ResubmitReport \/ EndSession
  BY <1>2, <1>3 DEF Start, StopAtBudget, Plan, Materialize, BeginExploring,
     SealCandidate, SubmitPlain, SaveReport, PublishReport, ResubmitReport, EndSession
<1>4. CASE Assess
  <2>1. verdict \in Verdict /\ pc = "assess" /\ pc' = "capture"
    BY <1>0, <1>4 DEF Assess, TypeInv, TypeOK
  <2>2. CASE verdict.status = "candidate_ready" /\ verdict.kernel \in Clean
    <3>1. verdict' = [verdict EXCEPT !.accepted = Improves(verdict.kernel)]
      BY <1>4, <2>2 DEF Assess
    <3>2. verdict'.status = "candidate_ready"
      BY <2>1, <2>2, <3>1 DEF Verdict
    <3> QED
      BY <2>1, <3>2 DEF VerdictInv
  <2>3. CASE ~ (verdict.status = "candidate_ready" /\ verdict.kernel \in Clean)
    BY <1>0, <1>4, <2>1, <2>3 DEF Assess, VerdictInv
  <2> QED
    BY <2>2, <2>3
<1>5. CASE Capture
  <2>1. PICK captured \in BOOLEAN :
            /\ verdict' = [verdict EXCEPT !.accepted = verdict.accepted /\ captured]
            /\ active' = IF verdict.accepted /\ captured
                         THEN [active EXCEPT !.phase = "promoting"]
                         ELSE [active EXCEPT !.phase = "recording",
                                             !.terminal = verdict.status]
            /\ pc' = IF verdict.accepted /\ captured THEN "audit" ELSE "outcome"
    BY <1>5 DEF Capture
  <2>2. pc = "capture" /\ active \in Active /\ verdict \in Verdict /\ verdict.status \in Status
    BY <1>0, <1>5, VerdictFields DEF Capture, TypeInv, TypeOK, UnderWay
  <2>3. verdict'.status = verdict.status /\ (verdict'.accepted <=> verdict.accepted /\ captured)
    BY <2>1, <2>2 DEF Verdict
  <2>4. CASE verdict.accepted /\ captured
    BY <2>1, <2>2, <2>3, <2>4 DEF VerdictInv
  <2>5. CASE ~ (verdict.accepted /\ captured)
    <3>1. active' = [active EXCEPT !.phase = "recording", !.terminal = verdict.status]
      BY <2>1, <2>5
    <3>2. active'.phase = "recording" /\ active'.terminal = verdict.status
      BY <2>2, <3>1 DEF Active
    <3> QED
      BY <2>1, <2>3, <2>5, <3>2 DEF VerdictInv
  <2> QED
    BY <2>4, <2>5
<1>6. CASE WriteAudit \/ Squash \/ Screen \/ WriteRecord \/ AddRecord
  <2>1. /\ active' = active /\ verdict' = verdict
        /\ \/ pc = "audit" /\ pc' = "squash"
           \/ pc = "squash" /\ pc' = "screen"
           \/ pc = "screen" /\ pc' \in {"write", "down"}
           \/ pc \in {"write", "outcome"} /\ pc' = "add"
           \/ pc = "add" /\ pc' = "commit"
    BY <1>6 DEF WriteAudit, Squash, Screen, WriteRecord, AddRecord
  <2>2. (pc = "write" => verdict.accepted) /\ (pc = "outcome" => ~ verdict.accepted)
    BY <1>0 DEF PromotingPhase, Promoting, TypeInv, Staging
  <2> QED
    BY <2>1, <2>2 DEF VerdictInv
<1>7. CASE CommitPromotion \/ CommitOutcome
  BY <1>7 DEF CommitPromotion, CommitOutcome, VerdictInv
<1>8. CASE BaseMoved \/ PromotionFails \/ Account \/ MarkPromoted \/ Persist
          \/ RemoveWorktree \/ ClearActive
  BY <1>2, <1>8 DEF BaseMoved, Raise, PromotionFails, Account, MarkPromoted, Persist,
     RemoveWorktree, ClearActive
<1>9. CASE RecordInterrupted
  <2>1. /\ pc' = "outcome" /\ active \in Active
        /\ active' = [active EXCEPT !.phase = "recording", !.terminal = "interrupted"]
        /\ verdict' = [NoVerdict EXCEPT !.recovered = TRUE]
    BY <1>0, <1>9 DEF RecordInterrupted, TypeInv, TypeOK, UnderWay
  <2>2. active'.phase = "recording" /\ active'.terminal = "interrupted"
    BY <2>1 DEF Active
  <2>3. verdict'.status = "interrupted"
    BY <2>1 DEF NoVerdict
  <2> QED
    BY <2>1, <2>2, <2>3 DEF VerdictInv
<1>10. CASE RecoverHandoff \/ ResumeExploring \/ CountInterrupted \/ PauseForAudit
           \/ RecoverCommitted \/ DetachWorktree \/ SaveStall \/ SaveRecovered
  BY <1>2, <1>10 DEF RecoverHandoff, ResumeExploring, CountInterrupted, PauseForAudit,
     RecoverCommitted, DetachWorktree, SaveStall, SaveRecovered
<1>11. CASE World
  BY <1>2, <1>11 DEF World, Crash, LoseAudit, RestoreAudit, AcknowledgeMissing,
     ForeignCommit
<1> QED
  BY <1>1, <1>3, <1>4, <1>5, <1>6, <1>7, <1>8, <1>9, <1>10, <1>11
  DEF Next, Exploration, Recording, Recovery

\* The counters of every reachable state are the tally of its attempts.
LEMMA TallyInvariant == Spec => []TallyInv
<1>1. Init => VerdictInv /\ Tallied(st) /\ Tallied(saved)
  <2> SUFFICES ASSUME Init
               PROVE  VerdictInv /\ Tallied(st) /\ Tallied(saved)
    OBVIOUS
  <2>1. st = FreshState /\ saved = FreshState /\ pc = "down"
    BY DEF Init
  <2>2. FreshState.attempts = <<>> /\ FreshState.tally = [o \in Outcome |-> 0]
    BY DEF FreshState
  <2>3. \A o \in Outcome : Counts(FreshState, o) = {}
    BY <2>2 DEF Counts
  <2>4. Tallied(FreshState)
    BY <2>2, <2>3, FS_EmptySet DEF Tallied
  <2> QED
    BY <2>1, <2>4 DEF VerdictInv
<1>2. /\ AccountInv /\ VerdictInv /\ Tallied(st) /\ Tallied(saved) /\ [Next]_vars
         => (VerdictInv /\ Tallied(st) /\ Tallied(saved))'
  BY VerdictStep, TalliedStep DEF AccountInv, CheckoutInv, HistoryInv
<1> QED
  BY <1>1, <1>2, AccountInvariant, PTL DEF Spec, TallyInv

\* Every commit above the baseline is the campaign's, one for each Episode.
OwnCommits ==
    \A i \in 2 .. HEAD :
        history[i].episode = i - 1 /\ history[i].kind \in {"promotion", "outcome"}

\* Every commit has a version above those before it.
VersionsUp == \A i, j \in Commits : i < j => history[i].version < history[j].version

\* An attempt is counted as the commit it was.
BookedAs(attempt, commit) ==
    /\ attempt.version = commit.version
    /\ attempt.status = commit.status
    /\ attempt.accepted <=> commit.kind = "promotion"

\* Every attempt of a state is the commit of its Episode.
Booked(s) ==
    \A i \in DOMAIN s.attempts : i < HEAD /\ BookedAs(s.attempts[i], history[i + 1])

\* The checkpoint of an Episode that is committed says what its commit is: recovery
\* reads it by that word.
TipOwned ==
    active # None /\ HEAD = active.base + 1 =>
        /\ Tip.version = active.version
        /\ \/ /\ Tip.kind = "promotion" /\ Tip.status = "candidate_ready"
              /\ active.phase \in {"promoting", "promoted"}
           \/ /\ Tip.kind = "outcome" /\ Tip.status = active.terminal
              /\ active.phase \in {"recording", "recorded"} /\ active.terminal # "none"

\* What is about to be counted is what was committed.
VerdictOfTip ==
    /\ pc = "account" =>
        verdict.status = Tip.status /\ (verdict.accepted <=> Tip.kind = "promotion")
    /\ pc = "mark" => Tip.kind = "promotion"
    /\ pc = "interrupted" => Tip.status = "interrupted" /\ Tip.kind = "outcome"

\* What keeps the books while nobody else commits, together.
BookInv ==
    /\ LedgerInv /\ OwnCommits /\ VersionsUp /\ TipOwned /\ VerdictOfTip
    /\ Booked(st) /\ Booked(saved)

\* A commit of the campaign has the next Episode's number and a new version.
LEMMA OwnCommitsStep ==
    ASSUME ~ ForeignCommit, TallyInv, TallyInv', BookInv, [Next]_vars
    PROVE  (OwnCommits /\ VersionsUp)'
<1> USE DEF Commits
<1>0. /\ AccountInv /\ CheckoutInv /\ HistoryInv /\ HistoryInv' /\ TypeInv /\ HEAD \in Nat
      /\ OwnCommits /\ VersionsUp /\ LedgerInv
      /\ \A i \in Commits : history[i].version \in Nat
  <2>1. AccountInv /\ OwnCommits /\ VersionsUp /\ LedgerInv
    BY DEF TallyInv, BookInv
  <2>2. HistoryInv'
    BY DEF TallyInv, AccountInv, CheckoutInv
  <2> QED
    BY <2>1, <2>2, AccountFacts, CommitFields
<1>1. CASE history' = history
  BY <1>0, <1>1 DEF OwnCommits, VersionsUp, HEAD
<1>2. CASE CommitPromotion \/ CommitOutcome
  <2>1. pc = "commit" /\ active # None
    BY <1>0, <1>2 DEF CommitPromotion, CommitOutcome, TypeInv, UnderWay
  <2>2. HEAD = active.base /\ active.episode = active.base
    BY <1>0, <2>1 DEF LedgerInv, BeforeCommit
  <2>3. /\ HEAD' = HEAD + 1
        /\ \A i \in 1 .. HEAD : history'[i] = history[i]
        /\ history'[HEAD + 1].episode = active.episode
        /\ history'[HEAD + 1].version = active.version
        /\ history'[HEAD + 1].kind \in {"promotion", "outcome"}
    BY <1>0, <1>2, CommitAppends
  <2>4. \A i \in 1 .. HEAD : history[i].version < active.version
    BY <1>0, <2>1, <2>2 DEF CheckoutInv, NewVersion
  <2>5. OwnCommits'
    <3>1. ASSUME NEW i \in 2 .. HEAD + 1
          PROVE  /\ history'[i].episode = i - 1
                 /\ history'[i].kind \in {"promotion", "outcome"}
      <4>1. CASE i \in 2 .. HEAD
        BY <1>0, <2>3, <4>1 DEF OwnCommits
      <4>2. CASE i = HEAD + 1
        BY <1>0, <2>2, <2>3, <4>2
      <4> QED
        BY <1>0, <4>1, <4>2
    <3> QED
      BY <2>3, <3>1 DEF OwnCommits
  <2>6. VersionsUp'
    <3>1. ASSUME NEW i \in 1 .. HEAD + 1, NEW j \in 1 .. HEAD + 1, i < j
          PROVE  history'[i].version < history'[j].version
      <4>1. CASE j \in 1 .. HEAD
        BY <1>0, <2>3, <3>1, <4>1 DEF VersionsUp
      <4>2. CASE j = HEAD + 1
        BY <1>0, <2>3, <2>4, <3>1, <4>2
      <4> QED
        BY <1>0, <4>1, <4>2
    <3> QED
      BY <2>3, <3>1 DEF VersionsUp
  <2> QED
    BY <2>5, <2>6
<1> QED
  BY <1>0, <1>1, <1>2, CommitStep

\* The checkpoint goes on saying what the Episode's commit is.
LEMMA TipOwnedStep ==
    ASSUME ~ ForeignCommit, TallyInv, TallyInv', BookInv, [Next]_vars
    PROVE  (TipOwned /\ VerdictOfTip)'
<1> USE DEF durable, git
<1>0. /\ AccountInv /\ CheckoutInv /\ HistoryInv /\ HistoryInv' /\ TypeInv /\ HEAD \in Nat
      /\ LedgerInv /\ TipOwned /\ VerdictOfTip /\ VerdictInv
      /\ pc \notin {"down", "choose", "stopped"} => active # None
      /\ active # None => active.base \in Nat
  <2>1. AccountInv /\ LedgerInv /\ TipOwned /\ VerdictOfTip /\ VerdictInv
    BY DEF TallyInv, BookInv
  <2>2. HistoryInv'
    BY DEF TallyInv, AccountInv, CheckoutInv
  <2> QED
    BY <2>1, <2>2, AccountFacts
<1>1. CASE CommitPromotion
  <2>1. /\ pc = "commit" /\ pc' = "account" /\ verdict.accepted /\ verdict' = verdict
        /\ active' = active
    BY <1>1 DEF CommitPromotion
  <2>2. /\ Tip'.version = active.version /\ Tip'.kind = "promotion"
        /\ Tip'.status = "candidate_ready"
    BY <1>0, <1>1, CommitAppends
  <2>3. active.phase = "promoting" /\ verdict.status = "candidate_ready"
    BY <1>0, <2>1 DEF CheckoutInv, PromotingPhase, Promoting, VerdictInv
  <2> QED
    BY <2>1, <2>2, <2>3 DEF TipOwned, VerdictOfTip
<1>2. CASE CommitOutcome
  <2>1. /\ pc = "commit" /\ ~ verdict.accepted /\ verdict' = verdict /\ active' = active
        /\ pc' \in {"account", "interrupted"}
        /\ pc' = "interrupted" => verdict.status = "interrupted"
    BY <1>2 DEF CommitOutcome
  <2>2. /\ Tip'.version = active.version /\ Tip'.kind = "outcome"
        /\ Tip'.status = verdict.status
    BY <1>0, <1>2, CommitAppends
  <2>3. active.phase = "recording" /\ active.terminal = verdict.status
    BY <1>0, <2>1 DEF VerdictInv
  <2>4. verdict.status # "none"
    BY <1>0, VerdictFields DEF TypeInv, TypeOK, Status, ReportStatus
  <2> QED
    BY <2>1, <2>2, <2>3, <2>4 DEF TipOwned, VerdictOfTip
<1>3. ASSUME history' = history
      PROVE  Tip' = Tip /\ HEAD' = HEAD
  BY <1>3 DEF Tip, HEAD
<1>4. CASE Account
  <2>1. /\ pc = "account" /\ pc' \in {"mark", "persist"} /\ active' = active
        /\ history' = history /\ (pc' = "mark" => verdict.accepted)
    BY <1>4 DEF Account
  <2> QED
    BY <1>0, <1>3, <2>1 DEF TipOwned, VerdictOfTip
<1>5. CASE MarkPromoted \/ CountInterrupted
  <2>1. /\ active \in Active /\ history' = history
        /\ \/ /\ pc = "mark" /\ pc' = "persist"
              /\ active' = [active EXCEPT !.phase = "promoted"]
           \/ /\ pc = "interrupted" /\ pc' = "detach"
              /\ active' = [active EXCEPT !.phase = "recorded"]
    BY <1>0, <1>5 DEF MarkPromoted, CountInterrupted, TypeInv, TypeOK
  <2>2. /\ active'.version = active.version /\ active'.base = active.base
        /\ active'.terminal = active.terminal
        /\ pc = "mark" => active'.phase = "promoted"
        /\ pc = "interrupted" => active'.phase = "recorded"
    BY <2>1 DEF Active
  <2>3. /\ active # None
        /\ pc = "mark" => Tip.kind = "promotion"
        /\ pc = "interrupted" => Tip.kind = "outcome"
    BY <1>0, <2>1 DEF VerdictOfTip
  <2> QED
    BY <1>0, <1>3, <2>1, <2>2, <2>3 DEF TipOwned, VerdictOfTip
<1>6. ASSUME history' = history, pc' \notin {"account", "mark", "interrupted"},
             \/ active' = active
             \/ SameEpisode /\ HEAD = active.base
             \/ active' = None
             \/ active' # None /\ active'.base = HEAD
      PROVE  (TipOwned /\ VerdictOfTip)'
  BY <1>0, <1>3, <1>6 DEF TipOwned, VerdictOfTip, SameEpisode
<1>7. CASE UNCHANGED vars
  <2>1. /\ history' = history /\ active' = active /\ pc' = pc /\ verdict' = verdict
    BY <1>7 DEF vars
  <2> QED
    BY <1>0, <1>3, <2>1 DEF TipOwned, VerdictOfTip
<1>8. CASE Plan
  <2>1. history' = history /\ pc' = "materialize"
    BY <1>8 DEF Plan
  <2> QED
    BY <1>0, <1>6, <1>8, <2>1, PlanIsNew
<1>9. CASE ClearActive
  BY <1>6, <1>9 DEF ClearActive
<1>10. CASE Start \/ StopAtBudget \/ World
  <2>1. /\ history' = history /\ active' = active
        /\ \/ pc' \in {"choose", "recover", "stopped", "down"}
           \/ pc' = pc /\ pc \in {"down", "paused"}
    BY <1>10
    DEF Start, StopAtBudget, World, Crash, LoseAudit, RestoreAudit, AcknowledgeMissing
  <2> QED
    BY <1>6, <2>1
<1>11. CASE Materialize \/ BeginExploring \/ (\E k \in Kernel : SealCandidate(k))
          \/ (\E status \in {"pivot", "blocked"} : SubmitPlain(status))
          \/ SaveReport \/ PublishReport \/ ResubmitReport \/ EndSession \/ Assess
          \/ Capture \/ BaseMoved \/ WriteAudit \/ Squash \/ Screen \/ WriteRecord
          \/ AddRecord \/ PromotionFails
  <2>1. pc \in BeforeCommit /\ pc' \notin {"account", "mark", "interrupted"}
    BY <1>11 DEF Materialize, BeginExploring, SealCandidate, SubmitPlain, SaveReport,
       PublishReport, ResubmitReport, EndSession, Assess, Capture, BaseMoved, Raise,
       WriteAudit, Squash, Screen, WriteRecord, AddRecord, PromotionFails, BeforeCommit
  <2>2. history' = history /\ HEAD = active.base
    BY <1>0, <2>1, CommitStep DEF CommitPromotion, CommitOutcome, LedgerInv
  <2>3. active' = active \/ SameEpisode
    BY <1>0, <2>1, EpisodeStep DEF Plan, ClearActive, BeforeCommit
  <2> QED
    BY <1>6, <2>1, <2>2, <2>3
<1>12. CASE RecoverHandoff \/ ResumeExploring \/ RecordInterrupted
  <2>1. /\ pc = "recover" /\ pc' \notin {"account", "mark", "interrupted"}
        /\ HEAD = active.base
    BY <1>12 DEF RecoverHandoff, ResumeExploring, RecordInterrupted, Resumable
  <2>2. history' = history
    BY <1>0, <2>1, CommitStep DEF CommitPromotion, CommitOutcome
  <2>3. active' = active \/ SameEpisode
    BY <1>0, <2>1, EpisodeStep DEF Plan, ClearActive
  <2> QED
    BY <1>6, <2>1, <2>2, <2>3
<1>13. CASE Persist \/ RemoveWorktree \/ PauseForAudit \/ RecoverCommitted
           \/ DetachWorktree \/ SaveStall \/ SaveRecovered
  BY <1>6, <1>13 DEF Persist, RemoveWorktree, PauseForAudit, RecoverCommitted,
     DetachWorktree, SaveStall, SaveRecovered
<1> QED
  BY <1>1, <1>2, <1>4, <1>5, <1>7, <1>8, <1>9, <1>10, <1>11, <1>12, <1>13
  DEF Next, Exploration, Recording, Recovery

\* The attempt of the Episode that HEAD commits, counted as what HEAD is, extends the
\* book.
LEMMA BookedAppends ==
    ASSUME TypeInv, NEW s \in SupervisorState, Booked(s), Len(s.attempts) + 1 = HEAD - 1,
           NEW episode \in Episode, NEW version \in Nat, NEW status \in Status,
           NEW accepted \in BOOLEAN,
           version = Tip.version, status = Tip.status,
           accepted <=> Tip.kind = "promotion"
    PROVE  Booked(Counted(s, episode, version, status, accepted))
<1> DEFINE a == [episode |-> episode, version |-> version,
                 status |-> status, accepted |-> accepted]
           t == Counted(s, episode, version, status, accepted)
           n == Len(s.attempts)
<1>1. s.attempts \in Seq(Attempt) /\ n \in Nat /\ a \in Attempt /\ HEAD \in Nat
  BY DEF SupervisorState, Attempt, TypeInv, TypeOK, HEAD
<1>2. t.attempts = Append(s.attempts, a)
  BY DEF Counted
<1> HIDE DEF t
<1>3. /\ DOMAIN s.attempts = 1 .. n /\ DOMAIN t.attempts = 1 .. n + 1
      /\ \A i \in 1 .. n : t.attempts[i] = s.attempts[i]
      /\ t.attempts[n + 1] = a
  BY <1>1, <1>2, AppendProperties
<1>4. BookedAs(a, Tip)
  BY DEF BookedAs
<1> HIDE DEF a
<1>5. Tip = history[n + 2] /\ n + 1 < HEAD
  BY <1>1 DEF Tip
<1>6. ASSUME NEW i \in 1 .. n + 1
      PROVE  i < HEAD /\ BookedAs(t.attempts[i], history[i + 1])
  <2>1. CASE i \in 1 .. n
    BY <1>3, <2>1 DEF Booked
  <2>2. CASE i = n + 1
    BY <1>1, <1>3, <1>4, <1>5, <2>2
  <2> QED
    BY <1>1, <2>1, <2>2
<1>7. Booked(t)
  BY <1>3, <1>6 DEF Booked
<1> QED
  BY <1>7 DEF t

\* A book stays right while the history grows.
LEMMA BookedStays ==
    ASSUME HistoryInv, HistoryInv', ~ ForeignCommit, [Next]_vars, NEW s \in SupervisorState,
           Booked(s)
    PROVE  \A i \in DOMAIN s.attempts :
               i < HEAD' /\ BookedAs(s.attempts[i], history'[i + 1])
<1>1. /\ HEAD \in Nat /\ s.attempts \in Seq(Attempt)
      /\ DOMAIN s.attempts = 1 .. Len(s.attempts)
  BY DEF HistoryInv, TypeInv, TypeOK, HEAD, SupervisorState
<1>2. CASE history' = history
  BY <1>2 DEF Booked, HEAD
<1>3. CASE CommitPromotion \/ CommitOutcome
  <2>1. HEAD' = HEAD + 1 /\ \A i \in 1 .. HEAD : history'[i] = history[i]
    BY <1>3, CommitAppends
  <2> QED
    BY <1>1, <2>1 DEF Booked
<1> QED
  BY <1>2, <1>3, CommitStep

\* What is counted is what was committed: in the ordinary run by the verdict, in
\* recovery by what the checkpoint and HEAD say of each other.
LEMMA CountingBooks ==
    ASSUME TallyInv, BookInv,
           Account \/ CountInterrupted \/ (RecoverCommitted /\ CanonicalMemory(active.version)),
           st' # st
    PROVE  Booked(st')
<1>0. /\ AccountInv /\ CheckoutInv /\ HistoryInv /\ TypeInv /\ HEAD \in Nat
      /\ LedgerInv /\ OwnCommits /\ TipOwned /\ VerdictOfTip /\ Booked(st)
      /\ st \in SupervisorState
  <2>1. AccountInv /\ LedgerInv /\ OwnCommits /\ TipOwned /\ VerdictOfTip /\ Booked(st)
    BY DEF TallyInv, BookInv
  <2>2. st \in SupervisorState
    BY <2>1, AccountFacts DEF TypeInv, TypeOK
  <2> QED
    BY <2>1, <2>2, AccountFacts
<1>1. active # None /\ active.episode \in Episode /\ active.version \in Nat
      /\ active.base \in 1 .. HEAD /\ active.base \in Nat /\ active \in Active
  <2>1. active # None
    BY <1>0 DEF Account, CountInterrupted, RecoverCommitted, TypeInv, UnderWay
  <2> QED
    BY <1>0, <2>1, ActiveEpisode DEF TypeInv, TypeOK
<1>2. /\ active.episode = active.base /\ HEAD = active.base + 1
      /\ Numbered(saved, active.base - 1) \/ Numbered(saved, active.base)
      /\ SameCount(saved, st)
  BY <1>0, <1>1 DEF LedgerInv, Account, CountInterrupted, RecoverCommitted, Recorded
<1>3. /\ Tip.version = active.version /\ Tip.episode = active.episode
      /\ \/ /\ Tip.kind = "promotion" /\ Tip.status = "candidate_ready"
            /\ active.phase \in {"promoting", "promoted"}
         \/ /\ Tip.kind = "outcome" /\ Tip.status = active.terminal
            /\ active.phase \in {"recording", "recorded"} /\ active.terminal # "none"
  <2>1. HEAD \in 2 .. HEAD /\ HEAD - 1 = active.base
    BY <1>0, <1>1, <1>2
  <2>2. Tip.episode = active.episode
    BY <1>0, <1>2, <2>1 DEF OwnCommits, Tip
  <2> QED
    BY <1>0, <1>1, <1>2, <2>2 DEF TipOwned
<1>4. ASSUME Numbered(st, active.base - 1), NEW status \in Status, NEW accepted \in BOOLEAN,
             status = Tip.status, accepted <=> Tip.kind = "promotion",
             st' = Counted(st, active.episode, active.version, status, accepted)
      PROVE  Booked(st')
  <2>1. Len(st.attempts) + 1 = HEAD - 1
    BY <1>1, <1>2, <1>4 DEF Numbered
  <2> QED
    BY <1>0, <1>1, <1>3, <1>4, <2>1, BookedAppends
<1>5. AlreadyRecorded(st, active.episode) \/ Numbered(st, active.base - 1)
  <2>1. Numbered(st, active.base - 1) \/ Numbered(st, active.base)
    BY <1>2, SameNumbered
  <2>2. CASE Numbered(st, active.base)
    <3>1. st.attempts \in Seq(Attempt) /\ Len(st.attempts) = active.base
      BY <1>0, <2>2 DEF SupervisorState, Numbered
    <3>2. active.base \in DOMAIN st.attempts /\ st.attempts[active.base].episode = active.base
      BY <1>1, <2>2, <3>1 DEF Numbered
    <3> QED
      BY <1>2, <3>2 DEF AlreadyRecorded
  <2> QED
    BY <2>1, <2>2
<1>6. CASE Account
  <2>1. Numbered(st, active.base - 1)
    BY <1>0, <1>2, <1>6, SameNumbered DEF Account, LedgerInv
  <2>2. verdict.status \in Status /\ verdict.accepted \in BOOLEAN
    BY <1>0, VerdictFields DEF TypeInv, TypeOK
  <2>3. verdict.status = Tip.status /\ (verdict.accepted <=> Tip.kind = "promotion")
    BY <1>0, <1>6 DEF Account, VerdictOfTip
  <2>4. st' = Counted(st, active.episode, active.version, verdict.status,
                      verdict.accepted)
    BY <1>6 DEF Account
  <2> QED
    BY <1>4, <2>1, <2>2, <2>3, <2>4
<1>7. CASE CountInterrupted
  <2>1. /\ ~ AlreadyRecorded(st, active.episode)
        /\ st' = Counted(st, active.episode, active.version, "interrupted", FALSE)
    BY <1>7 DEF CountInterrupted
  <2>2. "interrupted" \in Status /\ Tip.status = "interrupted" /\ Tip.kind = "outcome"
    BY <1>0, <1>7 DEF CountInterrupted, VerdictOfTip, Status
  <2> QED
    BY <1>4, <1>5, <2>1, <2>2
<1>8. CASE RecoverCommitted /\ CanonicalMemory(active.version)
  <2> DEFINE terminal == IF RecoveredPromotion THEN "candidate_ready"
                         ELSE IF RecoveredOutcome THEN active.terminal
                         ELSE "interrupted"
  <2>1. /\ ~ AlreadyRecorded(st, active.episode)
        /\ st' = Counted(st, active.episode, active.version, terminal, RecoveredPromotion)
    BY <1>8 DEF RecoverCommitted
  <2>2. RecoveredPromotion <=> Tip.kind = "promotion"
    BY <1>2, <1>3 DEF RecoveredPromotion, PromotionBinding
  <2>3. Tip.kind = "outcome" => RecoveredOutcome
    <3>1. active.version > 0
      <4>1. history[1].version < active.version /\ history[1].version \in Nat
        BY <1>0, <1>1, CommitFields DEF CheckoutInv, NewVersion
      <4> QED
        BY <1>1, <4>1
    <3> QED
      BY <1>2, <1>3, <3>1 DEF RecoveredOutcome
  <2>4. terminal = Tip.status
    BY <1>3, <2>2, <2>3
  <2>5. terminal \in Status /\ RecoveredPromotion \in BOOLEAN
    <3>1. active.terminal # "none" => active.terminal \in Status
      BY <1>1, ActiveFields
    <3>2. "candidate_ready" \in Status
      BY DEF Status, ReportStatus
    <3> QED
      BY <1>3, <2>4, <3>1, <3>2 DEF RecoveredPromotion
  <2> HIDE DEF terminal
  <2> QED
    BY <1>4, <1>5, <2>1, <2>2, <2>4, <2>5
<1> QED
  BY <1>6, <1>7, <1>8

\* Every step keeps the book of what was committed.
LEMMA BookStep ==
    ASSUME ~ ForeignCommit, TallyInv, TallyInv', BookInv, [Next]_vars
    PROVE  BookInv'
<1>0. /\ AccountInv /\ AccountInv' /\ HistoryInv /\ HistoryInv' /\ TypeInv /\ LedgerInv
      /\ Booked(st) /\ Booked(saved) /\ st \in SupervisorState /\ saved \in SupervisorState
  <2>1. /\ AccountInv /\ AccountInv' /\ HistoryInv' /\ LedgerInv /\ Booked(st) /\ Booked(saved)
    BY DEF TallyInv, AccountInv, CheckoutInv, BookInv
  <2>2. st \in SupervisorState /\ saved \in SupervisorState
    BY <2>1, AccountFacts DEF TypeInv, TypeOK
  <2> QED
    BY <2>1, <2>2, AccountFacts
<1>1. LedgerInv'
  BY <1>0, LedgerStep
<1>2. (OwnCommits /\ VersionsUp /\ TipOwned /\ VerdictOfTip)'
  BY OwnCommitsStep, TipOwnedStep
<1>3. /\ \A i \in DOMAIN st.attempts :
             i < HEAD' /\ BookedAs(st.attempts[i], history'[i + 1])
      /\ \A i \in DOMAIN saved.attempts :
             i < HEAD' /\ BookedAs(saved.attempts[i], history'[i + 1])
  BY <1>0, BookedStays
<1>4. CASE st' = st /\ saved' \in {saved, st}
  <2>1. Booked(st)' /\ Booked(saved)'
    BY <1>3, <1>4 DEF Booked
  <2> QED
    BY <1>1, <1>2, <2>1 DEF BookInv
<1>5. CASE Start
  <2>1. saved' = saved /\ st'.attempts = saved.attempts
    BY <1>0, <1>5, LoadedCounters DEF Start, durable
  <2>2. Booked(st)' /\ Booked(saved)'
    BY <1>3, <2>1 DEF Booked
  <2> QED
    BY <1>1, <1>2, <2>2 DEF BookInv
<1>6. CASE Counting /\ saved' = saved /\ st' # st
  <2>1. \/ Account \/ CountInterrupted
        \/ RecoverCommitted /\ CanonicalMemory(active.version)
    BY <1>6, CountingSteps DEF Counting, Start
  <2>2. history' = history /\ HEAD' = HEAD
    BY <2>1 DEF Account, CountInterrupted, RecoverCommitted, durable, git, HEAD
  <2>3. Booked(st')
    BY <1>6, <2>1, CountingBooks
  <2>4. Booked(st)'
    BY <2>2, <2>3 DEF Booked
  <2>5. Booked(saved)'
    BY <1>3, <1>6 DEF Booked
  <2> QED
    BY <1>1, <1>2, <2>4, <2>5 DEF BookInv
<1> QED
  BY <1>0, <1>4, <1>5, <1>6, CountStep

-----------------------------------------------------------------------------
(* As long as nobody else commits *)

\* Only somebody else's commit uses up the bound of such commits.
LEMMA ForeignStep ==
    ASSUME [Next]_vars
    PROVE  foreign' = foreign \/ ForeignCommit
<1> USE DEF spent
<1>1. CASE UNCHANGED vars \/ Start
  BY <1>1 DEF vars, Start
<1>2. CASE Exploration
  BY <1>2 DEF Exploration, StopAtBudget, Plan, Materialize, BeginExploring,
     SealCandidate, SubmitPlain, SaveReport, PublishReport, ResubmitReport,
     EndSession, Assess, Capture
<1>3. CASE Recording
  BY <1>3 DEF Recording, BaseMoved, Raise, WriteAudit, Squash, Screen, WriteRecord,
     AddRecord, CommitPromotion, CommitOutcome, PromotionFails, Account, MarkPromoted,
     Persist, RemoveWorktree, ClearActive
<1>4. CASE Recovery
  BY <1>4 DEF Recovery, RecoverHandoff, ResumeExploring, RecordInterrupted,
     CountInterrupted, PauseForAudit, RecoverCommitted, DetachWorktree, SaveStall,
     SaveRecovered
<1>5. CASE World
  BY <1>5 DEF World, Crash, LoseAudit, RestoreAudit, AcknowledgeMissing
<1> QED
  BY <1>1, <1>2, <1>3, <1>4, <1>5 DEF Next

\* While the history is the campaign's alone, the step before it was, and this step
\* was nobody else's either.
LEMMA StillAlone ==
    ASSUME TypeInv, [Next]_vars, foreign' = 0
    PROVE  foreign = 0 /\ ~ ForeignCommit
<1>1. foreign \in Nat
  BY EpisodeAssumption DEF TypeInv, TypeOK
<1>2. ~ ForeignCommit
  BY <1>1 DEF ForeignCommit
<1> QED
  BY <1>2, ForeignStep

\* The books are kept for as long as nobody else commits to the incumbent workspace.
AloneInv == foreign = 0 => BookInv

\* A fresh campaign has nothing to count.
LEMMA BookInit == Init => BookInv
<1> SUFFICES ASSUME Init
             PROVE  BookInv
  OBVIOUS
<1>1. LedgerInv
  BY LedgerInit
<1>2. HEAD = 1 /\ Commits = {1} /\ active = None /\ pc = "down"
  BY DEF Init, HEAD, Commits
<1>3. /\ DOMAIN st.attempts = {} /\ DOMAIN saved.attempts = {}
  BY DEF Init, FreshState
<1> QED
  BY <1>1, <1>2, <1>3
  DEF BookInv, OwnCommits, VersionsUp, TipOwned, VerdictOfTip, Booked

\* From the fresh campaign on, every step keeps the tally, and while nobody else
\* commits the books as well.
LEMMA BookInvariant == Spec => [](TallyInv /\ AloneInv)
<1>1. Init => AloneInv
  BY BookInit DEF AloneInv
<1>2. TallyInv /\ TallyInv' /\ AloneInv /\ [Next]_vars => AloneInv'
  <2> SUFFICES ASSUME TallyInv, TallyInv', AloneInv, [Next]_vars, foreign' = 0
               PROVE  BookInv'
    BY DEF AloneInv
  <2>1. TypeInv
    BY DEF TallyInv, AccountInv, CheckoutInv, HistoryInv
  <2>2. foreign = 0 /\ ~ ForeignCommit
    BY <2>1, StillAlone
  <2> QED
    BY <2>2, BookStep DEF AloneInv
<1> QED
  BY <1>1, <1>2, TallyInvariant, PTL DEF Spec

\* Between Episodes the saved state matches the books.
LEMMA BooksMatch ==
    ASSUME TallyInv, BookInv, active = None
    PROVE  Matches(saved, CampaignCommits) /\ VersionsIncrease(CampaignCommits)
<1>1. /\ history \in Seq(Commit) /\ HEAD \in Nat \ {0} /\ HEAD = Len(history)
      /\ saved \in SupervisorState
  BY DEF TallyInv, AccountInv, CheckoutInv, HistoryInv, TypeInv, TypeOK, HEAD
<1>2. /\ saved.attempts \in Seq(Attempt) /\ DOMAIN saved.attempts = 1 .. HEAD - 1
      /\ Numbered(saved, HEAD - 1)
  BY <1>1 DEF BookInv, LedgerInv, SupervisorState, Numbered
<1>3. /\ Len(CampaignCommits) = HEAD - 1 /\ DOMAIN CampaignCommits = 1 .. HEAD - 1
      /\ \A i \in 1 .. HEAD - 1 : CampaignCommits[i] = history[i + 1]
  <2>1. history # <<>>
    BY <1>1
  <2>2. /\ CampaignCommits \in Seq(Commit) /\ Len(CampaignCommits) = HEAD - 1
        /\ \A i \in 1 .. HEAD - 1 : CampaignCommits[i] = history[i + 1]
    BY <1>1, <2>1 DEF CampaignCommits
  <2> QED
    BY <1>1, <2>2
<1>4. \A i \in 1 .. HEAD - 1 :
        /\ saved.attempts[i].episode = i /\ history[i + 1].episode = i
        /\ BookedAs(saved.attempts[i], history[i + 1])
  <2> SUFFICES ASSUME NEW i \in 1 .. HEAD - 1
               PROVE  /\ saved.attempts[i].episode = i /\ history[i + 1].episode = i
                      /\ BookedAs(saved.attempts[i], history[i + 1])
    OBVIOUS
  <2>1. i + 1 \in 2 .. HEAD /\ (i + 1) - 1 = i
    BY <1>1
  <2>2. history[i + 1].episode = i
    BY <2>1 DEF BookInv, OwnCommits
  <2> QED
    BY <1>2, <2>2 DEF BookInv, Booked, Numbered
<1>5. \A outcome \in Outcome :
        saved.tally[outcome] =
            Cardinality({i \in DOMAIN saved.attempts :
                OutcomeOf(saved.attempts[i].status,
                          saved.attempts[i].accepted) = outcome})
  BY DEF TallyInv, Tallied, Counts
<1>6. Matches(saved, CampaignCommits)
  <2>1. saved.episodes = HEAD - 1 /\ Len(saved.attempts) = HEAD - 1
    BY <1>2 DEF Numbered
  <2>2. \A i \in DOMAIN CampaignCommits :
            /\ saved.attempts[i].episode = i /\ CampaignCommits[i].episode = i
            /\ saved.attempts[i].version = CampaignCommits[i].version
            /\ saved.attempts[i].status = CampaignCommits[i].status
            /\ saved.attempts[i].accepted <=> CampaignCommits[i].kind = "promotion"
    BY <1>3, <1>4 DEF BookedAs
  <2> QED
    BY <1>3, <1>5, <2>1, <2>2 DEF Matches
<1>7. VersionsIncrease(CampaignCommits)
  <2> SUFFICES ASSUME NEW i \in 1 .. HEAD - 1, NEW j \in 1 .. HEAD - 1, i < j
               PROVE  history[i + 1].version < history[j + 1].version
    BY <1>3 DEF VersionsIncrease
  <2>1. i + 1 \in Commits /\ j + 1 \in Commits /\ i + 1 < j + 1
    BY <1>1 DEF Commits
  <2> QED
    BY <2>1 DEF BookInv, VersionsUp
<1> QED
  BY <1>6, <1>7

\* Between Episodes state.json counts every commit of the campaign once, in order and
\* as what it was, whatever crashed, failed or was retried in between, and no Episode
\* or version number is used twice.
THEOREM EpisodesCountOnce == Spec => []ExactlyOnce
<1>1. TallyInv /\ AloneInv => ExactlyOnce
  BY BooksMatch DEF AloneInv, ExactlyOnce
<1> QED
  BY <1>1, BookInvariant, PTL

\* With nobody else committing to the incumbent workspace, the durable history and
\* its accounting are the ledger's, through every crash, failure and recovery: no
\* commit is written before the last one is counted, and none is counted twice.
THEOREM LedgerIsImplemented ==
    ASSUME MaxForeign = 0
    PROVE  Spec => Ledger!Spec
<1>1. Init => Ledger!Init
  BY LedgerInit
<1>2. TallyInv /\ AloneInv /\ (TallyInv /\ AloneInv)' /\ [Next]_vars =>
          [Ledger!Next]_(Ledger!ledger)
  <2> SUFFICES ASSUME TallyInv, TallyInv', AloneInv, [Next]_vars
               PROVE  [Ledger!Next]_(Ledger!ledger)
    OBVIOUS
  <2>1. AccountInv /\ AccountInv' /\ TypeInv
    BY DEF TallyInv, AccountInv, CheckoutInv, HistoryInv
  <2>2. foreign = 0 /\ ~ ForeignCommit
    BY <2>1 DEF TypeInv, TypeOK, ForeignCommit
  <2>3. LedgerInv
    BY <2>2 DEF AloneInv, BookInv
  <2> QED
    BY <2>1, <2>2, <2>3, LedgerNext
<1> QED
  BY <1>1, <1>2, BookInvariant, PTL DEF Spec, Ledger!Spec
=============================================================================
