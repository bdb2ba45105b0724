----------------------- MODULE EpisodeLifecycleProofs -----------------------
(***************************************************************************)
(* Theorems about EpisodeLifecycle for every value of its constants: any   *)
(* number of Episodes, crashes, lost audits and foreign commits.           *)
(***************************************************************************)
EXTENDS EpisodeLifecycle, TLAPS, FiniteSetTheorems, SequenceTheorems

USE EpisodeAssumption, NoneAssumption

-----------------------------------------------------------------------------
(* Types *)

\* An Episode is under way wherever a step reads its checkpoint, and its base is
\* a commit of the incumbent.
UnderWay ==
    /\ pc \notin {"down", "choose", "stopped"} => active # None
    /\ active # None => active.base \in 1 .. HEAD

\* A report that is not open has a terminal status, and only such a report is
\* handed off.
Reported ==
    /\ report # Open => report.status \in ReportStatus
    /\ handoff => report # Open
    /\ request # None => pc = "session"
    /\ request # None /\ request.step = "publish" => report # Open

\* Between its squash and its commit a promotion has the judged candidate staged;
\* an outcome is never recorded of an accepted verdict.
Staging ==
    /\ pc = "outcome" => ~ verdict.accepted
    /\ pc \in {"screen", "write"} \/ (pc \in {"add", "commit"} /\ verdict.accepted)
        => staged = verdict.kernel

TypeInv == TypeOK /\ UnderWay /\ Reported /\ Staging

\* How one terminal status is counted is one of the counters.
LEMMA OutcomeOfType ==
    ASSUME NEW status \in Status, NEW accepted \in BOOLEAN
    PROVE  OutcomeOf(status, accepted) \in Outcome
  BY DEF OutcomeOf, Status, ReportStatus, Outcome

\* Counting an Episode keeps a SupervisorState a SupervisorState.
LEMMA CountedType ==
    ASSUME NEW s \in SupervisorState, NEW episode \in Episode, NEW version \in Nat,
           NEW status \in Status, NEW accepted \in BOOLEAN
    PROVE  Counted(s, episode, version, status, accepted) \in SupervisorState
<1> DEFINE o == OutcomeOf(status, accepted)
           attempt == [episode |-> episode, version |-> version,
                       status |-> status, accepted |-> accepted]
<1>1. o \in Outcome
  BY OutcomeOfType
<1>2. attempt \in Attempt
  BY DEF Attempt
<1>3. /\ s.episodes \in Nat /\ s.consecutive \in Nat
      /\ s.tally \in [Outcome -> Nat] /\ s.attempts \in Seq(Attempt)
  BY DEF SupervisorState
<1>4. Later(s.episodes, episode) \in Nat
  BY <1>3 DEF Later, Episode
<1>5. [s.tally EXCEPT ![o] = @ + 1] \in [Outcome -> Nat]
  BY <1>1, <1>3
<1>6. Append(s.attempts, attempt) \in Seq(Attempt)
  BY <1>2, <1>3
<1>7. (IF accepted THEN 0 ELSE s.consecutive + 1) \in Nat
  BY <1>3
<1> QED
  BY <1>2, <1>4, <1>5, <1>6, <1>7 DEF SupervisorState, Counted

\* reconstruct_stall counts a finite set of commits.
LEMMA RestoredStallType ==
    ASSUME TypeOK
    PROVE  RestoredStall \in Nat
<1> DEFINE unchanged == {i \in 2 .. HEAD :
               \A j \in i .. HEAD : history[j].kernel = history[j-1].kernel}
<1>1. HEAD \in Nat
  BY DEF TypeOK, HEAD
<1>2. IsFiniteSet(2 .. HEAD)
  BY <1>1, FS_Interval
<1>3. IsFiniteSet(unchanged)
  BY <1>2, FS_Subset
<1>4. TrailingUnchanged \in Nat
  BY <1>3, FS_CardinalityType DEF TrailingUnchanged
<1> QED
  BY <1>4 DEF RestoredStall, TypeOK

\* Moving the phase of a checkpoint, or marking its terminal status, keeps it one.
LEMMA ActivePhase ==
    ASSUME NEW a \in Active, NEW phase \in Phase
    PROVE  /\ [a EXCEPT !.phase = phase] \in Active
           /\ [a EXCEPT !.phase = phase].base = a.base
  BY DEF Active

\* Writing a terminal status into the checkpoint keeps it an active Episode, as
\* every save_active of a phase change does.
LEMMA ActiveTerminal ==
    ASSUME NEW a \in Active, NEW phase \in Phase, NEW status \in Status
    PROVE  /\ [a EXCEPT !.phase = phase, !.terminal = status] \in Active
           /\ [a EXCEPT !.phase = phase, !.terminal = status].base = a.base
  BY DEF Active

\* The fields of a checkpoint.
LEMMA ActiveFields ==
    ASSUME NEW a \in Active
    PROVE  /\ a.episode \in Episode /\ a.version \in Nat /\ a.base \in Nat
           /\ a.phase \in Phase /\ a.terminal \in Status \cup {"none"}
  BY DEF Active

\* The fields of a verdict, and the verdict with another decision.
LEMMA VerdictFields ==
    ASSUME NEW v \in Verdict
    PROVE  /\ v.status \in Status /\ v.kernel \in Kernel
           /\ v.accepted \in BOOLEAN /\ v.recovered \in BOOLEAN
           /\ \A accepted \in BOOLEAN : [v EXCEPT !.accepted = accepted] \in Verdict
  BY DEF Verdict

\* What an ended Session or a recovered handoff is judged on.
LEMMA VerdictType ==
    ASSUME NEW status \in Status, NEW kernel \in Kernel, NEW accepted \in BOOLEAN,
           NEW recovered \in BOOLEAN
    PROVE  [status |-> status, kernel |-> kernel, accepted |-> accepted,
            recovered |-> recovered] \in Verdict
  BY DEF Verdict

\* The verdict an Episode starts with, before _assess_terminal_handoff, is one.
LEMMA NoVerdictType ==
    NoVerdict \in Verdict /\ [NoVerdict EXCEPT !.recovered = TRUE] \in Verdict
  BY DEF NoVerdict, Verdict, Status

\* The fields of a commit of the incumbent branch.
LEMMA CommitFields ==
    ASSUME TypeInv, NEW i \in 1 .. HEAD
    PROVE  /\ history[i].kernel \in Kernel /\ history[i].version \in Nat
           /\ history[i].audit \in Evidence /\ history[i].episode \in Episode \cup {0}
<1>1. history[i] \in Commit
  BY ElementOfSeq DEF TypeInv, TypeOK, HEAD
<1> QED
  BY <1>1 DEF Commit

\* The absent evidence of a commit without a private audit is evidence by type.
LEMMA NoEvidenceType == NoEvidence \in Evidence
  BY DEF NoEvidence, Evidence, Episode

\* HEAD is one of the commits.
LEMMA TipFields ==
    ASSUME TypeInv
    PROVE  HEAD \in 1 .. HEAD /\ Tip.kernel \in Kernel /\ Tip.audit \in Evidence
<1>1. HEAD \in Nat /\ HEAD > 0
  BY DEF TypeInv, TypeOK, HEAD
<1> QED
  BY <1>1, CommitFields DEF Tip

\* A rollback lands on the base commit of the Episode under way.
LEMMA ResetHardType ==
    ASSUME TypeInv, active # None, ResetHard
    PROVE  /\ history' \in Seq(Commit)
           /\ Len(history') = active.base
           /\ \A i \in 1 .. active.base : history'[i] = history[i]
           /\ staged' = None
           /\ record' \in [where : {"none", "file", "staged"}, version : Nat]
<1>1. active.base \in 1 .. Len(history) /\ history \in Seq(Commit)
  BY DEF TypeInv, TypeOK, UnderWay, HEAD
<1>2. history' = SubSeq(history, 1, active.base)
  BY DEF ResetHard
<1>3. /\ history' \in Seq(Commit)
      /\ Len(history') = active.base
      /\ \A i \in 1 .. active.base : history'[i] = history[i]
  BY <1>1, <1>2, SubSeqProperties
<1>4. record' \in [where : {"none", "file", "staged"}, version : Nat]
  BY DEF ResetHard, TypeInv, TypeOK, NoRecord
<1> QED
  BY <1>3, <1>4 DEF ResetHard

\* The git reset of an incomplete squash leaves a checkout and a history.
LEMMA RollBackType ==
    ASSUME TypeInv, active # None, RollBack
    PROVE  /\ history' \in Seq(Commit)
           /\ Len(history') \in {Len(history), active.base}
           /\ staged' \in Kernel \cup {None}
           /\ record' \in [where : {"none", "file", "staged"}, version : Nat]
<1>1. CASE ResetHard
  BY <1>1, ResetHardType
<1>2. CASE UNCHANGED git
  BY <1>2 DEF git, TypeInv, TypeOK
<1> QED
  BY <1>1, <1>2 DEF RollBack

\* A loaded state is a SupervisorState.
LEMMA LoadedStateType ==
    ASSUME TypeOK
    PROVE  LoadedState \in SupervisorState
  BY RestoredStallType DEF LoadedState, SupervisorState, TypeOK

\* Every step keeps the types and the checkpoint of the Episode under way.
LEMMA TypeStep == TypeInv /\ [Next]_vars => TypeInv'
<1> SUFFICES ASSUME TypeInv, [Next]_vars
             PROVE  TypeInv'
  OBVIOUS
<1>1. CASE UNCHANGED vars
  BY <1>1 DEF vars, TypeInv, TypeOK, UnderWay, Reported, Staging, HEAD, durable, git, spent
<1>2. CASE Next
  <2>1. CASE Start
    <3>1. LoadedState \in SupervisorState
      BY <2>1, LoadedStateType DEF TypeInv
    <3>2. NoVerdict \in Verdict
      BY <2>1, NoVerdictType
    <3> QED
      BY <2>1, <3>1, <3>2 DEF Start, TypeInv, TypeOK, UnderWay, Reported,
         Staging, HEAD, durable, git, spent
  <2>2. CASE StopAtBudget
    BY <2>2 DEF StopAtBudget, TypeInv, TypeOK, UnderWay, Reported, Staging,
       HEAD, durable, git, spent
  <2>3. CASE Plan
    <3>1. PICK latest \in KnownVersions : active' = [episode |-> st.episodes + 1,
              version |-> latest + 1, base |-> HEAD, phase |-> "preparing",
              terminal |-> "none"]
      BY <2>3 DEF Plan
    <3>2. latest \in Nat
      BY <2>3, CommitFields DEF KnownVersions, Commits, TypeInv, TypeOK
    <3>3. st.episodes + 1 \in Episode
      BY <2>3, SMTT(30) DEF Plan, Episode, SupervisorState, TypeInv, TypeOK
    <3>4. active' \in Active /\ active'.base = HEAD
      BY <2>3, <3>1, <3>2, <3>3 DEF Active, Phase, HEAD, TypeInv, TypeOK
    <3>5. Open \in Report
      BY <2>3 DEF Open, Report
    <3>6. TypeOK'
      BY <2>3, <3>1, <3>2, <3>3, <3>4, <3>5 DEF Plan, TypeInv, TypeOK,
         UnderWay, Reported, Staging, HEAD, durable, git, spent
    <3>7. UnderWay'
      BY <2>3, <3>1, <3>2, <3>3, <3>4, <3>5 DEF Plan, TypeInv, TypeOK,
         UnderWay, Reported, Staging, HEAD, durable, git, spent
    <3>8. (Reported /\ Staging)'
      BY <2>3, <3>1, <3>2, <3>3, <3>4, <3>5 DEF Plan, TypeInv, TypeOK,
         UnderWay, Reported, Staging, HEAD, durable, git, spent
    <3> QED
      BY <3>6, <3>7, <3>8 DEF TypeInv
  <2>4. CASE Materialize
    <3>1. active \in Active /\ active.base \in 1 .. HEAD
      BY <2>4 DEF Materialize, TypeInv, TypeOK, UnderWay
    <3>2. worktree' \in Kernel
      BY <2>4, <3>1, CommitFields DEF Materialize
    <3> QED
      BY <2>4, <3>1, <3>2 DEF Materialize, TypeInv, TypeOK, UnderWay,
         Reported, Staging, HEAD, durable, git, spent
  <2>5. CASE BeginExploring
    <3>1. active \in Active /\ active.base \in 1 .. HEAD
      BY <2>5 DEF BeginExploring, TypeInv, TypeOK, UnderWay
    <3>2. active' \in Active /\ active'.base = active.base
      BY <2>5, <3>1, ActivePhase DEF BeginExploring, Phase
    <3> QED
      BY <2>5, <3>1, <3>2 DEF BeginExploring, TypeInv, TypeOK, UnderWay,
         Reported, Staging, HEAD, durable, git, spent
  <2>6. CASE \E k \in Kernel : SealCandidate(k)
    BY <2>6, SMTT(30) DEF SealCandidate, Request, ReportStatus, TypeInv, TypeOK,
       UnderWay, Reported, Staging, HEAD, durable, git, spent
  <2>7. CASE \E status \in {"pivot", "blocked"} : SubmitPlain(status)
    BY <2>7, SMTT(30) DEF SubmitPlain, Request, ReportStatus, TypeInv, TypeOK,
       UnderWay, Reported, Staging, HEAD, durable, git, spent
  <2>8. CASE SaveReport
    <3>1. request \in Request
      BY <2>8 DEF SaveReport, TypeInv, TypeOK
    <3>2. /\ report' \in Report /\ report'.status \in ReportStatus
          /\ report'.status # "open" /\ request' \in Request
      BY <2>8, <3>1 DEF SaveReport, Request, Report, ReportStatus
    <3>3. report' # Open
      BY <2>8, <3>2 DEF Open
    <3> QED
      BY <2>8, <3>1, <3>2, <3>3 DEF SaveReport, TypeInv, TypeOK, UnderWay,
         Reported, Staging, HEAD, durable, git, spent
  <2>9. CASE PublishReport
    BY <2>9 DEF PublishReport, TypeInv, TypeOK, UnderWay, Reported, Staging,
       HEAD, durable, git, spent
  <2>10. CASE ResubmitReport
    BY <2>10, SMTT(30) DEF ResubmitReport, Request, Report, ReportStatus, TypeInv,
       TypeOK, UnderWay, Reported, Staging, HEAD, durable, git, spent
  <2>12. CASE EndSession
    <3>1. BaseKernel \in Kernel
      BY EpisodeAssumption DEF EpisodeAssumption
    <3>2. handoff => report.status \in Status /\ report.kernel \in Kernel
      BY DEF TypeInv, TypeOK, Reported, Report, Status
    <3>3. verdict' \in Verdict
      <4>1. CASE handoff /\ verdict' = [status |-> report.status, kernel |-> report.kernel,
                                        accepted |-> FALSE, recovered |-> FALSE]
        BY <3>2, <4>1, VerdictType
      <4>2. CASE verdict' = [status |-> "invalid_handoff", kernel |-> BaseKernel,
                             accepted |-> FALSE, recovered |-> FALSE]
        <5>1. "invalid_handoff" \in Status
          BY DEF Status
        <5> QED
          BY <3>1, <4>2, <5>1, VerdictType
      <4> QED
        BY <2>12, <4>1, <4>2 DEF EndSession
    <3>4. /\ pc' = "assess" /\ pc # "outcome" /\ request' = None /\ saved' = st
          /\ UNCHANGED <<git, audits, receipts, active, stall, worktree, report,
                         handoff, st, spent>>
      BY <2>12 DEF EndSession
    <3>5. TypeOK'
      BY <3>3, <3>4 DEF TypeInv, TypeOK, HEAD, durable, git, spent
    <3>6. (UnderWay /\ Reported /\ Staging)'
      BY <2>12, <3>4 DEF EndSession, TypeInv, TypeOK, UnderWay, Reported, Staging,
         HEAD, durable, git, spent
    <3> QED
      BY <3>5, <3>6 DEF TypeInv
  <2>13. CASE Assess
    <3>1. active \in Active /\ active.base \in 1 .. HEAD
      BY <2>13 DEF Assess, TypeInv, TypeOK, UnderWay
    <3>2. active' \in Active /\ active'.base = active.base
      BY <2>13, <3>1, ActivePhase DEF Assess, Phase
    <3>3. Improves(verdict.kernel) \in BOOLEAN
      BY <2>13 DEF Improves
    <3>4. verdict' \in Verdict
      BY <2>13, <3>3, VerdictFields DEF Assess, TypeInv, TypeOK
    <3> QED
      BY <2>13, <3>1, <3>2, <3>3, <3>4 DEF Assess, TypeInv, TypeOK, UnderWay,
         Reported, Staging, HEAD, durable, git, spent
  <2>14. CASE Capture
    <3>1. active \in Active /\ active.base \in 1 .. HEAD
      BY <2>14 DEF Capture, TypeInv, TypeOK, UnderWay
    <3>2. verdict \in Verdict /\ verdict.status \in Status /\ verdict.accepted \in BOOLEAN
      BY <2>14, VerdictFields DEF TypeInv, TypeOK
    <3>3. PICK captured \in BOOLEAN :
              /\ verdict' = [verdict EXCEPT !.accepted = verdict.accepted /\ captured]
              /\ active' = IF verdict.accepted /\ captured
                           THEN [active EXCEPT !.phase = "promoting"]
                           ELSE [active EXCEPT !.phase = "recording",
                                               !.terminal = verdict.status]
              /\ pc' = IF verdict.accepted /\ captured THEN "audit" ELSE "outcome"
      BY <2>14 DEF Capture
    <3>4. active' \in Active /\ active'.base = active.base
      BY <2>14, <3>1, <3>2, <3>3, ActivePhase, ActiveTerminal DEF Phase
    <3>5. (verdict.accepted /\ captured) \in BOOLEAN
      BY <2>14, <3>2
    <3>6. verdict' \in Verdict
      BY <2>14, <3>2, <3>3, <3>5, VerdictFields
    <3>7. /\ pc' \in {"audit", "outcome"} /\ pc # "session"
          /\ pc' = "outcome" => ~ verdict'.accepted
      BY <2>14, <3>2, <3>3 DEF Capture, Verdict
    <3>8. UNCHANGED <<git, audits, receipts, saved, stall, worktree, report, handoff, st,
                    request, spent>>
      BY <2>14 DEF Capture
    <3> QED
      BY <3>1, <3>2, <3>3, <3>4, <3>5, <3>6, <3>7, <3>8, ZenonT(40) DEF TypeInv, TypeOK,
         UnderWay, Reported, Staging, HEAD, durable, git, spent
  <2>15. CASE BaseMoved
    BY <2>15 DEF BaseMoved, Raise, TypeInv, TypeOK, UnderWay, Reported,
       Staging, HEAD, durable, git, spent
  <2>16. CASE WriteAudit
    BY <2>16 DEF WriteAudit, PromotionEvidence, Evidence, Active, Verdict,
       TypeInv, TypeOK, UnderWay, Reported, Staging, HEAD, durable, git,
       spent
  <2>17. CASE Squash
    BY <2>17 DEF Squash, Verdict, TypeInv, TypeOK, UnderWay, Reported,
       Staging, HEAD, durable, git, spent
  <2>18. CASE Screen
    <3>1. active \in Active /\ active.base \in 1 .. HEAD
      BY <2>18 DEF Screen, TypeInv, TypeOK, UnderWay
    <3>2. /\ history' \in Seq(Commit) /\ Len(history') \in {Len(history), active.base}
          /\ staged' \in Kernel \cup {None}
          /\ record' \in [where : {"none", "file", "staged"}, version : Nat]
      BY <2>18, <3>1, ResetHardType DEF Screen, git, TypeInv, TypeOK
    <3> QED
      BY <2>18, <3>1, <3>2 DEF Screen, TypeInv, TypeOK, UnderWay, Reported,
         Staging, HEAD, durable, git, spent
  <2>19. CASE WriteRecord
    <3>1. active \in Active /\ active.base \in 1 .. HEAD
      BY <2>19 DEF WriteRecord, TypeInv, TypeOK, UnderWay
    <3>2. active.version \in Nat
      BY <2>19, <3>1, ActiveFields
    <3> QED
      BY <2>19, <3>1, <3>2 DEF WriteRecord, TypeInv, TypeOK, UnderWay,
         Reported, Staging, HEAD, durable, git, spent
  <2>20. CASE AddRecord
    BY <2>20 DEF AddRecord, TypeInv, TypeOK, UnderWay, Reported, Staging,
       HEAD, durable, git, spent
  <2>21. CASE CommitPromotion
    <3>1. active \in Active /\ active.base \in 1 .. HEAD
      BY <2>21 DEF CommitPromotion, TypeInv, TypeOK, UnderWay
    <3>2. /\ active.episode \in Episode /\ active.version \in Nat /\ active.base \in Nat
          /\ verdict.kernel \in Kernel /\ verdict.recovered \in BOOLEAN
      BY <2>21, <3>1, ActiveFields, VerdictFields DEF TypeInv, TypeOK
    <3>3. PromotionEvidence \in Evidence
      BY <2>21, <3>2 DEF PromotionEvidence, Evidence
    <3>4. staged \in Kernel
      BY <2>21, <3>2 DEF CommitPromotion, Staging, TypeInv
    <3>5. /\ history' \in Seq(Commit) /\ Len(history') = Len(history) + 1
      BY <2>21, <3>2, <3>3, <3>4 DEF CommitPromotion, Commit, Status,
         ReportStatus, TypeInv, TypeOK
    <3>6. TypeOK'
      BY <2>21, <3>1, <3>2, <3>3, <3>4, <3>5 DEF CommitPromotion, NoRecord,
         TypeInv, TypeOK, UnderWay, Reported, Staging, HEAD, durable, git,
         spent
    <3>7. UnderWay'
      BY <2>21, <3>1, <3>2, <3>3, <3>4, <3>5 DEF CommitPromotion, NoRecord,
         TypeInv, TypeOK, UnderWay, Reported, Staging, HEAD, durable, git,
         spent
    <3>8. (Reported /\ Staging)'
      BY <2>21, <3>1, <3>2, <3>3, <3>4, <3>5 DEF CommitPromotion, NoRecord,
         TypeInv, TypeOK, UnderWay, Reported, Staging, HEAD, durable, git,
         spent
    <3> QED
      BY <3>6, <3>7, <3>8 DEF TypeInv
  <2>22. CASE CommitOutcome
    <3>1. active \in Active /\ active.base \in 1 .. HEAD
      BY <2>22 DEF CommitOutcome, TypeInv, TypeOK, UnderWay
    <3>2. active.episode \in Episode /\ active.version \in Nat /\ verdict.status \in Status
      BY <2>22, <3>1, ActiveFields, VerdictFields DEF TypeInv, TypeOK
    <3>3. NoEvidence \in Evidence /\ Tip.kernel \in Kernel
      BY <2>22, NoEvidenceType, TipFields
    <3>4. /\ history' \in Seq(Commit) /\ Len(history') = Len(history) + 1
      BY <2>22, <3>2, <3>3 DEF CommitOutcome, Commit, TypeInv, TypeOK
    <3>5. TypeOK'
      BY <2>22, <3>1, <3>2, <3>3, <3>4 DEF CommitOutcome, NoRecord, TypeInv,
         TypeOK, UnderWay, Reported, Staging, HEAD, durable, git, spent
    <3>6. UnderWay'
      BY <2>22, <3>1, <3>2, <3>3, <3>4 DEF CommitOutcome, NoRecord, TypeInv,
         TypeOK, UnderWay, Reported, Staging, HEAD, durable, git, spent
    <3>7. (Reported /\ Staging)'
      BY <2>22, <3>1, <3>2, <3>3, <3>4 DEF CommitOutcome, NoRecord, TypeInv,
         TypeOK, UnderWay, Reported, Staging, HEAD, durable, git, spent
    <3> QED
      BY <3>5, <3>6, <3>7 DEF TypeInv
  <2>23. CASE PromotionFails
    <3>1. active \in Active /\ active.base \in 1 .. HEAD
      BY <2>23 DEF PromotionFails, TypeInv, TypeOK, UnderWay
    <3>2. /\ history' \in Seq(Commit) /\ Len(history') \in {Len(history), active.base}
          /\ staged' \in Kernel \cup {None}
          /\ record' \in [where : {"none", "file", "staged"}, version : Nat]
      BY <2>23, <3>1, ResetHardType DEF PromotionFails, TypeInv, TypeOK
    <3> QED
      BY <2>23, <3>1, <3>2 DEF PromotionFails, TypeInv, TypeOK, UnderWay,
         Reported, Staging, HEAD, durable, git, spent
  <2>24. CASE Account
    <3>1. active \in Active /\ active.base \in 1 .. HEAD
      BY <2>24 DEF Account, TypeInv, TypeOK, UnderWay
    <3>2. st' \in SupervisorState
      BY <2>24, <3>1, CountedType, ActiveFields, VerdictFields DEF Account,
         TypeInv, TypeOK
    <3>3. stall' \in Nat
      BY <2>24, <3>2 DEF Account, SupervisorState
    <3> QED
      BY <2>24, <3>1, <3>2, <3>3 DEF Account, TypeInv, TypeOK, UnderWay,
         Reported, Staging, HEAD, durable, git, spent
  <2>25. CASE MarkPromoted
    <3>1. active \in Active /\ active.base \in 1 .. HEAD
      BY <2>25 DEF MarkPromoted, TypeInv, TypeOK, UnderWay
    <3>2. active' \in Active /\ active'.base = active.base
      BY <2>25, <3>1, ActivePhase DEF MarkPromoted, Phase
    <3> QED
      BY <2>25, <3>1, <3>2 DEF MarkPromoted, TypeInv, TypeOK, UnderWay,
         Reported, Staging, HEAD, durable, git, spent
  <2>26. CASE Persist
    BY <2>26 DEF Persist, TypeInv, TypeOK, UnderWay, Reported, Staging, HEAD,
       durable, git, spent
  <2>27. CASE RemoveWorktree
    BY <2>27 DEF RemoveWorktree, TypeInv, TypeOK, UnderWay, Reported,
       Staging, HEAD, durable, git, spent
  <2>28. CASE ClearActive
    BY <2>28 DEF ClearActive, TypeInv, TypeOK, UnderWay, Reported, Staging,
       HEAD, durable, git, spent
  <2>29. CASE RecoverHandoff
    <3>1. active \in Active /\ active.base \in 1 .. HEAD
      BY <2>29 DEF RecoverHandoff, TypeInv, TypeOK, UnderWay
    <3>2. /\ history' \in Seq(Commit) /\ Len(history') \in {Len(history), active.base}
          /\ staged' \in Kernel \cup {None}
          /\ record' \in [where : {"none", "file", "staged"}, version : Nat]
      BY <2>29, <3>1, RollBackType DEF RecoverHandoff
    <3>3. report.status \in Status /\ report.kernel \in Kernel
      BY <2>29 DEF RecoverHandoff, TypeInv, TypeOK, Reported, Report, Status
    <3>4. verdict' \in Verdict
      BY <2>29, <3>3, VerdictType DEF RecoverHandoff
    <3> QED
      BY <2>29, <3>1, <3>2, <3>3, <3>4 DEF RecoverHandoff, TypeInv, TypeOK,
         UnderWay, Reported, Staging, HEAD, durable, git, spent
  <2>30. CASE ResumeExploring
    <3>1. active \in Active /\ active.base \in 1 .. HEAD
      BY <2>30 DEF ResumeExploring, TypeInv, TypeOK, UnderWay
    <3>2. /\ history' \in Seq(Commit) /\ Len(history') \in {Len(history), active.base}
          /\ staged' \in Kernel \cup {None}
          /\ record' \in [where : {"none", "file", "staged"}, version : Nat]
      BY <2>30, <3>1, RollBackType DEF ResumeExploring
    <3>3. active' \in Active /\ active'.base = active.base
      BY <2>30, <3>1, ActivePhase DEF ResumeExploring, Phase
    <3>4. /\ pc' = "session" /\ handoff' = (report # Open) /\ handoff' \in BOOLEAN
          /\ UNCHANGED <<audits, receipts, saved, stall, worktree, report, st, verdict,
                         request, spent>>
      BY <2>30 DEF ResumeExploring
    <3>5. TypeOK'
      BY <3>1, <3>2, <3>3, <3>4 DEF TypeInv, TypeOK, UnderWay, Reported,
         Staging, HEAD, durable, git, spent
    <3>6. UnderWay'
      BY <3>1, <3>2, <3>3, <3>4 DEF TypeInv, TypeOK, UnderWay, Reported,
         Staging, HEAD, durable, git, spent
    <3>7. (Reported /\ Staging)'
      BY <3>1, <3>2, <3>3, <3>4 DEF TypeInv, TypeOK, UnderWay, Reported,
         Staging, HEAD, durable, git, spent
    <3> QED
      BY <3>5, <3>6, <3>7 DEF TypeInv
  <2>31. CASE RecordInterrupted
    <3>1. active \in Active /\ active.base \in 1 .. HEAD
      BY <2>31 DEF RecordInterrupted, TypeInv, TypeOK, UnderWay
    <3>2. /\ history' \in Seq(Commit) /\ Len(history') \in {Len(history), active.base}
          /\ staged' \in Kernel \cup {None}
          /\ record' \in [where : {"none", "file", "staged"}, version : Nat]
      BY <2>31, <3>1, RollBackType DEF RecordInterrupted
    <3>3. active' \in Active /\ active'.base = active.base
      BY <2>31, <3>1, ActiveTerminal DEF RecordInterrupted, Phase, Status
    <3>4. verdict' \in Verdict
      BY <2>31, NoVerdictType DEF RecordInterrupted
    <3>5. /\ pc' = "outcome" /\ ~ verdict'.accepted /\ pc # "session"
          /\ UNCHANGED <<audits, receipts, saved, stall, worktree, report, handoff, st,
                         request, spent>>
      BY <2>31 DEF RecordInterrupted, NoVerdict
    <3> QED
      BY <3>1, <3>2, <3>3, <3>4, <3>5 DEF TypeInv, TypeOK, UnderWay,
         Reported, Staging, HEAD, durable, git, spent
  <2>32. CASE CountInterrupted
    <3>1. active \in Active /\ active.base \in 1 .. HEAD
      BY <2>32 DEF CountInterrupted, TypeInv, TypeOK, UnderWay
    <3>2. active' \in Active /\ active'.base = active.base
      BY <2>32, <3>1, ActivePhase DEF CountInterrupted, Phase
    <3>3. st' \in SupervisorState
      BY <2>32, <3>1, CountedType, ActiveFields DEF CountInterrupted, Status,
         TypeInv, TypeOK
    <3> QED
      BY <2>32, <3>1, <3>2, <3>3 DEF CountInterrupted, TypeInv, TypeOK,
         UnderWay, Reported, Staging, HEAD, durable, git, spent
  <2>33. CASE PauseForAudit
    BY <2>33 DEF PauseForAudit, TypeInv, TypeOK, UnderWay, Reported, Staging,
       HEAD, durable, git, spent
  <2>34. CASE RecoverCommitted
    <3>1. active \in Active /\ active.base \in 1 .. HEAD
      BY <2>34 DEF RecoverCommitted, TypeInv, TypeOK, UnderWay
    <3> DEFINE terminal == IF RecoveredPromotion THEN "candidate_ready"
                               ELSE IF RecoveredOutcome THEN active.terminal
                               ELSE "interrupted"
    <3>2. terminal \in Status
      BY <2>34, <3>1, ActiveFields DEF RecoveredOutcome, Status, ReportStatus
    <3>3. RecoveredPromotion \in BOOLEAN
      BY <2>34 DEF RecoveredPromotion, PromotionBinding
    <3>4. Counted(st, active.episode, active.version, terminal, RecoveredPromotion)
            \in SupervisorState
      BY <2>34, <3>1, <3>2, <3>3, CountedType, ActiveFields DEF TypeInv,
         TypeOK
    <3>5. st' \in SupervisorState /\ verdict' \in Verdict
      BY <2>34, <3>4, NoVerdictType DEF RecoverCommitted, TypeInv, TypeOK
    <3> QED
      BY <2>34, <3>1, <3>2, <3>3, <3>4, <3>5 DEF RecoverCommitted, TypeInv,
         TypeOK, UnderWay, Reported, Staging, HEAD, durable, git, spent
  <2>35. CASE DetachWorktree
    BY <2>35 DEF DetachWorktree, TypeInv, TypeOK, UnderWay, Reported,
       Staging, HEAD, durable, git, spent
  <2>36. CASE SaveStall
    <3>1. stall' \in Nat
      BY <2>36 DEF SaveStall, SupervisorState, TypeInv, TypeOK
    <3> QED
      BY <2>36, <3>1 DEF SaveStall, TypeInv, TypeOK, UnderWay, Reported,
         Staging, HEAD, durable, git, spent
  <2>37. CASE SaveRecovered
    BY <2>37 DEF SaveRecovered, TypeInv, TypeOK, UnderWay, Reported, Staging,
       HEAD, durable, git, spent
  <2>38. CASE Crash
    BY <2>38 DEF Crash, TypeInv, TypeOK, UnderWay, Reported, Staging, HEAD,
       durable, git, spent
  <2>39. CASE \E e \in Episode : LoseAudit(e)
    <3>1. PICK e \in Episode : LoseAudit(e)
      BY <2>39
    <3>2. audits[e] \in Evidence
      BY <2>39, <3>1 DEF LoseAudit, TypeInv, TypeOK
    <3>3. [audits[e] EXCEPT !.version = 0] \in Evidence
      BY <2>39, <3>2 DEF Evidence
    <3>4. audits' \in [Episode -> Evidence \cup {None}]
      BY <2>39, <3>1, <3>3, ZenonT(40) DEF LoseAudit, TypeInv, TypeOK
    <3> QED
      BY <2>39, <3>1, <3>2, <3>3, <3>4, SMTT(30) DEF LoseAudit, TypeInv, TypeOK,
         UnderWay, Reported, Staging, HEAD, durable, git, spent
  <2>40. CASE RestoreAudit
    <3>1. active \in Active /\ active.base \in 1 .. HEAD
      BY <2>40 DEF RestoreAudit, TypeInv, TypeOK, UnderWay
    <3>2. active.episode \in Episode
      BY <2>40, <3>1, ActiveFields
    <3>3. Tip.audit \in Evidence
      BY <2>40, TipFields
    <3> QED
      BY <2>40, <3>1, <3>2, <3>3 DEF RestoreAudit, TypeInv, TypeOK, UnderWay,
         Reported, Staging, HEAD, durable, git, spent
  <2>41. CASE AcknowledgeMissing
    <3>1. active \in Active /\ active.base \in 1 .. HEAD
      BY <2>41 DEF AcknowledgeMissing, TypeInv, TypeOK, UnderWay
    <3>2. active.episode \in Episode
      BY <2>41, <3>1, ActiveFields
    <3> QED
      BY <2>41, <3>1, <3>2 DEF AcknowledgeMissing, TypeInv, TypeOK, UnderWay,
         Reported, Staging, HEAD, durable, git, spent
  <2>42. CASE ForeignCommit
    <3>1. NoEvidence \in Evidence /\ Tip.kernel \in Kernel
      BY <2>42, NoEvidenceType, TipFields
    <3>2. [BaseCommit EXCEPT !.kind = "foreign", !.kernel = Tip.kernel] \in Commit
      BY <2>42, <3>1 DEF BaseCommit, Commit
    <3>3. /\ history' \in Seq(Commit) /\ Len(history') = Len(history) + 1
      BY <2>42, <3>2 DEF ForeignCommit, TypeInv, TypeOK
    <3>4. TypeOK'
      BY <2>42, <3>1, <3>2, <3>3, SMTT(30) DEF ForeignCommit, TypeInv, TypeOK,
         UnderWay, Reported, Staging, HEAD, durable, git, spent
    <3>5. UnderWay'
      BY <2>42, <3>1, <3>2, <3>3, SMTT(30) DEF ForeignCommit, TypeInv, TypeOK,
         UnderWay, Reported, Staging, HEAD, durable, git, spent
    <3>6. (Reported /\ Staging)'
      BY <2>42, <3>1, <3>2, <3>3 DEF ForeignCommit, TypeInv, TypeOK,
         UnderWay, Reported, Staging, HEAD, durable, git, spent
    <3> QED
      BY <3>4, <3>5, <3>6 DEF TypeInv
  <2> QED
    BY <1>2, <2>1, <2>2, <2>3, <2>4, <2>5, <2>6, <2>7, <2>8, <2>9, <2>10,
       <2>12, <2>13, <2>14, <2>15, <2>16, <2>17, <2>18, <2>19, <2>20,
       <2>21, <2>22, <2>23, <2>24, <2>25, <2>26, <2>27, <2>28, <2>29, <2>30,
       <2>31, <2>32, <2>33, <2>34, <2>35, <2>36, <2>37, <2>38, <2>39, <2>40,
       <2>41, <2>42 DEF Next, Exploration, Recording, Recovery, World
<1> QED
  BY <1>1, <1>2

\* The initial state is well typed.
LEMMA TypeInit == Init => TypeInv
<1> SUFFICES ASSUME Init
             PROVE  TypeInv
  OBVIOUS
<1>1. BaseCommit \in Commit
  BY NoEvidenceType DEF BaseCommit, Commit
<1>2. history \in Seq(Commit) /\ Len(history) = 1
  BY <1>1 DEF Init
<1>3. FreshState \in SupervisorState
  BY DEF FreshState, SupervisorState
<1>4. Open \in Report
  BY DEF Open, Report
<1>5. crashes \in 0 .. MaxCrashes /\ losses \in 0 .. MaxLosses /\ foreign \in 0 .. MaxForeign
  BY DEF Init
<1>6. /\ audits \in [Episode -> Evidence \cup {None}]
      /\ record \in [where : {"none", "file", "staged"}, version : Nat]
      /\ saved \in SupervisorState /\ st \in SupervisorState
      /\ report \in Report /\ verdict \in Verdict
  BY <1>3, <1>4, NoVerdictType DEF Init, NoRecord
<1>7. /\ staged = None /\ receipts = {} /\ active = None /\ stall \in {None, 0}
      /\ worktree = None /\ handoff = FALSE /\ pc = "down" /\ request = None
  BY DEF Init
<1>8. /\ staged \in Kernel \cup {None} /\ worktree \in Kernel \cup {None}
      /\ active \in Active \cup {None} /\ request \in Request \cup {None}
      /\ receipts \subseteq [episode : Episode, commit : Nat]
      /\ stall \in Nat \cup {None}
  <2>1. stall \in Nat \cup {None}
    BY <1>7
  <2>2. receipts \subseteq [episode : Episode, commit : Nat]
    BY <1>7
  <2> QED
    BY <1>7, <2>1, <2>2, Zenon
<1>9. handoff \in BOOLEAN
  BY <1>7, Zenon
<1>10. TypeOK
  BY <1>2, <1>5, <1>6, <1>7, <1>8, <1>9 DEF TypeOK, HEAD
<1>11. report = Open /\ verdict.accepted = FALSE
  BY DEF Init, NoVerdict
<1> QED
  BY <1>7, <1>10, <1>11 DEF TypeInv, UnderWay, Reported, Staging

\* Every reachable state of the Episode loop is well typed.
THEOREM TypeCorrect == Spec => []TypeOK
<1>1. Spec => []TypeInv
  BY TypeInit, TypeStep, PTL DEF Spec
<1>2. TypeInv => TypeOK
  BY DEF TypeInv
<1> QED
  BY <1>1, <1>2, PTL

-----------------------------------------------------------------------------
(* The history of the incumbent *)

\* An acceptance is the judgement of this Episode's candidate against the base it
\* started from, from the verdict to the commit.
Judged ==
    /\ pc = "assess" => ~ verdict.accepted
    /\ pc \in {"capture", "audit", "squash", "screen", "write", "add", "commit"}
        /\ verdict.accepted =>
            /\ verdict.kernel \in Clean
            /\ Latency[verdict.kernel] < Latency[history[active.base].kernel]

\* promote_candidate looks at HEAD first; nothing moves it up to the commit.
OnBase == pc \in {"squash", "screen", "write", "add", "commit"} => HEAD = active.base

HistoryInv == TypeInv /\ VerifiedHistory /\ IncumbentIsBest /\ Judged /\ OnBase

\* What may be appended to the history.
GoodCommit(c) ==
    IF c.kind = "promotion"
    THEN /\ c.kernel \in Clean
         /\ Latency[c.kernel] < Latency[Tip.kernel]
         /\ c.audit.episode = c.episode
         /\ c.audit.version = c.version
         /\ c.audit.base = HEAD
         /\ c.audit.kernel = c.kernel
    ELSE c.kernel = Tip.kernel

\* A rollback at its base changes no history.
LEMMA ResetAtBase ==
    ASSUME TypeInv, active # None, HEAD = active.base, ResetHard
    PROVE  history' = history
<1>1. history \in Seq(Commit) /\ history' = SubSeq(history, 1, Len(history))
  BY DEF TypeInv, TypeOK, HEAD, ResetHard
<1> QED
  BY <1>1

\* A step leaves the history alone or appends one good commit.
LEMMA HistoryStep ==
    ASSUME HistoryInv, [Next]_vars
    PROVE  \/ history' = history
           \/ \E c \in Commit : GoodCommit(c) /\ history' = Append(history, c)
<1>1. CASE UNCHANGED vars
  BY <1>1 DEF vars, durable
<1>2. CASE Start
  BY <1>2 DEF Start, durable
<1>3. CASE Exploration
  BY <1>3 DEF Exploration, StopAtBudget, Plan, Materialize, BeginExploring,
     SealCandidate, SubmitPlain, SaveReport, PublishReport, ResubmitReport,
     EndSession, Assess, Capture, durable, git
<1>4. CASE CommitPromotion
  <2> DEFINE c == [kind |-> "promotion", episode |-> active.episode,
                   version |-> active.version, status |-> "candidate_ready",
                   kernel |-> staged, audit |-> PromotionEvidence]
  <2>1. active \in Active /\ HEAD = active.base /\ staged = verdict.kernel
    BY <1>4 DEF CommitPromotion, HistoryInv, TypeInv, TypeOK, UnderWay, Staging, OnBase
  <2>2. /\ verdict \in Verdict
        /\ verdict.kernel \in Clean
        /\ Latency[verdict.kernel] < Latency[Tip.kernel]
    BY <1>4, <2>1 DEF CommitPromotion, HistoryInv, TypeInv, TypeOK, Judged, Tip
  <2>3. PromotionEvidence \in Evidence
    BY <2>1, <2>2, ActiveFields, VerdictFields DEF PromotionEvidence, Evidence
  <2>4. c \in Commit
    BY <2>1, <2>2, <2>3, ActiveFields, VerdictFields DEF Commit, Status, ReportStatus
  <2>5. GoodCommit(c)
    BY <2>1, <2>2 DEF GoodCommit, PromotionEvidence
  <2> QED
    BY <1>4, <2>4, <2>5 DEF CommitPromotion
<1>5. CASE CommitOutcome
  <2> DEFINE c == [kind |-> "outcome", episode |-> active.episode,
                   version |-> active.version, status |-> verdict.status,
                   kernel |-> Tip.kernel, audit |-> NoEvidence]
  <2>1. active \in Active /\ verdict \in Verdict
    BY <1>5 DEF CommitOutcome, HistoryInv, TypeInv, TypeOK, UnderWay
  <2>2. c \in Commit
    BY <2>1, ActiveFields, VerdictFields, NoEvidenceType, TipFields
    DEF Commit, HistoryInv
  <2>3. GoodCommit(c)
    BY DEF GoodCommit
  <2> QED
    BY <1>5, <2>2, <2>3 DEF CommitOutcome
<1>6. CASE Screen
  BY <1>6, ResetAtBase DEF Screen, HistoryInv, TypeInv, UnderWay, OnBase, git
<1>7. CASE PromotionFails
  BY <1>7, ResetAtBase DEF PromotionFails, HistoryInv, TypeInv, UnderWay, OnBase
<1>8. CASE BaseMoved \/ WriteAudit \/ Squash \/ WriteRecord \/ AddRecord \/ Account
          \/ MarkPromoted \/ Persist \/ RemoveWorktree \/ ClearActive
  BY <1>8 DEF BaseMoved, Raise, WriteAudit, Squash, WriteRecord, AddRecord, Account,
     MarkPromoted, Persist, RemoveWorktree, ClearActive, durable, git
<1>9. CASE RecoverHandoff \/ ResumeExploring \/ RecordInterrupted
  <2>1. active # None /\ HEAD = active.base /\ RollBack
    BY <1>9 DEF RecoverHandoff, ResumeExploring, RecordInterrupted, Resumable,
       HistoryInv, TypeInv, UnderWay
  <2> QED
    BY <2>1, ResetAtBase DEF RollBack, git, HistoryInv
<1>10. CASE CountInterrupted \/ PauseForAudit \/ RecoverCommitted \/ DetachWorktree
           \/ SaveStall \/ SaveRecovered
  BY <1>10 DEF CountInterrupted, PauseForAudit, RecoverCommitted, DetachWorktree,
     SaveStall, SaveRecovered, durable, git
<1>11. CASE ForeignCommit
  <2> DEFINE c == [BaseCommit EXCEPT !.kind = "foreign", !.kernel = Tip.kernel]
  <2>1. c \in Commit /\ c.kind = "foreign" /\ c.kernel = Tip.kernel
    BY NoEvidenceType, TipFields DEF BaseCommit, Commit, HistoryInv
  <2>2. GoodCommit(c)
    BY <2>1 DEF GoodCommit
  <2> QED
    BY <1>11, <2>1, <2>2 DEF ForeignCommit
<1>12. CASE Crash \/ (\E e \in Episode : LoseAudit(e)) \/ RestoreAudit
           \/ AcknowledgeMissing
  BY <1>12 DEF Crash, LoseAudit, RestoreAudit, AcknowledgeMissing, git
<1> QED
  BY <1>1, <1>2, <1>3, <1>4, <1>5, <1>6, <1>7, <1>8, <1>9, <1>10, <1>11, <1>12
  DEF Next, Recording, Recovery, World

\* One good commit keeps the history verified and improving.
LEMMA AppendGood ==
    ASSUME TypeInv, VerifiedHistory, IncumbentIsBest, NEW c \in Commit, GoodCommit(c),
           history' = Append(history, c)
    PROVE  VerifiedHistory' /\ IncumbentIsBest'
<1> USE DEF HEAD
<1>1. /\ HEAD \in Nat /\ HEAD > 0 /\ history \in Seq(Commit)
      /\ HEAD' = HEAD + 1
      /\ \A i \in 1 .. HEAD : history'[i] = history[i]
      /\ history'[HEAD'] = c
  BY AppendProperties DEF TypeInv, TypeOK
<1>2. VerifiedHistory'
  <2> SUFFICES ASSUME NEW i \in 2 .. HEAD'
               PROVE  IF history'[i].kind = "promotion"
                      THEN /\ history'[i].kernel \in Clean
                           /\ Latency[history'[i].kernel] < Latency[history'[i-1].kernel]
                           /\ history'[i].audit.episode = history'[i].episode
                           /\ history'[i].audit.version = history'[i].version
                           /\ history'[i].audit.base = i - 1
                           /\ history'[i].audit.kernel = history'[i].kernel
                      ELSE history'[i].kernel = history'[i-1].kernel
    BY DEF VerifiedHistory
  <2>1. CASE i \in 2 .. HEAD
    <3>1. history'[i] = history[i] /\ history'[i-1] = history[i-1]
      BY <1>1, <2>1
    <3> QED
      BY <2>1, <3>1 DEF VerifiedHistory
  <2>2. CASE i = HEAD + 1
    <3>1. history'[i] = c /\ history'[i-1] = Tip /\ i - 1 = HEAD
      BY <1>1, <2>2 DEF Tip
    <3> QED
      BY <3>1 DEF GoodCommit
  <2> QED
    BY <1>1, <2>1, <2>2
<1>3. Latency[c.kernel] <= Latency[Tip.kernel] /\ Latency[c.kernel] \in Nat
  BY TipFields DEF GoodCommit, Commit
<1>4. \A i \in 1 .. HEAD : Latency[history[i].kernel] \in Nat
  BY CommitFields
<1>5. ASSUME NEW i \in 1 .. HEAD', NEW j \in 1 .. HEAD', i <= j
      PROVE  Latency[history'[j].kernel] <= Latency[history'[i].kernel]
  <2>1. CASE j \in 1 .. HEAD
    BY <1>1, <1>5, <2>1 DEF IncumbentIsBest, Commits
  <2>2. CASE j = HEAD + 1 /\ i \in 1 .. HEAD
    BY <1>1, <1>3, <1>4, <2>2, TipFields DEF IncumbentIsBest, Commits, Tip
  <2>3. CASE j = HEAD + 1 /\ i = HEAD + 1
    BY <1>1, <1>3, <2>3
  <2> QED
    BY <1>1, <1>5, <2>1, <2>2, <2>3
<1>6. IncumbentIsBest'
  BY <1>5 DEF IncumbentIsBest, Commits
<1> QED
  BY <1>2, <1>6

\* The verdict keeps its meaning up to the commit.
LEMMA JudgedStep ==
    ASSUME HistoryInv, TypeInv', [Next]_vars
    PROVE  (Judged /\ OnBase)'
<1> USE DEF HEAD, durable, git
<1>1. CASE UNCHANGED vars
  BY <1>1 DEF vars, HistoryInv, Judged, OnBase
<1>2. CASE Start
  BY <1>2 DEF Start, Judged, OnBase
<1>3. CASE StopAtBudget \/ Plan \/ Materialize \/ BeginExploring
          \/ (\E k \in Kernel : SealCandidate(k))
          \/ (\E status \in {"pivot", "blocked"} : SubmitPlain(status))
          \/ SaveReport \/ PublishReport \/ ResubmitReport
  BY <1>3 DEF StopAtBudget, Plan, Materialize, BeginExploring, SealCandidate,
     SubmitPlain, SaveReport, PublishReport, ResubmitReport, Judged, OnBase
<1>4. CASE EndSession
  BY <1>4 DEF EndSession, Judged, OnBase
<1>5. CASE Assess
  <2>1. /\ pc' = "capture" /\ UNCHANGED history
        /\ active \in Active /\ verdict \in Verdict /\ ~ verdict.accepted
    BY <1>5 DEF Assess, HistoryInv, TypeInv, TypeOK, UnderWay, Judged
  <2>2. CASE verdict.status = "candidate_ready" /\ verdict.kernel \in Clean
    <3>1. /\ active' = [active EXCEPT !.phase = "verifying"]
          /\ verdict' = [verdict EXCEPT !.accepted = Improves(verdict.kernel)]
      BY <1>5, <2>2 DEF Assess
    <3>2. active'.base = active.base
      BY <2>1, <3>1 DEF Active
    <3>3. verdict'.kernel = verdict.kernel /\ verdict'.accepted = Improves(verdict.kernel)
      BY <2>1, <3>1 DEF Verdict
    <3> QED
      BY <2>1, <2>2, <3>2, <3>3 DEF Judged, OnBase, Improves
  <2>3. CASE ~ (verdict.status = "candidate_ready" /\ verdict.kernel \in Clean)
    BY <1>5, <2>1, <2>3 DEF Assess, Judged, OnBase
  <2> QED
    BY <2>2, <2>3
<1>6. CASE Capture
  <2>1. /\ active \in Active /\ verdict \in Verdict /\ verdict.status \in Status
        /\ pc = "capture" /\ pc' \in {"audit", "outcome"} /\ UNCHANGED history
    BY <1>6, VerdictFields DEF Capture, HistoryInv, TypeInv, TypeOK, UnderWay
  <2>2. PICK captured \in BOOLEAN :
            /\ verdict' = [verdict EXCEPT !.accepted = verdict.accepted /\ captured]
            /\ active' = IF verdict.accepted /\ captured
                         THEN [active EXCEPT !.phase = "promoting"]
                         ELSE [active EXCEPT !.phase = "recording",
                                             !.terminal = verdict.status]
    BY <1>6 DEF Capture
  <2>3. active'.base = active.base
    BY <2>1, <2>2, ActivePhase, ActiveTerminal DEF Phase
  <2>4. verdict'.kernel = verdict.kernel /\ (verdict'.accepted => verdict.accepted)
    BY <2>1, <2>2 DEF Verdict
  <2> QED
    BY <2>1, <2>3, <2>4 DEF HistoryInv, Judged, OnBase
<1>7. CASE WriteAudit \/ Squash \/ WriteRecord \/ AddRecord
  BY <1>7 DEF WriteAudit, Squash, WriteRecord, AddRecord, HistoryInv, Judged, OnBase,
     TypeInv, Staging
<1>8. CASE BaseMoved \/ CommitPromotion \/ CommitOutcome \/ Account \/ MarkPromoted
          \/ Persist \/ RemoveWorktree \/ ClearActive
  BY <1>8 DEF BaseMoved, Raise, CommitPromotion, CommitOutcome, Account, MarkPromoted,
     Persist, RemoveWorktree, ClearActive, Judged, OnBase
<1>9. CASE Screen
  BY <1>9 DEF Screen, HistoryInv, Judged, OnBase
<1>10. CASE PromotionFails
  BY <1>10 DEF PromotionFails, Judged, OnBase
<1>11. CASE RecoverHandoff \/ ResumeExploring
  BY <1>11 DEF RecoverHandoff, ResumeExploring, Judged, OnBase
<1>12. CASE RecordInterrupted
  BY <1>12 DEF RecordInterrupted, Judged, OnBase
<1>13. CASE CountInterrupted \/ PauseForAudit \/ RecoverCommitted \/ DetachWorktree
           \/ SaveStall \/ SaveRecovered
  BY <1>13 DEF CountInterrupted, PauseForAudit, RecoverCommitted, DetachWorktree,
     SaveStall, SaveRecovered, Judged, OnBase
<1>14. CASE Crash \/ (\E e \in Episode : LoseAudit(e)) \/ RestoreAudit
           \/ AcknowledgeMissing \/ ForeignCommit
  BY <1>14 DEF Crash, LoseAudit, RestoreAudit, AcknowledgeMissing, ForeignCommit,
     Judged, OnBase
<1> QED
  BY <1>1, <1>2, <1>3, <1>4, <1>5, <1>6, <1>7, <1>8, <1>9, <1>10, <1>11, <1>12, <1>13, <1>14
  DEF Next, Exploration, Recording, Recovery, World

\* The initial history is the baseline commit.
LEMMA HistoryInit == Init => HistoryInv
<1> SUFFICES ASSUME Init
             PROVE  HistoryInv
  OBVIOUS
<1>1. HEAD = 1 /\ pc = "down"
  BY DEF Init, HEAD
<1>2. Latency[history[1].kernel] \in Nat
  BY <1>1, TypeInit, CommitFields
<1>3. VerifiedHistory
  BY <1>1 DEF VerifiedHistory
<1>4. IncumbentIsBest
  BY <1>1, <1>2 DEF IncumbentIsBest, Commits
<1> QED
  BY <1>1, <1>3, <1>4, TypeInit DEF HistoryInv, Judged, OnBase

\* Every step of the controller, of recovery and of the world keeps the history
\* verified: a commit is appended only by promote_candidate, by
\* record_episode_outcome or by somebody else.
LEMMA HistoryInvStep == HistoryInv /\ [Next]_vars => HistoryInv'
<1> SUFFICES ASSUME HistoryInv, [Next]_vars
             PROVE  HistoryInv'
  OBVIOUS
<1>1. TypeInv'
  BY TypeStep DEF HistoryInv
<1>2. VerifiedHistory' /\ IncumbentIsBest'
  <2>1. CASE history' = history
    BY <2>1 DEF HistoryInv, VerifiedHistory, IncumbentIsBest, Commits, HEAD
  <2>2. CASE \E c \in Commit : GoodCommit(c) /\ history' = Append(history, c)
    BY <2>2, AppendGood DEF HistoryInv
  <2> QED
    BY <2>1, <2>2, HistoryStep
<1> QED
  BY <1>1, <1>2, JudgedStep DEF HistoryInv

\* The inductive invariant of the incumbent branch holds in every behaviour.
LEMMA HistoryInvariant == Spec => []HistoryInv
  BY HistoryInit, HistoryInvStep, PTL DEF Spec

\* Whatever crashes, fails, is lost or is committed by others: every promotion on
\* the incumbent branch was screened, is strictly faster than what it replaced and
\* binds the audit of that replacement, and no other commit changes the kernel.
THEOREM HistoryIsVerified == Spec => []VerifiedHistory
<1>1. HistoryInv => VerifiedHistory
  BY DEF HistoryInv
<1> QED
  BY <1>1, HistoryInvariant, PTL

\* The incumbent only ever improves.
THEOREM IncumbentImproves == Spec => []IncumbentIsBest
<1>1. HistoryInv => IncumbentIsBest
  BY DEF HistoryInv
<1> QED
  BY <1>1, HistoryInvariant, PTL

\* No git reset --hard of a failing or rolled back promotion drops a commit.
THEOREM HistoryOnlyGrows == Spec => HistoryIsAppendOnly
<1>1. HistoryInv /\ [Next]_vars => [Prefix(history, history')]_vars
  <2> SUFFICES ASSUME HistoryInv, [Next]_vars
               PROVE  Prefix(history, history')
    OBVIOUS
  <2>1. history \in Seq(Commit)
    BY DEF HistoryInv, TypeInv, TypeOK
  <2>2. CASE history' = history
    BY <2>1, <2>2 DEF Prefix
  <2>3. CASE \E c \in Commit : GoodCommit(c) /\ history' = Append(history, c)
    BY <2>1, <2>3 DEF Prefix
  <2> QED
    BY <2>2, <2>3, HistoryStep
<1> QED
  BY <1>1, HistoryInvariant, PTL DEF Spec, HistoryIsAppendOnly
=============================================================================
