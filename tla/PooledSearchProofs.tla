-------------------------- MODULE PooledSearchProofs --------------------------
(***************************************************************************)
(* Theorems about PooledSearch, for any number of Epochs, trajectories,    *)
(* Steps and kernels, and however often Episodes fail, the process dies or *)
(* somebody else commits.                                                  *)
(***************************************************************************)
EXTENDS PooledSearch, TLAPS

-----------------------------------------------------------------------------
(* The inductive invariant *)

Publishing == {"plan", "seal", "check", "write", "ref", "index", "published"}
Aside == {"down", "initialize", "refused", "finished"}

\* Where the coordinator is, its checkpoint agrees.
Stages ==
    /\ saved.phase \in {"preparing", "running", "publishing"} => saved.epoch \in Epoch
    /\ saved.phase = "publishing" => saved.winner \in Kernel
    /\ pc \in {"jobs", "draining"} => saved.phase = "running"
    /\ pc \notin {"jobs", "draining"} => DOMAIN threads = {}
    /\ pc \in Publishing =>
           saved.phase = IF target = Campaign THEN "publishing" ELSE "preparing"
    /\ pc = "advance" => saved.phase = "publishing" /\ summaries[saved.epoch] = saved.winner

\* A publication under way is of the kernel that its plan pins.
Pinned ==
    pc \in {"seal", "check", "write", "ref"} =>
        /\ plan[target][saved.epoch] # NoPlan
        /\ plan[target][saved.epoch].kernel = ToPublish

\* A workspace has its first commit before it is used.
Begun ==
    /\ history[Campaign] # <<>>
    /\ pc \notin Aside => \A t \in Trajectory : history[t] # <<>>

\* A trajectory has one thread, which works on the Episode after the counted ones; an
\* Episode is archived exactly if it is counted.
Running ==
    /\ \A i, j \in DOMAIN threads : i[1] = j[1] => i = j
    /\ \A j \in DOMAIN threads :
           /\ threads[j] = "episode" => count[j[1]] \in {EpisodeOf(j) - 1, EpisodeOf(j)}
           /\ threads[j] \in {"ended", "returned"} => count[j[1]] = EpisodeOf(j)
    /\ \A t \in Trajectory : \A e \in Episode : Ended(t, e) <=> e <= count[t]

\* The seed is the winner of the Epoch before, and each Epoch that is over has one.
Chain ==
    /\ saved.seed = SeedOf(saved.epoch)
    /\ \A k \in 1 .. saved.epoch - 1 : summaries[k] \in Kernel
    /\ saved.stalls < saved.epoch

\* A completed job has what the archive of its Episode says.
Results ==
    saved.phase \in {"preparing", "running", "publishing"} =>
        \A j \in Job : saved.jobs[j] = "completed" =>
            /\ Ended(j[1], EpisodeOf(j))
            /\ saved.result[j] = attempt[j[1]][EpisodeOf(j)]

\* The Episodes of an Epoch have all ended, and a kernel is the best of them.
Known(k) == {SeedOf(k)} \cup OutcomesOf(k)
Decided(kernel, k) ==
    /\ Unended \notin Known(k)
    /\ kernel \in Known(k)
    /\ \A other \in Known(k) \ {None} : Latency[kernel] <= Latency[other]
    /\ Latency[kernel] = Latency[SeedOf(k)] => kernel = SeedOf(k)

\* The Campaign is only promised what its Epoch decided.
Winners ==
    /\ saved.phase = "publishing" => Decided(saved.winner, saved.epoch)
    /\ \A k \in Epoch : plan[Campaign][k] # NoPlan =>
           k <= saved.epoch /\ Decided(plan[Campaign][k].kernel, k)

\* A receipt is of the publication that was planned, and a broadcast commit is the one
\* after the base of the receipt of its Epoch.
Sealing ==
    \A w \in Workspace :
        /\ \A k \in Epoch : receipt[w][k] # NoReceipt =>
               /\ plan[w][k] # NoPlan
               /\ receipt[w][k].commit = [kind |-> "broadcast", kernel |-> plan[w][k].kernel,
                                         version |-> plan[w][k].version, epoch |-> k]
        /\ \A i \in Broadcasts(w) :
               /\ history[w][i].epoch \in Epoch
               /\ receipt[w][history[w][i].epoch] = [base |-> i - 1, commit |-> history[w][i]]

\* A trajectory has the broadcast of the current Epoch.
HasBroadcast(t) == <<saved.epoch, saved.seed>> \in GivenTo(t)

\* A publication passes its stages in order, from trajectory to trajectory.
Progressing ==
    /\ pc \in {"check", "write", "ref"} => Sealed.commit = Broadcast
    /\ pc \in {"write", "ref"} => OnBase \/ OnTarget
    /\ pc \in {"index", "published"} /\ target # Campaign => HasBroadcast(target)
    /\ pc \in Publishing => \A t \in 1 .. target - 1 : HasBroadcast(t)
    /\ saved.phase = "running" => \A t \in Trajectory : HasBroadcast(t)

\* An Epoch that is over has given its winner to the Campaign, one that is not has
\* promised it nothing.
Awarded ==
    /\ \A k \in 1 .. saved.epoch - 1 : <<k, summaries[k]>> \in GivenTo(Campaign)
    /\ pc = "advance" \/ (pc \in {"index", "published"} /\ target = Campaign) =>
           <<saved.epoch, saved.winner>> \in GivenTo(Campaign)
    /\ \A k \in Epoch : plan[Campaign][k] # NoPlan =>
           k < saved.epoch \/ saved.phase = "publishing"

\* All of it.
SearchInv ==
    /\ TypeOK /\ Stages /\ Pinned /\ Begun /\ Running /\ Chain
    /\ Results /\ Winners /\ Sealing /\ Progressing /\ Awarded /\ StallsExact

-----------------------------------------------------------------------------
(* Episodes are numbered through: those of an Epoch are the Steps after    *)
(* those of the Epochs before.                                             *)

\* Each Epoch numbers its Episodes within those of the search.
LEMMA Numbered ==
    ASSUME NEW k \in Epoch, NEW s \in 1 .. Steps
    PROVE  (k - 1) * Steps + s \in Episode
<1>1. /\ Steps \in Nat \ {0} /\ Epochs \in Nat \ {0} /\ k \in Nat /\ s \in Nat
      /\ 1 <= k /\ k <= Epochs /\ 1 <= s /\ s <= Steps
  BY SearchAssumption DEF Epoch
<1>2. (k - 1) * Steps <= (Epochs - 1) * Steps /\ 0 <= (k - 1) * Steps
  BY <1>1
<1>3. (Epochs - 1) * Steps = Epochs * Steps - Steps
  BY <1>1
<1>4. (k - 1) * Steps \in Nat /\ Epochs * Steps \in Nat
  BY <1>1
<1> QED BY <1>1, <1>2, <1>3, <1>4 DEF Episode

\* The Episode of a job is one of the search.
LEMMA EpisodeOfJob ==
    ASSUME TypeOK, saved.epoch \in Epoch, NEW job \in Job
    PROVE  /\ job[1] \in Trajectory /\ job[2] \in 1 .. Steps
           /\ EpisodeOf(job) \in Episode
           /\ EpisodeOf(job) \in Nat \ {0} /\ EpisodeOf(job) \in 0 .. Epochs * Steps
<1>1. job[1] \in Trajectory /\ job[2] \in 1 .. Steps
  BY DEF Job
<1>2. EpisodeOf(job) \in Episode
  BY <1>1, Numbered DEF EpisodeOf
<1>3. Epochs * Steps \in Nat
  BY SearchAssumption
<1> QED BY <1>1, <1>2, <1>3 DEF Episode

-----------------------------------------------------------------------------
(* Histories *)

\* A step appends to a history at most one commit; only MoveRef appends a broadcast,
\* the sealed commit of its target.
HistoryGrows(w) ==
    \/ history'[w] = history[w]
    \/ /\ pc \in {"initialize", "jobs", "draining"} \cup Aside
       /\ \E commit \in Commit :
              history'[w] = Append(history[w], commit) /\ commit.kind # "broadcast"
    \/ /\ MoveRef /\ OnBase /\ w = target
       /\ history'[w] = Append(history[w], Sealed.commit)

\* The first commit is one.
LEMMA FirstCommit == First \in Commit /\ First.kind = "bootstrap" /\ First.kernel = Bootstrap
BY SearchAssumption DEF First, Commit

\* The receipt of a publication under way is one.
LEMMA SealedType ==
    ASSUME TypeOK, Stages, pc \in Publishing
    PROVE  /\ saved.epoch \in Epoch /\ target \in Workspace
           /\ Sealed \in [base : Nat, commit : Commit]
           /\ plan[target][saved.epoch] \in [version : Nat, kernel : Outcome]
<1>1. saved.epoch \in Epoch
  BY DEF Stages
<1> QED BY <1>1 DEF TypeOK, Sealed

\* The history of a workspace with a commit has a last one.
LEMMA TipType ==
    ASSUME TypeOK, NEW w \in Workspace, history[w] # <<>>
    PROVE  Tip(w) \in Commit /\ Len(history[w]) \in Nat \ {0}
BY DEF TypeOK, Tip

-----------------------------------------------------------------------------
(* Who writes what *)

\* The steps of the coordinator that are not a publication.
Steering ==
    \/ Start \/ Initialize \/ PlanEpoch \/ Proceed \/ Published \/ Advance
    \/ EndJobs \/ Drained

\* A step is one of the coordinator, which steers or publishes, one with a thread of
\* the pool, or one that happens to it.
LEMMA StepKinds ==
    ASSUME [Next]_vars
    PROVE  \/ Steering
           \/ Publication
           \/ \E job \in Job : Dispatch(job)
           \/ \E job \in DOMAIN threads : Run(job) \/ Raise(job) \/ Collect(job)
           \/ WriteSome \/ Interrupt \/ Crash \/ Foreign \/ UNCHANGED vars
BY DEF Next, Coordination, Steering

\* The actions that may change each of the variables.
LEMMA Writers ==
    ASSUME [Next]_vars
    PROVE  /\ \/ saved' = saved \/ Start \/ PlanEpoch \/ Published \/ Advance \/ EndJobs
              \/ \E job \in Job : Dispatch(job)
              \/ \E job \in DOMAIN threads : Collect(job)
           /\ summaries' = summaries \/ Published
           /\ \/ history' = history \/ Initialize \/ Foreign \/ MoveRef
              \/ \E job \in DOMAIN threads : EndEpisode(job)
           /\ files' = files \/ WriteSome \/ WriteAll \/ MoveRef
           /\ index' = index \/ MoveRef \/ RefreshIndex
           /\ plan' = plan \/ PlanPublication
           /\ receipt' = receipt \/ Seal
           /\ \/ UNCHANGED <<count, attempt, tokens, retained>>
              \/ \E job \in DOMAIN threads : EndEpisode(job)
           /\ \/ open' = open
              \/ \E job \in DOMAIN threads : OpenEpisode(job) \/ CloseEpisode(job)
           /\ \/ threads' = threads \/ Drained \/ Crash
              \/ \E job \in Job : Dispatch(job)
              \/ \E job \in DOMAIN threads :
                     \/ BeginEpisode(job) \/ CloseEpisode(job) \/ ReadResult(job)
                     \/ Raise(job) \/ Collect(job)
<1>1. CASE Steering
  BY <1>1 DEF Steering, Start, Initialize, PlanEpoch, Proceed, Published, Advance, EndJobs, Drained,
     Goto, GotoPublish, repositories, episodes, volatile, faults
<1>2. CASE Publication
  BY <1>2 DEF Publication, PlanPublication, Seal, Check, WriteAll, MoveRef, RefreshIndex, Goto,
     repositories, episodes, volatile, faults
<1>3. CASE \E job \in Job : Dispatch(job)
  BY <1>3 DEF Dispatch, repositories, episodes, volatile, faults
<1>4. CASE \E job \in DOMAIN threads : Run(job) \/ Raise(job) \/ Collect(job)
  BY <1>4, ZenonT(40) DEF Run, BeginEpisode, OpenEpisode, EndEpisode, CloseEpisode, ReadResult, Raise, Collect,
     Move, repositories, episodes, volatile, faults
<1>5. CASE WriteSome \/ Interrupt \/ Crash \/ Foreign \/ UNCHANGED vars
  BY <1>5 DEF WriteSome, Interrupt, Crash, Foreign, vars, repositories, episodes, volatile, faults
<1> QED
  BY <1>1, <1>2, <1>3, <1>4, <1>5, StepKinds

\* Where the coordinator goes is its own affair: threads and others leave it where it
\* is, and nobody else stops it but a death or an interrupt.
LEMMA Control ==
    ASSUME [Next]_vars
    PROVE  \/ Steering \/ Publication \/ Interrupt \/ Crash
           \/ UNCHANGED <<pc, target>> /\ (saved' = saved \/ pc = "jobs")
<1>1. CASE \E job \in Job : Dispatch(job)
  BY <1>1 DEF Dispatch
<1>2. CASE \E job \in DOMAIN threads : Run(job) \/ Raise(job) \/ Collect(job)
  BY <1>2 DEF Run, BeginEpisode, OpenEpisode, EndEpisode, CloseEpisode, ReadResult, Raise, Collect,
     Move, volatile
<1>3. CASE WriteSome \/ Foreign \/ UNCHANGED vars
  BY <1>3 DEF WriteSome, Foreign, vars, volatile
<1> QED
  BY <1>1, <1>2, <1>3, StepKinds

\* What becomes of the Epoch and of its phase in the checkpoint.
EpochKept == saved'.epoch = saved.epoch /\ saved'.seed = saved.seed /\ saved'.stalls = saved.stalls
PhaseSteps ==
    \/ saved'.phase = saved.phase
    \/ saved.phase = "absent" /\ saved'.phase = "idle"
    \/ saved.phase = "idle" /\ saved'.phase = "preparing"
    \/ Published /\ target # Campaign /\ ~ (target < AllTargets) /\ saved'.phase = "running"
    \/ EndJobs /\ saved'.phase = "publishing"

LEMMA SavedSteps ==
    ASSUME TypeOK, [Next]_vars
    PROVE  \/ Advance /\ saved'.phase = "idle" /\ saved'.epoch = saved.epoch + 1
           \/ EpochKept /\ PhaseSteps /\ (EndJobs \/ saved'.winner = saved.winner)
<1> USE DEF TypeOK, EpochKept, PhaseSteps
<1>1. CASE saved' = saved
  BY <1>1
<1>2. CASE Start
  BY <1>2 DEF Start
<1>3. CASE PlanEpoch
  BY <1>3 DEF PlanEpoch
<1>4. CASE Published
  BY <1>4 DEF Published
<1>5. CASE Advance
  BY <1>5 DEF Advance
<1>6. CASE EndJobs
  BY <1>6 DEF EndJobs
<1>7. CASE \E job \in Job : Dispatch(job)
  BY <1>7 DEF Dispatch
<1>8. CASE \E job \in DOMAIN threads : Collect(job)
  BY <1>8, ZenonT(40) DEF Collect
<1> QED
  BY <1>1, <1>2, <1>3, <1>4, <1>5, <1>6, <1>7, <1>8, Writers

\* How the coordinator comes to be at a stage of a publication.
LEMMA PublishingSteps ==
    ASSUME [Next]_vars, pc' \in Publishing
    PROVE  \/ Proceed
           \/ Published /\ target # Campaign /\ target < AllTargets /\ target' = target + 1
                /\ saved' = saved
           \/ pc \in Publishing /\ UNCHANGED <<saved, target>> /\ (pc' = pc \/ Publication)
<1>1. CASE Steering
  BY <1>1 DEF Steering, Start, Initialize, PlanEpoch, Proceed, Published, Advance, EndJobs, Drained,
     Goto, GotoPublish,
     Publishing, volatile
<1>2. CASE Publication
  BY <1>2 DEF Publication, PlanPublication, Seal, Check, WriteAll, MoveRef, RefreshIndex, Goto,
     Publishing
<1>3. CASE UNCHANGED <<pc, target>> /\ (saved' = saved \/ pc = "jobs")
  BY <1>3 DEF Publishing
<1>4. ~ Interrupt /\ ~ Crash
  BY DEF Interrupt, Crash, Publishing
<1> QED
  BY <1>1, <1>2, <1>3, <1>4, Control

\* Who appends what.
LEMMA HistoryStep ==
    ASSUME SearchInv, [Next]_vars
    PROVE  /\ history' \in [Workspace -> Seq(Commit)]
           /\ \A w \in Workspace : HistoryGrows(w)
<1> USE DEF SearchInv
<1>0. history \in [Workspace -> Seq(Commit)] /\ Campaign \in Workspace
      /\ Trajectory \subseteq Workspace
  BY DEF TypeOK, Workspace
<1>1. ASSUME NEW v \in Workspace, NEW commit \in Commit, commit.kind # "broadcast",
             pc \in {"initialize", "jobs", "draining"} \cup Aside,
             history' = [history EXCEPT ![v] = Append(@, commit)]
      PROVE  history' \in [Workspace -> Seq(Commit)] /\ \A w \in Workspace : HistoryGrows(w)
  <2>1. history'[v] = Append(history[v], commit) /\ Append(history[v], commit) \in Seq(Commit)
    BY <1>0, <1>1
  <2>2. \A w \in Workspace : w # v => history'[w] = history[w]
    BY <1>0, <1>1
  <2> QED BY <1>0, <1>1, <2>1, <2>2 DEF HistoryGrows
<1>2. CASE Initialize
  <2>1. CASE UNCHANGED history
    BY <1>0, <2>1 DEF HistoryGrows
  <2>2. CASE \E t \in Trajectory :
               history[t] = <<>> /\ history' = [history EXCEPT ![t] = <<First>>]
    <3> PICK t \in Trajectory :
               history[t] = <<>> /\ history' = [history EXCEPT ![t] = <<First>>]
      BY <2>2
    <3>1. <<First>> = Append(history[t], First)
      BY FirstCommit
    <3>2. history' = [history EXCEPT ![t] = Append(@, First)]
      BY <1>0, <3>1
    <3> QED BY <1>0, <1>1, <1>2, <3>2, FirstCommit DEF Initialize
  <2> QED BY <1>2, <2>1, <2>2 DEF Initialize
<1>3. CASE Foreign
  <2>1. Tip(Campaign) \in Commit
    BY <1>0, TipType DEF Begun
  <2>2. [Tip(Campaign) EXCEPT !.kind = "foreign"] \in Commit
        /\ [Tip(Campaign) EXCEPT !.kind = "foreign"].kind = "foreign"
    BY <2>1 DEF Commit
  <2> QED BY <1>0, <1>1, <1>3, <2>2 DEF Foreign, Stopped, Aside
<1>4. ASSUME NEW job \in DOMAIN threads, EndEpisode(job)
      PROVE  history' \in [Workspace -> Seq(Commit)] /\ \A w \in Workspace : HistoryGrows(w)
  <2>1. pc \in {"jobs", "draining"} /\ saved.epoch \in Epoch /\ job \in Job
    BY DEF Stages, TypeOK
  <2>2. job[1] \in Trajectory
    BY <2>1, EpisodeOfJob
  <2>3. Tip(job[1]) \in Commit
    BY <1>0, <2>1, <2>2, TipType DEF Begun, Aside
  <2>4. PICK outcome \in Outcome :
          history' = [history EXCEPT ![job[1]] = Append(@,
             [kind |-> "episode", version |-> Tip(job[1]).version + 1, epoch |-> saved.epoch,
              kernel |-> IF outcome = None THEN Tip(job[1]).kernel ELSE outcome])]
    BY <1>4 DEF EndEpisode, Outcome
  <2>5. [kind |-> "episode", version |-> Tip(job[1]).version + 1, epoch |-> saved.epoch,
         kernel |-> IF outcome = None THEN Tip(job[1]).kernel ELSE outcome] \in Commit
    <3>1. Tip(job[1]).version + 1 \in Nat /\ Tip(job[1]).kernel \in Kernel
      BY <2>3 DEF Commit
    <3>2. saved.epoch \in 0 .. Epochs
      BY <2>1 DEF Epoch
    <3> QED BY <3>1, <3>2 DEF Commit, Outcome
  <2> QED BY <1>0, <1>1, <2>1, <2>2, <2>4, <2>5
<1>5. CASE MoveRef
  <2>1. CASE ~ OnBase
    BY <1>0, <1>5, <2>1 DEF MoveRef, HistoryGrows
  <2>2. CASE OnBase
    <3>1. Sealed.commit \in Commit /\ target \in Workspace
      BY <1>5, SealedType DEF MoveRef, Publishing
    <3>2. history' = [history EXCEPT ![target] = Append(@, Sealed.commit)]
      BY <1>5, <2>2 DEF MoveRef
    <3>3. history'[target] = Append(history[target], Sealed.commit)
          /\ Append(history[target], Sealed.commit) \in Seq(Commit)
      BY <1>0, <3>1, <3>2
    <3>4. \A w \in Workspace : w # target => history'[w] = history[w]
      BY <1>0, <3>2
    <3> QED BY <1>0, <1>5, <2>2, <3>1, <3>2, <3>3, <3>4 DEF HistoryGrows
  <2> QED BY <2>1, <2>2
<1>6. CASE UNCHANGED history
  BY <1>0, <1>6 DEF HistoryGrows
<1>7. \/ UNCHANGED history \/ Initialize \/ Foreign \/ MoveRef
      \/ \E job \in DOMAIN threads : EndEpisode(job)
  BY Writers
<1> QED BY <1>2, <1>3, <1>4, <1>5, <1>6, <1>7

-----------------------------------------------------------------------------
(* Types *)

\* A winner is a kernel.
LEMMA WinnerIsKernel ==
    ASSUME TypeOK, NEW kernel \in Candidates
    PROVE  kernel \in Kernel
BY DEF TypeOK, Candidates, Outcome

\* The checkpoint of the search keeps its type.
LEMMA SavedKept ==
    ASSUME SearchInv, [Next]_vars
    PROVE  saved' \in [phase : Phase, epoch : 1 .. Epochs + 1, seed : Kernel, winner : Outcome,
                       jobs : [Job -> Status], result : [Job -> Outcome],
                       stalls : 0 .. Epochs, stopped : BOOLEAN]
<1> DEFINE Record == [phase : Phase, epoch : 1 .. Epochs + 1, seed : Kernel, winner : Outcome,
                      jobs : [Job -> Status], result : [Job -> Outcome],
                      stalls : 0 .. Epochs, stopped : BOOLEAN]
<1>0. saved \in Record /\ Epochs \in Nat
  BY SearchAssumption DEF SearchInv, TypeOK
<1>1. CASE Start
  BY <1>0, <1>1 DEF Start, Phase
<1>2. CASE PlanEpoch
  <2>1. [j \in Job |-> "pending"] \in [Job -> Status] /\ [j \in Job |-> None] \in [Job -> Outcome]
    BY DEF Status, Outcome
  <2> QED BY <1>0, <1>2, <2>1 DEF PlanEpoch, Phase
<1>3. CASE Published
  BY <1>0, <1>3 DEF Published, Phase
<1>4. CASE Advance
  <2>1. saved.phase = "publishing" /\ saved.winner \in Kernel /\ saved.epoch \in Epoch
    BY <1>4 DEF Advance, SearchInv, Stages
  <2>2. StallsAfter(saved) \in 0 .. Epochs
    BY <1>0, <2>1 DEF SearchInv, Chain, StallsAfter, Epoch
  <2>3. StopReason(StallsAfter(saved)) \in BOOLEAN
    BY DEF StopReason
  <2>4. saved' = [saved EXCEPT !.phase = "idle", !.epoch = @ + 1, !.winner = None,
                     !.seed = saved.winner, !.stalls = StallsAfter(saved),
                     !.stopped = StopReason(StallsAfter(saved))]
    BY <1>4 DEF Advance
  <2>5. saved.epoch + 1 \in 1 .. Epochs + 1
    BY <1>0, <2>1 DEF Epoch
  <2> HIDE DEF Record
  <2>6. "idle" \in Phase /\ None \in Outcome
    BY DEF Phase, Outcome
  <2> QED BY <1>0, <2>1, <2>2, <2>3, <2>4, <2>5, <2>6 DEF Record
<1>5. CASE EndJobs
  <2>1. CASE UNCHANGED saved
    BY <1>0, <2>1
  <2>2. CASE \E kernel \in Candidates :
               saved' = [saved EXCEPT !.phase = "publishing", !.winner = kernel]
    BY <1>0, <2>2, WinnerIsKernel DEF SearchInv, Outcome, Phase
  <2> QED BY <1>5, <2>1, <2>2 DEF EndJobs
<1>6. ASSUME NEW job \in Job, Dispatch(job) PROVE saved' \in Record
  BY <1>0, <1>6 DEF Dispatch, Status
<1>7. ASSUME NEW job \in DOMAIN threads, Collect(job) PROVE saved' \in Record
  <2>1. CASE UNCHANGED saved
    BY <1>0, <2>1
  <2>2. CASE /\ threads[job] = "returned"
             /\ saved' = [saved EXCEPT !.jobs[job] = "completed", !.result[job] = Retained(job)]
    <3>1. job \in Job /\ saved.epoch \in Epoch /\ count[job[1]] = EpisodeOf(job)
      BY <1>7, <2>2 DEF Collect, SearchInv, TypeOK, Stages, Running
    <3>2. Ended(job[1], EpisodeOf(job)) /\ Retained(job) \in Outcome \cup {Unended}
      BY <3>1, EpisodeOfJob DEF SearchInv, Running, TypeOK, Retained
    <3>3. Retained(job) \in Outcome
      BY <3>2 DEF Ended, Retained
    <3> QED BY <1>0, <2>2, <3>1, <3>3 DEF Status
  <2> QED BY <1>7, <2>1, <2>2 DEF Collect
<1> QED BY <1>0, <1>1, <1>2, <1>3, <1>4, <1>5, <1>6, <1>7, Writers

\* A running thread works on a job of the current Epoch.
LEMMA JobOfThread ==
    ASSUME TypeOK, Stages, NEW job \in DOMAIN threads
    PROVE  /\ job \in Job /\ saved.epoch \in Epoch /\ job[1] \in Trajectory
           /\ EpisodeOf(job) \in Episode
           /\ EpisodeOf(job) \in Nat \ {0} /\ EpisodeOf(job) \in 0 .. Epochs * Steps
           /\ pc \in {"jobs", "draining"} /\ saved.phase = "running"
BY EpisodeOfJob DEF TypeOK, Stages

\* An update of a table, entry by entry.
LEMMA TableUpdate ==
    ASSUME NEW Rows, NEW Columns, NEW Values, NEW table \in [Rows -> [Columns -> Values]],
           NEW row \in Rows, NEW column \in Columns, NEW value \in Values
    PROVE  /\ [table EXCEPT ![row][column] = value] \in [Rows -> [Columns -> Values]]
           /\ \A r \in Rows : \A c \in Columns :
                  [table EXCEPT ![row][column] = value][r][c] =
                      IF r = row /\ c = column THEN value ELSE table[r][c]
OBVIOUS

\* The files of the workspaces keep their types.
LEMMA RepositoriesKept ==
    ASSUME SearchInv, [Next]_vars
    PROVE  /\ files' \in [Workspace -> {"head", "mixed", "next"}]
           /\ index' \in [Workspace -> {"head", "stale"}]
           /\ plan' \in [Workspace -> [Epoch -> [version : Nat, kernel : Outcome]]]
           /\ receipt' \in [Workspace -> [Epoch -> [base : Nat, commit : Commit]]]
           /\ summaries' \in [Epoch -> Outcome]
<1> USE DEF SearchInv
<1>0. TypeOK
  OBVIOUS
<1>1. files' \in [Workspace -> {"head", "mixed", "next"}]
  BY <1>0, Writers, ZenonT(40) DEF TypeOK, WriteSome, WriteAll, MoveRef
<1>2. index' \in [Workspace -> {"head", "stale"}]
  BY <1>0, Writers DEF TypeOK, MoveRef, RefreshIndex
<1>3. plan' \in [Workspace -> [Epoch -> [version : Nat, kernel : Outcome]]]
  <2>1. CASE PlanPublication
    <3>1. /\ saved.epoch \in Epoch /\ target \in Workspace
          /\ plan[target][saved.epoch] \in [version : Nat, kernel : Outcome]
      BY <2>1, SealedType DEF PlanPublication, Publishing
    <3>2. history[target] # <<>>
      BY <2>1, <3>1 DEF PlanPublication, Begun, Aside, Workspace
    <3>3. Tip(target).version + 1 \in Nat
      BY <3>1, <3>2, TipType DEF Commit
    <3>4. ToPublish \in Outcome
      BY DEF TypeOK, ToPublish, Outcome
    <3>5. PinnedPlan \in [version : Nat, kernel : Outcome]
      BY <3>1, <3>3, <3>4 DEF PinnedPlan, NewPlan
    <3>6. plan' = plan \/ plan' = [plan EXCEPT ![target][saved.epoch] = PinnedPlan]
      BY <2>1 DEF PlanPublication
    <3>7. plan \in [Workspace -> [Epoch -> [version : Nat, kernel : Outcome]]]
      BY <1>0 DEF TypeOK
    <3>8. [plan EXCEPT ![target][saved.epoch] = PinnedPlan]
              \in [Workspace -> [Epoch -> [version : Nat, kernel : Outcome]]]
      BY <3>1, <3>5, <3>7, TableUpdate
    <3> QED BY <3>6, <3>7, <3>8
  <2> QED BY <1>0, <2>1, Writers DEF TypeOK
<1>4. receipt' \in [Workspace -> [Epoch -> [base : Nat, commit : Commit]]]
  <2>1. CASE Seal
    <3>1. /\ saved.epoch \in Epoch /\ target \in Workspace
          /\ plan[target][saved.epoch] \in [version : Nat, kernel : Outcome]
      BY <2>1, SealedType DEF Seal, Publishing
    <3>2. plan[target][saved.epoch].kernel \in Kernel
      BY <2>1 DEF Seal, Pinned, Stages, Publishing, TypeOK, ToPublish
    <3>3. Broadcast \in Commit
      BY <3>1, <3>2 DEF Broadcast, Commit, Epoch
    <3>4. Len(history[target]) \in Nat
      BY <3>1 DEF TypeOK
    <3> DEFINE sealed == [base |-> Len(history[target]), commit |-> Broadcast]
    <3>5. \/ receipt' = receipt
          \/ receipt' = [receipt EXCEPT ![target][saved.epoch] = sealed]
      BY <2>1 DEF Seal
    <3>6. receipt \in [Workspace -> [Epoch -> [base : Nat, commit : Commit]]]
      BY <1>0 DEF TypeOK
    <3>7. sealed \in [base : Nat, commit : Commit]
      BY <3>3, <3>4
    <3> HIDE DEF sealed
    <3>8. [receipt EXCEPT ![target][saved.epoch] = sealed]
              \in [Workspace -> [Epoch -> [base : Nat, commit : Commit]]]
      BY <3>1, <3>6, <3>7, TableUpdate
    <3> QED BY <3>5, <3>6, <3>8
  <2> QED BY <1>0, <2>1, Writers DEF TypeOK
<1>5. summaries' \in [Epoch -> Outcome]
  BY <1>0, Writers DEF TypeOK, Published
<1> QED BY <1>1, <1>2, <1>3, <1>4, <1>5

\* The Episodes keep their types.
LEMMA EpisodesKept ==
    ASSUME SearchInv, [Next]_vars
    PROVE  /\ count' \in [Trajectory -> 0 .. Epochs * Steps]
           /\ open' \in [Trajectory -> BOOLEAN]
           /\ attempt' \in [Trajectory -> [Episode -> Outcome \cup {Unended}]]
           /\ tokens' \in Nat /\ retained' \in 0 .. MaxRetained
<1>0. TypeOK /\ Stages /\ MaxRetained \in Nat
  BY SearchAssumption DEF SearchInv
<1>1. open' \in [Trajectory -> BOOLEAN]
  <2>1. ASSUME NEW job \in DOMAIN threads, OpenEpisode(job) \/ CloseEpisode(job)
        PROVE  open' \in [Trajectory -> BOOLEAN]
    BY <1>0, <2>1 DEF OpenEpisode, CloseEpisode, TypeOK
  <2> QED BY <1>0, <2>1, Writers DEF TypeOK
<1>2. CASE UNCHANGED <<count, attempt, tokens, retained>>
  BY <1>0, <1>1, <1>2 DEF TypeOK
<1>3. ASSUME NEW job \in DOMAIN threads, EndEpisode(job)
      PROVE  /\ count' \in [Trajectory -> 0 .. Epochs * Steps]
             /\ attempt' \in [Trajectory -> [Episode -> Outcome \cup {Unended}]]
             /\ tokens' \in Nat /\ retained' \in 0 .. MaxRetained
  <2>1. /\ job[1] \in Trajectory /\ EpisodeOf(job) \in Episode
        /\ EpisodeOf(job) \in 0 .. Epochs * Steps
    BY <1>0, JobOfThread
  <2>2. count' = [count EXCEPT ![job[1]] = EpisodeOf(job)]
    BY <1>3 DEF EndEpisode
  <2>3. count' \in [Trajectory -> 0 .. Epochs * Steps]
    BY <1>0, <2>1, <2>2 DEF TypeOK
  <2>4. PICK outcome \in IF retained < MaxRetained THEN Outcome ELSE {None} :
        \E cost \in IF TokenBudget > 0 THEN {0, 1} ELSE {0} :
          /\ attempt' = [attempt EXCEPT ![job[1]][EpisodeOf(job)] = outcome]
          /\ retained' = retained + IF outcome = None THEN 0 ELSE 1
          /\ tokens' = tokens + cost
    BY <1>3 DEF EndEpisode
  <2>5. outcome \in Outcome
    BY <2>4 DEF Outcome
  <2>6. tokens' \in Nat /\ retained' \in 0 .. MaxRetained
    BY <1>0, <2>4 DEF TypeOK
  <2>7. attempt' \in [Trajectory -> [Episode -> Outcome \cup {Unended}]]
    BY <1>0, <2>1, <2>4, <2>5 DEF TypeOK
  <2> QED BY <2>3, <2>6, <2>7
<1> QED BY <1>1, <1>2, <1>3, Writers

\* The coordinator and the threads of its pool keep their types.
LEMMA VolatileKept ==
    ASSUME SearchInv, [Next]_vars
    PROVE  /\ pc' \in Location /\ target' \in Workspace /\ failure' \in BOOLEAN
           /\ DOMAIN threads' \subseteq Job
           /\ \A j \in DOMAIN threads' : threads'[j] \in Place
           /\ failures' \in 0 .. MaxFailures /\ crashes' \in 0 .. MaxCrashes
           /\ foreign' \in 0 .. MaxForeign
<1>0. TypeOK
  BY DEF SearchInv
<1>1. DOMAIN threads' \subseteq Job /\ \A j \in DOMAIN threads' : threads'[j] \in Place
  <2>1. CASE threads' = threads
    BY <1>0, <2>1 DEF TypeOK
  <2>2. CASE threads' = <<>>
    BY <2>2
  <2>3. ASSUME NEW job \in Job, Dispatch(job)
        PROVE  DOMAIN threads' \subseteq Job /\ \A j \in DOMAIN threads' : threads'[j] \in Place
    BY <1>0, <2>3 DEF Dispatch, TypeOK, Place
  <2>4. ASSUME NEW job \in DOMAIN threads,
               \/ BeginEpisode(job) \/ CloseEpisode(job) \/ ReadResult(job) \/ Raise(job)
        PROVE  DOMAIN threads' \subseteq Job /\ \A j \in DOMAIN threads' : threads'[j] \in Place
    BY <1>0, <2>4, ZenonT(40) DEF BeginEpisode, CloseEpisode, ReadResult, Raise, Move, TypeOK, Place
  <2>5. ASSUME NEW job \in DOMAIN threads, Collect(job)
        PROVE  DOMAIN threads' \subseteq Job /\ \A j \in DOMAIN threads' : threads'[j] \in Place
    BY <1>0, <2>5 DEF Collect, Without, TypeOK
  <2> QED BY <2>1, <2>2, <2>3, <2>4, <2>5, Writers DEF Drained, Crash
<1>2. failures' \in 0 .. MaxFailures /\ crashes' \in 0 .. MaxCrashes /\ foreign' \in 0 .. MaxForeign
  <2>1. /\ failures' = failures \/ (failures < MaxFailures /\ failures' = failures + 1)
        /\ crashes' = crashes \/ (crashes < MaxCrashes /\ crashes' = crashes + 1)
        /\ foreign' = foreign \/ (foreign < MaxForeign /\ foreign' = foreign + 1)
    <3>1. CASE Steering \/ Publication
      BY <3>1 DEF Publication, PlanPublication, Seal, Check, WriteAll, MoveRef, RefreshIndex,
         Steering, Start, Initialize, PlanEpoch, Proceed, Published, Advance, EndJobs, Drained,
         Goto, GotoPublish, faults
    <3>2. CASE \E job \in Job : Dispatch(job)
      BY <3>2 DEF Dispatch, faults
    <3>3. CASE \E job \in DOMAIN threads : Run(job) \/ Raise(job) \/ Collect(job)
      BY <3>3 DEF Run, BeginEpisode, OpenEpisode, EndEpisode, CloseEpisode, ReadResult, Raise, Collect,
         Move, faults
    <3>4. CASE WriteSome \/ Interrupt \/ Crash \/ Foreign \/ UNCHANGED vars
      BY <3>4 DEF WriteSome, Interrupt, Crash, Foreign, vars, faults
    <3> QED
      BY <3>1, <3>2, <3>3, <3>4, StepKinds
  <2>2. /\ failures \in 0 .. MaxFailures /\ crashes \in 0 .. MaxCrashes
        /\ foreign \in 0 .. MaxForeign
    BY <1>0 DEF TypeOK
  <2> QED BY <2>1, <2>2, SearchAssumption
<1>3. failure' \in BOOLEAN
  <2>1. CASE Steering \/ Publication
    BY <1>0, <2>1 DEF TypeOK, Publication, PlanPublication, Seal, Check, WriteAll,
       MoveRef, RefreshIndex,
       Steering, Start, Initialize, PlanEpoch, Proceed, Published, Advance, EndJobs, Drained,
       Goto, GotoPublish, volatile
  <2>2. CASE \E job \in Job : Dispatch(job)
    BY <1>0, <2>2 DEF TypeOK, Dispatch
  <2>3. CASE \E job \in DOMAIN threads : Run(job) \/ Raise(job) \/ Collect(job)
    BY <1>0, <2>3 DEF TypeOK, Run, BeginEpisode, OpenEpisode, EndEpisode, CloseEpisode, ReadResult, Raise,
       Collect, Move, volatile
  <2>4. CASE WriteSome \/ Interrupt \/ Crash \/ Foreign \/ UNCHANGED vars
    BY <1>0, <2>4 DEF TypeOK, WriteSome, Interrupt, Crash, Foreign, vars, volatile
  <2> QED
    BY <2>1, <2>2, <2>3, <2>4, StepKinds
<1>4. pc' \in Location
  <2>1. CASE Steering
    BY <1>0, <2>1 DEF TypeOK, Location, Steering, Start, Initialize, PlanEpoch, Proceed, Published, Advance,
       EndJobs, Drained, Goto, GotoPublish, volatile
  <2>2. CASE Publication
    BY <2>2 DEF Location, Publication, PlanPublication, Seal, Check, WriteAll,
       MoveRef, RefreshIndex, Goto
  <2> QED
    BY <1>0, <2>1, <2>2, Control DEF TypeOK, Location, Interrupt, Crash
<1>5. target' \in Workspace
  <2>1. \/ target' = target \/ target' = Campaign \/ target' = 1
        \/ Published /\ target # Campaign /\ target < AllTargets /\ target' = target + 1
    <3>1. CASE Steering
      BY <3>1 DEF Steering, Start, Initialize, PlanEpoch, Proceed, Published, Advance, EndJobs, Drained,
         Goto, GotoPublish, volatile
    <3>2. CASE Publication
      BY <3>2 DEF Publication, PlanPublication, Seal, Check, WriteAll, MoveRef, RefreshIndex, Goto
    <3> QED
      BY <3>1, <3>2, Control DEF Interrupt, Crash
  <2>2. Campaign \in Workspace /\ 1 \in Workspace
    BY SearchAssumption DEF Workspace, Trajectory
  <2>3. ASSUME target # Campaign, target < AllTargets PROVE target + 1 \in Workspace
    BY <1>0, <2>3, SearchAssumption, SMTT(30) DEF TypeOK, Workspace, Trajectory, AllTargets
  <2> QED BY <1>0, <2>1, <2>2, <2>3 DEF TypeOK
<1> QED BY <1>1, <1>2, <1>3, <1>4, <1>5

\* Types are kept.
LEMMA TypesKept ==
    ASSUME SearchInv, [Next]_vars
    PROVE  TypeOK'
BY SavedKept, RepositoriesKept, EpisodesKept, VolatileKept, HistoryStep DEF TypeOK

-----------------------------------------------------------------------------
(* The coordinator and its threads *)

\* Workspaces keep their commits.
LEMMA BegunKept ==
    ASSUME SearchInv, [Next]_vars
    PROVE  Begun'
<1>1. \A w \in Workspace : history[w] # <<>> => history'[w] # <<>>
  <2> SUFFICES ASSUME NEW w \in Workspace, history[w] # <<>>, history'[w] # history[w]
               PROVE  history'[w] # <<>>
    OBVIOUS
  <2>1. PICK commit : history'[w] = Append(history[w], commit)
    BY HistoryStep DEF HistoryGrows
  <2>2. history[w] \in Seq(Commit) /\ history'[w] \in Seq(Commit)
    BY HistoryStep DEF SearchInv, TypeOK
  <2>3. Len(history'[w]) = Len(history[w]) + 1
    BY <2>1, <2>2
  <2> QED BY <2>2, <2>3
<1>2. Campaign \in Workspace /\ Trajectory \subseteq Workspace
  BY DEF Workspace
<1>3. pc' \notin Aside => pc \notin Aside \/ \A t \in Trajectory : history[t] # <<>>
  <2>1. CASE Steering
    BY <2>1 DEF Aside, Steering, Start, Initialize, PlanEpoch, Proceed, Published, Advance,
       EndJobs, Drained, Goto, GotoPublish, volatile
  <2>2. CASE Publication
    BY <2>2 DEF Aside, Publication, PlanPublication, Seal, Check, WriteAll,
       MoveRef, RefreshIndex, Goto
  <2> QED
    BY <2>1, <2>2, Control DEF Aside, Interrupt, Crash
<1> QED BY <1>1, <1>2, <1>3 DEF SearchInv, Begun

\* The checkpoint agrees with where the coordinator goes.
LEMMA StagesKept ==
    ASSUME SearchInv, [Next]_vars
    PROVE  Stages'
<1> USE DEF SearchInv, Publishing
<1>0. TypeOK /\ Stages /\ Pinned /\ Campaign \notin Trajectory /\ 1 \in Trajectory
      /\ Trajectories \in Nat /\ Epochs \in Nat
  BY SearchAssumption DEF Campaign, Trajectory
<1>1. CASE Start
  BY <1>0, <1>1 DEF Start, Goto, Stages, TypeOK, repositories, episodes, faults
<1>2. CASE Initialize
  BY <1>0, <1>2 DEF Initialize, Goto, Stages, volatile
<1>3. CASE PlanEpoch
  <2>1. CASE UNCHANGED saved
    BY <1>0, <1>3, <2>1 DEF PlanEpoch, Goto, Stages, volatile
  <2>2. CASE ~ UNCHANGED saved
    <3>1. saved'.epoch = saved.epoch /\ saved'.phase = "preparing" /\ ~ (saved.epoch > Epochs)
      BY <1>0, <1>3, <2>2 DEF PlanEpoch, TypeOK
    <3>2. saved'.epoch \in Epoch
      BY <1>0, <3>1 DEF TypeOK, Epoch
    <3>3. UNCHANGED <<pc, threads>> /\ pc = "loop"
      BY <1>3, <2>2 DEF PlanEpoch, volatile
    <3> QED BY <1>0, <3>1, <3>2, <3>3 DEF Stages
  <2> QED BY <2>1, <2>2
<1>4. CASE Proceed
  BY <1>0, <1>4 DEF Proceed, Goto, GotoPublish, Stages
<1>5. CASE Published
  <2>1. saved.phase = IF target = Campaign THEN "publishing" ELSE "preparing"
    BY <1>0, <1>5 DEF Published, Stages
  <2>2. CASE target = Campaign
    BY <1>0, <1>5, <2>1, <2>2 DEF Published, Goto, Stages, TypeOK
  <2>3. CASE target # Campaign /\ target < AllTargets
    <3>1. target + 1 # Campaign
      BY <1>0, <2>3 DEF TypeOK, Workspace, Trajectory, Campaign
    <3> QED BY <1>0, <1>5, <2>1, <2>3, <3>1 DEF Published, GotoPublish, Stages
  <2>4. CASE target # Campaign /\ ~ (target < AllTargets)
    BY <1>0, <1>5, <2>1, <2>4 DEF Published, Goto, Stages, TypeOK
  <2> QED BY <2>2, <2>3, <2>4
<1>6. CASE Advance
  BY <1>0, <1>6 DEF Advance, Goto, Stages, TypeOK
<1>7. CASE Publication
  <2>1. UNCHANGED <<saved, summaries, target, threads>>
    BY <1>7 DEF Publication, PlanPublication, Seal, Check, WriteAll, MoveRef, RefreshIndex, Goto,
                repositories, episodes
  <2>2. pc \in Publishing /\ (pc' \in Publishing \/ pc' = "refused")
    BY <1>7 DEF Publication, PlanPublication, Seal, Check, WriteAll, MoveRef, RefreshIndex, Goto
  <2> QED BY <1>0, <2>1, <2>2 DEF Stages
<1>8. CASE EndJobs
  <2>1. CASE UNCHANGED saved
    BY <1>0, <1>8, <2>1 DEF EndJobs, Goto, Stages
  <2>2. CASE \E kernel \in Candidates :
               saved' = [saved EXCEPT !.phase = "publishing", !.winner = kernel]
    BY <1>0, <1>8, <2>2, WinnerIsKernel DEF EndJobs, Goto, Stages, TypeOK
  <2> QED BY <1>8, <2>1, <2>2 DEF EndJobs
<1>9. CASE Drained \/ Interrupt \/ Crash
  BY <1>0, <1>9 DEF Drained, Interrupt, Crash, Stages
<1>10. ASSUME NEW job \in Job, Dispatch(job) PROVE Stages'
  BY <1>0, <1>10 DEF Dispatch, Stages, TypeOK
<1>11. ASSUME NEW job \in DOMAIN threads, Collect(job) PROVE Stages'
  BY <1>0, <1>11 DEF Collect, Stages, TypeOK
<1>12. ASSUME NEW job \in DOMAIN threads, Run(job) \/ Raise(job) PROVE Stages'
  BY <1>0, <1>12 DEF Run, BeginEpisode, OpenEpisode, EndEpisode, CloseEpisode, ReadResult,
                     Raise, Move, Stages, volatile
<1>13. CASE WriteSome \/ Foreign \/ UNCHANGED vars
  BY <1>0, <1>13 DEF WriteSome, Foreign, Stages, volatile, vars
<1> QED BY <1>1, <1>2, <1>3, <1>4, <1>5, <1>6, <1>7, <1>8, <1>9, <1>10, <1>11, <1>12, <1>13
        DEF Next, Coordination

\* The plan stays pinned until it is carried out.
LEMMA PinnedKept ==
    ASSUME SearchInv, [Next]_vars
    PROVE  Pinned'
<1> DEFINE Places == {"seal", "check", "write", "ref"}
<1>1. CASE PlanPublication
  <2>1. CASE pc' \notin Places
    BY <2>1 DEF Pinned
  <2>2. CASE pc' \in Places
    <3>1. /\ plan' = [plan EXCEPT ![target][saved.epoch] = PinnedPlan]
          /\ PinnedPlan.kernel = ToPublish /\ UNCHANGED <<saved, target>>
      BY <1>1, <2>2 DEF PlanPublication, Goto
    <3>2. /\ saved.epoch \in Epoch /\ target \in Workspace
          /\ plan \in [Workspace -> [Epoch -> [version : Nat, kernel : Outcome]]]
      BY <1>1, SealedType DEF PlanPublication, Publishing, SearchInv, TypeOK
    <3>3. plan'[target][saved.epoch] = PinnedPlan
      BY <3>1, <3>2
    <3>4. ToPublish \in Kernel
      BY <1>1 DEF PlanPublication, SearchInv, Stages, Publishing, TypeOK, ToPublish
    <3>5. PinnedPlan # NoPlan
      BY <3>1, <3>4, SearchAssumption DEF NoPlan
    <3>6. ToPublish' = ToPublish
      BY <3>1 DEF ToPublish
    <3> QED BY <3>1, <3>3, <3>5, <3>6 DEF Pinned
  <2> QED BY <2>1, <2>2
<1>2. CASE ~ PlanPublication
  <2>1. plan' = plan
    BY <1>2, Writers
  <2>2. pc' \in Places => pc \in Places /\ UNCHANGED <<saved, target>>
    BY <1>2, PublishingSteps DEF Publishing, Proceed, Published, Publication,
       Seal, Check, WriteAll, MoveRef, RefreshIndex, Goto, GotoPublish
  <2> QED BY <2>1, <2>2 DEF SearchInv, Pinned, ToPublish
<1> QED BY <1>1, <1>2

\* Chain is kept: an Epoch is numbered, seeded and counted by the write that ends it.
LEMMA ChainKept ==
    ASSUME SearchInv, [Next]_vars
    PROVE  Chain'
<1>0. TypeOK /\ Stages /\ Chain /\ Epochs \in Nat
  BY SearchAssumption DEF SearchInv
<1>1. CASE Advance
  <2>1. /\ saved.winner \in Kernel /\ saved.epoch \in Epoch
        /\ summaries[saved.epoch] = saved.winner
    BY <1>0, <1>1 DEF Advance, Stages
  <2>2. /\ saved'.epoch = saved.epoch + 1 /\ saved'.seed = saved.winner
        /\ saved'.stalls = StallsAfter(saved) /\ summaries' = summaries
    BY <1>0, <1>1 DEF Advance, TypeOK
  <2>3. saved.epoch \in Nat /\ saved.epoch # 0 /\ saved.stalls \in Nat /\ saved.stalls < saved.epoch
    BY <1>0, <2>1, SMTT(30) DEF TypeOK, Epoch, Chain
  <2>4. saved'.seed = SeedOf(saved.epoch)'
    BY <2>1, <2>2, <2>3 DEF SeedOf
  <2>5. \A k \in 1 .. saved'.epoch - 1 : summaries'[k] \in Kernel
    BY <1>0, <2>1, <2>2, <2>3 DEF Chain
  <2>6. StallsAfter(saved) < saved.epoch + 1
    BY <2>3 DEF StallsAfter
  <2> QED BY <2>2, <2>4, <2>5, <2>6 DEF Chain, SeedOf
<1>2. CASE ~ Advance
  <2>1. /\ saved'.epoch = saved.epoch /\ saved'.seed = saved.seed
        /\ saved'.stalls = saved.stalls
    BY <1>0, <1>2, SavedSteps DEF EpochKept
  <2>2. \A k \in 1 .. saved.epoch - 1 : summaries'[k] = summaries[k]
    <3>1. CASE summaries' = summaries
      BY <3>1
    <3>2. CASE summaries' = [summaries EXCEPT ![saved.epoch] = saved.winner]
      BY <1>0, <3>2 DEF TypeOK, Epoch
    <3> QED BY <3>1, <3>2, Writers DEF Published
  <2>3. SeedOf(saved.epoch)' = SeedOf(saved.epoch)
    <3>1. saved.epoch \in Nat \ {0}
      BY <1>0 DEF TypeOK
    <3>2. saved.epoch # 1 => summaries'[saved.epoch - 1] = summaries[saved.epoch - 1]
      BY <2>2, <3>1
    <3> QED BY <2>1, <3>1, <3>2 DEF SeedOf
  <2>4. \A k \in 1 .. saved'.epoch - 1 : summaries'[k] \in Kernel
    BY <1>0, <2>1, <2>2 DEF Chain
  <2>5. saved.seed = SeedOf(saved.epoch) /\ saved.stalls < saved.epoch
    BY <1>0 DEF Chain
  <2>6. saved'.seed = SeedOf(saved.epoch)' /\ saved'.stalls < saved'.epoch
    BY <2>1, <2>3, <2>5
  <2> QED BY <2>4, <2>6 DEF Chain
<1> QED BY <1>1, <1>2

\* The number of an Episode does not change while a thread works on it.
LEMMA NumberKept ==
    ASSUME SearchInv, [Next]_vars
    PROVE  /\ saved'.epoch = saved.epoch \/ (Advance /\ DOMAIN threads' = {})
           /\ saved'.epoch = saved.epoch => \A job \in Job : EpisodeOf(job)' = EpisodeOf(job)
<1>1. saved'.epoch = saved.epoch \/ Advance
  BY SavedSteps DEF SearchInv, EpochKept
<1>2. Advance => DOMAIN threads' = {}
  BY DEF SearchInv, Stages, Advance, Goto
<1> QED BY <1>1, <1>2 DEF EpisodeOf

\* An Episode ends when those before it are counted and it is not.
LEMMA EndsNext ==
    ASSUME SearchInv, NEW job \in DOMAIN threads, EndEpisode(job)
    PROVE  /\ count[job[1]] = EpisodeOf(job) - 1
           /\ ~ Ended(job[1], EpisodeOf(job))
<1>1. /\ TypeOK /\ Running /\ job[1] \in Trajectory /\ EpisodeOf(job) \in Episode
      /\ EpisodeOf(job) \in Nat /\ count[job[1]] \in 0 .. Epochs * Steps /\ Epochs * Steps \in Nat
  BY JobOfThread, SearchAssumption, SMTT(30) DEF SearchInv, TypeOK
<1>2. count[job[1]] < EpisodeOf(job) /\ count[job[1]] \in {EpisodeOf(job) - 1, EpisodeOf(job)}
  BY <1>1 DEF EndEpisode, MoreToRun, Running
<1> QED BY <1>1, <1>2 DEF Running

\* Threads keep to their own trajectories and to the Episode after the counted ones.
LEMMA RunningKept ==
    ASSUME SearchInv, [Next]_vars
    PROVE  Running'
<1> USE DEF SearchInv
<1>0. /\ TypeOK /\ Stages /\ Running
      /\ \A job \in DOMAIN threads :
             /\ job \in Job /\ job[1] \in Trajectory /\ EpisodeOf(job) \in Episode
             /\ EpisodeOf(job) \in Nat \ {0}
      /\ \A t \in Trajectory : count[t] \in Nat
  <2>1. Epochs * Steps \in Nat
    BY SearchAssumption
  <2> QED BY <2>1, JobOfThread DEF TypeOK
<1>1. ASSUME saved'.epoch = saved.epoch
      PROVE  \A job \in Job : EpisodeOf(job)' = EpisodeOf(job)
  BY <1>1, NumberKept
<1>2. \A i, j \in DOMAIN threads' : i[1] = j[1] => i = j
  <2>1. ASSUME NEW job \in Job, Dispatch(job)
        PROVE  \A i, j \in DOMAIN threads' : i[1] = j[1] => i = j
    BY <1>0, <2>1 DEF Dispatch, Eligible, Busy, Running
  <2>2. DOMAIN threads' \subseteq DOMAIN threads \/ \E job \in Job : Dispatch(job)
    <3>1. Drained \/ Crash => DOMAIN threads' = {}
      BY DEF Drained, Crash
    <3>2. ASSUME NEW job \in DOMAIN threads,
                 \/ BeginEpisode(job) \/ CloseEpisode(job) \/ ReadResult(job) \/ Raise(job)
                 \/ Collect(job)
          PROVE  DOMAIN threads' \subseteq DOMAIN threads
      BY <3>2 DEF BeginEpisode, CloseEpisode, ReadResult, Raise, Collect, Without, Move
    <3> QED BY <3>1, <3>2, Writers
  <2> QED BY <1>0, <2>1, <2>2 DEF Running
<1>3. \A t \in Trajectory : \A e \in Episode : Ended(t, e)' <=> e <= count'[t]
  <2>1. CASE UNCHANGED <<count, attempt>>
    BY <1>0, <2>1 DEF Running, Ended
  <2>2. ASSUME NEW job \in DOMAIN threads, EndEpisode(job)
        PROVE  \A t \in Trajectory : \A e \in Episode : Ended(t, e)' <=> e <= count'[t]
    <3>1. count[job[1]] = EpisodeOf(job) - 1
      BY <2>2, EndsNext
    <3>2. count' = [count EXCEPT ![job[1]] = EpisodeOf(job)]
      BY <2>2 DEF EndEpisode
    <3>3. PICK outcome \in Outcome : attempt' = [attempt EXCEPT ![job[1]][EpisodeOf(job)] = outcome]
      BY <2>2 DEF EndEpisode, Outcome
    <3>4. outcome # Unended
      BY <3>3, SearchAssumption DEF Outcome
    <3>5. \A e \in Episode : e \in Nat
      BY DEF Episode
    <3>6. /\ attempt \in [Trajectory -> [Episode -> Outcome \cup {Unended}]]
          /\ count \in [Trajectory -> 0 .. Epochs * Steps]
      BY <1>0 DEF TypeOK
    <3> TAKE t \in Trajectory
    <3> TAKE e \in Episode
    <3>7. attempt'[t][e] = IF t = job[1] /\ e = EpisodeOf(job) THEN outcome ELSE attempt[t][e]
      BY <1>0, <3>3, <3>6
    <3>8. count'[t] = IF t = job[1] THEN EpisodeOf(job) ELSE count[t]
      BY <1>0, <3>2, <3>6
    <3>9. Ended(t, e) <=> e <= count[t]
      BY <1>0 DEF Running
    <3> QED BY <1>0, <3>1, <3>4, <3>5, <3>7, <3>8, <3>9 DEF Ended
  <2> QED BY <2>1, <2>2, Writers
<1>4. ASSUME NEW job \in DOMAIN threads'
      PROVE  /\ threads'[job] = "episode" => count'[job[1]] \in {EpisodeOf(job)' - 1, EpisodeOf(job)'}
             /\ threads'[job] \in {"ended", "returned"} => count'[job[1]] = EpisodeOf(job)'
  <2>1. saved'.epoch = saved.epoch
    BY <1>4, NumberKept
  <2>2. CASE \E other \in DOMAIN threads : EndEpisode(other)
    <3> PICK other \in DOMAIN threads : EndEpisode(other)
      BY <2>2
    <3>1. threads' = threads /\ count' = [count EXCEPT ![other[1]] = EpisodeOf(other)]
      BY DEF EndEpisode, volatile
    <3>2. count[other[1]] = EpisodeOf(other) - 1 /\ threads[other] = "episode"
      BY EndsNext DEF EndEpisode
    <3>3. count'[job[1]] = IF job = other THEN EpisodeOf(job) ELSE count[job[1]]
      BY <1>0, <3>1 DEF Running, TypeOK
    <3>4. EpisodeOf(job)' = EpisodeOf(job)
      BY <1>0, <1>1, <2>1, <3>1
    <3> QED BY <1>0, <1>4, <3>1, <3>2, <3>3, <3>4 DEF Running
  <2>3. CASE UNCHANGED <<count>> /\ \E other \in Job : Dispatch(other)
    <3>1. threads'[job] = "begin" \/ (job \in DOMAIN threads /\ threads'[job] = threads[job])
      BY <1>4, <2>3 DEF Dispatch
    <3> QED BY <1>0, <1>1, <2>1, <2>3, <3>1 DEF Running
  <2>4. CASE UNCHANGED <<count>> /\ \E other \in DOMAIN threads : BeginEpisode(other)
    <3> PICK other \in DOMAIN threads : BeginEpisode(other)
      BY <2>4
    <3>1. /\ job \in DOMAIN threads /\ EpisodeOf(job)' = EpisodeOf(job)
          /\ threads'[job] = threads[job] \/ job = other
      BY <1>0, <1>1, <1>4, <2>1 DEF BeginEpisode, Move
    <3>2. /\ threads'[other] = "episode" => count[other[1]] \in {EpisodeOf(other) - 1, EpisodeOf(other)}
          /\ threads'[other] \in {"ended", "returned"} => count[other[1]] = EpisodeOf(other)
      BY <1>0 DEF BeginEpisode, Move, MoreToRun
    <3> QED BY <1>0, <2>4, <3>1, <3>2 DEF Running
  <2>5. CASE /\ UNCHANGED <<count>>
             /\ \E other \in DOMAIN threads : CloseEpisode(other) \/ ReadResult(other) \/ Raise(other)
    <3> PICK other \in DOMAIN threads : CloseEpisode(other) \/ ReadResult(other) \/ Raise(other)
      BY <2>5
    <3>1. /\ job \in DOMAIN threads /\ EpisodeOf(job)' = EpisodeOf(job)
          /\ threads'[job] = threads[job] \/ job = other
      BY <1>0, <1>1, <1>4, <2>1 DEF CloseEpisode, ReadResult, Raise, Move
    <3>2. /\ threads'[other] # "episode"
          /\ threads'[other] \in {"ended", "returned"} => count[other[1]] = EpisodeOf(other)
      BY <1>0 DEF CloseEpisode, ReadResult, Raise, Move, MoreToRun, Running
    <3> QED BY <1>0, <2>5, <3>1, <3>2 DEF Running
  <2>6. CASE UNCHANGED <<count>> /\ \A j \in DOMAIN threads' : j \in DOMAIN threads /\ threads'[j] = threads[j]
    BY <1>0, <1>1, <1>4, <2>1, <2>6 DEF Running
  <2>7. \/ \E other \in DOMAIN threads : EndEpisode(other)
        \/ /\ UNCHANGED count
           /\ \/ \E other \in Job : Dispatch(other)
              \/ \E other \in DOMAIN threads :
                     BeginEpisode(other) \/ CloseEpisode(other) \/ ReadResult(other) \/ Raise(other)
              \/ \A j \in DOMAIN threads' : j \in DOMAIN threads /\ threads'[j] = threads[j]
    <3>1. Drained \/ Crash => DOMAIN threads' = {}
      BY DEF Drained, Crash
    <3>2. ASSUME NEW other \in DOMAIN threads, Collect(other)
          PROVE  \A j \in DOMAIN threads' : j \in DOMAIN threads /\ threads'[j] = threads[j]
      BY <3>2 DEF Collect, Without
    <3> QED BY <3>1, <3>2, Writers
  <2> QED BY <2>2, <2>3, <2>4, <2>5, <2>6, <2>7
<1> QED BY <1>2, <1>3, <1>4 DEF Running

-----------------------------------------------------------------------------
(* What an Epoch decides *)

\* What an Episode ended with stays what it ended with.
LEMMA AttemptsKept ==
    ASSUME SearchInv, [Next]_vars, NEW t \in Trajectory, NEW e \in Episode, Ended(t, e)
    PROVE  attempt'[t][e] = attempt[t][e]
<1>1. CASE UNCHANGED attempt
  BY <1>1
<1>2. ASSUME NEW job \in DOMAIN threads, EndEpisode(job)
      PROVE  attempt'[t][e] = attempt[t][e]
  <2>1. ~ (t = job[1] /\ e = EpisodeOf(job))
    BY <1>2, EndsNext
  <2>2. PICK outcome : attempt' = [attempt EXCEPT ![job[1]][EpisodeOf(job)] = outcome]
    BY <1>2 DEF EndEpisode
  <2> QED BY <2>1, <2>2 DEF SearchInv, TypeOK
<1> QED BY <1>1, <1>2, Writers

\* The seed of an Epoch stays its seed.
LEMMA SeedKept ==
    ASSUME SearchInv, [Next]_vars, NEW k \in Epoch, k <= saved.epoch
    PROVE  SeedOf(k)' = SeedOf(k)
<1>1. k \in Nat \ {0} /\ saved.epoch \in Nat
  BY DEF Epoch, SearchInv, TypeOK
<1>2. CASE summaries' = summaries
  BY <1>2 DEF SeedOf
<1>3. CASE summaries' = [summaries EXCEPT ![saved.epoch] = saved.winner]
  <2>1. k # 1 => k - 1 \in Epoch /\ k - 1 # saved.epoch
    BY <1>1, SearchAssumption DEF Epoch
  <2> QED BY <1>3, <2>1 DEF SeedOf, SearchInv, TypeOK
<1> QED BY <1>2, <1>3, Writers DEF Published

\* A decision stands.
LEMMA DecidedKept ==
    ASSUME SearchInv, [Next]_vars, NEW k \in Epoch, k <= saved.epoch,
           NEW kernel, Decided(kernel, k)
    PROVE  Decided(kernel, k)'
<1>1. \A j \in Job :
          attempt'[j[1]][(k - 1) * Steps + j[2]] = attempt[j[1]][(k - 1) * Steps + j[2]]
  <2> SUFFICES ASSUME NEW j \in Job
               PROVE  attempt'[j[1]][(k - 1) * Steps + j[2]] = attempt[j[1]][(k - 1) * Steps + j[2]]
    OBVIOUS
  <2>1. j[1] \in Trajectory /\ (k - 1) * Steps + j[2] \in Episode
    BY Numbered DEF Job
  <2>2. attempt[j[1]][(k - 1) * Steps + j[2]] \in Known(k)
    BY DEF Known, OutcomesOf
  <2>3. Ended(j[1], (k - 1) * Steps + j[2])
    BY <2>2 DEF Decided, Ended
  <2> QED BY <2>1, <2>3, AttemptsKept
<1>2. OutcomesOf(k)' = OutcomesOf(k)
  BY <1>1 DEF OutcomesOf
<1>3. Known(k)' = Known(k)
  BY <1>2, SeedKept DEF Known
<1> QED BY <1>3, SeedKept DEF Decided

\* What the archive says is what a job records.
LEMMA ResultsKept ==
    ASSUME SearchInv, [Next]_vars
    PROVE  Results'
<1> DEFINE Phases == {"preparing", "running", "publishing"}
<1>0. TypeOK /\ Stages /\ Results /\ Running
  BY DEF SearchInv
<1>1. ASSUME NEW j \in Job, saved.epoch \in Epoch, saved'.epoch = saved.epoch,
             Ended(j[1], EpisodeOf(j))
      PROVE  /\ Ended(j[1], EpisodeOf(j))'
             /\ attempt'[j[1]][EpisodeOf(j)'] = attempt[j[1]][EpisodeOf(j)]
  <2>1. EpisodeOf(j)' = EpisodeOf(j) /\ j[1] \in Trajectory /\ EpisodeOf(j) \in Episode
    BY <1>0, <1>1, NumberKept, EpisodeOfJob
  <2> QED BY <1>1, <2>1, AttemptsKept DEF Ended
<1>2. CASE /\ saved'.epoch = saved.epoch
           /\ saved'.phase \in Phases => saved.phase \in Phases
           /\ \A j \in Job : saved'.jobs[j] = "completed" =>
                  saved.jobs[j] = "completed" /\ saved'.result[j] = saved.result[j]
  <2> SUFFICES ASSUME saved'.phase \in Phases, NEW j \in Job, saved'.jobs[j] = "completed"
               PROVE  /\ Ended(j[1], EpisodeOf(j))'
                      /\ saved'.result[j] = attempt'[j[1]][EpisodeOf(j)']
    BY DEF Results
  <2>1. saved.epoch \in Epoch /\ saved.phase \in Phases
    BY <1>0, <1>2 DEF Stages
  <2>2. Ended(j[1], EpisodeOf(j)) /\ saved.result[j] = attempt[j[1]][EpisodeOf(j)]
    BY <1>0, <1>2, <2>1 DEF Results
  <2> QED BY <1>1, <1>2, <2>1, <2>2
<1>3. ASSUME NEW job \in DOMAIN threads, Collect(job) PROVE Results'
  <2>1. CASE UNCHANGED saved
    BY <1>2, <2>1
  <2>2. CASE /\ threads[job] = "returned"
             /\ saved' = [saved EXCEPT !.jobs[job] = "completed", !.result[job] = Retained(job)]
    <3>1. /\ job \in Job /\ saved.epoch \in Epoch /\ job[1] \in Trajectory
          /\ EpisodeOf(job) \in Episode /\ EpisodeOf(job) \in Nat /\ count[job[1]] = EpisodeOf(job)
      BY <1>0, <2>2, JobOfThread DEF Running
    <3>2. Ended(job[1], EpisodeOf(job))
      BY <1>0, <3>1 DEF Running
    <3>3. /\ saved'.epoch = saved.epoch /\ saved'.phase = saved.phase
          /\ saved'.result[job] = attempt[job[1]][EpisodeOf(job)]
          /\ \A j \in Job \ {job} : saved'.jobs[j] = saved.jobs[j] /\ saved'.result[j] = saved.result[j]
      BY <1>0, <2>2, <3>1 DEF TypeOK, Retained
    <3> SUFFICES ASSUME saved'.phase \in Phases, NEW j \in Job, saved'.jobs[j] = "completed"
                 PROVE  /\ Ended(j[1], EpisodeOf(j))'
                        /\ saved'.result[j] = attempt'[j[1]][EpisodeOf(j)']
      BY DEF Results
    <3>4. Ended(j[1], EpisodeOf(j)) /\ saved'.result[j] = attempt[j[1]][EpisodeOf(j)]
      BY <1>0, <3>2, <3>3 DEF Results
    <3> QED BY <1>1, <3>1, <3>3, <3>4
  <2> QED BY <1>3, <2>1, <2>2 DEF Collect
<1>4. CASE saved' = saved \/ Published \/ EndJobs \/ \E job \in Job : Dispatch(job)
  <2>1. /\ saved'.epoch = saved.epoch
        /\ saved'.phase \in Phases => saved.phase \in Phases
    BY <1>0, <1>4 DEF TypeOK, Stages, Published, EndJobs, Dispatch, Publishing
  <2>2. \A j \in Job : saved'.jobs[j] = "completed" =>
            saved.jobs[j] = "completed" /\ saved'.result[j] = saved.result[j]
    <3>1. CASE saved' = saved \/ Published
      BY <1>0, <3>1 DEF TypeOK, Published
    <3>0. CASE EndJobs
      BY <1>0, <3>0 DEF TypeOK, EndJobs
    <3>2. ASSUME NEW job \in Job, saved' = [saved EXCEPT !.jobs[job] = "running"]
          PROVE  /\ saved'.result = saved.result
                 /\ \A j \in Job : saved'.jobs[j] = "completed" => saved.jobs[j] = "completed"
      BY <1>0, <3>2 DEF TypeOK
    <3> QED BY <1>4, <3>0, <3>1, <3>2 DEF Dispatch
  <2> QED BY <1>2, <2>1, <2>2
<1>5. CASE Start \/ Advance
  <2>1. saved' = saved \/ saved'.phase = "idle"
    BY <1>0, <1>5 DEF Start, Advance, TypeOK
  <2> QED BY <1>4, <2>1 DEF Results
<1>6. CASE PlanEpoch
  <2>1. UNCHANGED saved \/ saved'.jobs = [j \in Job |-> "pending"]
    BY <1>0, <1>6 DEF PlanEpoch, TypeOK
  <2> QED BY <1>2, <2>1 DEF Results
<1> QED BY <1>3, <1>4, <1>5, <1>6, Writers

\* A completed Epoch is decided by the winner of its candidates.
LEMMA WinnerIsDecided ==
    ASSUME SearchInv, saved.phase = "running", AllCompleted,
           NEW kernel \in Candidates, IsWinner(kernel)
    PROVE  Decided(kernel, saved.epoch)
<1>1. /\ TypeOK /\ saved.epoch \in Epoch /\ saved.seed = SeedOf(saved.epoch)
      /\ saved.seed \in Kernel
  BY DEF SearchInv, Stages, Chain, TypeOK
<1>2. \A j \in Job : /\ saved.result[j] # Unended
                     /\ saved.result[j] = attempt[j[1]][(saved.epoch - 1) * Steps + j[2]]
  BY DEF SearchInv, Results, AllCompleted, Ended, EpisodeOf
<1>3. OutcomesOf(saved.epoch) = {saved.result[j] : j \in Job}
  BY <1>2 DEF OutcomesOf
<1>4. Unended \notin Known(saved.epoch)
  BY <1>1, <1>2, <1>3, SearchAssumption DEF Known
<1>5. Known(saved.epoch) \ {None} = Candidates
  BY <1>1, <1>3, SearchAssumption DEF Known, Candidates
<1> QED BY <1>1, <1>4, <1>5 DEF Decided, IsWinner

\* The Campaign is promised what its Epoch decided.
LEMMA WinnersKept ==
    ASSUME SearchInv, [Next]_vars
    PROVE  Winners'
<1>0. TypeOK /\ Stages /\ Winners /\ Epochs \in Nat
  BY SearchAssumption DEF SearchInv
<1>1. saved.epoch <= saved'.epoch
  <2>1. saved.epoch \in Nat
    BY <1>0 DEF TypeOK
  <2>2. Advance => saved'.epoch = saved.epoch + 1
    BY <1>0 DEF TypeOK, Advance
  <2> QED BY <2>1, <2>2, NumberKept
<1>2. saved'.phase = "publishing" => Decided(saved.winner, saved.epoch)'
  <2>1. ASSUME saved.phase = "publishing", saved'.phase = "publishing"
        PROVE  saved'.winner = saved.winner /\ saved'.epoch = saved.epoch
    BY <1>0, <2>1, SavedSteps DEF EpochKept, Stages, EndJobs
  <2>2. ASSUME saved.phase # "publishing", saved'.phase = "publishing"
        PROVE  /\ saved.phase = "running" /\ AllCompleted /\ saved'.epoch = saved.epoch
               /\ \E kernel \in Candidates : IsWinner(kernel) /\ saved'.winner = kernel
    <3>1. EndJobs
      BY <1>0, <2>2, SavedSteps DEF PhaseSteps
    <3> QED BY <1>0, <2>2, <3>1 DEF TypeOK, Stages, EndJobs, Decidable
  <2> SUFFICES ASSUME saved'.phase = "publishing"
               PROVE  Decided(saved.winner, saved.epoch)'
    OBVIOUS
  <2>3. /\ saved.epoch \in Epoch /\ saved.epoch <= saved.epoch /\ saved'.epoch = saved.epoch
        /\ Decided(saved'.winner, saved.epoch)
    BY <1>0, <2>1, <2>2, WinnerIsDecided DEF Stages, Winners, Epoch
  <2>4. \A kernel, k : kernel = saved'.winner /\ k = saved'.epoch =>
            (Decided(kernel, k)' <=> Decided(saved.winner, saved.epoch)')
    BY DEF Decided, Known, SeedOf, OutcomesOf
  <2>5. PICK kernel : kernel = saved'.winner
    OBVIOUS
  <2>6. PICK k \in Epoch : k = saved.epoch
    BY <2>3
  <2>7. Decided(kernel, k)'
    BY <2>3, <2>5, <2>6, DecidedKept
  <2> QED BY <2>3, <2>4, <2>5, <2>6, <2>7
<1>3. ASSUME NEW k \in Epoch, plan'[Campaign][k] # NoPlan
      PROVE  k <= saved'.epoch /\ Decided(plan[Campaign][k].kernel, k)'
  <2>0. k \in Nat /\ saved.epoch \in Nat /\ saved'.epoch \in Nat
    <3>1. saved.epoch \in Nat
      BY <1>0 DEF TypeOK
    <3>2. saved'.epoch = saved.epoch \/ saved'.epoch = saved.epoch + 1
      BY <1>0, SavedSteps DEF EpochKept
    <3> QED BY <3>1, <3>2 DEF Epoch
  <2>1. CASE plan'[Campaign][k] = plan[Campaign][k]
    <3>1. k <= saved.epoch /\ Decided(plan[Campaign][k].kernel, k)
      BY <1>0, <1>3, <2>1 DEF Winners
    <3>2. \A kernel : kernel = plan'[Campaign][k].kernel =>
              (Decided(kernel, k)' <=> Decided(plan[Campaign][k].kernel, k)')
      BY DEF Decided, Known, SeedOf, OutcomesOf
    <3> QED BY <1>1, <2>0, <2>1, <3>1, <3>2, DecidedKept
  <2>2. CASE plan'[Campaign][k] # plan[Campaign][k]
    <3>1. /\ PlanPublication
          /\ plan' = [plan EXCEPT ![target][saved.epoch] = PinnedPlan]
          /\ PinnedPlan.kernel = ToPublish
      BY <2>2, Writers DEF PlanPublication
    <3>2. /\ saved.epoch \in Epoch /\ target \in Workspace
          /\ plan \in [Workspace -> [Epoch -> [version : Nat, kernel : Outcome]]]
      BY <1>0, <3>1, SealedType DEF PlanPublication, Publishing, TypeOK
    <3>3. target = Campaign /\ k = saved.epoch /\ plan'[Campaign][k] = PinnedPlan
      BY <2>2, <3>1, <3>2 DEF Workspace
    <3>4. saved.phase = "publishing" /\ saved'.epoch = saved.epoch
      BY <1>0, <3>1, <3>3 DEF PlanPublication, Stages, Publishing
    <3>5. Decided(saved.winner, saved.epoch) /\ plan'[Campaign][k].kernel = saved.winner
      BY <1>0, <3>1, <3>3, <3>4 DEF Winners, ToPublish
    <3>6. \A kernel : kernel = plan'[Campaign][k].kernel =>
              (Decided(kernel, k)' <=> Decided(plan[Campaign][k].kernel, k)')
      BY DEF Decided, Known, SeedOf, OutcomesOf
    <3>7. Decided(saved.winner, k) /\ k <= saved.epoch
      BY <2>0, <3>3, <3>5
    <3> QED BY <2>0, <3>3, <3>4, <3>5, <3>6, <3>7, DecidedKept
  <2> QED BY <2>1, <2>2
<1> QED BY <1>2, <1>3 DEF Winners

-----------------------------------------------------------------------------
(* Publications *)

\* A plan that is there stays, and so does a receipt.
LEMMA PlansStay ==
    ASSUME SearchInv, [Next]_vars, NEW w \in Workspace, NEW k \in Epoch
    PROVE  /\ plan[w][k] # NoPlan => plan'[w][k] = plan[w][k]
           /\ receipt[w][k] # NoReceipt => receipt'[w][k] = receipt[w][k]
<1>0. TypeOK
  BY DEF SearchInv
<1>1. plan[w][k] # NoPlan => plan'[w][k] = plan[w][k]
  <2>1. CASE plan' = [plan EXCEPT ![target][saved.epoch] = PinnedPlan]
    <3>1. CASE w = target /\ k = saved.epoch
      BY <1>0, <2>1, <3>1 DEF PinnedPlan, TypeOK
    <3>2. CASE ~ (w = target /\ k = saved.epoch)
      BY <1>0, <2>1, <3>2 DEF TypeOK
    <3> QED BY <3>1, <3>2
  <2> QED BY <2>1, Writers DEF PlanPublication
<1>2. receipt[w][k] # NoReceipt => receipt'[w][k] = receipt[w][k]
  <2>1. CASE /\ receipt[target][saved.epoch] = NoReceipt
             /\ receipt' = [receipt EXCEPT ![target][saved.epoch] =
                                [base |-> Len(history[target]), commit |-> Broadcast]]
    <3>1. receipt[w][k] # NoReceipt => ~ (w = target /\ k = saved.epoch)
      BY <2>1
    <3> QED BY <1>0, <2>1, <3>1 DEF TypeOK
  <2> QED BY <2>1, Writers DEF Seal
<1> QED BY <1>1, <1>2

\* A history keeps its commits.
LEMMA CommitsStay ==
    ASSUME SearchInv, [Next]_vars, NEW w \in Workspace, NEW i \in DOMAIN history[w]
    PROVE  i \in DOMAIN history'[w] /\ history'[w][i] = history[w][i]
<1>1. history[w] \in Seq(Commit)
  BY DEF SearchInv, TypeOK
<1>2. CASE history'[w] = history[w]
  BY <1>2
<1>3. ASSUME NEW commit, history'[w] = Append(history[w], commit)
      PROVE  i \in DOMAIN history'[w] /\ history'[w][i] = history[w][i]
  BY <1>1, <1>3
<1> QED BY <1>2, <1>3, HistoryStep DEF HistoryGrows

\* A broadcast that is new is the sealed commit of the target, on its base.
LEMMA NewBroadcast ==
    ASSUME SearchInv, [Next]_vars, NEW w \in Workspace,
           NEW i \in DOMAIN history'[w], history'[w][i].kind = "broadcast",
           i \notin DOMAIN history[w]
    PROVE  /\ MoveRef /\ OnBase /\ w = target
           /\ i = Sealed.base + 1 /\ history'[w][i] = Sealed.commit
<1>1. history[w] \in Seq(Commit)
  BY DEF SearchInv, TypeOK
<1>2. ASSUME NEW commit, history'[w] = Append(history[w], commit)
      PROVE  i = Len(history[w]) + 1 /\ history'[w][i] = commit
  BY <1>1, <1>2
<1>3. history'[w] # history[w]
  OBVIOUS
<1> QED BY <1>2, <1>3, HistoryStep DEF HistoryGrows, OnBase

\* Receipts stay those of the broadcasts.
LEMMA SealingKept ==
    ASSUME SearchInv, [Next]_vars
    PROVE  Sealing'
<1>0. TypeOK /\ Stages /\ Pinned /\ Sealing
  BY DEF SearchInv
<1>1. ASSUME NEW w \in Workspace, NEW k \in Epoch, receipt'[w][k] # NoReceipt
      PROVE  /\ plan'[w][k] # NoPlan
             /\ receipt'[w][k].commit = [kind |-> "broadcast", kernel |-> plan'[w][k].kernel,
                                        version |-> plan'[w][k].version, epoch |-> k]
  <2>1. CASE receipt'[w][k] = receipt[w][k]
    <3>1. /\ plan[w][k] # NoPlan
          /\ receipt[w][k].commit = [kind |-> "broadcast", kernel |-> plan[w][k].kernel,
                                    version |-> plan[w][k].version, epoch |-> k]
      BY <1>0, <1>1, <2>1 DEF Sealing
    <3>2. plan'[w][k] = plan[w][k]
      BY <3>1, PlansStay
    <3> QED BY <2>1, <3>1, <3>2
  <2>2. CASE receipt'[w][k] # receipt[w][k]
    <3>1. /\ Seal
          /\ receipt' = [receipt EXCEPT ![target][saved.epoch] =
                             [base |-> Len(history[target]), commit |-> Broadcast]]
      BY <2>2, Writers DEF Seal
    <3>2. /\ saved.epoch \in Epoch /\ target \in Workspace
          /\ receipt \in [Workspace -> [Epoch -> [base : Nat, commit : Commit]]]
      BY <1>0, <3>1, SealedType DEF Seal, Publishing, TypeOK
    <3>3. /\ w = target /\ k = saved.epoch
          /\ receipt'[w][k] = [base |-> Len(history[target]), commit |-> Broadcast]
      BY <2>2, <3>1, <3>2
    <3>4. plan[w][k] # NoPlan /\ plan'[w][k] = plan[w][k]
      BY <1>0, <3>1, <3>3 DEF Seal, Pinned
    <3> QED BY <3>3, <3>4 DEF Broadcast
  <2> QED BY <2>1, <2>2
<1>2. ASSUME NEW w \in Workspace, NEW i \in DOMAIN history'[w], history'[w][i].kind = "broadcast"
      PROVE  /\ history'[w][i].epoch \in Epoch
             /\ receipt'[w][history'[w][i].epoch] = [base |-> i - 1, commit |-> history'[w][i]]
  <2>1. CASE i \in DOMAIN history[w]
    <3>1. history'[w][i] = history[w][i] /\ i \in Broadcasts(w)
      BY <1>2, <2>1, CommitsStay DEF Broadcasts
    <3>2. /\ history[w][i].epoch \in Epoch
          /\ receipt[w][history[w][i].epoch] = [base |-> i - 1, commit |-> history[w][i]]
      BY <1>0, <3>1 DEF Sealing
    <3>3. history[w][i] # First
      BY <1>2, <3>1 DEF First
    <3>4. receipt[w][history[w][i].epoch] # NoReceipt
      BY <3>2, <3>3 DEF NoReceipt
    <3> QED BY <3>1, <3>2, <3>4, PlansStay
  <2>2. CASE i \notin DOMAIN history[w]
    <3>1. /\ MoveRef /\ w = target /\ i = Sealed.base + 1 /\ history'[w][i] = Sealed.commit
      BY <1>2, <2>2, NewBroadcast
    <3>2. /\ saved.epoch \in Epoch /\ Sealed \in [base : Nat, commit : Commit]
      BY <1>0, <3>1, SealedType DEF MoveRef, Publishing
    <3>3. Sealed # NoReceipt
      BY <1>2, <3>1 DEF NoReceipt, First
    <3>4. history'[w][i].epoch = saved.epoch /\ receipt'[w][saved.epoch] = Sealed
      <4>1. Sealed.commit.epoch = saved.epoch
        <5>1. saved.epoch \in Epoch /\ receipt[w][saved.epoch] # NoReceipt
          BY <3>1, <3>2, <3>3 DEF Sealed
        <5>2. receipt[w][saved.epoch].commit =
                  [kind |-> "broadcast", kernel |-> plan[w][saved.epoch].kernel,
                   version |-> plan[w][saved.epoch].version, epoch |-> saved.epoch]
          BY <1>0, <5>1 DEF Sealing
        <5> QED BY <3>1, <5>2 DEF Sealed
      <4>2. receipt'[w][saved.epoch] = Sealed
        BY <3>1 DEF MoveRef, Sealed
      <4> QED BY <3>1, <4>1, <4>2
    <3> QED BY <3>1, <3>2, <3>4
  <2> QED BY <2>1, <2>2
<1> QED BY <1>1, <1>2 DEF Sealing, Broadcasts

\* What a workspace was given grows by the broadcasts among its new commits.
LEMMA GivenAppended ==
    ASSUME NEW w, history[w] \in Seq(Commit), NEW commit,
           history'[w] = Append(history[w], commit)
    PROVE  GivenTo(w)' = GivenTo(w) \cup
               (IF commit.kind = "broadcast" THEN {<<commit.epoch, commit.kernel>>} ELSE {})
<1>1. /\ DOMAIN history'[w] = DOMAIN history[w] \cup {Len(history[w]) + 1}
      /\ history'[w][Len(history[w]) + 1] = commit
      /\ \A i \in DOMAIN history[w] : history'[w][i] = history[w][i]
  OBVIOUS
<1>2. Broadcasts(w)' = Broadcasts(w) \cup
          (IF commit.kind = "broadcast" THEN {Len(history[w]) + 1} ELSE {})
  BY <1>1 DEF Broadcasts
<1>3. \A i \in Broadcasts(w) : history'[w][i] = history[w][i]
  BY <1>1 DEF Broadcasts
<1> QED BY <1>1, <1>2, <1>3 DEF GivenTo

\* What a workspace was given stays, and only MoveRef gives it more: the kernel of the
\* publication under way, for its Epoch.
LEMMA GivenStep ==
    ASSUME SearchInv, [Next]_vars, NEW w \in Workspace
    PROVE  \/ GivenTo(w)' = GivenTo(w)
           \/ /\ MoveRef /\ OnBase /\ w = target
              /\ GivenTo(w)' = GivenTo(w) \cup {<<saved.epoch, ToPublish>>}
<1>0. history[w] \in Seq(Commit) /\ Pinned /\ Progressing
  BY DEF SearchInv, TypeOK
<1>1. CASE history'[w] = history[w]
  BY <1>1 DEF GivenTo, Broadcasts
<1>2. ASSUME NEW commit \in Commit, history'[w] = Append(history[w], commit),
             commit.kind # "broadcast"
      PROVE  GivenTo(w)' = GivenTo(w)
  BY <1>0, <1>2, GivenAppended
<1>3. CASE MoveRef /\ OnBase /\ w = target /\ history'[w] = Append(history[w], Sealed.commit)
  <2>1. /\ Sealed.commit.kind = "broadcast" /\ Sealed.commit.epoch = saved.epoch
        /\ Sealed.commit.kernel = ToPublish
    BY <1>0, <1>3 DEF MoveRef, Progressing, Pinned, Broadcast
  <2> QED BY <1>0, <1>3, <2>1, GivenAppended
<1> QED BY <1>1, <1>2, <1>3, HistoryStep DEF HistoryGrows

\* A moved ref gives its target the kernel of the publication, if it was not given
\* before the process died.
LEMMA MoveRefGives ==
    ASSUME SearchInv, [Next]_vars, MoveRef, NEW w \in Workspace, w = target
    PROVE  <<saved.epoch, ToPublish>> \in GivenTo(w)'
<1>0. /\ TypeOK /\ Stages /\ Pinned /\ Progressing
      /\ history[w] \in Seq(Commit)
  BY DEF SearchInv, TypeOK
<1>1. /\ Sealed.commit.kind = "broadcast" /\ Sealed.commit.epoch = saved.epoch
      /\ Sealed.commit.kernel = ToPublish
  BY <1>0 DEF MoveRef, Progressing, Pinned, Broadcast
<1>2. Sealed.base \in Nat
  BY <1>0, SealedType DEF MoveRef, Publishing
<1>3. /\ Sealed.base + 1 \in DOMAIN history'[w]
      /\ history'[w][Sealed.base + 1] = Sealed.commit
  <2>1. CASE OnBase
    <3>1. history'[w] = Append(history[w], Sealed.commit)
      BY <1>0, <2>1 DEF MoveRef, TypeOK
    <3> QED BY <1>0, <2>1, <3>1 DEF OnBase
  <2>2. CASE ~ OnBase
    <3>1. OnTarget /\ history' = history
      BY <1>0, <2>2 DEF MoveRef, Progressing
    <3> QED BY <1>0, <1>2, <3>1 DEF OnTarget, Tip
  <2> QED BY <2>1, <2>2
<1>4. Sealed.base + 1 \in Broadcasts(w)'
  BY <1>1, <1>2, <1>3 DEF Broadcasts
<1> QED BY <1>1, <1>2, <1>3, <1>4 DEF GivenTo

\* A trajectory keeps the broadcast of the current Epoch.
LEMMA HasBroadcastKept ==
    ASSUME SearchInv, [Next]_vars, NEW t \in Trajectory, HasBroadcast(t),
           saved'.epoch = saved.epoch, saved'.seed = saved.seed
    PROVE  HasBroadcast(t)'
<1>1. t \in Workspace
  BY DEF Workspace
<1> QED BY <1>1, GivenStep DEF HasBroadcast

\* A trajectory that was published to has the broadcast of the Epoch.
LEMMA TargetHasBroadcast ==
    ASSUME SearchInv, [Next]_vars, MoveRef, target # Campaign
    PROVE  HasBroadcast(target)'
<1>1. saved' = saved /\ target' = target /\ ToPublish = saved.seed /\ target \in Workspace
  BY DEF MoveRef, Goto, ToPublish, SearchInv, TypeOK
<1>2. \A w : w = target' => GivenTo(w)' = GivenTo(target)'
  BY DEF GivenTo, Broadcasts
<1>3. \A w \in Workspace : w = target => <<saved.epoch, saved.seed>> \in GivenTo(w)'
  BY <1>1, MoveRefGives
<1> QED BY <1>1, <1>2, <1>3 DEF HasBroadcast

\* The stages of a publication follow each other.
LEMMA ProgressingKept ==
    ASSUME SearchInv, [Next]_vars
    PROVE  Progressing'
<1>0. /\ TypeOK /\ Stages /\ Pinned /\ Progressing /\ Campaign \notin Trajectory
      /\ Trajectories \in Nat /\ Trajectories # 0
  BY SearchAssumption DEF SearchInv, Campaign, Trajectory
<1>1. pc' \in {"check", "write", "ref"} => (Sealed.commit = Broadcast)'
  <2>1. CASE Seal /\ pc' = "check"
    <3>1. /\ saved.epoch \in Epoch /\ target \in Workspace
          /\ receipt \in [Workspace -> [Epoch -> [base : Nat, commit : Commit]]]
      BY <1>0, <2>1, SealedType DEF Seal, Publishing, TypeOK
    <3>2. UNCHANGED <<saved, target, plan>> /\ Broadcast' = Broadcast
      BY <2>1 DEF Seal, Goto, Broadcast
    <3>3. receipt'[target][saved.epoch].commit = Broadcast
      <4>1. CASE receipt[target][saved.epoch] # NoReceipt
        BY <2>1, <4>1 DEF Seal, Goto
      <4>2. CASE receipt[target][saved.epoch] = NoReceipt
        <5>1. receipt' = [receipt EXCEPT ![target][saved.epoch] =
                             [base |-> Len(history[target]), commit |-> Broadcast]]
          BY <2>1, <4>2 DEF Seal, Goto
        <5> QED BY <3>1, <5>1
      <4> QED BY <4>1, <4>2
    <3> QED BY <3>2, <3>3 DEF Sealed
  <2>2. CASE ~ Seal
    <3>1. pc' \in {"check", "write", "ref"} =>
              pc \in {"check", "write", "ref"} /\ UNCHANGED <<saved, target, plan, receipt>>
      BY <2>2, PublishingSteps, Writers DEF Publishing, Proceed, Published, GotoPublish,
         Publication, PlanPublication, Seal, Check, WriteAll, MoveRef, RefreshIndex, Goto
    <3> QED BY <1>0, <3>1 DEF Progressing, Sealed, Broadcast
  <2> QED BY <2>1, <2>2 DEF Seal, Goto
<1>2. pc' \in {"write", "ref"} => (OnBase \/ OnTarget)'
  <2>1. pc' \in {"write", "ref"} =>
            /\ UNCHANGED <<saved, target, receipt>>
            /\ (pc = "check" /\ (OnBase \/ OnTarget)) \/ pc \in {"write", "ref"}
    BY PublishingSteps, Writers DEF Publishing, Proceed, Published, GotoPublish,
       Publication, PlanPublication, Seal, Check, WriteAll, MoveRef, RefreshIndex, Goto
  <2>2. pc' \in {"write", "ref"} => history' = history
    <3>1. \A job \in DOMAIN threads : ~ (EndEpisode(job) /\ pc' \in {"write", "ref"})
      BY <1>0 DEF Stages, EndEpisode, volatile
    <3> QED BY <3>1, Writers DEF Initialize, Goto, volatile, Foreign, Stopped, MoveRef
  <2> QED BY <1>0, <2>1, <2>2 DEF Progressing, OnBase, OnTarget, Sealed, Tip
<1>3. pc' \in {"index", "published"} /\ target' # Campaign => HasBroadcast(target)'
  <2>1. CASE MoveRef
    BY <2>1, TargetHasBroadcast DEF MoveRef, Goto
  <2>2. CASE ~ MoveRef
    <3>1. pc' \in {"index", "published"} =>
              pc \in {"index", "published"} /\ UNCHANGED <<saved, target>>
      BY <2>2, PublishingSteps DEF Publishing, Proceed, Published, GotoPublish,
         Publication, PlanPublication, Seal, Check, WriteAll, MoveRef, RefreshIndex, Goto
    <3>2. target # Campaign => target \in Trajectory
      BY <1>0 DEF TypeOK, Workspace
    <3>3. ASSUME NEW t \in Trajectory, HasBroadcast(t), UNCHANGED saved PROVE HasBroadcast(t)'
      BY <3>3, HasBroadcastKept
    <3> SUFFICES ASSUME pc' \in {"index", "published"}, target' # Campaign
                 PROVE  HasBroadcast(target)'
      OBVIOUS
    <3>4. HasBroadcast(target) /\ target' = target /\ target \in Trajectory /\ UNCHANGED saved
      BY <1>0, <3>1, <3>2 DEF Progressing
    <3>5. \A t : t = target /\ HasBroadcast(t)' => HasBroadcast(target)'
      BY <3>4 DEF HasBroadcast, GivenTo, Broadcasts
    <3> QED BY <3>3, <3>4, <3>5
  <2> QED BY <2>1, <2>2
<1>4. pc' \in Publishing => \A t \in 1 .. target' - 1 : HasBroadcast(t)'
  <2>1. CASE Published /\ target # Campaign /\ target < AllTargets
    <3>1. /\ pc = "published" /\ target' = target + 1 /\ saved' = saved
          /\ target \in Trajectory /\ target \in Nat
      BY <1>0, <2>1 DEF Published, GotoPublish, TypeOK, Workspace, Trajectory
    <3>2. \A t \in 1 .. target : HasBroadcast(t) /\ t \in Trajectory
      BY <1>0, <3>1 DEF Progressing, Publishing, Trajectory
    <3> QED BY <3>1, <3>2, HasBroadcastKept
  <2>2. CASE Proceed
    <3>1. pc' \in Publishing => target' \in {Campaign, 1}
      BY <2>2 DEF Proceed, GotoPublish, Publishing
    <3> QED BY <3>1 DEF Campaign
  <2>3. CASE ~ Proceed /\ ~ (Published /\ target # Campaign /\ target < AllTargets)
    <3>1. pc' \in Publishing => pc \in Publishing /\ UNCHANGED <<saved, target>>
      BY <2>3, PublishingSteps
    <3>2. \A t \in 1 .. target - 1 : t \in Trajectory
      BY <1>0 DEF TypeOK, Workspace, Trajectory, Campaign
    <3> QED BY <1>0, <3>1, <3>2, HasBroadcastKept DEF Progressing
  <2> QED BY <2>1, <2>2, <2>3
<1>5. saved'.phase = "running" => \A t \in Trajectory : HasBroadcast(t)'
  <2>1. CASE saved.phase = "running"
    <3>1. saved'.phase = "running" => saved'.epoch = saved.epoch /\ saved'.seed = saved.seed
      BY <1>0, SavedSteps DEF EpochKept
    <3> QED BY <1>0, <2>1, <3>1, HasBroadcastKept DEF Progressing
  <2>2. CASE saved.phase # "running" /\ saved'.phase = "running"
    <3>1. /\ Published /\ target # Campaign /\ ~ (target < AllTargets)
          /\ saved'.epoch = saved.epoch /\ saved'.seed = saved.seed
      BY <1>0, <2>2, SavedSteps DEF EpochKept, PhaseSteps
    <3>2. target = Trajectories /\ target \in Nat
      BY <1>0, <3>1 DEF TypeOK, Workspace, Trajectory, AllTargets
    <3>3. \A t \in Trajectory : HasBroadcast(t)
      BY <1>0, <3>1, <3>2 DEF Published, Progressing, Publishing, Trajectory
    <3> QED BY <3>1, <3>3, HasBroadcastKept
  <2> QED BY <2>1, <2>2
<1> QED BY <1>1, <1>2, <1>3, <1>4, <1>5 DEF Progressing

\* The Campaign was given the winner of each Epoch that is over, and of no other.
LEMMA AwardedKept ==
    ASSUME SearchInv, [Next]_vars
    PROVE  Awarded'
<1>0. /\ TypeOK /\ Stages /\ Winners /\ Awarded /\ Campaign \in Workspace
      /\ saved.epoch \in Nat /\ saved'.epoch \in Nat
  <2>1. TypeOK /\ saved'.epoch \in 1 .. Epochs + 1
    BY SavedKept DEF SearchInv
  <2>2. saved.epoch \in 1 .. Epochs + 1
    BY <2>1 DEF TypeOK
  <2> QED BY <2>1, <2>2, SearchAssumption DEF SearchInv, Workspace
<1>1. \A pair \in GivenTo(Campaign) : pair \in GivenTo(Campaign)'
  BY <1>0, GivenStep
<1>2. \A k \in 1 .. saved'.epoch - 1 : <<k, summaries'[k]>> \in GivenTo(Campaign)'
  <2>1. ASSUME NEW k \in 1 .. saved.epoch - 1 PROVE <<k, summaries'[k]>> \in GivenTo(Campaign)'
    <3>1. saved.epoch \in 1 .. Epochs + 1 /\ summaries \in [Epoch -> Outcome]
      BY <1>0 DEF TypeOK
    <3>2. k # saved.epoch /\ k \in Epoch
      BY <2>1, <3>1, SearchAssumption DEF Epoch
    <3>3. summaries'[k] = summaries[k]
      BY <3>1, <3>2, Writers DEF Published
    <3> QED BY <1>0, <1>1, <2>1, <3>3 DEF Awarded
  <2>2. ASSUME Advance PROVE <<saved.epoch, summaries'[saved.epoch]>> \in GivenTo(Campaign)'
    <3>1. summaries' = summaries /\ summaries[saved.epoch] = saved.winner
      BY <1>0, <2>2 DEF Advance, Stages
    <3> QED BY <1>0, <1>1, <2>2, <3>1 DEF Awarded, Advance
  <2>3. CASE Advance
    <3>1. \A k \in 1 .. saved'.epoch - 1 : k \in 1 .. saved.epoch - 1 \/ k = saved.epoch
      BY <1>0, <2>3, SavedSteps DEF EpochKept
    <3> QED BY <2>1, <2>2, <2>3, <3>1
  <2>4. CASE ~ Advance
    BY <1>0, <2>1, <2>4, SavedSteps DEF EpochKept
  <2> QED BY <2>3, <2>4
<1>3. pc' = "advance" \/ (pc' \in {"index", "published"} /\ target' = Campaign) =>
          <<saved'.epoch, saved'.winner>> \in GivenTo(Campaign)'
  <2>1. ASSUME pc' \in {"index", "published"}, target' = Campaign
        PROVE  <<saved'.epoch, saved'.winner>> \in GivenTo(Campaign)'
    <3>1. CASE MoveRef
      <4>1. target = Campaign /\ saved' = saved /\ ToPublish = saved.winner
        BY <2>1, <3>1 DEF MoveRef, Goto, ToPublish
      <4> QED BY <1>0, <3>1, <4>1, MoveRefGives
    <3>2. CASE ~ MoveRef
      <4>1. pc \in {"index", "published"} /\ UNCHANGED <<saved, target>>
        BY <2>1, <3>2, PublishingSteps DEF Publishing, Proceed, Published, GotoPublish,
           Publication, PlanPublication, Seal, Check, WriteAll, MoveRef, RefreshIndex, Goto
      <4> QED BY <1>0, <1>1, <2>1, <4>1 DEF Awarded
    <3> QED BY <3>1, <3>2
  <2>2. ASSUME pc' = "advance"
        PROVE  <<saved'.epoch, saved'.winner>> \in GivenTo(Campaign)'
    <3>1. /\ pc = "advance" \/ (pc = "published" /\ target = Campaign)
          /\ saved' = saved
      <4>1. CASE Steering
        BY <2>2, <4>1 DEF Steering, Start, Initialize, PlanEpoch, Proceed, Published, Advance,
           EndJobs, Drained, Goto, GotoPublish, volatile
      <4>2. CASE Publication
        BY <2>2, <4>2 DEF Publication, PlanPublication, Seal, Check, WriteAll, MoveRef,
           RefreshIndex, Goto
      <4>3. CASE UNCHANGED <<pc, target>> /\ (saved' = saved \/ pc = "jobs")
        BY <2>2, <4>3
      <4>4. ~ Interrupt /\ ~ Crash
        BY <2>2 DEF Interrupt, Crash
      <4> QED BY <4>1, <4>2, <4>3, <4>4, Control
    <3> QED BY <1>0, <1>1, <3>1 DEF Awarded
  <2> QED BY <2>1, <2>2
<1>4. ASSUME NEW k \in Epoch, plan'[Campaign][k] # NoPlan
      PROVE  k < saved'.epoch \/ saved'.phase = "publishing"
  <2>0. k \in Nat
    BY DEF Epoch
  <2>1. (k <= saved.epoch /\ saved.phase = "publishing") \/ k < saved.epoch
    <3>1. CASE plan'[Campaign][k] = plan[Campaign][k]
      BY <1>0, <1>4, <3>1 DEF Awarded, Winners
    <3>2. CASE plan'[Campaign][k] # plan[Campaign][k]
      <4>1. PlanPublication /\ plan' = [plan EXCEPT ![target][saved.epoch] = PinnedPlan]
        BY <3>2, Writers DEF PlanPublication
      <4>2. /\ saved.epoch \in Epoch /\ target \in Workspace
            /\ plan \in [Workspace -> [Epoch -> [version : Nat, kernel : Outcome]]]
        BY <1>0, <4>1, SealedType DEF PlanPublication, Publishing, TypeOK
      <4>3. target = Campaign /\ k = saved.epoch
        BY <1>0, <3>2, <4>1, <4>2
      <4> QED BY <1>0, <2>0, <4>1, <4>3 DEF PlanPublication, Stages, Publishing
    <3> QED BY <3>1, <3>2
  <2>2. CASE Advance
    BY <1>0, <2>0, <2>1, <2>2 DEF Advance, TypeOK
  <2>3. CASE ~ Advance
    <3>1. saved.phase = "publishing" => saved'.phase = "publishing"
      BY <1>0, <2>3, SavedSteps DEF PhaseSteps, EndJobs, Published, Stages, Publishing
    <3> QED BY <1>0, <2>1, <2>3, <3>1, SavedSteps DEF EpochKept
  <2> QED BY <2>2, <2>3
<1> QED BY <1>2, <1>3, <1>4 DEF Awarded

-----------------------------------------------------------------------------
(* Stalls *)

\* The count of stalls takes each Epoch in once, when it ends.
LEMMA StallsKept ==
    ASSUME SearchInv, [Next]_vars
    PROVE  StallsExact'
<1> DEFINE Stalled(k) == Latency[summaries[k]] >= Latency[SeedOf(k)]
<1>0. /\ TypeOK /\ Stages /\ Chain /\ StallsExact /\ saved.epoch \in Nat \ {0}
      /\ saved.stalls \in Nat /\ Epochs \in Nat
  BY SearchAssumption DEF SearchInv, TypeOK
<1>1. \A k \in 1 .. saved.epoch - 1 : Stalled(k)' <=> Stalled(k)
  <2> SUFFICES ASSUME NEW k \in 1 .. saved.epoch - 1 PROVE Stalled(k)' <=> Stalled(k)
    OBVIOUS
  <2>0. saved.epoch \in 1 .. Epochs + 1
    BY <1>0 DEF TypeOK
  <2>1. k \in Epoch /\ k <= saved.epoch /\ k # saved.epoch
    BY <1>0, <2>0 DEF Epoch
  <2>2. summaries'[k] = summaries[k]
    <3>1. summaries' = summaries \/ summaries' = [summaries EXCEPT ![saved.epoch] = saved.winner]
      BY Writers DEF Published
    <3>2. summaries \in [Epoch -> Outcome]
      BY <1>0 DEF TypeOK
    <3> QED BY <2>1, <3>1, <3>2
  <2>3. SeedOf(k)' = SeedOf(k)
    BY <2>1, SeedKept
  <2> QED BY <2>2, <2>3
<1>2. CASE saved'.epoch = saved.epoch
  <2>1. saved'.stalls = saved.stalls
    <3>1. ~ Advance
      <4>1. Advance => saved'.epoch = saved.epoch + 1
        BY <1>0 DEF TypeOK, Advance
      <4> QED BY <1>0, <1>2, <4>1
    <3> QED BY <1>0, <3>1, SavedSteps DEF EpochKept
  <2>2. \A n \in 0 .. saved.epoch - 1 :
            saved.stalls >= n <=> \A k \in saved.epoch - n .. saved.epoch - 1 : Stalled(k)'
    BY <1>0, <1>1 DEF StallsExact
  <2> QED BY <1>2, <2>1, <2>2 DEF StallsExact
<1>3. CASE saved'.epoch # saved.epoch
  <2>0. Advance
    BY <1>3, NumberKept
  <2>1. /\ saved'.epoch = saved.epoch + 1 /\ saved'.stalls = StallsAfter(saved)
        /\ summaries' = summaries /\ saved.epoch \in Epoch
        /\ summaries[saved.epoch] = saved.winner /\ saved.winner \in Kernel
        /\ saved.seed = SeedOf(saved.epoch) /\ saved.seed \in Kernel
    BY <1>0, <2>0 DEF Advance, TypeOK, Stages, Chain
  <2>2. SeedOf(saved.epoch) = saved.seed /\ \A e \in Epoch : e = saved.epoch => SeedOf(e)' = SeedOf(e)
    BY <1>0, <2>1, SeedKept DEF Epoch
  <2>3. Latency[saved.winner] \in Nat /\ Latency[saved.seed] \in Nat
    BY <2>1, SearchAssumption
  <2>4. \A e \in Epoch : e = saved.epoch =>
            (Stalled(e)' <=> Latency[saved.winner] >= Latency[saved.seed])
    BY <2>1, <2>2
  <2> SUFFICES ASSUME NEW n \in 0 .. saved.epoch
               PROVE  StallsAfter(saved) >= n <=>
                          \A k \in saved.epoch + 1 - n .. saved.epoch : Stalled(k)'
    <3>1. /\ saved'.epoch - 1 = saved.epoch
          /\ \A n \in Nat : saved'.epoch - n = saved.epoch + 1 - n
      BY <1>0, <2>1
    <3> QED BY <1>0, <2>1, <3>1 DEF StallsExact
  <2>5. CASE n = 0
    BY <1>0, <2>5 DEF StallsAfter
  <2>6. CASE n # 0 /\ Latency[saved.winner] >= Latency[saved.seed]
    <3>1. StallsAfter(saved) >= n <=> saved.stalls >= n - 1
      BY <1>0, <2>6 DEF StallsAfter
    <3>2. n - 1 \in 0 .. saved.epoch - 1 /\ saved.epoch - (n - 1) = saved.epoch + 1 - n
      BY <1>0, <2>6
    <3>3. saved.stalls >= n - 1 <=> \A k \in saved.epoch + 1 - n .. saved.epoch - 1 : Stalled(k)
      BY <1>0, <3>2 DEF StallsExact
    <3>4. \A k \in saved.epoch + 1 - n .. saved.epoch :
              k = saved.epoch \/ (k \in saved.epoch + 1 - n .. saved.epoch - 1
                                  /\ k \in 1 .. saved.epoch - 1)
      BY <1>0, <2>6
    <3>5. \A k \in saved.epoch + 1 - n .. saved.epoch - 1 :
              k \in saved.epoch + 1 - n .. saved.epoch /\ k \in 1 .. saved.epoch - 1
      BY <1>0, <2>6
    <3> HIDE DEF Stalled
    <3> QED BY <1>1, <2>1, <2>4, <2>6, <3>1, <3>3, <3>4, <3>5
  <2>7. CASE n # 0 /\ ~ (Latency[saved.winner] >= Latency[saved.seed])
    <3>1. ~ (StallsAfter(saved) >= n)
      BY <1>0, <2>7 DEF StallsAfter
    <3>2. saved.epoch \in saved.epoch + 1 - n .. saved.epoch
      BY <1>0, <2>7
    <3> HIDE DEF Stalled
    <3> QED BY <2>1, <2>4, <2>7, <3>1, <3>2
  <2> QED BY <2>5, <2>6, <2>7
<1> QED BY <1>2, <1>3

-----------------------------------------------------------------------------
(* The theorems *)

\* The search starts with it.
LEMMA SearchInit ==
    ASSUME Init
    PROVE  SearchInv
<1> USE SearchAssumption DEF Init
<1>0. /\ Epochs \in Nat \ {0} /\ 1 \in Epoch /\ Campaign \in Workspace /\ Trajectory \subseteq Workspace
      /\ Epochs * Steps \in Nat /\ saved.epoch = 1 /\ saved.phase = "absent" /\ saved.seed = Bootstrap
      /\ saved.stalls = 0 /\ Campaign \notin Trajectory
  BY DEF Epoch, Workspace, Absent, Campaign, Trajectory
<1>1. TypeOK
  <2>1. saved \in [phase : Phase, epoch : 1 .. Epochs + 1, seed : Kernel, winner : Outcome,
                   jobs : [Job -> Status], result : [Job -> Outcome],
                   stalls : 0 .. Epochs, stopped : BOOLEAN]
    <3>1. [j \in Job |-> "pending"] \in [Job -> Status] /\ [j \in Job |-> None] \in [Job -> Outcome]
      BY DEF Status, Outcome
    <3>2. 1 \in 1 .. Epochs + 1 /\ 0 \in 0 .. Epochs /\ None \in Outcome /\ "absent" \in Phase
      BY <1>0 DEF Outcome, Phase
    <3> QED BY <3>1, <3>2 DEF Absent
  <2>2. history \in [Workspace -> Seq(Commit)]
    BY FirstCommit
  <2>3. /\ NoPlan \in [version : Nat, kernel : Outcome]
        /\ NoReceipt \in [base : Nat, commit : Commit]
    BY FirstCommit DEF NoPlan, NoReceipt, Outcome
  <2>4. /\ summaries \in [Epoch -> Outcome]
        /\ files \in [Workspace -> {"head", "mixed", "next"}]
        /\ index \in [Workspace -> {"head", "stale"}]
        /\ plan \in [Workspace -> [Epoch -> [version : Nat, kernel : Outcome]]]
        /\ receipt \in [Workspace -> [Epoch -> [base : Nat, commit : Commit]]]
    BY <2>3 DEF Outcome
  <2>5. /\ count \in [Trajectory -> 0 .. Epochs * Steps]
        /\ open \in [Trajectory -> BOOLEAN]
        /\ attempt \in [Trajectory -> [Episode -> Outcome \cup {Unended}]]
    BY <1>0
  <2>6. /\ tokens \in Nat /\ retained \in 0 .. MaxRetained
        /\ pc \in Location /\ target \in Workspace /\ failure \in BOOLEAN
        /\ DOMAIN threads \subseteq Job /\ \A j \in DOMAIN threads : threads[j] \in Place
        /\ failures \in 0 .. MaxFailures /\ crashes \in 0 .. MaxCrashes
        /\ foreign \in 0 .. MaxForeign
    <3>1. DOMAIN threads = {}
      OBVIOUS
    <3>2. /\ retained \in 0 .. MaxRetained /\ failures \in 0 .. MaxFailures
          /\ crashes \in 0 .. MaxCrashes /\ foreign \in 0 .. MaxForeign
      OBVIOUS
    <3> QED BY <1>0, <3>1, <3>2 DEF Location
  <2> QED BY <2>1, <2>2, <2>4, <2>5, <2>6 DEF TypeOK
<1>2. Stages /\ Pinned /\ Begun
  BY <1>0 DEF Stages, Pinned, Begun, Publishing, Aside
<1>3. Running
  BY <1>0 DEF Running, Ended, Episode
<1>4. Chain
  BY <1>0 DEF Chain, SeedOf
<1>5. Results /\ Winners
  BY <1>0 DEF Results, Winners
<1>6. Sealing
  <2>1. \A w \in Workspace : history[w] = <<First>> \/ history[w] = <<>>
    BY <1>0
  <2>2. \A w \in Workspace : Broadcasts(w) = {}
    BY <2>1, FirstCommit DEF Broadcasts
  <2>3. \A w \in Workspace : \A k \in Epoch : receipt[w][k] = NoReceipt
    OBVIOUS
  <2> QED BY <2>2, <2>3 DEF Sealing
<1>7. Progressing
  BY <1>0 DEF Progressing, Publishing
<1>8. StallsExact
  BY <1>0 DEF StallsExact
<1>9. Awarded
  BY <1>0 DEF Awarded
<1> QED BY <1>1, <1>2, <1>3, <1>4, <1>5, <1>6, <1>7, <1>8, <1>9 DEF SearchInv

\* The invariant always holds.
LEMMA SearchAlways == Spec => []SearchInv
<1>1. Init => SearchInv
  BY SearchInit
<1>2. SearchInv /\ [Next]_vars => SearchInv'
  BY TypesKept, StagesKept, PinnedKept, BegunKept, RunningKept, ChainKept, ResultsKept,
     WinnersKept, SealingKept, ProgressingKept, AwardedKept, StallsKept DEF SearchInv
<1> QED BY <1>1, <1>2, PTL DEF Spec

\* Every variable has the type of what the search keeps in it: the program's files,
\* receipts and records stay what their readers take them for.
THEOREM TypeCorrect == Spec => []TypeOK
<1>1. SearchInv => TypeOK
  BY DEF SearchInv
<1> QED BY <1>1, SearchAlways, PTL

\* The winner that the Campaign gets is the best of the kernels its Epoch could choose
\* from, all of whose Episodes have ended (_run and select_winner), whatever died or was
\* replayed in between.
THEOREM BestReachesCampaign == Spec => []BestIsPublished
<1>1. SearchInv => BestIsPublished
  <2> SUFFICES ASSUME SearchInv, NEW i \in Broadcasts(Campaign)
               PROVE  Decided(history[Campaign][i].kernel, history[Campaign][i].epoch)
    BY DEF BestIsPublished, Decided, Known
  <2> DEFINE k == history[Campaign][i].epoch
  <2>0. Campaign \in Workspace
    BY DEF Workspace
  <2>1. /\ k \in Epoch
        /\ receipt[Campaign][k] = [base |-> i - 1, commit |-> history[Campaign][i]]
    BY <2>0 DEF SearchInv, Sealing
  <2>2. receipt[Campaign][k] # NoReceipt
    BY <2>1 DEF Broadcasts, NoReceipt, First
  <2>3. /\ plan[Campaign][k] # NoPlan
        /\ receipt[Campaign][k].commit =
               [kind |-> "broadcast", kernel |-> plan[Campaign][k].kernel,
                version |-> plan[Campaign][k].version, epoch |-> k]
    BY <2>0, <2>1, <2>2 DEF SearchInv, Sealing
  <2>4. Decided(plan[Campaign][k].kernel, k)
    BY <2>1, <2>3 DEF SearchInv, Winners
  <2>5. history[Campaign][i].kernel = plan[Campaign][k].kernel
    BY <2>1, <2>3
  <2> QED BY <2>4, <2>5
<1> QED BY <1>1, SearchAlways, PTL

\* A receipt makes the replay of a publication recognise its own commit (commit_files):
\* no workspace gets the broadcast of an Epoch twice.
THEOREM PublishesOnce == Spec => []PublishedOnce
<1>1. SearchInv => PublishedOnce
  <2> SUFFICES ASSUME SearchInv, NEW w \in Workspace, NEW i \in Broadcasts(w),
                      NEW j \in Broadcasts(w), history[w][i].epoch = history[w][j].epoch
               PROVE  i = j
    BY DEF PublishedOnce
  <2>1. [base |-> i - 1, commit |-> history[w][i]] = [base |-> j - 1, commit |-> history[w][j]]
    BY DEF SearchInv, Sealing
  <2>2. i - 1 = j - 1
    BY <2>1
  <2>3. history[w] \in Seq(Commit)
    BY DEF SearchInv, TypeOK
  <2>4. i \in Nat /\ j \in Nat
    BY <2>3 DEF Broadcasts
  <2> QED BY <2>2, <2>4
<1> QED BY <1>1, SearchAlways, PTL

\* An Episode is run (run_episode) only in a trajectory that has the broadcast of its
\* Epoch, of the kernel that the Epoch before has decided.
THEOREM EpisodesStartFromBroadcast == Spec => []StartsFromBroadcast
<1>1. SearchInv => StartsFromBroadcast
  BY JobOfThread DEF SearchInv, StartsFromBroadcast, Progressing, HasBroadcast, GivenTo, Chain
<1> QED BY <1>1, SearchAlways, PTL

\* The stalls that stop a search (_finish_epoch) are exactly the Epochs in a row that
\* found nothing better.
THEOREM StallsAreExact == Spec => []StallsExact
<1>1. SearchInv => StallsExact
  BY DEF SearchInv
<1> QED BY <1>1, SearchAlways, PTL

-----------------------------------------------------------------------------
(* The refinement of the ledger *)

\* A workspace has a winner of an Epoch exactly if it was given one.
LEMMA HasGiven ==
    ASSUME NEW w \in Workspace, NEW k
    PROVE  Ledger!Has(w, k) <=> \E kernel \in Kernel : <<k, kernel>> \in GivenTo(w)
BY DEF Ledger!Has

\* The ledger counts the Episodes of an Epoch as the search does.
LEMMA FoundInLedger ==
    ASSUME NEW k \in Epoch
    PROVE  Ledger!Found(k) = OutcomesOf(k)
<1>1. k \in Nat /\ Steps \in Nat
  BY SearchAssumption DEF Epoch
<1>2. (k - 1) * Steps \in Int /\ k * Steps = (k - 1) * Steps + Steps
  BY <1>1
<1> DEFINE before == (k - 1) * Steps
<1>3. Ledger!EpisodesOf(k) = before + 1 .. before + Steps
  BY <1>2 DEF Ledger!EpisodesOf
<1>4. before \in Int
  BY <1>2
<1> HIDE DEF before
<1>5. \A e \in before + 1 .. before + Steps : e - before \in 1 .. Steps /\ e = before + (e - before)
  BY <1>1, <1>4
<1>6. \A s \in 1 .. Steps : before + s \in before + 1 .. before + Steps
  BY <1>1, <1>4
<1>7. OutcomesOf(k) = {attempt[j[1]][before + j[2]] : j \in Job}
  BY DEF OutcomesOf, before
<1>8. Ledger!Found(k) = {attempt[t][e] : t \in Trajectory, e \in before + 1 .. before + Steps}
  BY <1>3 DEF Ledger!Found, Ledger!Trajectory, Trajectory
<1>9. ASSUME NEW t \in Trajectory, NEW e \in before + 1 .. before + Steps
      PROVE  attempt[t][e] \in OutcomesOf(k)
  <2>1. <<t, e - before>> \in Job
    BY <1>5, <1>9 DEF Job
  <2>2. attempt[<<t, e - before>>[1]][before + <<t, e - before>>[2]] = attempt[t][e]
    BY <1>5, <1>9
  <2> QED BY <1>7, <2>1, <2>2
<1>10. ASSUME NEW j \in Job
       PROVE  attempt[j[1]][before + j[2]] \in Ledger!Found(k)
  BY <1>6, <1>8, <1>10 DEF Job
<1> QED BY <1>7, <1>8, <1>9, <1>10

\* The seed of an Epoch is what the Campaign was given for the one before.
LEMMA SeedInLedger ==
    ASSUME SearchInv, saved.epoch \in Epoch
    PROVE  /\ saved.seed \in Kernel /\ Ledger!Seeds(saved.seed, saved.epoch)
           /\ ~ Ledger!Has(Campaign, saved.epoch) => Ledger!UnderWay(saved.epoch)
<1>1. /\ saved.seed \in Kernel /\ saved.seed = SeedOf(saved.epoch) /\ Campaign \in Workspace
      /\ saved.epoch \in Nat /\ saved.epoch >= 1
      /\ \A k \in 1 .. saved.epoch - 1 : <<k, summaries[k]>> \in GivenTo(Campaign)
  BY DEF SearchInv, TypeOK, Chain, Awarded, Workspace, Epoch
<1>2. CASE saved.epoch = 1
  BY <1>1, <1>2 DEF SeedOf, Ledger!Seeds, Ledger!UnderWay, Ledger!Campaign, Campaign
<1>3. CASE saved.epoch # 1
  <2>1. saved.epoch - 1 \in 1 .. saved.epoch - 1
    BY <1>1, <1>3
  <2>2. <<saved.epoch - 1, saved.seed>> \in GivenTo(Campaign)
    BY <1>1, <1>3, <2>1 DEF SeedOf
  <2>3. Ledger!Has(Campaign, saved.epoch - 1)
    BY <1>1, <2>2, HasGiven
  <2> QED BY <1>1, <1>3, <2>2, <2>3 DEF Ledger!Seeds, Ledger!UnderWay, Ledger!Campaign, Campaign
<1> QED BY <1>2, <1>3

\* A broadcast is what a receipt and its plan promised.
LEMMA BroadcastIsSealed ==
    ASSUME SearchInv, NEW w \in Workspace, NEW i \in Broadcasts(w)
    PROVE  LET k == history[w][i].epoch IN
           receipt[w][k].base = i - 1 /\ plan[w][k] # NoPlan
<1> DEFINE k == history[w][i].epoch
<1>1. k \in Epoch /\ receipt[w][k] = [base |-> i - 1, commit |-> history[w][i]]
  BY DEF SearchInv, Sealing
<1>2. receipt[w][k].commit.kind = "broadcast" /\ receipt[w][k].base = i - 1
  BY <1>1 DEF Broadcasts
<1>3. receipt[w][k] # NoReceipt
  BY <1>2 DEF NoReceipt, First
<1>4. plan[w][k] # NoPlan
  BY <1>1, <1>3 DEF SearchInv, Sealing
<1> QED BY <1>2, <1>4

\* The Campaign has nothing of an Epoch that is not decided yet.
LEMMA NotAwarded ==
    ASSUME SearchInv, saved.epoch \in Epoch, saved.phase # "publishing"
    PROVE  Ledger!UnderWay(saved.epoch)
<1>1. Campaign \in Workspace
  BY DEF Workspace
<1>2. ASSUME NEW kernel \in Kernel, <<saved.epoch, kernel>> \in GivenTo(Campaign)
      PROVE  FALSE
  <2>1. PICK i \in Broadcasts(Campaign) : history[Campaign][i].epoch = saved.epoch
    BY <1>2 DEF GivenTo
  <2>2. plan[Campaign][saved.epoch] # NoPlan
    BY <1>1, <2>1, BroadcastIsSealed
  <2>3. ~ (saved.epoch < saved.epoch)
    BY DEF Epoch
  <2> QED BY <2>2, <2>3 DEF SearchInv, Awarded
<1> QED BY <1>1, <1>2, HasGiven, SeedInLedger

\* Nor has the target of a publication when it is still on its base.
LEMMA NotGiven ==
    ASSUME SearchInv, MoveRef, OnBase
    PROVE  /\ saved.epoch \in Epoch /\ target \in Workspace
           /\ ~ Ledger!Has(target, saved.epoch)
<1>1. saved.epoch \in Epoch /\ target \in Workspace /\ history[target] \in Seq(Commit)
  BY SealedType DEF SearchInv, TypeOK, MoveRef, Publishing
<1>2. ASSUME NEW kernel \in Kernel, <<saved.epoch, kernel>> \in GivenTo(target)
      PROVE  FALSE
  <2>1. PICK i \in Broadcasts(target) : history[target][i].epoch = saved.epoch
    BY <1>2 DEF GivenTo
  <2>2. Sealed.base = i - 1
    BY <1>1, <2>1, BroadcastIsSealed DEF Sealed
  <2>3. i \in 1 .. Len(history[target])
    BY <1>1 DEF Broadcasts
  <2>4. Len(history[target]) = i - 1 /\ Len(history[target]) \in Nat
    BY <1>1, <2>2 DEF OnBase
  <2> QED BY <2>3, <2>4
<1> QED BY <1>1, <1>2, HasGiven

\* The end of an Episode is one of the ledger.
LEMMA EndsInLedger ==
    ASSUME SearchInv, [Next]_vars, NEW job \in DOMAIN threads, EndEpisode(job)
    PROVE  Ledger!Next
<1> DEFINE t == job[1]
           e == EpisodeOf(job)
           k == saved.epoch
<1>1. /\ job \in Job /\ k \in Epoch /\ t \in Trajectory /\ e \in Episode
      /\ saved.phase = "running" /\ e \in Nat
  BY JobOfThread DEF SearchInv
<1>2. Ledger!UnderWay(k)
  BY <1>1, NotAwarded
<1>3. \A u \in Trajectory : Ledger!Has(u, k)
  <2> SUFFICES ASSUME NEW u \in Trajectory PROVE Ledger!Has(u, k)
    OBVIOUS
  <2>1. u \in Workspace /\ <<k, saved.seed>> \in GivenTo(u)
    BY <1>1 DEF SearchInv, Progressing, HasBroadcast, Workspace
  <2> QED BY <1>1, <2>1, HasGiven, SeedInLedger
<1>4. \A f \in Episode : attempt[t][f] # Unended <=> f < e
  <2>1. count[t] = e - 1
    BY EndsNext
  <2>2. \A f \in Episode : Ended(t, f) <=> f <= count[t]
    BY <1>1 DEF SearchInv, Running
  <2>3. \A f \in Episode : f <= e - 1 <=> f < e
    BY <1>1 DEF Episode
  <2> QED BY <2>1, <2>2, <2>3 DEF Ended
<1>5. e \in Ledger!EpisodesOf(k)
  <2>1. /\ k \in Nat /\ Steps \in Nat /\ job[2] \in 1 .. Steps
    BY <1>1, SearchAssumption DEF Epoch, Job
  <2>2. (k - 1) * Steps \in Int /\ k * Steps = (k - 1) * Steps + Steps
    BY <2>1
  <2> QED BY <2>1, <2>2 DEF EpisodeOf, Ledger!EpisodesOf
<1>6. \E result \in Kernel \cup {None} : attempt' = [attempt EXCEPT ![t][e] = result]
  BY DEF EndEpisode, Outcome
<1>7. \A w \in Workspace : GivenTo(w)' = GivenTo(w)
  BY GivenStep DEF EndEpisode, MoveRef, Goto, volatile
<1>8. Ledger!EndEpisode(t, e, k)
  BY <1>3, <1>4, <1>6, <1>7 DEF Ledger!EndEpisode, Ledger!Episode, Episode, Ledger!Trajectory,
     Trajectory
<1> QED
  BY <1>1, <1>2, <1>5, <1>8 DEF Ledger!Next, Ledger!Epoch, Epoch, Ledger!Trajectory, Trajectory

\* A moved ref gives a trajectory its seed, or the Campaign the winner.
LEMMA GivesInLedger ==
    ASSUME SearchInv, [Next]_vars, MoveRef, OnBase
    PROVE  Ledger!Next
<1> DEFINE k == saved.epoch
           Given == [w \in Workspace |-> GivenTo(w)]
<1>0. /\ k \in Epoch /\ target \in Workspace /\ ~ Ledger!Has(target, k) /\ attempt' = attempt
      /\ Stages /\ Winners
  BY NotGiven DEF MoveRef, SearchInv, episodes
<1>1. ASSUME NEW w \in Workspace, w = target
      PROVE  Given' = [Given EXCEPT ![w] = @ \cup {<<k, ToPublish>>}]
  <2>1. GivenTo(w)' = GivenTo(w) \cup {<<k, ToPublish>>}
    BY <1>1, MoveRefGives, GivenStep
  <2>2. \A v \in Workspace : v # w => GivenTo(v)' = GivenTo(v)
    BY <1>1, GivenStep
  <2> QED BY <2>1, <2>2
<1>2. CASE target # Campaign
  <2>1. target \in Trajectory /\ saved.phase # "publishing" /\ ToPublish = saved.seed
    BY <1>0, <1>2 DEF MoveRef, Stages, Publishing, ToPublish, Workspace
  <2>2. Ledger!UnderWay(k)
    BY <1>0, <2>1, NotAwarded
  <2>3. Ledger!BroadcastSeed(target, k)
    BY <1>0, <1>1, <2>1, SeedInLedger
    DEF Ledger!BroadcastSeed, Ledger!Give
  <2> QED BY <1>0, <2>1, <2>2, <2>3
          DEF Ledger!Next, Ledger!Epoch, Epoch, Ledger!Trajectory, Trajectory
<1>3. CASE target = Campaign
  <2>1. /\ saved.phase = "publishing" /\ ToPublish = saved.winner /\ saved.winner \in Kernel
        /\ Decided(saved.winner, k)
    BY <1>0, <1>3 DEF MoveRef, Stages, Winners, Publishing, ToPublish
  <2>2. Ledger!UnderWay(k)
    BY <1>0, <1>3, SeedInLedger
  <2>3. saved.seed = SeedOf(k) /\ Known(k) = {saved.seed} \cup Ledger!Found(k)
    BY <1>0, FoundInLedger DEF SearchInv, Chain, Known
  <2>4. Unended \notin Ledger!Found(k) /\ Ledger!IsWinner(saved.winner, saved.seed, Ledger!Found(k))
    BY <2>1, <2>3 DEF Decided, Ledger!IsWinner
  <2>5. Ledger!Give(Campaign, k, saved.winner)
    BY <1>0, <1>1, <1>3, <2>1 DEF Ledger!Give
  <2>6. Ledger!Decide(k)
    BY <1>0, <2>1, <2>4, <2>5, SeedInLedger DEF Ledger!Decide, Ledger!Campaign, Campaign
  <2> QED BY <1>0, <2>2, <2>6 DEF Ledger!Next, Ledger!Epoch, Epoch
<1> QED BY <1>2, <1>3

\* Every other step leaves the ledger alone.
LEMMA LedgerStep ==
    ASSUME SearchInv, [Next]_vars
    PROVE  [Ledger!Next]_(Ledger!ledger)
<1>1. CASE \E job \in DOMAIN threads : EndEpisode(job)
  BY <1>1, EndsInLedger
<1>2. CASE MoveRef /\ OnBase
  BY <1>2, GivesInLedger
<1>3. CASE ~ (\E job \in DOMAIN threads : EndEpisode(job)) /\ ~ (MoveRef /\ OnBase)
  <2>1. attempt' = attempt
    BY <1>3, Writers
  <2>2. \A w \in Workspace : GivenTo(w)' = GivenTo(w)
    BY <1>3, GivenStep
  <2> QED BY <2>1, <2>2 DEF Ledger!ledger
<1> QED BY <1>1, <1>2, <1>3

\* The search implements the ledger: through deaths, replayed publications and resumed
\* jobs it is a tournament in Epochs that do not overlap, in which no Episode ends twice
\* and every Epoch is decided by all of its Episodes (PooledSearch._run, run_episode,
\* commit_files).
THEOREM SearchImplementsLedger == Spec => ImplementsLedger
<1>1. Init => Ledger!Init
  <2> SUFFICES ASSUME Init PROVE Ledger!Init
    OBVIOUS
  <2>1. \A w \in Workspace : history[w] = <<First>> \/ history[w] = <<>>
    BY DEF Init
  <2>2. \A w \in Workspace : GivenTo(w) = {}
    BY <2>1, FirstCommit DEF GivenTo, Broadcasts
  <2> QED
    BY <2>2 DEF Init, Ledger!Init, Ledger!Trajectory, Trajectory, Ledger!Episode, Episode,
       Ledger!Workspace, Workspace, Ledger!Campaign, Campaign
<1>2. SearchInv /\ [Next]_vars => [Ledger!Next]_(Ledger!ledger)
  BY LedgerStep
<1> QED BY <1>1, <1>2, SearchAlways, PTL DEF Spec, ImplementsLedger, Ledger!Spec
=============================================================================
