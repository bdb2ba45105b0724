----------------------------- MODULE PooledSearch -----------------------------
(***************************************************************************)
(* Pooled search (light/workflow/search*.py): Epochs of Episodes in        *)
(* parallel trajectories, a barrier that selects the best retained kernel, *)
(* and its publication, by a replayable Git transaction, to the Campaign   *)
(* and then to every trajectory.                                           *)
(*                                                                         *)
(* The coordinator is one thread; each Episode runs on a thread of its     *)
(* pool.  Files and repositories survive the death of the process, threads *)
(* and program counters do not.  What happens inside an Episode is the     *)
(* subject of EpisodeLifecycle; here it opens, ends and closes.            *)
(***************************************************************************)
EXTENDS Integers, Sequences, FiniteSets

CONSTANTS
    Epochs, Trajectories, Steps, MaxParallel,  \* SearchOptions
    Kernel, Bootstrap,                         \* kernels, the one of the bootstrap
    Latency,                                   \* latency_us_geomean
    None, Unended,                             \* an Episode that retained nothing, or
                                               \* has not ended
    TokenBudget, MaxStall,                     \* 0 for no budget, no limit
    MaxRetained, MaxFailures, MaxCrashes, MaxForeign
                                               \* bounds: accepted Episodes, exceptions,
                                               \* process deaths, commits by others

ASSUME SearchAssumption ==
    /\ Epochs \in Nat \ {0} /\ Trajectories \in Nat \ {0} /\ Steps \in Nat \ {0}
    /\ MaxParallel \in 1 .. Trajectories
    /\ Bootstrap \in Kernel /\ None \notin Kernel /\ Unended \notin Kernel \cup {None}
    /\ Latency \in [Kernel -> Nat \ {0}]
    /\ TokenBudget \in Nat /\ MaxStall \in Nat
    /\ MaxRetained \in Nat /\ MaxFailures \in Nat
    /\ MaxCrashes \in Nat /\ MaxForeign \in Nat

VARIABLES
    saved,       \* search/state.json
    summaries,   \* search/epochs/*.json: the winner of each Epoch
    history,     \* of each controller workspace: the commits of its branch
    files,       \* its tracked files, against HEAD and a pending publication
    index,       \* its index, against HEAD
    plan,        \* publications/*.json of each workspace and Epoch
    receipt,     \* publications/*.git.json: the sealed transaction
    count,       \* of each trajectory: Episodes in its state.json
    open,        \* is there an active_episode.json?
    attempt,     \* attempt.json of each Episode: the kernel it retained
    tokens,      \* tokens in the state files
    pc,          \* of the coordinator
    target,      \* the workspace it publishes to
    threads,     \* running futures: where run_episode is, for each job under way
    failure,     \* has a future raised?
    retained, failures, crashes, foreign   \* bounds used

repositories == <<history, files, index, plan, receipt>>
episodes == <<count, open, attempt, tokens, retained>>
volatile == <<pc, target, threads, failure>>
faults == <<failures, crashes, foreign>>
vars == <<saved, summaries, repositories, episodes, volatile, faults>>

-----------------------------------------------------------------------------
(* Values *)

Epoch == 1 .. Epochs
Trajectory == 1 .. Trajectories
Campaign == 0
Workspace == {Campaign} \cup Trajectory
Job == Trajectory \X (1 .. Steps)
Episode == 1 .. Epochs * Steps
EpisodeOf(job) == (saved.epoch - 1) * Steps + job[2]

Absent == [phase |-> "absent", epoch |-> 1, seed |-> Bootstrap, winner |-> None,
           jobs |-> [j \in Job |-> "pending"], result |-> [j \in Job |-> None], stalls |-> 0, stopped |-> FALSE]
Phase == {"absent", "idle", "preparing", "running", "publishing"}
Status == {"pending", "running", "completed"}

\* A commit carries the kernel of its tree and the number of its version record.
Commit == [kind : {"bootstrap", "episode", "broadcast", "foreign"}, kernel : Kernel,
           version : Nat, epoch : 0 .. Epochs]
First == [kind |-> "bootstrap", kernel |-> Bootstrap, version |-> 0, epoch |-> 0]
Tip(w) == history[w][Len(history[w])]

Outcome == Kernel \cup {None}

Location == {"down", "initialize", "loop", "jobs", "draining", "plan", "seal", "check",
             "write", "ref", "index", "published", "advance", "refused", "finished"}
Place == {"begin", "episode", "ended", "returned", "raised"}

BudgetReached == TokenBudget > 0 /\ tokens >= TokenBudget
AllCompleted == \A j \in Job : saved.jobs[j] = "completed"

-----------------------------------------------------------------------------
(* The coordinator: PooledSearch._run *)

Goto(place) == pc' = place /\ UNCHANGED <<target, threads, failure>>
GotoPublish(w) == pc' = "plan" /\ target' = w /\ UNCHANGED <<threads, failure>>

Start ==
    /\ pc \in {"down", "refused"}
    /\ saved' = IF saved.phase = "absent" THEN [saved EXCEPT !.phase = "idle"] ELSE saved
    /\ Goto("initialize")
    /\ UNCHANGED <<summaries, repositories, episodes, faults>>

\* Each trajectory is a clone of the bootstrap commit, renamed into place.
Initialize ==
    /\ pc = "initialize"
    /\ IF \E t \in Trajectory : history[t] = <<>>
       THEN /\ \E t \in Trajectory :
                   /\ history[t] = <<>>
                   /\ history' = [history EXCEPT ![t] = <<First>>]
            /\ UNCHANGED volatile
       ELSE Goto(IF saved.stopped THEN "finished" ELSE "loop") /\ UNCHANGED history
    /\ UNCHANGED <<saved, summaries, files, index, plan, receipt, episodes, faults>>

\* The next Epoch is planned and saved, unless Epochs or tokens are used up.
PlanEpoch ==
    /\ pc = "loop" /\ saved.phase = "idle"
    /\ IF saved.epoch > Epochs \/ BudgetReached
       THEN Goto("finished") /\ UNCHANGED saved
       ELSE /\ saved' = [saved EXCEPT !.phase = "preparing",
                                      !.jobs = [j \in Job |-> "pending"],
                                      !.result = [j \in Job |-> None]]
            /\ UNCHANGED volatile
    /\ UNCHANGED <<summaries, repositories, episodes, faults>>

Proceed ==
    /\ pc = "loop"
    /\ \/ saved.phase = "preparing" /\ GotoPublish(1)
       \/ saved.phase = "running" /\ pc' = "jobs" /\ failure' = FALSE
          /\ UNCHANGED <<target, threads>>
       \/ saved.phase = "publishing" /\ GotoPublish(Campaign)
    /\ UNCHANGED <<saved, summaries, repositories, episodes, faults>>

\* Mutant: one trajectory is enough.
LastTarget == 1

\* The trajectory that prepare_epoch publishes to last.
AllTargets == Trajectories

\* A workspace is published: on to the next one, or to the next phase.
Published ==
    /\ pc = "published"
    /\ IF target = Campaign
       THEN /\ summaries' = [summaries EXCEPT ![saved.epoch] = saved.winner]
            /\ Goto("advance")
            /\ UNCHANGED saved
       ELSE /\ IF target < AllTargets
               THEN GotoPublish(target + 1) /\ UNCHANGED saved
               ELSE Goto("loop") /\ saved' = [saved EXCEPT !.phase = "running"]
            /\ UNCHANGED summaries
    /\ UNCHANGED <<repositories, episodes, faults>>

\* Mutant: the count starts again with every Epoch.
StallsAfterReset(state) == IF state.winner = state.seed THEN 1 ELSE 0

\* Epochs without a better kernel, with this one.
StallsAfter(state) ==
    IF Latency[state.winner] >= Latency[state.seed] THEN state.stalls + 1 ELSE 0

StopReason(stalls) == MaxStall > 0 /\ stalls >= MaxStall

\* One write ends the Epoch: its winner is the seed of the next one.
Advance ==
    /\ pc = "advance"
    /\ LET stalls == StallsAfter(saved)
           stop == StopReason(stalls)
       IN /\ saved' = [saved EXCEPT !.phase = "idle", !.epoch = @ + 1, !.winner = None,
                                    !.seed = saved.winner, !.stalls = stalls,
                                    !.stopped = stop]
          /\ Goto(IF stop THEN "finished" ELSE "loop")
    /\ UNCHANGED <<summaries, repositories, episodes, faults>>

-----------------------------------------------------------------------------
(* Jobs: _run_jobs and run_episode *)

Busy(t) == \E j \in DOMAIN threads : j[1] = t

\* Have the earlier Episodes of its trajectory ended?
EarlierCompleted(job) ==
    \A j \in Job : j[1] = job[1] /\ j[2] < job[2] => saved.jobs[j] = "completed"

\* Mutant: a job that was running at the restart is taken for another process's.
EligibleIfNew(job) ==
    /\ saved.jobs[job] = "pending"
    /\ ~ Busy(job[1])
    /\ EarlierCompleted(job)
    /\ ~ BudgetReached

\* A job that was running at the restart is resumed even at the token limit.
Eligible(job) ==
    /\ saved.jobs[job] # "completed"
    /\ ~ Busy(job[1])
    /\ EarlierCompleted(job)
    /\ saved.jobs[job] = "running" \/ ~ BudgetReached

\* The job is saved as running before its thread starts.
Dispatch(job) ==
    /\ pc = "jobs" /\ ~ failure
    /\ Cardinality(DOMAIN threads) < MaxParallel
    /\ Eligible(job)
    /\ saved' = [saved EXCEPT !.jobs[job] = "running"]
    /\ threads' = [j \in DOMAIN threads \cup {job} |->
                       IF j = job THEN "begin" ELSE threads[j]]
    /\ UNCHANGED <<summaries, repositories, episodes, pc, target, failure, faults>>

Move(job, place) ==
    /\ threads' = [threads EXCEPT ![job] = place]
    /\ UNCHANGED <<pc, target, failure>>

\* Mutant: one Episode too many.
OneMoreToRun(job) == count[job[1]] <= EpisodeOf(job)

\* The Campaign of a trajectory ends when it has counted the Episode of the job.
MoreToRun(job) == count[job[1]] < EpisodeOf(job)

BeginEpisode(job) ==
    /\ threads[job] = "begin"
    /\ Move(job, IF count[job[1]] \notin {EpisodeOf(job) - 1, EpisodeOf(job)} THEN "raised"
                 ELSE IF MoreToRun(job) \/ open[job[1]] THEN "episode" ELSE "ended")
    /\ UNCHANGED <<saved, summaries, repositories, episodes, faults>>

OpenEpisode(job) ==
    /\ threads[job] = "episode"
    /\ MoreToRun(job) /\ ~ open[job[1]]
    /\ open' = [open EXCEPT ![job[1]] = TRUE]
    /\ UNCHANGED <<saved, summaries, repositories, count, attempt, tokens, retained,
                   volatile, faults>>

\* The Episode is archived, committed to its trajectory and counted, whether this
\* run or the recovery of an earlier one ends it.
EndEpisode(job) ==
    LET t == job[1] IN
    /\ threads[job] = "episode"
    /\ MoreToRun(job) /\ open[t]
    /\ \E outcome \in IF retained < MaxRetained THEN Outcome ELSE {None} :
       \E cost \in IF TokenBudget > 0 THEN {0, 1} ELSE {0} :
           /\ attempt' = [attempt EXCEPT ![t][EpisodeOf(job)] = outcome]
           /\ retained' = retained + IF outcome = None THEN 0 ELSE 1
           /\ tokens' = tokens + cost
           /\ history' = [history EXCEPT ![t] = Append(@,
                  [kind |-> "episode", version |-> Tip(t).version + 1, epoch |-> saved.epoch,
                   kernel |-> IF outcome = None THEN Tip(t).kernel ELSE outcome])]
    /\ count' = [count EXCEPT ![t] = EpisodeOf(job)]
    /\ UNCHANGED <<saved, summaries, files, index, plan, receipt, open, volatile, faults>>

CloseEpisode(job) ==
    /\ threads[job] = "episode"
    /\ ~ MoreToRun(job)
    /\ open' = [open EXCEPT ![job[1]] = FALSE]
    /\ Move(job, "ended")
    /\ UNCHANGED <<saved, summaries, repositories, count, attempt, tokens, retained, faults>>

\* The archive must show the Episode; what it retained is the result.
ReadResult(job) ==
    /\ threads[job] = "ended"
    /\ Move(job, IF count[job[1]] = EpisodeOf(job) THEN "returned" ELSE "raised")
    /\ UNCHANGED <<saved, summaries, repositories, episodes, faults>>

\* An Episode raises: an outage, a failing command; or the interrupt cancels it.
Raise(job) ==
    /\ threads[job] \in {"begin", "episode", "ended"}
    /\ \/ pc = "draining" /\ UNCHANGED failures
       \/ pc = "jobs" /\ failures < MaxFailures /\ failures' = failures + 1
    /\ Move(job, "raised")
    /\ UNCHANGED <<saved, summaries, repositories, episodes, crashes, foreign>>

Without(job) == [j \in DOMAIN threads \ {job} |-> threads[j]]

\* Mutant: the result of the next Epoch's Episode.
RetainedNext(job) == attempt[job[1]][saved.epoch * Steps + job[2]]

\* The kernel that the archived Episode of the job retained.
Retained(job) == attempt[job[1]][EpisodeOf(job)]

\* A result completes its job; an exception leaves it running and stops admission.
Collect(job) ==
    /\ pc = "jobs"
    /\ threads[job] \in {"returned", "raised"}
    /\ IF threads[job] = "returned"
       THEN /\ saved' = [saved EXCEPT !.jobs[job] = "completed",
                            !.result[job] = Retained(job)]
            /\ UNCHANGED failure
       ELSE failure' = TRUE /\ UNCHANGED saved
    /\ threads' = Without(job)
    /\ UNCHANGED <<summaries, repositories, episodes, pc, target, faults>>

\* Mutant: an incomplete Epoch is decided with what it has.
DecidableAnyway == TRUE

\* May the Epoch be decided?
Decidable == AllCompleted

\* The seed, and what the jobs of this Epoch retained.
Candidates == {saved.seed} \cup ({saved.result[j] : j \in Job} \ {None})

\* The lowest latency wins, the seed wins ties.
IsWinner(kernel) ==
    /\ \A other \in Candidates : Latency[kernel] <= Latency[other]
    /\ Latency[kernel] = Latency[saved.seed] => kernel = saved.seed

\* No job runs and none can be started: the pool raises, stops or decides.
EndJobs ==
    /\ pc = "jobs" /\ DOMAIN threads = {}
    /\ failure \/ \A j \in Job : ~ Eligible(j)
    /\ \/ failure /\ Goto("down") /\ UNCHANGED saved
       \/ ~ failure /\ ~ Decidable /\ Goto("finished") /\ UNCHANGED saved
       \/ /\ ~ failure /\ Decidable
          /\ \E kernel \in Candidates :
                 /\ IsWinner(kernel)
                 /\ saved' = [saved EXCEPT !.phase = "publishing", !.winner = kernel]
          /\ Goto("loop")
    /\ UNCHANGED <<summaries, repositories, episodes, faults>>

\* The pool is shut down: threads run to an end that nobody collects.
Drained ==
    /\ pc = "draining"
    /\ \A j \in DOMAIN threads : threads[j] \in {"returned", "raised"}
    /\ pc' = "down"
    /\ threads' = <<>>
    /\ UNCHANGED <<saved, summaries, repositories, episodes, target, failure, faults>>

-----------------------------------------------------------------------------
(* Publication: _publish and commit_files *)

NoPlan == [version |-> 0, kernel |-> None]
NoReceipt == [base |-> 0, commit |-> First]

ToPublish == IF target = Campaign THEN saved.winner ELSE saved.seed

\* prepare_epoch: the trajectory has ended the Episodes of the Epochs before.
Ready == target # Campaign => count[target] = (saved.epoch - 1) * Steps /\ ~ open[target]

NewPlan == [version |-> Tip(target).version + 1, kernel |-> ToPublish]

\* A plan that is there is kept: it pins the version of a replayed publication.
PinnedPlan ==
    LET old == plan[target][saved.epoch] IN IF old # NoPlan THEN old ELSE NewPlan

PlanPublication ==
    /\ pc = "plan"
    /\ IF Ready /\ PinnedPlan.kernel = ToPublish
       THEN /\ plan' = [plan EXCEPT ![target][saved.epoch] = PinnedPlan]
            /\ Goto("seal")
       ELSE Goto("refused") /\ UNCHANGED plan
    /\ UNCHANGED <<saved, summaries, history, files, index, receipt, episodes, faults>>

\* The immutable commit of a publication.
Broadcast ==
    LET planned == plan[target][saved.epoch]
    IN [kind |-> "broadcast", kernel |-> planned.kernel, version |-> planned.version,
        epoch |-> saved.epoch]

Clean(w) == files[w] = "head" /\ index[w] = "head"

\* Mutant: a replay makes a new transaction on what is there.
SealAnew ==
    /\ pc = "seal"
    /\ IF Clean(target)
       THEN /\ receipt' = [receipt EXCEPT ![target][saved.epoch] =
                               [base |-> Len(history[target]), commit |-> Broadcast]]
            /\ Goto("check")
       ELSE Goto("refused") /\ UNCHANGED receipt
    /\ UNCHANGED <<saved, summaries, history, files, index, plan, episodes, faults>>

\* The commit is prepared and the receipt written before HEAD or a file changes; a
\* receipt that is there must be of the same publication.
Seal ==
    /\ pc = "seal"
    /\ LET old == receipt[target][saved.epoch] IN
       \/ /\ old = NoReceipt /\ Clean(target)
          /\ receipt' = [receipt EXCEPT ![target][saved.epoch] =
                             [base |-> Len(history[target]), commit |-> Broadcast]]
          /\ Goto("check")
       \/ old = NoReceipt /\ ~ Clean(target) /\ Goto("refused") /\ UNCHANGED receipt
       \/ /\ old # NoReceipt
          /\ Goto(IF old.commit = Broadcast THEN "check" ELSE "refused")
          /\ UNCHANGED receipt
    /\ UNCHANGED <<saved, summaries, history, files, index, plan, episodes, faults>>

Sealed == receipt[target][saved.epoch]
OnBase == Len(history[target]) = Sealed.base
OnTarget == Len(history[target]) = Sealed.base + 1 /\ Tip(target) = Sealed.commit

Check ==
    /\ pc = "check"
    /\ Goto(IF OnBase \/ OnTarget THEN "write" ELSE "refused")
    /\ UNCHANGED <<saved, summaries, repositories, episodes, faults>>

\* Files are replaced one by one; those of a commit that is HEAD do not change.
WriteSome ==
    /\ pc = "write" /\ OnBase /\ files[target] = "head"
    /\ files' = [files EXCEPT ![target] = "mixed"]
    /\ UNCHANGED <<saved, summaries, history, index, plan, receipt, episodes, volatile, faults>>

WriteAll ==
    /\ pc = "write"
    /\ files' = [files EXCEPT ![target] = IF OnBase THEN "next" ELSE @]
    /\ Goto("ref")
    /\ UNCHANGED <<saved, summaries, history, index, plan, receipt, episodes, faults>>

MoveRef ==
    /\ pc = "ref"
    /\ IF OnBase
       THEN /\ history' = [history EXCEPT ![target] = Append(@, Sealed.commit)]
            /\ files' = [files EXCEPT ![target] = "head"]
            /\ index' = [index EXCEPT ![target] = "stale"]
       ELSE UNCHANGED <<history, files, index>>
    /\ Goto("index")
    /\ UNCHANGED <<saved, summaries, plan, receipt, episodes, faults>>

RefreshIndex ==
    /\ pc = "index"
    /\ index' = [index EXCEPT ![target] = "head"]
    /\ Goto("published")
    /\ UNCHANGED <<saved, summaries, history, files, plan, receipt, episodes, faults>>

-----------------------------------------------------------------------------
(* Faults *)

Stopped == {"down", "refused", "finished"}

\* An operator's interrupt, or a checkpoint that cannot be written: admission stops,
\* the pool drains.
Interrupt ==
    /\ pc = "jobs" /\ failures < MaxFailures
    /\ failures' = failures + 1
    /\ pc' = "draining"
    /\ UNCHANGED <<saved, summaries, repositories, episodes, target, threads, failure,
                   crashes, foreign>>

\* Death of the process, or an exception outside the pool.
Crash ==
    /\ pc \notin Stopped /\ crashes < MaxCrashes
    /\ crashes' = crashes + 1
    /\ pc' = "down" /\ target' = Campaign /\ threads' = <<>> /\ failure' = FALSE
    /\ UNCHANGED <<saved, summaries, repositories, episodes, failures, foreign>>

\* Somebody else commits in the Campaign's workspace while Episodes run or nothing does.
Foreign ==
    /\ pc \in Stopped \cup {"jobs"} /\ foreign < MaxForeign
    /\ Clean(Campaign)
    /\ foreign' = foreign + 1
    /\ history' = [history EXCEPT ![Campaign] =
                       Append(@, [Tip(Campaign) EXCEPT !.kind = "foreign"])]
    /\ UNCHANGED <<saved, summaries, files, index, plan, receipt, episodes, volatile,
                   failures, crashes>>

-----------------------------------------------------------------------------
(* The specification *)

Init ==
    /\ saved = Absent
    /\ summaries = [k \in Epoch |-> None]
    /\ history = [w \in Workspace |-> IF w = Campaign THEN <<First>> ELSE <<>>]
    /\ files = [w \in Workspace |-> "head"] /\ index = [w \in Workspace |-> "head"]
    /\ plan = [w \in Workspace |-> [k \in Epoch |-> NoPlan]]
    /\ receipt = [w \in Workspace |-> [k \in Epoch |-> NoReceipt]]
    /\ count = [t \in Trajectory |-> 0] /\ open = [t \in Trajectory |-> FALSE]
    /\ attempt = [t \in Trajectory |-> [e \in Episode |-> Unended]]
    /\ tokens = 0 /\ retained = 0
    /\ pc = "down" /\ target = Campaign /\ threads = <<>> /\ failure = FALSE
    /\ failures = 0 /\ crashes = 0 /\ foreign = 0

Publication ==
    PlanPublication \/ Seal \/ Check \/ WriteAll \/ MoveRef \/ RefreshIndex
Coordination ==
    \/ Start \/ Initialize \/ PlanEpoch \/ Proceed \/ Published \/ Advance
    \/ Publication \/ EndJobs \/ Drained
    \/ \E job \in Job : Dispatch(job)
    \/ \E job \in DOMAIN threads : Collect(job)
Run(job) ==
    \/ BeginEpisode(job) \/ OpenEpisode(job) \/ EndEpisode(job) \/ CloseEpisode(job)
    \/ ReadResult(job)

Next ==
    \/ Coordination
    \/ \E job \in DOMAIN threads : Run(job) \/ Raise(job)
    \/ WriteSome \/ Interrupt \/ Crash \/ Foreign

Spec == Init /\ [][Next]_vars

\* The coordinator and its threads are sequential code, an Episode ends
\* (EpisodeLifecycle), and an operator starts the search again.
RunJob(job) == job \in DOMAIN threads /\ Run(job)
Fairness == WF_vars(Coordination) /\ \A job \in Job : WF_vars(RunJob(job))
FairSpec == Spec /\ Fairness

-----------------------------------------------------------------------------
(* Properties *)

\* Every variable has the type of what the search keeps in it.
TypeOK ==
    /\ saved \in [phase : Phase, epoch : 1 .. Epochs + 1, seed : Kernel, winner : Outcome,
                   jobs : [Job -> Status], result : [Job -> Outcome],
                   stalls : 0 .. Epochs, stopped : BOOLEAN]
    /\ summaries \in [Epoch -> Outcome]
    /\ history \in [Workspace -> Seq(Commit)]
    /\ files \in [Workspace -> {"head", "mixed", "next"}]
    /\ index \in [Workspace -> {"head", "stale"}]
    /\ plan \in [Workspace -> [Epoch -> [version : Nat, kernel : Outcome]]]
    /\ receipt \in [Workspace -> [Epoch -> [base : Nat, commit : Commit]]]
    /\ count \in [Trajectory -> 0 .. Epochs * Steps]
    /\ open \in [Trajectory -> BOOLEAN]
    /\ attempt \in [Trajectory -> [Episode -> Outcome \cup {Unended}]]
    /\ tokens \in Nat /\ retained \in 0 .. MaxRetained
    /\ pc \in Location /\ target \in Workspace /\ failure \in BOOLEAN
    /\ DOMAIN threads \subseteq Job /\ \A j \in DOMAIN threads : threads[j] \in Place
    /\ failures \in 0 .. MaxFailures /\ crashes \in 0 .. MaxCrashes
    /\ foreign \in 0 .. MaxForeign

Broadcasts(w) == {i \in DOMAIN history[w] : history[w][i].kind = "broadcast"}
SeedOf(k) == IF k = 1 THEN Bootstrap ELSE summaries[k - 1]
OutcomesOf(k) == {attempt[j[1]][(k - 1) * Steps + j[2]] : j \in Job}

\* "No winner is broadcast until every scheduled Episode has a durable terminal
\* outcome" (docs/optional-light-modules.md), and the winner is the best of them: a
\* partial Epoch never reaches the Campaign, however often it was resumed.
BestIsPublished ==
    \A i \in Broadcasts(Campaign) :
        LET commit == history[Campaign][i]
            known == {SeedOf(commit.epoch)} \cup OutcomesOf(commit.epoch)
        IN /\ Unended \notin known
           /\ commit.kernel \in known
           /\ \A kernel \in known \ {None} : Latency[commit.kernel] <= Latency[kernel]

\* "The durable receipt makes a crash between publication, ref update and index
\* refresh replayable" (commit_files): no workspace gets the same Epoch twice.
PublishedOnce ==
    \A w \in Workspace : \A i, j \in Broadcasts(w) :
        history[w][i].epoch = history[w][j].epoch => i = j

\* "Broadcast the same Kernel to every trajectory": an Episode is run only on top of
\* the broadcast of its Epoch, of the kernel the Campaign published for the Epoch
\* before, whatever was replayed.
StartsFromBroadcast ==
    \A job \in DOMAIN threads : \E i \in Broadcasts(job[1]) :
        history[job[1]][i].epoch = saved.epoch /\ history[job[1]][i].kernel = SeedOf(saved.epoch)

\* Has the Episode of the trajectory ended?
Ended(t, e) == attempt[t][e] # Unended

\* The stall of the search counts every completed Epoch exactly once, across deaths
\* between its summary and its checkpoint.
StallsExact ==
    \A n \in 0 .. saved.epoch - 1 :
        saved.stalls >= n <=>
            \A k \in saved.epoch - n .. saved.epoch - 1 :
                Latency[summaries[k]] >= Latency[SeedOf(k)]

\* The search ends, with its Epochs, its tokens or its patience used up: no death,
\* exception or interrupt makes a replayed publication refuse for good, only a commit by
\* somebody else does.
SearchEnds ==
    <>(foreign > 0 \/
       (pc = "finished" /\ (saved.epoch > Epochs \/ saved.stopped \/ BudgetReached)))

-----------------------------------------------------------------------------
(* The search implements the ledger: the archives of the Episodes are its outcomes,
   the broadcast commits of a workspace are what it was given. *)

GivenTo(w) == {<<history[w][i].epoch, history[w][i].kernel>> : i \in Broadcasts(w)}
Ledger == INSTANCE SearchLedger WITH
    outcome <- attempt,
    given <- [w \in Workspace |-> GivenTo(w)]

\* "An archived terminal Episode is not run again after coordinator restart"
\* (run_episode), "No winner is broadcast until every scheduled Episode has a durable
\* terminal outcome" (docs/optional-light-modules.md), and no Episode ends before every
\* trajectory has the winner of the Epoch before: through deaths and replays the search
\* is a tournament in Epochs that do not overlap.
ImplementsLedger == Ledger!Spec
=============================================================================
