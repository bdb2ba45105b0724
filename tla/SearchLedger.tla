----------------------------- MODULE SearchLedger -----------------------------
(***************************************************************************)
(* What a pooled search promises its operator: a tournament in Epochs.     *)
(* One kernel is broadcast to every trajectory before an Episode of the    *)
(* Epoch runs, every trajectory runs its Episodes in order and none twice, *)
(* and when all have ended the Campaign is given the best kernel, which    *)
(* is the seed of the next Epoch.  The Epochs do not overlap, and nothing  *)
(* that was given is taken back.                                           *)
(***************************************************************************)
EXTENDS Integers

CONSTANTS Epochs, Trajectories, Steps, Kernel, Bootstrap, Latency, None, Unended

VARIABLES
    outcome,  \* of each Episode of each trajectory: the kernel it retained, if any
    given     \* of the Campaign and of each trajectory: who won it, for each Epoch given

ledger == <<outcome, given>>

Campaign == 0
Trajectory == 1 .. Trajectories
Workspace == {Campaign} \cup Trajectory
Epoch == 1 .. Epochs
Episode == 1 .. Epochs * Steps

Has(w, k) == \E kernel \in Kernel : <<k, kernel>> \in given[w]

\* The Epoch under way is the first that the Campaign has not been given.
UnderWay(k) == (k = 1 \/ Has(Campaign, k - 1)) /\ ~ Has(Campaign, k)

\* The kernel that the Epoch starts from.
Seeds(kernel, k) ==
    IF k = 1 THEN kernel = Bootstrap ELSE <<k - 1, kernel>> \in given[Campaign]

EpisodesOf(k) == (k - 1) * Steps + 1 .. k * Steps
Found(k) == {outcome[t][e] : t \in Trajectory, e \in EpisodesOf(k)}

Init ==
    /\ outcome = [t \in Trajectory |-> [e \in Episode |-> Unended]]
    /\ given = [w \in Workspace |-> {}]

Give(w, k, kernel) ==
    /\ given' = [given EXCEPT ![w] = @ \cup {<<k, kernel>>}]
    /\ UNCHANGED outcome

BroadcastSeed(t, k) ==
    /\ ~ Has(t, k)
    /\ \E kernel \in Kernel : Seeds(kernel, k) /\ Give(t, k, kernel)

EndEpisode(t, e, k) ==
    /\ \A f \in Episode : outcome[t][f] # Unended <=> f < e
    /\ \A u \in Trajectory : Has(u, k)
    /\ \E result \in Kernel \cup {None} : outcome' = [outcome EXCEPT ![t][e] = result]
    /\ UNCHANGED given

\* The fastest kernel wins, the seed wins ties.
IsWinner(kernel, seed, found) ==
    /\ kernel \in {seed} \cup found
    /\ \A other \in ({seed} \cup found) \ {None} : Latency[kernel] <= Latency[other]
    /\ Latency[kernel] = Latency[seed] => kernel = seed

Decide(k) ==
    /\ Unended \notin Found(k)
    /\ \E kernel, seed \in Kernel :
           /\ Seeds(seed, k) /\ IsWinner(kernel, seed, Found(k))
           /\ Give(Campaign, k, kernel)

Next ==
    \E k \in Epoch :
        /\ UnderWay(k)
        /\ \/ \E t \in Trajectory : BroadcastSeed(t, k)
           \/ \E t \in Trajectory, e \in EpisodesOf(k) : EndEpisode(t, e, k)
           \/ Decide(k)

Spec == Init /\ [][Next]_ledger
=============================================================================
