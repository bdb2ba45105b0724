---------------------------- MODULE EpisodeLedger ----------------------------
(***************************************************************************)
(* What an Episode loop promises its operator: a ledger of incumbents.     *)
(* Every entry is either a promotion, of an admitted kernel strictly       *)
(* faster than the incumbent, or leaves the incumbent alone; every entry   *)
(* is counted exactly once, before the next one is written, and counting   *)
(* is never put off for ever.                                              *)
(***************************************************************************)
EXTENDS Naturals, Sequences

CONSTANTS Kernel, BaseKernel, Latency, Clean, MaxEpisodes

VARIABLES
    log,      \* the incumbents in order: which kernel, and was it a promotion
    counted   \* how many entries the campaign's state accounts for

ledger == <<log, counted>>

Entry == [kernel : Kernel, promoted : BOOLEAN]
Incumbent == log[Len(log)].kernel
Settled == counted = Len(log)

Init ==
    /\ log = <<[kernel |-> BaseKernel, promoted |-> FALSE]>>
    /\ counted = 1

Write(entry) ==
    /\ Settled
    /\ Len(log) <= MaxEpisodes
    /\ log' = Append(log, entry)
    /\ UNCHANGED counted

Promote(k) ==
    /\ k \in Clean
    /\ Latency[k] < Latency[Incumbent]
    /\ Write([kernel |-> k, promoted |-> TRUE])

Decline == Write([kernel |-> Incumbent, promoted |-> FALSE])

Count ==
    /\ ~ Settled
    /\ counted' = Len(log)
    /\ UNCHANGED log

Next == (\E k \in Kernel : Promote(k)) \/ Decline \/ Count

Spec == Init /\ [][Next]_ledger
FairSpec == Spec /\ WF_ledger(Count)
=============================================================================
