------------------------ MODULE MCEpisodeLifecycle ------------------------
(* Instances of EpisodeLifecycle for TLC. *)
EXTENDS EpisodeLifecycle, TLC

CONSTANTS slow, dirty, fast, fastest

\* The baseline, a faster kernel the policy refuses, and two admitted ones.
MCLatency == (slow :> 9) @@ (dirty :> 1) @@ (fast :> 5) @@ (fastest :> 3)
=============================================================================
