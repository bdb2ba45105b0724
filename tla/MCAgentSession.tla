--------------------------- MODULE MCAgentSession ---------------------------
(* A Gateway run and a report; a session that may be resumed and throttled,  *)
(* and one that may be begun afresh.                                         *)
EXTENDS AgentSession

CONSTANTS g, j

MCAllowances ==
    {[resumes |-> 1, recoveries |-> 0, rates |-> 1],
     [resumes |-> 1, recoveries |-> 1, rates |-> 0]}
=============================================================================
