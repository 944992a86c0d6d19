--------------------------- MODULE MCAgentWorker ---------------------------
(* AgentWorker on small instances. *)
EXTENDS AgentWorker, TLC

\* Worker identities, tool calls, interrupting callers and inputs without media are
\* interchangeable: no action and no safety property tells two of them apart.
Symmetry == Permutations(Workers) \cup Permutations(Interrupters)
TurnSymmetry ==
  Permutations(Workers) \cup Permutations(Calls) \cup Permutations(Messages \ Media)
=============================================================================
