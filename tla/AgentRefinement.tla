-------------------------- MODULE AgentRefinement --------------------------
(***************************************************************************)
(* The worker, its tools and its interrupters keep the promise about       *)
(* inputs.  The turn in progress is the current worker's: a worker that is *)
(* no longer current has none (OneConsumer).                               *)
(***************************************************************************)
EXTENDS MCAgentWorker, SequencesExt

Promise == INSTANCE InputPromise WITH
  Inputs   <- Messages,
  queue    <- inbox,
  busy     <- pc[cur] \in InTurn,
  turn     <- batch[cur],
  context  <- FlattenSeq([i \in DOMAIN chain |-> chain[i].msgs]),
  answered <- answers,
  dropped  <- UNION {discarded[i] : i \in Callers},
  lost     <- abandoned

\* Every step of the agent is a step of the promise or leaves it alone: an
\* interrupt, a crash or a renewal never puts an input back, shows it twice,
\* overtakes an older one or makes it vanish.
KeepsPromise == Promise!Spec
=============================================================================
