---------------------------- MODULE InputPromise ----------------------------
(***************************************************************************)
(* What an agent promises about the inputs it accepts, whatever tasks,     *)
(* locks and callbacks it is built from: one queue, at most one turn, a    *)
(* context that only grows and keeps the order of acceptance, and for      *)
(* every input exactly one fate.                                           *)
(***************************************************************************)
EXTENDS Naturals, Sequences

CONSTANT Inputs

VARIABLES
  queue,     \* accepted and waiting
  busy,      \* a turn is in progress
  turn,      \* merged into that turn, not yet in the context
  context,   \* the inputs the model has been shown
  answered,  \* inputs that answered a question
  dropped,   \* inputs an interrupt or a shutdown discarded
  lost       \* inputs that went with a turn that failed

promiseVars == <<queue, busy, turn, context, answered, dropped, lost>>

Elems(s) == {s[i] : i \in 1..Len(s)}

Accepted == Elems(queue) \cup Elems(turn) \cup Elems(context) \cup answered \cup dropped \cup lost

Init ==
  /\ queue = <<>> /\ turn = <<>> /\ context = <<>>
  /\ busy = FALSE
  /\ answered = {} /\ dropped = {} /\ lost = {}

Accept(m) ==
  /\ m \notin Accepted
  /\ \/ queue' = Append(queue, m) /\ UNCHANGED answered
     \/ answered' = answered \cup {m} /\ UNCHANGED queue
  /\ UNCHANGED <<busy, turn, context, dropped, lost>>

\* A turn takes everything that waits.
Begin ==
  /\ ~busy /\ queue # <<>>
  /\ busy' = TRUE
  /\ turn' = queue /\ queue' = <<>>
  /\ UNCHANGED <<context, answered, dropped, lost>>

\* Its input reaches the context, the turn goes on or fails there.
Show ==
  /\ busy /\ turn # <<>>
  /\ context' = context \o turn
  /\ turn' = <<>>
  /\ busy' \in BOOLEAN
  /\ UNCHANGED <<queue, answered, dropped, lost>>

\* A running turn takes the oldest inputs, and those only.
Inject(n) ==
  /\ busy /\ turn = <<>>
  /\ queue' = SubSeq(queue, n + 1, Len(queue))
  /\ LET taken == SubSeq(queue, 1, n) IN
       \/ /\ context' = context \o taken
          /\ busy' \in BOOLEAN
          /\ UNCHANGED lost
       \/ /\ lost' = lost \cup Elems(taken)
          /\ busy' = FALSE
          /\ UNCHANGED context
  /\ UNCHANGED <<turn, answered, dropped>>

\* The turn ends; an input it had not shown is lost with it.
End ==
  /\ busy /\ busy' = FALSE
  /\ turn' = <<>>
  /\ lost' = lost \cup Elems(turn)
  /\ UNCHANGED <<queue, context, answered, dropped>>

\* An interrupt or a shutdown discards what waits, and only that.
Discard ==
  /\ queue # <<>>
  /\ queue' = <<>>
  /\ dropped' = dropped \cup Elems(queue)
  /\ UNCHANGED <<busy, turn, context, answered, lost>>

Next ==
  \/ \E m \in Inputs : Accept(m)
  \/ \E n \in 1..Len(queue) : Inject(n)
  \/ Begin \/ Show \/ End \/ Discard

Spec == Init /\ [][Next]_promiseVars
=============================================================================
