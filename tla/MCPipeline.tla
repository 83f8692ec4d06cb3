----------------------------- MODULE MCPipeline -----------------------------
(* Small instances of Pipeline: all alert_ids share one (service, error),  *)
(* so every behaviour contends for one flap lock.                          *)
EXTENDS Pipeline, TLC

CONSTANT k1

OneKey == [a \in AlertIds |-> k1]

\* Webhook calls with one firing alert, or with two of them.
Singles == {<<a>> : a \in AlertIds}
SinglesAndPairs == Singles \union 
  {b \in AlertIds \X AlertIds : b[1] # b[2]}

\* Sound for the safety runs: OneKey and Batches treat all alert_ids alike.
Symmetry == Permutations(Claims) \union Permutations(RunIds)
              \union Permutations(AlertIds) \union Permutations(Reports)
=============================================================================
