---------------------------- MODULE MCPeprStore ----------------------------
(* Small instance: two pods, two keys, two values. *)
EXTENDS PeprStore

CONSTANTS admission, watcher, k1, k2, v1, v2

MCPod == {admission, watcher}
MCOnePod == {watcher}
MCKey == {k1, k2}
MCOneKey == {k1}
MCValue == {v1, v2}
MCOneValue == {v1}

\* One index for each key and value.
MCAddIndex == [kv \in Key \X Value |-> kv]
\* Key `x` with value `y:z` and key `x:y` with value `z` have one index.
MCCollidingIndex ==
  [kv \in Key \X Value |-> IF kv = <<k2, v2>> THEN <<k1, v1>> ELSE kv]

MCAllLiberties == Liberties
=============================================================================
