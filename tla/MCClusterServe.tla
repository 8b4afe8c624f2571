--------------------------- MODULE MCClusterServe ---------------------------
(* Instances of ClusterServe: one or two operators, two or three ranks.       *)
EXTENDS ClusterServe, TLC

CONSTANTS a, b

MCOne == {a}
MCTwo == {a, b}
MCSession(starts, who, guarded) ==
  [restart |-> starts, operators |-> who, guard |-> guarded, stagers |-> {}]
MCServe == {MCSession(FALSE, {a}, FALSE)}
MCGuarded == {MCSession(FALSE, {a}, TRUE)}
=============================================================================
