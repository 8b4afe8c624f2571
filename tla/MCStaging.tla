----------------------------- MODULE MCStaging -----------------------------
(* Instances of Staging: two operators who stage, or the sessions of serve.   *)
EXTENDS Staging, TLC

CONSTANTS a, b

MCTwo == {a, b}
MCVersions == {1, 2}
MCEdits == {Groups, {"adapter"}, {"manifest"}}
MCBuilds == {1, 2}
MCSession(starts, who, guarded, staging) ==
  [restart |-> starts, operators |-> who, guard |-> guarded, stagers |-> staging]
MCSessions == {MCSession(FALSE, {a, b}, FALSE, {}), MCSession(TRUE, {a}, FALSE, {}),
               MCSession(FALSE, {a}, TRUE, {}), MCSession(FALSE, {}, FALSE, {a, b})}
MCStageOnly == {MCSession(FALSE, {}, FALSE, {a, b})}
=============================================================================
