--------------------- MODULE MCStandingCharacterization ---------------------
(***************************************************************************)
(* Two servo maps, the second with a narrower range, a contract for each   *)
(* and one with a wrong nominal range, and two evaluations.                *)
(***************************************************************************)
EXTENDS StandingCharacterization

Limits == {[lo |-> -1, hi |-> 4], [lo |-> -1, hi |-> 2]}
Contract(lo, hi, version, nominalHi) ==
  [version |-> version, lo |-> lo, hi |-> hi, default |-> 0, scale |-> 3,
   nominalLo |-> -1, nominalHi |-> nominalHi]
InstalledContracts == {Contract(-1, 4, 4, 3), Contract(-1, 2, 3, 0), Contract(-1, 4, 4, 4)}
EvaluatedPoses == {<<"stand", "crouch">>, <<"crouch">>}
=============================================================================
