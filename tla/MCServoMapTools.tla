-------------------------- MODULE MCServoMapTools --------------------------
(***************************************************************************)
(* Two joints, one of them mounted the other way round.                    *)
(***************************************************************************)
EXTENDS ServoMapTools

FirstZeros == <<5, 8>>
Signs == <<1, -1>>
Stops == <<[lower |-> -3, upper |-> 4], [lower |-> -4, upper |-> 3]>>
Defaults == <<1, 0>>
=============================================================================
