----------------------- MODULE MCServoIdentification -----------------------
(***************************************************************************)
(* One test of each mode, with the largest offset the runner accepts, and  *)
(* two with a larger one.                                                  *)
(***************************************************************************)
EXTENDS ServoIdentification

Tests ==
  {[mode |-> "step_sweep", offsets |-> <<2>>, centre |-> 1],
   [mode |-> "deadband_staircase", offsets |-> <<1, 2>>, centre |-> 0],
   [mode |-> "step_sweep", offsets |-> <<1, 3>>, centre |-> 0],
   [mode |-> "deadband_staircase", offsets |-> <<3>>, centre |-> 0],
   [mode |-> "triangle", offsets |-> <<2>>, centre |-> 0],
   [mode |-> "hold_under_load", offsets |-> <<-2>>, centre |-> 0]}
=============================================================================
