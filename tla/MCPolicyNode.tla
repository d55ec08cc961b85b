---------------------------- MODULE MCPolicyNode ----------------------------
(***************************************************************************)
(* The setups the policy node is checked in.                               *)
(***************************************************************************)
EXTENDS PolicyNode

TestedSetups ==
  {[output |-> "live", phases |-> "neutral_static", handoff |-> TRUE],
   [output |-> "shadow", phases |-> "command_synchronized", handoff |-> FALSE],
   [output |-> "shadow", phases |-> "tick_clock", handoff |-> FALSE],
   [output |-> "shadow", phases |-> "randomized_static", handoff |-> FALSE]}
=============================================================================
