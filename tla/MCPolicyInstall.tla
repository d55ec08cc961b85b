-------------------------- MODULE MCPolicyInstall --------------------------
(***************************************************************************)
(* Exports of three models for two joint maps: with and without a handoff, *)
(* one pose just outside a limit, the same model exported again with       *)
(* another pose, another period or for another map, a walking policy with  *)
(* a long and with a short transition, and two bundles the audit must      *)
(* refuse.                                                                 *)
(***************************************************************************)
EXTENDS PolicyInstall

Narrow == [default |-> <<0, 0>>, lower |-> <<-4, -4>>, upper |-> <<4, 4>>]
Wide == [Narrow EXCEPT !.upper = <<4, 5>>]
TwoMaps == {Narrow, Wide}

Yaml(sha, m, dt) ==
  [sha |-> sha, task |-> "walk_to", role |-> "locomotion", contract |-> "v231",
   texts |-> {"both", "audit", "node"}, lowerCase |-> TRUE, fraction |-> 20,
   mode |-> "neutral_static", clamp |-> TRUE, pinned |-> FALSE, phase |-> TRUE, version |-> 4,
   dt |-> dt, default |-> m.default, lower |-> m.lower, upper |-> m.upper, scale |-> <<2, 5>>,
   nominalLower |-> <<-2, -4>>, nominalUpper |-> <<2, m.upper[2]>>]

Export(sha, m, dt, pose) ==
  LET y == Yaml(sha, m, dt)
  IN  [onnx |-> [id |-> sha, inputs |-> 47, outputs |-> 2], yaml |-> y,
       contract |-> [onnx |-> sha, task |-> y.task, role |-> y.role, mode |-> y.mode, dt |-> dt],
       sum |-> sha, manifest |-> [onnx |-> sha, yaml |-> y, mode |-> y.mode],
       json |-> IF pose = <<>> THEN Absent
                ELSE [task |-> y.task, default |-> y.default, pose |-> pose, previous |-> <<10, -90>>]]

\* A walking policy.
Walk(sha, fraction) ==
  LET b == Export(sha, Narrow, 20, <<0, 1>>)
      y == [b.yaml EXCEPT !.role = "walk", !.fraction = fraction, !.pinned = TRUE,
                          !.mode = "command_synchronized_continuous_nonblocking"]
  IN  [b EXCEPT !.yaml = y, !.manifest.yaml = y, !.manifest.mode = y.mode,
                !.contract.role = y.role, !.contract.mode = y.mode]

Exports ==
  {Export("a", Narrow, 20, <<3, 5>>), Export("a", Narrow, 20, <<2, 2>>),
   Export("a", Wide, 20, <<>>),
   Export("b", Narrow, 20, <<2, 2>>), Export("b", Narrow, 10, <<2, 2>>),
   Export("c", Wide, 20, <<-4, 5>>), Walk("d", 60), Walk("e", 50),
   [Export("b", Narrow, 20, <<0, 0>>) EXCEPT !.sum = "a"],
   [Export("a", Narrow, 20, <<0, 0>>) EXCEPT !.yaml.mode = "none"]}

FoundTrims == {<<1, 0>>, <<0, -1>>}
=============================================================================
