--------------------------- MODULE CommandAuthority ---------------------------
(***************************************************************************)
(* What the driver promises about the command buffer, without its threads: *)
(* one party owns the buffer at any time.  An external publisher owns it   *)
(* while no pose override is active, a guarded ramp owns it from its seed  *)
(* to its goal, and a hold owns it until it is released.  Ownership goes   *)
(* from the ramp to the hold and from the hold to the external publisher,  *)
(* never from a ramp straight to an external publisher.                    *)
(***************************************************************************)
EXTENDS Naturals

VARIABLES
  owner,    \* "external", "ramp" or "hold"
  command   \* who stored the buffer's content, and its sequence number

vars == <<owner, command>>

Init ==
  /\ owner = "external"
  /\ command = [src |-> "none", seq |-> 0]

StoredBy(src) == command' = [src |-> src, seq |-> command.seq + 1]

ExternalStore ==
  /\ owner = "external"
  /\ StoredBy("external")
  /\ UNCHANGED owner

\* hold, abort, disable, enable: latch the measured pose or keep what is there.
Latch ==
  /\ owner # "ramp"
  /\ owner' = "hold"
  /\ StoredBy("measured") \/ UNCHANGED command

StartRamp ==
  /\ owner # "ramp"
  /\ owner' = "ramp"
  /\ StoredBy("measured")

RampTarget ==
  /\ owner = "ramp"
  /\ StoredBy("ramp")
  /\ UNCHANGED owner

\* The ramp reaches its goal, or is stopped before it.
EndRamp ==
  /\ owner = "ramp"
  /\ owner' = "hold"
  /\ StoredBy("goal") \/ UNCHANGED command

Release ==
  /\ owner = "hold"
  /\ owner' = "external"
  /\ UNCHANGED command

Next ==
  \/ ExternalStore \/ Latch \/ StartRamp \/ RampTarget \/ EndRamp \/ Release

Spec == Init /\ [][Next]_vars
=============================================================================
