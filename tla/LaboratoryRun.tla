--------------------------- MODULE LaboratoryRun ---------------------------
(***************************************************************************)
(* What a run of standing_characterization and one of                      *)
(* servo_identification have in common: both stream references by a loop   *)
(* that guards every few ticks, publishes and receives, through the        *)
(* driver's pose override, and log telemetry that comes late or not at     *)
(* all and says what the servos did some ticks ago.                        *)
(***************************************************************************)
EXTENDS Statistics

CONSTANTS
  Requests,            \* the arguments a run may be started with
  Margin,              \* --joint-limit-margin-rad
  GuardEvery, Stale,   \* ticks between guards; the age of telemetry a guard accepts
  Delay                \* ticks telemetry is on its way

VARIABLES
  at, code,            \* where the tool is; its exit code, "none" while it runs
  plan,                \* what is still to be streamed, the current part first
  left, due,           \* ticks to the end of the part, ticks to the next guard
  ref,                 \* the reference published last
  transit, age,        \* telemetry on its way; the age of the newest received
  override             \* the driver's pose override

Exit(status) == at' = "exited" /\ code' = status
=============================================================================
