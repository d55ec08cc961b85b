--------------------------- MODULE PolicyInstall ---------------------------
(***************************************************************************)
(* install_exported_policy_bundle, which audits a bundle and then copies   *)
(* its files one after the other, and the policy node, which may be        *)
(* started at any time on what is there.                                   *)
(***************************************************************************)
EXTENDS PolicyBundle

CONSTANTS
  Bundles,         \* the exported bundles at hand, a set of records
  Maps,            \* the joint maps the package may be built with
  Trims,           \* the trims an operator may find on the robot
  MaxEdits         \* how many installations and edits there are (bound)

\* The limits of a joint do not cross (littlegreen_biped_node.cpp:1503), a pose has an
\* angle for every action, a profile is never no profile, and a checksum is that of one
\* file.
ASSUME InstallAssumption ==
  /\ MaxEdits \in Nat /\ Trims \subseteq [Index -> Int]
  /\ \A m \in Maps : /\ m.lower \in [Index -> Int] /\ m.upper \in [Index -> Int]
                     /\ \A i \in Index : m.lower[i] <= m.upper[i]
  /\ \A b \in Bundles : b.onnx # Absent =>
       /\ b.onnx.id # Absent
       /\ \A c \in Bundles : c.onnx # Absent /\ c.onnx.id = b.onnx.id => c.onnx = b.onnx
  /\ \A b \in Bundles : b.json # Absent =>
       /\ b.json.pose \in [Index -> Int]
       /\ \A m \in Maps, trim \in Trims : ProfileOf(b.yaml, m, b.json, trim) # Absent

VARIABLES
  files,           \* the configuration directory, and checkpoints/policy.onnx
  handoff,         \* policy_handoff.yaml
  jointMap,
  install,         \* a running installation: bundle, copies to come, profile
  booting, live,   \* what the policy node has loaded, and the joint map it read
  tuned,           \* history: the trims operators have found, with what they were found for
  whole,           \* history: the last installation finished, with a handoff, on this joint map
  edits

installVars == <<files, handoff, jointMap, install, booting, live, tuned, whole, edits>>

Idle == [bundle |-> Absent, todo |-> <<>>, profile |-> Absent]
Off == [yaml |-> Absent, map |-> Absent, handoff |-> Absent, onnx |-> Absent]

\* destinations, in the order of the dictionary, and the handoff last.
Copies == <<"onnx", "yaml", "spare", "contract", "sum", "manifest", "checkpoint", "handoff">>
SourceOf(b, name) ==
  CASE name = "spare" -> b.yaml
    [] name = "checkpoint" -> b.onnx
    [] OTHER -> b[name]

FileNames == {"onnx", "yaml", "spare", "contract", "sum", "manifest", "checkpoint"}
FilesOf(b) == [name \in FileNames |-> SourceOf(b, name)]

InstallInit ==
  /\ jointMap \in Maps
  /\ \E b \in Bundles : AuditPasses(b, jointMap, Absent) /\ files = FilesOf(b)
  /\ handoff = Absent /\ install = Idle /\ booting = Off /\ live = Off
  /\ tuned = {} /\ whole = FALSE /\ edits = 0

\* A bundle is complete; its handoff is normalised, it is audited without the handoff,
\* and the copies are planned.
StartInstall(b) ==
  /\ install = Idle /\ edits < MaxEdits
  /\ Absent \notin {b.onnx, b.yaml, b.contract, b.sum, b.manifest}
  /\ b.json # Absent => Normalizable(b.yaml, jointMap, b.json, handoff)
  /\ AuditPasses(b, jointMap, Absent)
  /\ install' = [bundle |-> b, todo |-> Copies,
                 profile |-> IF b.json = Absent THEN Absent
                             ELSE ProfileOf(b.yaml, jointMap, b.json, Trim(b.yaml, b.json, handoff))]
  /\ edits' = edits + 1 /\ whole' = FALSE
  /\ UNCHANGED <<files, handoff, jointMap, booting, live, tuned>>

\* Each file is replaced by a rename.
CopyFile ==
  /\ install.todo # <<>> /\ Head(install.todo) # "handoff"
  /\ LET name == Head(install.todo)
     IN  files' = [files EXCEPT ![name] = SourceOf(install.bundle, name)]
  /\ install' = [install EXCEPT !.todo = Tail(@)]
  /\ UNCHANGED <<handoff, jointMap, booting, live, tuned, whole, edits>>

\* Without a handoff JSON the old profile stays.
CopyHandoff ==
  /\ install.todo = <<"handoff">>
  /\ handoff' = IF install.profile = Absent THEN handoff ELSE install.profile
  /\ whole' = (install.profile # Absent)
  /\ install' = Idle
  /\ UNCHANGED <<files, jointMap, booting, live, tuned, edits>>

InstallDies ==
  /\ install # Idle
  /\ install' = Idle
  /\ UNCHANGED <<files, handoff, jointMap, booting, live, tuned, whole, edits>>

\* The operator finds a trim on the robot with the policy that is installed.
TuneTrim(trim) ==
  /\ install = Idle /\ edits < MaxEdits
  /\ handoff # Absent /\ handoff.task = files.yaml.task /\ handoff.sha = files.yaml.sha
  /\ handoff' = ProfileOf([task |-> handoff.task, sha |-> handoff.sha], jointMap,
                          [pose |-> handoff.source, previous |-> handoff.previous], trim)
  /\ tuned' = tuned \cup {[task |-> handoff.task, sha |-> handoff.sha,
                           source |-> handoff.source, trim |-> trim]}
  /\ edits' = edits + 1
  /\ UNCHANGED <<files, jointMap, install, booting, live, whole>>

\* The package is built with other limits.
ChangeMap ==
  /\ install = Idle /\ edits < MaxEdits
  /\ jointMap' \in Maps \ {jointMap}
  /\ edits' = edits + 1 /\ whole' = FALSE
  /\ UNCHANGED <<files, handoff, install, booting, live, tuned>>

\* The node reads the policy, the joint map and the handoff, and throws on a mismatch.
StartNode ==
  /\ booting = Off /\ live = Off
  /\ NodeTakesConfig(files.yaml, jointMap, handoff)
  /\ booting' = [yaml |-> files.yaml, map |-> jointMap, handoff |-> handoff, onnx |-> Absent]
  /\ UNCHANGED <<files, handoff, jointMap, install, live, tuned, whole, edits>>

\* Then it reads the model.
LoadModel ==
  /\ booting # Off
  /\ live' = IF NodeTakesModel(booting.yaml, files.onnx) 
              THEN [booting EXCEPT !.onnx = files.onnx] ELSE Off
  /\ booting' = Off
  /\ UNCHANGED <<files, handoff, jointMap, install, tuned, whole, edits>>

StopNode ==
  /\ live # Off
  /\ live' = Off
  /\ UNCHANGED <<files, handoff, jointMap, install, booting, tuned, whole, edits>>

InstallNext ==
  \/ \E b \in Bundles : StartInstall(b)
  \/ CopyFile \/ CopyHandoff \/ InstallDies
  \/ \E trim \in Trims : TuneTrim(trim)
  \/ ChangeMap
  \/ StartNode \/ LoadModel \/ StopNode

InstallSpec == InstallInit /\ [][InstallNext]_installVars

-----------------------------------------------------------------------------

\* The copies to come after the first k.
CopiesAfter(k) == SubSeq(Copies, k + 1, Len(Copies))

InstallTypeOK ==
  /\ files.yaml \in {b.yaml : b \in Bundles} /\ files.onnx \in {b.onnx : b \in Bundles}
  /\ jointMap \in Maps /\ whole \in BOOLEAN /\ edits \in 0 .. MaxEdits
  /\ install.bundle \in Bundles \cup {Absent}
  /\ \E k \in 0 .. Len(Copies) : install.todo = CopiesAfter(k)

\* The audit passes, the node takes the handoff, and it starts on everything else exactly
\* when the demands are met that only the node makes.
Accepted(f, m, h) ==
  /\ AuditPasses(f, m, h) /\ NodeTakesHandoff(f.yaml, m, h)
  /\ NodeTakesConfig(f.yaml, m, h) /\ NodeTakesModel(f.yaml, f.onnx) <=> OnlyNodeAsks(f.yaml)

\* Type correctness; and what the installer finished writing, with a handoff, passes the
\* audit, its handoff serves the node, and the node refuses to start on it for nothing but
\* the demands of OnlyNodeAsks: the three check the same files with rules written three
\* times (install_exported_policy_bundle.py:134-153, policy_bundle_audit.py:602-648,
\* littlegreen_biped_node.cpp:1193-1230).
InstallInv ==
  InstallTypeOK /\ (whole /\ install = Idle => Accepted(files, jointMap, handoff))

\* The policy and the model of a live node are those of one export, one the audit passes
\* on the joint map the node has read, and the profile is of an export of that model: an
\* installation that died between two copies, or a file replaced while the node starts,
\* never makes the node drive on parts of two policies (littlegreen_biped_node.cpp:1787,
\* 1168-1172). The node reads no manifest, contract or checksum file.
LiveOfOneExport ==
  live # Off =>
    /\ \E b \in Bundles : /\ live.yaml = b.yaml /\ live.onnx = b.onnx
                          /\ AuditPasses(b, live.map, Absent)
    /\ live.yaml.role = "locomotion" =>
         \E b \in Bundles :
           /\ b.json # Absent /\ b.yaml.task = live.yaml.task /\ b.yaml.sha = live.yaml.sha
           /\ live.handoff.source = b.json.pose /\ live.handoff.previous = b.json.previous

\* "This prevents a robot-specific correction from silently carrying into a new learned
\* policy" (docs/V2_9_4_HANDOFF_CALIBRATION.md:100): a trim in the profile, or in a
\* running node, was found with that policy and that source pose, through reinstalls
\* and installations that die half way.
OwnTrim(h) ==
  h = Absent \/ (\A i \in Index : h.trim[i] = 0)
  \/ [task |-> h.task, sha |-> h.sha, source |-> h.source, trim |-> h.trim] \in tuned
TrimIsOwn ==
  \A h \in {handoff, install.profile, booting.handoff, live.handoff} : OwnTrim(h)

-----------------------------------------------------------------------------
(* What the documents say of the audit, and the code does not do.            *)

\* "The audit checks [...] the shared 47-D observation schema"
\* (docs/INTERFACES_AND_PARAMETERS.md:357), whose required metadata includes
\* "policy_dt: 0.02" (docs/OBSERVATION_CONTRACT.md:20-33).
FinishedHasSharedSchema ==
  whole /\ install = Idle /\ files.yaml.contract = "v231" => files.yaml.dt = 20

\* "Both the offline bundle auditor and the live policy node validate this relationship"
\* (docs/V2_9_4_HANDOFF_CALIBRATION.md:36): joint_position_rad is source + trim clamped to
\* the physical limit.
AuditValidatesHandoff ==
  /\ install = Idle /\ files.yaml.role = "locomotion" /\ handoff # Absent
  /\ AuditPasses(files, jointMap, handoff)
  => \A i \in Index :
       handoff.pose[i]
         = Clip(handoff.source[i] + handoff.trim[i], jointMap.lower[i], jointMap.upper[i])

-----------------------------------------------------------------------------
(* The inductive invariant.                                                  *)

\* A profile is of an export with a handoff, up to its trim.
OfBundle(h) ==
  h # Absent =>
    /\ h.trim \in [Index -> Int]
    /\ \E b \in Bundles :
         /\ b.json # Absent /\ h.task = b.yaml.task /\ h.sha = b.yaml.sha
         /\ h.source = b.json.pose /\ h.previous = b.json.previous

\* A running installation is of an audited bundle; its first copies are in place, and
\* the profile it will write is a handoff the audit and the node take with that bundle.
CopiesInStep ==
  /\ DOMAIN files = FileNames
  /\ DOMAIN install = {"bundle", "todo", "profile"}
  /\ \A k \in 0 .. Len(Copies) - 1 :
       install.todo = CopiesAfter(k) =>
         /\ ~whole /\ install.bundle \in Bundles
         /\ AuditPasses(install.bundle, jointMap, Absent)
         /\ \A i \in 1 .. k : files[Copies[i]] = SourceOf(install.bundle, Copies[i])
         /\ install.profile # Absent =>
              /\ HandoffOK(install.bundle.yaml, jointMap, install.profile)
              /\ NodeTakesHandoff(install.bundle.yaml, jointMap, install.profile)

\* A policy is of an export that was audited, on the joint map of that time.
Audited(y) == \E b \in Bundles, m \in Maps : AuditPasses(b, m, Absent) /\ y = b.yaml

\* What a starting node has read it has checked.
BootsChecked ==
  booting # Off =>
    /\ DOMAIN booting = DOMAIN Off
    /\ Audited(booting.yaml) /\ OfBundle(booting.handoff)
    /\ NodeTakesConfig(booting.yaml, booting.map, booting.handoff)

InstallIInv ==
  /\ InstallTypeOK /\ TrimIsOwn /\ CopiesInStep
  /\ OfBundle(handoff) /\ OfBundle(install.profile)
  /\ whole => Accepted(files, jointMap, handoff)
  /\ Audited(files.yaml) /\ BootsChecked /\ LiveOfOneExport
=============================================================================
