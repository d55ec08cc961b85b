------------------------- MODULE PolicyNode_proofs --------------------------
(***************************************************************************)
(* Proofs about the policy node: its invariant is inductive for every      *)
(* choice of setups, signals, timeouts and periods, and the authority, seed *)
(* and gait properties follow from it.  And about PolicyInstall, which     *)
(* brings the policy to the robot.                                         *)
(***************************************************************************)
EXTENDS PolicyNode, PolicyInstall, SequenceTheorems, TLAPS

-----------------------------------------------------------------------------
(* The installation of a policy.                                            *)

\* A profile derived from a policy, a joint map and a trim is a handoff the audit passes
\* and the policy node takes with that policy on that map.
LEMMA ProfileServes ==
  ASSUME NEW y, NEW m, NEW z, NEW j, NEW trim, NEW h,
         h = ProfileOf(z, m, j, trim), h # Absent,
         z.task = y.task, z.sha = y.sha,
         m.lower \in [Index -> Int], m.upper \in [Index -> Int],
         \A i \in Index : m.lower[i] <= m.upper[i],
         j.pose \in [Index -> Int], trim \in [Index -> Int],
         y.role = "locomotion" =>
           \A i \in Index : -100 <= j.previous[i] /\ j.previous[i] <= 100
  PROVE  HandoffOK(y, m, h) /\ NodeTakesHandoff(y, m, h)
<1> DEFINE raw == [i \in Index |-> j.pose[i] + trim[i]]
           pose == [i \in Index |-> Clip(raw[i], m.lower[i], m.upper[i])]
           clamps == [i \in Clamped(raw, m) |-> [before |-> raw[i], after |-> pose[i]]]
<1>1. /\ h.task = y.task /\ h.sha = y.sha /\ h.source = j.pose /\ h.trim = trim
      /\ h.pose = pose /\ h.clamps = clamps /\ h.previous = j.previous
  BY DEF ProfileOf
<1>2. \A i \in Index :
        /\ raw[i] = j.pose[i] + trim[i] /\ raw[i] \in Int
        /\ pose[i] = Clip(raw[i], m.lower[i], m.upper[i])
  OBVIOUS
<1>3. \A i \in Index : m.lower[i] <= pose[i] /\ pose[i] <= m.upper[i]
  BY <1>2 DEF Clip
<1>4. \A i \in Index : i \in DOMAIN clamps => clamps[i].before = raw[i] /\ clamps[i].after = pose[i]
  OBVIOUS
<1>5. \A i \in Index : i \notin DOMAIN clamps => pose[i] = raw[i]
  BY <1>2 DEF Clamped
<1> HIDE DEF raw, pose, clamps
<1>6. HandoffOK(y, m, h)
  <2> SUFFICES ASSUME y.role = "locomotion", NEW i \in Index
               PROVE  LET sum == h.source[i] + h.trim[i]
                      IN  /\ i \in DOMAIN h.clamps => h.clamps[i].before = sum
                          /\ h.pose[i] = IF i \in DOMAIN h.clamps THEN h.clamps[i].after ELSE sum
                          /\ m.lower[i] <= h.pose[i] /\ h.pose[i] <= m.upper[i]
                          /\ -100 <= h.previous[i] /\ h.previous[i] <= 100
    BY <1>1 DEF HandoffOK
  <2> QED
    BY <1>1, <1>2, <1>3, <1>4, <1>5
<1>7. NodeTakesHandoff(y, m, h)
  BY <1>1, <1>2 DEF NodeTakesHandoff
<1> QED
  BY <1>6, <1>7

\* The node compares the policy with the joint map as the audit does, but for the default
\* inside the limits.
LEMMA NodeActionContract ==
  ASSUME NEW y, NEW m, ActionContractOK(y, m)
  PROVE  NodeActionContractOK(y, m)
           <=> \A i \in Index : y.lower[i] <= y.default[i] /\ y.default[i] <= y.upper[i]
<1>1. y.version \in {3, 4} /\ (y.version = 3 => ~NonUniform(y.scale))
      /\ (y.version = 4 => NonUniform(y.scale)) /\ \A i \in Index : y.scale[i] > 0
  BY DEF ActionContractOK
<1>2. \A i \in Index :
        /\ y.default[i] = m.default[i] /\ y.lower[i] = m.lower[i] /\ y.upper[i] = m.upper[i]
        /\ y.version = 4 =>
             y.nominalLower[i] = NominalLower(y, i) /\ y.nominalUpper[i] = NominalUpper(y, i)
  BY DEF ActionContractOK
<1> QED
  BY <1>1, <1>2, Zenon DEF NodeActionContractOK

\* And a policy that was audited on one map and is taken by the node on another would pass
\* the audit there.
LEMMA NodeMapServesAudit ==
  ASSUME NEW b, NEW m, NEW n, AuditPasses(b, m, Absent), NodeActionContractOK(b.yaml, n)
  PROVE  AuditPasses(b, n, Absent)
<1>1. ActionContractOK(b.yaml, m) /\ b.yaml.version \in {3, 4}
  BY DEF AuditPasses, ActionContractOK
<1>2. b.yaml.dt > 0 /\ (b.yaml.version = 4 <=> NonUniform(b.yaml.scale))
      /\ \A i \in Index : b.yaml.scale[i] > 0
  BY <1>1 DEF ActionContractOK
<1>3. \A i \in Index :
        /\ b.yaml.default[i] = n.default[i] /\ b.yaml.lower[i] = n.lower[i]
        /\ b.yaml.upper[i] = n.upper[i]
        /\ b.yaml.version = 4 => b.yaml.nominalLower[i] = NominalLower(b.yaml, i)
                                 /\ b.yaml.nominalUpper[i] = NominalUpper(b.yaml, i)
  BY <1>1, Zenon DEF NodeActionContractOK
<1>4. ActionContractOK(b.yaml, n)
  BY <1>1, <1>2, <1>3, Zenon DEF ActionContractOK
<1> QED
  BY <1>4 DEF AuditPasses, HandoffOK

\* What passes the audit with a handoff the node takes, the node starts on exactly when
\* the demands are met that only the node makes.
LEMMA AuditLeavesToNode ==
  ASSUME NEW f, NEW m, NEW h, AuditPasses(f, m, h), f.onnx.id # Absent,
         NodeTakesHandoff(f.yaml, m, h)
  PROVE  Accepted(f, m, h)
<1> DEFINE y == f.yaml
<1>1. /\ ObservationContractOK(y) /\ ActionContractOK(y, m) /\ y.dt > 0
      /\ f.onnx # Absent /\ f.onnx.id = y.sha
      /\ f.onnx.inputs = Observations(y) /\ f.onnx.outputs = Actions
  BY DEF AuditPasses, ActionContractOK
<1> HIDE DEF y
<1>2. NodeTakesModel(y, f.onnx) <=> y.lowerCase
  BY <1>1 DEF NodeTakesModel
<1>3. NodeObservationContractOK(y)
        <=> "node" \in y.texts /\ (y.contract = "v231" => y.dt = 20 /\ y.fraction <= 50)
  <2>1. "both" \in y.texts
    BY <1>1 DEF ObservationContractOK
  <2>2. {"both", "node"} \subseteq y.texts <=> "node" \in y.texts
    BY <2>1
  <2>3. CASE y.contract = "legacy_45"
    BY <1>1, <2>2, <2>3 DEF ObservationContractOK, NodeObservationContractOK
  <2>4. CASE y.contract = "v231"
    <3>1. SharedContractOK(y)
      BY <1>1, <2>4 DEF ObservationContractOK
    <3>2. y.version = 4 /\ y.fraction >= 0
      BY <3>1 DEF SharedContractOK
    <3>3. \/ y.role = "stand" /\ y.mode = "randomized_static_per_episode"
          \/ y.role = "walk" /\ y.mode = "command_synchronized_continuous_nonblocking" /\ y.pinned
          \/ y.role = "locomotion" /\ y.mode = "neutral_static"
      BY <3>1 DEF SharedContractOK
    <3>4. NodeSharedContractOK(y) <=> y.dt = 20 /\ y.fraction <= 50
      BY <3>2, <3>3 DEF NodeSharedContractOK
    <3> QED
      BY <2>2, <2>4, <3>2, <3>4 DEF NodeObservationContractOK
  <2>5. CASE y.contract = "v280"
    BY <1>1, <2>2, <2>5 DEF ObservationContractOK, NodeObservationContractOK
  <2> QED
    BY <1>1, <2>3, <2>4, <2>5 DEF ObservationContractOK
<1>4. NodeActionContractOK(y, m)
        <=> \A i \in Index : y.lower[i] <= y.default[i] /\ y.default[i] <= y.upper[i]
  BY <1>1, NodeActionContract
<1>5. NodeTakesConfig(y, m, h) /\ NodeTakesModel(y, f.onnx) <=> OnlyNodeAsks(y)
  BY <1>1, <1>2, <1>3, <1>4, Zenon DEF NodeTakesConfig, OnlyNodeAsks, y
<1> QED
  BY <1>5 DEF Accepted, y

\* The audit asks of the installed files what it asked of the bundle they come from.
LEMMA AuditOfCopies ==
  ASSUME NEW f, NEW b, NEW m, NEW h,
         f.yaml = b.yaml, f.onnx = b.onnx, f.contract = b.contract, f.sum = b.sum,
         f.manifest = b.manifest, AuditPasses(b, m, Absent),
         HandoffOK(b.yaml, m, h)
  PROVE  AuditPasses(f, m, h)
<1>1. CompanionsOK(f)
  BY DEF AuditPasses, CompanionsOK
<1> QED
  BY <1>1 DEF AuditPasses

\* A profile is no more than its policy, its source pose, its action and its trim.
LEMMA SameProfile ==
  ASSUME NEW y, NEW z, NEW m, NEW j, NEW l, NEW trim, y.task = z.task, y.sha = z.sha,
         j.pose = l.pose, j.previous = l.previous
  PROVE  ProfileOf(y, m, j, trim) = ProfileOf(z, m, l, trim)
BY DEF ProfileOf

\* What a profile says of where it comes from.
LEMMA ProfileFields ==
  ASSUME NEW y, NEW m, NEW j, NEW trim, NEW h, h = ProfileOf(y, m, j, trim)
  PROVE  /\ h.task = y.task /\ h.sha = y.sha /\ h.source = j.pose /\ h.trim = trim
         /\ h.previous = j.previous
BY DEF ProfileOf

Names == FileNames \cup {"handoff"}

LEMMA FourInSeq ==
  ASSUME NEW S, NEW a \in S, NEW b \in S, NEW c \in S, NEW d \in S
  PROVE  <<a, b, c, d>> \in Seq(S)
OBVIOUS

\* The copies to come, one by one.
LEMMA CopiesFacts ==
  /\ Copies \in Seq(Names) /\ Len(Copies) = 8
  /\ \A i \in 1 .. 7 : Copies[i] \in FileNames
  /\ Copies[8] = "handoff"
<1>1. Copies \in Seq(Names) /\ Len(Copies) = 8
  <2>1. Len(Copies) = 8
    BY DEF Copies
  <2>2. Copies = <<"onnx", "yaml", "spare", "contract">>
                           \o <<"sum", "manifest", "checkpoint", "handoff">>
    BY DEF Copies
  <2>3. /\ <<"onnx", "yaml", "spare", "contract">> \in Seq(Names)
        /\ <<"sum", "manifest", "checkpoint", "handoff">> \in Seq(Names)
    <3>1. /\ "onnx" \in Names /\ "yaml" \in Names /\ "spare" \in Names /\ "contract" \in Names
          /\ "sum" \in Names /\ "manifest" \in Names /\ "checkpoint" \in Names /\ "handoff" \in Names
      BY DEF Names, FileNames
    <3> QED
      BY <3>1, FourInSeq, Zenon
  <2>4. Copies \in Seq(Names)
    BY <2>2, <2>3, ConcatProperties
  <2> QED
    BY <2>1, <2>4
<1>2. /\ Copies[1] = "onnx" /\ Copies[2] = "yaml" /\ Copies[3] = "spare"
      /\ Copies[4] = "contract" /\ Copies[5] = "sum"
      /\ Copies[6] = "manifest" /\ Copies[7] = "checkpoint"
      /\ Copies[8] = "handoff"
  BY DEF Copies
<1>3. \A i \in 1 .. 7 : i = 1 \/ i = 2 \/ i = 3 \/ i = 4 \/ i = 5 \/ i = 6 \/ i = 7
  OBVIOUS
<1>4. \A i \in 1 .. 7 : Copies[i] \in FileNames
  BY <1>2, <1>3, Zenon DEF FileNames
<1> QED
  BY <1>1, <1>2, <1>4

LEMMA CopiesLeft ==
  /\ CopiesAfter(8) = <<>> /\ CopiesAfter(0) = Copies
  /\ \A k \in 0 .. 7 :
       /\ CopiesAfter(k) # <<>>
       /\ Head(CopiesAfter(k)) = Copies[k + 1]
       /\ Tail(CopiesAfter(k)) = CopiesAfter(k + 1)
  /\ \A k, n \in 0 .. 8 : CopiesAfter(k) = CopiesAfter(n) => k = n
  /\ \A k \in 0 .. 8 : CopiesAfter(k) = <<"handoff">> => k = 7
<1>1. Copies \in Seq(Names) /\ Len(Copies) = 8
  BY CopiesFacts
<1>2. \A k \in 0 .. 8 : /\ CopiesAfter(k) \in Seq(Names)
                        /\ Len(CopiesAfter(k)) = 8 - k
  <2> TAKE k \in 0 .. 8
  <2>1. /\ k + 1 \in Int /\ 8 \in Int /\ k + 1 .. 8 \subseteq 1 .. 8
        /\ 8 - k = IF k + 1 <= 8 THEN 8 - (k + 1) + 1 ELSE 0
    OBVIOUS
  <2>2. \A i \in 1 .. 8 : Copies[i] \in Names
    BY <1>1, ElementOfSeq, Zenon
  <2>3. \A i \in k + 1 .. 8 : Copies[i] \in Names
    BY <2>1, <2>2, Zenon
  <2> QED
    BY <1>1, <2>1, <2>3, SubSeqProperties DEF CopiesAfter
<1>3. \A k \in 0 .. 7 :
        /\ CopiesAfter(k) # <<>>
        /\ Head(CopiesAfter(k)) = Copies[k + 1]
        /\ Tail(CopiesAfter(k)) = CopiesAfter(k + 1)
  <2> TAKE k \in 0 .. 7
  <2>1. k \in 0 .. 8 /\ k + 1 \in 1 .. 8 /\ 8 \in k + 1 .. 8 /\ 8 - k > 0
    OBVIOUS
  <2>2. CopiesAfter(k) # <<>>
    <3>1. Len(<<>>) = 0 /\ 8 - k # 0
      BY <2>1
    <3>2. Len(CopiesAfter(k)) = 8 - k
      BY <1>2, <2>1, Zenon
    <3> QED
      BY <3>1, <3>2, Zenon
  <2> QED
    BY <1>1, <2>1, <2>2, HeadTailOfSubSeq DEF CopiesAfter
<1>4. \A k, n \in 0 .. 8 : CopiesAfter(k) = CopiesAfter(n) => k = n
  <2>1. \A k, n \in 0 .. 8 : 8 - k = 8 - n => k = n
    OBVIOUS
  <2> QED
    BY <1>2, <2>1, Zenon
<1>5. \A k \in 0 .. 8 : CopiesAfter(k) = <<"handoff">> => k = 7
  <2>1. Len(<<"handoff">>) = 1 /\ \A k \in 0 .. 8 : 8 - k = 1 => k = 7
    OBVIOUS
  <2> QED
    BY <1>2, <2>1, Zenon
<1>6. CopiesAfter(8) = <<>>
  BY <1>1, SubSeqEmpty DEF CopiesAfter
<1>7. CopiesAfter(0) = Copies
  BY <1>1 DEF CopiesAfter
<1> QED
  BY <1>3, <1>4, <1>5, <1>6, <1>7

\* What is there when nothing is being installed.
LEMMA FilesOfFields ==
  ASSUME NEW b, NEW f, f = FilesOf(b)
  PROVE  /\ f.yaml = b.yaml /\ f.onnx = b.onnx /\ f.contract = b.contract /\ f.sum = b.sum
         /\ f.manifest = b.manifest /\ DOMAIN f = FileNames
BY DEF FilesOf, SourceOf, FileNames

LEMMA NothingLeft ==
  ASSUME install.todo = <<>> PROVE \A k \in 0 .. 7 : install.todo # CopiesAfter(k)
BY CopiesLeft

\* A trim that is the policy's own stays so: found trims are never forgotten.
LEMMA OwnStays ==
  ASSUME NEW h, OwnTrim(h), tuned \subseteq tuned' PROVE OwnTrim(h)'
BY DEF OwnTrim

LEMMA InstallBegins == InstallAssumption /\ InstallInit => InstallIInv
<1> SUFFICES ASSUME InstallAssumption, InstallInit PROVE InstallIInv
  OBVIOUS
<1>1. PICK b \in Bundles : AuditPasses(b, jointMap, Absent) /\ files = FilesOf(b)
  BY DEF InstallInit
<1>2. /\ jointMap \in Maps /\ handoff = Absent /\ whole = FALSE /\ edits = 0 /\ MaxEdits \in Nat
      /\ install = [bundle |-> Absent, todo |-> <<>>, profile |-> Absent]
      /\ booting.handoff = Absent /\ live.handoff = Absent
  BY DEF InstallInit, Idle, Off, InstallAssumption
<1>3. /\ install.bundle = Absent /\ install.todo = <<>> /\ install.profile = Absent
      /\ DOMAIN install = {"bundle", "todo", "profile"}
  BY <1>2
<1>4. files.yaml = b.yaml /\ files.onnx = b.onnx /\ DOMAIN files = FileNames
  BY <1>1, FilesOfFields
<1>5. InstallTypeOK
  <2>1. \E k \in 0 .. Len(Copies) : install.todo = CopiesAfter(k)
    BY <1>3, CopiesLeft, CopiesFacts
  <2>2. whole \in BOOLEAN
    BY <1>2
  <2>3. edits \in 0 .. MaxEdits
    BY <1>2
  <2> QED
    BY <1>2, <1>3, <1>4, <2>1, <2>2, <2>3, Zenon DEF InstallTypeOK
<1>6. TrimIsOwn
  BY <1>2, <1>3 DEF TrimIsOwn, OwnTrim
<1>7. CopiesInStep
  <2>1. Len(Copies) - 1 = 7
    BY CopiesFacts
  <2> QED
    BY <1>3, <1>4, <2>1, NothingLeft, Zenon DEF CopiesInStep
<1>8. Audited(files.yaml) /\ BootsChecked /\ LiveOfOneExport
  BY <1>1, <1>2, <1>4 DEF Audited, InstallInit, BootsChecked, LiveOfOneExport
<1> QED
  BY <1>2, <1>3, <1>5, <1>6, <1>7, <1>8 DEF InstallIInv, OfBundle

\* The trim of a normalised profile is the one the old profile had for the same policy and
\* the same source pose, or none.
LEMMA OwnTrimIsCarried ==
  ASSUME NEW y, NEW m, NEW j, NEW h,
         h = ProfileOf(y, m, j, Trim(y, j, handoff)), OwnTrim(handoff)
  PROVE  OwnTrim(h)
<1>1. /\ h.task = y.task /\ h.sha = y.sha /\ h.source = j.pose
      /\ h.trim = Trim(y, j, handoff)
  BY ProfileFields
<1>2. CASE KeepsTrim(y, j, handoff)
  <2>1. /\ handoff # Absent /\ handoff.task = h.task /\ handoff.sha = h.sha
        /\ handoff.source = h.source /\ handoff.trim = h.trim
    BY <1>1, <1>2 DEF Trim, KeepsTrim
  <2> QED
    BY <2>1 DEF OwnTrim
<1>3. CASE ~KeepsTrim(y, j, handoff)
  <2>1. \A i \in Index : h.trim[i] = 0
    BY <1>1, <1>3 DEF Trim
  <2> QED
    BY <2>1 DEF OwnTrim
<1> QED
  BY <1>2, <1>3

\* TrimIsOwn is kept by every step, given the shape of a running installation and of a
\* starting node.
LEMMA TrimStaysOwn ==
  ASSUME TrimIsOwn, DOMAIN install = {"bundle", "todo", "profile"}, BootsChecked,
         [InstallNext]_installVars
  PROVE  TrimIsOwn'
<1>1. /\ OwnTrim(handoff) /\ OwnTrim(install.profile)
      /\ OwnTrim(booting.handoff) /\ OwnTrim(live.handoff)
  BY DEF TrimIsOwn
<1>2. OwnTrim(Absent) /\ OwnTrim(Absent)'
  BY DEF OwnTrim
<1> SUFFICES /\ OwnTrim(handoff)' /\ OwnTrim(install.profile)'
             /\ OwnTrim(booting.handoff)' /\ OwnTrim(live.handoff)'
  BY DEF TrimIsOwn
<1>3. ASSUME NEW b \in Bundles, StartInstall(b)
      PROVE  OwnTrim(install.profile)' /\ UNCHANGED <<handoff, booting, live, tuned>>
  <2>1. install'.profile = Absent
        \/ install'.profile = ProfileOf(b.yaml, jointMap, b.json, Trim(b.yaml, b.json, handoff))
    BY <1>3 DEF StartInstall
  <2>2. UNCHANGED <<handoff, booting, live, tuned>>
    BY <1>3 DEF StartInstall
  <2> QED
    BY <1>1, <1>2, <2>1, <2>2, OwnTrimIsCarried DEF OwnTrim
<1>4. ASSUME CopyFile \/ CopyHandoff \/ InstallDies
      PROVE  /\ UNCHANGED <<booting, live, tuned>> /\ install'.profile \in {install.profile, Absent}
             /\ handoff' \in {handoff, install.profile}
  BY <1>4 DEF CopyFile, CopyHandoff, InstallDies, Idle
<1>5. ASSUME NEW trim \in Trims, TuneTrim(trim)
      PROVE  OwnTrim(handoff)' /\ UNCHANGED <<install, booting, live>> /\ tuned \subseteq tuned'
  <2>1. /\ handoff'.task = handoff.task /\ handoff'.sha = handoff.sha
        /\ handoff'.source = handoff.source /\ handoff'.trim = trim
    BY <1>5, ProfileFields DEF TuneTrim
  <2>2. [task |-> handoff.task, sha |-> handoff.sha, source |-> handoff.source, trim |-> trim] \in tuned'
    BY <1>5 DEF TuneTrim
  <2>3. UNCHANGED <<install, booting, live>> /\ tuned \subseteq tuned'
    BY <1>5 DEF TuneTrim
  <2> QED
    BY <2>1, <2>2, <2>3 DEF OwnTrim
<1>6. ASSUME ChangeMap \/ StartNode \/ LoadModel \/ StopNode
             \/ UNCHANGED installVars
      PROVE  /\ UNCHANGED <<handoff, install, tuned>>
             /\ booting'.handoff \in {booting.handoff, handoff, Absent}
             /\ live'.handoff \in {live.handoff, booting.handoff, Absent}
  <2>1. CASE LoadModel
    <3>1. booting # Off /\ booting' = Off /\ UNCHANGED <<handoff, install, tuned>>
          /\ live' \in {[booting EXCEPT !.onnx = files.onnx], Off}
      BY <2>1 DEF LoadModel
    <3>2. [booting EXCEPT !.onnx = files.onnx].handoff = booting.handoff /\ Off.handoff = Absent
      BY <3>1 DEF BootsChecked, Off
    <3> QED
      BY <3>1, <3>2
  <2>2. CASE ChangeMap \/ StartNode \/ StopNode \/ UNCHANGED installVars
    BY <2>2 DEF ChangeMap, StartNode, StopNode, Off, installVars
  <2> QED
    BY <1>6, <2>1, <2>2
<1>7. CASE \E b \in Bundles : StartInstall(b)
  BY <1>1, <1>3, <1>7 DEF OwnTrim
<1>8. CASE CopyFile \/ CopyHandoff \/ InstallDies
  BY <1>1, <1>2, <1>4, <1>8 DEF OwnTrim
<1>9. CASE \E trim \in Trims : TuneTrim(trim)
  BY <1>1, <1>5, <1>9 DEF OwnTrim
<1>10. CASE ChangeMap \/ StartNode \/ LoadModel \/ StopNode
            \/ UNCHANGED installVars
  BY <1>1, <1>2, <1>6, <1>10 DEF OwnTrim
<1> QED
  BY <1>7, <1>8, <1>9, <1>10 DEF InstallNext

\* What a running installation, n copies in, may rely on.
InStep(n, ins, f, m) ==
  /\ ins.bundle \in Bundles /\ AuditPasses(ins.bundle, m, Absent)
  /\ \A i \in 1 .. n : f[Copies[i]] = SourceOf(ins.bundle, Copies[i])
  /\ ins.profile # Absent =>
       /\ HandoffOK(ins.bundle.yaml, m, ins.profile)
       /\ NodeTakesHandoff(ins.bundle.yaml, m, ins.profile)

LEMMA CopiesUnfolded ==
  CopiesInStep <=>
    /\ DOMAIN files = FileNames /\ DOMAIN install = {"bundle", "todo", "profile"}
    /\ \A k \in 0 .. 7 : install.todo = CopiesAfter(k) =>
                           ~whole /\ InStep(k, install, files, jointMap)
<1>1. Len(Copies) - 1 = 7
  BY CopiesFacts
<1> QED
  BY <1>1, Zenon DEF CopiesInStep, InStep

LEMMA CopiesUnfoldedNext ==
  CopiesInStep' <=>
    /\ DOMAIN files' = FileNames /\ DOMAIN install' = {"bundle", "todo", "profile"}
    /\ \A k \in 0 .. 7 : install'.todo = CopiesAfter(k) =>
                           ~whole' /\ InStep(k, install', files', jointMap')
<1>1. Len(Copies) - 1 = 7
  BY CopiesFacts
<1> QED
  BY <1>1, Zenon DEF CopiesInStep, InStep

LEMMA TypeUnfolded ==
  InstallTypeOK' <=>
    /\ files'.yaml \in {b.yaml : b \in Bundles} /\ files'.onnx \in {b.onnx : b \in Bundles}
    /\ jointMap' \in Maps /\ whole' \in BOOLEAN /\ edits' \in 0 .. MaxEdits
    /\ install'.bundle \in Bundles \cup {Absent}
    /\ \E k \in 0 .. 8 : install'.todo = CopiesAfter(k)
BY CopiesFacts, Zenon DEF InstallTypeOK

\* What the node has read and drives on, and what is there to read.
NodeSound == Audited(files.yaml) /\ BootsChecked /\ LiveOfOneExport

\* A model of the checksum that an audited policy names is that policy's model.
LEMMA ModelOfPolicy ==
  ASSUME InstallAssumption, NEW b \in Bundles, NEW c \in Bundles, NEW m, NEW n, NEW h,
         AuditPasses(b, m, Absent), NodeTakesConfig(b.yaml, n, h),
         NodeTakesModel(b.yaml, c.onnx)
  PROVE  c.onnx = b.onnx /\ AuditPasses(b, n, Absent)
<1>1. b.onnx # Absent /\ b.onnx.id = b.yaml.sha /\ c.onnx # Absent
  BY DEF AuditPasses, NodeTakesModel
<1>2. b.onnx.id # Absent
  BY <1>1 DEF InstallAssumption
<1>3. c.onnx.id = b.onnx.id
  BY <1>1, <1>2 DEF NodeTakesModel
<1>4. c.onnx = b.onnx
  BY <1>1, <1>3 DEF InstallAssumption
<1>5. AuditPasses(b, n, Absent)
  BY NodeMapServesAudit DEF NodeTakesConfig
<1> QED
  BY <1>4, <1>5

LEMMA NodeStaysSound ==
  ASSUME InstallAssumption, InstallIInv, [InstallNext]_installVars
  PROVE  NodeSound'
<1>1. /\ InstallTypeOK /\ CopiesInStep /\ OfBundle(handoff)
      /\ Audited(files.yaml) /\ BootsChecked /\ LiveOfOneExport
  BY DEF InstallIInv
<1>2. Off.yaml = Absent /\ Off = [yaml |-> Absent, map |-> Absent, handoff |-> Absent, onnx |-> Absent]
  BY DEF Off
<1>3. ASSUME \/ \E b \in Bundles : StartInstall(b)
             \/ CopyHandoff \/ InstallDies \/ ChangeMap
             \/ \E trim \in Trims : TuneTrim(trim)
             \/ UNCHANGED installVars
      PROVE  NodeSound'
  <2>1. UNCHANGED <<files, booting, live>>
    BY <1>3 DEF StartInstall, CopyHandoff, InstallDies, ChangeMap, TuneTrim, installVars
  <2> QED
    BY <1>1, <2>1 DEF NodeSound, Audited, BootsChecked, LiveOfOneExport
<1>4. ASSUME CopyFile PROVE NodeSound'
  <2>1. UNCHANGED <<jointMap, booting, live>>
    BY <1>4 DEF CopyFile
  <2>2. \/ files'.yaml = files.yaml
        \/ files'.yaml = install.bundle.yaml
    <3>1. /\ DOMAIN files = FileNames
          /\ files' = [files EXCEPT ![Head(install.todo)] = SourceOf(install.bundle, Head(install.todo))]
      BY <1>1, <1>4 DEF CopyFile, CopiesInStep
    <3>2. CASE Head(install.todo) = "yaml"
      BY <3>1, <3>2 DEF SourceOf, FileNames
    <3>3. CASE Head(install.todo) # "yaml"
      BY <3>1, <3>3
    <3> QED
      BY <3>2, <3>3
  <2>3. install.bundle \in Bundles /\ AuditPasses(install.bundle, jointMap, Absent)
    <3>1. PICK k \in 0 .. 8 : install.todo = CopiesAfter(k)
      BY <1>1, CopiesFacts DEF InstallTypeOK
    <3>2. k # 8
      BY <1>4, <3>1, CopiesLeft DEF CopyFile
    <3>3. k \in 0 .. 7
      BY <3>2
    <3> QED
      BY <1>1, <3>1, <3>3, CopiesUnfolded, Zenon DEF InStep
  <2>4. Audited(files'.yaml)
    BY <1>1, <2>2, <2>3 DEF Audited, InstallTypeOK
  <2> QED
    BY <1>1, <2>1, <2>4 DEF NodeSound, Audited, BootsChecked, LiveOfOneExport
<1>5. ASSUME StartNode PROVE NodeSound'
  <2>1. /\ NodeTakesConfig(files.yaml, jointMap, handoff) /\ UNCHANGED <<files, live>>
        /\ booting' = [yaml |-> files.yaml, map |-> jointMap, handoff |-> handoff, onnx |-> Absent]
    BY <1>5 DEF StartNode
  <2>2. booting'.yaml = files.yaml /\ booting'.map = jointMap /\ booting'.handoff = handoff
    BY <2>1
  <2>3. OfBundle(booting.handoff)'
    BY <1>1, <2>2 DEF OfBundle
  <2>4. DOMAIN booting' = DOMAIN Off
    BY <1>2, <2>1
  <2>5. BootsChecked'
    BY <1>1, <2>1, <2>2, <2>3, <2>4 DEF BootsChecked, Audited
  <2> QED
    BY <1>1, <2>1, <2>5 DEF NodeSound, Audited, LiveOfOneExport
<1>6. ASSUME LoadModel PROVE NodeSound'
  <2>1. /\ booting # Off /\ booting' = Off /\ UNCHANGED files
        /\ live' = IF NodeTakesModel(booting.yaml, files.onnx)
                   THEN [booting EXCEPT !.onnx = files.onnx] ELSE Off
    BY <1>6 DEF LoadModel
  <2>2. BootsChecked'
    BY <2>1 DEF BootsChecked, Off
  <2>3. CASE ~NodeTakesModel(booting.yaml, files.onnx)
    <3>1. live' = Off
      BY <2>1, <2>3
    <3> QED
      BY <1>1, <2>1, <2>2, <3>1 DEF NodeSound, Audited, LiveOfOneExport, Off
  <2>4. CASE NodeTakesModel(booting.yaml, files.onnx)
    <3>1. /\ live'.yaml = booting.yaml /\ live'.map = booting.map
          /\ live'.handoff = booting.handoff /\ live'.onnx = files.onnx
      BY <1>1, <1>2, <2>1, <2>4 DEF BootsChecked
    <3>2. /\ Audited(booting.yaml) /\ OfBundle(booting.handoff)
          /\ NodeTakesConfig(booting.yaml, booting.map, booting.handoff)
      BY <1>1, <2>1 DEF BootsChecked
    <3>3. PICK b \in Bundles, m \in Maps : AuditPasses(b, m, Absent) /\ booting.yaml = b.yaml
      BY <3>2 DEF Audited
    <3>4. PICK c \in Bundles : files.onnx = c.onnx
      BY <1>1 DEF InstallTypeOK
    <3>5. c.onnx = b.onnx /\ AuditPasses(b, booting.map, Absent)
      BY <2>4, <3>2, <3>3, <3>4, ModelOfPolicy
    <3>6. booting.yaml.role = "locomotion" =>
            \E d \in Bundles :
              /\ d.json # Absent /\ d.yaml.task = booting.yaml.task /\ d.yaml.sha = booting.yaml.sha
              /\ booting.handoff.source = d.json.pose /\ booting.handoff.previous = d.json.previous
      <4> SUFFICES ASSUME booting.yaml.role = "locomotion"
                   PROVE  \E d \in Bundles :
                            /\ d.json # Absent /\ d.yaml.task = booting.yaml.task
                            /\ d.yaml.sha = booting.yaml.sha
                            /\ booting.handoff.source = d.json.pose
                            /\ booting.handoff.previous = d.json.previous
        OBVIOUS
      <4>1. /\ booting.handoff # Absent /\ booting.handoff.task = booting.yaml.task
            /\ booting.handoff.sha = booting.yaml.sha
        BY <3>2 DEF NodeTakesConfig, NodeTakesHandoff
      <4>2. PICK d \in Bundles :
              /\ d.json # Absent /\ booting.handoff.task = d.yaml.task
              /\ booting.handoff.sha = d.yaml.sha /\ booting.handoff.source = d.json.pose
              /\ booting.handoff.previous = d.json.previous
        BY <3>2, <4>1 DEF OfBundle
      <4> QED
        BY <4>1, <4>2
    <3>7. LiveOfOneExport'
      BY <3>1, <3>3, <3>4, <3>5, <3>6 DEF LiveOfOneExport
    <3> QED
      BY <1>1, <2>1, <2>2, <3>7 DEF NodeSound, Audited
  <2> QED
    BY <2>3, <2>4
<1>7. ASSUME StopNode PROVE NodeSound'
  BY <1>1, <1>7 DEF StopNode, NodeSound, Audited, BootsChecked, LiveOfOneExport, Off
<1> QED
  BY <1>3, <1>4, <1>5, <1>6, <1>7 DEF InstallNext

LEMMA StartInstallKeeps ==
  ASSUME InstallAssumption, InstallIInv, TrimIsOwn', NodeSound',
         NEW b \in Bundles, StartInstall(b)
  PROVE  InstallIInv'
<1>1. /\ AuditPasses(b, jointMap, Absent) /\ whole' = FALSE /\ edits' = edits + 1
      /\ edits < MaxEdits /\ UNCHANGED <<files, handoff, jointMap>>
      /\ b.json # Absent => Normalizable(b.yaml, jointMap, b.json, handoff)
  BY DEF StartInstall
<1>2. /\ install'.bundle = b /\ install'.todo = Copies
      /\ DOMAIN install' = {"bundle", "todo", "profile"}
      /\ install'.profile = IF b.json = Absent THEN Absent
                            ELSE ProfileOf(b.yaml, jointMap, b.json, Trim(b.yaml, b.json, handoff))
  BY DEF StartInstall
<1>3. InstallTypeOK /\ CopiesInStep /\ OfBundle(handoff)
  BY DEF InstallIInv
<1>4. jointMap \in Maps /\ edits \in Nat /\ MaxEdits \in Nat
  BY <1>3 DEF InstallTypeOK, InstallAssumption
<1>5. InstallTypeOK'
  <2>1. edits' \in 0 .. MaxEdits
    BY <1>1, <1>4
  <2>2. \E k \in 0 .. 8 : install'.todo = CopiesAfter(k)
    BY <1>2, CopiesLeft
  <2>3. whole' \in BOOLEAN
    BY <1>1
  <2> QED
    BY <1>1, <1>2, <1>3, <2>1, <2>2, <2>3, TypeUnfolded, Zenon DEF InstallTypeOK
<1>6. install'.profile # Absent =>
        /\ b.json # Absent /\ b.json.pose \in [Index -> Int]
        /\ Trim(b.yaml, b.json, handoff) \in [Index -> Int]
        /\ install'.profile = ProfileOf(b.yaml, jointMap, b.json, Trim(b.yaml, b.json, handoff))
  <2>1. Trim(b.yaml, b.json, handoff) \in [Index -> Int]
    BY <1>3 DEF Trim, KeepsTrim, OfBundle
  <2> QED
    BY <1>2, <2>1 DEF InstallAssumption
<1>7. OfBundle(install.profile)'
  BY <1>6, ProfileFields DEF OfBundle
<1>8. install'.profile # Absent =>
        /\ HandoffOK(b.yaml, jointMap, install'.profile)
        /\ NodeTakesHandoff(b.yaml, jointMap, install'.profile)
  <2> SUFFICES ASSUME install'.profile # Absent
               PROVE  /\ HandoffOK(b.yaml, jointMap, install'.profile)
                      /\ NodeTakesHandoff(b.yaml, jointMap, install'.profile)
    OBVIOUS
  <2>1. \A i \in Index : -100 <= b.json.previous[i] /\ b.json.previous[i] <= 100
    BY <1>1, <1>6 DEF Normalizable
  <2>2. /\ jointMap.lower \in [Index -> Int] /\ jointMap.upper \in [Index -> Int]
        /\ \A i \in Index : jointMap.lower[i] <= jointMap.upper[i]
    BY <1>4 DEF InstallAssumption
  <2> QED
    BY <1>6, <2>1, <2>2, ProfileServes, Zenon
<1>9. CopiesInStep'
  <2>1. ASSUME NEW k \in 0 .. 7, install'.todo = CopiesAfter(k)
        PROVE  InStep(k, install', files', jointMap')
    <3>1. k = 0
      <4>1. k \in 0 .. 8 /\ 0 \in 0 .. 8
        OBVIOUS
      <4> QED
        BY <1>2, <2>1, <4>1, CopiesLeft, Zenon
    <3> QED
      BY <1>1, <1>2, <1>8, <3>1 DEF InStep
  <2> QED
    BY <1>1, <1>2, <1>3, <2>1, CopiesUnfolded, CopiesUnfoldedNext
<1>10. OfBundle(handoff)'
  BY <1>1, <1>3 DEF OfBundle
<1> QED
  BY <1>1, <1>5, <1>7, <1>9, <1>10 DEF InstallIInv, NodeSound

LEMMA CopyFileKeeps ==
  ASSUME InstallIInv, TrimIsOwn', NodeSound', CopyFile
  PROVE  InstallIInv'
<1>1. InstallTypeOK /\ CopiesInStep /\ OfBundle(handoff) /\ OfBundle(install.profile)
  BY DEF InstallIInv
<1>2. /\ DOMAIN files = FileNames /\ DOMAIN install = {"bundle", "todo", "profile"}
      /\ \A k \in 0 .. 7 : install.todo = CopiesAfter(k) =>
                             ~whole /\ InStep(k, install, files, jointMap)
  BY <1>1, CopiesUnfolded
<1>3. /\ install.todo # <<>> /\ Head(install.todo) # "handoff"
      /\ UNCHANGED <<handoff, jointMap, whole, edits>>
      /\ files' = [files EXCEPT ![Head(install.todo)] = SourceOf(install.bundle, Head(install.todo))]
      /\ install' = [install EXCEPT !.todo = Tail(@)]
  BY DEF CopyFile
<1>4. /\ install'.bundle = install.bundle /\ install'.profile = install.profile
      /\ install'.todo = Tail(install.todo) /\ DOMAIN install' = {"bundle", "todo", "profile"}
  BY <1>2, <1>3
<1>5. PICK n \in 0 .. 6 : install.todo = CopiesAfter(n)
  <2>1. PICK n \in 0 .. 8 : install.todo = CopiesAfter(n)
    BY <1>1, CopiesFacts DEF InstallTypeOK
  <2>2. n # 8
    BY <1>3, <2>1, CopiesLeft
  <2>3. n # 7
    <3>1. 7 \in 0 .. 7 /\ 7 + 1 = 8
      OBVIOUS
    <3> QED
      BY <1>3, <2>1, <3>1, CopiesLeft, CopiesFacts
  <2>4. n \in 0 .. 6
    BY <2>2, <2>3
  <2> QED
    BY <2>1, <2>4
<1>6. /\ n \in 0 .. 7 /\ n + 1 \in 0 .. 8 /\ n + 1 \in 1 .. 7 /\ n + 1 \in 0 .. 7
      /\ \A i \in 1 .. n + 1 : i \in 1 .. 7 /\ (i \in 1 .. n \/ i = n + 1)
  OBVIOUS
<1>7. /\ Head(install.todo) = Copies[n + 1] /\ install'.todo = CopiesAfter(n + 1)
      /\ Copies[n + 1] \in FileNames
  BY <1>4, <1>5, <1>6, CopiesLeft, CopiesFacts, Zenon
<1>8. ~whole /\ InStep(n, install, files, jointMap)
  BY <1>2, <1>5, <1>6, Zenon
<1>9. /\ DOMAIN files' = FileNames
      /\ files'[Copies[n + 1]] = SourceOf(install.bundle, Copies[n + 1])
      /\ \A x \in FileNames : files'[x] \in {files[x], SourceOf(install.bundle, x)}
  BY <1>2, <1>3, <1>7
<1>10. InStep(n + 1, install', files', jointMap')
  <2>1. ASSUME NEW i \in 1 .. n + 1
        PROVE  files'[Copies[i]] = SourceOf(install.bundle, Copies[i])
    <3>1. CASE i = n + 1
      BY <1>9, <3>1
    <3>2. CASE i \in 1 .. n
      <4>1. Copies[i] \in FileNames
        BY <1>6, CopiesFacts, Zenon
      <4>2. files[Copies[i]] = SourceOf(install.bundle, Copies[i])
        BY <1>8, <3>2 DEF InStep
      <4> QED
        BY <1>9, <4>1, <4>2
    <3> QED
      BY <1>6, <3>1, <3>2
  <2> QED
    BY <1>3, <1>4, <1>8, <2>1 DEF InStep
<1>11. CopiesInStep'
  <2>1. ASSUME NEW k \in 0 .. 7, install'.todo = CopiesAfter(k)
        PROVE  InStep(k, install', files', jointMap')
    <3>1. k \in 0 .. 8
      OBVIOUS
    <3>2. k = n + 1
      BY <1>6, <1>7, <2>1, <3>1, CopiesLeft, Zenon
    <3> QED
      BY <1>10, <3>2
  <2> QED
    BY <1>3, <1>4, <1>8, <1>9, <2>1, CopiesUnfoldedNext
<1>12. InstallTypeOK'
  <2>1. install.bundle \in Bundles
    BY <1>8 DEF InStep
  <2>2. "yaml" \in FileNames /\ "onnx" \in FileNames
    BY DEF FileNames
  <2>3. files'["yaml"] \in {files["yaml"], install.bundle.yaml} /\ files'["onnx"] \in {files["onnx"], install.bundle.onnx}
    BY <1>9, <2>2 DEF SourceOf
  <2>4. files'.yaml \in {b.yaml : b \in Bundles} /\ files'.onnx \in {b.onnx : b \in Bundles}
    BY <1>1, <2>1, <2>3 DEF InstallTypeOK
  <2> QED
    BY <1>1, <1>3, <1>4, <1>6, <1>7, <2>1, <2>4, TypeUnfolded, Zenon DEF InstallTypeOK
<1>13. OfBundle(handoff)' /\ OfBundle(install.profile)'
  BY <1>1, <1>3, <1>4 DEF OfBundle
<1>14. ~whole'
  BY <1>3, <1>8
<1> QED
  BY <1>11, <1>12, <1>13, <1>14 DEF InstallIInv, NodeSound

LEMMA CopyHandoffKeeps ==
  ASSUME InstallAssumption, InstallIInv, TrimIsOwn', NodeSound', CopyHandoff
  PROVE  InstallIInv'
<1>1. /\ InstallTypeOK /\ CopiesInStep /\ OfBundle(handoff)
      /\ OfBundle(install.profile)
  BY DEF InstallIInv
<1>2. /\ DOMAIN files = FileNames
      /\ \A k \in 0 .. 7 : install.todo = CopiesAfter(k) =>
                             ~whole /\ InStep(k, install, files, jointMap)
  BY <1>1, CopiesUnfolded
<1>3. /\ install.todo = <<"handoff">> /\ UNCHANGED <<files, jointMap, edits>>
      /\ install' = [bundle |-> Absent, todo |-> <<>>, profile |-> Absent]
      /\ handoff' = IF install.profile = Absent THEN handoff ELSE install.profile
      /\ whole' = (install.profile # Absent)
  BY DEF CopyHandoff, Idle
<1>4. /\ install'.bundle = Absent /\ install'.todo = <<>> /\ install'.profile = Absent
      /\ DOMAIN install' = {"bundle", "todo", "profile"}
  BY <1>3
<1>5. InStep(7, install, files, jointMap)
  <2>1. PICK k \in 0 .. 8 : install.todo = CopiesAfter(k)
    BY <1>1, CopiesFacts DEF InstallTypeOK
  <2>2. k = 7
    BY <1>3, <2>1, CopiesLeft, Zenon
  <2>3. 7 \in 0 .. 7
    OBVIOUS
  <2> QED
    BY <1>2, <2>1, <2>2, <2>3, Zenon
<1>6. whole' => Accepted(files', jointMap', handoff')
  <2> SUFFICES ASSUME whole' PROVE Accepted(files', jointMap', handoff')
    OBVIOUS
  <2> DEFINE b == install.bundle
  <2>1. install.profile # Absent /\ handoff' = install.profile
    BY <1>3
  <2>2. /\ AuditPasses(b, jointMap, Absent) /\ HandoffOK(b.yaml, jointMap, handoff')
        /\ NodeTakesHandoff(b.yaml, jointMap, handoff')
        /\ \A i \in 1 .. 7 : files[Copies[i]] = SourceOf(b, Copies[i])
    BY <1>5, <2>1 DEF InStep
  <2>3. /\ files["onnx"] = SourceOf(b, "onnx") /\ files["yaml"] = SourceOf(b, "yaml")
        /\ files["contract"] = SourceOf(b, "contract")
        /\ files["sum"] = SourceOf(b, "sum")
        /\ files["manifest"] = SourceOf(b, "manifest")
    <3>1. /\ Copies[1] = "onnx" /\ Copies[2] = "yaml"
          /\ Copies[4] = "contract" /\ Copies[5] = "sum"
          /\ Copies[6] = "manifest"
      BY DEF Copies
    <3>2. 1 \in 1 .. 7 /\ 2 \in 1 .. 7 /\ 4 \in 1 .. 7 /\ 5 \in 1 .. 7 /\ 6 \in 1 .. 7
      OBVIOUS
    <3> QED
      BY <2>2, <3>1, <3>2, Zenon
  <2>4. /\ files.onnx = b.onnx /\ files.yaml = b.yaml /\ files.contract = b.contract
        /\ files.sum = b.sum /\ files.manifest = b.manifest
    BY <2>3 DEF SourceOf
  <2>5. files.onnx # Absent /\ files.onnx.id # Absent
    BY <1>1, <2>2, <2>4 DEF InstallTypeOK, InstallAssumption, AuditPasses
  <2> HIDE DEF b
  <2>6. AuditPasses(files, jointMap, handoff')
    BY <2>2, <2>4, AuditOfCopies
  <2> QED
    BY <1>3, <2>2, <2>4, <2>5, <2>6, AuditLeavesToNode
<1>7. InstallTypeOK'
  <2>1. \E k \in 0 .. 8 : install'.todo = CopiesAfter(k)
    BY <1>4, CopiesLeft
  <2>2. whole' \in BOOLEAN
    BY <1>3
  <2> QED
    BY <1>1, <1>3, <1>4, <2>1, <2>2, TypeUnfolded, Zenon DEF InstallTypeOK
<1>8. CopiesInStep'
  <2>1. \A k \in 0 .. 7 : install'.todo # CopiesAfter(k)
    BY <1>4, CopiesLeft
  <2> QED
    BY <1>2, <1>3, <1>4, <2>1, CopiesUnfoldedNext
<1>9. OfBundle(handoff)' /\ OfBundle(install.profile)'
  BY <1>1, <1>3, <1>4 DEF OfBundle
<1> QED
  BY <1>6, <1>7, <1>8, <1>9 DEF InstallIInv, NodeSound

LEMMA InstallDiesKeeps ==
  ASSUME InstallIInv, TrimIsOwn', NodeSound', InstallDies
  PROVE  InstallIInv'
<1>1. /\ InstallTypeOK /\ CopiesInStep /\ OfBundle(handoff)
      /\ whole => Accepted(files, jointMap, handoff)
  BY DEF InstallIInv
<1>2. /\ UNCHANGED <<files, handoff, jointMap, whole, edits>>
      /\ install' = [bundle |-> Absent, todo |-> <<>>, profile |-> Absent]
  BY DEF InstallDies, Idle
<1>3. /\ install'.bundle = Absent /\ install'.todo = <<>> /\ install'.profile = Absent
      /\ DOMAIN install' = {"bundle", "todo", "profile"}
  BY <1>2
<1>4. InstallTypeOK'
  <2>1. \E k \in 0 .. 8 : install'.todo = CopiesAfter(k)
    BY <1>3, CopiesLeft
  <2> QED
    BY <1>1, <1>2, <1>3, <2>1, TypeUnfolded, Zenon DEF InstallTypeOK
<1>5. CopiesInStep'
  <2>1. \A k \in 0 .. 7 : install'.todo # CopiesAfter(k)
    BY <1>3, CopiesLeft
  <2> QED
    BY <1>1, <1>2, <1>3, <2>1, CopiesUnfolded, CopiesUnfoldedNext
<1>6. OfBundle(handoff)' /\ OfBundle(install.profile)'
  BY <1>1, <1>2, <1>3 DEF OfBundle
<1>7. whole' => Accepted(files', jointMap', handoff')
  BY <1>1, <1>2
<1> QED
  BY <1>4, <1>5, <1>6, <1>7 DEF InstallIInv, NodeSound

LEMMA TuneTrimKeeps ==
  ASSUME InstallAssumption, InstallIInv, TrimIsOwn', NodeSound',
         NEW trim \in Trims, TuneTrim(trim)
  PROVE  InstallIInv'
<1>1. /\ InstallTypeOK /\ CopiesInStep /\ OfBundle(handoff)
      /\ OfBundle(install.profile)
      /\ whole => Accepted(files, jointMap, handoff)
  BY DEF InstallIInv
<1>2. /\ handoff # Absent /\ handoff.task = files.yaml.task /\ handoff.sha = files.yaml.sha
      /\ edits < MaxEdits /\ edits' = edits + 1
      /\ UNCHANGED <<files, jointMap, install, whole>>
      /\ handoff' = ProfileOf([task |-> handoff.task, sha |-> handoff.sha], jointMap,
                                      [pose |-> handoff.source, previous |-> handoff.previous], trim)
  BY DEF TuneTrim
<1>3. PICK b \in Bundles : /\ b.json # Absent /\ handoff.task = b.yaml.task /\ handoff.sha = b.yaml.sha
                           /\ handoff.source = b.json.pose /\ handoff.previous = b.json.previous
  BY <1>1, <1>2 DEF OfBundle
<1>4. /\ jointMap \in Maps /\ b.json.pose \in [Index -> Int] /\ trim \in [Index -> Int]
      /\ jointMap.lower \in [Index -> Int] /\ jointMap.upper \in [Index -> Int]
      /\ \A i \in Index : jointMap.lower[i] <= jointMap.upper[i]
      /\ ProfileOf(b.yaml, jointMap, b.json, trim) # Absent
  BY <1>1, <1>3 DEF InstallTypeOK, InstallAssumption
<1>5. handoff' = ProfileOf(b.yaml, jointMap, b.json, trim)
  <2> DEFINE z == [task |-> handoff.task, sha |-> handoff.sha]
             l == [pose |-> handoff.source, previous |-> handoff.previous]
  <2>1. z.task = b.yaml.task /\ z.sha = b.yaml.sha /\ l.pose = b.json.pose /\ l.previous = b.json.previous
    BY <1>3
  <2>2. handoff' = ProfileOf(z, jointMap, l, trim)
    BY <1>2
  <2> HIDE DEF z, l
  <2> QED
    BY <2>1, <2>2, SameProfile
<1>6. OfBundle(handoff)'
  BY <1>3, <1>4, <1>5, ProfileFields DEF OfBundle
<1>7. whole' => Accepted(files', jointMap', handoff')
  <2> SUFFICES ASSUME whole PROVE Accepted(files, jointMap, handoff')
    BY <1>2
  <2>1. /\ AuditPasses(files, jointMap, handoff)
        /\ files.onnx # Absent /\ files.onnx.id # Absent
    BY <1>1 DEF Accepted, AuditPasses, InstallTypeOK, InstallAssumption
  <2>2. files.yaml.role = "locomotion" =>
          \A i \in Index : -100 <= b.json.previous[i] /\ b.json.previous[i] <= 100
    BY <1>2, <1>3, <2>1 DEF AuditPasses, HandoffOK
  <2>3. b.yaml.task = files.yaml.task /\ b.yaml.sha = files.yaml.sha /\ handoff' # Absent
    BY <1>2, <1>3, <1>4, <1>5
  <2>4. HandoffOK(files.yaml, jointMap, handoff') /\ NodeTakesHandoff(files.yaml, jointMap, handoff')
    BY <1>4, <1>5, <2>1, <2>2, <2>3, ProfileServes, Zenon
  <2>5. AuditPasses(files, jointMap, handoff')
    BY <2>1, <2>4 DEF AuditPasses
  <2> QED
    BY <2>1, <2>4, <2>5, AuditLeavesToNode
<1>8. InstallTypeOK'
  <2>1. edits' \in 0 .. MaxEdits
    BY <1>1, <1>2 DEF InstallTypeOK, InstallAssumption
  <2>2. \E k \in 0 .. 8 : install'.todo = CopiesAfter(k)
    BY <1>1, <1>2, CopiesFacts DEF InstallTypeOK
  <2> QED
    BY <1>1, <1>2, <2>1, <2>2, TypeUnfolded, Zenon DEF InstallTypeOK
<1>9. CopiesInStep' /\ OfBundle(install.profile)'
  BY <1>1, <1>2, CopiesUnfolded, CopiesUnfoldedNext DEF OfBundle
<1> QED
  BY <1>6, <1>7, <1>8, <1>9 DEF InstallIInv, NodeSound

LEMMA ChangeMapKeeps ==
  ASSUME InstallAssumption, InstallIInv, TrimIsOwn', NodeSound', ChangeMap
  PROVE  InstallIInv'
<1>1. /\ InstallTypeOK /\ CopiesInStep /\ OfBundle(handoff)
      /\ OfBundle(install.profile)
  BY DEF InstallIInv
<1>2. /\ install = Idle /\ edits < MaxEdits /\ edits' = edits + 1 /\ whole' = FALSE
      /\ jointMap' \in Maps /\ UNCHANGED <<files, handoff, install>>
  BY DEF ChangeMap
<1>3. install'.todo = <<>> /\ install' = install
  BY <1>2 DEF Idle
<1>4. InstallTypeOK'
  <2>1. edits' \in 0 .. MaxEdits
    BY <1>1, <1>2 DEF InstallTypeOK, InstallAssumption
  <2>2. \E k \in 0 .. 8 : install'.todo = CopiesAfter(k)
    BY <1>3, CopiesLeft
  <2>3. whole' \in BOOLEAN
    BY <1>2
  <2> QED
    BY <1>1, <1>2, <2>1, <2>2, <2>3, TypeUnfolded, Zenon DEF InstallTypeOK
<1>5. CopiesInStep'
  <2>1. \A k \in 0 .. 7 : install'.todo # CopiesAfter(k)
    BY <1>3, CopiesLeft
  <2> QED
    BY <1>1, <1>2, <1>3, <2>1, CopiesUnfolded, CopiesUnfoldedNext
<1>6. OfBundle(handoff)' /\ OfBundle(install.profile)'
  BY <1>1, <1>2 DEF OfBundle
<1> QED
  BY <1>2, <1>4, <1>5, <1>6 DEF InstallIInv, NodeSound

\* The node only reads, and what it has loaded is nobody else's.
LEMMA NodeKeeps ==
  ASSUME InstallIInv, TrimIsOwn', NodeSound',
         StartNode \/ LoadModel \/ StopNode \/ UNCHANGED installVars
  PROVE  InstallIInv'
<1>1. UNCHANGED <<files, handoff, jointMap, install, tuned, whole, edits>>
  BY DEF StartNode, LoadModel, StopNode, installVars
<1>2. /\ InstallTypeOK /\ CopiesInStep /\ OfBundle(handoff)
      /\ OfBundle(install.profile)
      /\ whole => Accepted(files, jointMap, handoff)
  BY DEF InstallIInv
<1>3. InstallTypeOK' /\ CopiesInStep'
  BY <1>1, <1>2 DEF InstallTypeOK, CopiesInStep
<1>4. OfBundle(handoff)' /\ OfBundle(install.profile)'
  BY <1>1, <1>2 DEF OfBundle
<1>5. whole' => Accepted(files', jointMap', handoff')
  BY <1>1, <1>2
<1> QED
  BY <1>3, <1>4, <1>5 DEF InstallIInv, NodeSound

\* A running installation is always of an audited bundle whose first copies are in place,
\* the profile it will write is of an exported handoff and is one audit and node take with
\* that bundle, and what the node has read was audited and has passed its own checks.
THEOREM InstallInvariance == InstallSpec => []InstallIInv
<1>1. ASSUME InstallAssumption PROVE InstallSpec => []InstallIInv
  <2>1. InstallInit => InstallIInv
    BY <1>1, InstallBegins
  <2>2. InstallIInv /\ [InstallNext]_installVars => InstallIInv'
    <3> SUFFICES ASSUME InstallIInv, [InstallNext]_installVars PROVE InstallIInv'
      OBVIOUS
    <3>1. TrimIsOwn'
      BY TrimStaysOwn, CopiesUnfolded DEF InstallIInv
    <3>2. NodeSound'
      BY <1>1, NodeStaysSound
    <3>3. CASE \E b \in Bundles : StartInstall(b)
      BY <1>1, <3>1, <3>2, <3>3, StartInstallKeeps
    <3>4. CASE CopyFile
      BY <3>1, <3>2, <3>4, CopyFileKeeps
    <3>5. CASE CopyHandoff
      BY <1>1, <3>1, <3>2, <3>5, CopyHandoffKeeps
    <3>6. CASE InstallDies
      BY <3>1, <3>2, <3>6, InstallDiesKeeps
    <3>7. CASE \E trim \in Trims : TuneTrim(trim)
      BY <1>1, <3>1, <3>2, <3>7, TuneTrimKeeps
    <3>8. CASE ChangeMap
      BY <1>1, <3>1, <3>2, <3>8, ChangeMapKeeps
    <3>9. CASE \/ StartNode \/ LoadModel \/ StopNode
               \/ UNCHANGED installVars
      BY <3>1, <3>2, <3>9, NodeKeeps
    <3> QED
      BY <3>3, <3>4, <3>5, <3>6, <3>7, <3>8, <3>9 DEF InstallNext
  <2> QED
    BY <2>1, <2>2, PTL DEF InstallSpec
<1> QED
  BY <1>1, InstallAssumption DEF InstallAssumption

\* What the installer finished writing, with a handoff, passes the audit and its handoff
\* serves the node, whatever trim an operator finds on the robot afterwards; the node starts
\* on it exactly when the demands are met that only the node makes.
THEOREM FinishedUpToNodeRules == InstallSpec => []InstallInv
<1>1. InstallIInv => InstallInv
  BY DEF InstallIInv, InstallInv
<1> QED
  BY <1>1, InstallInvariance, PTL

\* A live node has the policy and the model of one export that passes the audit on the
\* joint map the node has read, and a handoff of an export of that model, whatever files
\* installations that died have left and whatever was replaced while the node started.
THEOREM LiveNodeOfOneExport == InstallSpec => []LiveOfOneExport
<1>1. InstallIInv => LiveOfOneExport
  BY DEF InstallIInv
<1> QED
  BY <1>1, InstallInvariance, PTL

\* No trim is carried to another policy or to another source pose, neither in the profile
\* nor in a running node, however many installations die half way.
THEOREM TrimStays == InstallSpec => []TrimIsOwn
<1>1. InstallIInv => TrimIsOwn
  BY DEF InstallIInv
<1> QED
  BY <1>1, InstallInvariance, PTL

-----------------------------------------------------------------------------
(* The policy node.                                                        *)

USE SetupAssumption, OptionAssumption, TimeAssumption, PhaseAssumption

-----------------------------------------------------------------------------
(* Helpers of the gait phase.                                              *)

\* A swing starts inside the period.
LEMMA StartInPhase == ASSUME NEW left \in BOOLEAN PROVE Start(left) \in Phase
  BY DEF Start, Phase

\* The phase wraps inside the period.
LEMMA LaterInPhase == ASSUME NEW p \in Phase PROVE Later(p) \in Phase
  BY DEF Later, Phase

\* An age never passes its limit by more than one.
LEMMA OlderBounded ==
  ASSUME NEW limit \in Nat, NEW age \in 0 .. limit + 1
  PROVE  /\ Older(age, limit) \in 0 .. limit + 1
         /\ age > limit => Older(age, limit) > limit
  BY DEF Older

\* An inference is given a phase of the period.
LEMMA SampleType ==
  ASSUME TypeOK, NEW c
  PROVE  Sample(c) \in [phase : Phase, moving : BOOLEAN, left : BOOLEAN]
<1>1. /\ phase \in Phase /\ moving \in BOOLEAN /\ nextLeft \in BOOLEAN
      /\ activeLeft \in BOOLEAN
  BY DEF TypeOK
<1>2. Start(nextLeft) \in Phase
  BY <1>1, StartInPhase
<1>3. 0 \in Phase
  BY DEF Phase
<1> QED  BY <1>1, <1>2, <1>3 DEF Sample

\* The drawn phase of an episode is one of the period.
LEMMA EpisodeType ==
  ASSUME TypeOK, BeginEpisode
  PROVE  /\ phase' \in Phase /\ {moving', nextLeft', activeLeft'} \subseteq BOOLEAN
         /\ seen' \in [phase : Phase, moving : BOOLEAN, left : BOOLEAN]
         /\ lastFoot' \in {"none", "left", "right"}
<1>1. phase' \in Phase
  BY DEF BeginEpisode, Phase
<1> QED  BY <1>1 DEF BeginEpisode

\* A successful tick leaves a phase of the period.
LEMMA AdvanceType ==
  ASSUME TypeOK, NEW c, AdvancePhase(c)
  PROVE  phase' \in Phase /\ {moving', nextLeft', activeLeft'} \subseteq BOOLEAN
<1>1. /\ phase \in Phase /\ moving \in BOOLEAN /\ nextLeft \in BOOLEAN
      /\ activeLeft \in BOOLEAN
  BY DEF TypeOK
<1>2. Start(nextLeft) \in Phase /\ Later(phase) \in Phase /\ 0 \in Phase
  BY <1>1, StartInPhase, LaterInPhase DEF Phase
<1> QED  BY <1>1, <1>2 DEF AdvancePhase, StopWalking, StartWalking, KeepWalking

-----------------------------------------------------------------------------
(* Types.                                                                  *)

\* The node starts with its types.
LEMMA TypeInit == Init => TypeOK
<1> SUFFICES ASSUME Init PROVE TypeOK
  OBVIOUS
<1>1. phase \in IF setup.phases = "randomized_static" THEN StaticPhases ELSE {0}
  BY DEF Init
<1>2. phase \in Phase
  BY <1>1 DEF Phase
<1>3. setup \in Setups /\ setup.handoff \in BOOLEAN
  BY DEF Init
<1>4. {armed, authority, revoked, first} \subseteq BOOLEAN
  BY <1>3 DEF Init
<1>5. seen \in [phase : Phase, moving : BOOLEAN, left : BOOLEAN]
  BY <1>2 DEF Init
<1>6. /\ signalAge \in [Signals -> 0 .. JointTimeout + 1]
      /\ settled \in [Signals -> BOOLEAN]
  BY DEF Init
<1>7. /\ imuAge \in 0 .. GapReset + 1 /\ inhibit \in Nat
      /\ topicAge \in 0 .. AgeTopicTimeout + 1 /\ reportedAge \in 0 .. MaxAge + 1
      /\ commandAge \in 0 .. CommandTimeout + 1
  BY DEF Init
<1>8. /\ imuSeen \in BOOLEAN /\ steady \in BOOLEAN
      /\ command \in Commands \cup {"zero"}
      /\ prevActions \in {"zero", "seed", "action"}
      /\ {moving, nextLeft, activeLeft} \subseteq BOOLEAN
      /\ lastFoot \in {"none", "left", "right"}
  BY DEF Init
<1> QED  BY <1>2, <1>3, <1>4, <1>5, <1>6, <1>7, <1>8 DEF TypeOK

\* Every callback, service and timer run keeps the types.
LEMMA TypeStep == TypeOK /\ [Next]_vars => TypeOK'
<1> SUFFICES ASSUME TypeOK, [Next]_vars PROVE TypeOK'
  OBVIOUS
<1> USE DEF TypeOK
<1>1. CASE ImuFirst
  BY <1>1 DEF ImuFirst, commandVars, authorityVars, phaseVars
<1>2. CASE ImuSmooth
  BY <1>2 DEF ImuSmooth, commandVars, authorityVars, phaseVars
<1>3. CASE ImuBreak
  BY <1>3 DEF ImuBreak, commandVars, phaseVars
<1>4. CASE JointState
  BY <1>4 DEF JointState, commandVars, authorityVars, phaseVars
<1>5. CASE FeedbackAge
  BY <1>5 DEF FeedbackAge, commandVars, authorityVars, phaseVars
<1>6. CASE Command
  BY <1>6 DEF Command, sensorVars, authorityVars, phaseVars
<1>7. CASE ArmRefused \/ EnableInvalid \/ Disable
  BY <1>7 DEF ArmRefused, EnableInvalid, Disable, sensorVars, commandVars, phaseVars
<1>8. CASE Arm
  BY <1>8, EpisodeType DEF Arm, sensorVars, commandVars
<1>9. CASE Enable
  BY <1>9 DEF Enable, sensorVars, commandVars, phaseVars
<1>10. CASE ResetGaitPhase
  BY <1>10, EpisodeType DEF ResetGaitPhase, sensorVars, commandVars, authorityVars
<1>11. CASE Infer
  <2> DEFINE s == Sample(SnapshotCommand)
  <2>1. s \in [phase : Phase, moving : BOOLEAN, left : BOOLEAN]
    BY SampleType
  <2>2. AdvancePhase(SnapshotCommand) /\ Remember(s)
    BY <1>11 DEF Infer
  <2>3. phase' \in Phase /\ {moving', nextLeft', activeLeft'} \subseteq BOOLEAN
    BY <2>2, AdvanceType
  <2> HIDE DEF s
  <2>4. seen' \in [phase : Phase, moving : BOOLEAN, left : BOOLEAN]
        /\ lastFoot' \in {"none", "left", "right"}
    BY <2>1, <2>2 DEF Remember
  <2> QED  BY <1>11, <2>3, <2>4 DEF Infer, sensorVars, commandVars
<1>12. CASE Tick
  <2>1. imuAge' \in 0 .. GapReset + 1
    BY <1>12, OlderBounded DEF Tick
  <2>2. signalAge' \in [Signals -> 0 .. JointTimeout + 1]
    BY <1>12, OlderBounded DEF Tick
  <2>3. topicAge' \in 0 .. AgeTopicTimeout + 1 /\ commandAge' \in 0 .. CommandTimeout + 1
    BY <1>12, OlderBounded DEF Tick
  <2>4. inhibit' \in Nat
    BY <1>12 DEF Tick
  <2>5. revoked' \in BOOLEAN
    BY <1>12 DEF Tick
  <2> QED  BY <1>12, <2>1, <2>2, <2>3, <2>4, <2>5 DEF Tick, phaseVars
<1>13. CASE UNCHANGED vars
  BY <1>13 DEF vars, sensorVars, commandVars, authorityVars, phaseVars
<1> QED
  BY <1>1, <1>2, <1>3, <1>4, <1>5, <1>6, <1>7, <1>8, <1>9, <1>10, <1>11, <1>12, <1>13
  DEF Next

-----------------------------------------------------------------------------
(* Authority.                                                              *)

\* No step leaves a revoked node armed or in authority but a gap yet unnoticed.
LEMMA RevokedStep == PolicyInv /\ [Next]_vars => RevokedIsOff'
<1> SUFFICES ASSUME TypeOK, RevokedIsOff, [Next]_vars PROVE RevokedIsOff'
  BY DEF PolicyInv
<1> USE DEF RevokedIsOff
<1>1. CASE ImuFirst
  BY <1>1 DEF ImuFirst, authorityVars, TypeOK
<1>2. CASE ImuSmooth
  BY <1>2 DEF ImuSmooth, authorityVars, TypeOK
<1>3. CASE ImuBreak
  BY <1>3 DEF ImuBreak, TypeOK
<1>4. CASE JointState
  BY <1>4 DEF JointState, authorityVars
<1>5. CASE FeedbackAge
  BY <1>5 DEF FeedbackAge, authorityVars
<1>6. CASE Command
  BY <1>6 DEF Command, sensorVars, authorityVars
<1>7. CASE ArmRefused
  BY <1>7 DEF ArmRefused, sensorVars
<1>8. CASE Arm
  BY <1>8 DEF Arm, sensorVars
<1>9. CASE Enable
  BY <1>9 DEF Enable, Ready, InputsFresh, sensorVars, TypeOK
<1>10. CASE EnableInvalid
  BY <1>10 DEF EnableInvalid, sensorVars
<1>11. CASE Disable
  BY <1>11 DEF Disable, sensorVars
<1>12. CASE ResetGaitPhase
  BY <1>12 DEF ResetGaitPhase, sensorVars, authorityVars
<1>13. CASE Infer
  BY <1>13 DEF Infer, sensorVars
<1>14. CASE Tick
  <2>1. ~imuSeen' => imuAge' = 0
    BY <1>14 DEF Tick
  <2>2. ASSUME LatchOnBreak, setup'.handoff, revoked', armed' \/ authority'
        PROVE  imuAge' > GapReset
    <3>1. CASE imuAge' > GapReset
      BY <3>1
    <3>2. CASE ~(imuAge' > GapReset)
      <4>1. revoked /\ setup.handoff /\ (armed \/ authority)
        BY <1>14, <2>2, <3>2 DEF Tick
      <4>2. imuAge > GapReset /\ imuSeen
        BY <2>2, <4>1 DEF TypeOK
      <4>3. imuAge' > GapReset
        BY <1>14, <4>2, OlderBounded DEF Tick, TypeOK
      <4> QED  BY <4>3
    <3> QED  BY <3>1, <3>2
  <2> QED  BY <2>1, <2>2
<1>15. CASE UNCHANGED vars
  BY <1>15 DEF vars, sensorVars, authorityVars
<1> QED
  BY <1>1, <1>2, <1>3, <1>4, <1>5, <1>6, <1>7, <1>8, <1>9, <1>10, <1>11, <1>12, <1>13,
     <1>14, <1>15
  DEF Next

\* Only an inference spends the seed, and it ends what first remembers.
LEMMA SeedStep == SeedIsKept /\ [Next]_vars => SeedIsKept'
<1> SUFFICES ASSUME SeedIsKept, [Next]_vars PROVE SeedIsKept'
  OBVIOUS
<1> USE DEF SeedIsKept
<1>1. CASE ImuFirst \/ ImuSmooth \/ ImuBreak
  BY <1>1 DEF ImuFirst, ImuSmooth, ImuBreak, authorityVars
<1>2. CASE JointState \/ FeedbackAge \/ Command
  BY <1>2 DEF JointState, FeedbackAge, Command, authorityVars
<1>3. CASE ArmRefused \/ EnableInvalid \/ Disable
  BY <1>3 DEF ArmRefused, EnableInvalid, Disable
<1>4. CASE Arm \/ Enable
  BY <1>4 DEF Arm, Enable
<1>5. CASE ResetGaitPhase
  BY <1>5 DEF ResetGaitPhase, authorityVars
<1>6. CASE Infer
  BY <1>6 DEF Infer
<1>7. CASE Tick
  BY <1>7 DEF Tick
<1>8. CASE UNCHANGED vars
  BY <1>8 DEF vars, authorityVars
<1> QED  BY <1>1, <1>2, <1>3, <1>4, <1>5, <1>6, <1>7, <1>8 DEF Next

-----------------------------------------------------------------------------
(* The gait.                                                               *)

\* The part of the invariant about the gait.
GaitInv == PhaseContinues /\ FeetInOrder

\* An episode begins in step with what its samples are compared to.
LEMMA EpisodeGait ==
  ASSUME TypeOK, BeginEpisode, UNCHANGED setup
  PROVE  GaitInv'
<1>1. PhaseContinues'
  BY DEF BeginEpisode, PhaseContinues, Walks
<1>2. FeetInOrder'
  BY DEF BeginEpisode, FeetInOrder
<1> QED  BY <1>1, <1>2 DEF GaitInv

\* An inference commits the phase and the foot its sample showed.
LEMMA InferGait == TypeOK /\ GaitInv /\ Infer => GaitInv'
<1> SUFFICES ASSUME TypeOK, GaitInv, Infer PROVE GaitInv'
  OBVIOUS
<1> DEFINE c == SnapshotCommand
<1>1. seen' = Sample(c) /\ AdvancePhase(c) /\ setup' = setup
  BY DEF Infer, Remember
<1>2. lastFoot' = IF seen'.moving /\ ~seen.moving
                  THEN IF seen'.left THEN "left" ELSE "right" ELSE lastFoot
  BY DEF Infer, Remember
<1>3. /\ {moving, nextLeft, activeLeft} \subseteq BOOLEAN
      /\ moving = seen.moving
      /\ moving => Walks
  BY DEF TypeOK, GaitInv, FeetInOrder
<1> HIDE DEF c
<1>4. CASE Walks /\ c # "walk"
  <2>1. seen' = [phase |-> 0, moving |-> FALSE, left |-> FALSE]
    BY <1>1, <1>4 DEF Sample
  <2>2. phase' = 0 /\ moving' = FALSE /\ nextLeft' = nextLeft
    BY <1>1, <1>4 DEF AdvancePhase, StopWalking, Walks
  <2>3. PhaseContinues'
    BY <1>1, <1>4, <2>1, <2>2 DEF PhaseContinues, Walks
  <2>4. FeetInOrder'
    BY <1>2, <2>1, <2>2 DEF FeetInOrder, GaitInv
  <2> QED  BY <2>3, <2>4 DEF GaitInv
<1>5. CASE Walks /\ c = "walk" /\ ~moving
  <2>1. seen' = [phase |-> Start(nextLeft), moving |-> TRUE, left |-> nextLeft]
    BY <1>1, <1>5 DEF Sample
  <2>2. /\ phase' = Start(nextLeft) /\ moving' = TRUE
        /\ activeLeft' = nextLeft /\ nextLeft' = ~nextLeft
    BY <1>1, <1>5 DEF AdvancePhase, StartWalking, Walks
  <2>3. PhaseContinues'
    BY <1>1, <1>5, <2>1, <2>2 DEF PhaseContinues, Walks
  <2>4. lastFoot' = IF nextLeft THEN "left" ELSE "right"
    BY <1>2, <1>3, <1>5, <2>1
  <2>5. moving' = seen'.moving /\ Walks' /\ seen'.left = activeLeft'
    <3>1. Walks'
      BY <1>1, <1>5 DEF Walks
    <3>2. seen'.moving = TRUE /\ seen'.left = nextLeft
      BY <2>1
    <3> QED  BY <2>2, <3>1, <3>2
  <2>6. CASE nextLeft
    <3>1. lastFoot' = "left" /\ activeLeft' /\ nextLeft' = FALSE
      BY <2>2, <2>4, <2>6, <1>3
    <3> QED  BY <2>3, <2>5, <3>1 DEF FeetInOrder, GaitInv
  <2>7. CASE ~nextLeft
    <3>1. lastFoot' = "right" /\ ~activeLeft' /\ nextLeft' = TRUE
      BY <2>2, <2>4, <2>7, <1>3
    <3> QED  BY <2>3, <2>5, <3>1 DEF FeetInOrder, GaitInv
  <2> QED  BY <2>6, <2>7
<1>6. CASE Walks /\ c = "walk" /\ moving
  <2>1. seen' = [phase |-> phase, moving |-> TRUE, left |-> activeLeft]
    BY <1>1, <1>6 DEF Sample
  <2>2. /\ phase' = Later(phase)
        /\ UNCHANGED <<moving, nextLeft, activeLeft>>
    BY <1>1, <1>6 DEF AdvancePhase, KeepWalking, Walks
  <2>3. PhaseContinues'
    BY <1>1, <1>6, <2>1, <2>2 DEF PhaseContinues, Walks, Later
  <2>4. lastFoot' = lastFoot
    BY <1>2, <1>3, <1>6
  <2>5. moving' = seen'.moving /\ Walks' /\ seen'.left = activeLeft'
    <3>1. Walks'
      BY <1>1, <1>6 DEF Walks
    <3>2. seen'.moving = TRUE /\ seen'.left = activeLeft
      BY <2>1
    <3>3. moving' = TRUE /\ activeLeft' = activeLeft
      BY <1>3, <1>6, <2>2
    <3> QED  BY <3>1, <3>2, <3>3
  <2>6. FeetInOrder'
    BY <1>6, <2>2, <2>4, <2>5 DEF FeetInOrder, GaitInv
  <2> QED  BY <2>3, <2>6 DEF GaitInv
<1>7. CASE ~Walks
  <2>1. seen' = [phase |-> phase, moving |-> moving, left |-> activeLeft]
    BY <1>1, <1>7 DEF Sample
  <2>2. UNCHANGED <<moving, nextLeft, activeLeft>>
    BY <1>1, <1>7 DEF AdvancePhase, KeepWalking, Walks
  <2>3. phase' = IF setup.phases = "tick_clock" THEN Later(phase) ELSE phase
    <3>1. setup.phases \in PhaseModes
      BY DEF TypeOK
    <3> QED  BY <1>1, <1>7, <3>1 DEF AdvancePhase, KeepWalking, Walks, PhaseModes
  <2>4. PhaseContinues'
    BY <1>1, <1>7, <2>1, <2>3 DEF PhaseContinues, Walks, Later
  <2>5. lastFoot' = lastFoot
    BY <1>2, <1>3, <1>7, <2>1
  <2>6. FeetInOrder'
    BY <1>1, <1>3, <1>7, <2>1, <2>2, <2>5 DEF FeetInOrder, GaitInv, Walks
  <2> QED  BY <2>4, <2>6 DEF GaitInv
<1> QED  BY <1>4, <1>5, <1>6, <1>7

\* Every step keeps phase, feet and samples together.
LEMMA GaitStep == TypeOK /\ GaitInv /\ [Next]_vars => GaitInv'
<1> SUFFICES ASSUME TypeOK, GaitInv, [Next]_vars PROVE GaitInv'
  OBVIOUS
<1> DEFINE Still == UNCHANGED <<setup, phase, moving, nextLeft, activeLeft, seen, lastFoot>>
<1>1. Still => GaitInv'
  BY DEF GaitInv, PhaseContinues, FeetInOrder, Walks, Later
<1>2. CASE Arm \/ ResetGaitPhase
  BY <1>2, EpisodeGait DEF Arm, ResetGaitPhase
<1>3. CASE Infer
  BY <1>3, InferGait
<1>4. CASE ~(Arm \/ ResetGaitPhase \/ Infer)
  <2>1. Still
    BY <1>4
    DEF Next, vars, phaseVars, ImuFirst, ImuSmooth, ImuBreak, JointState, FeedbackAge, Command,
        ArmRefused, Enable, EnableInvalid, Disable, Tick
  <2> QED  BY <1>1, <2>1
<1> QED  BY <1>2, <1>3, <1>4

-----------------------------------------------------------------------------
(* Theorems.                                                               *)

\* The node starts in its invariant.
LEMMA InvInit == Init => PolicyInv
<1> SUFFICES ASSUME Init PROVE PolicyInv
  OBVIOUS
<1>1. TypeOK
  BY TypeInit
<1>2. RevokedIsOff
  BY DEF Init, RevokedIsOff
<1>3. SeedIsKept
  BY DEF Init, SeedIsKept
<1>4. PhaseContinues
  BY DEF Init, PhaseContinues, Walks
<1>5. FeetInOrder
  BY DEF Init, FeetInOrder
<1> QED  BY <1>1, <1>2, <1>3, <1>4, <1>5 DEF PolicyInv

\* The invariant is inductive.
LEMMA InvStep == PolicyInv /\ [Next]_vars => PolicyInv'
  BY TypeStep, RevokedStep, SeedStep, GaitStep DEF PolicyInv, GaitInv

\* The state of the policy node keeps its types, and a revoked authority, an
\* unspent seed and the gait phase keep the relations the node relies on.
THEOREM InvariantHolds == Spec => []PolicyInv
<1> QED  BY InvInit, InvStep, PTL DEF Spec

\* With the IMU latch on, as the configuration ships it, nothing runs live after
\* a disable or an IMU break until the hand-off is armed anew.
THEOREM RevocationHolds == LatchOnBreak /\ Spec => []RevokedStaysOff
<1> SUFFICES ASSUME LatchOnBreak PROVE Spec => []RevokedStaysOff
  OBVIOUS
<1>1. PolicyInv => RevokedStaysOff
  BY DEF PolicyInv, RevokedIsOff, RevokedStaysOff, MayInfer, Ready, InputsFresh, TypeOK
<1> QED  BY InvariantHolds, <1>1, PTL

\* The first live inference sees the previous action of the hand-off profile.
THEOREM SeedHolds == Spec => FirstInferenceIsSeeded
<1>1. PolicyInv /\ [Next]_vars => [Infer /\ first => prevActions = "seed"]_vars
  BY DEF PolicyInv, SeedIsKept
<1> QED  BY <1>1, InvariantHolds, PTL DEF Spec, FirstInferenceIsSeeded

\* Samples follow one another without a jump in the gait phase.
THEOREM GaitHolds == Spec => GaitIsContinuous
<1> DEFINE A == Infer =>
       CASE Walks /\ ~seen'.moving -> seen'.phase = 0
         [] Walks /\ seen'.moving /\ ~seen.moving -> seen'.phase = Start(seen'.left)
         [] Walks /\ seen'.moving /\ seen.moving ->
              seen'.left = seen.left /\ seen'.phase \in {seen.phase, Later(seen.phase)}
         [] setup.phases = "tick_clock" -> seen'.phase \in {seen.phase, Later(seen.phase)}
         [] OTHER -> seen'.phase = seen.phase
<1>1. PolicyInv /\ [Next]_vars => [A]_vars
  <2> SUFFICES ASSUME PolicyInv, Infer PROVE A
    OBVIOUS
  <2> DEFINE c == SnapshotCommand
  <2>1. seen' = Sample(c)
    BY DEF Infer, Remember
  <2>2. /\ {moving, nextLeft, activeLeft} \subseteq BOOLEAN /\ moving = seen.moving
        /\ moving => Walks /\ seen.left = activeLeft
    BY DEF PolicyInv, TypeOK, FeetInOrder
  <2> HIDE DEF c
  <2>3. CASE Walks /\ c # "walk"
    <3>1. seen' = [phase |-> 0, moving |-> FALSE, left |-> FALSE]
      BY <2>1, <2>3 DEF Sample
    <3>2. ~seen'.moving /\ seen'.phase = 0
      BY <3>1
    <3> QED  BY <2>3, <3>2 DEF Walks
  <2>4. CASE Walks /\ c = "walk" /\ ~moving
    <3>1. seen' = [phase |-> Start(nextLeft), moving |-> TRUE, left |-> nextLeft]
      BY <2>1, <2>4 DEF Sample
    <3>2. seen'.moving /\ ~seen.moving /\ seen'.phase = Start(seen'.left)
      BY <3>1, <2>2, <2>4
    <3> QED  BY <2>4, <3>2 DEF Walks
  <2>5. CASE Walks /\ c = "walk" /\ moving
    BY <2>1, <2>2, <2>5 DEF Sample, PolicyInv, PhaseContinues
  <2>6. CASE ~Walks
    BY <2>1, <2>6 DEF Sample, PolicyInv, PhaseContinues, Walks
  <2> QED  BY <2>3, <2>4, <2>5, <2>6
<1> QED  BY <1>1, InvariantHolds, PTL DEF Spec, GaitIsContinuous

\* Movements begin with alternating feet.
THEOREM FeetHold == Spec => FeetAlternate
<1> DEFINE A == Infer /\ seen'.moving /\ ~seen.moving =>
       seen'.left = CASE lastFoot = "none" -> FirstSwingLeft
                      [] lastFoot = "left" -> FALSE
                      [] lastFoot = "right" -> TRUE
<1>1. PolicyInv /\ [Next]_vars => [A]_vars
  <2> SUFFICES ASSUME PolicyInv, Infer, seen'.moving, ~seen.moving PROVE A
    OBVIOUS
  <2>1. seen' = Sample(SnapshotCommand)
    BY DEF Infer, Remember
  <2>2. ~moving
    BY DEF PolicyInv, FeetInOrder
  <2>3. seen'.left = nextLeft
    BY <2>1, <2>2 DEF Sample
  <2> QED  BY <2>3 DEF PolicyInv, FeetInOrder
<1> QED  BY <1>1, InvariantHolds, PTL DEF Spec, FeetAlternate
=============================================================================
