------------------------ MODULE VMLifecycleSoleProofs ------------------------
(***************************************************************************)
(* Proofs about VMLifecycle for commands that run one at a time: what the  *)
(* author of the code, which takes no lock, can have meant to hold.  The   *)
(* last theorem also lets commands overlap.  The lemmas about typing, and  *)
(* about processes and pid files, come from VMLifecycleProofs.             *)
(***************************************************************************)
EXTENDS VMLifecycleProofs

-----------------------------------------------------------------------------
(* The faults that together lose a VM: a client killed while the vfkit it  *)
(* launched has yet to write its pid file, or killed beside a pid file     *)
(* that then comes to name a vfkit of the other kind.                      *)
Orderly == \/ "kill" \notin Environment
           \/ "lag" \notin Environment /\ PidsFresh

Off == Live("vm") = {}

StopLabels == {"stop_check", "stop_request", "stop_wait", "stop_remove"}

(* Labels of the builder after which the disk is not published yet.        *)
BuildLabels == {"build_prepare", "build_target", "build_launch", "build_wait",
                "build_script", "build_kernel", "build_initrd", "build_rename"}

(* Where client c relies on having found, or made, the VM off.             *)
OffAt(c) ==
    \/ client[c].pc \in {"start_build_check", "prepare_disk", "image_copy",
                         "image_resize", "remove_socket", "launch",
                         "build_cleanup", "stop_remove",
                         "destroy_run_files", "destroy_list", "destroy_unlink"}
    \/ client[c].pc \in BuildLabels
    \/ client[c].pc \in StopLabels /\ client[c].site # "command"

(* Where client c relies on there being no disk.                           *)
UnmadeAt(c) ==
    \/ client[c].pc = "image_copy" \/ client[c].pc \in BuildLabels
    \/ client[c].pc \in StopLabels /\ client[c].site = "build"

(* A vfkit without a pid file is waited for by the client that launched it. *)
Waited == Lagging("vm") => /\ "lag" \in Environment
                           /\ \E c \in Clients : At(c, "wait_running")

OffWhere    == \A c \in Clients : OffAt(c) => Off
UnmadeWhere == \A c \in Clients : UnmadeAt(c) => disk = NoImage
OnTheDisk   == \A p \in Live("vm") : vfkit[p].disk = disk

(* The marker is about to be written for a guest that was configured.      *)
Configured == disk # NoImage /\ guest[disk].applied > 0
RanWhere   == \A c \in Clients : At(c, "bootstrap_mark") => Configured

(* The inductive invariant, beside Typed and KindsApart.                   *)
OneVM == TrackedVM /\ Waited /\ OffWhere /\ UnmadeWhere /\ OnTheDisk /\ RanWhere

-----------------------------------------------------------------------------
(* Where the helpers leave a client.                                       *)

LEMMA GotoLands ==
    ASSUME TypeOK, NEW c \in Clients, NEW l, Goto(c, l)
    PROVE  /\ client'[c].pc = l
           /\ client'[c].op = client[c].op /\ client'[c].site = client[c].site
           /\ client'[c].ok = client[c].ok /\ client'[c].left = client[c].left
BY DEF TypeOK, Goto, Jump

LEMMA CallStopLands ==
    ASSUME TypeOK, NEW c \in Clients, NEW s, CallStop(c, s)
    PROVE  /\ client'[c].pc = "stop_check"
           /\ client'[c].op = client[c].op /\ client'[c].site = s
           /\ client'[c].ok = client[c].ok
BY DEF TypeOK, CallStop, Jump

LEMMA BuildEndsLands ==
    ASSUME TypeOK, NEW c \in Clients, NEW r, BuildEnds(c, r)
    PROVE  /\ client'[c].pc = "stop_check"
           /\ client'[c].op = client[c].op /\ client'[c].site = "cleanup"
           /\ client'[c].ok = r
BY DEF TypeOK, BuildEnds, Jump

LEMMA ReturnLands ==
    ASSUME TypeOK, NEW c \in Clients, NEW r, Return(c, r)
    PROVE  /\ client'[c].pc = "idle" /\ client'[c].op = "none"
           /\ client'[c].site = "command" /\ client'[c].ok = r
           /\ client'[c].left = {}
BY DEF TypeOK, Return, Idle

LEMMA StartReturnsLands ==
    ASSUME TypeOK, NEW c \in Clients, NEW r, StartReturns(c, r)
    PROVE  \/ /\ client'[c].pc = "idle" /\ client'[c].op = "none"
              /\ client'[c].site = "command" /\ client'[c].ok = r
           \/ /\ r /\ client[c].op = "bootstrap"
              /\ client'[c].pc = "bootstrap_marker" /\ client'[c].op = "bootstrap"
              /\ client'[c].site = client[c].site
BY GotoLands, ReturnLands DEF StartReturns

LEMMA StopReturnsLands ==
    ASSUME TypeOK, NEW c \in Clients, NEW r \in BOOLEAN, StopReturns(c, r)
    PROVE  \/ /\ client[c].site = "build" /\ client'[c].pc = "build_rename"
              /\ client'[c].op = client[c].op /\ client'[c].site = "build"
           \/ /\ client[c].site = "cleanup" /\ client'[c].pc = "build_cleanup"
              /\ client'[c].op = client[c].op /\ client'[c].site = "cleanup"
              /\ client'[c].ok = client[c].ok
           \/ /\ client[c].site = "command" /\ client'[c].site = "command"
              /\ r /\ client[c].op = "destroy"
              /\ client'[c].pc = "destroy_run_files" /\ client'[c].op = "destroy"
           \/ /\ client[c].site = "command" /\ client'[c].site = "command"
              /\ r /\ client[c].op = "upgrade"
              /\ client'[c].pc = "start_check" /\ client'[c].op = "upgrade"
           \/ /\ client[c].site = "command" /\ client'[c].site = "command"
              /\ ~(r /\ client[c].op \in {"destroy", "upgrade"})
              /\ client'[c].pc = "idle" /\ client'[c].op = "none"
              /\ client'[c].ok = r
BY GotoLands, ReturnLands DEF StopReturns

LEMMA BeginLands ==
    ASSUME TypeOK, NEW c \in Clients, Begin(c)
    PROVE  /\ client'[c].op \in Commands /\ client'[c].pc = Entry[client'[c].op]
           /\ client'[c].site = "command" /\ client'[c].ok = FALSE
           /\ client'[c].left = {}
BY DEF TypeOK, Begin

-----------------------------------------------------------------------------
(* What a command finds out about the VM.                                  *)

(* The lone client acts: no vfkit of the VM is without its pid file.       *)
LEMMA NoneLags ==
    ASSUME SoleClient, Orderly, Typed, KindsApart, OneVM,
           NEW c \in Clients, Begin(c) \/ Step(c) \/ Kill(c)
    PROVE  ~Lagging("vm")
<1>1. CASE Kill(c)
  BY <1>1 DEF Kill, Orderly, OneVM, Waited
<1>2. CASE WaitRunning(c)
  <2>1. CASE StateRunning("vm")
    <3>1. sock["vm"] \in Live("vm") /\ vfkit[sock["vm"]].st = "running"
      BY <2>1 DEF StateRunning, KindsApart, Kinds, Live, Alive
    <3>2. ASSUME NEW p \in Procs, vfkit[p].kind = "vm", vfkit[p].st = "launched"
          PROVE  p = sock["vm"]
      <4>1. p \in Live("vm")
        BY <3>2 DEF Live, Alive
      <4>2. QED  BY <3>1, <4>1 DEF OneVM, TrackedVM
    <3>3. QED  BY <3>1, <3>2 DEF Lagging
  <2>2. CASE ~Lagging("vm")
    BY <2>2
  <2>3. QED  BY <1>2, <2>1, <2>2 DEF WaitRunning
<1>3. CASE (Begin(c) \/ Step(c)) /\ ~WaitRunning(c)
  <2>1. ~At(c, "wait_running")
    <3>1. CASE Begin(c)
      BY <3>1 DEF Begin, At
    <3>2. CASE StartStep(c)
      BY <1>3, <3>2 DEF StartStep, StartCheck, StartBuildCheck, PrepareDisk, ImageCopy,
             ImageResize, RemoveSocket, LaunchVM, At
    <3>3. CASE BuildStep(c) \/ StopStep(c)
      BY <3>3 DEF BuildStep, BuildPrepare, BuildTarget, BuildLaunch, BuildWait,
             BuildScript, BuildKernel, BuildInitrd, BuildRename, BuildCleanup,
             StopStep, StopCheck, StopRequest, StopWait, StopRemove, At
    <3>4. CASE DestroyStep(c) \/ BootstrapStep(c) \/ UpgradeStep(c)
      BY <3>4 DEF DestroyStep, DestroyCheck, DestroyRunFiles, DestroyList,
             DestroyUnlink, DestroyRemoveDir, BootstrapStep, BootstrapInspect,
             BootstrapMarker, BootstrapSSH, BootstrapRun, BootstrapMark, BootstrapReboot,
             UpgradeStep, UpgradeSSH, UpgradeGuest, UpgradeCopyKernel,
             UpgradeCopyInitrd, At
    <3>5. QED  BY <1>3, <3>1, <3>2, <3>3, <3>4 DEF Step
  <2>2. QED  BY <2>1 DEF SoleClient, OneVM, Waited
<1>4. QED  BY <1>1, <1>2, <1>3

(* Then a pid file that names no running process means that the VM is off. *)
LEMMA FoundOff ==
    ASSUME OneVM, ~Lagging("vm"), ~PidIsRunning("vm")
    PROVE  Off
BY DEF OneVM, TrackedVM, Lagging, PidIsRunning, Live, Off

(* A client may do anything while the VM is off; while it may be on, only  *)
(* what leaves its files, its disk and its process alone, or stops it.     *)
VMLeftAlone ==
    /\ pidFile'["vm"] = pidFile["vm"] /\ disk' = disk
    /\ \A p \in Live("vm")' : p \in Live("vm") /\ vfkit'[p].disk = vfkit[p].disk

LEMMA ClientKeeps ==
    ASSUME SoleClient, OneVM, NEW c \in Clients, Off' \/ VMLeftAlone,
           ~Lagging("vm"), ~Lagging("vm")',
           OffAt(c)' => Off',
           UnmadeAt(c)' => disk' = NoImage,
           At(c, "bootstrap_mark")' => Configured'
    PROVE  OneVM'
<1>1. TrackedVM'
  <2>1. CASE Off'
    BY <2>1 DEF TrackedVM, Off
  <2>2. CASE VMLeftAlone
    <3>1. ASSUME NEW p \in Live("vm")'
          PROVE  pidFile'["vm"] = p /\ Live("vm")' = {p}
      <4>1. p \in Live("vm") /\ Live("vm")' \subseteq Live("vm")
        BY <2>2, <3>1 DEF VMLeftAlone
      <4>2. vfkit[p].st # "launched"
        BY <4>1 DEF Lagging, Live
      <4>3. pidFile["vm"] = p /\ Live("vm") = {p}
        BY <4>1, <4>2 DEF OneVM, TrackedVM
      <4>4. QED  BY <2>2, <3>1, <4>1, <4>3 DEF VMLeftAlone
    <3>2. QED  BY <3>1 DEF TrackedVM
  <2>3. QED  BY <2>1, <2>2
<1>2. OnTheDisk'
  BY DEF OneVM, OnTheDisk, VMLeftAlone, Off
<1>3. QED  BY <1>1, <1>2 DEF OneVM, SoleClient, Waited, OffWhere, UnmadeWhere, RanWhere

-----------------------------------------------------------------------------
(* OneVM is kept by every command.                                         *)

LEMMA SameProcesses ==
    ASSUME UNCHANGED vfkit
    PROVE  /\ Live("vm")' = Live("vm") /\ (Off' <=> Off)
           /\ (Lagging("vm")' <=> Lagging("vm"))
BY DEF Live, Alive, Lagging, Off

(* A step that launches nothing and leaves the pid file and the disk alone. *)
LEMMA QuietKeeps ==
    ASSUME SoleClient, OneVM, NEW c \in Clients, UNCHANGED <<vfkit, pidFile, disk>>,
           ~Lagging("vm"),
           OffAt(c)' => Off,
           UnmadeAt(c)' => disk = NoImage,
           At(c, "bootstrap_mark")' => Configured'
    PROVE  OneVM'
<1>1. VMLeftAlone
  BY SameProcesses DEF VMLeftAlone
<1>2. QED  BY <1>1, SameProcesses, ClientKeeps

LEMMA LaunchKeeps ==
    ASSUME SoleClient, Typed, OneVM, NEW c \in Clients, ~Lagging("vm"), LaunchVM(c)
    PROVE  OneVM'
<1>1. Off
  BY DEF LaunchVM, At, OffAt, OneVM, OffWhere
<1>2. CASE StartReturns(c, FALSE) /\ UNCHANGED <<vfkit, pidFile>>
  <2>1. client'[c].pc = "idle"
    BY <1>2, StartReturnsLands DEF Typed
  <2>2. UNCHANGED <<vfkit, pidFile, disk>>
    BY <1>2 DEF LaunchVM, bootFiles
  <2>3. QED
    BY <2>1, <2>2, QuietKeeps DEF OffAt, UnmadeAt, At, BuildLabels, StopLabels
<1>3. CASE Launch("vm", disk) /\ Goto(c, "wait_running")
  <2> PICK p \in FreshProcs :
        /\ vfkit' = [vfkit EXCEPT ![p] = [kind |-> "vm", disk |-> disk,
                 st |-> IF "lag" \in Environment THEN "launched" ELSE "starting"]]
        /\ pidFile' = IF "lag" \in Environment THEN pidFile
                                               ELSE [pidFile EXCEPT !["vm"] = p]
    BY <1>3 DEF Launch
  <2>1. p \in Procs /\ UNCHANGED disk
    BY DEF FreshProcs, LaunchVM, bootFiles
  <2>2. /\ vfkit'[p].kind = "vm" /\ vfkit'[p].disk = disk
        /\ vfkit'[p].st = IF "lag" \in Environment THEN "launched" ELSE "starting"
        /\ \A q \in Procs \ {p} : vfkit'[q] = vfkit[q]
    BY <2>1 DEF Typed, TypeOK
  <2>3. Live("vm")' = {p}
    BY <1>1, <2>1, <2>2 DEF Live, Alive, Off
  <2>4. vfkit'[p].st = "launched" \/ pidFile'["vm"] = p
    BY <2>1, <2>2 DEF Typed, TypeOK, Kinds
  <2>5. client'[c].pc = "wait_running"
    BY <1>3, GotoLands DEF Typed
  <2>6. TrackedVM'
    BY <2>3, <2>4 DEF TrackedVM
  <2>7. Waited'
    <3>1. Lagging("vm")' => "lag" \in Environment
      BY <1>1, <2>1, <2>2 DEF Lagging, Live, Alive, Off
    <3>2. QED  BY <2>5, <3>1 DEF Waited, At
  <2>8. OnTheDisk'
    BY <2>1, <2>2, <2>3 DEF OnTheDisk
  <2>9. OffWhere' /\ UnmadeWhere' /\ RanWhere'
    BY <2>5 DEF SoleClient, OffWhere, UnmadeWhere, RanWhere, OffAt, UnmadeAt, At,
                BuildLabels, StopLabels
  <2>10. QED  BY <2>6, <2>7, <2>8, <2>9 DEF OneVM
<1>4. QED  BY <1>2, <1>3 DEF LaunchVM

LEMMA StartKeeps ==
    ASSUME SoleClient, Typed, OneVM, NEW c \in Clients, ~Lagging("vm"), StartStep(c)
    PROVE  OneVM'
<1> USE DEF OffAt, UnmadeAt, At, BuildLabels, StopLabels
<1>1. CASE StartCheck(c)
  <2>1. CASE StartReturns(c, TRUE)
    BY <1>1, <2>1, StartReturnsLands, QuietKeeps DEF StartCheck, Typed, runFiles, bootFiles
  <2>2. CASE ~PidIsRunning("vm") /\ Goto(c, "start_build_check")
    BY <1>1, <2>2, FoundOff, GotoLands, QuietKeeps
       DEF StartCheck, Typed, runFiles, bootFiles
  <2>3. QED  BY <1>1, <2>1, <2>2 DEF StartCheck
<1>2. CASE StartBuildCheck(c)
  <2>1. Off /\ UNCHANGED <<vfkit, pidFile, disk>>
    BY <1>2 DEF StartBuildCheck, OneVM, OffWhere, runFiles, bootFiles
  <2>2. CASE StartReturns(c, FALSE)
    BY <2>1, <2>2, StartReturnsLands, QuietKeeps DEF Typed
  <2>3. CASE Goto(c, "prepare_disk")
    BY <2>1, <2>3, GotoLands, QuietKeeps DEF Typed
  <2>4. QED  BY <1>2, <2>2, <2>3 DEF StartBuildCheck
<1>3. CASE PrepareDisk(c)
  <2>1. Off /\ UNCHANGED <<vfkit, pidFile, disk>>
    BY <1>3 DEF PrepareDisk, OneVM, OffWhere, runFiles, bootFiles
  <2>2. \/ client'[c].pc = "remove_socket"
        \/ disk = NoImage /\ client'[c].pc \in {"build_prepare", "image_copy"}
    BY <1>3, GotoLands DEF PrepareDisk, Typed
  <2>3. QED  BY <2>1, <2>2, QuietKeeps
<1>4. CASE ImageCopy(c)
  <2>1. Off /\ UNCHANGED vfkit
    BY <1>4 DEF ImageCopy, OneVM, OffWhere
  <2>2. \/ StartReturns(c, FALSE)
        \/ Goto(c, "image_resize")
    BY <1>4 DEF ImageCopy
  <2>3. client'[c].pc \in {"image_resize", "idle"}
    BY <2>2, GotoLands, StartReturnsLands DEF Typed
  <2>4. QED  BY <2>1, <2>3, SameProcesses, ClientKeeps
<1>5. CASE ImageResize(c)
  <2>1. Off /\ UNCHANGED <<vfkit, pidFile, disk>>
    BY <1>5 DEF ImageResize, OneVM, OffWhere, runFiles, bootFiles
  <2>2. client'[c].pc \in {"remove_socket", "idle"}
    BY <1>5, GotoLands, StartReturnsLands DEF ImageResize, Typed
  <2>3. QED  BY <2>1, <2>2, QuietKeeps
<1>6. CASE RemoveSocket(c)
  <2>1. Off /\ UNCHANGED <<vfkit, pidFile, disk>>
    BY <1>6 DEF RemoveSocket, OneVM, OffWhere, bootFiles
  <2>2. client'[c].pc = "launch"
    BY <1>6, GotoLands DEF RemoveSocket, Typed
  <2>3. QED  BY <2>1, <2>2, QuietKeeps
<1>7. CASE WaitRunning(c)
  <2>1. client'[c].pc \in {"idle", "bootstrap_marker"} /\ UNCHANGED <<vfkit, pidFile, disk>>
    BY <1>7, StartReturnsLands DEF WaitRunning, Typed, runFiles, bootFiles
  <2>2. QED  BY <2>1, QuietKeeps
<1>8. QED  BY <1>1, <1>2, <1>3, <1>4, <1>5, <1>6, <1>7, LaunchKeeps DEF StartStep

LEMMA BuildLaunchKeeps ==
    ASSUME SoleClient, Typed, OneVM, NEW c \in Clients, ~Lagging("vm"), BuildLaunch(c)
    PROVE  OneVM'
<1>1. Off /\ disk' = NoImage
  BY DEF BuildLaunch, At, OffAt, UnmadeAt, BuildLabels, OneVM, OffWhere, UnmadeWhere,
         bootFiles
<1>2. Off' /\ ~Lagging("vm")'
  <2>1. CASE UNCHANGED vfkit
    BY <1>1, <2>1, SameProcesses
  <2>2. CASE Launch("build", building)
    <3> PICK p \in FreshProcs :
          vfkit' = [vfkit EXCEPT ![p] = [kind |-> "build", disk |-> building,
                    st |-> IF "lag" \in Environment THEN "launched" ELSE "starting"]]
      BY <2>2 DEF Launch
    <3>1. p \in Procs
      BY DEF FreshProcs
    <3>2. vfkit'[p].kind = "build" /\ \A q \in Procs \ {p} : vfkit'[q] = vfkit[q]
      BY <3>1 DEF Typed, TypeOK
    <3>3. QED  BY <1>1, <3>1, <3>2 DEF Off, Live, Alive, Lagging
  <2>3. QED  BY <2>1, <2>2 DEF BuildLaunch
<1>3. client'[c].pc \in {"build_wait", "stop_check"}
  BY GotoLands, BuildEndsLands DEF BuildLaunch, Typed
<1>4. QED  BY <1>1, <1>2, <1>3, ClientKeeps DEF At

LEMMA BuildKeeps ==
    ASSUME SoleClient, Typed, OneVM, NEW c \in Clients, ~Lagging("vm"), BuildStep(c)
    PROVE  OneVM'
<1> USE DEF OffAt, UnmadeAt, At, BuildLabels, StopLabels
<1>1. CASE \/ BuildPrepare(c) \/ BuildTarget(c) \/ BuildWait(c)
           \/ BuildScript(c) \/ BuildKernel(c) \/ BuildInitrd(c)
  <2>1. Off /\ disk = NoImage /\ UNCHANGED <<vfkit, pidFile, disk>>
    BY <1>1 DEF BuildPrepare, BuildTarget, BuildWait, BuildScript, BuildKernel,
                BuildInitrd, OneVM, OffWhere, UnmadeWhere, runFiles, bootFiles
  <2>2. client'[c].pc # "bootstrap_mark"
    <3>1. \/ BuildEnds(c, FALSE) \/ StartReturns(c, FALSE) \/ CallStop(c, "build")
          \/ \E l \in BuildLabels : Goto(c, l)
      BY <1>1 DEF BuildPrepare, BuildTarget, BuildWait, BuildScript, BuildKernel,
                  BuildInitrd
    <3>2. QED
      BY <3>1, GotoLands, BuildEndsLands, CallStopLands, StartReturnsLands DEF Typed
  <2>3. QED  BY <2>1, <2>2, QuietKeeps
<1>2. CASE BuildRename(c)
  <2>1. Off /\ UNCHANGED vfkit
    BY <1>2 DEF BuildRename, OneVM, OffWhere
  <2>2. client'[c].pc = "stop_check" /\ client'[c].site = "cleanup"
    BY <1>2, BuildEndsLands DEF BuildRename, Typed
  <2>3. QED  BY <2>1, <2>2, SameProcesses, ClientKeeps
<1>3. CASE BuildCleanup(c)
  <2>1. Off /\ UNCHANGED vfkit
    BY <1>3 DEF BuildCleanup, OneVM, OffWhere
  <2>2. client'[c].pc \in {"remove_socket", "idle"}
    BY <1>3, GotoLands, StartReturnsLands DEF BuildCleanup, Typed
  <2>3. QED  BY <2>1, <2>2, SameProcesses, ClientKeeps
<1>4. QED  BY <1>1, <1>2, <1>3, BuildLaunchKeeps DEF BuildStep

(* The request to stop reaches a process of the kind that is to stop.      *)
LEMMA RequestKeeps ==
    ASSUME SoleClient, Typed, KindsApart, OneVM, NEW c \in Clients, ~Lagging("vm"),
           StopRequest(c)
    PROVE  OneVM'
<1>1. client'[c].pc = "stop_wait" /\ client'[c].site = client[c].site
  BY GotoLands DEF StopRequest, Typed
<1>2. /\ Live("vm")' \subseteq Live("vm")
      /\ \A p \in Live("vm") : vfkit'[p].disk = vfkit[p].disk
      /\ ~Lagging("vm")'
  <2>1. CASE UNCHANGED vfkit
    BY <2>1, SameProcesses
  <2>2. ASSUME NEW q \in Procs, Alive(q), vfkit' = [vfkit EXCEPT ![q].st = "stopping"]
        PROVE  <1>2!:
    <3>1. /\ vfkit'[q].kind = vfkit[q].kind /\ vfkit'[q].disk = vfkit[q].disk
          /\ vfkit'[q].st = "stopping"
          /\ \A p \in Procs \ {q} : vfkit'[p] = vfkit[p]
      BY <2>2 DEF Typed, TypeOK, VfkitState
    <3>2. QED  BY <2>2, <3>1 DEF Live, Alive, Lagging
  <2>3. QED  BY <2>1, <2>2 DEF StopRequest
<1>3. VMLeftAlone
  BY <1>2 DEF StopRequest, VMLeftAlone, runFiles, bootFiles
<1>4. client[c].pc = "stop_request"
  BY DEF StopRequest, At
<1>5. OffAt(c)' => OffAt(c)
  BY <1>1, <1>4 DEF OffAt, StopLabels, BuildLabels
<1>6. OffAt(c)' => Off'
  BY <1>2, <1>5 DEF OneVM, OffWhere, Off
<1>7. UnmadeAt(c)' => UnmadeAt(c)
  BY <1>1, <1>4 DEF UnmadeAt, StopLabels, BuildLabels
<1>8. UnmadeAt(c)' => disk' = NoImage
  BY <1>7 DEF StopRequest, bootFiles, OneVM, UnmadeWhere
<1>9. QED  BY <1>1, <1>2, <1>3, <1>6, <1>8, ClientKeeps DEF At

LEMMA StopKeeps ==
    ASSUME SoleClient, Typed, KindsApart, OneVM, NEW c \in Clients, ~Lagging("vm"),
           StopStep(c)
    PROVE  OneVM'
<1> USE DEF At, StopLabels
<1>1. client[c].site # "command" => Off
  BY DEF StopStep, StopCheck, StopRequest, StopWait, StopRemove, OneVM, OffWhere, OffAt
<1>2. client[c].site = "build" => disk = NoImage
  BY DEF StopStep, StopCheck, StopRequest, StopWait, StopRemove, OneVM, UnmadeWhere,
         UnmadeAt
<1>3. ASSUME NEW r \in BOOLEAN, StopReturns(c, r), r => Off
      PROVE  /\ OffAt(c)' => Off
             /\ UnmadeAt(c)' => disk = NoImage
             /\ client'[c].pc # "bootstrap_mark"
  BY <1>1, <1>2, <1>3, StopReturnsLands DEF Typed, OffAt, UnmadeAt, BuildLabels
<1>4. CASE StopCheck(c)
  <2>1. UNCHANGED <<vfkit, pidFile, disk>>
    BY <1>4 DEF StopCheck, runFiles, bootFiles
  <2>2. CASE Goto(c, "stop_request")
    <3>1. client'[c].pc = "stop_request" /\ client'[c].site = client[c].site
      BY <2>2, GotoLands DEF Typed
    <3>2. QED
      BY <1>1, <1>2, <2>1, <3>1, QuietKeeps DEF OffAt, UnmadeAt, BuildLabels
  <2>3. CASE ~PidIsRunning(Target(client[c].site)) /\ StopReturns(c, TRUE)
    <3>1. Off
      BY <1>1, <2>3, FoundOff DEF Target
    <3>2. QED  BY <1>3, <2>1, <2>3, <3>1, QuietKeeps
  <2>4. QED  BY <1>4, <2>2, <2>3 DEF StopCheck
<1>5. CASE StopWait(c)
  <2>1. UNCHANGED <<vfkit, pidFile, disk>>
    BY <1>5 DEF StopWait, runFiles, bootFiles
  <2>2. CASE ~PidIsRunning(Target(client[c].site)) /\ Goto(c, "stop_remove")
    <3>1. Off
      BY <1>1, <2>2, FoundOff DEF Target
    <3>2. client'[c].pc = "stop_remove" /\ client'[c].site = client[c].site
      BY <2>2, GotoLands DEF Typed
    <3>3. QED
      BY <1>2, <2>1, <3>1, <3>2, QuietKeeps DEF UnmadeAt, BuildLabels
  <2>3. CASE StopReturns(c, FALSE)
    BY <1>3, <2>1, <2>3, QuietKeeps
  <2>4. QED  BY <1>5, <2>2, <2>3 DEF StopWait
<1>6. CASE StopRemove(c)
  <2>1. Off /\ UNCHANGED <<vfkit, disk>> /\ StopReturns(c, TRUE)
    BY <1>6 DEF StopRemove, OneVM, OffWhere, OffAt, bootFiles
  <2>2. QED  BY <1>3, <2>1, SameProcesses, ClientKeeps
<1>7. QED  BY <1>4, <1>5, <1>6, RequestKeeps DEF StopStep

LEMMA DestroyKeeps ==
    ASSUME SoleClient, Typed, OneVM, NEW c \in Clients, ~Lagging("vm"), DestroyStep(c)
    PROVE  OneVM'
<1> USE DEF OffAt, UnmadeAt, At, BuildLabels, StopLabels
<1>1. CASE DestroyCheck(c)
  <2>1. UNCHANGED <<vfkit, pidFile, disk>>
    BY <1>1 DEF DestroyCheck, runFiles, bootFiles
  <2>2. CASE CallStop(c, "command")
    BY <2>1, <2>2, CallStopLands, QuietKeeps DEF Typed
  <2>3. CASE ~PidIsRunning("vm") /\ Goto(c, "destroy_run_files")
    BY <2>1, <2>3, FoundOff, GotoLands, QuietKeeps DEF Typed
  <2>4. QED  BY <1>1, <2>2, <2>3 DEF DestroyCheck
<1>2. CASE DestroyRunFiles(c) \/ DestroyList(c) \/ DestroyUnlink(c)
  <2>1. Off /\ UNCHANGED vfkit
    BY <1>2 DEF DestroyRunFiles, DestroyList, DestroyUnlink, OneVM, OffWhere
  <2>2. client'[c].pc \in {"destroy_list", "destroy_unlink", "idle"}
    <3>1. CASE DestroyRunFiles(c)
      BY <3>1, GotoLands, ReturnLands DEF DestroyRunFiles, Typed
    <3>2. CASE DestroyList(c)
      BY <3>2 DEF DestroyList, Typed, TypeOK
    <3>3. CASE DestroyUnlink(c)
      BY <3>3 DEF DestroyUnlink, Typed, TypeOK, ClientState
    <3>4. QED  BY <1>2, <3>1, <3>2, <3>3
  <2>3. QED  BY <2>1, <2>2, SameProcesses, ClientKeeps
<1>3. CASE DestroyRemoveDir(c)
  BY <1>3, ReturnLands, QuietKeeps DEF DestroyRemoveDir, Typed, runFiles, bootFiles
<1>4. QED  BY <1>1, <1>2, <1>3 DEF DestroyStep

(* The script has run on the guest of a VM that runs on the disk.          *)
LEMMA RunConfigures ==
    ASSUME Typed, OneVM, NEW p \in Reachable("vm"),
           guest' = [guest EXCEPT ![vfkit[p].disk].applied = OnceMore(@)], UNCHANGED disk
    PROVE  Configured'
<1>1. disk \in Images /\ vfkit[p].disk = disk
  BY DEF Reachable, OneVM, OnTheDisk, Live, Alive, Typed, TypeOK, RunsOnADisk, VfkitState
<1>2. guest'[disk].applied = OnceMore(guest[disk].applied)
  BY <1>1 DEF Typed, TypeOK, GuestState
<1>3. guest'[disk].applied > 0
  BY <1>2 DEF OnceMore
<1>4. QED  BY <1>1, <1>3, IdentifiersAssumption DEF Configured

LEMMA BootstrapKeeps ==
    ASSUME SoleClient, Typed, OneVM, NEW c \in Clients, ~Lagging("vm"), BootstrapStep(c)
    PROVE  OneVM'
<1> USE DEF OffAt, UnmadeAt, At, BuildLabels, StopLabels
<1>1. UNCHANGED <<vfkit, pidFile, disk>>
  BY DEF BootstrapStep, BootstrapInspect, BootstrapMarker, BootstrapSSH,
         BootstrapRun, BootstrapMark, BootstrapReboot, runFiles, bootFiles
<1>2. CASE \E p \in Reachable("vm") :
              /\ guest' = [guest EXCEPT ![vfkit[p].disk].applied = OnceMore(@)]
              /\ Goto(c, "bootstrap_mark")
  <2>1. Configured'
    BY <1>1, <1>2, RunConfigures
  <2>2. client'[c].pc = "bootstrap_mark"
    BY <1>2, GotoLands DEF Typed
  <2>3. QED  BY <1>1, <2>1, <2>2, QuietKeeps
<1>3. CASE \/ \E r \in BOOLEAN : Return(c, r)
           \/ \E l \in {"start_check", "bootstrap_ssh", "bootstrap_run",
                         "bootstrap_reboot"} : Goto(c, l)
  BY <1>1, <1>3, GotoLands, ReturnLands, QuietKeeps DEF Typed
<1>4. QED
  BY <1>2, <1>3 DEF BootstrapStep, BootstrapInspect, BootstrapMarker, BootstrapSSH,
                    BootstrapRun, BootstrapMark, BootstrapReboot

LEMMA UpgradeKeeps ==
    ASSUME SoleClient, Typed, OneVM, NEW c \in Clients, ~Lagging("vm"), UpgradeStep(c)
    PROVE  OneVM'
<1>1. UNCHANGED <<vfkit, pidFile, disk>>
  BY DEF UpgradeStep, UpgradeSSH, UpgradeGuest, UpgradeCopyKernel, UpgradeCopyInitrd,
         runFiles, bootFiles
<1>2. \/ Return(c, FALSE) \/ CallStop(c, "command")
      \/ \E l \in {"upgrade_guest", "upgrade_kernel", "upgrade_initrd"} : Goto(c, l)
  BY DEF UpgradeStep, UpgradeSSH, UpgradeGuest, UpgradeCopyKernel, UpgradeCopyInitrd
<1>3. QED
  BY <1>1, <1>2, GotoLands, ReturnLands, CallStopLands, QuietKeeps
     DEF Typed, OffAt, UnmadeAt, At, BuildLabels, StopLabels

LEMMA EnterKeeps ==
    ASSUME SoleClient, Typed, OneVM, NEW c \in Clients, ~Lagging("vm"), Begin(c) \/ Kill(c)
    PROVE  OneVM'
<1>1. UNCHANGED <<vfkit, pidFile, disk>>
  BY DEF Begin, Kill, runFiles, bootFiles
<1>2. /\ client'[c].site = "command"
      /\ client'[c].pc \in {"idle", "start_check", "stop_check", "destroy_check",
                            "bootstrap_inspect", "upgrade_ssh"}
  <2>1. CASE Kill(c)
    BY <2>1, ReturnLands DEF Kill, Typed
  <2>2. CASE Begin(c)
    <3>1. \A o \in Commands :
            Entry[o] \in {"start_check", "stop_check", "destroy_check",
                         "bootstrap_inspect", "upgrade_ssh"}
      BY CommandsAssumption DEF Entry
    <3>2. QED  BY <2>2, <3>1, BeginLands DEF Typed
  <2>3. QED  BY <2>1, <2>2
<1>3. QED
  BY <1>1, <1>2, QuietKeeps DEF OffAt, UnmadeAt, At, BuildLabels, StopLabels

LEMMA VfkitKeeps ==
    ASSUME Typed, KindsApart, OneVM, NEW p \in Procs, VfkitStep(p) \/ VfkitCrash(p)
    PROVE  OneVM'
<1>1. /\ UNCHANGED <<client, disk, guest>>
      /\ \/ vfkit' = [vfkit EXCEPT ![p].st = "starting"]
         \/ vfkit' = [vfkit EXCEPT ![p].st = "running"]
         \/ vfkit' = [vfkit EXCEPT ![p] = Dead]
      /\ Alive(p)
  BY DEF VfkitStep, VfkitWritePidFile, VfkitRun, VfkitExit, VfkitCrash, bootFiles, Alive
<1>2. /\ \A q \in Procs \ {p} : vfkit'[q] = vfkit[q]
      /\ Alive(p)' => /\ vfkit'[p].kind = vfkit[p].kind
                      /\ vfkit'[p].disk = vfkit[p].disk
      /\ vfkit'[p].st # "launched"
  BY <1>1 DEF Typed, TypeOK, VfkitState, Alive, Dead
<1>3. /\ Live("vm")' \subseteq Live("vm")
      /\ \A q \in Live("vm")' : vfkit'[q].disk = vfkit[q].disk
      /\ Lagging("vm")' => Lagging("vm")
  BY <1>1, <1>2 DEF Live, Alive, Lagging
<1>4. TrackedVM'
  <2>1. SUFFICES ASSUME NEW q \in Live("vm")'
                 PROVE  /\ vfkit'[q].st = "launched" \/ pidFile'["vm"] = q
                        /\ Live("vm")' = {q}
    BY DEF TrackedVM
  <2>2. Live("vm") = {q} /\ (vfkit[q].st = "launched" \/ pidFile["vm"] = q)
    BY <1>3, <2>1 DEF OneVM, TrackedVM
  <2>3. Live("vm")' = {q}
    BY <1>3, <2>1, <2>2
  <2>4. CASE q # p
    <3>1. pidFile'["vm"] = pidFile["vm"]
      <4>1. CASE VfkitWritePidFile(p)
        <5>1. vfkit[p].kind # "vm"
          BY <1>1, <2>2, <2>4 DEF Live
        <5>2. QED  BY <4>1, <5>1 DEF VfkitWritePidFile, Typed, TypeOK, Kinds
      <4>2. CASE UNCHANGED pidFile
        BY <4>2
      <4>3. QED
        BY <4>1, <4>2 DEF VfkitStep, VfkitRun, VfkitExit, VfkitCrash, runFiles
    <3>2. vfkit'[q] = vfkit[q]
      BY <1>2, <2>1, <2>4 DEF Live
    <3>3. QED  BY <2>2, <2>3, <3>1, <3>2
  <2>5. CASE q = p
    <3>1. CASE VfkitWritePidFile(p)
      <4>1. vfkit[p].kind = "vm"
        BY <2>2, <2>5 DEF Live
      <4>2. pidFile'["vm"] = p
        BY <3>1, <4>1 DEF VfkitWritePidFile, Typed, TypeOK, Kinds
      <4>3. QED  BY <2>3, <2>5, <4>2
    <3>2. CASE VfkitRun(p)
      BY <2>2, <2>3, <2>5, <3>2 DEF VfkitRun
    <3>3. CASE vfkit' = [vfkit EXCEPT ![p] = Dead]
      BY <2>1, <2>5, <3>3 DEF Live, Alive, Dead, Typed, TypeOK
    <3>4. QED  BY <3>1, <3>2, <3>3 DEF VfkitStep, VfkitExit, VfkitCrash
  <2>6. QED  BY <2>4, <2>5
<1>5. Waited' /\ OffWhere' /\ UnmadeWhere' /\ RanWhere'
  BY <1>1, <1>3 DEF OneVM, Waited, At, OffWhere, OffAt, Off, UnmadeWhere, UnmadeAt,
                    RanWhere, Configured
<1>6. OnTheDisk'
  BY <1>1, <1>3 DEF OneVM, OnTheDisk
<1>7. QED  BY <1>4, <1>5, <1>6 DEF OneVM

LEMMA InitOneVM == Init => OneVM
<1> SUFFICES ASSUME Init PROVE OneVM
  OBVIOUS
<1>1. Live("vm") = {} /\ ~Lagging("vm")
  BY DEF Init, Live, Alive, Lagging, Dead
<1>2. ASSUME NEW c \in Clients
      PROVE  client[c].pc = "idle"
  BY <1>2 DEF Init, Idle
<1>3. QED
  BY <1>1, <1>2 DEF OneVM, TrackedVM, Waited, OffWhere, Off, UnmadeWhere, OffAt,
                    UnmadeAt, OnTheDisk, RanWhere, At, BuildLabels, StopLabels

LEMMA NextOneVM ==
    ASSUME SoleClient, Orderly
    PROVE  Typed /\ KindsApart /\ OneVM /\ [Next]_vars => OneVM'
<1> SUFFICES ASSUME Typed, KindsApart, OneVM, [Next]_vars PROVE OneVM'
  OBVIOUS
<1>1. ASSUME NEW c \in Clients, Begin(c) \/ Step(c) \/ Kill(c)
      PROVE  OneVM'
  BY <1>1, NoneLags, StartKeeps, BuildKeeps, StopKeeps, DestroyKeeps, BootstrapKeeps,
     UpgradeKeeps, EnterKeeps DEF Step
<1>2. ASSUME NEW p \in Procs, VfkitStep(p) \/ VfkitCrash(p)
      PROVE  OneVM'
  BY <1>2, VfkitKeeps
<1>3. CASE UNCHANGED vars
  BY <1>3 DEF vars, bootFiles, runFiles, OneVM, TrackedVM, Waited, OffWhere, Off,
              UnmadeWhere, OffAt, UnmadeAt, OnTheDisk, RanWhere, Configured, At, Live,
              Alive, Lagging
<1>4. QED  BY <1>1, <1>2, <1>3 DEF Next

-----------------------------------------------------------------------------
(* From where a command of each group steps, and to where.                 *)

NobodyKilled == "kill" \notin Environment

StartLabels == {"start_check", "start_build_check", "prepare_disk", "image_copy",
                "image_resize", "remove_socket", "launch", "wait_running"}
BootstrapLabels == {"bootstrap_inspect", "bootstrap_marker", "bootstrap_ssh",
                    "bootstrap_run", "bootstrap_mark", "bootstrap_reboot"}
UpgradeLabels == {"upgrade_ssh", "upgrade_guest", "upgrade_kernel", "upgrade_initrd"}

LEMMA StartMoves ==
    ASSUME TypeOK, NEW c \in Clients, StartStep(c)
    PROVE  /\ client[c].pc \in StartLabels
           /\ \/ client'[c].pc \in {"idle", "bootstrap_marker"}
              \/ /\ client'[c].pc \in StartLabels \union {"build_prepare"}
                 /\ client'[c].op = client[c].op /\ client'[c].site = client[c].site
<1>1. client[c].pc \in StartLabels
  BY DEF StartStep, StartCheck, StartBuildCheck, PrepareDisk, ImageCopy, ImageResize,
         RemoveSocket, LaunchVM, WaitRunning, At, StartLabels
<1>2. \/ \E r \in BOOLEAN : StartReturns(c, r)
      \/ \E l \in StartLabels \union {"build_prepare"} : Goto(c, l)
  BY DEF StartStep, StartCheck, StartBuildCheck, PrepareDisk, ImageCopy, ImageResize,
         RemoveSocket, LaunchVM, WaitRunning, StartLabels
<1>3. QED  BY <1>1, <1>2, GotoLands, StartReturnsLands

LEMMA BuildMoves ==
    ASSUME TypeOK, NEW c \in Clients, BuildStep(c)
    PROVE  /\ client[c].pc \in BuildLabels \union {"build_cleanup"}
           /\ \/ client'[c].pc \in {"idle", "bootstrap_marker"}
              \/ /\ client'[c].pc \in BuildLabels \union {"remove_socket", "stop_check"}
                 /\ client'[c].op = client[c].op
<1>1. client[c].pc \in BuildLabels \union {"build_cleanup"}
  BY DEF BuildStep, BuildPrepare, BuildTarget, BuildLaunch, BuildWait, BuildScript,
         BuildKernel, BuildInitrd, BuildRename, BuildCleanup, At, BuildLabels
<1>2. \/ \E r \in BOOLEAN : StartReturns(c, r) \/ BuildEnds(c, r)
      \/ CallStop(c, "build")
      \/ \E l \in BuildLabels \union {"remove_socket"} : Goto(c, l)
  BY DEF BuildStep, BuildPrepare, BuildTarget, BuildLaunch, BuildWait, BuildScript,
         BuildKernel, BuildInitrd, BuildRename, BuildCleanup, BuildLabels
<1>3. QED
  BY <1>1, <1>2, GotoLands, StartReturnsLands, BuildEndsLands, CallStopLands

LEMMA StopMoves ==
    ASSUME TypeOK, NEW c \in Clients, StopStep(c)
    PROVE  /\ client[c].pc \in StopLabels
           /\ client'[c].pc \in StopLabels \union {"idle", "start_check", "build_rename",
                                        "build_cleanup", "destroy_run_files"}
<1>1. client[c].pc \in StopLabels
  BY DEF StopStep, StopCheck, StopRequest, StopWait, StopRemove, At, StopLabels
<1>2. \/ \E r \in BOOLEAN : StopReturns(c, r)
      \/ \E l \in StopLabels : Goto(c, l)
  BY DEF StopStep, StopCheck, StopRequest, StopWait, StopRemove, StopLabels
<1>3. QED  BY <1>1, <1>2, GotoLands, StopReturnsLands

LEMMA BootstrapMoves ==
    ASSUME TypeOK, NEW c \in Clients, BootstrapStep(c)
    PROVE  /\ client[c].pc \in BootstrapLabels
           /\ client'[c].pc \in BootstrapLabels \union {"idle", "start_check"}
<1>1. client[c].pc \in BootstrapLabels
  BY DEF BootstrapStep, BootstrapInspect, BootstrapMarker, BootstrapSSH, BootstrapRun,
         BootstrapMark, BootstrapReboot, At, BootstrapLabels
<1>2. \/ \E r \in BOOLEAN : Return(c, r)
      \/ \E l \in BootstrapLabels \union {"start_check"} : Goto(c, l)
  BY DEF BootstrapStep, BootstrapInspect, BootstrapMarker, BootstrapSSH, BootstrapRun,
         BootstrapMark, BootstrapReboot, BootstrapLabels
<1>3. QED  BY <1>1, <1>2, GotoLands, ReturnLands

LEMMA UpgradeMoves ==
    ASSUME TypeOK, NEW c \in Clients, UpgradeStep(c)
    PROVE  /\ client[c].pc \in UpgradeLabels
           /\ client'[c].pc \in UpgradeLabels \union {"idle", "stop_check"}
<1>1. client[c].pc \in UpgradeLabels
  BY DEF UpgradeStep, UpgradeSSH, UpgradeGuest, UpgradeCopyKernel, UpgradeCopyInitrd,
         At, UpgradeLabels
<1>2. \/ Return(c, FALSE) \/ CallStop(c, "command")
      \/ \E l \in UpgradeLabels : Goto(c, l)
  BY DEF UpgradeStep, UpgradeSSH, UpgradeGuest, UpgradeCopyKernel, UpgradeCopyInitrd,
         UpgradeLabels
<1>3. QED  BY <1>1, <1>2, GotoLands, ReturnLands, CallStopLands

-----------------------------------------------------------------------------
(* The build VM, when nobody is killed: there is at most one that was not  *)
(* told to stop, it runs on disk.img.building, and the builder is at work  *)
(* on it, or in the deferred cleanup that will stop it.                    *)

Up == {p \in Live("build") : vfkit[p].st # "stopping"}

UpAt(c) ==
    \/ client[c].pc \in {"build_wait", "build_script", "build_kernel", "build_initrd"}
    \/ client[c].site # "command" /\ client[c].pc \in {"stop_check", "stop_request"}

TheBuild ==
    /\ \A p, q \in Up : p = q
    /\ \A p \in Up :
          /\ vfkit[p].disk = building
          /\ \E c \in Clients : UpAt(c)
          /\ \/ pidFile["build"] = p
             \/ vfkit[p].st = "launched" /\ \E c \in Clients : At(c, "build_wait")

(* A step with no build VM up afterwards; and one that leaves it as it was. *)
BuildLeftAlone ==
    /\ \A p \in Up' : p \in Up /\ vfkit'[p] = vfkit[p]
    /\ pidFile'["build"] = pidFile["build"] /\ building' = building

LEMMA BuildSurvives ==
    ASSUME SoleClient, TheBuild, NEW c \in Clients,
           \/ Up' = {}
           \/ BuildLeftAlone /\ UpAt(c)' /\ (At(c, "build_wait") => ~Lagging("build"))
    PROVE  TheBuild'
<1>1. CASE Up' = {}
  BY <1>1 DEF TheBuild
<1>2. CASE BuildLeftAlone /\ UpAt(c)' /\ (At(c, "build_wait") => ~Lagging("build"))
  <2>1. ASSUME NEW p \in Up'
        PROVE  p \in Up /\ vfkit'[p] = vfkit[p] /\ pidFile["build"] = p
    <3>1. p \in Up /\ vfkit'[p] = vfkit[p]
      BY <1>2, <2>1 DEF BuildLeftAlone
    <3>2. vfkit[p].st = "launched" => Lagging("build")
      BY <3>1 DEF Up, Live, Lagging
    <3>3. QED  BY <1>2, <3>1, <3>2 DEF TheBuild, SoleClient
  <2>2. QED  BY <1>2, <2>1 DEF TheBuild, BuildLeftAlone
<1>3. QED  BY <1>1, <1>2

(* Where nobody is at work on a build VM there is none to work on.         *)
LEMMA NoneUp ==
    ASSUME SoleClient, TheBuild, NEW c \in Clients, ~UpAt(c)
    PROVE  Up = {}
BY DEF SoleClient, TheBuild

LEMMA SameUp ==
    ASSUME UNCHANGED vfkit
    PROVE  Up' = Up /\ (Lagging("build")' <=> Lagging("build"))
BY DEF Up, Live, Alive, Lagging

(* Any step of a client that is at work on no build VM and launches none.  *)
LEMMA ElsewhereBuild ==
    ASSUME SoleClient, TheBuild, NEW c \in Clients, ~UpAt(c), UNCHANGED vfkit
    PROVE  TheBuild'
BY NoneUp, SameUp, BuildSurvives

LEMMA BuildLaunchesOne ==
    ASSUME SoleClient, Typed, TheBuild, NEW c \in Clients, BuildLaunch(c)
    PROVE  TheBuild'
<1>1. ~UpAt(c)
  BY DEF BuildLaunch, At, UpAt
<1>2. CASE UNCHANGED vfkit
  BY <1>1, <1>2, ElsewhereBuild
<1>3. CASE Launch("build", building) /\ Goto(c, "build_wait")
  <2> PICK p \in FreshProcs :
        /\ vfkit' = [vfkit EXCEPT ![p] = [kind |-> "build", disk |-> building,
                 st |-> IF "lag" \in Environment THEN "launched" ELSE "starting"]]
        /\ pidFile' = IF "lag" \in Environment THEN pidFile
                                               ELSE [pidFile EXCEPT !["build"] = p]
    BY <1>3 DEF Launch
  <2>1. p \in Procs /\ UNCHANGED building
    BY DEF FreshProcs, BuildLaunch, bootFiles
  <2>2. /\ vfkit'[p].kind = "build" /\ vfkit'[p].disk = building
        /\ vfkit'[p].st = IF "lag" \in Environment THEN "launched" ELSE "starting"
        /\ \A q \in Procs \ {p} : vfkit'[q] = vfkit[q]
    BY <2>1 DEF Typed, TypeOK
  <2>3. Up' = {p}
    BY <1>1, <2>1, <2>2, NoneUp DEF Up, Live, Alive
  <2>4. vfkit'[p].st = "launched" \/ pidFile'["build"] = p
    BY <2>1, <2>2 DEF Typed, TypeOK, Kinds
  <2>5. client'[c].pc = "build_wait"
    BY <1>3, GotoLands DEF Typed
  <2>6. QED  BY <2>1, <2>2, <2>3, <2>4, <2>5 DEF TheBuild, UpAt, At
<1>4. QED  BY <1>2, <1>3 DEF BuildLaunch

(* At work on the build VM: every way out leads to the deferred cleanup.   *)
LEMMA BuildWorks ==
    ASSUME SoleClient, Typed, KindsApart, TheBuild, NEW c \in Clients,
           BuildWait(c) \/ BuildScript(c) \/ BuildKernel(c) \/ BuildInitrd(c)
    PROVE  TheBuild'
<1>1. BuildLeftAlone
  <2>1. UNCHANGED <<vfkit, pidFile, building>>
    BY DEF BuildWait, BuildScript, BuildKernel, BuildInitrd, runFiles, bootFiles
  <2>2. QED  BY <2>1, SameUp DEF BuildLeftAlone
<1>2. \/ BuildEnds(c, FALSE) \/ CallStop(c, "build")
      \/ \E l \in {"build_script", "build_kernel", "build_initrd"} : Goto(c, l)
  BY DEF BuildWait, BuildScript, BuildKernel, BuildInitrd
<1>3. UpAt(c)'
  <2>1. \/ client'[c].pc \in {"build_script", "build_kernel", "build_initrd"}
        \/ client'[c].pc = "stop_check" /\ client'[c].site \in {"build", "cleanup"}
    BY <1>2, GotoLands, BuildEndsLands, CallStopLands DEF Typed
  <2>2. QED  BY <2>1 DEF UpAt
<1>4. At(c, "build_wait") => ~Lagging("build")
  <2>1. CASE StateRunning("build")
    <3>1. sock["build"] \in Up /\ vfkit[sock["build"]].st = "running"
      BY <2>1 DEF StateRunning, KindsApart, Kinds, Up, Live, Alive
    <3>2. ASSUME NEW p \in Procs, vfkit[p].kind = "build", vfkit[p].st = "launched"
          PROVE  p = sock["build"]
      BY <3>1, <3>2 DEF Up, Live, Alive, TheBuild
    <3>3. QED  BY <3>1, <3>2 DEF Lagging
  <2>2. QED
    BY <2>1 DEF BuildWait, BuildScript, BuildKernel, BuildInitrd, At
<1>5. QED  BY <1>1, <1>3, <1>4, BuildSurvives

(* The builder's Stop finds the build VM it is to stop, and asks it to.    *)
LEMMA BuildStops ==
    ASSUME SoleClient, Typed, KindsApart, TheBuild, NEW c \in Clients, StopStep(c)
    PROVE  TheBuild'
<1>1. CASE StopRequest(c)
  <2>1. CASE client[c].site = "command"
    <3>1. Up = {}
      BY <1>1, <2>1, NoneUp DEF StopRequest, At, UpAt
    <3>2. Up' = {}
      <4>1. CASE UNCHANGED vfkit
        BY <3>1, <4>1, SameUp
      <4>2. ASSUME NEW q \in Procs, vfkit' = [vfkit EXCEPT ![q].st = "stopping"]
            PROVE  Up' = {}
        <5>1. vfkit'[q].st = "stopping" /\ \A p \in Procs \ {q} : vfkit'[p] = vfkit[p]
          BY <4>2 DEF Typed, TypeOK, VfkitState
        <5>2. QED  BY <3>1, <5>1 DEF Up, Live, Alive
      <4>3. QED  BY <1>1, <4>1, <4>2 DEF StopRequest
    <3>3. QED  BY <3>2, BuildSurvives
  <2>2. CASE client[c].site # "command"
    <3> DEFINE q == IF StateRunning("build") THEN sock["build"] ELSE pidFile["build"]
    <3>1. /\ client[c].pc = "stop_request"
          /\ vfkit' = IF q \in Procs /\ Alive(q)
                      THEN [vfkit EXCEPT ![q].st = "stopping"] ELSE vfkit
      BY <1>1, <2>2 DEF StopRequest, Target, At
    <3>2. ASSUME NEW p \in Up
          PROVE  p = q
      <4>1. pidFile["build"] = p
        BY <3>1, <3>2 DEF TheBuild, SoleClient, At
      <4>2. StateRunning("build") => sock["build"] \in Up
        BY DEF StateRunning, KindsApart, Kinds, Up, Live, Alive
      <4>3. QED  BY <3>2, <4>1, <4>2 DEF TheBuild
    <3>3. \A p \in Procs : p = q => ~(Alive(p)' /\ vfkit'[p].st # "stopping")
      BY <3>1 DEF Typed, TypeOK, VfkitState, Alive
    <3>4. \A p \in Procs : p # q => vfkit'[p] = vfkit[p]
      BY <3>1 DEF Typed, TypeOK
    <3> HIDE DEF q
    <3>5. Up' = {}
      BY <3>2, <3>3, <3>4 DEF Up, Live, Alive
    <3>6. QED  BY <3>5, BuildSurvives
  <2>3. QED  BY <2>1, <2>2
<1>2. CASE StopCheck(c)
  <2>1. UNCHANGED <<vfkit, pidFile, building>> /\ ~At(c, "build_wait")
    BY <1>2 DEF StopCheck, At, runFiles, bootFiles
  <2>2. CASE Up = {}
    BY <2>1, <2>2, SameUp, BuildSurvives
  <2>3. CASE Up # {}
    <3>1. client[c].site # "command"
      BY <1>2, <2>3, NoneUp DEF StopCheck, At, UpAt
    <3>2. PidIsRunning("build")
      BY <1>2, <2>1, <2>3 DEF TheBuild, SoleClient, PidIsRunning, Up, Live
    <3>3. client[c].site \in {"build", "cleanup"}
      BY <3>1 DEF Typed, TypeOK, ClientState, StopSites
    <3>4. client'[c].pc = "stop_request" /\ client'[c].site = client[c].site
      BY <1>2, <3>2, <3>3, GotoLands DEF StopCheck, Target, Typed
    <3>5. UpAt(c)' /\ BuildLeftAlone
      BY <2>1, <3>1, <3>4, SameUp DEF UpAt, BuildLeftAlone
    <3>6. QED  BY <2>1, <3>5, BuildSurvives
  <2>4. QED  BY <2>2, <2>3
<1>3. CASE StopWait(c) \/ StopRemove(c)
  <2>1. ~UpAt(c) /\ UNCHANGED vfkit
    BY <1>3 DEF StopWait, StopRemove, At, UpAt
  <2>2. QED  BY <2>1, ElsewhereBuild
<1>4. QED  BY <1>1, <1>2, <1>3 DEF StopStep

LEMMA LaunchVMBuild ==
    ASSUME SoleClient, Typed, TheBuild, NEW c \in Clients, LaunchVM(c)
    PROVE  TheBuild'
<1>1. Up = {}
  BY NoneUp DEF LaunchVM, At, UpAt
<1>2. CASE UNCHANGED vfkit
  BY <1>1, <1>2, SameUp, BuildSurvives
<1>3. CASE Launch("vm", disk)
  <2> PICK p \in FreshProcs :
        vfkit' = [vfkit EXCEPT ![p] = [kind |-> "vm", disk |-> disk,
                 st |-> IF "lag" \in Environment THEN "launched" ELSE "starting"]]
    BY <1>3 DEF Launch
  <2>1. p \in Procs
    BY DEF FreshProcs
  <2>2. vfkit'[p].kind = "vm" /\ \A q \in Procs \ {p} : vfkit'[q] = vfkit[q]
    BY <2>1 DEF Typed, TypeOK
  <2>3. Up' = {}
    BY <1>1, <2>1, <2>2 DEF Up, Live, Alive
  <2>4. QED  BY <2>3, BuildSurvives
<1>4. QED  BY <1>2, <1>3 DEF LaunchVM

LEMMA StepBuild ==
    ASSUME SoleClient, Typed, KindsApart, TheBuild, NEW c \in Clients, Begin(c) \/ Step(c)
    PROVE  TheBuild'
<1>1. CASE \/ BuildPrepare(c) \/ BuildTarget(c) \/ BuildRename(c) \/ BuildCleanup(c)
  <2>1. ~UpAt(c) /\ UNCHANGED vfkit
    <3>1. client[c].pc \in {"build_prepare", "build_target", "build_rename",
                            "build_cleanup"}
      BY <1>1 DEF BuildPrepare, BuildTarget, BuildRename, BuildCleanup, At
    <3>2. UNCHANGED vfkit
      BY <1>1 DEF BuildPrepare, BuildTarget, BuildRename, BuildCleanup
    <3>3. QED  BY <3>1, <3>2 DEF UpAt
  <2>2. QED  BY <2>1, ElsewhereBuild
<1>2. CASE BuildStep(c)
  BY <1>1, <1>2, BuildLaunchesOne, BuildWorks DEF BuildStep
<1>3. CASE StartStep(c) /\ ~LaunchVM(c)
  <2>1. ~UpAt(c)
    BY <1>3, StartMoves DEF Typed, StartLabels, UpAt
  <2>2. UNCHANGED vfkit
    BY <1>3 DEF StartStep, StartCheck, StartBuildCheck, PrepareDisk, ImageCopy,
                ImageResize, RemoveSocket, WaitRunning
  <2>3. QED  BY <2>1, <2>2, ElsewhereBuild
<1>4. CASE DestroyStep(c)
  <2>1. ~UpAt(c) /\ UNCHANGED vfkit
    BY <1>4 DEF DestroyStep, DestroyCheck, DestroyRunFiles, DestroyList, DestroyUnlink,
                DestroyRemoveDir, At, UpAt
  <2>2. QED  BY <2>1, ElsewhereBuild
<1>5. CASE BootstrapStep(c)
  <2>1. ~UpAt(c)
    BY <1>5, BootstrapMoves DEF Typed, BootstrapLabels, UpAt
  <2>2. UNCHANGED vfkit
    BY <1>5 DEF BootstrapStep, BootstrapInspect, BootstrapMarker, BootstrapSSH,
                BootstrapRun, BootstrapMark, BootstrapReboot
  <2>3. QED  BY <2>1, <2>2, ElsewhereBuild
<1>6. CASE UpgradeStep(c)
  <2>1. ~UpAt(c)
    BY <1>6, UpgradeMoves DEF Typed, UpgradeLabels, UpAt
  <2>2. UNCHANGED vfkit
    BY <1>6 DEF UpgradeStep, UpgradeSSH, UpgradeGuest, UpgradeCopyKernel,
                UpgradeCopyInitrd
  <2>3. QED  BY <2>1, <2>2, ElsewhereBuild
<1>7. CASE Begin(c)
  <2>1. ~UpAt(c) /\ UNCHANGED vfkit
    BY <1>7 DEF Begin, At, UpAt
  <2>2. QED  BY <2>1, ElsewhereBuild
<1>8. QED
  BY <1>2, <1>3, <1>4, <1>5, <1>6, <1>7, BuildStops, LaunchVMBuild DEF Step

LEMMA VfkitBuild ==
    ASSUME Typed, TheBuild, NEW p \in Procs, VfkitStep(p) \/ VfkitCrash(p)
    PROVE  TheBuild'
<1>1. /\ UNCHANGED <<client, building>>
      /\ \/ vfkit' = [vfkit EXCEPT ![p].st = "starting"]
         \/ vfkit' = [vfkit EXCEPT ![p].st = "running"]
         \/ vfkit' = [vfkit EXCEPT ![p] = Dead]
      /\ Alive(p) /\ (vfkit[p].st = "stopping" => vfkit' = [vfkit EXCEPT ![p] = Dead])
  BY DEF VfkitStep, VfkitWritePidFile, VfkitRun, VfkitExit, VfkitCrash, bootFiles, Alive
<1>2. /\ \A q \in Procs \ {p} : vfkit'[q] = vfkit[q]
      /\ Alive(p)' => /\ vfkit'[p].kind = vfkit[p].kind
                      /\ vfkit'[p].disk = vfkit[p].disk
                      /\ vfkit[p].st # "stopping"
      /\ vfkit'[p].st # "launched"
  BY <1>1 DEF Typed, TypeOK, VfkitState, Alive, Dead
<1>3. /\ Up' \subseteq Up
      /\ \A q \in Up' : vfkit'[q].disk = vfkit[q].disk
  BY <1>1, <1>2 DEF Up, Live, Alive
<1>4. ASSUME NEW q \in Up'
      PROVE  \/ pidFile'["build"] = q
             \/ vfkit'[q].st = "launched" /\ \E c \in Clients : At(c, "build_wait")'
  <2>1. q \in Up
    BY <1>3, <1>4
  <2>2. \/ pidFile["build"] = q
        \/ vfkit[q].st = "launched" /\ \E c \in Clients : At(c, "build_wait")
    BY <2>1 DEF TheBuild
  <2>3. CASE VfkitWritePidFile(p)
    <3>1. CASE vfkit[p].kind = "build"
      <4>1. p \in Up
        BY <2>3, <3>1 DEF VfkitWritePidFile, Up, Live, Alive
      <4>2. q = p
        BY <2>1, <4>1 DEF TheBuild
      <4>3. QED  BY <2>3, <3>1, <4>2 DEF VfkitWritePidFile, Typed, TypeOK, Kinds
    <3>2. CASE vfkit[p].kind # "build"
      <4>1. q # p
        BY <2>1, <3>2 DEF Up, Live
      <4>2. pidFile'["build"] = pidFile["build"]
        BY <2>3, <3>2 DEF VfkitWritePidFile, Typed, TypeOK, Kinds
      <4>3. vfkit'[q] = vfkit[q]
        BY <1>2, <2>1, <4>1 DEF Up, Live
      <4>4. QED  BY <1>1, <2>2, <4>2, <4>3 DEF At
    <3>3. QED  BY <3>1, <3>2
  <2>4. CASE VfkitRun(p) \/ VfkitExit(p) \/ VfkitCrash(p)
    <3>1. UNCHANGED pidFile
      BY <2>4 DEF VfkitRun, VfkitExit, VfkitCrash, runFiles
    <3>2. CASE q # p
      <4>1. vfkit'[q] = vfkit[q]
        BY <1>2, <2>1, <3>2 DEF Up, Live
      <4>2. QED  BY <1>1, <2>2, <3>1, <4>1 DEF At
    <3>3. CASE q = p
      <4>1. CASE VfkitRun(p)
        BY <2>2, <3>1, <3>3, <4>1 DEF VfkitRun
      <4>2. CASE vfkit' = [vfkit EXCEPT ![p] = Dead]
        BY <1>4, <3>3, <4>2 DEF Up, Live, Alive, Dead, Typed, TypeOK
      <4>3. QED  BY <2>4, <4>1, <4>2 DEF VfkitExit, VfkitCrash
    <3>4. QED  BY <3>2, <3>3
  <2>5. QED  BY <2>3, <2>4 DEF VfkitStep
<1>5. QED  BY <1>1, <1>3, <1>4 DEF TheBuild, UpAt

LEMMA NextBuild ==
    ASSUME SoleClient, NobodyKilled
    PROVE  Typed /\ KindsApart /\ TheBuild /\ [Next]_vars => TheBuild'
<1> SUFFICES ASSUME Typed, KindsApart, TheBuild, [Next]_vars PROVE TheBuild'
  OBVIOUS
<1>1. ASSUME NEW c \in Clients, Begin(c) \/ Step(c) \/ Kill(c)
      PROVE  TheBuild'
  BY <1>1, StepBuild DEF Kill, NobodyKilled
<1>2. ASSUME NEW p \in Procs, VfkitStep(p) \/ VfkitCrash(p)
      PROVE  TheBuild'
  BY <1>2, VfkitBuild
<1>3. CASE UNCHANGED vars
  BY <1>3 DEF vars, bootFiles, runFiles, TheBuild, Up, Live, Alive, UpAt, At
<1>4. QED  BY <1>1, <1>2, <1>3 DEF Next

Idling == \A c \in Clients : client[c].pc = "idle"

LEMMA InitIdling == Init => Idling /\ \A k \in Kinds : Live(k) = {}
BY DEF Init, Idling, Idle, Live, Alive, Dead

-----------------------------------------------------------------------------
(* RefusedOnlyDuringBuild, whether or not vfkit stops in time: the builder *)
(* drops build-vfkit.pid on its way out even when its Stop has failed.     *)

NamesABuild(c) == Building(c) /\ ~At(c, "build_prepare")

NamedOnlyInBuild == pidFile["build"] # NoProc => \E c \in Clients : NamesABuild(c)

(* A build vfkit without a pid file is waited for by the builder.          *)
LateAwaited ==
    \A p \in Live("build") : vfkit[p].st = "launched" => \E c \in Clients : NamesABuild(c)

(* A step of one client leaves the others where they were.                 *)
MovesAlone(c) == \A d \in Clients \ {c} : client'[d] = client[d]

LEMMA HelpersMoveAlone ==
    ASSUME TypeOK, NEW c \in Clients, NEW l, NEW s, NEW r,
           Jump(c, l, s, r) \/ Return(c, r)
    PROVE  MovesAlone(c)
BY DEF TypeOK, Jump, Return, MovesAlone

LEMMA ReturnsMoveAlone ==
    ASSUME TypeOK, NEW c \in Clients, NEW r, StartReturns(c, r) \/ StopReturns(c, r)
    PROVE  MovesAlone(c)
BY HelpersMoveAlone DEF StartReturns, StopReturns, Goto

LEMMA EndsMoveAlone ==
    ASSUME TypeOK, NEW c \in Clients, NEW r, NEW s, NEW l,
           BuildEnds(c, r) \/ CallStop(c, s) \/ Goto(c, l)
    PROVE  MovesAlone(c)
BY HelpersMoveAlone DEF BuildEnds, CallStop, Goto

LEMMA StepMovesAlone ==
    ASSUME Typed, NEW c \in Clients, Begin(c) \/ Step(c)
    PROVE  MovesAlone(c)
<1> TypeOK
  BY DEF Typed
<1> USE ReturnsMoveAlone, EndsMoveAlone, HelpersMoveAlone
<1>1. CASE Begin(c)
  BY <1>1 DEF Begin, TypeOK, MovesAlone
<1>2. CASE StartStep(c)
  BY <1>2 DEF StartStep, StartCheck, StartBuildCheck, PrepareDisk, ImageCopy,
              ImageResize, RemoveSocket, LaunchVM, WaitRunning
<1>3. CASE BuildStep(c)
  BY <1>3 DEF BuildStep, BuildPrepare, BuildTarget, BuildLaunch, BuildWait, BuildScript,
              BuildKernel, BuildInitrd, BuildRename, BuildCleanup
<1>4. CASE StopStep(c)
  BY <1>4 DEF StopStep, StopCheck, StopRequest, StopWait, StopRemove
<1>5. CASE DestroyStep(c)
  <2>1. CASE DestroyList(c) \/ DestroyUnlink(c)
    BY <2>1 DEF DestroyList, DestroyUnlink, TypeOK, MovesAlone
  <2>2. CASE DestroyCheck(c) \/ DestroyRunFiles(c) \/ DestroyRemoveDir(c)
    BY <2>2 DEF DestroyCheck, DestroyRunFiles, DestroyRemoveDir
  <2>3. QED  BY <1>5, <2>1, <2>2 DEF DestroyStep
<1>6. CASE BootstrapStep(c)
  BY <1>6 DEF BootstrapStep, BootstrapInspect, BootstrapMarker, BootstrapSSH,
              BootstrapRun, BootstrapMark, BootstrapReboot
<1>7. CASE UpgradeStep(c)
  BY <1>7 DEF UpgradeStep, UpgradeSSH, UpgradeGuest, UpgradeCopyKernel, UpgradeCopyInitrd
<1>8. QED  BY <1>1, <1>2, <1>3, <1>4, <1>5, <1>6, <1>7 DEF Step

LEMMA StaysNamed ==
    ASSUME NamedOnlyInBuild, NEW c \in Clients, MovesAlone(c),
           \/ pidFile'["build"] = NoProc
           \/ NamesABuild(c)'
           \/ pidFile'["build"] = pidFile["build"] /\ ~NamesABuild(c)
    PROVE  NamedOnlyInBuild'
<1>1. ASSUME NEW d \in Clients \ {c}, NamesABuild(d)
      PROVE  NamesABuild(d)'
  BY <1>1 DEF MovesAlone, NamesABuild, Building, At
<1>2. QED  BY <1>1 DEF NamedOnlyInBuild

LEMMA BuildNames ==
    ASSUME Typed, NamedOnlyInBuild, NEW c \in Clients, MovesAlone(c), BuildStep(c)
    PROVE  NamedOnlyInBuild'
<1>1. CASE BuildPrepare(c)
  <2>1. ~NamesABuild(c) /\ UNCHANGED pidFile
    BY <1>1 DEF BuildPrepare, NamesABuild, runFiles
  <2>2. QED  BY <2>1, StaysNamed
<1>2. CASE BuildCleanup(c)
  <2>1. pidFile'["build"] = NoProc
    BY <1>2 DEF BuildCleanup, Typed, TypeOK, Kinds
  <2>2. QED  BY <2>1, StaysNamed
<1>3. CASE BuildStep(c) /\ ~BuildPrepare(c) /\ ~BuildCleanup(c)
  <2>1. \/ BuildEnds(c, FALSE) \/ BuildEnds(c, TRUE) \/ CallStop(c, "build")
        \/ \E l \in {"build_launch", "build_wait", "build_script", "build_kernel",
                     "build_initrd"} : Goto(c, l)
    BY <1>3 DEF BuildStep, BuildTarget, BuildLaunch, BuildWait, BuildScript,
                BuildKernel, BuildInitrd, BuildRename
  <2>2. \/ client'[c].pc \in {"build_launch", "build_wait", "build_script",
                              "build_kernel", "build_initrd"}
        \/ client'[c].pc = "stop_check" /\ client'[c].site \in {"build", "cleanup"}
    BY <2>1, GotoLands, BuildEndsLands, CallStopLands DEF Typed
  <2>3. NamesABuild(c)'
    BY <2>2 DEF NamesABuild, Building, At
  <2>4. QED  BY <2>3, StaysNamed
<1>4. QED  BY <1>1, <1>2, <1>3

LEMMA StopNames ==
    ASSUME Typed, NamedOnlyInBuild, NEW c \in Clients, MovesAlone(c), StopStep(c)
    PROVE  NamedOnlyInBuild'
<1>1. client[c].pc \in StopLabels /\ client[c].site \in StopSites
  BY DEF StopStep, StopCheck, StopRequest, StopWait, StopRemove, At, StopLabels,
         Typed, TypeOK, ClientState
<1>2. CASE client[c].site = "command"
  <2>1. ~NamesABuild(c)
    BY <1>1, <1>2 DEF NamesABuild, Building, StopLabels
  <2>2. pidFile'["build"] = pidFile["build"]
    BY <1>2 DEF StopStep, StopCheck, StopRequest, StopWait, StopRemove, Target,
                runFiles, Typed, TypeOK, Kinds
  <2>3. QED  BY <2>1, <2>2, StaysNamed
<1>3. CASE client[c].site # "command"
  <2>1. \/ \E r \in BOOLEAN : StopReturns(c, r)
        \/ \E l \in StopLabels : Goto(c, l)
    BY DEF StopStep, StopCheck, StopRequest, StopWait, StopRemove, StopLabels
  <2>2. \/ client'[c].pc \in StopLabels /\ client'[c].site = client[c].site
        \/ client'[c].pc \in {"build_rename", "build_cleanup"}
    BY <1>3, <2>1, GotoLands, StopReturnsLands DEF Typed
  <2>3. NamesABuild(c)'
    BY <1>3, <2>2 DEF NamesABuild, Building, At, StopLabels
  <2>4. QED  BY <2>3, StaysNamed
<1>4. QED  BY <1>2, <1>3

LEMMA OthersName ==
    ASSUME Typed, NamedOnlyInBuild, NEW c \in Clients, MovesAlone(c),
           \/ Begin(c) \/ StartStep(c) \/ DestroyStep(c) \/ BootstrapStep(c)
           \/ UpgradeStep(c)
    PROVE  NamedOnlyInBuild'
<1>1. ~NamesABuild(c)
  <2>1. CASE Begin(c)
    BY <2>1 DEF Begin, At, NamesABuild, Building
  <2>2. CASE StartStep(c)
    BY <2>2, StartMoves DEF Typed, StartLabels, NamesABuild, Building
  <2>3. CASE DestroyStep(c)
    BY <2>3 DEF DestroyStep, DestroyCheck, DestroyRunFiles, DestroyList, DestroyUnlink,
                DestroyRemoveDir, At, NamesABuild, Building
  <2>4. CASE BootstrapStep(c)
    BY <2>4, BootstrapMoves DEF Typed, BootstrapLabels, NamesABuild, Building
  <2>5. CASE UpgradeStep(c)
    BY <2>5, UpgradeMoves DEF Typed, UpgradeLabels, NamesABuild, Building
  <2>6. QED  BY <2>1, <2>2, <2>3, <2>4, <2>5
<1>2. pidFile'["build"] \in {pidFile["build"], NoProc}
  <2>1. CASE LaunchVM(c)
    BY <2>1 DEF LaunchVM, Launch, Typed, TypeOK, Kinds
  <2>2. CASE StartStep(c) /\ ~LaunchVM(c)
    BY <2>2 DEF StartStep, StartCheck, StartBuildCheck, PrepareDisk, ImageCopy,
                ImageResize, RemoveSocket, WaitRunning, runFiles
  <2>3. CASE DestroyRunFiles(c)
    BY <2>3 DEF DestroyRunFiles, runFiles, Typed, TypeOK, Kinds
  <2>4. CASE DestroyUnlink(c)
    BY <2>4 DEF DestroyUnlink, Kinds
  <2>5. CASE DestroyStep(c) /\ ~DestroyRunFiles(c) /\ ~DestroyUnlink(c)
    BY <2>5 DEF DestroyStep, DestroyCheck, DestroyList, DestroyRemoveDir, runFiles
  <2>6. CASE Begin(c) \/ BootstrapStep(c)
    BY <2>6 DEF Begin, BootstrapStep, BootstrapInspect, BootstrapMarker, BootstrapSSH,
                BootstrapRun, BootstrapMark, BootstrapReboot, runFiles
  <2>7. CASE UpgradeStep(c)
    BY <2>7 DEF UpgradeStep, UpgradeSSH, UpgradeGuest, UpgradeCopyKernel,
                UpgradeCopyInitrd, runFiles
  <2>8. QED  BY <2>1, <2>2, <2>3, <2>4, <2>5, <2>6, <2>7
<1>3. QED  BY <1>1, <1>2, StaysNamed

(* A build vfkit that writes its pid file late is still waited for.        *)
LEMMA VfkitNames ==
    ASSUME Typed, LateAwaited, NamedOnlyInBuild,
           NEW p \in Procs, VfkitStep(p) \/ VfkitCrash(p)
    PROVE  NamedOnlyInBuild'
<1>1. UNCHANGED client
  BY DEF VfkitStep, VfkitWritePidFile, VfkitRun, VfkitExit, VfkitCrash
<1>2. CASE pidFile'["build"] = pidFile["build"]
  BY <1>1, <1>2 DEF NamedOnlyInBuild, NamesABuild, Building, At
<1>3. CASE pidFile'["build"] # pidFile["build"]
  <2>1. VfkitWritePidFile(p) /\ vfkit[p].kind = "build"
    BY <1>3 DEF VfkitStep, VfkitWritePidFile, VfkitRun, VfkitExit, VfkitCrash, runFiles,
                Typed, TypeOK, Kinds
  <2>2. p \in Live("build") /\ vfkit[p].st = "launched"
    BY <2>1 DEF VfkitWritePidFile, Live, Alive
  <2>3. PICK c \in Clients : NamesABuild(c)
    BY <2>2 DEF LateAwaited
  <2>4. QED  BY <1>1, <2>3 DEF NamedOnlyInBuild, NamesABuild, Building, At
<1>4. QED  BY <1>2, <1>3

LEMMA NextNames ==
    ASSUME NobodyKilled
    PROVE  Typed /\ LateAwaited /\ NamedOnlyInBuild /\ [Next]_vars => NamedOnlyInBuild'
<1> SUFFICES ASSUME Typed, LateAwaited, NamedOnlyInBuild, [Next]_vars
             PROVE  NamedOnlyInBuild'
  OBVIOUS
<1>1. ASSUME NEW c \in Clients, Begin(c) \/ Step(c) \/ Kill(c)
      PROVE  NamedOnlyInBuild'
  <2>1. (Begin(c) \/ Step(c)) /\ MovesAlone(c)
    BY <1>1, StepMovesAlone DEF Kill, NobodyKilled
  <2>2. QED  BY <2>1, BuildNames, StopNames, OthersName DEF Step
<1>2. ASSUME NEW p \in Procs, VfkitStep(p) \/ VfkitCrash(p)
      PROVE  NamedOnlyInBuild'
  BY <1>2, VfkitNames
<1>3. CASE UNCHANGED vars
  BY <1>3 DEF vars, runFiles, NamedOnlyInBuild, NamesABuild, Building, At
<1>4. QED  BY <1>1, <1>2, <1>3 DEF Next

-----------------------------------------------------------------------------
(* KindsApart.  A vfkit may get the pid that a leftover pid file names, so *)
(* it matters that no build starts beside a leftover vfkit.pid, which no   *)
(* state directory without a disk holds, and the VM none beside a leftover *)
(* build-vfkit.pid, which the builder drops on its way out.                *)

BuiltWell(c) ==
    /\ client[c].ok
    /\ \/ client[c].pc = "build_cleanup"
       \/ client[c].pc \in StopLabels /\ client[c].site = "cleanup"

(* Where client c has seen to it that there is a disk.                     *)
MadeAt(c) ==
    client[c].pc \in {"remove_socket", "launch", "wait_running"} \/ BuiltWell(c)

(* Where client c has seen to it that there is no vfkit.pid.               *)
UnnamedAt(c) == client[c].pc \in {"destroy_list", "destroy_unlink"}

VMFiles ==
    /\ disk = NoImage => pidFile["vm"] = NoProc
    /\ \A c \in Clients :
          /\ UnnamedAt(c) => pidFile["vm"] = NoProc
          /\ MadeAt(c) => disk # NoImage

LEMMA FilesKept ==
    ASSUME SoleClient, NEW c \in Clients,
           disk' = NoImage \/ UnnamedAt(c)' => pidFile'["vm"] = NoProc,
           MadeAt(c)' => disk' # NoImage
    PROVE  VMFiles'
BY DEF SoleClient, VMFiles

(* A step that leaves pid file and disk alone and goes on to label l.      *)
LEMMA FilesUntouched ==
    ASSUME SoleClient, VMFiles, NEW c \in Clients, UNCHANGED <<pidFile, disk>>,
           ~UnnamedAt(c)', MadeAt(c)' => disk # NoImage
    PROVE  VMFiles'
BY FilesKept DEF VMFiles

LEMMA StartFiles ==
    ASSUME SoleClient, Typed, VMFiles, NEW c \in Clients, StartStep(c)
    PROVE  VMFiles'
<1> USE DEF UnnamedAt, MadeAt, BuiltWell, StopLabels
<1>1. ASSUME NEW r, StartReturns(c, r)
      PROVE  ~UnnamedAt(c)' /\ ~MadeAt(c)'
  BY <1>1, StartReturnsLands DEF Typed
<1>2. CASE \/ StartCheck(c) \/ StartBuildCheck(c) \/ PrepareDisk(c) \/ RemoveSocket(c)
           \/ WaitRunning(c)
  <2>1. UNCHANGED <<pidFile, disk>>
    BY <1>2 DEF StartCheck, StartBuildCheck, PrepareDisk, RemoveSocket, WaitRunning,
                runFiles, bootFiles
  <2>2. \/ \E r \in BOOLEAN : StartReturns(c, r)
        \/ \E l \in {"start_build_check", "prepare_disk", "build_prepare",
                     "image_copy"} : Goto(c, l)
        \/ disk # NoImage /\ \E l \in {"remove_socket", "launch"} : Goto(c, l)
    BY <1>2 DEF StartCheck, StartBuildCheck, PrepareDisk, RemoveSocket, WaitRunning, At,
                VMFiles
  <2>3. ~UnnamedAt(c)' /\ (MadeAt(c)' => disk # NoImage)
    <3>1. CASE \E r \in BOOLEAN : StartReturns(c, r)
      BY <1>1, <3>1
    <3>2. CASE \E l \in {"start_build_check", "prepare_disk", "build_prepare",
                         "image_copy"} : Goto(c, l)
      BY <3>2, GotoLands DEF Typed
    <3>3. CASE disk # NoImage /\ \E l \in {"remove_socket", "launch"} : Goto(c, l)
      BY <3>3, GotoLands DEF Typed
    <3>4. QED  BY <2>2, <3>1, <3>2, <3>3
  <2>4. QED  BY <2>1, <2>3, FilesUntouched
<1>3. CASE ImageCopy(c)
  <2>1. \/ UNCHANGED disk /\ StartReturns(c, FALSE)
        \/ disk' # NoImage /\ (Goto(c, "image_resize") \/ StartReturns(c, FALSE))
    BY <1>3, IdentifiersAssumption DEF ImageCopy, FreshImages
  <2>2. /\ UNCHANGED disk \/ disk' # NoImage
        /\ ~UnnamedAt(c)' /\ (MadeAt(c)' => disk' # NoImage)
    <3>1. CASE StartReturns(c, FALSE)
      BY <1>1, <2>1, <3>1
    <3>2. CASE disk' # NoImage /\ Goto(c, "image_resize")
      BY <3>2, GotoLands DEF Typed
    <3>3. QED  BY <2>1, <3>1, <3>2
  <2>3. UNCHANGED pidFile
    BY <1>3 DEF ImageCopy, runFiles
  <2>4. QED  BY <2>2, <2>3, FilesKept DEF VMFiles
<1>4. CASE ImageResize(c)
  <2>1. UNCHANGED <<pidFile, disk>>
    BY <1>4 DEF ImageResize, runFiles, bootFiles
  <2>2. \/ StartReturns(c, FALSE)
        \/ disk # NoImage /\ Goto(c, "remove_socket")
    BY <1>4 DEF ImageResize
  <2>3. ~UnnamedAt(c)' /\ (MadeAt(c)' => disk # NoImage)
    <3>1. CASE StartReturns(c, FALSE)
      BY <1>1, <3>1
    <3>2. CASE disk # NoImage /\ Goto(c, "remove_socket")
      BY <3>2, GotoLands DEF Typed
    <3>3. QED  BY <2>2, <3>1, <3>2
  <2>4. QED  BY <2>1, <2>3, FilesUntouched
<1>5. CASE LaunchVM(c)
  <2>1. disk # NoImage /\ UNCHANGED disk
    BY <1>5 DEF LaunchVM, At, VMFiles, bootFiles
  <2>2. StartReturns(c, FALSE) \/ Goto(c, "wait_running")
    BY <1>5 DEF LaunchVM
  <2>3. ~UnnamedAt(c)'
    <3>1. CASE StartReturns(c, FALSE)
      BY <1>1, <3>1
    <3>2. CASE Goto(c, "wait_running")
      BY <3>2, GotoLands DEF Typed
    <3>3. QED  BY <2>2, <3>1, <3>2
  <2>4. QED  BY <2>1, <2>3, FilesKept
<1>6. QED  BY <1>2, <1>3, <1>4, <1>5 DEF StartStep

LEMMA BuildFiles ==
    ASSUME SoleClient, Typed, VMFiles, NEW c \in Clients, BuildStep(c)
    PROVE  VMFiles'
<1> USE DEF UnnamedAt, MadeAt, BuiltWell, StopLabels
<1>1. pidFile'["vm"] = pidFile["vm"]
  <2>1. CASE BuildLaunch(c)
    BY <2>1 DEF BuildLaunch, Launch, Typed, TypeOK, Kinds
  <2>2. CASE BuildCleanup(c)
    BY <2>2 DEF BuildCleanup, Typed, TypeOK, Kinds
  <2>3. CASE BuildStep(c) /\ ~BuildLaunch(c) /\ ~BuildCleanup(c)
    BY <2>3 DEF BuildStep, BuildPrepare, BuildTarget, BuildWait, BuildScript,
                BuildKernel, BuildInitrd, BuildRename, runFiles
  <2>4. QED  BY <2>1, <2>2, <2>3
<1>2. ~UnnamedAt(c)'
  BY BuildMoves DEF Typed, BuildLabels
<1>3. CASE BuildRename(c)
  <2>1. CASE BuildEnds(c, FALSE) /\ UNCHANGED <<disk, building>>
    <3>1. client'[c].pc = "stop_check" /\ client'[c].ok = FALSE
      BY <2>1, BuildEndsLands DEF Typed
    <3>2. QED  BY <1>1, <1>2, <2>1, <3>1, FilesKept DEF VMFiles
  <2>2. CASE building # NoImage /\ disk' = building
    BY <1>2, <2>2, FilesKept
  <2>3. QED  BY <1>3, <2>1, <2>2 DEF BuildRename
<1>4. CASE BuildCleanup(c)
  <2>1. UNCHANGED disk
    BY <1>4 DEF BuildCleanup, bootFiles
  <2>2. \/ client'[c].pc = "idle"
        \/ client'[c].pc = "remove_socket" /\ BuiltWell(c)
    BY <1>4, StartReturnsLands, GotoLands DEF BuildCleanup, At, Typed
  <2>3. QED  BY <1>1, <1>2, <2>1, <2>2, FilesKept DEF VMFiles
<1>5. CASE BuildStep(c) /\ ~BuildRename(c) /\ ~BuildCleanup(c)
  <2>1. UNCHANGED disk
    BY <1>5 DEF BuildStep, BuildPrepare, BuildTarget, BuildLaunch, BuildWait, BuildScript,
                BuildKernel, BuildInitrd, bootFiles
  <2>2. \/ BuildEnds(c, FALSE) \/ StartReturns(c, FALSE) \/ CallStop(c, "build")
        \/ \E l \in BuildLabels : Goto(c, l)
    BY <1>5 DEF BuildStep, BuildPrepare, BuildTarget, BuildLaunch, BuildWait, BuildScript,
                BuildKernel, BuildInitrd, BuildLabels
  <2>3. \/ client'[c].pc \in {"idle"} \union BuildLabels
        \/ client'[c].pc = "stop_check" /\ client'[c].site = "build"
        \/ client'[c].pc = "stop_check" /\ client'[c].ok = FALSE
    <3>1. CASE BuildEnds(c, FALSE) \/ StartReturns(c, FALSE)
      BY <3>1, BuildEndsLands, StartReturnsLands DEF Typed
    <3>2. CASE CallStop(c, "build")
      BY <3>2, CallStopLands DEF Typed
    <3>3. CASE \E l \in BuildLabels : Goto(c, l)
      BY <3>3, GotoLands DEF Typed
    <3>4. QED  BY <2>2, <3>1, <3>2, <3>3
  <2>4. ~MadeAt(c)'
    BY <2>3 DEF BuildLabels
  <2>5. QED  BY <1>1, <1>2, <2>1, <2>4, FilesKept DEF VMFiles
<1>6. QED  BY <1>3, <1>4, <1>5

LEMMA StopFiles ==
    ASSUME SoleClient, Typed, VMFiles, NEW c \in Clients, StopStep(c)
    PROVE  VMFiles'
<1>1. UNCHANGED disk /\ pidFile'["vm"] \in {pidFile["vm"], NoProc}
  <2>1. CASE StopRemove(c)
    BY <2>1 DEF StopRemove, bootFiles, Typed, TypeOK, Kinds
  <2>2. CASE StopStep(c) /\ ~StopRemove(c)
    BY <2>2 DEF StopStep, StopCheck, StopRequest, StopWait, runFiles, bootFiles
  <2>3. QED  BY <2>1, <2>2
<1>2. client[c].pc \in StopLabels
  BY StopMoves DEF Typed
<1>3. \/ \E r \in BOOLEAN : StopReturns(c, r)
      \/ \E l \in StopLabels : Goto(c, l)
  BY DEF StopStep, StopCheck, StopRequest, StopWait, StopRemove, StopLabels
<1>4. BuiltWell(c)' => BuiltWell(c)
  <2>1. CASE \E l \in StopLabels : Goto(c, l)
    BY <1>2, <2>1, GotoLands DEF BuiltWell, StopLabels, Typed
  <2>2. CASE \E r \in BOOLEAN : StopReturns(c, r)
    BY <1>2, <2>2, StopReturnsLands DEF BuiltWell, StopLabels, Typed
  <2>3. QED  BY <1>3, <2>1, <2>2
<1>5. ~UnnamedAt(c)' /\ client'[c].pc \notin {"remove_socket", "launch", "wait_running"}
  BY StopMoves DEF Typed, StopLabels, UnnamedAt
<1>6. QED  BY <1>1, <1>4, <1>5, FilesKept DEF VMFiles, MadeAt

LEMMA OtherFiles ==
    ASSUME SoleClient, Typed, VMFiles, NEW c \in Clients,
           DestroyStep(c) \/ BootstrapStep(c) \/ UpgradeStep(c) \/ Begin(c)
    PROVE  VMFiles'
<1> USE DEF UnnamedAt, MadeAt, BuiltWell, StopLabels
<1>1. CASE DestroyCheck(c)
  <2>1. UNCHANGED <<pidFile, disk>>
    BY <1>1 DEF DestroyCheck, runFiles, bootFiles
  <2>2. \/ client'[c].pc = "destroy_run_files"
        \/ client'[c].pc = "stop_check" /\ client'[c].site = "command"
    BY <1>1, GotoLands, CallStopLands DEF DestroyCheck, Typed
  <2>3. QED  BY <2>1, <2>2, FilesUntouched
<1>2. CASE DestroyRunFiles(c)
  <2>1. \/ pidFile'["vm"] = NoProc
        \/ pidFile' = pidFile /\ Return(c, FALSE)
    BY <1>2 DEF DestroyRunFiles, runFiles, Typed, TypeOK, Kinds
  <2>2. client'[c].pc \in {"idle", "destroy_list"} /\ UNCHANGED disk
    <3>1. Return(c, FALSE) \/ Goto(c, "destroy_list")
      BY <1>2 DEF DestroyRunFiles
    <3>2. client'[c].pc \in {"idle", "destroy_list"}
      BY <3>1, GotoLands, ReturnLands DEF Typed
    <3>3. QED  BY <1>2, <3>2 DEF DestroyRunFiles, bootFiles
  <2>3. Return(c, FALSE) => client'[c].pc = "idle"
    BY ReturnLands DEF Typed
  <2>4. QED  BY <2>1, <2>2, <2>3, FilesKept DEF VMFiles
<1>3. CASE DestroyList(c) \/ DestroyUnlink(c)
  <2>1. pidFile["vm"] = NoProc
    BY <1>3 DEF DestroyList, DestroyUnlink, At, VMFiles
  <2>2. pidFile'["vm"] = NoProc
    BY <1>3, <2>1 DEF DestroyList, DestroyUnlink, runFiles, Kinds
  <2>3. client'[c].pc = "destroy_unlink"
    BY <1>3 DEF DestroyList, DestroyUnlink, At, Typed, TypeOK, ClientState
  <2>4. QED  BY <2>2, <2>3, FilesKept
<1>4. CASE DestroyRemoveDir(c) \/ BootstrapStep(c) \/ UpgradeStep(c) \/ Begin(c)
  <2>1. UNCHANGED <<pidFile, disk>>
    BY <1>4 DEF DestroyRemoveDir, BootstrapStep, BootstrapInspect, BootstrapMarker,
                BootstrapSSH, BootstrapRun, BootstrapMark, BootstrapReboot, UpgradeStep,
                UpgradeSSH, UpgradeGuest, UpgradeCopyKernel, UpgradeCopyInitrd, Begin,
                runFiles, bootFiles
  <2>2. CASE DestroyRemoveDir(c)
    BY <2>1, <2>2, ReturnLands, FilesUntouched DEF DestroyRemoveDir, Typed
  <2>3. CASE BootstrapStep(c)
    BY <2>1, <2>3, BootstrapMoves, FilesUntouched DEF Typed, BootstrapLabels
  <2>4. CASE UpgradeStep(c)
    <3>1. \/ Return(c, FALSE) \/ CallStop(c, "command")
          \/ \E l \in UpgradeLabels : Goto(c, l)
      BY <2>4 DEF UpgradeStep, UpgradeSSH, UpgradeGuest, UpgradeCopyKernel,
                  UpgradeCopyInitrd, UpgradeLabels
    <3>2. \/ client'[c].pc \in UpgradeLabels \union {"idle"}
          \/ client'[c].pc = "stop_check" /\ client'[c].site = "command"
      <4>1. CASE Return(c, FALSE)
        BY <4>1, ReturnLands DEF Typed
      <4>2. CASE CallStop(c, "command")
        BY <4>2, CallStopLands DEF Typed
      <4>3. CASE \E l \in UpgradeLabels : Goto(c, l)
        BY <4>3, GotoLands DEF Typed
      <4>4. QED  BY <3>1, <4>1, <4>2, <4>3
    <3>3. QED  BY <2>1, <3>2, FilesUntouched DEF UpgradeLabels
  <2>5. CASE Begin(c)
    <3>1. \A o \in Commands : Entry[o] \in {"start_check", "stop_check", "destroy_check",
                                            "bootstrap_inspect", "upgrade_ssh"}
      BY CommandsAssumption DEF Entry
    <3>2. QED  BY <2>1, <2>5, <3>1, BeginLands, FilesUntouched DEF Typed
  <2>6. QED  BY <1>4, <2>2, <2>3, <2>4, <2>5
<1>5. QED  BY <1>1, <1>2, <1>3, <1>4 DEF DestroyStep

(* A vfkit that writes vfkit.pid late was launched for a disk.             *)
LEMMA VfkitFiles ==
    ASSUME SoleClient, Typed, OneVM, VMFiles, NEW p \in Procs, VfkitStep(p) \/ VfkitCrash(p)
    PROVE  VMFiles'
<1>1. UNCHANGED <<client, disk>>
  BY DEF VfkitStep, VfkitWritePidFile, VfkitRun, VfkitExit, VfkitCrash, bootFiles
<1>2. CASE pidFile'["vm"] = pidFile["vm"]
  BY <1>1, <1>2 DEF VMFiles, UnnamedAt, MadeAt, BuiltWell
<1>3. CASE pidFile'["vm"] # pidFile["vm"]
  <2>1. VfkitWritePidFile(p) /\ vfkit[p].kind = "vm"
    BY <1>3 DEF VfkitStep, VfkitWritePidFile, VfkitRun, VfkitExit, VfkitCrash, runFiles,
                Typed, TypeOK, Kinds
  <2>2. Lagging("vm")
    BY <2>1 DEF VfkitWritePidFile, Lagging
  <2>3. PICK c \in Clients : At(c, "wait_running")
    BY <2>2 DEF OneVM, Waited
  <2>4. disk # NoImage
    BY <2>3 DEF VMFiles, MadeAt, At
  <2>5. QED  BY <1>1, <2>3, <2>4, FilesKept DEF UnnamedAt, At
<1>4. QED  BY <1>2, <1>3

LEMMA NextFiles ==
    ASSUME SoleClient, NobodyKilled
    PROVE  Typed /\ OneVM /\ VMFiles /\ [Next]_vars => VMFiles'
<1> SUFFICES ASSUME Typed, OneVM, VMFiles, [Next]_vars PROVE VMFiles'
  OBVIOUS
<1>1. ASSUME NEW c \in Clients, Begin(c) \/ Step(c) \/ Kill(c)
      PROVE  VMFiles'
  BY <1>1, StartFiles, BuildFiles, StopFiles, OtherFiles DEF Step, Kill, NobodyKilled
<1>2. ASSUME NEW p \in Procs, VfkitStep(p) \/ VfkitCrash(p)
      PROVE  VMFiles'
  BY <1>2, VfkitFiles
<1>3. CASE UNCHANGED vars
  BY <1>3 DEF vars, runFiles, bootFiles, VMFiles, UnnamedAt, MadeAt, BuiltWell
<1>4. QED  BY <1>1, <1>2, <1>3 DEF Next

LEMMA BuildAwaited == TheBuild => LateAwaited
<1>1. ASSUME NEW c \in Clients, UpAt(c)
      PROVE  NamesABuild(c)
  BY <1>1 DEF UpAt, NamesABuild, Building, At
<1>2. QED  BY <1>1 DEF TheBuild, LateAwaited, Up

(* What the commands keep together while none is killed.                   *)
Whole == KindsApart /\ OneVM /\ TheBuild /\ NamedOnlyInBuild /\ VMFiles

LEMMA LaunchedUnnamed ==
    ASSUME SoleClient, Whole, NEW c \in Clients
    PROVE  OtherUnnamed(c)
<1>1. At(c, "launch") => pidFile["build"] = NoProc
  BY DEF Whole, NamedOnlyInBuild, NamesABuild, Building, At, SoleClient
<1>2. At(c, "build_launch") => pidFile["vm"] = NoProc
  BY DEF Whole, OneVM, UnmadeWhere, UnmadeAt, BuildLabels, At, VMFiles
<1>3. QED  BY <1>1, <1>2 DEF OtherUnnamed

LEMMA AlwaysWhole ==
    ASSUME SoleClient, NobodyKilled
    PROVE  Spec => [](Typed /\ Whole)
<1>1. Init => Whole
  <2>1. Init => TheBuild
    BY InitIdling DEF Kinds, TheBuild, Up
  <2>2. Init => NamedOnlyInBuild
    BY DEF Init, Kinds, NamedOnlyInBuild
  <2>3. Init => VMFiles
    BY InitIdling DEF Init, Idling, Kinds, VMFiles, UnnamedAt, MadeAt, BuiltWell,
                      StopLabels
  <2>4. QED  BY <2>1, <2>2, <2>3, InitApart, InitOneVM DEF Whole
<1>2. Typed /\ Whole /\ [Next]_vars => Whole'
  <2> SUFFICES ASSUME Typed, Whole, [Next]_vars PROVE Whole'
    OBVIOUS
  <2>1. KindsApart'
    BY LaunchedUnnamed, NextApart DEF Whole
  <2>2. OneVM'
    BY NextOneVM DEF Orderly, NobodyKilled, Whole
  <2>3. TheBuild'
    BY NextBuild DEF Whole
  <2>4. NamedOnlyInBuild'
    BY NextNames, BuildAwaited DEF Whole
  <2>5. VMFiles'
    BY NextFiles DEF Whole
  <2>6. QED  BY <2>1, <2>2, <2>3, <2>4, <2>5 DEF Whole
<1>3. QED  BY <1>1, <1>2, InitTyped, NextTyped, PTL DEF Spec

(* While commands run one at a time and none is killed, a stop reaches a   *)
(* process of the kind it is for, although a new vfkit may get the pid of  *)
(* one that crashed and left its pid file.                                 *)
THEOREM StopsItsOwnKind ==
    ASSUME SoleClient, NobodyKilled
    PROVE  Spec => []KindsApart
<1>1. Whole => KindsApart
  BY DEF Whole
<1>2. QED  BY <1>1, AlwaysWhole, PTL

LEMMA AlwaysOneVM ==
    ASSUME SoleClient, Orderly
    PROVE  Spec => [](Typed /\ KindsApart /\ OneVM)
<1>1. CASE NobodyKilled
  <2>1. Whole => KindsApart /\ OneVM
    BY DEF Whole
  <2>2. QED  BY <1>1, <2>1, AlwaysWhole, PTL
<1>2. CASE PidsFresh
  <2>1. Typed /\ KindsApart /\ OneVM /\ [Next]_vars => OneVM'
    BY NextOneVM
  <2>2. QED  BY <1>2, <2>1, InitOneVM, InitTyped, NextTyped, FreshPidsApart, PTL DEF Spec
<1>3. QED  BY <1>1, <1>2 DEF Orderly, NobodyKilled

(* While commands run one at a time there is never a second vfkit for the  *)
(* VM, and its pid file names it: though vfkit may crash or outlive a Stop, *)
(* and though a client may be killed at any step, or vfkit write its pid   *)
(* file late, but not both.                                                *)
THEOREM OneVMTracked ==
    ASSUME SoleClient, Orderly
    PROVE  Spec => []TrackedVM
<1>1. Typed /\ KindsApart /\ OneVM => TrackedVM
  BY DEF OneVM
<1>2. QED  BY <1>1, AlwaysOneVM, PTL

-----------------------------------------------------------------------------
(* The commands implement VMService.  The machine of the service is on     *)
(* when a vfkit of the VM runs; the one that may is on the disk.           *)

RunningKnown ==
    /\ RunningOn = IF Reachable("vm") = {} THEN NoImage ELSE disk
    /\ Reachable("vm") # {} => disk # NoImage
    /\ Off => Reachable("vm") = {}

LEMMA RunsOnTheDisk == Typed /\ OneVM => RunningKnown
<1> SUFFICES ASSUME Typed, OneVM PROVE RunningKnown
  OBVIOUS
<1>1. Reachable("vm") \subseteq Live("vm")
  BY DEF Reachable, Live, Alive
<1>2. \A p \in Reachable("vm") : vfkit[p].disk = disk /\ disk # NoImage
  BY <1>1 DEF OneVM, OnTheDisk, Reachable, Typed, RunsOnADisk
<1>3. RunningOn = IF Reachable("vm") = {} THEN NoImage ELSE disk
  <2>1. CASE Reachable("vm") = {}
    BY <2>1 DEF RunningOn
  <2>2. CASE Reachable("vm") # {}
    <3>1. (CHOOSE p \in Reachable("vm") : TRUE) \in Reachable("vm")
      BY <2>2
    <3>2. RunningOn = disk
      BY <1>2, <2>2, <3>1 DEF RunningOn
    <3>3. QED  BY <2>2, <3>2
  <2>3. QED  BY <2>1, <2>2
<1>4. QED  BY <1>1, <1>2, <1>3 DEF Off, RunningKnown

LEMMA StillRunsOnTheDisk == Typed' /\ OneVM' => RunningKnown'
BY RunsOnTheDisk, PTL

(* A step that changes neither what runs nor what is on the disk.          *)
LEMMA Stutters ==
    ASSUME Typed, OneVM, Typed', OneVM', UNCHANGED <<disk, marker>>,
           Reachable("vm")' = Reachable("vm")
    PROVE  UNCHANGED <<disk, RunningOn, marker>>
<1>1. RunningOn = IF Reachable("vm") = {} THEN NoImage ELSE disk
  BY RunsOnTheDisk DEF RunningKnown
<1>2. RunningOn' = IF Reachable("vm")' = {} THEN NoImage ELSE disk'
  BY StillRunsOnTheDisk DEF RunningKnown
<1>3. QED  BY <1>1, <1>2

(* A step taken with the machine off, before and after.                    *)
LEMMA BothOff ==
    ASSUME Typed, OneVM, Typed', OneVM', Off, UNCHANGED vfkit
    PROVE  RunningOn = NoImage /\ RunningOn' = NoImage
<1>1. Off'
  BY SameProcesses
<1>2. RunningOn = NoImage
  BY RunsOnTheDisk DEF RunningKnown
<1>3. RunningOn' = NoImage
  BY <1>1, StillRunsOnTheDisk DEF RunningKnown
<1>4. QED  BY <1>2, <1>3

(* The machine stops, for whatever reason.                                 *)
LEMMA MayPowerOff ==
    ASSUME Typed, OneVM, Typed', OneVM', UNCHANGED <<disk, marker>>,
           Reachable("vm")' \subseteq Reachable("vm")
    PROVE  Service!PowerOff \/ UNCHANGED <<disk, RunningOn, marker>>
<1>1. CASE Reachable("vm")' = Reachable("vm")
  BY <1>1, Stutters
<1>2. CASE Reachable("vm")' # Reachable("vm")
  <2>1. Reachable("vm")' = {} /\ Reachable("vm") # {}
    <3>1. Reachable("vm") \subseteq Live("vm")
      BY DEF Reachable, Live, Alive
    <3>2. \A p, q \in Live("vm") : p = q
      BY DEF OneVM, TrackedVM
    <3>3. QED  BY <1>2, <3>1, <3>2
  <2>2. RunningOn # NoImage
    BY <2>1, RunsOnTheDisk DEF RunningKnown
  <2>3. RunningOn' = NoImage
    BY <2>1, StillRunsOnTheDisk DEF RunningKnown
  <2>4. QED  BY <2>2, <2>3 DEF Service!PowerOff, Service!Off
<1>3. QED  BY <1>1, <1>2

(* A process that is launched was not running and is not running yet.      *)
LEMMA LaunchedNotReached ==
    ASSUME Typed, NEW k \in Kinds, NEW i, Launch(k, i)
    PROVE  Reachable("vm")' = Reachable("vm")
<1> PICK p \in FreshProcs :
      vfkit' = [vfkit EXCEPT ![p] = [kind |-> k, disk |-> i,
                st |-> IF "lag" \in Environment THEN "launched" ELSE "starting"]]
  BY DEF Launch
<1>1. p \in Procs /\ vfkit[p].st # "running"
  BY DEF FreshProcs, Alive
<1>2. vfkit'[p].st # "running" /\ \A q \in Procs \ {p} : vfkit'[q] = vfkit[q]
  BY <1>1 DEF Typed, TypeOK
<1>3. QED  BY <1>1, <1>2 DEF Reachable

LEMMA ClientServes ==
    ASSUME Typed, OneVM, Typed', OneVM', NEW c \in Clients,
           Begin(c) \/ Step(c) \/ Kill(c)
    PROVE  Service!Next \/ UNCHANGED <<disk, RunningOn, marker>>
<1>1. CASE ImageCopy(c)
  <2>1. Off /\ disk = NoImage /\ UNCHANGED <<vfkit, marker>>
    BY <1>1 DEF ImageCopy, At, OneVM, OffWhere, OffAt, UnmadeWhere, UnmadeAt
  <2>2. UNCHANGED disk \/ disk' \in FreshImages
    BY <1>1, <2>1 DEF ImageCopy
  <2>3. FreshImages \subseteq Images
    BY DEF FreshImages
  <2>4. QED
    BY <2>1, <2>2, <2>3, BothOff DEF Service!Next, Service!Provision, Service!Off
<1>2. CASE BuildRename(c)
  <2>1. Off /\ disk = NoImage /\ UNCHANGED <<vfkit, marker>>
    BY <1>2 DEF BuildRename, At, OneVM, OffWhere, OffAt, UnmadeWhere, UnmadeAt,
                BuildLabels
  <2>2. UNCHANGED disk \/ disk' \in Images
    BY <1>2 DEF BuildRename, Typed, TypeOK
  <2>3. QED
    BY <2>1, <2>2, BothOff DEF Service!Next, Service!Provision, Service!Off
<1>3. CASE DestroyUnlink(c)
  <2>1. Off /\ UNCHANGED vfkit
    BY <1>3 DEF DestroyUnlink, At, OneVM, OffWhere, OffAt
  <2>2. \/ disk' = NoImage /\ UNCHANGED marker
        \/ marker' = FALSE /\ UNCHANGED disk
        \/ UNCHANGED <<disk, marker>>
    BY <1>3 DEF DestroyUnlink, Typed, TypeOK
  <2>3. QED
    BY <2>1, <2>2, BothOff DEF Service!Next, Service!Delete, Service!Forget, Service!Off
<1>4. CASE BootstrapMark(c)
  <2>1. disk # NoImage /\ UNCHANGED <<vfkit, disk>>
    BY <1>4 DEF BootstrapMark, OneVM, RanWhere, Configured
  <2>2. UNCHANGED RunningOn
    BY <2>1 DEF RunningOn, Reachable
  <2>3. marker' = TRUE \/ UNCHANGED marker
    BY <1>4 DEF BootstrapMark
  <2>4. QED  BY <2>1, <2>2, <2>3 DEF Service!Next, Service!Configure
<1>5. CASE StopRequest(c)
  <2>1. Reachable("vm")' \subseteq Reachable("vm")
    <3>1. CASE UNCHANGED vfkit
      BY <3>1 DEF Reachable
    <3>2. ASSUME NEW q \in Procs, vfkit' = [vfkit EXCEPT ![q].st = "stopping"]
          PROVE  Reachable("vm")' \subseteq Reachable("vm")
      <4>1. vfkit'[q].st = "stopping" /\ \A p \in Procs \ {q} : vfkit'[p] = vfkit[p]
        BY <3>2 DEF Typed, TypeOK, VfkitState
      <4>2. QED  BY <4>1 DEF Reachable
    <3>3. QED  BY <1>5, <3>1, <3>2 DEF StopRequest
  <2>2. UNCHANGED <<disk, marker>>
    BY <1>5 DEF StopRequest, bootFiles
  <2>3. QED  BY <2>1, <2>2, MayPowerOff DEF Service!Next
<1>6. CASE LaunchVM(c) \/ BuildLaunch(c)
  <2>1. UNCHANGED <<disk, marker>>
    BY <1>6 DEF LaunchVM, BuildLaunch, bootFiles
  <2>2. CASE UNCHANGED vfkit
    BY <2>1, <2>2, Stutters DEF Reachable
  <2>3. CASE \E k \in Kinds, i \in Images \union {NoImage} : Launch(k, i)
    BY <2>1, <2>3, LaunchedNotReached, Stutters
  <2>4. QED  BY <1>6, <2>2, <2>3 DEF LaunchVM, BuildLaunch, Kinds, Typed, TypeOK
<1>7. CASE UNCHANGED <<vfkit, disk, marker>>
  BY <1>7, Stutters DEF Reachable
<1>8. CASE StartStep(c)
  BY <1>1, <1>6, <1>7, <1>8
     DEF StartStep, StartCheck, StartBuildCheck, PrepareDisk, ImageResize, RemoveSocket,
         WaitRunning, bootFiles
<1>9. CASE BuildStep(c)
  BY <1>2, <1>6, <1>7, <1>9
     DEF BuildStep, BuildPrepare, BuildTarget, BuildWait, BuildScript, BuildKernel,
         BuildInitrd, BuildCleanup, bootFiles
<1>10. CASE StopStep(c) \/ DestroyStep(c)
  BY <1>3, <1>5, <1>7, <1>10
     DEF StopStep, StopCheck, StopWait, StopRemove, DestroyStep, DestroyCheck,
         DestroyRunFiles, DestroyList, DestroyRemoveDir, bootFiles
<1>11. CASE BootstrapStep(c) \/ UpgradeStep(c)
  BY <1>4, <1>7, <1>11
     DEF BootstrapStep, BootstrapInspect, BootstrapMarker, BootstrapSSH, BootstrapRun,
         BootstrapReboot, UpgradeStep, UpgradeSSH, UpgradeGuest, UpgradeCopyKernel,
         UpgradeCopyInitrd, bootFiles
<1>12. CASE Begin(c) \/ Kill(c)
  BY <1>7, <1>12 DEF Begin, Kill, bootFiles
<1>13. QED  BY <1>8, <1>9, <1>10, <1>11, <1>12 DEF Step

LEMMA VfkitServes ==
    ASSUME Typed, OneVM, Typed', OneVM', NEW p \in Procs, VfkitStep(p) \/ VfkitCrash(p)
    PROVE  Service!Next \/ UNCHANGED <<disk, RunningOn, marker>>
<1>1. UNCHANGED <<disk, marker>>
  BY DEF VfkitStep, VfkitWritePidFile, VfkitRun, VfkitExit, VfkitCrash, bootFiles
<1>2. CASE VfkitRun(p) /\ vfkit[p].kind = "vm"
  <2>1. /\ vfkit'[p].kind = "vm" /\ vfkit'[p].st = "running"
        /\ \A q \in Procs \ {p} : vfkit'[q] = vfkit[q]
    BY <1>2 DEF VfkitRun, Typed, TypeOK, VfkitState
  <2>2. Live("vm") = {p}
    BY <1>2 DEF VfkitRun, Live, Alive, OneVM, TrackedVM
  <2>3. Reachable("vm") = {}
    BY <1>2, <2>2 DEF VfkitRun, Reachable, Live, Alive
  <2>4. p \in Reachable("vm")'
    BY <2>1 DEF Reachable
  <2>5. RunningOn = NoImage
    BY <2>3, RunsOnTheDisk DEF RunningKnown
  <2>6. RunningOn' = disk' /\ disk' # NoImage
    BY <2>4, StillRunsOnTheDisk DEF RunningKnown
  <2>7. QED  BY <1>1, <2>5, <2>6 DEF Service!Next, Service!PowerOn, Service!Off
<1>3. CASE VfkitRun(p) /\ vfkit[p].kind # "vm"
  <2>1. /\ vfkit'[p].kind # "vm"
        /\ \A q \in Procs \ {p} : vfkit'[q] = vfkit[q]
    BY <1>3 DEF VfkitRun, Typed, TypeOK, VfkitState
  <2>2. Reachable("vm")' = Reachable("vm")
    BY <1>3, <2>1 DEF Reachable
  <2>3. QED  BY <1>1, <2>2, Stutters
<1>4. CASE VfkitWritePidFile(p) \/ VfkitExit(p) \/ VfkitCrash(p)
  <2>1. vfkit'[p].st # "running" /\ \A q \in Procs \ {p} : vfkit'[q] = vfkit[q]
    BY <1>4 DEF VfkitWritePidFile, VfkitExit, VfkitCrash, Dead, Typed, TypeOK, VfkitState
  <2>2. Reachable("vm")' \subseteq Reachable("vm")
    BY <2>1 DEF Reachable
  <2>3. QED  BY <1>1, <2>2, MayPowerOff DEF Service!Next
<1>5. QED  BY <1>2, <1>3, <1>4 DEF VfkitStep

(* While commands run one at a time, every behaviour of the commands is,   *)
(* seen through the refinement, one of the virtual machine VMService       *)
(* promises: no step removes, replaces or recreates the disk while a       *)
(* machine runs, and none notes a configuration for a disk that is not.    *)
THEOREM CommandsImplementService ==
    ASSUME SoleClient, Orderly
    PROVE  Spec => ImplementsService
<1>1. Init => Service!Init
  <2>1. Init => Reachable("vm") = {}
    BY DEF Init, Reachable, Dead
  <2>2. QED  BY <2>1 DEF Init, Service!Init, RunningOn
<1>2. /\ Typed /\ KindsApart /\ OneVM /\ (Typed /\ KindsApart /\ OneVM)' /\ [Next]_vars
      => [Service!Next]_<<disk, RunningOn, marker>>
  <2> SUFFICES ASSUME Typed, OneVM, Typed', OneVM', [Next]_vars
               PROVE  Service!Next \/ UNCHANGED <<disk, RunningOn, marker>>
    OBVIOUS
  <2>1. CASE UNCHANGED vars
    BY <2>1 DEF vars, bootFiles, RunningOn, Reachable
  <2>2. QED  BY <2>1, ClientServes, VfkitServes DEF Next
<1>3. QED
  BY <1>1, <1>2, AlwaysOneVM, PTL DEF Spec, ImplementsService, Service!Spec

-----------------------------------------------------------------------------
(* MarkerTruth.  The marker is created beside a configured disk and stays  *)
(* without one only while a Destroy, which has listed it, unlinks the      *)
(* directory: a Destroy that is killed there leaves the marker to the next *)
(* disk, so nobody is killed here.                                         *)

Marked ==
    /\ MarkerTruth
    /\ marker /\ disk = NoImage => \E c \in Clients : At(c, "destroy_unlink")
    /\ \A c \in Clients : At(c, "destroy_unlink") =>
          /\ marker => "marker" \in client[c].left
          /\ disk # NoImage => "disk" \in client[c].left

(* A step outside the unlinking, of a command that finds no marker without *)
(* a disk and lets none appear.                                            *)
LEMMA MarkKeeps ==
    ASSUME SoleClient, NEW c \in Clients, ~At(c, "destroy_unlink")',
           marker' => Configured'
    PROVE  Marked'
BY DEF SoleClient, Marked, MarkerTruth, Configured, At

LEMMA MarkedConfigured ==
    ASSUME SoleClient, Marked, NEW c \in Clients, ~At(c, "destroy_unlink"), marker
    PROVE  Configured
BY DEF SoleClient, Marked, MarkerTruth, Configured

(* A guest that is changed is no less configured.                          *)
NoLessApplied == \A i \in Images : guest[i].applied > 0 => guest'[i].applied > 0

LEMMA StaysConfigured ==
    ASSUME Typed, Configured, UNCHANGED disk, NoLessApplied
    PROVE  Configured'
BY DEF Configured, NoLessApplied, Typed, TypeOK

LEMMA OtherFieldsChange ==
    ASSUME Typed, NEW j, NEW v,
           \/ guest' = [guest EXCEPT ![j].build = v]
           \/ \E r, k, i : guest' = [guest EXCEPT ![j] = Installed(@, r, k, i)]
    PROVE  NoLessApplied
BY DEF Typed, TypeOK, GuestState, NoLessApplied, Installed

LEMMA StepMarked ==
    ASSUME SoleClient, Typed, OneVM, Marked, NEW c \in Clients, Begin(c) \/ Step(c)
    PROVE  Marked'
<1>1. CASE DestroyStep(c)
  <2>1. CASE DestroyUnlink(c)
    <3> PICK e \in client[c].left :
          /\ client' = [client EXCEPT ![c].left = client[c].left \ {e}]
          /\ disk' = IF e = "disk" THEN NoImage ELSE disk
          /\ marker' = (marker /\ e # "marker")
      BY <2>1 DEF DestroyUnlink
    <3>1. /\ client'[c].pc = "destroy_unlink"
          /\ client'[c].left = client[c].left \ {e}
      BY <2>1 DEF DestroyUnlink, At, Typed, TypeOK, ClientState
    <3>2. /\ marker => "marker" \in client[c].left
          /\ disk # NoImage => "disk" \in client[c].left
      BY <2>1 DEF DestroyUnlink, Marked
    <3>3. MarkerTruth'
      BY <2>1 DEF DestroyUnlink, Marked, MarkerTruth
    <3>4. QED  BY <3>1, <3>2, <3>3 DEF SoleClient, Marked, At
  <2>2. CASE DestroyList(c)
    <3>1. client'[c].pc = "destroy_unlink" /\ client'[c].left = Listed
      BY <2>2 DEF DestroyList, Typed, TypeOK
    <3>2. UNCHANGED <<disk, marker, guest>>
      BY <2>2 DEF DestroyList, bootFiles
    <3>3. /\ marker => "marker" \in Listed
          /\ disk # NoImage => "disk" \in Listed
      BY DEF Listed, Entries
    <3>4. MarkerTruth'
      BY <3>2 DEF Marked, MarkerTruth
    <3>5. QED  BY <3>1, <3>2, <3>3, <3>4 DEF SoleClient, Marked, At
  <2>3. CASE DestroyRemoveDir(c)
    <3>1. ~marker'
      BY <2>3 DEF DestroyRemoveDir, Marked, bootFiles
    <3>2. client'[c].pc = "idle"
      BY <2>3, ReturnLands DEF DestroyRemoveDir, Typed
    <3>3. QED  BY <3>1, <3>2, MarkKeeps DEF At
  <2>4. CASE DestroyCheck(c) \/ DestroyRunFiles(c)
    <3>1. UNCHANGED <<disk, marker, guest>> /\ ~At(c, "destroy_unlink")
      BY <2>4 DEF DestroyCheck, DestroyRunFiles, At, bootFiles
    <3>2. ~At(c, "destroy_unlink")'
      <4>1. \/ CallStop(c, "command") \/ Return(c, FALSE)
            \/ \E l \in {"destroy_run_files", "destroy_list"} : Goto(c, l)
        BY <2>4 DEF DestroyCheck, DestroyRunFiles
      <4>2. QED  BY <4>1, GotoLands, CallStopLands, ReturnLands DEF At, Typed
    <3>3. QED
      BY <3>1, <3>2, MarkKeeps, MarkedConfigured DEF Configured
  <2>5. QED  BY <1>1, <2>1, <2>2, <2>3, <2>4 DEF DestroyStep
<1>2. CASE ~DestroyStep(c)
  <2>1. /\ ~At(c, "destroy_unlink")
        /\ ~At(c, "destroy_unlink")'
    <3>1. CASE StartStep(c)
      BY <3>1, StartMoves DEF Typed, At, StartLabels
    <3>2. CASE BuildStep(c)
      BY <3>2, BuildMoves DEF Typed, At, BuildLabels
    <3>3. CASE StopStep(c)
      BY <3>3, StopMoves DEF Typed, At, StopLabels
    <3>4. CASE BootstrapStep(c)
      BY <3>4, BootstrapMoves DEF Typed, At, BootstrapLabels
    <3>5. CASE UpgradeStep(c)
      BY <3>5, UpgradeMoves DEF Typed, At, UpgradeLabels
    <3>6. CASE Begin(c)
      <4>1. \A o \in Commands : Entry[o] # "destroy_unlink"
        BY CommandsAssumption DEF Entry
      <4>2. QED  BY <3>6, <4>1, BeginLands DEF Begin, Typed, At
    <3>7. QED  BY <1>2, <3>1, <3>2, <3>3, <3>4, <3>5, <3>6 DEF Step
  <2>2. marker => Configured /\ disk # NoImage
    BY <2>1, MarkedConfigured DEF Configured
  <2>3. CASE ImageCopy(c) \/ BuildTarget(c) \/ BuildScript(c) \/ BuildRename(c)
    <3>1. disk = NoImage /\ UNCHANGED marker
      BY <2>3 DEF ImageCopy, BuildTarget, BuildScript, BuildRename, At, OneVM,
                  UnmadeWhere, UnmadeAt, BuildLabels, bootFiles
    <3>2. QED  BY <2>1, <2>2, <3>1, MarkKeeps
  <2>4. CASE BootstrapMark(c)
    <3>1. Configured
      BY <2>4 DEF BootstrapMark, OneVM, RanWhere
    <3>2. Configured'
      BY <2>4, <3>1 DEF BootstrapMark, Configured
    <3>3. QED  BY <2>1, <3>2, MarkKeeps
  <2>5. CASE UNCHANGED <<disk, marker>> /\ NoLessApplied
    BY <2>1, <2>2, <2>5, StaysConfigured, MarkKeeps
  <2>6. CASE ImageResize(c)
    <3>1. NoLessApplied
      <4>1. CASE UNCHANGED guest
        BY <4>1 DEF NoLessApplied
      <4>2. CASE guest' = [guest EXCEPT ![disk].build = "full"]
        BY <4>2, OtherFieldsChange
      <4>3. QED  BY <2>6, <4>1, <4>2 DEF ImageResize
    <3>2. QED  BY <2>5, <2>6, <3>1 DEF ImageResize, bootFiles
  <2>7. CASE BootstrapRun(c)
    <3>1. NoLessApplied
      <4>1. CASE UNCHANGED guest
        BY <4>1 DEF NoLessApplied
      <4>2. ASSUME NEW j, guest' = [guest EXCEPT ![j].applied = OnceMore(@)]
            PROVE  NoLessApplied
        <5>1. \A n \in 0..2 : OnceMore(n) > 0
          BY DEF OnceMore
        <5>2. \A i \in Images : guest'[i].applied \in
                                    {guest[i].applied, OnceMore(guest[i].applied)}
          BY <4>2 DEF Typed, TypeOK, GuestState
        <5>3. QED  BY <5>1, <5>2 DEF NoLessApplied, Typed, TypeOK, GuestState
      <4>3. QED  BY <2>7, <4>1, <4>2 DEF BootstrapRun
    <3>2. QED  BY <2>5, <2>7, <3>1 DEF BootstrapRun, bootFiles
  <2>8. CASE UpgradeGuest(c)
    <3>1. NoLessApplied
      <4>1. CASE UNCHANGED guest
        BY <4>1 DEF NoLessApplied
      <4>2. ASSUME NEW p, NEW r, NEW k, NEW i,
                   guest' = [guest EXCEPT ![vfkit[p].disk] = Installed(@, r, k, i)]
            PROVE  NoLessApplied
        BY <4>2, OtherFieldsChange
      <4>3. QED  BY <2>8, <4>1, <4>2 DEF UpgradeGuest
    <3>2. QED  BY <2>5, <2>8, <3>1 DEF UpgradeGuest, bootFiles
  <2>9. CASE UNCHANGED <<disk, marker, guest>>
    BY <2>5, <2>9 DEF NoLessApplied
  <2>10. CASE StartStep(c) \/ BuildStep(c)
    BY <2>3, <2>6, <2>9, <2>10
       DEF StartStep, StartCheck, StartBuildCheck, PrepareDisk, RemoveSocket, LaunchVM,
           WaitRunning, BuildStep, BuildPrepare, BuildLaunch, BuildWait, BuildKernel,
           BuildInitrd, BuildCleanup, bootFiles
  <2>11. CASE StopStep(c) \/ BootstrapStep(c) \/ UpgradeStep(c) \/ Begin(c)
    BY <2>4, <2>7, <2>8, <2>9, <2>11
       DEF StopStep, StopCheck, StopRequest, StopWait, StopRemove, BootstrapStep,
           BootstrapInspect, BootstrapMarker, BootstrapSSH, BootstrapReboot,
           UpgradeStep, UpgradeSSH,
           UpgradeCopyKernel, UpgradeCopyInitrd, Begin, bootFiles
  <2>12. QED  BY <1>2, <2>10, <2>11 DEF Step
<1>3. QED  BY <1>1, <1>2

LEMMA NextMarked ==
    ASSUME SoleClient, NobodyKilled
    PROVE  Typed /\ OneVM /\ Marked /\ [Next]_vars => Marked'
<1> SUFFICES ASSUME Typed, OneVM, Marked, [Next]_vars PROVE Marked'
  OBVIOUS
<1>1. ASSUME NEW c \in Clients, Begin(c) \/ Step(c) \/ Kill(c)
      PROVE  Marked'
  BY <1>1, StepMarked DEF Kill, NobodyKilled
<1>2. CASE UNCHANGED <<client, bootFiles, guest>>
  BY <1>2 DEF bootFiles, Marked, MarkerTruth, At
<1>3. ASSUME NEW p \in Procs, VfkitStep(p) \/ VfkitCrash(p)
      PROVE  Marked'
  BY <1>2, <1>3 DEF VfkitStep, VfkitWritePidFile, VfkitRun, VfkitExit, VfkitCrash
<1>4. QED  BY <1>1, <1>2, <1>3 DEF Next, vars

(* While commands run one at a time and none is killed, bootstrap.done is  *)
(* only found beside a disk whose guest was configured: Destroy, which may *)
(* be refused or find the VM running, never leaves it to the next disk.    *)
THEOREM MarkerTellsTruth ==
    ASSUME SoleClient, NobodyKilled
    PROVE  Spec => []MarkerTruth
<1>1. Orderly
  BY DEF NobodyKilled, Orderly
<1>2. Init => Marked
  <2>1. ASSUME Init, NEW c \in Clients
        PROVE  client[c].pc = "idle"
    BY <2>1 DEF Init, Idle
  <2>2. QED  BY <2>1 DEF Init, Marked, MarkerTruth, At
<1>3. Typed /\ OneVM /\ Marked /\ [Next]_vars => Marked'
  BY NextMarked
<1>4. Marked => MarkerTruth
  BY DEF Marked
<1>5. QED  BY <1>1, <1>2, <1>3, <1>4, AlwaysOneVM, PTL DEF Spec

-----------------------------------------------------------------------------
(* UpgradeTakesEffect.  What an upgrade knows at each of its labels; past  *)
(* the copies it only stops the VM and starts it, and finds the disk there. *)

AssetOf(i) == [image |-> i, release |-> guest[i].release]

RestartLabels == {"start_check", "start_build_check", "prepare_disk", "remove_socket",
                  "launch", "wait_running"}

(* Releases sort by name in the order they follow each other.              *)
NamesRise == \A q, r \in 1..MaxRelease : q < r => Rank[q] < Rank[r]

(* No guest has the files of a release newer than the one it installed.    *)
NoneNewer(g) == g.kernels \union g.initrds \subseteq 1..g.release
NotNewer     == \A i \in Images : NoneNewer(guest[i])

LEMMA LastIsNewest ==
    ASSUME NamesRise, NEW r \in 1..MaxRelease, NEW S, S \subseteq 1..r, r \in S
    PROVE  LastOf(S) = {r}
<1>1. \A q \in S : q \in 1..MaxRelease /\ Rank[q] \in Nat /\ (q = r \/ Rank[q] < Rank[r])
  BY RankAssumption, ReleaseAssumption DEF NamesRise
<1>2. \A q \in S : (\A s \in S : Rank[s] <= Rank[q]) <=> q = r
  BY <1>1
<1>3. QED  BY <1>2 DEF LastOf

(* What a step does to a guest, as far as its boot files are concerned.    *)
LEMMA GuestSteps ==
    ASSUME Typed, NEW j,
           \/ guest' = [guest EXCEPT ![j] = BlankImage("partial")]
           \/ guest' = [guest EXCEPT ![j] = BlankImage("blank")]
           \/ \E v : guest' = [guest EXCEPT ![j].build = v]
           \/ \E v : guest' = [guest EXCEPT ![j].applied = v]
           \/ UNCHANGED guest,
           NotNewer
    PROVE  NotNewer'
<1>1. ASSUME NEW i \in Images
      PROVE  \/ guest'[i] \in {BlankImage("partial"), BlankImage("blank")}
             \/ /\ guest'[i].kernels = guest[i].kernels
                /\ guest'[i].initrds = guest[i].initrds
                /\ guest'[i].release = guest[i].release
  BY DEF Typed, TypeOK, GuestState
<1>2. \A b : NoneNewer(BlankImage(b))
  BY DEF NoneNewer, BlankImage
<1>3. QED  BY <1>1, <1>2 DEF NotNewer, NoneNewer

LEMMA InstallsNotNewer ==
    ASSUME Typed, NotNewer, NEW d \in Images, NEW r \in 1..MaxRelease,
           r >= guest[d].release, NEW k \in SUBSET {r}, NEW i \in SUBSET {r},
           guest' = [guest EXCEPT ![d] = Installed(@, r, k, i)]
    PROVE  NotNewer'
<1>1. /\ guest'[d].release = r
      /\ guest'[d].kernels = guest[d].kernels \union k
      /\ guest'[d].initrds = guest[d].initrds \union i
      /\ \A j \in Images \ {d} : guest'[j] = guest[j]
  BY DEF Typed, TypeOK, GuestState, Installed
<1>2. NoneNewer(guest[d]) /\ guest[d].release \in Nat /\ r \in Nat
  BY ReleaseAssumption DEF NotNewer, Typed, TypeOK, GuestState
<1>3. NoneNewer(guest'[d])
  BY <1>1, <1>2 DEF NoneNewer
<1>4. QED  BY <1>1, <1>3 DEF NotNewer

LEMMA NextNotNewer ==
    ASSUME Typed, NotNewer, [Next]_vars
    PROVE  NotNewer'
<1>1. CASE UNCHANGED guest
  BY <1>1, GuestSteps
<1>2. ASSUME NEW c \in Clients, StartStep(c)
      PROVE  NotNewer'
  <2>1. CASE ImageCopy(c)
    <3>1. \/ UNCHANGED guest
          \/ \E i : guest' = [guest EXCEPT ![i] = BlankImage("partial")]
      BY <2>1 DEF ImageCopy
    <3>2. QED  BY <3>1, GuestSteps
  <2>2. CASE ImageResize(c)
    BY <2>2, GuestSteps DEF ImageResize
  <2>3. CASE StartStep(c) /\ ~ImageCopy(c) /\ ~ImageResize(c)
    BY <1>1, <2>3 DEF StartStep, StartCheck, StartBuildCheck, PrepareDisk, RemoveSocket,
                      LaunchVM, WaitRunning
  <2>4. QED  BY <1>2, <2>1, <2>2, <2>3
<1>3. ASSUME NEW c \in Clients, BuildStep(c)
      PROVE  NotNewer'
  <2>1. CASE BuildTarget(c)
    <3>1. \/ UNCHANGED guest
          \/ \E i : guest' = [guest EXCEPT ![i] = BlankImage("blank")]
      BY <2>1 DEF BuildTarget
    <3>2. QED  BY <3>1, GuestSteps
  <2>2. CASE BuildScript(c)
    <3>1. \/ UNCHANGED guest
          \/ \E j, v : guest' = [guest EXCEPT ![j].build = v]
      BY <2>2 DEF BuildScript
    <3>2. QED  BY <3>1, GuestSteps
  <2>3. CASE BuildStep(c) /\ ~BuildTarget(c) /\ ~BuildScript(c)
    BY <1>1, <2>3 DEF BuildStep, BuildPrepare, BuildLaunch, BuildWait, BuildKernel,
                      BuildInitrd, BuildRename, BuildCleanup
  <2>4. QED  BY <1>3, <2>1, <2>2, <2>3
<1>4. ASSUME NEW c \in Clients, BootstrapStep(c)
      PROVE  NotNewer'
  <2>1. CASE BootstrapRun(c)
    <3>1. \/ UNCHANGED guest
          \/ \E j, v : guest' = [guest EXCEPT ![j].applied = v]
      BY <2>1 DEF BootstrapRun
    <3>2. QED  BY <3>1, GuestSteps
  <2>2. CASE BootstrapStep(c) /\ ~BootstrapRun(c)
    BY <1>1, <2>2 DEF BootstrapStep, BootstrapInspect, BootstrapMarker, BootstrapSSH,
                      BootstrapMark, BootstrapReboot
  <2>3. QED  BY <1>4, <2>1, <2>2
<1>5. ASSUME NEW c \in Clients, UpgradeStep(c)
      PROVE  NotNewer'
  <2>1. CASE UpgradeGuest(c)
    <3>1. ASSUME NEW p \in Reachable("vm"), NEW r \in 1..MaxRelease,
                 r >= guest[vfkit[p].disk].release,
                 NEW k \in SUBSET {r}, NEW i \in SUBSET {r},
                 guest' = [guest EXCEPT ![vfkit[p].disk] = Installed(@, r, k, i)]
          PROVE  NotNewer'
      <4>1. vfkit[p].disk \in Images
        BY DEF Reachable, Typed, TypeOK, VfkitState, RunsOnADisk
      <4>2. QED  BY <3>1, <4>1, InstallsNotNewer
    <3>2. \/ UNCHANGED guest
          \/ \E p \in Reachable("vm"), r \in 1..MaxRelease :
                /\ r >= guest[vfkit[p].disk].release
                /\ \E k, i \in SUBSET {r} :
                      guest' = [guest EXCEPT ![vfkit[p].disk] = Installed(@, r, k, i)]
      BY <2>1 DEF UpgradeGuest
    <3>3. QED  BY <1>1, <3>1, <3>2
  <2>2. CASE UpgradeStep(c) /\ ~UpgradeGuest(c)
    BY <1>1, <2>2 DEF UpgradeStep, UpgradeSSH, UpgradeCopyKernel, UpgradeCopyInitrd
  <2>3. QED  BY <1>5, <2>1, <2>2
<1>6. ASSUME NEW c \in Clients, StopStep(c) \/ DestroyStep(c) \/ Begin(c) \/ Kill(c)
      PROVE  UNCHANGED guest
  BY <1>6 DEF StopStep, StopCheck, StopRequest, StopWait, StopRemove, DestroyStep,
              DestroyCheck, DestroyRunFiles, DestroyList, DestroyUnlink,
              DestroyRemoveDir, Begin, Kill
<1>7. ASSUME NEW p \in Procs, VfkitStep(p) \/ VfkitCrash(p)
      PROVE  UNCHANGED guest
  BY <1>7 DEF VfkitStep, VfkitWritePidFile, VfkitRun, VfkitExit, VfkitCrash
<1>8. CASE UNCHANGED vars
  BY <1>1, <1>8 DEF vars
<1>9. QED  BY <1>1, <1>2, <1>3, <1>4, <1>5, <1>6, <1>7, <1>8 DEF Next, Step

(* The guest on the disk has both files of the release it installed.       *)
BootHolds ==
    /\ disk # NoImage
    /\ guest[disk].release \in guest[disk].kernels \intersect guest[disk].initrds

UpgradedSoFar ==
    \A c \in Clients : client[c].op = "upgrade" =>
        /\ \/ client[c].pc \in {"upgrade_ssh", "upgrade_guest", "upgrade_kernel"}
           \/ disk # NoImage /\ kernel = AssetOf(disk)
        /\ client[c].pc \in {"upgrade_kernel", "upgrade_initrd"} => BootHolds
        /\ client[c].pc \in UpgradeLabels \/ initrd = kernel
        /\ \/ client[c].pc \in UpgradeLabels \union RestartLabels
           \/ client[c].pc \in StopLabels /\ client[c].site = "command"

LEMMA CommandStays ==
    ASSUME TypeOK, NEW c \in Clients, Step(c) \/ Kill(c)
    PROVE  client'[c].op \in {client[c].op, "none"}
<1>1. CASE \E r \in BOOLEAN : \/ StartReturns(c, r) \/ StopReturns(c, r)
                              \/ BuildEnds(c, r) \/ Return(c, r)
  BY <1>1, StartReturnsLands, StopReturnsLands, BuildEndsLands, ReturnLands
<1>2. CASE \/ \E s \in StopSites : CallStop(c, s)
           \/ \E l \in Labels : Goto(c, l)
  BY <1>2, CallStopLands, GotoLands
<1>3. CASE StartStep(c)
  <2>1. \/ \E r \in BOOLEAN : StartReturns(c, r)
        \/ \E l \in Labels : Goto(c, l)
    BY <1>3 DEF StartStep, StartCheck, StartBuildCheck, PrepareDisk, ImageCopy,
                ImageResize, RemoveSocket, LaunchVM, WaitRunning, Labels
  <2>2. QED  BY <2>1, <1>1, <1>2
<1>4. CASE BuildStep(c)
  <2>1. \/ \E r \in BOOLEAN : StartReturns(c, r) \/ BuildEnds(c, r)
        \/ \E s \in StopSites : CallStop(c, s)
        \/ \E l \in Labels : Goto(c, l)
    BY <1>4 DEF BuildStep, BuildPrepare, BuildTarget, BuildLaunch, BuildWait,
                BuildScript, BuildKernel, BuildInitrd, BuildRename, BuildCleanup,
                Labels, StopSites
  <2>2. QED  BY <2>1, <1>1, <1>2
<1>5. CASE StopStep(c)
  <2>1. \/ \E r \in BOOLEAN : StopReturns(c, r)
        \/ \E l \in Labels : Goto(c, l)
    BY <1>5 DEF StopStep, StopCheck, StopRequest, StopWait, StopRemove, Labels
  <2>2. QED  BY <2>1, <1>1, <1>2
<1>6. CASE DestroyStep(c)
  <2>1. CASE DestroyList(c) \/ DestroyUnlink(c)
    BY <2>1 DEF DestroyList, DestroyUnlink, TypeOK, ClientState
  <2>2. CASE DestroyCheck(c) \/ DestroyRunFiles(c) \/ DestroyRemoveDir(c)
    <3>1. \/ \E r \in BOOLEAN : Return(c, r)
          \/ \E s \in StopSites : CallStop(c, s)
          \/ \E l \in Labels : Goto(c, l)
      BY <2>2 DEF DestroyCheck, DestroyRunFiles, DestroyRemoveDir, Labels, StopSites
    <3>2. QED  BY <3>1, <1>1, <1>2
  <2>3. QED  BY <1>6, <2>1, <2>2 DEF DestroyStep
<1>7. CASE BootstrapStep(c) \/ UpgradeStep(c)
  <2>1. \/ \E r \in BOOLEAN : Return(c, r)
        \/ \E s \in StopSites : CallStop(c, s)
        \/ \E l \in Labels : Goto(c, l)
    BY <1>7 DEF BootstrapStep, BootstrapInspect, BootstrapMarker, BootstrapSSH,
                BootstrapRun, BootstrapMark, BootstrapReboot, UpgradeStep, UpgradeSSH,
                UpgradeGuest, UpgradeCopyKernel, UpgradeCopyInitrd, Labels, StopSites
  <2>2. QED  BY <2>1, <1>1, <1>2
<1>8. QED  BY <1>1, <1>3, <1>4, <1>5, <1>6, <1>7 DEF Step, Kill

(* The guest that answers is the one on the disk.                          *)
LEMMA CopiedFromTheDisk ==
    ASSUME Typed, OneVM, NEW p \in Reachable("vm")
    PROVE  disk \in Images /\ vfkit[p].disk = disk
BY DEF Reachable, OneVM, OnTheDisk, Live, Alive, Typed, TypeOK, VfkitState, RunsOnADisk

(* And what is copied from it is what it has installed.                    *)
LEMMA CopiesTheNewest ==
    ASSUME NamesRise, Typed, OneVM, NotNewer, BootHolds, NEW p \in Reachable("vm")
    PROVE  KernelsOf(p) = {AssetOf(disk)} /\ InitrdsOf(p) = {AssetOf(disk)}
<1> DEFINE r == guest[disk].release
<1>1. disk \in Images /\ vfkit[p].disk = disk
  BY CopiedFromTheDisk
<1>2. r \in 1..MaxRelease
  BY <1>1 DEF Typed, TypeOK, GuestState
<1>3. guest[disk].kernels \subseteq 1..r /\ guest[disk].initrds \subseteq 1..r
  BY <1>1 DEF NotNewer, NoneNewer
<1>4. r \in guest[disk].kernels /\ r \in guest[disk].initrds
  BY DEF BootHolds
<1> HIDE DEF r
<1>5. LastOf(guest[disk].kernels) = {r} /\ LastOf(guest[disk].initrds) = {r}
  BY <1>2, <1>3, <1>4, LastIsNewest
<1>6. KernelsOf(p) = [image : {disk}, release : {r}] /\ InitrdsOf(p) = KernelsOf(p)
  BY <1>1, <1>5 DEF KernelsOf, InitrdsOf
<1>7. [image : {disk}, release : {r}] = {[image |-> disk, release |-> r]}
  <2>1. ASSUME NEW a \in [image : {disk}, release : {r}]
        PROVE  a = [image |-> disk, release |-> r]
    <3>1. a = [image |-> a.image, release |-> a.release]
      OBVIOUS
    <3>2. a.image = disk /\ a.release = r
      OBVIOUS
    <3>3. QED  BY <3>1, <3>2
  <2>2. [image |-> disk, release |-> r] \in [image : {disk}, release : {r}]
    OBVIOUS
  <2>3. QED  BY <2>1, <2>2
<1>8. AssetOf(disk) = [image |-> disk, release |-> r]
  BY DEF AssetOf, r
<1>9. QED  BY <1>6, <1>7, <1>8

LEMMA UpgradeInstalls ==
    ASSUME SoleClient, Typed, OneVM, UpgradedSoFar, NEW c \in Clients, UpgradeGuest(c)
    PROVE  UpgradedSoFar'
<1>1. CASE Return(c, FALSE)
  BY <1>1, ReturnLands DEF Typed, SoleClient, UpgradedSoFar
<1>2. ASSUME NEW p \in Reachable("vm"), NEW r \in 1..MaxRelease,
             guest' = [guest EXCEPT ![vfkit[p].disk] = Installed(@, r, {r}, {r})],
             Goto(c, "upgrade_kernel")
      PROVE  UpgradedSoFar'
  <2>1. disk \in Images /\ vfkit[p].disk = disk /\ disk' = disk
    BY CopiedFromTheDisk DEF UpgradeGuest, bootFiles
  <2>2. guest'[disk] = Installed(guest[disk], r, {r}, {r})
    BY <1>2, <2>1 DEF Typed, TypeOK
  <2>3. BootHolds'
    BY <2>1, <2>2, IdentifiersAssumption DEF BootHolds, Installed
  <2>4. client'[c].pc = "upgrade_kernel"
    BY <1>2, GotoLands DEF Typed
  <2>5. QED  BY <2>3, <2>4 DEF SoleClient, UpgradedSoFar, UpgradeLabels
<1>3. QED  BY <1>1, <1>2 DEF UpgradeGuest

LEMMA UpgradeCopies ==
    ASSUME SoleClient, NamesRise, Typed, OneVM, NotNewer, UpgradedSoFar,
           NEW c \in Clients, client[c].op = "upgrade", UpgradeStep(c)
    PROVE  UpgradedSoFar'
<1>1. CASE UpgradeSSH(c)
  <2>1. Return(c, FALSE) \/ Goto(c, "upgrade_guest")
    BY <1>1 DEF UpgradeSSH
  <2>2. client'[c].op = "none" \/ client'[c].pc = "upgrade_guest"
    BY <2>1, ReturnLands, GotoLands DEF Typed
  <2>3. QED  BY <2>2 DEF SoleClient, UpgradedSoFar, UpgradeLabels
<1>2. CASE UpgradeCopyKernel(c)
  <2>1. BootHolds
    BY <1>2 DEF UpgradeCopyKernel, At, UpgradedSoFar
  <2>2. CASE Return(c, FALSE)
    BY <2>2, ReturnLands DEF Typed, SoleClient, UpgradedSoFar
  <2>3. ASSUME NEW p \in Reachable("vm"), kernel' \in KernelsOf(p),
               Goto(c, "upgrade_initrd")
        PROVE  UpgradedSoFar'
    <3>1. kernel' = AssetOf(disk)
      BY <2>1, <2>3, CopiesTheNewest
    <3>2. UNCHANGED <<disk, guest>>
      BY <1>2 DEF UpgradeCopyKernel
    <3>3. kernel' = AssetOf(disk)' /\ BootHolds' /\ disk' # NoImage
      BY <2>1, <3>1, <3>2 DEF AssetOf, BootHolds
    <3>4. client'[c].pc = "upgrade_initrd"
      BY <2>3, GotoLands DEF Typed
    <3>5. QED  BY <3>3, <3>4 DEF SoleClient, UpgradedSoFar, UpgradeLabels
  <2>4. QED  BY <1>2, <2>2, <2>3 DEF UpgradeCopyKernel
<1>3. CASE UpgradeCopyInitrd(c)
  <2>1. BootHolds /\ kernel = AssetOf(disk)
    BY <1>3 DEF UpgradeCopyInitrd, At, UpgradedSoFar
  <2>2. CASE Return(c, FALSE)
    BY <2>2, ReturnLands DEF Typed, SoleClient, UpgradedSoFar
  <2>3. ASSUME NEW p \in Reachable("vm"), initrd' \in InitrdsOf(p),
               CallStop(c, "command")
        PROVE  UpgradedSoFar'
    <3>1. initrd' = AssetOf(disk) /\ disk # NoImage
      BY <2>1, <2>3, CopiesTheNewest DEF BootHolds
    <3>2. /\ client'[c].pc = "stop_check" /\ client'[c].site = "command"
      BY <2>3, CallStopLands DEF Typed
    <3>3. UNCHANGED <<disk, kernel, guest>>
      BY <1>3 DEF UpgradeCopyInitrd
    <3>4. AssetOf(disk)' = AssetOf(disk)
      BY <3>3 DEF AssetOf
    <3>5. QED
      BY <2>1, <3>1, <3>2, <3>3, <3>4 DEF SoleClient, UpgradedSoFar, StopLabels
  <2>4. QED  BY <1>3, <2>2, <2>3 DEF UpgradeCopyInitrd
<1>4. QED  BY <1>1, <1>2, <1>3, UpgradeInstalls DEF UpgradeStep

(* The files are as they were, and the upgrade goes on to stop or to start. *)
LEMMA UpgradeGoesOn ==
    ASSUME SoleClient, UpgradedSoFar, NEW c \in Clients, client[c].op = "upgrade",
           client[c].pc \notin UpgradeLabels,
           client'[c].op = "upgrade" =>
               \/ client'[c].pc \in RestartLabels
               \/ client'[c].pc \in StopLabels /\ client'[c].site = "command",
           UNCHANGED <<disk, kernel, initrd, guest>>
    PROVE  UpgradedSoFar'
<1>1. disk # NoImage /\ kernel = AssetOf(disk) /\ initrd = kernel
  BY DEF UpgradedSoFar, UpgradeLabels
<1>2. AssetOf(disk)' = AssetOf(disk)
  BY DEF AssetOf
<1>3. QED
  BY <1>1, <1>2 DEF SoleClient, UpgradedSoFar, RestartLabels, StopLabels

LEMMA UpgradeRestarts ==
    ASSUME SoleClient, Typed, UpgradedSoFar, NEW c \in Clients, client[c].op = "upgrade",
           StartStep(c)
    PROVE  UpgradedSoFar'
<1>1. client[c].pc \in RestartLabels /\ disk # NoImage
  BY StartMoves DEF Typed, UpgradedSoFar, StartLabels, UpgradeLabels, StopLabels,
                    RestartLabels
<1>2. ~ImageCopy(c) /\ ~ImageResize(c)
  BY <1>1 DEF ImageCopy, ImageResize, At, RestartLabels
<1>3. UNCHANGED <<disk, kernel, initrd, guest>>
  BY <1>2 DEF StartStep, StartCheck, StartBuildCheck, PrepareDisk, RemoveSocket,
              LaunchVM, WaitRunning, bootFiles
<1>4. \/ \E r \in BOOLEAN : StartReturns(c, r)
      \/ \E l \in RestartLabels : Goto(c, l)
  BY <1>1, <1>2 DEF StartStep, StartCheck, StartBuildCheck, PrepareDisk, RemoveSocket,
              LaunchVM, WaitRunning, RestartLabels
<1>5. client'[c].op = "upgrade" => client'[c].pc \in RestartLabels
  BY <1>4, StartReturnsLands, GotoLands DEF Typed
<1>6. client[c].pc \notin UpgradeLabels
  BY <1>1 DEF RestartLabels, UpgradeLabels
<1>7. QED  BY <1>3, <1>5, <1>6, UpgradeGoesOn

LEMMA UpgradeStops ==
    ASSUME SoleClient, Typed, UpgradedSoFar, NEW c \in Clients, client[c].op = "upgrade",
           StopStep(c)
    PROVE  UpgradedSoFar'
<1>1. client[c].pc \in StopLabels
  BY StopMoves DEF Typed
<1>2. client[c].site = "command" /\ client[c].pc \notin UpgradeLabels
  BY <1>1 DEF UpgradedSoFar, StopLabels, UpgradeLabels, RestartLabels
<1>3. \/ \E r \in BOOLEAN : StopReturns(c, r)
      \/ \E l \in StopLabels : Goto(c, l)
  BY DEF StopStep, StopCheck, StopRequest, StopWait, StopRemove, StopLabels
<1>4. client'[c].op = "upgrade" =>
         \/ client'[c].pc \in RestartLabels
         \/ client'[c].pc \in StopLabels /\ client'[c].site = "command"
  BY <1>2, <1>3, StopReturnsLands, GotoLands DEF Typed, RestartLabels
<1>5. UNCHANGED <<disk, kernel, initrd, guest>>
  BY DEF StopStep, StopCheck, StopRequest, StopWait, StopRemove, bootFiles
<1>6. QED  BY <1>2, <1>4, <1>5, UpgradeGoesOn

LEMMA NextUpgraded ==
    ASSUME SoleClient, NamesRise
    PROVE  Typed /\ OneVM /\ NotNewer /\ UpgradedSoFar /\ [Next]_vars => UpgradedSoFar'
<1> SUFFICES ASSUME Typed, OneVM, NotNewer, UpgradedSoFar, [Next]_vars
             PROVE  UpgradedSoFar'
  OBVIOUS
<1>1. ASSUME NEW c \in Clients, Step(c) \/ Kill(c)
      PROVE  UpgradedSoFar'
  <2>1. CASE client'[c].op # "upgrade"
    BY <2>1 DEF SoleClient, UpgradedSoFar
  <2>2. CASE client[c].op = "upgrade" /\ client'[c].op = "upgrade"
    <3>1. ~BuildStep(c)
      BY <2>2, BuildMoves DEF Typed, UpgradedSoFar, UpgradeLabels, RestartLabels,
                              StopLabels, BuildLabels
    <3>2. ~DestroyStep(c)
      BY <2>2 DEF DestroyStep, DestroyCheck, DestroyRunFiles, DestroyList, DestroyUnlink,
                  DestroyRemoveDir, At, UpgradedSoFar, UpgradeLabels, RestartLabels,
                  StopLabels
    <3>3. ~BootstrapStep(c)
      BY <2>2, BootstrapMoves DEF Typed, UpgradedSoFar, UpgradeLabels, RestartLabels,
                                  StopLabels, BootstrapLabels
    <3>4. ~Kill(c)
      BY <2>2, ReturnLands DEF Kill, Typed
    <3>5. QED
      BY <1>1, <2>2, <3>1, <3>2, <3>3, <3>4, UpgradeRestarts, UpgradeStops, UpgradeCopies
         DEF Step
  <2>3. QED  BY <1>1, <2>1, <2>2, CommandStays DEF Typed
<1>2. ASSUME NEW c \in Clients, Begin(c)
      PROVE  UpgradedSoFar'
  <2>1. client'[c].op = "upgrade" => client'[c].pc = "upgrade_ssh"
    <3>1. Entry["upgrade"] = "upgrade_ssh"
      BY DEF Entry
    <3>2. QED  BY <1>2, <3>1, BeginLands DEF Typed
  <2>2. QED  BY <2>1 DEF SoleClient, UpgradedSoFar, UpgradeLabels
<1>3. CASE UNCHANGED <<client, bootFiles, guest>>
  BY <1>3 DEF bootFiles, UpgradedSoFar, AssetOf, BootHolds
<1>4. ASSUME NEW p \in Procs, VfkitStep(p) \/ VfkitCrash(p)
      PROVE  UpgradedSoFar'
  BY <1>3, <1>4 DEF VfkitStep, VfkitWritePidFile, VfkitRun, VfkitExit, VfkitCrash
<1>5. QED  BY <1>1, <1>2, <1>3, <1>4 DEF Next, vars

(* An upgrade succeeds at the end of the start that ends it, not before.   *)
LEMMA UpgradeSucceedsLate ==
    ASSUME SoleClient, Typed, [Next]_vars, NEW c \in Clients, Succeeds(c, "upgrade")
    PROVE  client[c].pc \notin UpgradeLabels
<1>1. client' # client /\ client'[c].pc = "idle" /\ client'[c].ok = TRUE
  BY DEF Succeeds, Idle
<1>2. Begin(c) \/ Step(c) \/ Kill(c)
  <2>1. ~UNCHANGED vars
    BY <1>1 DEF vars
  <2>2. ASSUME NEW p \in Procs, VfkitStep(p) \/ VfkitCrash(p)
        PROVE  FALSE
    BY <1>1, <2>2 DEF VfkitStep, VfkitWritePidFile, VfkitRun, VfkitExit, VfkitCrash
  <2>3. QED  BY <2>1, <2>2 DEF Next, SoleClient
<1>3. ~Begin(c)
  <2>1. \A o \in Commands : Entry[o] # "idle"
    BY CommandsAssumption DEF Entry
  <2>2. QED  BY <1>1, <2>1, BeginLands DEF Typed
<1>4. ~Kill(c)
  BY <1>1, ReturnLands DEF Kill, Typed
<1>5. ~UpgradeStep(c)
  <2>1. UpgradeStep(c) => \/ Return(c, FALSE) \/ CallStop(c, "command")
                          \/ \E l \in UpgradeLabels : Goto(c, l)
    BY DEF UpgradeStep, UpgradeSSH, UpgradeGuest, UpgradeCopyKernel, UpgradeCopyInitrd,
           UpgradeLabels
  <2>2. QED
    BY <1>1, <2>1, ReturnLands, CallStopLands, GotoLands DEF Typed, UpgradeLabels
<1>6. StartStep(c) => client[c].pc \notin UpgradeLabels
  BY StartMoves DEF Typed, StartLabels, UpgradeLabels
<1>7. BuildStep(c) => client[c].pc \notin UpgradeLabels
  BY BuildMoves DEF Typed, BuildLabels, UpgradeLabels
<1>8. StopStep(c) => client[c].pc \notin UpgradeLabels
  BY StopMoves DEF Typed, StopLabels, UpgradeLabels
<1>9. DestroyStep(c) => client[c].pc \notin UpgradeLabels
  BY DEF DestroyStep, DestroyCheck, DestroyRunFiles, DestroyList, DestroyUnlink,
         DestroyRemoveDir, At, UpgradeLabels
<1>10. BootstrapStep(c) => client[c].pc \notin UpgradeLabels
  BY BootstrapMoves DEF Typed, BootstrapLabels, UpgradeLabels
<1>11. QED
  BY <1>2, <1>3, <1>4, <1>5, <1>6, <1>7, <1>8, <1>9, <1>10 DEF Step

(* While commands run one at a time, an UpgradeKernel that reports success *)
(* leaves the host with the guest's kernel and initrd, although the VM it  *)
(* copies from, stops and starts again may crash or refuse to stop, and    *)
(* although an upgrade that failed may have left either file: when names   *)
(* sort in the order of the releases.                                      *)
THEOREM UpgradesTakeEffect ==
    ASSUME SoleClient, Orderly, NamesRise
    PROVE  Spec => UpgradeTakesEffect
<1>1. Init => UpgradedSoFar /\ NotNewer
  <2>1. ASSUME Init, NEW c \in Clients
        PROVE  client[c].op = "none"
    BY <2>1 DEF Init, Idle
  <2>2. Init => NotNewer
    BY DEF Init, NotNewer, NoneNewer, BlankImage
  <2>3. QED  BY <2>1, <2>2 DEF UpgradedSoFar
<1>2. /\ Typed /\ NotNewer /\ [Next]_vars => NotNewer'
      /\ Typed /\ OneVM /\ NotNewer /\ UpgradedSoFar /\ [Next]_vars => UpgradedSoFar'
  BY NextNotNewer, NextUpgraded
<1>3. Typed /\ UpgradedSoFar /\ [Next]_vars =>
        [\A c \in Clients : Succeeds(c, "upgrade") =>
          /\ kernel = [image |-> disk, release |-> guest[disk].release]
          /\ initrd = kernel]_vars
  <2> SUFFICES ASSUME Typed, UpgradedSoFar, [Next]_vars,
                      NEW c \in Clients, Succeeds(c, "upgrade")
               PROVE  /\ kernel = [image |-> disk, release |-> guest[disk].release]
                      /\ initrd = kernel
    OBVIOUS
  <2>1. client[c].pc \notin UpgradeLabels
    BY UpgradeSucceedsLate
  <2>2. QED  BY <2>1 DEF UpgradedSoFar, Succeeds, AssetOf, UpgradeLabels
<1>4. QED
  BY <1>1, <1>2, <1>3, AlwaysOneVM, PTL DEF Spec, UpgradeTakesEffect

-----------------------------------------------------------------------------
(* PublishedPair.                                                          *)

PairSoFar ==
    \A c \in Clients :
        /\ At(c, "build_initrd") => kernel = AssetOf(building)
        /\ AssetsCopied(c) => kernel = initrd /\ kernel.image = building

LEMMA ElsewherePair ==
    ASSUME SoleClient, NEW c \in Clients, NotPastCopy(c)
    PROVE  PairSoFar'
BY DEF SoleClient, NotPastCopy, PairSoFar, At

LEMMA CopiedFromTheBuild ==
    ASSUME TheBuild, NEW p \in Reachable("build")
    PROVE  AssetOn(p) = AssetOf(building)
BY DEF Reachable, TheBuild, Up, Live, Alive, AssetOn, AssetOf

LEMMA BuildPairs ==
    ASSUME SoleClient, Typed, TheBuild, PairSoFar, NEW c \in Clients, BuildStep(c)
    PROVE  PairSoFar'
<1>1. CASE BuildKernel(c)
  <2>1. CASE BuildEnds(c, FALSE)
    BY <2>1, BuildEndsGoes, ElsewherePair DEF Typed
  <2>2. ASSUME NEW p \in Reachable("build"), kernel' = AssetOn(p), Goto(c, "build_initrd")
        PROVE  PairSoFar'
    <3>1. kernel' = AssetOf(building)'
      BY <1>1, <2>2, CopiedFromTheBuild DEF BuildKernel, AssetOf
    <3>2. client'[c].pc = "build_initrd"
      BY <2>2, GotoLands DEF Typed
    <3>3. QED  BY <3>1, <3>2 DEF PairSoFar, AssetsCopied, SoleClient
  <2>3. QED  BY <1>1, <2>1, <2>2 DEF BuildKernel
<1>2. CASE BuildInitrd(c)
  <2>1. CASE BuildEnds(c, FALSE)
    BY <2>1, BuildEndsGoes, ElsewherePair DEF Typed
  <2>2. ASSUME NEW p \in Reachable("build"), initrd' = AssetOn(p), CallStop(c, "build")
        PROVE  PairSoFar'
    <3>1. initrd' = AssetOf(building)
      BY <2>2, CopiedFromTheBuild
    <3>2. kernel' = AssetOf(building) /\ building' = building
      BY <1>2 DEF BuildInitrd, PairSoFar
    <3>3. kernel' = initrd' /\ kernel'.image = building'
      BY <3>1, <3>2 DEF AssetOf
    <3>4. client'[c].pc = "stop_check"
      BY <2>2, CallStopLands DEF Typed
    <3>5. QED  BY <3>3, <3>4 DEF PairSoFar, At, SoleClient
  <2>3. QED  BY <1>2, <2>1, <2>2 DEF BuildInitrd
<1>3. QED
  BY <1>1, <1>2, OtherBuildStepsGo, ElsewherePair DEF BuildStep, Typed

LEMMA StopPairs ==
    ASSUME SoleClient, Typed, PairSoFar, NEW c \in Clients, StopStep(c)
    PROVE  PairSoFar'
<1>1. UNCHANGED <<kernel, initrd, building>>
  BY DEF StopStep, StopCheck, StopRequest, StopWait, StopRemove, bootFiles
<1>2. client[c].pc \in StopLabels
  BY StopMoves DEF Typed
<1>3. client'[c].pc # "build_initrd"
  BY StopMoves DEF Typed, StopLabels
<1>4. AssetsCopied(c)' => AssetsCopied(c)
  <2>1. CASE client[c].site = "build"
    BY <1>2, <2>1 DEF AssetsCopied, StopLabels
  <2>2. CASE client[c].site # "build"
    <3>1. \/ \E r \in BOOLEAN : StopReturns(c, r)
          \/ \E l \in StopLabels : Goto(c, l)
      BY DEF StopStep, StopCheck, StopRequest, StopWait, StopRemove, StopLabels
    <3>2. client'[c].site # "build" /\ client'[c].pc # "build_rename"
      BY <2>2, <3>1, StopReturnsLands, GotoLands DEF Typed, StopLabels
    <3>3. QED  BY <3>2 DEF AssetsCopied
  <2>3. QED  BY <2>1, <2>2
<1>5. QED  BY <1>1, <1>3, <1>4 DEF SoleClient, PairSoFar, At

LEMMA NextPair ==
    ASSUME SoleClient, NobodyKilled
    PROVE  Typed /\ TheBuild /\ PairSoFar /\ [Next]_vars => PairSoFar'
<1> SUFFICES ASSUME Typed, TheBuild, PairSoFar, [Next]_vars PROVE PairSoFar'
  OBVIOUS
<1>1. ASSUME NEW c \in Clients, Begin(c) \/ Step(c) \/ Kill(c)
      PROVE  PairSoFar'
  BY <1>1, BuildPairs, StopPairs, OtherStepsGo, ElsewherePair DEF Step
<1>2. CASE UNCHANGED <<client, bootFiles, guest>>
  BY <1>2 DEF bootFiles, PairSoFar, AssetsCopied, AssetOf, At
<1>3. ASSUME NEW p \in Procs, VfkitStep(p) \/ VfkitCrash(p)
      PROVE  PairSoFar'
  BY <1>2, <1>3 DEF VfkitStep, VfkitWritePidFile, VfkitRun, VfkitExit, VfkitCrash
<1>4. QED  BY <1>1, <1>2, <1>3 DEF Next, vars

LEMMA AlwaysTheBuild ==
    ASSUME SoleClient, NobodyKilled
    PROVE  Spec => [](Typed /\ KindsApart /\ TheBuild /\ PairSoFar)
<1>1. Init => PairSoFar
  BY InitIdling DEF PairSoFar, AssetsCopied, Idling, At
<1>2. Whole => KindsApart /\ TheBuild
  BY DEF Whole
<1>3. Typed /\ TheBuild /\ PairSoFar /\ [Next]_vars => PairSoFar'
  BY NextPair
<1>4. QED  BY <1>1, <1>2, <1>3, AlwaysWhole, PTL DEF Spec

(* While commands run one at a time and none is killed, the kernel and the *)
(* initrd beside a disk that is published are one pair, taken from it.     *)
THEOREM PublishedPairSole ==
    ASSUME SoleClient, NobodyKilled
    PROVE  Spec => PublishedPair
<1>1. PairSoFar /\ [Next]_vars
         => [Publishes => kernel = initrd /\ kernel.image = building]_vars
  BY OnlyRenamePublishes DEF PairSoFar, AssetsCopied, At
<1>2. QED  BY <1>1, AlwaysTheBuild, PTL DEF Spec, PublishedPair

-----------------------------------------------------------------------------
(* BootsOwnKernel, for a disk that the builder made: an image of the       *)
(* user's own has no kernel beside it but the one that was there before.   *)

DisksAreBuilt == "image" \notin BaseImages

OfTheDisk(asset) == asset = NoAsset \/ asset.image = disk

OwnAssets ==
    /\ disk # NoImage => OfTheDisk(kernel) /\ OfTheDisk(initrd)
    /\ \A c \in Clients :
          /\ client[c].pc \notin {"image_copy", "image_resize"}
          /\ client[c].pc \in {"remove_socket", "launch"} \/ BuiltWell(c)
                => disk # NoImage

(* What a step does to the three files, and to what its client relies on.  *)
LEMMA AssetsKept ==
    ASSUME SoleClient, NEW c \in Clients,
           disk' # NoImage => OfTheDisk(kernel)' /\ OfTheDisk(initrd)',
           client'[c].pc \notin {"image_copy", "image_resize"},
           client'[c].pc \in {"remove_socket", "launch"} \/ BuiltWell(c)' => disk' # NoImage
    PROVE  OwnAssets'
BY DEF SoleClient, OwnAssets

LEMMA StartOwnAssets ==
    ASSUME SoleClient, DisksAreBuilt, Typed, OwnAssets, NEW c \in Clients, StartStep(c)
    PROVE  OwnAssets'
<1>1. ~ImageCopy(c) /\ ~ImageResize(c)
  BY DEF OwnAssets, ImageCopy, ImageResize, At
<1>2. UNCHANGED <<disk, kernel, initrd>>
  BY <1>1 DEF StartStep, StartCheck, StartBuildCheck, PrepareDisk, RemoveSocket,
              LaunchVM, WaitRunning, bootFiles
<1>3. \/ \E r \in BOOLEAN : StartReturns(c, r)
      \/ \E l \in {"start_build_check", "prepare_disk", "build_prepare",
                   "wait_running"} : Goto(c, l)
      \/ disk # NoImage /\ \E l \in {"remove_socket", "launch"} : Goto(c, l)
  BY <1>1 DEF StartStep, StartCheck, StartBuildCheck, PrepareDisk, RemoveSocket,
              LaunchVM, WaitRunning, DisksAreBuilt, OwnAssets, At
<1>4. \/ client'[c].pc \in {"idle", "bootstrap_marker", "start_build_check",
                            "prepare_disk", "build_prepare", "wait_running"}
      \/ disk # NoImage /\ client'[c].pc \in {"remove_socket", "launch"}
  BY <1>3, StartReturnsLands, GotoLands DEF Typed
<1>5. QED
  BY <1>2, <1>4, AssetsKept DEF OwnAssets, OfTheDisk, BuiltWell, StopLabels

LEMMA BuildOwnAssets ==
    ASSUME SoleClient, Typed, OneVM, PairSoFar, OwnAssets, NEW c \in Clients, BuildStep(c)
    PROVE  OwnAssets'
<1>1. CASE BuildRename(c)
  <2>1. CASE BuildEnds(c, FALSE) /\ UNCHANGED <<disk, building>>
    <3>1. client'[c].pc = "stop_check" /\ client'[c].ok = FALSE
      BY <2>1, BuildEndsLands DEF Typed
    <3>2. UNCHANGED <<kernel, initrd>>
      BY <1>1 DEF BuildRename
    <3>3. QED
      BY <2>1, <3>1, <3>2, AssetsKept DEF OwnAssets, OfTheDisk, BuiltWell
  <2>2. CASE building # NoImage /\ disk' = building /\ BuildEnds(c, TRUE)
    <3>1. kernel = initrd /\ kernel.image = building
      BY <1>1 DEF BuildRename, At, PairSoFar, AssetsCopied
    <3>2. OfTheDisk(kernel)' /\ OfTheDisk(initrd)'
      BY <1>1, <2>2, <3>1 DEF BuildRename, OfTheDisk
    <3>3. client'[c].pc = "stop_check"
      BY <2>2, BuildEndsLands DEF Typed
    <3>4. QED  BY <2>2, <3>2, <3>3, AssetsKept
  <2>3. QED  BY <1>1, <2>1, <2>2 DEF BuildRename
<1>2. CASE BuildCleanup(c)
  <2>1. UNCHANGED <<disk, kernel, initrd>>
    BY <1>2 DEF BuildCleanup, bootFiles
  <2>2. \/ client'[c].pc = "idle"
        \/ client'[c].pc = "remove_socket" /\ BuiltWell(c)
    BY <1>2, StartReturnsLands, GotoLands DEF BuildCleanup, At, BuiltWell, Typed
  <2>3. QED
    BY <2>1, <2>2, AssetsKept DEF OwnAssets, OfTheDisk, BuiltWell, StopLabels
<1>3. CASE \/ BuildPrepare(c) \/ BuildTarget(c) \/ BuildLaunch(c) \/ BuildWait(c)
           \/ BuildScript(c) \/ BuildKernel(c) \/ BuildInitrd(c)
  <2>1. disk' = NoImage
    <3>1. client[c].pc \in BuildLabels
      BY <1>3 DEF BuildPrepare, BuildTarget, BuildLaunch, BuildWait, BuildScript,
                  BuildKernel, BuildInitrd, At, BuildLabels
    <3>2. UNCHANGED disk
      BY <1>3 DEF BuildPrepare, BuildTarget, BuildLaunch, BuildWait, BuildScript,
                  BuildKernel, BuildInitrd, bootFiles
    <3>3. QED  BY <3>1, <3>2 DEF OneVM, UnmadeWhere, UnmadeAt
  <2>2. \/ BuildEnds(c, FALSE) \/ StartReturns(c, FALSE) \/ CallStop(c, "build")
        \/ \E l \in BuildLabels : Goto(c, l)
    BY <1>3 DEF BuildPrepare, BuildTarget, BuildLaunch, BuildWait, BuildScript,
                BuildKernel, BuildInitrd, BuildLabels
  <2>3. \/ client'[c].pc \in {"idle"} \union BuildLabels
        \/ client'[c].pc = "stop_check" /\ client'[c].site = "build"
        \/ client'[c].pc = "stop_check" /\ client'[c].ok = FALSE
    <3>1. CASE BuildEnds(c, FALSE) \/ StartReturns(c, FALSE)
      BY <3>1, BuildEndsLands, StartReturnsLands DEF Typed
    <3>2. CASE CallStop(c, "build")
      BY <3>2, CallStopLands DEF Typed
    <3>3. CASE \E l \in BuildLabels : Goto(c, l)
      BY <3>3, GotoLands DEF Typed
    <3>4. QED  BY <2>2, <3>1, <3>2, <3>3
  <2>4. QED
    BY <2>1, <2>3, AssetsKept DEF BuiltWell, BuildLabels, StopLabels
<1>4. QED  BY <1>1, <1>2, <1>3 DEF BuildStep

LEMMA StopOwnAssets ==
    ASSUME SoleClient, Typed, OwnAssets, NEW c \in Clients, StopStep(c)
    PROVE  OwnAssets'
<1>1. UNCHANGED <<disk, kernel, initrd>>
  BY DEF StopStep, StopCheck, StopRequest, StopWait, StopRemove, bootFiles
<1>2. client[c].pc \in StopLabels
  BY StopMoves DEF Typed
<1>3. \/ \E r \in BOOLEAN : StopReturns(c, r)
      \/ \E l \in StopLabels : Goto(c, l)
  BY DEF StopStep, StopCheck, StopRequest, StopWait, StopRemove, StopLabels
<1>4. BuiltWell(c)' => BuiltWell(c)
  <2>1. CASE \E l \in StopLabels : Goto(c, l)
    BY <1>2, <2>1, GotoLands DEF BuiltWell, StopLabels, Typed
  <2>2. CASE \E r \in BOOLEAN : StopReturns(c, r)
    BY <1>2, <2>2, StopReturnsLands DEF BuiltWell, StopLabels, Typed
  <2>3. QED  BY <1>3, <2>1, <2>2
<1>5. client'[c].pc \notin {"image_copy", "image_resize", "remove_socket", "launch"}
  BY StopMoves DEF Typed, StopLabels
<1>6. QED  BY <1>1, <1>4, <1>5, AssetsKept DEF OwnAssets, OfTheDisk

LEMMA OtherOwnAssets ==
    ASSUME SoleClient, Typed, OneVM, OwnAssets, NEW c \in Clients,
           DestroyStep(c) \/ BootstrapStep(c) \/ UpgradeStep(c) \/ Begin(c)
    PROVE  OwnAssets'
<1>1. CASE DestroyStep(c)
  <2>1. disk' # NoImage => OfTheDisk(kernel)' /\ OfTheDisk(initrd)'
    BY <1>1 DEF DestroyStep, DestroyCheck, DestroyRunFiles, DestroyList, DestroyUnlink,
                DestroyRemoveDir, bootFiles, OwnAssets, OfTheDisk
  <2>2. \/ client'[c].pc \in {"idle", "destroy_run_files", "destroy_list",
                              "destroy_unlink"}
        \/ client'[c].pc = "stop_check" /\ client'[c].site = "command"
    <3>1. CASE DestroyList(c) \/ DestroyUnlink(c)
      BY <3>1 DEF DestroyList, DestroyUnlink, At, Typed, TypeOK, ClientState
    <3>2. CASE DestroyCheck(c) \/ DestroyRunFiles(c) \/ DestroyRemoveDir(c)
      <4>1. \/ CallStop(c, "command") \/ \E r : Return(c, r)
            \/ \E l \in {"destroy_run_files", "destroy_list"} : Goto(c, l)
        BY <3>2 DEF DestroyCheck, DestroyRunFiles, DestroyRemoveDir
      <4>2. QED  BY <4>1, GotoLands, CallStopLands, ReturnLands DEF Typed
    <3>3. QED  BY <1>1, <3>1, <3>2 DEF DestroyStep
  <2>3. QED  BY <2>1, <2>2, AssetsKept DEF BuiltWell, StopLabels
<1>2. CASE BootstrapStep(c)
  <2>1. UNCHANGED <<disk, kernel, initrd>>
    BY <1>2 DEF BootstrapStep, BootstrapInspect, BootstrapMarker, BootstrapSSH,
                BootstrapRun, BootstrapMark, BootstrapReboot, bootFiles
  <2>2. client'[c].pc \in BootstrapLabels \union {"idle", "start_check"}
    BY <1>2, BootstrapMoves DEF Typed
  <2>3. QED
    BY <2>1, <2>2, AssetsKept DEF OwnAssets, OfTheDisk, BuiltWell, StopLabels,
                                  BootstrapLabels
<1>3. CASE UpgradeStep(c)
  <2>1. disk' # NoImage => OfTheDisk(kernel)' /\ OfTheDisk(initrd)'
    <3>1. UNCHANGED disk
      BY <1>3 DEF UpgradeStep, UpgradeSSH, UpgradeGuest, UpgradeCopyKernel,
                  UpgradeCopyInitrd, bootFiles
    <3>2. \A p \in Reachable("vm") :
              \A a \in KernelsOf(p) \union InitrdsOf(p) : a.image = disk
      BY CopiedFromTheDisk DEF KernelsOf, InitrdsOf
    <3>3. /\ kernel' = kernel \/ kernel'.image = disk
          /\ initrd' = initrd \/ initrd'.image = disk
      BY <1>3, <3>2 DEF UpgradeStep, UpgradeSSH, UpgradeGuest, UpgradeCopyKernel,
                        UpgradeCopyInitrd, bootFiles
    <3>4. QED  BY <3>1, <3>3 DEF OwnAssets, OfTheDisk
  <2>2. \/ client'[c].pc \in UpgradeLabels \union {"idle"}
        \/ client'[c].pc = "stop_check" /\ client'[c].site = "command"
    <3>1. \/ Return(c, FALSE) \/ CallStop(c, "command")
          \/ \E l \in UpgradeLabels : Goto(c, l)
      BY <1>3 DEF UpgradeStep, UpgradeSSH, UpgradeGuest, UpgradeCopyKernel,
                  UpgradeCopyInitrd, UpgradeLabels
    <3>2. CASE Return(c, FALSE)
      BY <3>2, ReturnLands DEF Typed
    <3>3. CASE CallStop(c, "command")
      BY <3>3, CallStopLands DEF Typed
    <3>4. CASE \E l \in UpgradeLabels : Goto(c, l)
      BY <3>4, GotoLands DEF Typed
    <3>5. QED  BY <3>1, <3>2, <3>3, <3>4
  <2>3. QED  BY <2>1, <2>2, AssetsKept DEF BuiltWell, StopLabels, UpgradeLabels
<1>4. CASE Begin(c)
  <2>1. UNCHANGED <<disk, kernel, initrd>>
    BY <1>4 DEF Begin, bootFiles
  <2>2. \A o \in Commands : Entry[o] \notin {"image_copy", "image_resize",
                                             "remove_socket", "launch"}
    BY CommandsAssumption DEF Entry
  <2>3. client'[c].ok = FALSE /\ client'[c].pc \notin {"image_copy", "image_resize",
                                             "remove_socket", "launch"}
    BY <1>4, <2>2, BeginLands DEF Typed
  <2>4. QED  BY <2>1, <2>3, AssetsKept DEF OwnAssets, OfTheDisk, BuiltWell
<1>5. QED  BY <1>1, <1>2, <1>3, <1>4

LEMMA NextOwnAssets ==
    ASSUME SoleClient, NobodyKilled, DisksAreBuilt
    PROVE  Typed /\ OneVM /\ PairSoFar /\ OwnAssets /\ [Next]_vars => OwnAssets'
<1> SUFFICES ASSUME Typed, OneVM, PairSoFar, OwnAssets, [Next]_vars PROVE OwnAssets'
  OBVIOUS
<1>1. ASSUME NEW c \in Clients, Begin(c) \/ Step(c) \/ Kill(c)
      PROVE  OwnAssets'
  BY <1>1, StartOwnAssets, BuildOwnAssets, StopOwnAssets, OtherOwnAssets
     DEF Step, Kill, NobodyKilled
<1>2. CASE UNCHANGED <<client, bootFiles>>
  BY <1>2 DEF bootFiles, OwnAssets, OfTheDisk, BuiltWell
<1>3. ASSUME NEW p \in Procs, VfkitStep(p) \/ VfkitCrash(p)
      PROVE  OwnAssets'
  BY <1>2, <1>3 DEF VfkitStep, VfkitWritePidFile, VfkitRun, VfkitExit, VfkitCrash
<1>4. QED  BY <1>1, <1>2, <1>3 DEF Next, vars

(* While commands run one at a time and none is killed, a VM whose disk    *)
(* the builder made is never booted with a kernel or an initrd of another: *)
(* not after a failed build, a Destroy, or an upgrade that failed halfway. *)
THEOREM BootsOwnKernelSole ==
    ASSUME SoleClient, NobodyKilled, DisksAreBuilt
    PROVE  Spec => BootsOwnKernel
<1>1. Orderly
  BY DEF NobodyKilled, Orderly
<1>2. Init => OwnAssets
  BY InitIdling DEF Init, OwnAssets, BuiltWell, StopLabels, Idling
<1>3. Typed /\ OneVM /\ PairSoFar /\ OwnAssets /\ [Next]_vars => OwnAssets'
  BY NextOwnAssets
<1>4. OwnAssets /\ [Next]_vars =>
        [LaunchesVM /\ kernel # NoAsset /\ initrd # NoAsset
            => kernel.image = disk /\ initrd.image = disk]_vars
  BY DEF LaunchesVM, LaunchVM, At, OwnAssets, OfTheDisk
<1>5. QED
  BY <1>1, <1>2, <1>3, <1>4, AlwaysOneVM, AlwaysTheBuild, PTL DEF Spec, BootsOwnKernel

-----------------------------------------------------------------------------
(* NoBuildLeftBehind and OffMeansOff, when vfkit exits in the 30 seconds   *)
(* that Stop waits: a build VM that was told to stop is waited for.        *)

StopsInTime == "slow" \notin Environment

Stopping == {q \in Live("build") : vfkit[q].st = "stopping"}

StopAwaited ==
    \A q \in Stopping :
        /\ pidFile["build"] = q
        /\ \E c \in Clients : At(c, "stop_wait") /\ client[c].site # "command"

LEMMA NoneStopping ==
    ASSUME SoleClient, StopAwaited, NEW c \in Clients,
           ~(At(c, "stop_wait") /\ client[c].site # "command")
    PROVE  Stopping = {}
BY DEF SoleClient, StopAwaited

LEMMA NoneStops ==
    ASSUME Typed, Stopping = {},
           \/ UNCHANGED vfkit
           \/ \E k \in Kinds, i \in Images \union {NoImage} : Launch(k, i)
    PROVE  StopAwaited'
<1>1. CASE UNCHANGED vfkit
  BY <1>1 DEF Stopping, Live, Alive, StopAwaited
<1>2. ASSUME NEW k \in Kinds, NEW i \in Images \union {NoImage}, Launch(k, i)
      PROVE  StopAwaited'
  <2> PICK p \in FreshProcs :
        vfkit' = [vfkit EXCEPT ![p] = [kind |-> k, disk |-> i,
                 st |-> IF "lag" \in Environment THEN "launched" ELSE "starting"]]
    BY <1>2 DEF Launch
  <2>1. p \in Procs
    BY DEF FreshProcs
  <2>2. vfkit'[p].st # "stopping" /\ \A q \in Procs \ {p} : vfkit'[q] = vfkit[q]
    BY <2>1 DEF Typed, TypeOK
  <2>3. Stopping' = {}
    BY <2>1, <2>2 DEF Stopping, Live, Alive
  <2>4. QED  BY <2>3 DEF StopAwaited
<1>3. QED  BY <1>1, <1>2

LEMMA StopStepAwaited ==
    ASSUME SoleClient, StopsInTime, Typed, KindsApart, TheBuild, StopAwaited,
           NEW c \in Clients, StopStep(c)
    PROVE  StopAwaited'
<1>1. CASE StopRequest(c)
  <2> DEFINE k == Target(client[c].site)
             q == IF StateRunning(k) THEN sock[k] ELSE pidFile[k]
  <2>1. /\ client[c].pc = "stop_request" /\ k \in Kinds
        /\ vfkit' = IF q \in Procs /\ Alive(q)
                    THEN [vfkit EXCEPT ![q].st = "stopping"] ELSE vfkit
        /\ UNCHANGED pidFile
    BY <1>1 DEF StopRequest, Target, Kinds, At, runFiles
  <2>2. q \in {pidFile[k], sock[k]}
    OBVIOUS
  <2>3. Stopping = {}
    BY <2>1, NoneStopping DEF At
  <2>4. client'[c].pc = "stop_wait" /\ client'[c].site = client[c].site
    BY <1>1, GotoLands DEF StopRequest, Typed
  <2>5. client[c].site = "command" <=> k = "vm"
    BY DEF Target
  <2> HIDE DEF q, k
  <2>6. CASE ~(q \in Procs /\ Alive(q))
    BY <2>1, <2>3, <2>6, NoneStops
  <2>7. CASE q \in Procs /\ Alive(q)
    <3>1. /\ vfkit'[q].kind = vfkit[q].kind
          /\ \A p \in Procs \ {q} : vfkit'[p] = vfkit[p]
      BY <2>1, <2>7 DEF Typed, TypeOK, VfkitState
    <3>2. vfkit[q].kind = k
      BY <2>1, <2>2, <2>7 DEF KindsApart
    <3>3. \A p \in Stopping' : p = q /\ k = "build"
      BY <2>3, <2>7, <3>1, <3>2 DEF Stopping, Live, Alive
    <3>4. k = "build" => pidFile["build"] = q
      <4>1. ASSUME k = "build"
            PROVE  q \in Up
        BY <2>3, <2>7, <3>2, <4>1 DEF Up, Stopping, Live
      <4>2. QED  BY <2>1, <4>1 DEF TheBuild, SoleClient, At
    <3>5. QED  BY <2>1, <2>4, <2>5, <3>3, <3>4 DEF StopAwaited, At
  <2>8. QED  BY <2>6, <2>7
<1>2. CASE StopWait(c)
  <2>1. Stopping = {}
    <3>1. CASE client[c].site = "command"
      BY <3>1, NoneStopping
    <3>2. CASE client[c].site # "command"
      <4>1. ASSUME NEW q \in Stopping
            PROVE  FALSE
        <5>1. pidFile["build"] = q /\ vfkit[q].st = "stopping" /\ PidIsRunning("build")
          BY <4>1 DEF StopAwaited, Stopping, PidIsRunning, Live, Alive
        <5>2. QED  BY <1>2, <3>2, <5>1 DEF StopWait, Target, StopsInTime
      <4>2. QED  BY <4>1
    <3>3. QED  BY <3>1, <3>2
  <2>2. QED  BY <1>2, <2>1, NoneStops DEF StopWait
<1>3. CASE StopCheck(c) \/ StopRemove(c)
  <2>1. Stopping = {}
    BY <1>3, NoneStopping DEF StopCheck, StopRemove, At
  <2>2. QED  BY <1>3, <2>1, NoneStops DEF StopCheck, StopRemove
<1>4. QED  BY <1>1, <1>2, <1>3 DEF StopStep

LEMMA OtherStepAwaited ==
    ASSUME SoleClient, Typed, StopAwaited, NEW c \in Clients,
           \/ StartStep(c) \/ BuildStep(c) \/ DestroyStep(c) \/ BootstrapStep(c)
           \/ UpgradeStep(c) \/ Begin(c)
    PROVE  StopAwaited'
<1>1. ~At(c, "stop_wait")
  <2>1. CASE StartStep(c)
    BY <2>1, StartMoves DEF Typed, At, StartLabels
  <2>2. CASE BuildStep(c)
    BY <2>2, BuildMoves DEF Typed, At, BuildLabels
  <2>3. CASE BootstrapStep(c)
    BY <2>3, BootstrapMoves DEF Typed, At, BootstrapLabels
  <2>4. CASE UpgradeStep(c)
    BY <2>4, UpgradeMoves DEF Typed, At, UpgradeLabels
  <2>5. CASE DestroyStep(c) \/ Begin(c)
    BY <2>5 DEF DestroyStep, DestroyCheck, DestroyRunFiles, DestroyList, DestroyUnlink,
                DestroyRemoveDir, Begin, At
  <2>6. QED  BY <2>1, <2>2, <2>3, <2>4, <2>5
<1>2. Stopping = {}
  BY <1>1, NoneStopping
<1>3. \/ UNCHANGED vfkit
      \/ \E k \in Kinds, i \in Images \union {NoImage} : Launch(k, i)
  <2>1. CASE LaunchVM(c) \/ BuildLaunch(c)
    BY <2>1 DEF LaunchVM, BuildLaunch, Kinds, Typed, TypeOK
  <2>2. CASE StartStep(c) \/ BuildStep(c)
    BY <2>1, <2>2 DEF StartStep, StartCheck, StartBuildCheck, PrepareDisk, ImageCopy,
           ImageResize, RemoveSocket, WaitRunning, BuildStep, BuildPrepare, BuildTarget,
           BuildWait, BuildScript, BuildKernel, BuildInitrd, BuildRename, BuildCleanup
  <2>3. CASE DestroyStep(c) \/ BootstrapStep(c) \/ UpgradeStep(c) \/ Begin(c)
    BY <2>3 DEF DestroyStep, DestroyCheck, DestroyRunFiles, DestroyList, DestroyUnlink,
           DestroyRemoveDir, BootstrapStep, BootstrapInspect, BootstrapMarker,
           BootstrapSSH, BootstrapRun, BootstrapMark, BootstrapReboot, UpgradeStep,
           UpgradeSSH, UpgradeGuest, UpgradeCopyKernel, UpgradeCopyInitrd, Begin
  <2>4. QED  BY <2>2, <2>3
<1>4. QED  BY <1>2, <1>3, NoneStops

LEMMA VfkitAwaited ==
    ASSUME SoleClient, Typed, TheBuild, StopAwaited, NEW p \in Procs,
           VfkitStep(p) \/ VfkitCrash(p)
    PROVE  StopAwaited'
<1>1. /\ UNCHANGED client /\ Alive(p)
      /\ \/ vfkit' = [vfkit EXCEPT ![p].st = "starting"]
         \/ vfkit' = [vfkit EXCEPT ![p].st = "running"]
         \/ vfkit' = [vfkit EXCEPT ![p] = Dead]
  BY DEF VfkitStep, VfkitWritePidFile, VfkitRun, VfkitExit, VfkitCrash, Alive
<1>2. vfkit'[p].st # "stopping" /\ \A q \in Procs \ {p} : vfkit'[q] = vfkit[q]
  BY <1>1 DEF Typed, TypeOK, VfkitState, Dead
<1>3. Stopping' \subseteq Stopping
  BY <1>2 DEF Stopping, Live, Alive
<1>4. Stopping # {} => UNCHANGED pidFile \/ pidFile'["build"] = pidFile["build"]
  <2>1. CASE VfkitWritePidFile(p)
    <3>1. ASSUME Stopping # {}, vfkit[p].kind = "build"
          PROVE  FALSE
      <4>1. p \in Up /\ vfkit[p].st = "launched"
        BY <2>1, <3>1 DEF VfkitWritePidFile, Up, Live, Alive
      <4>2. \A c \in Clients : At(c, "stop_wait")
        BY <3>1 DEF StopAwaited, SoleClient
      <4>3. \E c \in Clients : UpAt(c)
        BY <4>1 DEF TheBuild
      <4>4. PICK c \in Clients : UpAt(c) /\ At(c, "stop_wait")
        BY <4>2, <4>3
      <4>5. QED  BY <4>4 DEF UpAt, At
    <3>2. vfkit[p].kind # "build" => pidFile'["build"] = pidFile["build"]
      BY <2>1 DEF VfkitWritePidFile, Typed, TypeOK, VfkitState, Kinds
    <3>3. QED  BY <3>1, <3>2
  <2>2. CASE VfkitRun(p) \/ VfkitExit(p) \/ VfkitCrash(p)
    BY <2>2 DEF VfkitRun, VfkitExit, VfkitCrash, runFiles
  <2>3. QED  BY <2>1, <2>2 DEF VfkitStep
<1>5. QED  BY <1>1, <1>3, <1>4 DEF StopAwaited, At

LEMMA NextAwaited ==
    ASSUME SoleClient, NobodyKilled, StopsInTime
    PROVE  Typed /\ KindsApart /\ TheBuild /\ StopAwaited /\ [Next]_vars => StopAwaited'
<1> SUFFICES ASSUME Typed, KindsApart, TheBuild, StopAwaited, [Next]_vars
             PROVE  StopAwaited'
  OBVIOUS
<1>1. ASSUME NEW c \in Clients, Begin(c) \/ Step(c) \/ Kill(c)
      PROVE  StopAwaited'
  BY <1>1, StopStepAwaited, OtherStepAwaited DEF Step, Kill, NobodyKilled
<1>2. ASSUME NEW p \in Procs, VfkitStep(p) \/ VfkitCrash(p)
      PROVE  StopAwaited'
  BY <1>2, VfkitAwaited
<1>3. CASE UNCHANGED vars
  BY <1>3 DEF vars, runFiles, StopAwaited, Stopping, Live, Alive, At
<1>4. QED  BY <1>1, <1>2, <1>3 DEF Next

LEMMA AlwaysAwaited ==
    ASSUME SoleClient, NobodyKilled, StopsInTime
    PROVE  Spec => []StopAwaited
<1>1. Init => StopAwaited
  BY InitIdling DEF Kinds, StopAwaited, Stopping
<1>2. Typed /\ KindsApart /\ TheBuild /\ StopAwaited /\ [Next]_vars => StopAwaited'
  BY NextAwaited
<1>3. QED  BY <1>1, <1>2, AlwaysTheBuild, PTL DEF Spec

(* A build VM is up or told to stop, and each has its place in the builder. *)
LEMMA NoBuildElsewhere ==
    ASSUME SoleClient, TheBuild, StopAwaited, NEW c \in Clients, ~UpAt(c),
           ~At(c, "stop_wait")
    PROVE  Live("build") = {}
BY NoneUp, NoneStopping DEF Up, Stopping

(* When the command that built a disk has returned, however the build went, *)
(* no build VM is left: it would keep the next start from building.        *)
THEOREM BuildsCleanUp ==
    ASSUME SoleClient, NobodyKilled, StopsInTime
    PROVE  Spec => []NoBuildLeftBehind
<1>1. TheBuild /\ StopAwaited => NoBuildLeftBehind
  <2> SUFFICES ASSUME TheBuild, StopAwaited, \A c \in Clients : At(c, "idle")
               PROVE  Live("build") = {}
    BY DEF NoBuildLeftBehind
  <2>1. Up = {}
    BY DEF TheBuild, UpAt, At
  <2>2. Stopping = {}
    BY DEF StopAwaited, At
  <2>3. QED  BY <2>1, <2>2 DEF Up, Stopping
<1>2. QED  BY <1>1, AlwaysTheBuild, AlwaysAwaited, PTL

-----------------------------------------------------------------------------
DestroyLabels == {"destroy_check", "destroy_run_files", "destroy_list",
                  "destroy_unlink"}

(* Where a stop and a destroy are.                                         *)
InsideStop(c) == client[c].pc \in StopLabels /\ client[c].site = "command"

CommandPlaces ==
    \A c \in Clients :
        /\ client[c].op = "stop" => InsideStop(c)
        /\ client[c].op = "destroy" => client[c].pc \in DestroyLabels \/ InsideStop(c)

LEMMA StopPlaces ==
    ASSUME SoleClient, Typed, CommandPlaces, NEW c \in Clients,
           client[c].op \in {"stop", "destroy"}, StopStep(c)
    PROVE  CommandPlaces'
<1>1. client[c].site = "command"
  <2>1. client[c].pc \in StopLabels
    BY StopMoves DEF Typed
  <2>2. QED  BY <2>1 DEF CommandPlaces, InsideStop, StopLabels, DestroyLabels
<1>2. \/ \E r \in BOOLEAN : StopReturns(c, r)
      \/ \E l \in StopLabels : Goto(c, l)
  BY DEF StopStep, StopCheck, StopRequest, StopWait, StopRemove, StopLabels
<1>3. \/ client'[c].op = "none"
      \/ client'[c].op = "destroy" /\ client'[c].pc = "destroy_run_files"
      \/ client'[c].pc \in StopLabels /\ client'[c].site = "command"
  BY <1>1, <1>2, StopReturnsLands, GotoLands DEF Typed
<1>4. QED
  BY <1>3 DEF SoleClient, CommandPlaces, InsideStop, DestroyLabels

LEMMA DestroyPlaces ==
    ASSUME SoleClient, Typed, CommandPlaces, NEW c \in Clients,
           client[c].op = "destroy", DestroyStep(c)
    PROVE  CommandPlaces'
<1>1. \/ client'[c].op \in {"none", "destroy"} /\ client'[c].pc \in DestroyLabels
      \/ client'[c].op \in {"none", "destroy"} /\ InsideStop(c)'
      \/ client'[c].op = "none"
  <2>1. CASE DestroyList(c) \/ DestroyUnlink(c)
    BY <2>1 DEF DestroyList, DestroyUnlink, At, Typed, TypeOK, ClientState, DestroyLabels
  <2>2. CASE DestroyCheck(c) \/ DestroyRunFiles(c) \/ DestroyRemoveDir(c)
    <3>1. \/ \E r \in BOOLEAN : Return(c, r)
          \/ CallStop(c, "command")
          \/ \E l \in DestroyLabels : Goto(c, l)
      BY <2>2 DEF DestroyCheck, DestroyRunFiles, DestroyRemoveDir, DestroyLabels
    <3>2. QED
      BY <3>1, GotoLands, CallStopLands, ReturnLands DEF Typed, InsideStop, StopLabels
  <2>3. QED  BY <2>1, <2>2 DEF DestroyStep
<1>2. QED  BY <1>1 DEF SoleClient, CommandPlaces

LEMMA NextPlaces ==
    ASSUME SoleClient
    PROVE  Typed /\ CommandPlaces /\ [Next]_vars => CommandPlaces'
<1> SUFFICES ASSUME Typed, CommandPlaces, [Next]_vars PROVE CommandPlaces'
  OBVIOUS
<1>1. ASSUME NEW c \in Clients, Step(c) \/ Kill(c)
      PROVE  CommandPlaces'
  <2>1. CASE client'[c].op \notin {"stop", "destroy"}
    BY <2>1 DEF SoleClient, CommandPlaces
  <2>2. CASE client'[c].op = client[c].op /\ client[c].op \in {"stop", "destroy"}
    <3>1. client[c].pc \in StopLabels \union DestroyLabels
      BY <2>2 DEF CommandPlaces, InsideStop
    <3>2. ~StartStep(c)
      BY <3>1, StartMoves DEF Typed, StopLabels, DestroyLabels, StartLabels
    <3>3. ~BuildStep(c)
      BY <3>1, BuildMoves DEF Typed, StopLabels, DestroyLabels, BuildLabels
    <3>4. ~BootstrapStep(c)
      BY <3>1, BootstrapMoves DEF Typed, StopLabels, DestroyLabels, BootstrapLabels
    <3>5. ~UpgradeStep(c)
      BY <3>1, UpgradeMoves DEF Typed, StopLabels, DestroyLabels, UpgradeLabels
    <3>6. ~Kill(c)
      BY <2>2, ReturnLands DEF Kill, Typed
    <3>7. DestroyStep(c) => client[c].op = "destroy"
      BY <2>2 DEF DestroyStep, DestroyCheck, DestroyRunFiles, DestroyList, DestroyUnlink,
                  DestroyRemoveDir, At, CommandPlaces, InsideStop, StopLabels
    <3>8. QED
      BY <1>1, <2>2, <3>2, <3>3, <3>4, <3>5, <3>6, <3>7, StopPlaces, DestroyPlaces
         DEF Step
  <2>3. QED  BY <1>1, <2>1, <2>2, CommandStays DEF Typed
<1>2. ASSUME NEW c \in Clients, Begin(c)
      PROVE  CommandPlaces'
  <2>1. Entry["stop"] = "stop_check" /\ Entry["destroy"] = "destroy_check"
    BY DEF Entry
  <2>2. /\ client'[c].op = "stop" => InsideStop(c)'
        /\ client'[c].op = "destroy" => client'[c].pc \in DestroyLabels
    BY <1>2, <2>1, BeginLands DEF Typed, InsideStop, StopLabels, DestroyLabels
  <2>3. QED  BY <2>2 DEF SoleClient, CommandPlaces
<1>3. CASE UNCHANGED client
  BY <1>3 DEF CommandPlaces, InsideStop
<1>4. ASSUME NEW p \in Procs, VfkitStep(p) \/ VfkitCrash(p)
      PROVE  CommandPlaces'
  BY <1>3, <1>4 DEF VfkitStep, VfkitWritePidFile, VfkitRun, VfkitExit, VfkitCrash
<1>5. QED  BY <1>1, <1>2, <1>3, <1>4 DEF Next, vars

(* The only ways for a stop and for a destroy to succeed.                  *)
LEMMA SucceedsThere ==
    ASSUME SoleClient, Typed, CommandPlaces, [Next]_vars, NEW c \in Clients,
           NEW o \in {"stop", "destroy"}, Succeeds(c, o)
    PROVE  \/ o = "destroy" /\ DestroyRemoveDir(c)
           \/ o = "stop" /\ StopRemove(c)
           \/ o = "stop" /\ StopCheck(c) /\ ~PidIsRunning("vm")
<1>1. client' # client /\ client'[c].pc = "idle" /\ client'[c].ok = TRUE
      /\ client[c].op = o
  BY DEF Succeeds, Idle
<1>2. Begin(c) \/ Step(c) \/ Kill(c)
  <2>1. ~UNCHANGED vars
    BY <1>1 DEF vars
  <2>2. ASSUME NEW p \in Procs, VfkitStep(p) \/ VfkitCrash(p)
        PROVE  FALSE
    BY <1>1, <2>2 DEF VfkitStep, VfkitWritePidFile, VfkitRun, VfkitExit, VfkitCrash
  <2>3. QED  BY <2>1, <2>2 DEF Next, SoleClient
<1>3. (client[c].pc \in DestroyLabels /\ o = "destroy") \/ InsideStop(c)
  BY <1>1 DEF CommandPlaces
<1>4. client[c].pc \in StopLabels \union DestroyLabels
  BY <1>3 DEF InsideStop
<1>5. StopStep(c) \/ DestroyStep(c)
  <2>1. ~Begin(c)
    BY <1>4 DEF Begin, At, StopLabels, DestroyLabels
  <2>2. ~Kill(c)
    BY <1>1, ReturnLands DEF Kill, Typed
  <2>3. ~StartStep(c)
    BY <1>4, StartMoves DEF Typed, StopLabels, DestroyLabels, StartLabels
  <2>4. ~BuildStep(c)
    BY <1>4, BuildMoves DEF Typed, StopLabels, DestroyLabels, BuildLabels
  <2>5. ~BootstrapStep(c)
    BY <1>4, BootstrapMoves DEF Typed, StopLabels, DestroyLabels, BootstrapLabels
  <2>6. ~UpgradeStep(c)
    BY <1>4, UpgradeMoves DEF Typed, StopLabels, DestroyLabels, UpgradeLabels
  <2>7. QED  BY <1>2, <2>1, <2>2, <2>3, <2>4, <2>5, <2>6 DEF Step
<1>6. CASE DestroyStep(c)
  <2>1. client[c].pc \in DestroyLabels
    BY <1>6 DEF DestroyStep, DestroyCheck, DestroyRunFiles, DestroyList, DestroyUnlink,
                DestroyRemoveDir, At, DestroyLabels
  <2>2. o = "destroy"
    BY <1>3, <2>1 DEF InsideStop, DestroyLabels, StopLabels
  <2>3. ~(DestroyCheck(c) \/ DestroyRunFiles(c))
    BY <1>1, GotoLands, CallStopLands, ReturnLands
       DEF DestroyCheck, DestroyRunFiles, Typed
  <2>4. ~(DestroyList(c) \/ DestroyUnlink(c))
    BY <1>1 DEF DestroyList, DestroyUnlink, At, Typed, TypeOK, ClientState
  <2>5. QED  BY <1>6, <2>2, <2>3, <2>4 DEF DestroyStep
<1>7. CASE StopStep(c)
  <2>1. client[c].site = "command" /\ client[c].pc \in StopLabels
    <3>1. client[c].pc \in StopLabels
      BY <1>7, StopMoves DEF Typed
    <3>2. QED  BY <1>3, <3>1 DEF InsideStop, DestroyLabels, StopLabels
  <2>2. ~\E l \in StopLabels : Goto(c, l)
    BY <1>1, GotoLands DEF Typed, StopLabels
  <2>3. \/ StopRemove(c) /\ StopReturns(c, TRUE)
        \/ StopCheck(c) /\ ~PidIsRunning("vm") /\ StopReturns(c, TRUE)
        \/ StopReturns(c, FALSE)
    BY <1>7, <2>1, <2>2 DEF StopStep, StopCheck, StopRequest, StopWait, StopRemove,
                            Target, StopLabels
  <2>4. ~StopReturns(c, FALSE)
    BY <1>1, StopReturnsLands DEF Typed
  <2>5. o = "stop"
    BY <1>1, <2>1, <2>3, <2>4, StopReturnsLands DEF Typed
  <2>6. QED  BY <2>3, <2>4, <2>5
<1>8. QED  BY <1>5, <1>6, <1>7

LEMMA SuccessMeansOff ==
    ASSUME SoleClient, Orderly, Typed, KindsApart, OneVM, TheBuild, StopAwaited,
           CommandPlaces, [Next]_vars, NEW c \in Clients
    PROVE  /\ Succeeds(c, "stop") => Live("vm") = {}
           /\ Succeeds(c, "destroy") => /\ Live("vm") \union Live("build") = {}
                                        /\ Listed = {}
<1>1. ASSUME Succeeds(c, "stop")
      PROVE  Live("vm") = {}
  <2>1. StopRemove(c) \/ (StopCheck(c) /\ ~PidIsRunning("vm"))
    BY <1>1, SucceedsThere
  <2>2. CASE StopRemove(c)
    BY <2>2 DEF StopRemove, At, OneVM, OffWhere, OffAt, Off
  <2>3. CASE StopCheck(c) /\ ~PidIsRunning("vm")
    <3>1. ~Lagging("vm")
      BY <2>3, NoneLags DEF Step, StopStep
    <3>2. QED  BY <2>3, <3>1, FoundOff DEF Off
  <2>4. QED  BY <2>1, <2>2, <2>3
<1>2. ASSUME Succeeds(c, "destroy")
      PROVE  Live("vm") \union Live("build") = {} /\ Listed = {}
  <2>1. DestroyRemoveDir(c)
    BY <1>2, SucceedsThere
  <2>2. client[c].pc = "destroy_unlink"
    BY <2>1 DEF DestroyRemoveDir, At
  <2>3. Live("vm") = {}
    BY <2>2 DEF OneVM, OffWhere, OffAt, Off
  <2>4. Live("build") = {}
    BY <2>2, NoBuildElsewhere DEF UpAt, At
  <2>5. Listed = {}
    <3>1. client'[c].ok = TRUE
      BY <1>2 DEF Succeeds, Idle
    <3>2. client'[c].ok = (Listed = {})
      BY <2>1, ReturnLands DEF DestroyRemoveDir, Typed
    <3>3. QED  BY <3>1, <3>2
  <2>6. QED  BY <2>3, <2>4, <2>5
<1>3. QED  BY <1>1, <1>2

(* While commands run one at a time, none is killed and vfkit stops within *)
(* the time it is given, what stop and destroy report is so: no vfkit of   *)
(* the VM is alive, and after a destroy no build VM and no file either.    *)
THEOREM OffMeansOffSole ==
    ASSUME SoleClient, NobodyKilled, StopsInTime
    PROVE  Spec => OffMeansOff
<1>1. Orderly
  BY DEF NobodyKilled, Orderly
<1>2. Init => CommandPlaces
  <2>1. ASSUME Init, NEW c \in Clients
        PROVE  client[c].op = "none"
    BY <2>1 DEF Init, Idle
  <2>2. QED  BY <2>1 DEF CommandPlaces
<1>3. Typed /\ CommandPlaces /\ [Next]_vars => CommandPlaces'
  BY NextPlaces
<1>4. /\ Typed /\ KindsApart /\ OneVM /\ TheBuild /\ StopAwaited /\ CommandPlaces
      /\ [Next]_vars
      => [\A c \in Clients :
            /\ Succeeds(c, "stop") => Live("vm") = {}
            /\ Succeeds(c, "destroy") => /\ Live("vm") \union Live("build") = {}
                                         /\ Listed = {}]_vars
  BY <1>1, SuccessMeansOff
<1>5. QED
  BY <1>1, <1>2, <1>3, <1>4, AlwaysOneVM, AlwaysTheBuild, AlwaysAwaited, PTL
     DEF Spec, OffMeansOff

(* Who may be looked for before its pid file is there: nobody, when vfkit  *)
(* writes it at once, and otherwise the build VM of the one client.        *)
NoneLate == \A p \in Procs : vfkit[p].st # "launched"

LEMMA NextNoneLate ==
    ASSUME "lag" \notin Environment
    PROVE  Typed /\ NoneLate /\ [Next]_vars => NoneLate'
<1> SUFFICES ASSUME Typed, NoneLate, [Next]_vars PROVE NoneLate'
  OBVIOUS
<1>1. CASE \E k \in Kinds, i \in Images \union {NoImage} : Launch(k, i)
  <2> PICK p \in FreshProcs, k \in Kinds, i \in Images \union {NoImage} :
        vfkit' = [vfkit EXCEPT ![p] = [kind |-> k, disk |-> i, st |-> "starting"]]
    BY <1>1 DEF Launch
  <2>1. p \in Procs
    BY DEF FreshProcs
  <2>2. vfkit'[p].st = "starting" /\ \A q \in Procs \ {p} : vfkit'[q] = vfkit[q]
    BY <2>1 DEF Typed, TypeOK
  <2>3. QED  BY <2>2 DEF NoneLate
<1>2. CASE UNCHANGED vfkit
  BY <1>2 DEF NoneLate
<1>3. CASE \E p \in Procs : \/ vfkit' = [vfkit EXCEPT ![p].st = "stopping"]
                            \/ vfkit' = [vfkit EXCEPT ![p].st = "starting"]
                            \/ vfkit' = [vfkit EXCEPT ![p].st = "running"]
                            \/ vfkit' = [vfkit EXCEPT ![p] = Dead]
  BY <1>3 DEF Typed, TypeOK, VfkitState, Dead, NoneLate
<1>4. ASSUME NEW c \in Clients, Begin(c) \/ Step(c) \/ Kill(c)
      PROVE  NoneLate'
  <2>1. CASE LaunchVM(c) \/ BuildLaunch(c)
    <3>1. \/ UNCHANGED vfkit
          \/ Launch("vm", disk)
          \/ Launch("build", building)
      BY <2>1 DEF LaunchVM, BuildLaunch
    <3>2. QED  BY <1>1, <1>2, <3>1 DEF Typed, TypeOK, Kinds
  <2>2. CASE StopRequest(c)
    BY <1>2, <1>3, <2>2 DEF StopRequest
  <2>3. CASE Begin(c) \/ Kill(c)
    BY <1>2, <2>3 DEF Begin, Kill
  <2>4. CASE StartStep(c) /\ ~LaunchVM(c)
    BY <1>2, <2>4 DEF StartStep, StartCheck, StartBuildCheck, PrepareDisk, ImageCopy,
                      ImageResize, RemoveSocket, WaitRunning
  <2>5. CASE BuildStep(c) /\ ~BuildLaunch(c)
    BY <1>2, <2>5 DEF BuildStep, BuildPrepare, BuildTarget, BuildWait, BuildScript,
                      BuildKernel, BuildInitrd, BuildRename, BuildCleanup
  <2>6. CASE StopStep(c) /\ ~StopRequest(c)
    BY <1>2, <2>6 DEF StopStep, StopCheck, StopWait, StopRemove
  <2>7. CASE DestroyStep(c) \/ BootstrapStep(c) \/ UpgradeStep(c)
    BY <1>2, <2>7 DEF DestroyStep, DestroyCheck, DestroyRunFiles, DestroyList,
                DestroyUnlink, DestroyRemoveDir, BootstrapStep, BootstrapInspect,
                BootstrapMarker, BootstrapSSH, BootstrapRun, BootstrapMark, BootstrapReboot,
                UpgradeStep, UpgradeSSH, UpgradeGuest, UpgradeCopyKernel, UpgradeCopyInitrd
  <2>8. QED  BY <1>4, <2>1, <2>2, <2>3, <2>4, <2>5, <2>6, <2>7 DEF Step
<1>5. ASSUME NEW p \in Procs, VfkitStep(p) \/ VfkitCrash(p)
      PROVE  NoneLate'
  BY <1>3, <1>5 DEF VfkitStep, VfkitWritePidFile, VfkitRun, VfkitExit, VfkitCrash
<1>6. QED  BY <1>2, <1>4, <1>5 DEF Next, vars

LEMMA AlwaysLateAwaited ==
    ASSUME NobodyKilled, SoleClient \/ "lag" \notin Environment
    PROVE  Spec => []LateAwaited
<1>1. CASE SoleClient
  BY <1>1, BuildAwaited, AlwaysTheBuild, PTL
<1>2. CASE "lag" \notin Environment
  <2>1. Init => NoneLate
    BY DEF Init, NoneLate, Dead
  <2>2. Typed /\ NoneLate /\ [Next]_vars => NoneLate'
    BY <1>2, NextNoneLate
  <2>3. NoneLate => LateAwaited
    BY DEF NoneLate, LateAwaited, Live
  <2>4. QED  BY <2>1, <2>2, <2>3, InitTyped, NextTyped, PTL DEF Spec
<1>3. QED  BY <1>1, <1>2

(* While none is killed, "disk build is already in progress" never refuses *)
(* a start because of what an earlier build left, even of a build VM that  *)
(* did not stop in time and runs on.  Any number of commands may overlap   *)
(* if vfkit writes its pid file at once; if it may be late, they run one   *)
(* at a time.                                                              *)
THEOREM RefusedOnlyDuringBuilds ==
    ASSUME NobodyKilled, SoleClient \/ "lag" \notin Environment
    PROVE  Spec => RefusedOnlyDuringBuild
<1>1. Init => NamedOnlyInBuild
  BY DEF Init, Kinds, NamedOnlyInBuild
<1>2. Typed /\ LateAwaited /\ NamedOnlyInBuild /\ [Next]_vars => NamedOnlyInBuild'
  BY NextNames
<1>3. Typed /\ NamedOnlyInBuild /\ [Next]_vars =>
        [\A c \in Clients :
            StartBuildCheck(c) /\ client'[c].pc = "idle"
               => \E d \in Clients : Building(d)]_vars
  <2> SUFFICES ASSUME Typed, NamedOnlyInBuild, NEW c \in Clients,
                      StartBuildCheck(c), client'[c].pc = "idle"
               PROVE  \E d \in Clients : Building(d)
    OBVIOUS
  <2>1. PidIsRunning("build")
    <3>1. CASE Goto(c, "prepare_disk")
      <4>1. client'[c].pc = "prepare_disk"
        BY <3>1, GotoLands DEF Typed
      <4>2. QED  BY <4>1
    <3>2. QED  BY <3>1 DEF StartBuildCheck
  <2>2. pidFile["build"] # NoProc
    BY <2>1, IdentifiersAssumption DEF PidIsRunning
  <2>3. QED  BY <2>2 DEF NamedOnlyInBuild, NamesABuild
<1>4. QED
  BY <1>1, <1>2, <1>3, AlwaysLateAwaited, InitTyped, NextTyped, PTL
     DEF Spec, RefusedOnlyDuringBuild

=============================================================================
