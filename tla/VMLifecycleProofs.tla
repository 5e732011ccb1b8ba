-------------------------- MODULE VMLifecycleProofs --------------------------
(* Proofs about VMLifecycle, for every value of its constants.             *)
EXTENDS VMLifecycle, TLAPS

-----------------------------------------------------------------------------
(* Typing.  The helpers that move a client first.                          *)

LEMMA JumpTyped ==
    ASSUME TypeOK, NEW c \in Clients, NEW l \in Labels, NEW s \in StopSites,
           NEW r \in BOOLEAN, Jump(c, l, s, r)
    PROVE  client' \in [Clients -> ClientState]
BY DEF TypeOK, Jump, ClientState

LEMMA GotoTyped ==
    ASSUME TypeOK, NEW c \in Clients, NEW l \in Labels, Goto(c, l)
    PROVE  client' \in [Clients -> ClientState]
BY JumpTyped DEF TypeOK, Goto, ClientState

LEMMA ReturnTyped ==
    ASSUME TypeOK, NEW c \in Clients, NEW r \in BOOLEAN, Return(c, r)
    PROVE  client' \in [Clients -> ClientState]
<1>1. "idle" \in Labels /\ "command" \in StopSites /\ {} \in SUBSET Entries
  BY DEF Labels, StopSites
<1>2. Idle(r) \in ClientState
  BY <1>1 DEF Idle, ClientState
<1>3. QED  BY <1>2 DEF TypeOK, Return

LEMMA CallStopTyped ==
    ASSUME TypeOK, NEW c \in Clients, NEW s \in StopSites, CallStop(c, s)
    PROVE  client' \in [Clients -> ClientState]
<1>1. client[c].ok \in BOOLEAN
  BY DEF TypeOK, ClientState
<1>2. "stop_check" \in Labels
  BY DEF Labels
<1>3. QED  BY <1>1, <1>2, JumpTyped DEF CallStop

LEMMA BuildEndsTyped ==
    ASSUME TypeOK, NEW c \in Clients, NEW r \in BOOLEAN, BuildEnds(c, r)
    PROVE  client' \in [Clients -> ClientState]
BY JumpTyped DEF BuildEnds, Labels, StopSites

LEMMA StartReturnsTyped ==
    ASSUME TypeOK, NEW c \in Clients, NEW r \in BOOLEAN, StartReturns(c, r)
    PROVE  client' \in [Clients -> ClientState]
BY GotoTyped, ReturnTyped DEF StartReturns, Labels

LEMMA StopReturnsTyped ==
    ASSUME TypeOK, NEW c \in Clients, NEW r \in BOOLEAN, StopReturns(c, r)
    PROVE  client' \in [Clients -> ClientState]
BY GotoTyped, ReturnTyped DEF StopReturns, Labels

Typed == TypeOK /\ RunsOnADisk


(* The group of actions that leave everything but the client as it was.    *)
LEMMA OnlyClientTyped ==
    ASSUME Typed, client' \in [Clients -> ClientState],
           UNCHANGED <<vfkit, runFiles, bootFiles, guest>>
    PROVE  Typed'
BY DEF Typed, TypeOK, RunsOnADisk, runFiles, bootFiles

(* exec vfkit.                                                             *)
LEMMA LaunchTyped ==
    ASSUME Typed, NEW k \in Kinds, NEW i \in Images \union {NoImage}, Launch(k, i)
    PROVE  /\ vfkit' \in [Procs -> VfkitState]
           /\ pidFile' \in [Kinds -> Procs \union {NoProc}]
           /\ RunsOnADisk'
<1> PICK p \in FreshProcs :
        /\ vfkit' = [vfkit EXCEPT ![p] = [kind |-> k, disk |-> i,
                 st |-> IF "lag" \in Environment THEN "launched" ELSE "starting"]]
        /\ pidFile' = IF "lag" \in Environment THEN pidFile
                                               ELSE [pidFile EXCEPT ![k] = p]
  BY DEF Launch
<1>1. p \in Procs
  BY DEF FreshProcs
<1> DEFINE new == [kind |-> k, disk |-> i,
                   st |-> IF "lag" \in Environment THEN "launched" ELSE "starting"]
<1>2. new \in VfkitState /\ new.st # "running"
  BY DEF VfkitState
<1>3. vfkit' \in [Procs -> VfkitState]
  BY <1>1, <1>2 DEF Typed, TypeOK
<1>4. pidFile' \in [Kinds -> Procs \union {NoProc}]
  BY <1>1 DEF Typed, TypeOK
<1>5. RunsOnADisk'
  BY <1>1, <1>2 DEF Typed, TypeOK, RunsOnADisk
<1>6. QED  BY <1>3, <1>4, <1>5

LEMMA StartTyped ==
    ASSUME Typed, NEW c \in Clients, StartStep(c)
    PROVE  Typed'
<1>1. CASE StartCheck(c)
  <2>1. client' \in [Clients -> ClientState]
    BY <1>1, GotoTyped, StartReturnsTyped DEF Typed, StartCheck, Labels
  <2>2. QED  BY <1>1, <2>1, OnlyClientTyped DEF StartCheck
<1>2. CASE StartBuildCheck(c)
  <2>1. client' \in [Clients -> ClientState]
    BY <1>2, GotoTyped, StartReturnsTyped DEF Typed, StartBuildCheck, Labels
  <2>2. QED  BY <1>2, <2>1, OnlyClientTyped DEF StartBuildCheck
<1>3. CASE PrepareDisk(c)
  <2>1. client' \in [Clients -> ClientState]
    BY <1>3, GotoTyped DEF Typed, PrepareDisk, Labels
  <2>2. QED  BY <1>3, <2>1, OnlyClientTyped DEF PrepareDisk
<1>4. CASE WaitRunning(c)
  <2>1. client' \in [Clients -> ClientState]
    BY <1>4, StartReturnsTyped DEF Typed, WaitRunning, Labels
  <2>2. QED  BY <1>4, <2>1, OnlyClientTyped DEF WaitRunning
<1>5. CASE ImageCopy(c)
  <2>1. client' \in [Clients -> ClientState]
    BY <1>5, GotoTyped, StartReturnsTyped DEF Typed, ImageCopy, Labels
  <2>2. BlankImage("partial") \in GuestState
    BY ReleaseAssumption DEF BlankImage, GuestState
  <2>3. disk' \in Images \union {NoImage} /\ guest' \in [Images -> GuestState]
    <3>1. CASE UNCHANGED <<disk, guest>>
      BY <3>1 DEF Typed, TypeOK
    <3>2. ASSUME NEW i \in IF disk = NoImage THEN FreshImages ELSE {disk},
                 disk' = i, guest' = [guest EXCEPT ![i] = BlankImage("partial")]
          PROVE  disk' \in Images \union {NoImage} /\ guest' \in [Images -> GuestState]
      BY <2>2, <3>2 DEF Typed, TypeOK, FreshImages
    <3>3. QED  BY <1>5, <3>1, <3>2 DEF ImageCopy
  <2>4. QED  BY <1>5, <2>1, <2>3 DEF Typed, TypeOK, RunsOnADisk, ImageCopy, runFiles
<1>6. CASE ImageResize(c)
  <2>1. client' \in [Clients -> ClientState]
    BY <1>6, GotoTyped, StartReturnsTyped DEF Typed, ImageResize, Labels
  <2>2. guest' \in [Images -> GuestState]
    <3>1. CASE UNCHANGED guest
      BY <3>1 DEF Typed, TypeOK
    <3>2. CASE disk # NoImage /\ guest' = [guest EXCEPT ![disk].build = "full"]
      <4>1. disk \in Images /\ guest[disk] \in GuestState
        BY <3>2 DEF Typed, TypeOK
      <4>2. [guest[disk] EXCEPT !.build = "full"] \in GuestState
        BY <4>1 DEF GuestState
      <4>3. QED  BY <3>2, <4>1, <4>2 DEF Typed, TypeOK
    <3>3. QED  BY <1>6, <3>1, <3>2 DEF ImageResize
  <2>3. QED  BY <1>6, <2>1, <2>2
             DEF Typed, TypeOK, RunsOnADisk, ImageResize, runFiles, bootFiles
<1>7. CASE RemoveSocket(c)
  <2>1. client' \in [Clients -> ClientState]
    BY <1>7, GotoTyped DEF Typed, RemoveSocket, Labels
  <2>2. QED  BY <1>7, <2>1
             DEF Typed, TypeOK, RunsOnADisk, RemoveSocket, bootFiles, Kinds
<1>8. CASE LaunchVM(c)
  <2>1. client' \in [Clients -> ClientState]
    BY <1>8, GotoTyped, StartReturnsTyped DEF Typed, LaunchVM, Labels
  <2>2. /\ vfkit' \in [Procs -> VfkitState]
        /\ pidFile' \in [Kinds -> Procs \union {NoProc}]
        /\ RunsOnADisk'
    <3>1. disk \in Images \union {NoImage} /\ "vm" \in Kinds
      BY DEF Typed, TypeOK, Kinds
    <3>2. CASE Launch("vm", disk)
      BY <3>1, <3>2, LaunchTyped
    <3>3. CASE UNCHANGED <<vfkit, pidFile>>
      BY <3>3 DEF Typed, TypeOK, RunsOnADisk
    <3>4. QED  BY <1>8, <3>2, <3>3 DEF LaunchVM
  <2>3. QED  BY <1>8, <2>1, <2>2 DEF Typed, TypeOK, LaunchVM, bootFiles
<1>9. QED  BY <1>1, <1>2, <1>3, <1>4, <1>5, <1>6, <1>7, <1>8 DEF StartStep

(* What copyRemoteFile fetches from a guest that answers.                  *)
LEMMA AssetOnTyped ==
    ASSUME Typed, NEW k \in Kinds, NEW p \in Reachable(k)
    PROVE  /\ p \in Procs
           /\ vfkit[p].disk \in Images
           /\ AssetOn(p) \in Assets
           /\ AssetOn(p) # NoAsset
<1>1. p \in Procs /\ vfkit[p].st = "running"
  BY DEF Reachable
<1>2. vfkit[p].disk \in Images
  BY <1>1 DEF Typed, TypeOK, RunsOnADisk, VfkitState
<1>3. guest[vfkit[p].disk].release \in 1..MaxRelease
  BY <1>2 DEF Typed, TypeOK, GuestState
<1>4. AssetOn(p) \in Assets
  BY <1>2, <1>3 DEF AssetOn, Assets
<1>5. AssetOn(p) # NoAsset
  BY <1>2, IdentifiersAssumption DEF AssetOn, NoAsset
<1>6. QED  BY <1>1, <1>2, <1>4, <1>5

(* A change of one guest on a reachable VM, and of nothing else but c.     *)
LEMMA GuestChangeTyped ==
    ASSUME Typed, client' \in [Clients -> ClientState],
           guest' \in [Images -> GuestState],
           UNCHANGED <<vfkit, runFiles, bootFiles>>
    PROVE  Typed'
BY DEF Typed, TypeOK, RunsOnADisk, runFiles, bootFiles

LEMMA BuildTyped ==
    ASSUME Typed, NEW c \in Clients, BuildStep(c)
    PROVE  Typed'
<1>1. CASE BuildPrepare(c)
  <2>1. client' \in [Clients -> ClientState]
    BY <1>1, GotoTyped, StartReturnsTyped DEF Typed, BuildPrepare, Labels
  <2>2. QED  BY <1>1, <2>1, OnlyClientTyped DEF BuildPrepare
<1>2. CASE BuildTarget(c)
  <2>1. client' \in [Clients -> ClientState]
    BY <1>2, GotoTyped, BuildEndsTyped DEF Typed, BuildTarget, Labels
  <2>2. BlankImage("blank") \in GuestState
    BY ReleaseAssumption DEF BlankImage, GuestState
  <2>3. building' \in Images \union {NoImage} /\ guest' \in [Images -> GuestState]
    <3>1. CASE building' = NoImage /\ UNCHANGED guest
      BY <3>1 DEF Typed, TypeOK
    <3>2. ASSUME NEW i \in FreshImages,
                 building' = i, guest' = [guest EXCEPT ![i] = BlankImage("blank")]
          PROVE  building' \in Images \union {NoImage} /\ guest' \in [Images -> GuestState]
      BY <2>2, <3>2 DEF Typed, TypeOK, FreshImages
    <3>3. QED  BY <1>2, <3>1, <3>2 DEF BuildTarget
  <2>4. QED  BY <1>2, <2>1, <2>3 DEF Typed, TypeOK, RunsOnADisk, BuildTarget, runFiles
<1>3. CASE BuildLaunch(c)
  <2>1. client' \in [Clients -> ClientState]
    BY <1>3, GotoTyped, BuildEndsTyped DEF Typed, BuildLaunch, Labels
  <2>2. /\ vfkit' \in [Procs -> VfkitState]
        /\ pidFile' \in [Kinds -> Procs \union {NoProc}]
        /\ RunsOnADisk'
    <3>1. building \in Images \union {NoImage} /\ "build" \in Kinds
      BY DEF Typed, TypeOK, Kinds
    <3>2. CASE Launch("build", building)
      BY <3>1, <3>2, LaunchTyped
    <3>3. CASE UNCHANGED <<vfkit, pidFile>>
      BY <3>3 DEF Typed, TypeOK, RunsOnADisk
    <3>4. QED  BY <1>3, <3>2, <3>3 DEF BuildLaunch
  <2>3. sock' \in [Kinds -> Procs \union {NoProc}]
    BY <1>3 DEF Typed, TypeOK, BuildLaunch
  <2>4. QED  BY <1>3, <2>1, <2>2, <2>3 DEF Typed, TypeOK, BuildLaunch, bootFiles
<1>4. CASE BuildWait(c)
  <2>1. client' \in [Clients -> ClientState]
    BY <1>4, GotoTyped, BuildEndsTyped DEF Typed, BuildWait, Labels
  <2>2. QED  BY <1>4, <2>1, OnlyClientTyped DEF BuildWait
<1>5. CASE BuildScript(c)
  <2>1. client' \in [Clients -> ClientState]
    BY <1>5, GotoTyped, BuildEndsTyped DEF Typed, BuildScript, Labels
  <2>2. guest' \in [Images -> GuestState]
    <3>1. ASSUME NEW p \in Reachable("build"), NEW b \in ScriptResults,
                 guest' = [guest EXCEPT ![vfkit[p].disk].build = b]
          PROVE  guest' \in [Images -> GuestState]
      BY <3>1 DEF Typed, TypeOK, GuestState, ScriptResults
    <3>2. CASE UNCHANGED guest
      BY <3>2 DEF Typed, TypeOK
    <3>3. QED  BY <1>5, <3>1, <3>2 DEF BuildScript
  <2>3. QED  BY <1>5, <2>1, <2>2, GuestChangeTyped DEF BuildScript
<1>6. CASE BuildKernel(c)
  <2>1. client' \in [Clients -> ClientState]
    BY <1>6, GotoTyped, BuildEndsTyped DEF Typed, BuildKernel, Labels, StopSites
  <2>2. kernel' \in Assets
    <3>1. CASE UNCHANGED kernel
      BY <3>1 DEF Typed, TypeOK
    <3>2. ASSUME NEW p \in Reachable("build"), kernel' = AssetOn(p)
          PROVE  kernel' \in Assets
      BY <3>2, AssetOnTyped DEF Kinds
    <3>3. QED  BY <1>6, <3>1, <3>2 DEF BuildKernel
  <2>3. QED  BY <1>6, <2>1, <2>2 DEF Typed, TypeOK, RunsOnADisk, BuildKernel, runFiles
<1>7. CASE BuildInitrd(c)
  <2>1. client' \in [Clients -> ClientState]
    BY <1>7, CallStopTyped, BuildEndsTyped DEF Typed, BuildInitrd, Labels, StopSites
  <2>2. initrd' \in Assets
    <3>1. CASE UNCHANGED initrd
      BY <3>1 DEF Typed, TypeOK
    <3>2. ASSUME NEW p \in Reachable("build"), initrd' = AssetOn(p)
          PROVE  initrd' \in Assets
      BY <3>2, AssetOnTyped DEF Kinds
    <3>3. QED  BY <1>7, <3>1, <3>2 DEF BuildInitrd
  <2>3. QED  BY <1>7, <2>1, <2>2 DEF Typed, TypeOK, RunsOnADisk, BuildInitrd, runFiles
<1>8. CASE BuildRename(c)
  <2>1. client' \in [Clients -> ClientState]
    BY <1>8, BuildEndsTyped DEF Typed, BuildRename, Labels
  <2>2. QED  BY <1>8, <2>1 DEF Typed, TypeOK, RunsOnADisk, BuildRename, runFiles
<1>9. CASE BuildCleanup(c)
  <2>1. client' \in [Clients -> ClientState]
    BY <1>9, GotoTyped, StartReturnsTyped DEF Typed, BuildCleanup, Labels
  <2>2. QED  BY <1>9, <2>1 DEF Typed, TypeOK, RunsOnADisk, BuildCleanup, bootFiles
<1>10. QED  BY <1>1, <1>2, <1>3, <1>4, <1>5, <1>6, <1>7, <1>8, <1>9 DEF BuildStep

LEMMA StopTyped ==
    ASSUME Typed, NEW c \in Clients, StopStep(c)
    PROVE  Typed'
<1>1. CASE StopCheck(c)
  <2>1. client' \in [Clients -> ClientState]
    BY <1>1, GotoTyped, StopReturnsTyped DEF Typed, StopCheck, Labels
  <2>2. QED  BY <1>1, <2>1, OnlyClientTyped DEF StopCheck
<1>2. CASE StopRequest(c)
  <2>1. client' \in [Clients -> ClientState]
    BY <1>2, GotoTyped DEF Typed, StopRequest, Labels
  <2>2. ASSUME NEW p \in Procs, vfkit' = [vfkit EXCEPT ![p].st = "stopping"]
        PROVE  vfkit' \in [Procs -> VfkitState] /\ RunsOnADisk'
    BY <2>2 DEF Typed, TypeOK, VfkitState, RunsOnADisk
  <2>3. vfkit' \in [Procs -> VfkitState] /\ RunsOnADisk'
    <3>1. CASE vfkit' = vfkit
      BY <3>1 DEF Typed, TypeOK, RunsOnADisk
    <3>2. QED  BY <1>2, <2>2, <3>1 DEF StopRequest
  <2>4. QED  BY <1>2, <2>1, <2>3 DEF Typed, TypeOK, StopRequest, runFiles, bootFiles
<1>3. CASE StopWait(c)
  <2>1. client' \in [Clients -> ClientState]
    BY <1>3, GotoTyped, StopReturnsTyped DEF Typed, StopWait, Labels
  <2>2. QED  BY <1>3, <2>1, OnlyClientTyped DEF StopWait
<1>4. CASE StopRemove(c)
  <2>1. client' \in [Clients -> ClientState]
    BY <1>4, StopReturnsTyped DEF Typed, StopRemove, Labels
  <2>2. QED  BY <1>4, <2>1 DEF Typed, TypeOK, RunsOnADisk, StopRemove, bootFiles
<1>5. QED  BY <1>1, <1>2, <1>3, <1>4 DEF StopStep

LEMMA DestroyTyped ==
    ASSUME Typed, NEW c \in Clients, DestroyStep(c)
    PROVE  Typed'
<1>1. CASE DestroyCheck(c)
  <2>1. client' \in [Clients -> ClientState]
    BY <1>1, GotoTyped, CallStopTyped DEF Typed, DestroyCheck, Labels, StopSites
  <2>2. QED  BY <1>1, <2>1, OnlyClientTyped DEF DestroyCheck
<1>2. CASE DestroyRunFiles(c)
  <2>1. client' \in [Clients -> ClientState]
    BY <1>2, GotoTyped, ReturnTyped DEF Typed, DestroyRunFiles, Labels
  <2>2. /\ pidFile' \in [Kinds -> Procs \union {NoProc}]
        /\ sock' \in [Kinds -> Procs \union {NoProc}]
    BY <1>2 DEF Typed, TypeOK, DestroyRunFiles, runFiles
  <2>3. QED  BY <1>2, <2>1, <2>2 DEF Typed, TypeOK, RunsOnADisk, DestroyRunFiles, bootFiles
<1>3. CASE DestroyList(c)
  <2>1. "destroy_unlink" \in Labels /\ Listed \in SUBSET Entries
    BY DEF Labels, Listed
  <2>2. client' \in [Clients -> ClientState]
    BY <1>3, <2>1 DEF Typed, TypeOK, DestroyList, ClientState
  <2>3. QED  BY <1>3, <2>2, OnlyClientTyped DEF DestroyList
<1>4. CASE DestroyUnlink(c)
  <2> PICK e \in client[c].left :
        client' = [client EXCEPT ![c].left = client[c].left \ {e}]
    BY <1>4 DEF DestroyUnlink
  <2>1. client' \in [Clients -> ClientState]
    BY DEF Typed, TypeOK, ClientState
  <2>2. NoAsset \in Assets
    BY DEF Assets
  <2>3. /\ disk' \in Images \union {NoImage} /\ building' \in Images \union {NoImage}
        /\ kernel' \in Assets /\ initrd' \in Assets
        /\ marker' \in BOOLEAN
    BY <1>4, <2>2 DEF Typed, TypeOK, DestroyUnlink
  <2>4. /\ pidFile' \in [Kinds -> Procs \union {NoProc}]
        /\ sock' \in [Kinds -> Procs \union {NoProc}]
    BY <1>4 DEF Typed, TypeOK, DestroyUnlink
  <2>5. QED  BY <1>4, <2>1, <2>3, <2>4 DEF Typed, TypeOK, RunsOnADisk, DestroyUnlink
<1>5. CASE DestroyRemoveDir(c)
  <2>1. client' \in [Clients -> ClientState]
    BY <1>5, ReturnTyped DEF Typed, DestroyRemoveDir, Labels
  <2>2. QED  BY <1>5, <2>1, OnlyClientTyped DEF DestroyRemoveDir
<1>6. QED  BY <1>1, <1>2, <1>3, <1>4, <1>5 DEF DestroyStep

LEMMA BootstrapTyped ==
    ASSUME Typed, NEW c \in Clients, BootstrapStep(c)
    PROVE  Typed'
<1>1. CASE BootstrapInspect(c)
  <2>1. client' \in [Clients -> ClientState]
    BY <1>1, GotoTyped DEF Typed, BootstrapInspect, Labels
  <2>2. QED  BY <1>1, <2>1, OnlyClientTyped DEF BootstrapInspect
<1>2. CASE BootstrapMarker(c)
  <2>1. client' \in [Clients -> ClientState]
    BY <1>2, GotoTyped, ReturnTyped DEF Typed, BootstrapMarker, Labels
  <2>2. QED  BY <1>2, <2>1, OnlyClientTyped DEF BootstrapMarker
<1>3. CASE BootstrapSSH(c)
  <2>1. client' \in [Clients -> ClientState]
    BY <1>3, GotoTyped, ReturnTyped DEF Typed, BootstrapSSH, Labels
  <2>2. QED  BY <1>3, <2>1, OnlyClientTyped DEF BootstrapSSH
<1>4. CASE BootstrapRun(c)
  <2>1. client' \in [Clients -> ClientState]
    BY <1>4, GotoTyped, ReturnTyped DEF Typed, BootstrapRun, Labels
  <2>2. guest' \in [Images -> GuestState]
    <3>1. ASSUME NEW p \in Reachable("vm"),
                 guest' = [guest EXCEPT ![vfkit[p].disk].applied = OnceMore(@)]
          PROVE  guest' \in [Images -> GuestState]
      <4>1. \A n : OnceMore(n) \in 0..2
        BY DEF OnceMore
      <4>2. QED  BY <3>1, <4>1 DEF Typed, TypeOK, GuestState
    <3>2. CASE UNCHANGED guest
      BY <3>2 DEF Typed, TypeOK
    <3>3. QED  BY <1>4, <3>1, <3>2 DEF BootstrapRun
  <2>3. QED  BY <1>4, <2>1, <2>2, GuestChangeTyped DEF BootstrapRun
<1>5. CASE BootstrapMark(c)
  <2>1. client' \in [Clients -> ClientState]
    BY <1>5, GotoTyped, ReturnTyped DEF Typed, BootstrapMark, Labels
  <2>2. QED  BY <1>5, <2>1 DEF Typed, TypeOK, RunsOnADisk, BootstrapMark, runFiles
<1>6. CASE BootstrapReboot(c)
  <2>1. client' \in [Clients -> ClientState]
    BY <1>6, ReturnTyped DEF Typed, BootstrapReboot
  <2>2. QED  BY <1>6, <2>1, OnlyClientTyped DEF BootstrapReboot
<1>7. QED  BY <1>1, <1>2, <1>3, <1>4, <1>5, <1>6 DEF BootstrapStep

(* What UpgradeKernel installs and copies.                                 *)
LEMMA InstalledTyped ==
    ASSUME NEW g \in GuestState, NEW r \in 1..MaxRelease,
           NEW k \in SUBSET {r}, NEW i \in SUBSET {r}
    PROVE  Installed(g, r, k, i) \in GuestState
BY DEF Installed, GuestState

LEMMA UpgradeAssetsTyped ==
    ASSUME Typed, NEW p \in Reachable("vm")
    PROVE  /\ vfkit[p].disk \in Images
           /\ KernelsOf(p) \subseteq Assets /\ InitrdsOf(p) \subseteq Assets
<1>1. vfkit[p].disk \in Images
  BY AssetOnTyped DEF Kinds
<1>2. guest[vfkit[p].disk] \in GuestState
  BY <1>1 DEF Typed, TypeOK
<1>3. /\ LastOf(guest[vfkit[p].disk].kernels) \subseteq 1..MaxRelease
      /\ LastOf(guest[vfkit[p].disk].initrds) \subseteq 1..MaxRelease
  BY <1>2 DEF GuestState, LastOf
<1>4. QED  BY <1>1, <1>3 DEF KernelsOf, InitrdsOf, Assets

LEMMA UpgradeTyped ==
    ASSUME Typed, NEW c \in Clients, UpgradeStep(c)
    PROVE  Typed'
<1>1. CASE UpgradeSSH(c)
  <2>1. client' \in [Clients -> ClientState]
    BY <1>1, GotoTyped, ReturnTyped DEF Typed, UpgradeSSH, Labels
  <2>2. QED  BY <1>1, <2>1, OnlyClientTyped DEF UpgradeSSH
<1>2. CASE UpgradeGuest(c)
  <2>1. client' \in [Clients -> ClientState]
    BY <1>2, GotoTyped, ReturnTyped DEF Typed, UpgradeGuest, Labels
  <2>2. guest' \in [Images -> GuestState]
    <3>1. ASSUME NEW p \in Reachable("vm"), NEW r \in 1..MaxRelease,
                 NEW k \in SUBSET {r}, NEW i \in SUBSET {r},
                 guest' = [guest EXCEPT ![vfkit[p].disk] = Installed(@, r, k, i)]
          PROVE  guest' \in [Images -> GuestState]
      <4>1. guest[vfkit[p].disk] \in GuestState
        BY UpgradeAssetsTyped DEF Typed, TypeOK
      <4>2. Installed(guest[vfkit[p].disk], r, k, i) \in GuestState
        BY <4>1, InstalledTyped
      <4>3. QED  BY <3>1, <4>2 DEF Typed, TypeOK
    <3>2. CASE UNCHANGED guest
      BY <3>2 DEF Typed, TypeOK
    <3>3. QED  BY <1>2, <3>1, <3>2 DEF UpgradeGuest
  <2>3. QED  BY <1>2, <2>1, <2>2, GuestChangeTyped DEF UpgradeGuest
<1>3. CASE UpgradeCopyKernel(c)
  <2>1. client' \in [Clients -> ClientState]
    BY <1>3, GotoTyped, ReturnTyped DEF Typed, UpgradeCopyKernel, Labels, StopSites
  <2>2. kernel' \in Assets
    <3>1. CASE UNCHANGED kernel
      BY <3>1 DEF Typed, TypeOK
    <3>2. ASSUME NEW p \in Reachable("vm"), kernel' \in KernelsOf(p)
          PROVE  kernel' \in Assets
      BY <3>2, UpgradeAssetsTyped
    <3>3. QED  BY <1>3, <3>1, <3>2 DEF UpgradeCopyKernel
  <2>3. QED  BY <1>3, <2>1, <2>2 DEF Typed, TypeOK, RunsOnADisk, UpgradeCopyKernel, runFiles
<1>4. CASE UpgradeCopyInitrd(c)
  <2>1. client' \in [Clients -> ClientState]
    BY <1>4, CallStopTyped, ReturnTyped DEF Typed, UpgradeCopyInitrd, Labels, StopSites
  <2>2. initrd' \in Assets
    <3>1. CASE UNCHANGED initrd
      BY <3>1 DEF Typed, TypeOK
    <3>2. ASSUME NEW p \in Reachable("vm"), initrd' \in InitrdsOf(p)
          PROVE  initrd' \in Assets
      BY <3>2, UpgradeAssetsTyped
    <3>3. QED  BY <1>4, <3>1, <3>2 DEF UpgradeCopyInitrd
  <2>3. QED  BY <1>4, <2>1, <2>2 DEF Typed, TypeOK, RunsOnADisk, UpgradeCopyInitrd, runFiles
<1>5. QED  BY <1>1, <1>2, <1>3, <1>4 DEF UpgradeStep

LEMMA VfkitTyped ==
    ASSUME Typed, NEW p \in Procs, VfkitStep(p) \/ VfkitCrash(p)
    PROVE  Typed'
<1>1. CASE VfkitWritePidFile(p)
  <2>1. vfkit' \in [Procs -> VfkitState] /\ RunsOnADisk'
    BY <1>1 DEF Typed, TypeOK, VfkitState, RunsOnADisk, VfkitWritePidFile
  <2>2. QED  BY <1>1, <2>1 DEF Typed, TypeOK, VfkitWritePidFile, bootFiles
<1>2. CASE VfkitRun(p)
  <2>1. vfkit' \in [Procs -> VfkitState] /\ RunsOnADisk'
    BY <1>2 DEF Typed, TypeOK, VfkitState, RunsOnADisk, VfkitRun, CanRun
  <2>2. QED  BY <1>2, <2>1 DEF Typed, TypeOK, VfkitRun, bootFiles
<1>3. CASE vfkit' = [vfkit EXCEPT ![p] = Dead]
           /\ UNCHANGED <<client, runFiles, bootFiles, guest>>
  <2>1. Dead \in VfkitState /\ Dead.st # "running"
    BY DEF Dead, VfkitState, Kinds
  <2>2. vfkit' \in [Procs -> VfkitState] /\ RunsOnADisk'
    BY <1>3, <2>1 DEF Typed, TypeOK, RunsOnADisk
  <2>3. QED  BY <1>3, <2>2 DEF Typed, TypeOK, runFiles, bootFiles
<1>4. QED  BY <1>1, <1>2, <1>3 DEF VfkitStep, VfkitExit, VfkitCrash

LEMMA BeginTyped ==
    ASSUME Typed, NEW c \in Clients, Begin(c)
    PROVE  Typed'
<1> PICK o \in Commands :
      client' = [client EXCEPT ![c] = [op |-> o, pc |-> Entry[o], ok |-> FALSE,
                                       site |-> "command", left |-> {}]]
  BY DEF Begin
<1>1. Entry[o] \in Labels
  BY CommandsAssumption DEF Entry, Labels
<1>2. "command" \in StopSites /\ {} \in SUBSET Entries
  BY DEF StopSites
<1>3. client' \in [Clients -> ClientState]
  BY <1>1, <1>2 DEF Typed, TypeOK, ClientState
<1>4. QED  BY <1>3, OnlyClientTyped DEF Begin

LEMMA KillTyped ==
    ASSUME Typed, NEW c \in Clients, Kill(c)
    PROVE  Typed'
BY ReturnTyped, OnlyClientTyped DEF Typed, Kill

LEMMA InitTyped == Init => Typed
<1> SUFFICES ASSUME Init PROVE Typed
  OBVIOUS
<1>1. Idle(FALSE) \in ClientState
  <2>1. "idle" \in Labels /\ "command" \in StopSites /\ {} \in SUBSET Entries
    BY DEF Labels, StopSites
  <2>2. QED  BY <2>1 DEF Idle, ClientState
<1>2. Dead \in VfkitState /\ Dead.st # "running"
  BY DEF Dead, VfkitState, Kinds
<1>3. BlankImage("blank") \in GuestState
  BY ReleaseAssumption DEF BlankImage, GuestState
<1>4. NoAsset \in Assets
  BY DEF Assets
<1>5. QED  BY <1>1, <1>2, <1>3, <1>4 DEF Init, Typed, TypeOK, RunsOnADisk

LEMMA NextTyped == Typed /\ [Next]_vars => Typed'
<1> SUFFICES ASSUME Typed, [Next]_vars PROVE Typed'
  OBVIOUS
<1>1. ASSUME NEW c \in Clients, Begin(c) \/ Step(c) \/ Kill(c)
      PROVE  Typed'
  BY <1>1, BeginTyped, KillTyped, StartTyped, BuildTyped, StopTyped, DestroyTyped,
     BootstrapTyped, UpgradeTyped DEF Step
<1>2. ASSUME NEW p \in Procs, VfkitStep(p) \/ VfkitCrash(p)
      PROVE  Typed'
  BY <1>2, VfkitTyped
<1>3. CASE UNCHANGED vars
  BY <1>3 DEF Typed, TypeOK, RunsOnADisk, vars, runFiles, bootFiles
<1>4. QED  BY <1>1, <1>2, <1>3 DEF Next

(* Every variable keeps its type, and a machine that runs has a disk, with *)
(* any number of clients running any commands.                             *)
THEOREM TypeCorrect == Spec => [](TypeOK /\ RunsOnADisk)
<1>1. Spec => []Typed
  BY InitTyped, NextTyped, PTL DEF Spec
<1>2. Typed => TypeOK /\ RunsOnADisk
  BY DEF Typed
<1>3. QED  BY <1>1, <1>2, PTL

-----------------------------------------------------------------------------
(* KindsApart.  Files that name a process are only written by a process of *)
(* their kind or on behalf of one; all other steps remove them or leave    *)
(* them alone.  What is left is a vfkit that is given a pid which a file    *)
(* of the other kind still names.                                          *)

Shrinks(f) == \A k \in Kinds : f'[k] \in {f[k], NoProc}
FilesShrink == UNCHANGED vfkit /\ Shrinks(pidFile) /\ Shrinks(sock)

LEMMA ShrinkApart ==
    ASSUME KindsApart, FilesShrink
    PROVE  KindsApart'
BY IdentifiersAssumption DEF KindsApart, FilesShrink, Shrinks, Alive

PidsFresh == "reuse" \notin Environment

LEMMA LaunchApart ==
    ASSUME Typed, KindsApart, NEW k \in Kinds, NEW i, Launch(k, i), Shrinks(sock),
           PidsFresh \/ \A j \in Kinds \ {k} : pidFile[j] = NoProc
    PROVE  KindsApart'
<1> PICK p \in FreshProcs :
        /\ vfkit' = [vfkit EXCEPT ![p] = [kind |-> k, disk |-> i,
                 st |-> IF "lag" \in Environment THEN "launched" ELSE "starting"]]
        /\ pidFile' = IF "lag" \in Environment THEN pidFile
                                               ELSE [pidFile EXCEPT ![k] = p]
  BY DEF Launch
<1>1. p \in Procs /\ \A j \in Kinds : p # sock[j] /\ (p = pidFile[j] => j = k)
  BY IdentifiersAssumption DEF FreshProcs, PidsFresh
<1>2. vfkit'[p].kind = k /\ \A q \in Procs \ {p} : vfkit'[q] = vfkit[q]
  BY <1>1 DEF Typed, TypeOK
<1>3. SUFFICES ASSUME NEW j \in Kinds, NEW q \in Procs \intersect {pidFile'[j], sock'[j]},
                      Alive(q)'
               PROVE  vfkit'[q].kind = j
  BY DEF KindsApart
<1>4. CASE q = p
  <2>1. q # sock'[j]
    BY <1>1, <1>4, IdentifiersAssumption DEF Shrinks
  <2>2. pidFile'[j] = p
    BY <1>4, <2>1
  <2>3. j = k
    BY <1>1, <2>2 DEF Typed, TypeOK
  <2>4. QED  BY <1>2, <1>4, <2>3
<1>5. CASE q # p
  <2>1. q \in {pidFile[j], sock[j]}
    BY <1>5, IdentifiersAssumption DEF Shrinks, Typed, TypeOK
  <2>2. Alive(q)
    BY <1>2, <1>3, <1>5 DEF Alive
  <2>3. QED  BY <1>2, <1>5, <2>1, <2>2 DEF KindsApart
<1>6. QED  BY <1>4, <1>5

(* Where c launches a vfkit of one kind no file names one of the other.    *)
OtherUnnamed(c) ==
    /\ At(c, "launch") => pidFile["build"] = NoProc
    /\ At(c, "build_launch") => pidFile["vm"] = NoProc

LEMMA StepApart ==
    ASSUME Typed, KindsApart, NEW c \in Clients, Step(c), PidsFresh \/ OtherUnnamed(c)
    PROVE  KindsApart'
<1>1. CASE StartStep(c)
  <2>1. CASE LaunchVM(c)
    <3>1. Shrinks(sock)
      BY <2>1 DEF LaunchVM, Shrinks
    <3>2. CASE Launch("vm", disk)
      BY <2>1, <3>1, <3>2, LaunchApart DEF Kinds, LaunchVM, OtherUnnamed
    <3>3. CASE UNCHANGED <<vfkit, pidFile>>
      BY <3>1, <3>3, ShrinkApart DEF FilesShrink, Shrinks
    <3>4. QED  BY <2>1, <3>2, <3>3 DEF LaunchVM
  <2>2. CASE RemoveSocket(c)
    BY <2>2, ShrinkApart DEF RemoveSocket, FilesShrink, Shrinks, Typed, TypeOK
  <2>3. CASE \/ StartCheck(c) \/ StartBuildCheck(c) \/ PrepareDisk(c)
             \/ ImageCopy(c) \/ ImageResize(c) \/ WaitRunning(c)
    BY <2>3, ShrinkApart DEF StartCheck, StartBuildCheck, PrepareDisk, ImageCopy,
             ImageResize, WaitRunning, runFiles, FilesShrink, Shrinks
  <2>4. QED  BY <1>1, <2>1, <2>2, <2>3 DEF StartStep
<1>2. CASE BuildStep(c)
  <2>1. CASE BuildLaunch(c)
    <3>1. Shrinks(sock)
      BY <2>1 DEF BuildLaunch, Shrinks, Typed, TypeOK
    <3>2. CASE Launch("build", building)
      BY <2>1, <3>1, <3>2, LaunchApart DEF Kinds, BuildLaunch, OtherUnnamed
    <3>3. CASE UNCHANGED <<vfkit, pidFile>>
      BY <3>1, <3>3, ShrinkApart DEF FilesShrink, Shrinks
    <3>4. QED  BY <2>1, <3>2, <3>3 DEF BuildLaunch
  <2>2. CASE BuildCleanup(c)
    BY <2>2, ShrinkApart DEF BuildCleanup, FilesShrink, Shrinks, Typed, TypeOK
  <2>3. CASE \/ BuildPrepare(c) \/ BuildTarget(c) \/ BuildWait(c) \/ BuildScript(c)
             \/ BuildKernel(c) \/ BuildInitrd(c) \/ BuildRename(c)
    BY <2>3, ShrinkApart DEF BuildPrepare, BuildTarget, BuildWait, BuildScript,
             BuildKernel, BuildInitrd, BuildRename, runFiles, FilesShrink, Shrinks
  <2>4. QED  BY <1>2, <2>1, <2>2, <2>3 DEF BuildStep
<1>3. CASE StopStep(c)
  <2>1. CASE StopRequest(c)
    <3>1. ASSUME NEW p \in Procs, Alive(p), UNCHANGED runFiles,
                 vfkit' = [vfkit EXCEPT ![p].st = "stopping"]
          PROVE  KindsApart'
      <4>1. \A q \in Procs : vfkit'[q].kind = vfkit[q].kind /\ (Alive(q)' => Alive(q))
        BY <3>1 DEF Typed, TypeOK, VfkitState, Alive
      <4>2. QED  BY <3>1, <4>1 DEF KindsApart, runFiles
    <3>2. CASE vfkit' = vfkit
      BY <2>1, <3>2, ShrinkApart DEF StopRequest, runFiles, FilesShrink, Shrinks
    <3>3. QED  BY <2>1, <3>1, <3>2 DEF StopRequest
  <2>2. CASE StopRemove(c)
    BY <2>2, ShrinkApart DEF StopRemove, FilesShrink, Shrinks, Typed, TypeOK
  <2>3. CASE StopCheck(c) \/ StopWait(c)
    BY <2>3, ShrinkApart DEF StopCheck, StopWait, runFiles, FilesShrink, Shrinks
  <2>4. QED  BY <1>3, <2>1, <2>2, <2>3 DEF StopStep
<1>4. CASE DestroyStep(c)
  <2>1. CASE DestroyUnlink(c)
    BY <2>1, ShrinkApart DEF DestroyUnlink, FilesShrink, Shrinks
  <2>2. CASE DestroyRunFiles(c)
    BY <2>2, ShrinkApart DEF DestroyRunFiles, FilesShrink, Shrinks, runFiles, Typed, TypeOK
  <2>3. CASE DestroyCheck(c) \/ DestroyList(c) \/ DestroyRemoveDir(c)
    BY <2>3, ShrinkApart DEF DestroyCheck, DestroyList, DestroyRemoveDir, runFiles,
             FilesShrink, Shrinks
  <2>4. QED  BY <1>4, <2>1, <2>2, <2>3 DEF DestroyStep
<1>5. CASE BootstrapStep(c)
  BY <1>5, ShrinkApart DEF BootstrapStep, BootstrapInspect, BootstrapMarker,
           BootstrapSSH, BootstrapRun, BootstrapMark, BootstrapReboot, runFiles,
           FilesShrink, Shrinks
<1>6. CASE UpgradeStep(c)
  BY <1>6, ShrinkApart DEF UpgradeStep, UpgradeSSH, UpgradeGuest, UpgradeCopyKernel,
           UpgradeCopyInitrd, runFiles, FilesShrink, Shrinks
<1>7. QED  BY <1>1, <1>2, <1>3, <1>4, <1>5, <1>6 DEF Step

LEMMA VfkitApart ==
    ASSUME Typed, KindsApart, NEW p \in Procs, VfkitStep(p) \/ VfkitCrash(p)
    PROVE  KindsApart'
<1>1. CASE VfkitWritePidFile(p)
  <2>1. \A q \in Procs : vfkit'[q].kind = vfkit[q].kind /\ (Alive(q)' => Alive(q))
    BY <1>1 DEF VfkitWritePidFile, Typed, TypeOK, VfkitState, Alive
  <2>2. \A k \in Kinds : \/ pidFile'[k] = pidFile[k]
                         \/ pidFile'[k] = p /\ vfkit[p].kind = k
    BY <1>1 DEF VfkitWritePidFile, Typed, TypeOK
  <2>3. QED  BY <1>1, <2>1, <2>2 DEF KindsApart, VfkitWritePidFile
<1>2. CASE VfkitRun(p)
  <2>1. \A q \in Procs : vfkit'[q].kind = vfkit[q].kind /\ (Alive(q)' => Alive(q))
    BY <1>2 DEF VfkitRun, Typed, TypeOK, VfkitState, Alive
  <2>2. \A k \in Kinds : \/ sock'[k] = sock[k]
                         \/ sock'[k] = p /\ vfkit[p].kind = k
    BY <1>2 DEF VfkitRun, Typed, TypeOK
  <2>3. QED  BY <1>2, <2>1, <2>2 DEF KindsApart, VfkitRun
<1>3. CASE vfkit' = [vfkit EXCEPT ![p] = Dead] /\ UNCHANGED runFiles
  <2>1. \A q \in Procs : Alive(q)' => Alive(q) /\ vfkit'[q] = vfkit[q]
    BY <1>3 DEF Typed, TypeOK, Alive, Dead
  <2>2. QED  BY <1>3, <2>1 DEF KindsApart, runFiles
<1>4. QED  BY <1>1, <1>2, <1>3 DEF VfkitStep, VfkitExit, VfkitCrash

LEMMA InitApart == Init => KindsApart
BY IdentifiersAssumption DEF Init, KindsApart

LEMMA NextApart ==
    ASSUME Typed, KindsApart, [Next]_vars, PidsFresh \/ \A c \in Clients : OtherUnnamed(c)
    PROVE  KindsApart'
<1>1. ASSUME NEW c \in Clients, Begin(c) \/ Step(c) \/ Kill(c)
      PROVE  KindsApart'
  <2>1. CASE Step(c)
    BY <2>1, StepApart
  <2>2. CASE Begin(c) \/ Kill(c)
    BY <2>2, ShrinkApart DEF Begin, Kill, runFiles, FilesShrink, Shrinks
  <2>3. QED  BY <1>1, <2>1, <2>2
<1>2. ASSUME NEW p \in Procs, VfkitStep(p) \/ VfkitCrash(p)
      PROVE  KindsApart'
  BY <1>2, VfkitApart
<1>3. CASE UNCHANGED vars
  BY <1>3, ShrinkApart DEF vars, runFiles, FilesShrink, Shrinks
<1>4. QED  BY <1>1, <1>2, <1>3 DEF Next

(* When every vfkit gets a pid that no file names: with any number of      *)
(* clients, killed or not.                                                 *)
LEMMA FreshPidsApart ==
    ASSUME PidsFresh
    PROVE  Spec => []KindsApart
<1>1. Typed /\ KindsApart /\ [Next]_vars => KindsApart'
  BY NextApart
<1>2. QED  BY <1>1, InitApart, InitTyped, NextTyped, PTL DEF Spec

-----------------------------------------------------------------------------
(* PublishedBootable, when commands run one at a time.  BuildProgress says  *)
(* what the files show of a build's progress; it needs TypeOK and          *)
(* RunsOnADisk because kernel and initrd are copied from a running guest.  *)

SoleClient == \A a, b \in Clients : a = b

(* A step after which c is nowhere past a copy keeps BuildProgress.        *)
NotPastCopy(c) == client'[c].pc # "build_initrd" /\ ~AssetsCopied(c)'

LEMMA ElsewhereProgress ==
    ASSUME SoleClient, NEW c \in Clients, NotPastCopy(c)
    PROVE  BuildProgress'
BY DEF SoleClient, NotPastCopy, BuildProgress

(* Where the helpers leave a client.                                       *)
LEMMA JumpGoes ==
    ASSUME TypeOK, NEW c \in Clients, NEW l, NEW s, NEW r, Jump(c, l, s, r)
    PROVE  client'[c].pc = l /\ client'[c].site = s
BY DEF TypeOK, Jump

LEMMA ReturnGoes ==
    ASSUME TypeOK, NEW c \in Clients, NEW r, Return(c, r)
    PROVE  NotPastCopy(c)
BY DEF TypeOK, Return, Idle, NotPastCopy, AssetsCopied

LEMMA GotoGoes ==
    ASSUME TypeOK, NEW c \in Clients, NEW l, Goto(c, l),
           l \notin {"build_initrd", "build_rename",
                     "stop_check", "stop_request", "stop_wait", "stop_remove"}
    PROVE  NotPastCopy(c)
BY JumpGoes DEF Goto, NotPastCopy, AssetsCopied

LEMMA BuildEndsGoes ==
    ASSUME TypeOK, NEW c \in Clients, NEW r, BuildEnds(c, r)
    PROVE  NotPastCopy(c)
BY JumpGoes DEF BuildEnds, NotPastCopy, AssetsCopied

LEMMA StartReturnsGoes ==
    ASSUME TypeOK, NEW c \in Clients, NEW r, StartReturns(c, r)
    PROVE  NotPastCopy(c)
BY GotoGoes, ReturnGoes DEF StartReturns

LEMMA CommandStopGoes ==
    ASSUME TypeOK, NEW c \in Clients, CallStop(c, "command")
    PROVE  NotPastCopy(c)
BY JumpGoes DEF CallStop, NotPastCopy, AssetsCopied

(* Within a Stop: for the builder both copies stay, for others nothing.    *)
LEMMA StopProgress ==
    ASSUME Typed, BuildProgress, SoleClient, NEW c \in Clients, StopStep(c)
    PROVE  BuildProgress'
<1>1. UNCHANGED <<kernel, initrd>>
  BY DEF StopStep, StopCheck, StopRequest, StopWait, StopRemove, bootFiles
<1>2. client[c].pc \in {"stop_check", "stop_request", "stop_wait", "stop_remove"}
  BY DEF StopStep, StopCheck, StopRequest, StopWait, StopRemove, At
<1>3. CASE client[c].site = "build"
  <2>1. AssetsCopied(c)
    BY <1>2, <1>3 DEF AssetsCopied
  <2>2. kernel' # NoAsset /\ initrd' # NoAsset
    BY <1>1, <2>1 DEF BuildProgress
  <2>3. QED  BY <2>2 DEF BuildProgress, SoleClient
<1>4. CASE client[c].site # "build"
  <2>1. ASSUME NEW r, StopReturns(c, r)
        PROVE  NotPastCopy(c)
    BY <1>4, <2>1, GotoGoes, ReturnGoes DEF StopReturns, Typed
  <2>2. ASSUME NEW l \in {"stop_request", "stop_wait", "stop_remove"}, Goto(c, l)
        PROVE  NotPastCopy(c)
    BY <1>4, <2>2, JumpGoes DEF Goto, NotPastCopy, AssetsCopied, Typed
  <2>3. NotPastCopy(c)
    BY <2>1, <2>2 DEF StopStep, StopCheck, StopRequest, StopWait, StopRemove
  <2>4. QED  BY <2>3, ElsewhereProgress
<1>5. QED  BY <1>3, <1>4

LEMMA OtherBuildStepsGo ==
    ASSUME TypeOK, NEW c \in Clients,
           \/ BuildPrepare(c) \/ BuildTarget(c) \/ BuildLaunch(c) \/ BuildWait(c)
           \/ BuildScript(c) \/ BuildRename(c) \/ BuildCleanup(c)
    PROVE  NotPastCopy(c)
BY GotoGoes, StartReturnsGoes, BuildEndsGoes
   DEF BuildPrepare, BuildTarget, BuildLaunch, BuildWait, BuildScript, BuildRename,
       BuildCleanup

LEMMA BuildStepProgress ==
    ASSUME Typed, BuildProgress, SoleClient, NEW c \in Clients, BuildStep(c)
    PROVE  BuildProgress'
<1>1. CASE BuildKernel(c)
  <2>1. CASE BuildEnds(c, FALSE)
    BY <2>1, BuildEndsGoes, ElsewhereProgress DEF Typed
  <2>2. ASSUME NEW p \in Reachable("build"), kernel' = AssetOn(p), Goto(c, "build_initrd")
        PROVE  BuildProgress'
    <3>1. kernel' # NoAsset
      BY <2>2, AssetOnTyped DEF Kinds
    <3>2. client'[c].pc = "build_initrd" /\ client'[c].site = client[c].site
      BY <2>2, JumpGoes DEF Goto, Typed
    <3>3. QED  BY <3>1, <3>2 DEF BuildProgress, AssetsCopied, SoleClient
  <2>3. QED  BY <1>1, <2>1, <2>2 DEF BuildKernel
<1>2. CASE BuildInitrd(c)
  <2>1. CASE BuildEnds(c, FALSE)
    BY <2>1, BuildEndsGoes, ElsewhereProgress DEF Typed
  <2>2. ASSUME NEW p \in Reachable("build"), initrd' = AssetOn(p), UNCHANGED kernel
        PROVE  BuildProgress'
    <3>1. initrd' # NoAsset
      BY <2>2, AssetOnTyped DEF Kinds
    <3>2. kernel' # NoAsset
      BY <1>2, <2>2 DEF BuildInitrd, BuildProgress, At
    <3>3. QED  BY <3>1, <3>2 DEF BuildProgress, SoleClient
  <2>3. QED  BY <1>2, <2>1, <2>2 DEF BuildInitrd
<1>3. CASE \/ BuildPrepare(c) \/ BuildTarget(c) \/ BuildLaunch(c) \/ BuildWait(c)
           \/ BuildScript(c) \/ BuildRename(c) \/ BuildCleanup(c)
  BY <1>3, OtherBuildStepsGo, ElsewhereProgress DEF Typed
<1>4. QED  BY <1>1, <1>2, <1>3 DEF BuildStep

LEMMA OtherStepsGo ==
    ASSUME Typed, NEW c \in Clients,
           \/ StartStep(c) \/ DestroyStep(c) \/ BootstrapStep(c) \/ UpgradeStep(c)
           \/ Begin(c) \/ Kill(c)
    PROVE  NotPastCopy(c)
<1>1. CASE StartStep(c)
  BY <1>1, GotoGoes, StartReturnsGoes
     DEF Typed, StartStep, StartCheck, StartBuildCheck, PrepareDisk, ImageCopy,
         ImageResize, RemoveSocket, LaunchVM, WaitRunning
<1>2. CASE DestroyStep(c)
  <2>1. CASE DestroyCheck(c) \/ DestroyRunFiles(c) \/ DestroyRemoveDir(c)
    BY <2>1, GotoGoes, CommandStopGoes, ReturnGoes
       DEF Typed, DestroyCheck, DestroyRunFiles, DestroyRemoveDir
  <2>2. CASE DestroyList(c) \/ DestroyUnlink(c)
    <3>1. client'[c].pc = "destroy_unlink"
      BY <2>2 DEF DestroyList, DestroyUnlink, At, Typed, TypeOK, ClientState
    <3>2. QED  BY <3>1 DEF NotPastCopy, AssetsCopied
  <2>3. QED  BY <1>2, <2>1, <2>2 DEF DestroyStep
<1>3. CASE BootstrapStep(c)
  BY <1>3, GotoGoes, ReturnGoes
     DEF Typed, BootstrapStep, BootstrapInspect, BootstrapMarker, BootstrapSSH,
         BootstrapRun, BootstrapMark, BootstrapReboot
<1>4. CASE UpgradeStep(c)
  BY <1>4, GotoGoes, ReturnGoes, CommandStopGoes
     DEF Typed, UpgradeStep, UpgradeSSH, UpgradeGuest, UpgradeCopyKernel,
         UpgradeCopyInitrd
<1>5. CASE Kill(c)
  BY <1>5, ReturnGoes DEF Kill, Typed
<1>6. CASE Begin(c)
  <2> PICK o \in Commands :
        client' = [client EXCEPT ![c] = [op |-> o, pc |-> Entry[o], ok |-> FALSE,
                                         site |-> "command", left |-> {}]]
    BY <1>6 DEF Begin
  <2>1. client'[c].site = "command" /\ client'[c].pc = Entry[o]
    BY DEF Typed, TypeOK
  <2>2. Entry[o] \notin {"build_initrd", "build_rename"}
    BY CommandsAssumption DEF Entry
  <2>3. QED  BY <2>1, <2>2 DEF NotPastCopy, AssetsCopied
<1>7. QED  BY <1>1, <1>2, <1>3, <1>4, <1>5, <1>6

LEMMA NextProgress ==
    ASSUME SoleClient
    PROVE  Typed /\ BuildProgress /\ [Next]_vars => BuildProgress'
<1> SUFFICES ASSUME Typed, BuildProgress, [Next]_vars PROVE BuildProgress'
  OBVIOUS
<1>1. ASSUME NEW c \in Clients, Begin(c) \/ Step(c) \/ Kill(c)
      PROVE  BuildProgress'
  BY <1>1, StopProgress, BuildStepProgress, OtherStepsGo, ElsewhereProgress DEF Step
<1>2. ASSUME NEW p \in Procs, VfkitStep(p) \/ VfkitCrash(p)
      PROVE  BuildProgress'
  <2>1. UNCHANGED <<client, kernel, initrd>>
    BY <1>2 DEF VfkitStep, VfkitCrash, VfkitWritePidFile, VfkitRun, VfkitExit, bootFiles
  <2>2. QED  BY <2>1 DEF BuildProgress, AssetsCopied
<1>3. CASE UNCHANGED vars
  BY <1>3 DEF vars, bootFiles, BuildProgress, AssetsCopied
<1>4. QED  BY <1>1, <1>2, <1>3 DEF Next

(* Only the rename that ends a build publishes a disk.                     *)
LEMMA OnlyRenamePublishes ==
    ASSUME [Next]_vars, Publishes
    PROVE  \E c \in Clients : At(c, "build_rename") /\ UNCHANGED <<kernel, initrd>>
<1>1. ~UNCHANGED disk /\ building' # building /\ disk' # NoImage
  BY DEF Publishes
<1>2. ASSUME NEW c \in Clients, StartStep(c)
      PROVE  UNCHANGED building
  BY <1>2 DEF StartStep, StartCheck, StartBuildCheck, PrepareDisk, ImageCopy,
              ImageResize, RemoveSocket, LaunchVM, WaitRunning, bootFiles
<1>3. ASSUME NEW c \in Clients, BuildStep(c)
      PROVE  BuildRename(c) \/ UNCHANGED disk
  BY <1>3 DEF BuildStep, BuildPrepare, BuildTarget, BuildLaunch, BuildWait,
              BuildScript, BuildKernel, BuildInitrd, BuildCleanup, bootFiles
<1>4. ASSUME NEW c \in Clients, StopStep(c)
      PROVE  UNCHANGED disk
  BY <1>4 DEF StopStep, StopCheck, StopRequest, StopWait, StopRemove, bootFiles
<1>5. ASSUME NEW c \in Clients, DestroyStep(c)
      PROVE  UNCHANGED disk \/ disk' = NoImage
  BY <1>5 DEF DestroyStep, DestroyCheck, DestroyRunFiles, DestroyList,
              DestroyUnlink, DestroyRemoveDir, bootFiles
<1>6. ASSUME NEW c \in Clients, BootstrapStep(c) \/ UpgradeStep(c)
      PROVE  UNCHANGED disk
  BY <1>6 DEF BootstrapStep, BootstrapInspect, BootstrapMarker, BootstrapSSH,
              BootstrapRun, BootstrapMark, BootstrapReboot, UpgradeStep, UpgradeSSH,
              UpgradeGuest, UpgradeCopyKernel, UpgradeCopyInitrd, bootFiles
<1>7. ASSUME NEW c \in Clients, Begin(c) \/ Kill(c)
      PROVE  UNCHANGED disk
  BY <1>7 DEF Begin, Kill, bootFiles
<1>8. ASSUME NEW p \in Procs, VfkitStep(p) \/ VfkitCrash(p)
      PROVE  UNCHANGED disk
  BY <1>8 DEF VfkitStep, VfkitCrash, VfkitWritePidFile, VfkitRun, VfkitExit, bootFiles
<1>9. UNCHANGED vars => UNCHANGED disk
  BY DEF vars, bootFiles
<1>10. PICK c \in Clients : BuildRename(c)
  BY <1>1, <1>2, <1>3, <1>4, <1>5, <1>6, <1>7, <1>8, <1>9 DEF Next, Step
<1>11. QED  BY <1>10 DEF BuildRename

(* While commands run one at a time, disk.img appears only with kernel and *)
(* initrd in place, although any command may be killed, vfkit may crash or *)
(* outlive a Stop, and any copy of the build may fail.                     *)
THEOREM PublishedBootableSole ==
    ASSUME SoleClient
    PROVE  Spec => PublishedBootable
<1>1. Init => BuildProgress
  <2>1. ASSUME Init, NEW c \in Clients
        PROVE  client[c].pc = "idle" /\ client[c].site = "command"
    <3>1. client[c] = Idle(FALSE)
      BY <2>1 DEF Init
    <3>2. QED  BY <3>1 DEF Idle
  <2>2. QED  BY <2>1 DEF BuildProgress, AssetsCopied
<1>2. Typed /\ BuildProgress /\ [Next]_vars => BuildProgress'
  BY NextProgress
<1>3. BuildProgress /\ [Next]_vars => [Publishes => kernel # NoAsset /\ initrd # NoAsset]_vars
  BY OnlyRenamePublishes DEF BuildProgress, AssetsCopied, At
<1>4. QED  BY <1>1, <1>2, <1>3, InitTyped, NextTyped, PTL DEF Spec, PublishedBootable

=============================================================================
