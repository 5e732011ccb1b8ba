----------------------------- MODULE VMLifecycle -----------------------------
(***************************************************************************)
(* The life of the virtual machine: the commands start, stop, destroy,     *)
(* bootstrap and upgrade-kernel of internal/vmctl/vm.go and inspect.go,    *)
(* with the disk builder of build_vfkit.go that start runs on first boot.  *)
(*                                                                         *)
(* A client is a process that runs one command at a time: a CLI            *)
(* invocation, or one of the goroutines the web server's handlers start.   *)
(* Clients share nothing but the files of the state directory and the      *)
(* vfkit processes; there is no lock.  A step of a client is one access to *)
(* that shared state, so commands interleave as the processes do.          *)
(*                                                                         *)
(* StartAutoTunnels and StopAllTunnels, which start and stop call last,    *)
(* touch none of this state and are left to TunnelManager.                 *)
(*                                                                         *)
(* A definition marked "faulty variant" is no part of the model: it is the *)
(* definition that follows with a bug, to show that a property notices it. *)
(***************************************************************************)
EXTENDS Naturals

CONSTANTS
    Clients,        \* CLI invocations and web handler goroutines
    Procs,          \* identifiers of vfkit processes
    NoProc,         \* "there is no such file"
    Images,         \* identities of disk images ever created
    NoImage,        \* "there is no such file"
    MaxRelease,     \* bound: kernel releases the repository publishes, in order
    Rank,           \* where sort(1) puts the name of a release among the others
    Commands,       \* the commands clients run in this instance
    BaseImages,     \* what resolveBaseImage finds: a rootfs tarball, a disk image
    Environment     \* what the environment does in this instance, see below

ASSUME IdentifiersAssumption == NoProc \notin Procs /\ NoImage \notin Images
ASSUME ReleaseAssumption     == MaxRelease \in Nat \ {0}
ASSUME RankAssumption        == Rank \in [1..MaxRelease -> Nat]
ASSUME CommandsAssumption    ==
    Commands \subseteq {"start", "stop", "destroy", "bootstrap", "upgrade"}
ASSUME BaseImagesAssumption  == BaseImages \subseteq {"rootfs", "image"}

(***************************************************************************)
(* "kill"  a client dies at any step: Ctrl-C, a closed terminal, the web   *)
(*         server stopped.  Deferred functions do not run.                 *)
(* "exit"  vfkit exits on its own: guest power-off, crash, window closed.  *)
(* "lag"   vfkit writes its pid file some time after it was launched, and  *)
(*         another command may look in between.                            *)
(* "slow"  vfkit outlives the 30 seconds that Stop waits for it.           *)
(* "reuse" a new vfkit may get the pid of a dead one that a file names.    *)
(***************************************************************************)
ASSUME EnvironmentAssumption ==
    Environment \subseteq {"kill", "exit", "lag", "slow", "reuse"}

VARIABLES
    client,     \* client[c]: the command c runs and where it is in it
    vfkit,      \* vfkit[p]: the vfkit process p
    pidFile,    \* pidFile[k]: the process named by vfkit.pid / build-vfkit.pid
    sock,       \* sock[k]: the process bound to vfkit.sock / build-vfkit.sock
    disk,       \* disk.img
    building,   \* disk.img.building
    kernel,     \* vmlinuz
    initrd,     \* initramfs.img
    marker,     \* whether bootstrap.done exists
    guest       \* guest[i]: what is on disk image i

runFiles  == <<pidFile, sock>>
bootFiles == <<disk, building, kernel, initrd, marker>>
vars      == <<client, vfkit, runFiles, bootFiles, guest>>

Kinds == {"vm", "build"}    \* the VM itself, and the VM that builds its disk

Labels ==
    {"idle",
     "start_check", "start_build_check", "prepare_disk", "remove_socket",
     "launch", "wait_running",
     "image_copy", "image_resize",
     "build_prepare", "build_target", "build_launch", "build_wait",
     "build_script", "build_kernel", "build_initrd", "build_rename",
     "build_cleanup",
     "stop_check", "stop_request", "stop_wait", "stop_remove",
     "destroy_check", "destroy_run_files", "destroy_list",
     "destroy_unlink",
     "bootstrap_inspect", "bootstrap_marker", "bootstrap_ssh",
     "bootstrap_run", "bootstrap_mark", "bootstrap_reboot",
     "upgrade_ssh", "upgrade_guest", "upgrade_kernel", "upgrade_initrd"}

(* Stop is called by a command on the VM, by the builder on the build VM,  *)
(* and once more by the builder's deferred cleanup.                        *)
StopSites == {"command", "build", "cleanup"}
Target(site) == IF site = "command" THEN "vm" ELSE "build"

NoAsset == [image |-> NoImage, release |-> 0]
Assets  == [image : Images, release : 1..MaxRelease] \union {NoAsset}

(* The entries of the state directory that matter here.                   *)
PidEntry(k)  == IF k = "vm" THEN "pid" ELSE "build_pid"
SockEntry(k) == IF k = "vm" THEN "sock" ELSE "build_sock"
Entries == {"disk", "building", "kernel", "initrd", "marker"}
              \union {PidEntry(k) : k \in Kinds} \union {SockEntry(k) : k \in Kinds}

Idle(ok) ==
    [op |-> "none", pc |-> "idle", site |-> "command", ok |-> ok, left |-> {}]
Dead     == [kind |-> "vm", st |-> "dead", disk |-> NoImage]
BlankImage(b) == [build |-> b, applied |-> 0, release |-> 1,
                  kernels |-> {1}, initrds |-> {1}]

ClientState == [op   : Commands \union {"none"},
                pc   : Labels,
                site : StopSites,       \* who called Stop
                ok   : BOOLEAN,         \* how the build, or the last command, went
                left : SUBSET Entries]  \* what RemoveAll has yet to unlink

VfkitState == [kind : Kinds, disk : Images \union {NoImage},
               st : {"dead", "launched", "starting", "running", "stopping"}]

GuestState == [build   : {"blank", "partial", "full"},
               applied : 0..2,      \* bootstraps; 2 stands for "more than once"
               release : 1..MaxRelease,             \* the package installed last
               kernels : SUBSET (1..MaxRelease),    \* /boot/vmlinu[xz]-*
               initrds : SUBSET (1..MaxRelease)]    \* /boot/initramfs-*.img

(* Among others: vmlinuz and initramfs.img are absent or a whole copy of   *)
(* one release's file from the /boot of some disk, never a part of it,     *)
(* because copyRemoteFile renames a complete file into place.              *)
TypeOK ==
    /\ client \in [Clients -> ClientState]
    /\ vfkit \in [Procs -> VfkitState]
    /\ pidFile \in [Kinds -> Procs \union {NoProc}]
    /\ sock \in [Kinds -> Procs \union {NoProc}]
    /\ disk \in Images \union {NoImage}
    /\ building \in Images \union {NoImage}
    /\ kernel \in Assets
    /\ initrd \in Assets
    /\ marker \in BOOLEAN
    /\ guest \in [Images -> GuestState]

Init ==
    /\ client = [c \in Clients |-> Idle(FALSE)]
    /\ vfkit = [p \in Procs |-> Dead]
    /\ pidFile = [k \in Kinds |-> NoProc]
    /\ sock = [k \in Kinds |-> NoProc]
    /\ disk = NoImage
    /\ building = NoImage
    /\ kernel = NoAsset
    /\ initrd = NoAsset
    /\ marker = FALSE
    /\ guest = [i \in Images |-> BlankImage("blank")]

-----------------------------------------------------------------------------
(* What clients see of vfkit.                                              *)

Alive(p) == vfkit[p].st # "dead"

(* pidIsRunning: the file names a process that takes signal 0 and is not a *)
(* zombie.  No process other than a vfkit gets a pid that a file still names.*)
PidIsRunning(k) == pidFile[k] \in Procs /\ Alive(pidFile[k])

(* currentState over the socket answers VirtualMachineStateRunning.        *)
StateRunning(k) == sock[k] \in Procs /\ vfkit[sock[k]].st = "running"

(* The guests that answer SSH at the address of kind k.  Every VM of a     *)
(* kind is launched with the same MAC, so any of them may answer.          *)
Reachable(k) == {p \in Procs : vfkit[p].kind = k /\ vfkit[p].st = "running"}

(* A vfkit was executed and has not written its pid file.  That takes it   *)
(* less than the 90 seconds waitForState waits.                            *)
Lagging(k) == \E p \in Procs : vfkit[p].kind = k /\ vfkit[p].st = "launched"

InUse == {disk, building, kernel.image, initrd.image}
            \union {vfkit[p].disk : p \in Procs}
FreshImages == Images \ InUse

(* A socket path names no process, so a new one never answers there.       *)
FreshProcs ==
    {p \in Procs :
        /\ ~Alive(p)
        /\ \A k \in Kinds : /\ p # sock[k]
                            /\ "reuse" \in Environment \/ p # pidFile[k]}

Listed ==
    {e \in Entries :
        \/ e = "disk" /\ disk # NoImage
        \/ e = "building" /\ building # NoImage
        \/ e = "kernel" /\ kernel # NoAsset
        \/ e = "initrd" /\ initrd # NoAsset
        \/ e = "marker" /\ marker
        \/ \E k \in Kinds : e = PidEntry(k) /\ pidFile[k] # NoProc
        \/ \E k \in Kinds : e = SockEntry(k) /\ sock[k] # NoProc}

-----------------------------------------------------------------------------
(* Control flow of a client.                                               *)

At(c, l) == client[c].pc = l

(* c goes on at label l, in Stop on behalf of site s, with outcome r.      *)
Jump(c, l, s, r) ==
    client' = [client EXCEPT ![c] = [op |-> client[c].op, pc |-> l, site |-> s,
                                     ok |-> r, left |-> client[c].left]]

Goto(c, l)     == Jump(c, l, client[c].site, client[c].ok)
CallStop(c, s) == Jump(c, "stop_check", s, client[c].ok)
Return(c, r)   == client' = [client EXCEPT ![c] = Idle(r)]

(* Start returns to the command that called it.                            *)
StartReturns(c, r) ==
    IF r /\ client[c].op = "bootstrap" THEN Goto(c, "bootstrap_marker")
                                       ELSE Return(c, r)

(* Stop returns to its call site.  The builder ignores the result.         *)
StopReturns(c, r) ==
    \/ client[c].site = "build" /\ Goto(c, "build_rename")
    \/ client[c].site = "cleanup" /\ Goto(c, "build_cleanup")
    \/ /\ client[c].site = "command"
       /\ \/ r /\ client[c].op = "destroy" /\ Goto(c, "destroy_run_files")
          \/ r /\ client[c].op = "upgrade" /\ Goto(c, "start_check")
          \/ ~(r /\ client[c].op \in {"destroy", "upgrade"}) /\ Return(c, r)

(* Faulty variant: the deferred function does not stop the build VM.       *)
BuildEndsNoStop(c, r) == Jump(c, "build_cleanup", "cleanup", r)

(* The builder is done, well or badly: its deferred function runs.         *)
BuildEnds(c, r) == Jump(c, "stop_check", "cleanup", r)

Entry == [start |-> "start_check", stop |-> "stop_check",
          destroy |-> "destroy_check", bootstrap |-> "bootstrap_inspect",
          upgrade |-> "upgrade_ssh"]

(* A command line, or a goroutine a web handler starts.  Where a handler    *)
(* refuses early, a command line may still begin.                           *)
Begin(c) ==
    /\ At(c, "idle")
    /\ \E o \in Commands :
          client' = [client EXCEPT ![c] = [op |-> o, pc |-> Entry[o], ok |-> FALSE,
                                           site |-> "command", left |-> {}]]
    /\ UNCHANGED <<vfkit, runFiles, bootFiles, guest>>

(* exec vfkit: without "lag" nobody looks before it wrote its pid file.    *)
Launch(k, i) ==
    \E p \in FreshProcs :
        /\ vfkit' = [vfkit EXCEPT ![p] =
                [kind |-> k, disk |-> i,
                 st |-> IF "lag" \in Environment THEN "launched" ELSE "starting"]]
        /\ pidFile' = IF "lag" \in Environment THEN pidFile
                                               ELSE [pidFile EXCEPT ![k] = p]

-----------------------------------------------------------------------------
(* Start.                                                                  *)

(* A running VM is a success at once: no bootstrap, no tunnels.            *)
StartCheck(c) ==
    /\ At(c, "start_check")
    /\ IF PidIsRunning("vm") THEN StartReturns(c, TRUE)
                             ELSE Goto(c, "start_build_check")
    /\ UNCHANGED <<vfkit, runFiles, bootFiles, guest>>

(* "disk build is already in progress"                                     *)
StartBuildCheck(c) ==
    /\ At(c, "start_build_check")
    /\ IF PidIsRunning("build") THEN StartReturns(c, FALSE)
                                ELSE Goto(c, "prepare_disk")
    /\ UNCHANGED <<vfkit, runFiles, bootFiles, guest>>

(* Faulty variant: an existing disk may be built again.                    *)
PrepareDiskRebuilds(c) ==
    /\ At(c, "prepare_disk")
    /\ \E l \in {"remove_socket", "build_prepare"} :
          /\ disk = NoImage => l = "build_prepare"
          /\ Goto(c, l)
    /\ UNCHANGED <<vfkit, runFiles, bootFiles, guest>>

(* An existing disk is used as it is.  BaseImage is empty in every loaded  *)
(* configuration, so the rebuild for missing boot assets never happens.    *)
PrepareDisk(c) ==
    /\ At(c, "prepare_disk")
    /\ \/ disk # NoImage /\ Goto(c, "remove_socket")
       \/ disk = NoImage /\ "rootfs" \in BaseImages /\ Goto(c, "build_prepare")
       \/ disk = NoImage /\ "image" \in BaseImages /\ Goto(c, "image_copy")
    /\ UNCHANGED <<vfkit, runFiles, bootFiles, guest>>

(* The user's own disk image is decompressed, copied or converted straight *)
(* into disk.img, which exists from the first byte on; a disk.img that     *)
(* another client made meanwhile is truncated and written over.            *)
ImageCopy(c) ==
    /\ At(c, "image_copy")
    /\ \/ /\ StartReturns(c, FALSE)
          /\ UNCHANGED <<disk, guest>>
       \/ \E i \in IF disk = NoImage THEN FreshImages ELSE {disk} :
             /\ disk' = i
             /\ guest' = [guest EXCEPT ![i] = BlankImage("partial")]
             /\ \/ Goto(c, "image_resize")
                \/ StartReturns(c, FALSE)
    /\ UNCHANGED <<vfkit, runFiles, building, kernel, initrd, marker>>

ImageResize(c) ==
    /\ At(c, "image_resize")
    /\ \/ /\ disk # NoImage
          /\ guest' = [guest EXCEPT ![disk].build = "full"]
          /\ Goto(c, "remove_socket")
       \/ /\ StartReturns(c, FALSE)
          /\ UNCHANGED guest
    /\ UNCHANGED <<vfkit, runFiles, bootFiles>>

RemoveSocket(c) ==
    /\ At(c, "remove_socket")
    /\ sock' = [sock EXCEPT !["vm"] = NoProc]
    /\ Goto(c, "launch")
    /\ UNCHANGED <<vfkit, pidFile, bootFiles, guest>>

LaunchVM(c) ==
    /\ At(c, "launch")
    /\ \/ Launch("vm", disk) /\ Goto(c, "wait_running")
       \/ StartReturns(c, FALSE) /\ UNCHANGED <<vfkit, pidFile>>
    /\ UNCHANGED <<sock, bootFiles, guest>>

(* Faulty variant: a VM that does not come up is launched again.           *)
WaitRunningRetries(c) ==
    /\ At(c, "wait_running")
    /\ \/ StateRunning("vm") /\ StartReturns(c, TRUE)
       \/ ~StateRunning("vm") /\ ~Lagging("vm") /\ Goto(c, "launch")
    /\ UNCHANGED <<vfkit, runFiles, bootFiles, guest>>

(* waitForState.  On failure vfkit, its pid file and socket stay.  The     *)
(* bootstrap block of Start is guarded by voidBootstrapCandidate, which is *)
(* computed before the base image is resolved and so never holds.          *)
WaitRunning(c) ==
    /\ At(c, "wait_running")
    /\ \/ StateRunning("vm") /\ StartReturns(c, TRUE)
       \/ ~StateRunning("vm") /\ ~Lagging("vm") /\ StartReturns(c, FALSE)
    /\ UNCHANGED <<vfkit, runFiles, bootFiles, guest>>

-----------------------------------------------------------------------------
(* buildVoidLinuxDiskVFKit.                                                *)

(* Base image, build kernel, rootfs and initrd: no cleanup on failure yet. *)
BuildPrepare(c) ==
    /\ At(c, "build_prepare")
    /\ Goto(c, "build_target") \/ StartReturns(c, FALSE)
    /\ UNCHANGED <<vfkit, runFiles, bootFiles, guest>>

(* A leftover disk.img.building is unlinked, not reused.                   *)
BuildTarget(c) ==
    /\ At(c, "build_target")
    /\ \/ \E i \in FreshImages :
             /\ building' = i
             /\ guest' = [guest EXCEPT ![i] = BlankImage("blank")]
             /\ Goto(c, "build_launch")
       \/ /\ building' = NoImage
          /\ BuildEnds(c, FALSE)
          /\ UNCHANGED guest
    /\ UNCHANGED <<vfkit, runFiles, disk, kernel, initrd, marker>>

BuildLaunch(c) ==
    /\ At(c, "build_launch")
    /\ sock' = [sock EXCEPT !["build"] = NoProc]
    /\ \/ Launch("build", building) /\ Goto(c, "build_wait")
       \/ BuildEnds(c, FALSE) /\ UNCHANGED <<vfkit, pidFile>>
    /\ UNCHANGED <<bootFiles, guest>>

(* Running state, then an IP address, then SSH; each wait has a timeout.   *)
BuildWait(c) ==
    /\ At(c, "build_wait")
    /\ \/ StateRunning("build") /\ Goto(c, "build_script")
       \/ ~Lagging("build") /\ BuildEnds(c, FALSE)
    /\ UNCHANGED <<vfkit, runFiles, bootFiles, guest>>

(* The script stops at the first command that fails, so that a guest with  *)
(* a kernel and an initrd may lack its users, its keys or its services.    *)
ScriptResults == {"partial", "full"}

(* The script's exit status is ignored: "completed with warning".          *)
BuildScript(c) ==
    /\ At(c, "build_script")
    /\ \/ \E p \in Reachable("build"), b \in ScriptResults :
             /\ guest' = [guest EXCEPT ![vfkit[p].disk].build = b]
             /\ Goto(c, "build_kernel")
       \/ /\ BuildEnds(c, FALSE)
          /\ UNCHANGED guest
    /\ UNCHANGED <<vfkit, runFiles, bootFiles>>

(* What copyRemoteFile can fetch from the guest of process p.              *)
AssetOn(p) == [image |-> vfkit[p].disk, release |-> guest[vfkit[p].disk].release]
Built(p)   == guest[vfkit[p].disk].build # "blank"

(* Faulty variant: a failed copy of the kernel does not end the build.     *)
BuildKernelIgnoresFailure(c) ==
    /\ At(c, "build_kernel")
    /\ \/ \E p \in Reachable("build") : Built(p) /\ kernel' = AssetOn(p)
       \/ UNCHANGED kernel
    /\ Goto(c, "build_initrd")
    /\ UNCHANGED <<vfkit, runFiles, disk, building, initrd, marker, guest>>

BuildKernel(c) ==
    /\ At(c, "build_kernel")
    /\ \/ \E p \in Reachable("build") :
             /\ Built(p)
             /\ kernel' = AssetOn(p)
             /\ Goto(c, "build_initrd")
       \/ /\ BuildEnds(c, FALSE)
          /\ UNCHANGED kernel
    /\ UNCHANGED <<vfkit, runFiles, disk, building, initrd, marker, guest>>

(* Faulty variant: a failed copy of the initrd does not end the build.     *)
BuildInitrdIgnoresFailure(c) ==
    /\ At(c, "build_initrd")
    /\ \/ \E p \in Reachable("build") : Built(p) /\ initrd' = AssetOn(p)
       \/ UNCHANGED initrd
    /\ CallStop(c, "build")
    /\ UNCHANGED <<vfkit, runFiles, disk, building, kernel, marker, guest>>

BuildInitrd(c) ==
    /\ At(c, "build_initrd")
    /\ \/ \E p \in Reachable("build") :
             /\ Built(p)
             /\ initrd' = AssetOn(p)
             /\ CallStop(c, "build")
       \/ /\ BuildEnds(c, FALSE)
          /\ UNCHANGED initrd
    /\ UNCHANGED <<vfkit, runFiles, disk, building, kernel, marker, guest>>

(* The rename that publishes the disk, after kernel and initrd.            *)
BuildRename(c) ==
    /\ At(c, "build_rename")
    /\ \/ /\ building # NoImage
          /\ disk' = building
          /\ building' = NoImage
          /\ BuildEnds(c, TRUE)
       \/ /\ BuildEnds(c, FALSE)
          /\ UNCHANGED <<disk, building>>
    /\ UNCHANGED <<vfkit, runFiles, kernel, initrd, marker, guest>>

(* Faulty variant: build-vfkit.pid is left to Stop, which may have failed. *)
BuildCleanupKeepsPidFile(c) ==
    /\ At(c, "build_cleanup")
    /\ sock' = [sock EXCEPT !["build"] = NoProc]
    /\ IF client[c].ok THEN Goto(c, "remove_socket") ELSE StartReturns(c, FALSE)
    /\ UNCHANGED <<vfkit, pidFile, bootFiles, guest>>

(* Deferred: after Stop, whatever it returned, drop pid file and socket.   *)
BuildCleanup(c) ==
    /\ At(c, "build_cleanup")
    /\ pidFile' = [pidFile EXCEPT !["build"] = NoProc]
    /\ sock' = [sock EXCEPT !["build"] = NoProc]
    /\ IF client[c].ok THEN Goto(c, "remove_socket") ELSE StartReturns(c, FALSE)
    /\ UNCHANGED <<vfkit, bootFiles, guest>>

-----------------------------------------------------------------------------
(* Stop, of the VM or of the build VM.                                     *)

StopCheck(c) ==
    LET k == Target(client[c].site) IN
    /\ At(c, "stop_check")
    /\ IF PidIsRunning(k) THEN Goto(c, "stop_request") ELSE StopReturns(c, TRUE)
    /\ UNCHANGED <<vfkit, runFiles, bootFiles, guest>>

(* HardStop goes to whoever answers on the socket; only when that fails is *)
(* SIGTERM sent to the process the pid file names.                         *)
StopRequest(c) ==
    LET k == Target(client[c].site)
        p == IF StateRunning(k) THEN sock[k] ELSE pidFile[k]
    IN  /\ At(c, "stop_request")
        /\ vfkit' = IF p \in Procs /\ Alive(p)
                    THEN [vfkit EXCEPT ![p].st = "stopping"] ELSE vfkit
        /\ Goto(c, "stop_wait")
        /\ UNCHANGED <<runFiles, bootFiles, guest>>

(* Faulty variant: Stop waits for the state to change, not for the exit.   *)
StopWaitByState(c) ==
    LET k == Target(client[c].site) IN
    /\ At(c, "stop_wait")
    /\ \/ ~StateRunning(k) /\ Goto(c, "stop_remove")
       \/ StateRunning(k) /\ StopReturns(c, FALSE)
    /\ UNCHANGED <<vfkit, runFiles, bootFiles, guest>>

(* Faulty variant: at the deadline Stop removes the files all the same.    *)
StopWaitGivesUp(c) ==
    /\ At(c, "stop_wait")
    /\ Goto(c, "stop_remove")
    /\ UNCHANGED <<vfkit, runFiles, bootFiles, guest>>

StopWait(c) ==
    LET k == Target(client[c].site) IN
    /\ At(c, "stop_wait")
    /\ \/ ~PidIsRunning(k) /\ Goto(c, "stop_remove")
       \/ /\ PidIsRunning(k)     \* "VM did not stop in time"
          /\ "slow" \in Environment \/ vfkit[pidFile[k]].st # "stopping"
          /\ StopReturns(c, FALSE)
    /\ UNCHANGED <<vfkit, runFiles, bootFiles, guest>>

StopRemove(c) ==
    LET k == Target(client[c].site) IN
    /\ At(c, "stop_remove")
    /\ pidFile' = [pidFile EXCEPT ![k] = NoProc]
    /\ sock' = [sock EXCEPT ![k] = NoProc]
    /\ StopReturns(c, TRUE)
    /\ UNCHANGED <<vfkit, bootFiles, guest>>

-----------------------------------------------------------------------------
(* Destroy.                                                                *)

(* Faulty variant: Destroy does not stop the VM first.                     *)
DestroyCheckNoStop(c) ==
    /\ At(c, "destroy_check")
    /\ Goto(c, "destroy_run_files")
    /\ UNCHANGED <<vfkit, runFiles, bootFiles, guest>>

DestroyCheck(c) ==
    /\ At(c, "destroy_check")
    /\ IF PidIsRunning("vm") THEN CallStop(c, "command")
                             ELSE Goto(c, "destroy_run_files")
    /\ UNCHANGED <<vfkit, runFiles, bootFiles, guest>>

(* The pid file goes first; an error at either of the two ends Destroy.    *)
DestroyRunFiles(c) ==
    /\ At(c, "destroy_run_files")
    /\ \/ /\ pidFile' = [pidFile EXCEPT !["vm"] = NoProc]
          /\ \/ sock' = [sock EXCEPT !["vm"] = NoProc] /\ Goto(c, "destroy_list")
             \/ UNCHANGED sock /\ Return(c, FALSE)
       \/ UNCHANGED runFiles /\ Return(c, FALSE)
    /\ UNCHANGED <<vfkit, bootFiles, guest>>

(* RemoveAll(StateDir) lists the directory, unlinks what it listed in the  *)
(* order it came in, and removes the directory, which fails if an entry    *)
(* appeared meanwhile.  Processes keep the files they have open.           *)
DestroyList(c) ==
    /\ At(c, "destroy_list")
    /\ client' = [client EXCEPT ![c] = [op |-> @.op, pc |-> "destroy_unlink",
                        site |-> @.site, ok |-> @.ok, left |-> Listed]]
    /\ UNCHANGED <<vfkit, runFiles, bootFiles, guest>>

DestroyUnlink(c) ==
    /\ At(c, "destroy_unlink")
    /\ \E e \in client[c].left :
          /\ client' = [client EXCEPT ![c].left = client[c].left \ {e}]
          /\ disk'     = IF e = "disk" THEN NoImage ELSE disk
          /\ building' = IF e = "building" THEN NoImage ELSE building
          /\ kernel'   = IF e = "kernel" THEN NoAsset ELSE kernel
          /\ initrd'   = IF e = "initrd" THEN NoAsset ELSE initrd
          /\ marker'   = (marker /\ e # "marker")
          /\ pidFile'  = [k \in Kinds |-> IF e = PidEntry(k) THEN NoProc ELSE pidFile[k]]
          /\ sock'     = [k \in Kinds |-> IF e = SockEntry(k) THEN NoProc ELSE sock[k]]
    /\ UNCHANGED <<vfkit, guest>>

DestroyRemoveDir(c) ==
    /\ At(c, "destroy_unlink")
    /\ client[c].left = {}
    /\ Return(c, Listed = {})
    /\ UNCHANGED <<vfkit, runFiles, bootFiles, guest>>

-----------------------------------------------------------------------------
(* BootstrapSetup.                                                         *)

(* The marker is consulted only when this command started the VM.          *)
BootstrapInspect(c) ==
    /\ At(c, "bootstrap_inspect")
    /\ Goto(c, IF PidIsRunning("vm") THEN "bootstrap_ssh" ELSE "start_check")
    /\ UNCHANGED <<vfkit, runFiles, bootFiles, guest>>

BootstrapMarker(c) ==
    /\ At(c, "bootstrap_marker")
    /\ IF marker THEN Return(c, TRUE) ELSE Goto(c, "bootstrap_ssh")
    /\ UNCHANGED <<vfkit, runFiles, bootFiles, guest>>

(* waitForSSH, with a repair and a retry before giving up.                 *)
BootstrapSSH(c) ==
    /\ At(c, "bootstrap_ssh")
    /\ \/ Reachable("vm") # {} /\ Goto(c, "bootstrap_run")
       \/ Return(c, FALSE)
    /\ UNCHANGED <<vfkit, runFiles, bootFiles, guest>>

(* Bootstraps of a guest: none, one, more.                                 *)
OnceMore(n) == IF n = 0 THEN 1 ELSE 2

(* Faulty variant: the marker is written whatever the script did.          *)
BootstrapRunIgnoresFailure(c) ==
    /\ At(c, "bootstrap_run")
    /\ Goto(c, "bootstrap_mark")
    /\ UNCHANGED <<vfkit, runFiles, bootFiles, guest>>

BootstrapRun(c) ==
    /\ At(c, "bootstrap_run")
    /\ \/ \E p \in Reachable("vm") :
             /\ guest' = [guest EXCEPT ![vfkit[p].disk].applied = OnceMore(@)]
             /\ Goto(c, "bootstrap_mark")
       \/ /\ Return(c, FALSE)
          /\ UNCHANGED guest
    /\ UNCHANGED <<vfkit, runFiles, bootFiles>>

(* writeBootstrapMarker.                                                   *)
BootstrapMark(c) ==
    /\ At(c, "bootstrap_mark")
    /\ \/ marker' = TRUE /\ Goto(c, "bootstrap_reboot")
       \/ Return(c, FALSE) /\ UNCHANGED marker
    /\ UNCHANGED <<vfkit, runFiles, disk, building, kernel, initrd, guest>>

(* rebootVM: "reboot" over SSH, then waitForSSH; its result is ignored.    *)
BootstrapReboot(c) ==
    /\ At(c, "bootstrap_reboot")
    /\ Return(c, TRUE)
    /\ UNCHANGED <<vfkit, runFiles, bootFiles, guest>>

-----------------------------------------------------------------------------
(* UpgradeKernel.                                                          *)

UpgradeSSH(c) ==
    /\ At(c, "upgrade_ssh")
    /\ \/ Reachable("vm") # {} /\ Goto(c, "upgrade_guest")
       \/ Return(c, FALSE)
    /\ UNCHANGED <<vfkit, runFiles, bootFiles, guest>>

(* Guest g with release r installed, as far as files k and i of it in /boot.*)
Installed(g, r, k, i) ==
    [build |-> g.build, applied |-> g.applied, release |-> r,
     kernels |-> g.kernels \union k, initrds |-> g.initrds \union i]

(* xbps-install -uy in the guest: a new release, or none to install.  The  *)
(* files of earlier releases stay.  When it fails, it may have left either *)
(* file of the new release, or both.                                       *)
UpgradeGuest(c) ==
    /\ At(c, "upgrade_guest")
    /\ \/ \E p \in Reachable("vm"), r \in 1..MaxRelease :
             LET d == vfkit[p].disk IN
             /\ r >= guest[d].release
             /\ \/ /\ guest' = [guest EXCEPT ![d] = Installed(@, r, {r}, {r})]
                   /\ Goto(c, "upgrade_kernel")
                \/ /\ \E k, i \in SUBSET {r} :
                         guest' = [guest EXCEPT ![d] = Installed(@, r, k, i)]
                   /\ Return(c, FALSE)
       \/ /\ Return(c, FALSE)
          /\ UNCHANGED guest
    /\ UNCHANGED <<vfkit, runFiles, bootFiles>>

(* ls -1 | sort | tail -1: the last by name, which is not always the newest.*)
LastOf(S) == {r \in S : \A q \in S : Rank[q] <= Rank[r]}

(* What UpgradeKernel copies from the guest of process p.                  *)
KernelsOf(p) == [image : {vfkit[p].disk}, release : LastOf(guest[vfkit[p].disk].kernels)]
InitrdsOf(p) == [image : {vfkit[p].disk}, release : LastOf(guest[vfkit[p].disk].initrds)]

(* Faulty variant: the initrd that goes with the kernel is not copied.     *)
UpgradeCopyKernelOnly(c) ==
    /\ At(c, "upgrade_kernel")
    /\ \/ /\ \E p \in Reachable("vm") : kernel' \in KernelsOf(p)
          /\ CallStop(c, "command")
       \/ Return(c, FALSE) /\ UNCHANGED kernel
    /\ UNCHANGED <<vfkit, runFiles, disk, building, initrd, marker, guest>>

(* Faulty variant: the file is written in place, without the rename.       *)
UpgradeCopyInPlace(c) ==
    /\ At(c, "upgrade_kernel")
    /\ \/ /\ \E p \in Reachable("vm") : kernel' \in KernelsOf(p)
          /\ Goto(c, "upgrade_initrd")
       \/ /\ \E p \in Reachable("vm") :
                kernel' = [image |-> vfkit[p].disk, release |-> 0]    \* a part
          /\ Return(c, FALSE)
       \/ Return(c, FALSE) /\ UNCHANGED kernel
    /\ UNCHANGED <<vfkit, runFiles, disk, building, initrd, marker, guest>>

UpgradeCopyKernel(c) ==
    /\ At(c, "upgrade_kernel")
    /\ \/ /\ \E p \in Reachable("vm") : kernel' \in KernelsOf(p)
          /\ Goto(c, "upgrade_initrd")
       \/ Return(c, FALSE) /\ UNCHANGED kernel
    /\ UNCHANGED <<vfkit, runFiles, disk, building, initrd, marker, guest>>

(* The initrd is picked by name too, whatever kernel was picked.           *)
UpgradeCopyInitrd(c) ==
    /\ At(c, "upgrade_initrd")
    /\ \/ /\ \E p \in Reachable("vm") : initrd' \in InitrdsOf(p)
          /\ CallStop(c, "command")
       \/ Return(c, FALSE) /\ UNCHANGED initrd
    /\ UNCHANGED <<vfkit, runFiles, disk, building, kernel, marker, guest>>

-----------------------------------------------------------------------------
(* vfkit, as the commands rely on it.                                      *)

(* --pidfile                                                               *)
VfkitWritePidFile(p) ==
    /\ vfkit[p].st = "launched"
    /\ vfkit' = [vfkit EXCEPT ![p].st = "starting"]
    /\ pidFile' = [pidFile EXCEPT ![vfkit[p].kind] = p]
    /\ UNCHANGED <<client, sock, bootFiles, guest>>

(* It binds --restful-uri, if the path is free, and runs the VM.           *)
CanRun(p) == vfkit[p].disk # NoImage /\ sock[vfkit[p].kind] = NoProc

VfkitRun(p) ==
    /\ vfkit[p].st = "starting"
    /\ CanRun(p)
    /\ vfkit' = [vfkit EXCEPT ![p].st = "running"]
    /\ sock' = [sock EXCEPT ![vfkit[p].kind] = p]
    /\ UNCHANGED <<client, pidFile, bootFiles, guest>>

(* It exits when asked to or unable to run, and leaves its files behind.   *)
VfkitExit(p) ==
    /\ \/ vfkit[p].st = "stopping"
       \/ vfkit[p].st = "starting" /\ ~CanRun(p)
    /\ vfkit' = [vfkit EXCEPT ![p] = Dead]
    /\ UNCHANGED <<client, runFiles, bootFiles, guest>>

VfkitCrash(p) ==
    /\ "exit" \in Environment
    /\ Alive(p)
    /\ vfkit' = [vfkit EXCEPT ![p] = Dead]
    /\ UNCHANGED <<client, runFiles, bootFiles, guest>>

(* The client process dies at any step of its command.                     *)
Kill(c) ==
    /\ "kill" \in Environment
    /\ ~At(c, "idle")
    /\ Return(c, FALSE)
    /\ UNCHANGED <<vfkit, runFiles, bootFiles, guest>>

-----------------------------------------------------------------------------
StartStep(c) ==
    \/ StartCheck(c) \/ StartBuildCheck(c) \/ PrepareDisk(c)
    \/ ImageCopy(c) \/ ImageResize(c)
    \/ RemoveSocket(c) \/ LaunchVM(c) \/ WaitRunning(c)

BuildStep(c) ==
    \/ BuildPrepare(c) \/ BuildTarget(c) \/ BuildLaunch(c) \/ BuildWait(c)
    \/ BuildScript(c) \/ BuildKernel(c) \/ BuildInitrd(c) \/ BuildRename(c)
    \/ BuildCleanup(c)

StopStep(c) == StopCheck(c) \/ StopRequest(c) \/ StopWait(c) \/ StopRemove(c)

DestroyStep(c) ==
    \/ DestroyCheck(c) \/ DestroyRunFiles(c)
    \/ DestroyList(c) \/ DestroyUnlink(c) \/ DestroyRemoveDir(c)

BootstrapStep(c) ==
    \/ BootstrapInspect(c) \/ BootstrapMarker(c) \/ BootstrapSSH(c)
    \/ BootstrapRun(c) \/ BootstrapMark(c) \/ BootstrapReboot(c)

UpgradeStep(c) ==
    \/ UpgradeSSH(c) \/ UpgradeGuest(c)
    \/ UpgradeCopyKernel(c) \/ UpgradeCopyInitrd(c)

Step(c) ==
    \/ StartStep(c) \/ BuildStep(c) \/ StopStep(c) \/ DestroyStep(c)
    \/ BootstrapStep(c) \/ UpgradeStep(c)

VfkitStep(p) == VfkitWritePidFile(p) \/ VfkitRun(p) \/ VfkitExit(p)

Next ==
    \/ \E c \in Clients : Begin(c) \/ Step(c) \/ Kill(c)
    \/ \E p \in Procs : VfkitStep(p) \/ VfkitCrash(p)

Spec == Init /\ [][Next]_vars

(* Where a command waits for the network or for a guest without a deadline *)
(* of its own: a download, an ssh that is run to its end, and waitForSSH,   *)
(* whose deadline is looked at only between two runs of ssh.               *)
OpenEnded ==
    {"prepare_disk", "build_prepare", "build_wait", "build_script",
     "build_kernel", "build_initrd", "bootstrap_ssh", "bootstrap_run",
     "bootstrap_reboot", "upgrade_ssh", "upgrade_guest", "upgrade_kernel",
     "upgrade_initrd"}

(* A command's process keeps running.  At every other label it works on    *)
(* local files or polls vfkit until a deadline.  vfkit, once launched or   *)
(* told to stop, gets on with it.  Nobody has to issue a command, nothing  *)
(* has to fail, and no guest or mirror has to answer.                      *)
Fairness ==
    /\ \A c \in Clients : WF_vars(Step(c) /\ client[c].pc \notin OpenEnded)
    /\ \A p \in Procs : WF_vars(VfkitStep(p))

FairSpec == Spec /\ Fairness

-----------------------------------------------------------------------------
(* Properties.                                                             *)

Live(k) == {p \in Procs : vfkit[p].kind = k /\ Alive(p)}

(* Client c's command o returns without an error.                          *)
Succeeds(c, o) == client[c].op = o /\ client'[c] = Idle(TRUE)

(* c is somewhere between the download of the build kernel and the end of  *)
(* the builder's deferred cleanup.                                         *)
Building(c) ==
    \/ client[c].pc \in {"build_prepare", "build_target", "build_launch",
                         "build_wait", "build_script", "build_kernel",
                         "build_initrd", "build_rename", "build_cleanup"}
    \/ client[c].site # "command" /\ client[c].pc \in
                        {"stop_check", "stop_request", "stop_wait", "stop_remove"}

(* A vfkit for the VM is executed in this step.                            *)
LaunchesVM == \E c \in Clients : LaunchVM(c) /\ client'[c].pc = "wait_running"

(* disk.img.building becomes disk.img in this step.                        *)
Publishes == building # NoImage /\ building' = NoImage /\ disk' = building /\ disk' # disk

(* A disk appears under its final name only when the kernel and the initrd *)
(* it is booted with are in place: buildVoidLinuxDiskVFKit renames the     *)
(* disk last, and no earlier failure or interruption may leave a disk.     *)
PublishedBootable ==
    [][Publishes => kernel # NoAsset /\ initrd # NoAsset]_vars

(* What is published fits together: kernel and initrd were both taken from *)
(* the disk that is renamed, not from another build's guest.               *)
PublishedPair ==
    [][Publishes => kernel = initrd /\ kernel.image = building]_vars

(* The VM is never booted with a kernel or an initrd of a disk other than  *)
(* its own: vfkitArgs takes whatever two files it finds beside the disk.   *)
BootsOwnKernel ==
    [][LaunchesVM /\ kernel # NoAsset /\ initrd # NoAsset
            => kernel.image = disk /\ initrd.image = disk]_vars

(* There is never a second vfkit for the VM, and once it wrote its pid file *)
(* that file names it until it is dead: Stop, Destroy and the next Start   *)
(* see it.                                                                 *)
TrackedVM ==
    \A p \in Live("vm") :
        /\ vfkit[p].st = "launched" \/ pidFile["vm"] = p
        /\ Live("vm") = {p}

(* A pid file and a socket lead to a vfkit of their own kind, also when the *)
(* pid of a vfkit that crashed is given to the next one: stopping the VM   *)
(* never stops a build, and the end of a build never stops the VM, because *)
(* no build starts beside a leftover vfkit.pid, nor the VM beside a        *)
(* leftover build-vfkit.pid.                                               *)
KindsApart ==
    \A k \in Kinds : \A p \in Procs \intersect {pidFile[k], sock[k]} :
        Alive(p) => vfkit[p].kind = k

(* When no command runs, no build VM does: the builder's deferred cleanup  *)
(* stopped the one it launched on every path out of the build.             *)
NoBuildLeftBehind ==
    (\A c \in Clients : At(c, "idle")) => Live("build") = {}

(* A Stop or Destroy that reports success leaves no vfkit of the VM alive; *)
(* Destroy also no build VM and no file.                                   *)
OffMeansOff ==
    [][\A c \in Clients :
          /\ Succeeds(c, "stop") => Live("vm") = {}
          /\ Succeeds(c, "destroy") => /\ Live("vm") \union Live("build") = {}
                                       /\ Listed = {}]_vars

(* bootstrap.done is only ever found beside a disk whose guest the         *)
(* bootstrap script has configured.                                        *)
MarkerTruth == marker /\ disk # NoImage => guest[disk].applied > 0

(* An UpgradeKernel that reports success leaves the host with the kernel   *)
(* and the initrd of the release the guest has installed, after failed     *)
(* upgrades too, as long as names sort the way releases follow each other. *)
UpgradeTakesEffect ==
    [][\A c \in Clients : Succeeds(c, "upgrade") =>
          /\ kernel = [image |-> disk, release |-> guest[disk].release]
          /\ initrd = kernel]_vars

(* "disk build is already in progress" is said only while a client builds. *)
RefusedOnlyDuringBuild ==
    [][\A c \in Clients :
          StartBuildCheck(c) /\ client'[c].pc = "idle"
             => \E d \in Clients : Building(d)]_vars

(* Every command returns, with success or with an error, whatever vfkit    *)
(* does, or it waits for ever in one ssh session or one download.          *)
EveryCommandReturns ==
    \A c \in Clients :
        []<>At(c, "idle") \/ \E l \in OpenEnded : <>[]At(c, l)

(* The commands implement VMService: the machine runs on the disk of the   *)
(* state directory, and no step of a command removes, replaces or          *)
(* recreates that disk under a running machine.                            *)
RunningOn ==
    IF Reachable("vm") = {} THEN NoImage
    ELSE vfkit[CHOOSE p \in Reachable("vm") : TRUE].disk

Service == INSTANCE VMService WITH running <- RunningOn, configured <- marker

ImplementsService == Service!Spec

(* The invariants the proofs of VMLifecycleProofs rest on.                 *)

(* A machine that runs has a disk, so what is copied from its guest exists.*)
RunsOnADisk == \A p \in Procs : vfkit[p].st = "running" => vfkit[p].disk # NoImage

(* How far a build has got is visible in the files it leaves.              *)
AssetsCopied(c) ==
    \/ client[c].pc = "build_rename"
    \/ client[c].site = "build" /\ client[c].pc \in
                        {"stop_check", "stop_request", "stop_wait", "stop_remove"}

BuildProgress ==
    \A c \in Clients :
        /\ client[c].pc = "build_initrd" => kernel # NoAsset
        /\ AssetsCopied(c) => kernel # NoAsset /\ initrd # NoAsset

(* What the documentation says and the code does not do.                   *)

(* docs/specs.md 5.1: start must wait for SSH and run bootstrap once.      *)
StartBootstraps ==
    [][\A c \in Clients : Succeeds(c, "start") => guest[disk].applied > 0]_vars

(* The check behind "disk build is already in progress" keeps a second     *)
(* build from running beside the first.                                    *)
OneBuild == \A p, q \in Live("build") : p = q
=============================================================================
