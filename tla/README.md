# A verification project for agent-vm

`agent-vm` keeps one Void Linux virtual machine on a macOS host. It has no
daemon: every command, from the CLI or from a handler of the web server, reads
and writes the same state directory and talks to a `vfkit` process that it
launched and let go of. This project models what those commands do to that
shared state, checks the models with TLC and proves what matters most with
TLAPS. All Go code is in `src/internal/vmctl/`; file names below are relative to
it.

## 1. Inventory

| Component | State | Operations | Interacts with |
|---|---|---|---|
| VM lifecycle: `vm.go`, `inspect.go`, `util.go` | `vfkit.pid`, `vfkit.sock`, `disk.img`, `vmlinuz`, `initramfs.img`, `bootstrap.done` | `Start`, `Stop`, `Destroy`, `BootstrapSetup`, `UpgradeKernel` | vfkit (exec, pid file, REST socket), the guest (SSH), the builder, tunnels |
| Disk builder: `build_vfkit.go` | `build-vfkit.pid`, `build-vfkit.sock`, `disk.img.building`, the boot files | `buildVoidLinuxDiskVFKit`, called by `Start` | a second vfkit, downloads, `Stop` |
| vfkit (external) | process, pid file, socket | start, run, stop, crash | all of the above |
| Tunnels: `tunnel_manager.go`, `tunnel_cli.go` | `tunnels/<id>.pid`, ssh processes | start, stop, auto-start, stop all | `Start`, `Stop`, the configuration |
| Configuration: `config.go`, `yaml_config.go`, `sync_config.go`, `tunnel_config.go` | `vmctl.yaml` | load, save, one saver per section | everything; CLI and web handlers at once |
| Copy sync: `sync_copy.go`, `sync_cli.go` | host tree, guest tree, dated backups | sync in one or both directions, clean up, restore | rsync |
| Git sync: `sync_git.go` | bare repository, remote, clone | set up a pair | ssh, git, the configuration |
| Progress log: `progress.go`, `web/static/app.js` | bounded list of stamped entries | append, read since | every command, the browser |
| Downloads, image conversion: `util.go`, `vm.go` | temporary and final files | download, decompress, resize | the builder |
| Web server: `web.go`, `web_handlers.go` | configuration read at start | one handler per request, goroutines for commands | everything |
| Bootstrap script: `bootstrap_script.go` | the guest | generate, run | `BootstrapSetup` |
| CLI: `cobra.go`; clipboard and file pickers; guest metrics | none | - | - |

What makes each of them correct:

- *Lifecycle and builder.* At most one vfkit runs the VM and the commands can
  always find it; a disk is never removed or replaced under a running machine;
  a disk appears only when it can be booted; the marker tells the truth; a
  failed build leaves nothing running; a success means what it says; a command
  returns, or waits for a guest or a mirror.
- *Tunnels.* Every running ssh process can be found and stopped; stopping the VM
  stops its tunnels and nothing else does; a dead tunnel can be started again.
- *Configuration.* A change one process made is not lost to another's; a reader
  never sees half a file; what is saved is what is acted on.
- *Copy sync.* What a sync overwrites on the host is in a backup that outlives
  the sync by the retention period.
- *Git sync.* A set-up that succeeds has linked what it says, on whatever an
  earlier one left; it takes nothing the guest has pushed.
- *Progress log.* The browser shows every entry, and entries that did not race
  with another once and in order.
- *Downloads.* What has its final name is whole; a build uses a kernel and
  modules that belong together; a network that breaks again and again ends the
  command.

What is hard: nothing is locked, so any two commands interleave at every file
access; a process can be killed between two steps and its deferred functions
do not run; vfkit starts and stops on its own time and every wait for it has a
deadline, while ssh sessions and downloads have none; pid files and sockets survive the process they name; builds and
restarts take minutes, so "meanwhile" is long. The list of places is
`hazards` in `PROJECT.json`.

## 2. Plan

1. **VMLifecycle** with the builder and vfkit in one module, because their
   whole difficulty is in sharing files, and **VMService**, what the commands
   promise without files or steps. *Done.*
2. **VMLifecycleProofs**: typing, for any number of clients; that a sole client
   publishes only disks that boot. *Done.* **VMLifecycleSoleProofs**: every
   other safety property of the runs for commands that run one at a time, and
   the step-by-step refinement of VMService. *Done.*
3. **TunnelManager**: ssh processes as children of the CLI or of the web
   server, pid files, the loops that start and stop tunnels;
   **TunnelManagerProofs**: no ssh process is lost. *Done.* Next: composed with
   an abstract lifecycle in place of its one bit `vm`.
4. **ConfigFile**: loads, saves and truncating writes of `vmctl.yaml`, the
   configuration the web server keeps; **ConfigStore**, one value that each
   command changes in part; **ConfigFileProofs**, the refinement. *Done.*
5. **SyncCopy** and **SyncCopyProofs**: backups, retention and rsync, for any
   number of syncs at once. *Done.*
6. **GitSetup** and **GitSetupProofs**: the five commands of a set-up, on the
   leftovers of earlier ones. *Done.*
7. **ProgressLog** and **ProgressLogProofs**: the log and the page that polls
   it, for a log of any size. *Done.*
8. **BuildAssets** and **BuildAssetsProofs**: downloads and what a build takes
   out of them, for any number of releases and blocks. *Done.*

Bounds: two or three processes and images are enough to have an old, a current
and a new one; two clients show every pairwise race. Theorems carry the
results to every number of them.

## 3. What is modelled

### VMLifecycle

A *client* (`Clients`) is a process or goroutine that runs one command at a
time. `client[c]` is a program counter, the command, who called `Stop`, the
result so far, and what `RemoveAll` has still to unlink. One step is one access
to the shared state, or one wait that ended well or badly.

| Variable | In the code |
|---|---|
| `vfkit[p]` | a vfkit process: for the VM or for a build, on which image, and whether it has just been launched, is starting, running, stopping or dead |
| `pidFile[k]`, `sock[k]` | `vfkit.pid`/`build-vfkit.pid`, `vfkit.sock`/`build-vfkit.sock` |
| `disk`, `building` | `disk.img`, `disk.img.building`: the identity of the image behind the name |
| `kernel`, `initrd` | the image and the release they were copied from |
| `marker` | `bootstrap.done` |
| `guest[i]` | on image i: how far the build got, how often bootstrap ran, the kernel release installed last, and the releases whose kernel and initramfs are in `/boot` |

Identities, not names, are what the properties need: unlinking and creating
`disk.img` again gives another image, and a process keeps the one it opened.

| Actions | Code |
|---|---|
| `StartCheck` ... `WaitRunning` | `Start`, `prepareDisk`, `createDiskFromBaseImage` |
| `BuildPrepare` ... `BuildCleanup` | `buildVoidLinuxDiskVFKit` and its deferred function |
| `StopCheck` ... `StopRemove` | `Stop`, with its three call sites |
| `DestroyCheck` ... `DestroyRemoveDir` | `Destroy`, with `RemoveAll` one entry at a time |
| `BootstrapInspect` ... `BootstrapReboot` | `BootstrapSetup`, `Bootstrap`, `rebootVM` |
| `UpgradeSSH` ... `UpgradeCopyInitrd` | `UpgradeKernel`, then `Stop` and `Start` |
| `VfkitWritePidFile`, `VfkitRun`, `VfkitExit`, `VfkitCrash` | vfkit, external |
| `Kill` | the client's process dies; deferred functions do not run |

`Environment` says what the environment does in an instance: `kill` (clients
die), `exit` (vfkit ends by itself), `lag` (vfkit writes its pid file late
enough for another command to look before), `slow` (vfkit outlives the 30
seconds of `Stop`), `reuse` (a new vfkit gets the pid of a dead one that a file
still names). Each property is checked in the strongest environment it holds
in, as far as the state space allows.

An upgrade keeps the files of earlier releases in `/boot`, and `UpgradeKernel`
takes kernel and initramfs each as `ls | sort | tail -1` does: the last by name.
`Rank` is that order. In the runs it is the order of the releases, as it is from
6.12.10 to 6.12.11 and is not from 6.12.9 to 6.12.10. Looking for the two files
and copying them are two steps where the code takes four; what it looks for
changes only with another upgrade at the same time.

A definition whose comment begins "Faulty variant" is not part of the model. It
is the definition below it with one bug, and a property of the runs fails with
it: that is how the properties are known to be able to fail.

Assumptions about what is not in this repository, and abstractions:

- vfkit leaves its pid file and socket behind when it exits, does not start
  when the socket path is taken, and writes its pid file within the 90 seconds
  `waitForState` waits.
- The host does not give a pid that a file still names to a process that is not
  a vfkit: `Stop` would send that process SIGTERM, which is outside of the model.
- All VMs of one kind are launched with the same MAC address, so any of them
  that runs may answer SSH.
- A pid file that is half written reads as "not running" in `pidIsRunning`;
  that moment is part of `launched`.
- The log files in the state directory are left out, and the directory itself
  exists when a command needs it (a command that creates a file after `Destroy`
  removed the directory fails, which is one of the failures each step has).
- The bootstrap block in `Start` and the rebuild for missing boot assets are
  dead code: both test `cfg.BaseImage`, which `LoadConfig` leaves empty. The
  podman builder is unreachable from `Start`, which requires vfkit first.
- The guest's build script is one of its outcomes (`ScriptResults`), the
  bootstrap script a count of its complete runs.

### VMService

The abstract machine: a disk that is provisioned once and kept until it is
deleted, a machine that runs on that disk and no other, a note that it was
configured. `ImplementsService` says that VMLifecycle implements it with
`running` the image the VM's process runs on and `configured` the marker.

### TunnelManager

| Variable | In the code |
|---|---|
| `client[c]` | the command, its program counter, the tunnel at hand, what the loop has still to visit, the list to save, the process at hand |
| `ssh[p]` | an ssh process: for which tunnel, whose child, and whether it runs, is ending, is a zombie or is gone |
| `pidFile[t]` | `tunnels/<id>.pid` |
| `config` | the tunnels in `vmctl.yaml` |
| `vm` | whether `InspectVM` finds the VM running |

| Actions | Code |
|---|---|
| `Begin`, `Inspect`, `Load`, `Save` | the commands of `tunnel_cli.go` and the handlers of `web_handlers.go` up to and after their tunnel work |
| `Boot`, `PowerOn`, `Shutdown`, `RemoveDir` | `Start`, `Stop`, `Destroy`, as far as tunnels notice; a first start also goes through the `Stop` of the builder (`build_stop`), which stops every tunnel |
| `NextTunnel`, `Check`, `Finish` | `StopAllTunnels`, `StartAutoTunnels`, start-all, stop-all; starts visit enabled tunnels only (`Visits`) |
| `StartTunnel`, `Launch`, `WritePid` | `StartTunnel` |
| `StopTunnel`, `StopWait` | `StopTunnel` |
| `Leave` | the command's process ends; its children become orphans |
| `SshExit`, `VmCrash`, `ServerExit`, `Kill` | the environment |

`Environment` has `overlap` (a command may begin while another runs), `exit`
(the VM and ssh may end by themselves), `full` (a pid file cannot be written, a
list that is saved is lost) and `kill` (a command, or the server with its
handlers, dies at any step and leaves its ssh processes). Reading or saving the
list may fail in every instance. Signal 0 succeeds on a process that nobody
waited for, on macOS as on Linux, so `IsTunnelRunning` holds of a zombie. Both
commands that add a tunnel make it enabled; one that is not is in the file from
the beginning. The host does not give the pid in a file to another process.

Tunnels have distinct IDs, as those that a command adds do. The YAML shown in the
project's README (lines 112-116) has a tunnel without an ID: several of those
share one pid file, `tunnels/.pid`, and all but the first are passed over as
running. That is not modelled.

### ConfigFile

`file` is the content of `vmctl.yaml` or `Empty`, `server` what the web server
loaded when it started, `client[c]` the command, the list it will save and the
`Config` in hand. A content is two lists (sync pairs and tunnels), the hook
scripts, and one opaque value for all other settings. The actions are one read
or write each: `List` (`LoadSyncConfig`, `LoadTunnelConfig`), `Load`
(`LoadConfig`; it and `List` fail when the file cannot be read, and `Load` when a
hook script cannot), `Truncate` and `Write` (the two halves of `os.WriteFile` in
`saveVMConfigFile`), `Act` (`Start` or `BootstrapSetup` with the `Config` in
hand). `Valid` are the settings `validateConfig` accepts.

`runs` counts how often the extra commands of the `Config` in hand hold each
hook. `LoadConfig` puts the saved hooks there. `configure`, the bootstrap of the
web UI, appends those of its form, which it also saves in place of the saved
ones; `bootstrap`, of the command line, appends those of its `--hook` flags,
which it does not save (`Given`, `Edited`, `ExtraCommands`).

`kill` ends a client at any step, `full` leaves the file truncated. A short write
of a file of several blocks would leave a prefix of it instead, which may be
YAML of its own: that is not modelled, `Write` is all or nothing. Two writes into
one file are taken one after the other: bytes of one after the end of the other
are not modelled, and no run overlaps them.

### ConfigStore

One value, of which a command changes the part it is about. `Saved` is the
value that ConfigFile stands for: the content of the file, or, while the file
is truncated, what is about to be written to it.

### SyncCopy

One pair, which stays as it is: pairs share nothing but their list, and the list
is ConfigFile's. A tree maps files to contents; `Torn` is what an interrupted
`copyFile` leaves.

| Variable | In the code |
|---|---|
| `client[c]` | a CLI invocation or a goroutine of `handleRunSync`: where it is, which direction it copies, the time stamp of its backup, what the walk or rsync has yet to visit |
| `pair` | direction and retention, from `vmctl.yaml` |
| `host`, `vm` | the two directories |
| `backups[s]` | the directory named by second s |
| `clock` | `time.Now()`, in seconds |
| `mine` | history: the files of the host as the user wrote them, untouched by any sync |

| Actions | Code |
|---|---|
| `Run`, `FirstLeg` | `sync run`, `handleRunSync` |
| `Cleanup` | `cleanupOldBackups`: `Expired` is its cutoff, in an integer of the width of a `Duration` (`Wrap`) |
| `Stamp`, `Backup` | `CopySyncVMToHost`, `backupDirectory`, one file a step |
| `List`, `Transfer` | rsync, one file a step; the second half of a bidirectional sync |
| `Restore`, `RestoreFile` | `sync restore`, `restoreBackup` |
| `Destroy` | `Destroy`: backups and guest go |
| `EditHost`, `EditVm`, `Tick` | the user, and time |

Every step of a sync may also fail or be the last of its process. `Environment`
has `edit` (the user writes to the host, or destroys the VM, during a sync to
the host) and `quick` (two backups in one second). rsync is external: it lists
both trees when it starts and replaces whole files. A host directory that is
missing, for which `backupDirectory` returns an error, is one of the failures of
`Backup`; symbolic links and modes of files are left out.

### GitSetup

The repositories on the host have one base name, so that one pair of them can be
listed at a time. A branch is its owner and its length, `ahead` says that the
guest has pushed to it: that is what decides whether a push is a fast-forward.

| Variable | In the code |
|---|---|
| `client[c]` | a set-up: the command it is at, its pair, and (history) the host's refs when it began |
| `pair` | the entry of the list, or none |
| `remote[h]` | what the remote "vm" of host repository h names |
| `host[h]`, `bare[b]` | the branch and tag of a repository |
| `target` | whether the directory to clone into exists |

`Add` is `newSyncAddGitCommand` or `handleAddSync`; `InitBare`, `RemoteAdd`,
`PushAll`, `PushTags` and `Clone` are the commands of `GitSetupPair`; `Fail` ends
it after any of them, whether the command had its effect or not; `Remove` is
`RemovePair`. Host and guest commit, tag and push at any time; the user removes
the remote only between set-ups. `Environment` has `recreate`: the VM is
destroyed and made again during a set-up. Paths in the guest hold nothing but
what these commands made.

`Named[b]` is the repository that the remote of a pair with bare repository `b`
names. `gitRemoteURL` strips `/home/<user>/` from the path and puts `/~/` before
the rest, so that is `b` itself for a path in the home (`InHome`) and a path in the
home all the same for any other: `/srv/x/repo.git` becomes `~//srv/x/repo.git`.

### ProgressLog

`log` is `progressLog`; entries have the numbers in which they were stamped,
`stamp` is their time, of which the page sees whole milliseconds (`Ms` moments
each). `Stamp` and `AddProgress` are the two halves of `addProgress`, `Trimmed`
its bound; `Poll`, `Answer`, `Lose` and `Show` a call of `loadProgress` with
`handleProgress` in between; `Reload` and `Restart` begin the page and the server
anew. `floor` is a history variable: the entries that went with a server. Clocks
do not go back. `Bootstrap`, `UpgradeKernel` and the builder each start two
goroutines that report what a script in the guest prints, so that one can stamp
first and append second: `overtook`, a history variable, has the pairs of entries
of which the later one came into the log first.

### BuildAssets

One asset: the kernel package in the state directory, or the rootfs tarball in
the image directory. A file has an identity and blocks, its name is a variable
of its own, so that a process goes on writing what was unlinked or renamed.
Release r has r blocks: no two releases have one size.

| Variable | In the code |
|---|---|
| `client[c]` | the command: what its URL names, what HEAD told, the attempt, the open file and the position in it |
| `upstream`, `url` | the mirror; `build-kernel-url.cache` or `rootfs-url.cache` |
| `part`, `dest`, `content` | `destination.part`, `destination`, the files |
| `kernel`, `modules` | `build-vmlinuz`, `build-kernel-modules` |

`Begin` and `Resolve` are `resolveBaseImage` and `downloadBuildKernel` up to the
download with the two resolvers; `Check` and `Verify` are `ensureDownloadedFile`;
`Open`, `Write`, `AttemptFails` and `Rename` are `downloadFile` (the path without
curl; curl's own retries are attempts too); `Extract`, `CopyKernel`,
`CopyModules` and `FillModules` the rest of `downloadBuildKernel`, which ignores
every error of the modules: on a full disk none may be there, or a part; `failed`,
a history variable, says that the last copy of them failed or was killed.
`Destroy` unlinks what the state directory has. `Environment` has `kill`, `full`
(a copy within the state directory fails at its start or half way) and `halfway`
(destroy is interrupted). tar refuses a package that is not whole. A transfer
that ends early is noticed: the mirror sends a length. A body without a length
and without chunks that ends early would be taken for whole, as long as HEAD told
no length either, and is not modelled.

### The MC modules

MCVMLifecycle, MCTunnelManager, MCConfigFile, MCSyncCopy and MCGitSetup define
the symmetry of clients, processes, images, items and repositories. They are
only compared, so permuting them is sound; the runs with liveness properties do
not use it. MCBuildAssets and MCProgressLog have none.

## 4. What the runs check

Passing runs:

- **lifecycle_sole** (one client, all five commands, from a rootfs or a disk
  image, two releases; `exit`, `lag`): `TypeOK`; `NoBuildLeftBehind`, no build
  VM outlives its command; `OffMeansOff`, after a successful stop or destroy
  nothing runs and after a destroy no file is left; `UpgradeTakesEffect`, after a
  successful upgrade the host has kernel and initrd of the release the guest has
  installed, whatever earlier upgrades left in `/boot` or on the host.
- **lifecycle_slow** (one client, all five commands, one release; `exit`,
  `lag`, `slow`, `reuse`):
  `TrackedVM`, there is one vfkit for the VM and its pid file names it;
  `KindsApart`, a pid file or socket leads to no vfkit of the other kind, though a
  new vfkit may get the pid of one that crashed; `MarkerTruth`; `PublishedPair` and `BootsOwnKernel`, disk, kernel and initrd
  belong together when the disk appears and when it is booted;
  `RefusedOnlyDuringBuild`; `EveryCommandReturns`, or waits for ever in one ssh
  session or download.
- **lifecycle_killed** (one client at a time, destroy and bootstrap with all
  they call; `exit`, `kill`, `slow`): `PublishedBootable`, `ImplementsService`. A
  killed client begins another command, so leftovers of
  every kind meet every command.
- **tunnels** (a command line and the web server, one command at a time, three
  tunnels of which one is disabled; `exit`): `Tracked`, every live ssh process is named by the pid file
  of its tunnel; `LiveConfigured`, a tunnel that runs is in the list;
  `StopAllStops`, a loop that stops tunnels leaves no ssh process, of a disabled
  tunnel neither; `SkipsOnlyOwn`, when a start passes over a tunnel as running
  some ssh of that tunnel runs, or is a zombie of the server that started it and
  lives.
- **tunnels_return** (one tunnel, commands that overlap or are killed, files that
  cannot be written, destroy): `EveryCommandReturns`. A zombie of the web server
  never goes away by itself, so it is the deadline of `StopTunnel` that makes
  this true.
- **config_file** (one command at a time; `kill`, `full`): `ImplementsStore`;
  `ActsOnSaved`, a start or bootstrap has the saved settings and runs every saved
  hook, and a start no other. Three settings of which one is invalid, two items in
  two lists, two hooks.
- **sync_copy** (two clients at once, all directions, a retention of one day
  and the default one): `OverwritesBackedUp`, what a sync overwrites of the
  user's is in the backup it made; `BackupsKept`, a backup stays as it is until
  its retention is over.
- **build_assets** (one client at a time, both assets, three releases; `kill`,
  `full`): `WholeFiles`, a file with its final name is one release and whole;
  `KernelUsable`, a build gets a whole kernel, modules of no other release, and
  those of its own unless their last copy failed or was killed;
  `EveryDownloadEnds`, or hangs in one transfer.
- **git_setup** (two clients at once, two hosts of one base name, two bare
  repositories): `SuccessMeansLinked`, a set-up that succeeds has linked and
  cloned its own repository with all the host had; `GuestWorkKept`, none takes
  away what the guest pushed. Both bare repositories are in the user's home.
  With a third one outside it, and one client, TLC finds the same: misdirected
  set-ups push into the repository of another, and neither spoil the link of a
  set-up in the home nor take what the guest pushed.
- **progress_log** (two writers, one poll at a time): `ShownInOrder`, after an
  entry that neither overtook another nor was overtaken only later ones are
  shown; `EveryEntryShown`, each is shown in the end, unless the log was trimmed
  past it, its server ended, one that overtook it was shown, or it was made within
  the millisecond of one that was shown.

With `slow`, `NoBuildLeftBehind` and `OffMeansOff` do not hold: the builder
ignores a `Stop` that timed out, and drops the pid file of a build VM that
still runs. After an upgrade that failed between its two copies kernel and
initrd are of two releases, though both of the disk: `BootsOwnKernel` holds, and
a pair is not promised. It does not survive a base image that changed from a
rootfs to a disk image after a failed build: the image is booted with the kernel
of the build. With `kill`, `PublishedBootable` is left, and without `lag` and
`reuse` also `ImplementsService`, `TrackedVM`, `UpgradeTakesEffect` and
`KindsApart`: a vfkit whose client was killed before it wrote its pid file is
found by nobody, and a killed build leaves a `build-vfkit.pid` beside which the
VM may be started. With several clients the type invariant is left, and
without `lag` and `kill` `RefusedOnlyDuringBuild`; `KindsApart` is left
without `reuse` only.

Runs that find a disagreement between the code and what it or its documents
say (details in `findings`):

- **one_build**: "disk build is already in progress" does not keep two starts
  from building at once.
- **git_outside**: a set-up with a bare repository outside the user's home
  reports success with a remote that names another repository; docs/specs.md:201
  says that the remote is the repository it made, and the help of `--bare-repo`
  offers any path.

Known to fail, found with TLC in instances without a run of their own:

- *Lifecycle.* `StartBootstraps` fails: a start succeeds without a bootstrap,
  although docs/specs.md 5.1 says of the first boot that it must "wait for SSH
  and run bootstrap once". A second bootstrap of a running VM runs the script again, though
  the marker is there. `MarkerTruth` fails when a destroy is killed between two
  unlinks. `RefusedOnlyDuringBuild` fails after a killed build: its VM, in a
  session of its own, lives on, and "disk build is already in progress" comes
  until it is killed by hand. A build script that fails is a warning, and its
  disk is booted. `UpgradeTakesEffect` fails where `Rank` does not rise with the
  releases: 6.12.9 sorts after 6.12.10, and as long as its files are in `/boot`,
  upgrades to 6.12.10 and later report success and copy 6.12.9. A Stop or a
  builder that gives up on vfkit leaves it running (`slow`, above).
- *Tunnels.* `Tracked` fails when two starts of a tunnel overlap, when a pid file
  cannot be written, when a command line is killed between the launch of ssh
  (tunnel_manager.go:56) and the write of its pid (line 65), and when destroy finds
  the VM stopped and removes the pid files of tunnels that live. `SkipsOnlyOwn`
  fails when a stop is killed while it waits: ssh has been told to end and is
  passed over by the next start. A tunnel of the web server whose ssh ended is a
  zombie that takes signal 0, so auto-start and start-all pass over it until it
  is stopped: that is the exception in `SkipsOnlyOwn`.
- *Configuration.* `ImplementsStore` fails when two savers overlap. `ActsOnSaved`
  fails once `web_start` is among the commands: `handleStart` uses the settings
  of the time when the server started, although docs/specs.md:241 says that the
  web UI reflects changes without a restart. `HooksRunOnce` fails: `handleBootstrap`
  appends the hooks of the form, which the page fills with the saved ones, to
  those that `LoadConfig` read, so that each of them runs twice in one bootstrap;
  docs/specs.md:239 says "Post-bootstrap hooks execute once and not on restart". A
  bootstrap of the web UI that is given other hooks than the saved ones runs the old ones too, and its form cannot
  empty the list: no hooks given means that the saved ones stay.
- *Copy sync.* `BackupsKept` fails with a negative retention, and with one of more
  than 106751 days, which overflows a `Duration`: each cleanup then removes every
  backup. It fails with `quick`: two syncs in one second share a directory.
  `OverwritesBackedUp` fails with `edit`: nothing keeps the host still between
  backup and rsync. A restore overwrites without a backup and leaves files that
  the backup does not have; a torn backup is listed and restored like any other.
- *Git sync.* With `recreate`, `SuccessMeansLinked` fails: a second set-up makes
  an empty repository where the first had pushed, and the first clones that. A
  set-up that failed after `git remote add` can only be repeated after the user
  has removed the remote, and removing the pair does not.
- *Progress log.* An entry that overtook another can be shown twice: when the
  last entry of an answer was stamped before one that precedes it, the page asks
  from that stamp and gets the other again. `ShownInOrder` leaves such entries
  out. It fails with two polls on their way, as the timer does not wait for an
  answer.
- *Downloads.* `WholeFiles` fails with two clients: one renames what the other
  writes. `KernelUsable` fails with `halfway`: modules that a killed destroy left
  are used with a newer kernel. Modules that were copied in part, as their copy
  was killed or failed, are taken for complete by every build until a destroy;
  when none could be made, the build goes on without, and `KernelUsable` excuses
  both. A transfer that stalls is waited for without end. A cached URL that the mirror dropped fails every build until a destroy.

*Bounds.* Two processes suffice for a VM and a build VM side by side; where
leftovers matter there are three. Two images are an old and a new disk. Images
and process identities are reused once nothing refers to them, so the runs are
complete state spaces, not prefixes. Two releases are "before" and "after" an
upgrade. Three tunnels, one auto-started, one enabled and one not, tell the loops
apart; three ssh processes are two that live and a zombie. Two items are enough for a list that
loses one and keeps one. Of a copy sync the files are independent but for being
visited one after the other, and one file and two clients show every order of
backup, cleanup, overwrite and restore; in three seconds of one-day length a
backup is made, kept and dropped. Two contents of the host tell an old backup
from a new one. `HalfRange` is the longest retention exactly, so that the
boundary of the overflow is met and not passed. Three releases are an old, a
cached and a new one, of three sizes. In git_setup one bare repository is the
default and one is given; two commits are the base and one more. A log of two entries is trimmed twice by four,
of which two can overtake each other twice; two moments a millisecond tell its
start from the rest of it.

*Fairness.* `FairSpec` of VMLifecycle assumes that a client goes on at a label
where it works on local files or polls vfkit until a deadline, and that vfkit
goes on once launched or told to stop. It assumes nothing at the labels of
`OpenEnded`, where a client waits for a guest or a mirror: the downloads and the
ssh sessions (vm.go:207, 286, 301 and 341, build_vfkit.go:1117 and others) have no
deadline, and that of `waitForSSH` is looked at only between two runs of ssh.
`EveryCommandReturns` says that a command that does not return hangs in one of
these, so that no chain of polls, retries and calls goes round for ever. In
TunnelManager it is the clients alone, but for the start of the machine itself:
nothing is assumed of ssh. In BuildAssets a command goes on but for its transfers:
the requests for an address or a size have a deadline (60 and 30 seconds), bodies
have none (`downloadHTTPClient(0)`, util.go:214, and curl without `--max-time`,
util.go:175-185). In ProgressLog a goroutine does not stop with
an entry in hand, the page polls for ever, and not every answer is lost (strong
fairness of `Answer` and `Show`). It assumes nothing about crashes, about users
issuing commands, or about any alternative of a step being taken.

## 5. What is proved

VMLifecycleProofs, for every value of the constants, from the named
assumptions of VMLifecycle:

- **TypeCorrect**: `TypeOK` and `RunsOnADisk` are invariants. `RunsOnADisk` (a
  running machine has a disk) is needed because the boot files are typed by the
  image they were copied from.
- **PublishedBootableSole**: with one client, `PublishedBootable`. The inductive
  invariant is `BuildProgress`: from the label after each copy on, the copied
  file is there. It needs `SoleClient` because another client's destroy may
  remove a copied file before the rename.

ConfigFileProofs, from the named assumptions of ConfigFile:

- **TypeCorrect**: for any number of clients, overlapping as they may, every
  variable keeps its type and the web server runs on valid settings.
- **FileImplementsStore**: with one client and any environment,
  `ImplementsStore`. The inductive invariant is `Held`: what a list command has
  in hand was made from the list that is still in the file, what is about to be
  written is the content of the file with one edit, and the file is empty between
  truncation and write. It needs `SoleClient`: another saver in between falsifies
  the first two parts, another reader sees the third.
- **CommandsActOnSaved**: with one client and no start from the web UI,
  `ActsOnSaved`; section 4 says what happens there. Beside `Held` it needs
  `Prepared`: a `Config` in hand has its hooks among its extra commands, and for a
  start no others.

SyncCopyProofs, from the named assumptions of SyncCopy:

- **TypeCorrect**: with any clients and environment, types are kept and no backup
  is of the future.
- **OverwritesAreBackedUp** and **BackupsAreKept**: with any number of clients,
  files and pairs' settings, `OverwritesBackedUp` and `BackupsKept`, assuming
  `Calm` (nothing of `Environment`) and `RetentionSane` (no retention is negative
  or longer than a `Duration`). The inductive invariant is `BInv`. `Backed` says
  that what a sync will overwrite is in its backup or will be; to survive the
  backups of other syncs it needs `Apart`, two syncs share a backup only when
  the first had nothing to save; to survive `Backup` itself it needs `Empty`,
  what a walk has yet to visit is not there yet. `ExpiredIsOld` has the
  arithmetic: without overflow a cleanup removes only what is a day old.

GitSetupProofs, from the named assumptions of GitSetup:

- **TypeCorrect**: with any environment; a bare repository has an owner exactly
  when it has commits.
- **GuestWorkStays**: `GuestWorkKept`, with any environment: no force push and no
  removal is among the commands.
- **SuccessLinks**: `SuccessMeansLinked`, when the VM is not made again during a
  set-up, wherever the bare repositories outside the home lead (`Named` is any
  function into the repositories). The inductive invariant says, for each label after a push, that the
  repository the remote names has what the host had at the beginning: pushes go
  only forward, and the bare repository of another host refuses them.

TunnelManagerProofs, from the named assumptions of TunnelManager:

- **TypeCorrect**: with any commands that overlap. `Placed` is needed beside
  `TypeOK`: a client that is at work on a tunnel has one.
- **SkipsAreOwn**: `SkipsOnlyOwn`, while commands run one at a time and none is
  killed (`NobodyKilled`). The inductive invariant is `SInv` with `Parented` and `Sole`: a pid file names a
  process that was launched for its tunnel, or is gone (`Owned`); who sent
  SIGTERM waits (`Ends`); a loop meets a tunnel once, so a command line never
  meets a zombie of its own (`Once`, `Child`).
- **NoneIsLost**, **RemovedAreStopped**, **LoopsStopAll**: `Tracked`,
  `LiveConfigured` and `StopAllStops`, when in addition files can be written
  and no destroy removes pid files (`FilesKept`). Section 4 says how `Tracked`
  fails without any of these. The inductive invariant, `TInv`, adds to the former what a
  client has found out about its tunnel and relies on (`Known`), that a list in
  hand is the one in the file and what is taken from it is down (`Listed`), that a
  loop which stops tunnels leaves those behind it down (`Swept`), and that only a
  destroy removes the pid files (`Removing`).

BuildAssetsProofs, from the named assumptions of BuildAssets:

- **TypeCorrect**: for any number of commands, killed anywhere.
- **FetchedWhole**: `WholeFiles`, with one command at a time, for any number of
  releases and blocks. The invariant `FInv` says that a file that is written to
  has the name `destination.part`, holds a prefix of one release and that there
  is no destination meanwhile: another client would break each of the three.
- **KernelsAreUsable**: `KernelUsable`, when also no destroy stops halfway. The
  invariant `KInv` is that modules are only there beside the kernel they came
  with, as the kernel is copied before them and a build without modules copies
  both again, and that those that are torn or missing are so because a copy
  failed or was killed.

ProgressLogProofs, from the named assumptions of ProgressLog:

- **TypeCorrect**: for any number of goroutines and polls.
- **PageInOrder**: `ShownInOrder`, with any number of goroutines that report and
  one poll on its way. The invariant `OInv`: stamps do not fall from entry to
  entry, the log rises but where one entry has overtaken another, what is in hand
  comes after all of it but what has overtaken it, an answer rises in the same
  way and is later than what the page asked from, and so is it than every entry
  shown that did not race. It rests on a clock that does not go back. What
  `getProgressSince` picks is said without recursion, by the one strictly
  rising function onto the indices it picks (`Rising`).

VMLifecycleSoleProofs, from the named assumptions of VMLifecycle and, but for
the last theorem, `SoleClient`, that commands run one at a time. No lock makes
that so, and section 4 says what is left without it. Nothing else is assumed but
where a theorem names it:

- **StopsItsOwnKind** (`KindsApart`) assumes that no client is killed. A new vfkit
  may get the pid that a leftover file names, so the file must be of its own kind,
  or gone: `NamedOnlyInBuild` says that `build-vfkit.pid` is there only during a
  build, when no VM is launched, and `VMFiles` that `vfkit.pid` is there only
  beside a disk, and a build begins only where there is none. `Whole` puts these
  together with what the next theorems say, as each needs the others.
- **OneVMTracked** (`TrackedVM`), **CommandsImplementService**
  (`ImplementsService`) and **UpgradesTakeEffect** (`UpgradeTakesEffect`) assume
  `Orderly`: a client may be killed, or a vfkit be late with its pid file and get
  the pid of another, but an instance does not have both, as a killed client
  waits for no one. **UpgradesTakeEffect** also assumes `NamesRise`, that names
  sort the way releases follow each other; `NotNewer` then makes the last file by
  name the one that is installed (`LastIsNewest`). `TrackedVM`
  is not inductive. `OneVM` adds that a vfkit without pid file is waited for
  (`Waited`), that the VM is off from where a command found or made it so
  (`OffWhere`), that there is no disk where one is being made (`UnmadeWhere`),
  that a running VM is on the disk of the state directory (`OnTheDisk`), and
  that the marker is written after a bootstrap (`RanWhere`). The refinement maps
  each step of a client (`ClientServes`) and of a vfkit (`VfkitServes`) to a step
  of VMService or a stutter.
- **MarkerTellsTruth** (`MarkerTruth`), **PublishedPairSole** (`PublishedPair`)
  and **BootsOwnKernelSole** (`BootsOwnKernel`) assume that no client is killed.
  `Marked` follows the marker through a destroy, which unlinks in any order.
  `TheBuild` is the build VM's `TrackedVM`: at most one that was not told to
  stop, on `disk.img.building`, with its builder at work on it. `PairSoFar` and `OwnAssets`
  follow kernel and initrd from the guest to the boot; the latter holds for
  disks that the builder made (`DisksAreBuilt`).
- **BuildsCleanUp** (`NoBuildLeftBehind`) and **OffMeansOffSole** (`OffMeansOff`)
  assume besides that vfkit stops within 30 seconds (`StopsInTime`): a build VM
  that was told to stop is then waited for until it is dead (`StopAwaited`).
  `CommandPlaces` tells which success is which: a stop succeeds only where
  `Stop` returns, a destroy only with the directory gone.
- **RefusedOnlyDuringBuilds** (`RefusedOnlyDuringBuild`) assumes that no client is
  killed and that commands run one at a time or vfkit writes its pid file at
  once. `NamedOnlyInBuild` says that `build-vfkit.pid` is there only during a
  build, also when a build VM would not stop: its pid file goes all the same.
  With several clients a late vfkit breaks it (`LateAwaited`): its builder may
  take the VM of another build for its own and be gone when the file appears.

With these, every safety property of the passing runs is stated by a theorem.
Liveness is out of the prover's reach, so `EveryCommandReturns` (of VMLifecycle
and of TunnelManager), `EveryDownloadEnds` and `EveryEntryShown` are
model-checked only.

## 6. What is not modelled

- Guest metrics: a parser of text and differences of two samples; the only
  caller never passes an earlier sample.
- Clipboard, host and guest file pickers: one command or directory listing a
  call, without state.
- Flags, HTML, JSON and the rest of `app.js`: layout, and one request a button.
- The text of the guest's build and bootstrap scripts: they are their outcomes.
- Conversion and resizing of images by external tools: one outcome each.
- Exclude patterns are a set of files (`Excluded`), empty in the run; an unknown
  direction, which the web handler ignores, is not among `Directions`.
