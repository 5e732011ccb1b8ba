------------------------------ MODULE SyncCopy ------------------------------
(***************************************************************************)
(* Copy synchronisation: sync_copy.go, and the commands of sync_cli.go and *)
(* web_handlers.go that run and restore a pair.                            *)
(*                                                                         *)
(* A sync to the host first copies the host's tree into a directory named  *)
(* by the second, and then lets rsync overwrite and delete.  Every sync    *)
(* begins by deleting the backups that are older than the retention.       *)
(* Nothing is locked, and the web server runs each sync in a goroutine.    *)
(*                                                                         *)
(* There is one pair here, and it stays: pairs share nothing but the list  *)
(* they are in, which is ConfigFile's.  A tree maps files to contents.     *)
(*                                                                         *)
(* A definition marked "faulty variant" is no part of the model: it is the *)
(* definition that follows with a bug, to show that a property notices it. *)
(***************************************************************************)
EXTENDS Integers

CONSTANTS
    Clients,            \* CLI invocations and goroutines of the web server
    Files,              \* the paths in the two trees
    Excluded,           \* those that match an exclude pattern of the pair
    HostMade, VmMade,   \* contents written on the host, and in the guest
    Torn,               \* what an interrupted copy leaves
    Absent,             \* there is no such file
    Retentions,         \* what the user may give as --retention
    DefaultRetention,   \* 7 in the code
    Day,                \* seconds in a day
    HalfRange,          \* a Duration holds from -HalfRange to HalfRange - 1
    MaxTime,            \* bound: the last second
    Commands,           \* the commands clients run in this instance
    Environment         \* what may happen in this instance, see below

ASSUME NumbersAssumption ==
    /\ DefaultRetention \in Nat \ {0} /\ Day \in Nat \ {0} /\ HalfRange \in Nat \ {0}
    /\ MaxTime \in Nat
    /\ Retentions \subseteq Int

ASSUME ContentsAssumption ==
    /\ HostMade \intersect VmMade = {}
    /\ Absent \notin HostMade \union VmMade /\ Torn \notin HostMade \union VmMade
    /\ Absent # Torn

ASSUME CommandsAssumption == Commands \subseteq {"run", "restore", "destroy"}

(***************************************************************************)
(* "edit"   the user may write to the host's tree, or destroy the VM,      *)
(*          during a sync to the host.                                     *)
(* "quick"  two backups may be made in one second.                         *)
(***************************************************************************)
ASSUME EnvironmentAssumption == Environment \subseteq {"edit", "quick"}

VARIABLES
    client,     \* client[c]: the command c runs and where it is in it
    pair,       \* the pair as vmctl.yaml has it, which nothing here changes
    host, vm,   \* the two trees
    mine,       \* history: the host's files as their user wrote them, no sync since
    backups,    \* backups[s]: what the directory named s holds
    clock       \* the time in seconds

vars == <<client, pair, host, vm, mine, backups, clock>>

Times      == 0..MaxTime
Contents   == HostMade \union VmMade \union {Torn}
Trees      == [Files -> Contents \union {Absent}]
Directions == {"host-to-vm", "vm-to-host", "bidirectional"}
Pairs      == [direction : Directions, retention : Retentions]
Labels     == {"idle", "cleanup", "stamp", "backup", "list", "transfer", "restore"}

NoTree == [f \in Files |-> Absent]

Present(tree) == {f \in Files : tree[f] # Absent}

ClientState == [pc    : Labels,
                leg   : {"host-to-vm", "vm-to-host"},
                stamp : Times,                      \* the backup at hand
                todo  : SUBSET Files]               \* what the walk has yet to visit

(* No backup is of the future.                                             *)
TypeOK ==
    /\ client \in [Clients -> ClientState]
    /\ pair \in Pairs
    /\ host \in Trees /\ vm \in Trees /\ mine \subseteq Files
    /\ backups \in [Times -> Trees]
    /\ clock \in Times
    /\ \A s \in Times : s > clock => backups[s] = NoTree
    /\ \A c \in Clients : client[c].stamp <= clock

Idle == [pc |-> "idle", leg |-> "host-to-vm", stamp |-> 0, todo |-> {}]

Init ==
    /\ client = [c \in Clients |-> Idle]
    /\ pair \in Pairs
    /\ host \in [Files -> HostMade \union {Absent}]
    /\ vm = NoTree
    /\ mine = Present(host)
    /\ backups = [s \in Times |-> NoTree]
    /\ clock = 0

-----------------------------------------------------------------------------
(* Operators on the state.                                                 *)

At(c, label) == client[c].pc = label
Becomes(c, state) == client' = [client EXCEPT ![c] = state]
Goto(c, label) == Becomes(c, [client[c] EXCEPT !.pc = label])
Finish(c) == Becomes(c, Idle)

(* Faulty variant: no default, so that zero days keep nothing.             *)
retentionDaysAsGiven == pair.retention

retentionDays == IF pair.retention # 0 THEN pair.retention ELSE DefaultRetention

(* A Duration is a signed integer of fixed width.                          *)
Wrap(n) == ((n + HalfRange) % (2 * HalfRange)) - HalfRange

(* The cutoff of cleanupOldBackups falls within this second, late or not,  *)
(* and a backup is named by the beginning of its second.                   *)
Expired(late) ==
    LET cutoff == clock + Wrap(-retentionDays * Day) IN
    {s \in Times : Present(backups[s]) # {} /\ (s < cutoff \/ (s = cutoff /\ late))}

(* Somebody is between his backup of the host's tree and the end of what   *)
(* he overwrites there.                                                    *)
Overwriting == \E c \in Clients :
    client[c].leg = "vm-to-host" /\ client[c].pc \in {"stamp", "backup", "list", "transfer"}

-----------------------------------------------------------------------------
(* Destroy: the backups are in the state directory, the guest on the disk. *)
Destroy ==
    /\ "destroy" \in Commands
    /\ "edit" \in Environment \/ ~Overwriting
    /\ backups' = [s \in Times |-> NoTree]
    /\ vm' = NoTree
    /\ UNCHANGED <<client, pair, host, mine, clock>>

-----------------------------------------------------------------------------
(* sync run.                                                               *)

FirstLeg == IF pair.direction = "host-to-vm" THEN "host-to-vm" ELSE "vm-to-host"

Run(c) ==
    /\ "run" \in Commands /\ At(c, "idle")
    /\ Becomes(c, [Idle EXCEPT !.pc = "cleanup", !.leg = FirstLeg])
    /\ UNCHANGED <<pair, host, vm, mine, backups, clock>>

(* cleanupOldBackups; it stops at the first backup it cannot remove.       *)
Cleanup(c) ==
    LET me == client[c] IN
    /\ At(c, "cleanup")
    /\ \E late \in BOOLEAN : \E gone \in SUBSET Expired(late) :
          /\ backups' = [s \in Times |-> IF s \in gone THEN NoTree ELSE backups[s]]
          /\ \/ /\ gone = Expired(late)
                /\ Goto(c, IF me.leg = "vm-to-host" THEN "stamp" ELSE "list")
             \/ Finish(c)
    /\ UNCHANGED <<pair, host, vm, mine, clock>>

(* Faulty variant: the backup is named by local time, ahead of UTC.        *)
StampLocal(c) ==
    /\ At(c, "stamp")
    /\ \E s \in {t \in Times : t > clock} :
          Becomes(c, [client[c] EXCEPT !.pc = "backup", !.stamp = s, !.todo = Present(host)])
    /\ UNCHANGED <<pair, host, vm, mine, backups, clock>>

(* CopySyncVMToHost takes the time, backupDirectory lists the host's tree. *)
Stamp(c) ==
    /\ At(c, "stamp")
    /\ \/ "quick" \in Environment
       \/ /\ backups[clock] = NoTree
          /\ \A d \in Clients : At(d, "backup") => client[d].stamp # clock
    /\ Becomes(c, [client[c] EXCEPT !.pc = "backup", !.stamp = clock, !.todo = Present(host)])
    /\ UNCHANGED <<pair, host, vm, mine, backups, clock>>

(* Faulty variant: a failure of backupDirectory is not returned.           *)
BackupIgnoresFailure(c) ==
    LET me == client[c] IN
    /\ At(c, "backup")
    /\ \/ me.todo = {} /\ Goto(c, "list") /\ UNCHANGED backups
       \/ \E f \in me.todo :
             /\ backups' = [backups EXCEPT ![me.stamp][f] = host[f]]
             /\ Becomes(c, [me EXCEPT !.todo = me.todo \ {f}])
       \/ Goto(c, "list") /\ UNCHANGED backups
    /\ UNCHANGED <<pair, host, vm, mine, clock>>

(* backupDirectory, one copyFile at a time.  A copy that fails, or whose   *)
(* process dies, leaves a part; a file that is gone ends the walk.         *)
Backup(c) ==
    LET me == client[c] IN
    /\ At(c, "backup")
    /\ \/ me.todo = {} /\ Goto(c, "list") /\ UNCHANGED backups
       \/ \E f \in me.todo :
             /\ host[f] # Absent
             /\ backups' = [backups EXCEPT ![me.stamp][f] = host[f]]
             /\ Becomes(c, [me EXCEPT !.todo = me.todo \ {f}])
       \/ \E f \in me.todo :
             /\ backups' = [backups EXCEPT ![me.stamp][f] = Torn]
             /\ Finish(c)
       \/ Finish(c) /\ UNCHANGED backups
    /\ UNCHANGED <<pair, host, vm, mine, clock>>

(* buildRsyncArgs and the start of rsync, which lists both trees.          *)
List(c) ==
    /\ At(c, "list")
    /\ \/ Becomes(c, [client[c] EXCEPT !.pc = "transfer",
                                       !.todo = (Present(host) \union Present(vm)) \ Excluded])
       \/ Finish(c)
    /\ UNCHANGED <<pair, host, vm, mine, backups, clock>>

(* rsync -a --delete, one file at a time: a file is replaced as a whole,   *)
(* and removed when the other side has none.                               *)
Transfer(c) ==
    LET me == client[c] IN
    /\ At(c, "transfer")
    /\ \/ \E f \in me.todo :
             /\ IF me.leg = "vm-to-host"
                THEN /\ host' = [host EXCEPT ![f] = vm[f]]
                     /\ mine' = mine \ {f}
                     /\ UNCHANGED vm
                ELSE vm' = [vm EXCEPT ![f] = host[f]] /\ UNCHANGED <<host, mine>>
             /\ Becomes(c, [me EXCEPT !.todo = me.todo \ {f}])
       \/ /\ me.todo = {} /\ me.leg = "vm-to-host" /\ pair.direction = "bidirectional"
          /\ Becomes(c, [me EXCEPT !.pc = "cleanup", !.leg = "host-to-vm"])
          /\ UNCHANGED <<host, vm, mine>>
       \/ Finish(c) /\ UNCHANGED <<host, vm, mine>>
    /\ UNCHANGED <<pair, backups, clock>>

-----------------------------------------------------------------------------
(* sync restore: no backup of the host's tree is made.                     *)

Restore(c) ==
    /\ "restore" \in Commands /\ At(c, "idle")
    /\ \E s \in 0..clock :
          /\ Present(backups[s]) # {}
          /\ Becomes(c, [Idle EXCEPT !.pc = "restore", !.stamp = s,
                                     !.todo = Present(backups[s])])
    /\ UNCHANGED <<pair, host, vm, mine, backups, clock>>

RestoreFile(c) ==
    LET me == client[c] IN
    /\ At(c, "restore")
    /\ \/ \E f \in me.todo :
             /\ backups[me.stamp][f] # Absent
             /\ host' = [host EXCEPT ![f] = backups[me.stamp][f]]
             /\ mine' = mine \ {f}
             /\ Becomes(c, [me EXCEPT !.todo = me.todo \ {f}])
       \/ \E f \in me.todo :
             /\ host' = [host EXCEPT ![f] = Torn]
             /\ mine' = mine \ {f}
             /\ Finish(c)
       \/ Finish(c) /\ UNCHANGED <<host, mine>>
    /\ UNCHANGED <<pair, vm, backups, clock>>

-----------------------------------------------------------------------------
(* What the users of the two trees do, and time.                           *)

EditHost ==
    /\ "edit" \in Environment \/ ~Overwriting
    /\ \E f \in Files : \E d \in (HostMade \union {Absent}) \ {host[f]} :
          /\ host' = [host EXCEPT ![f] = d]
          /\ mine' = IF d = Absent THEN mine \ {f} ELSE mine \union {f}
    /\ UNCHANGED <<client, pair, vm, backups, clock>>

EditVm ==
    /\ \E f \in Files : \E d \in VmMade \union {Absent} : vm' = [vm EXCEPT ![f] = d]
    /\ UNCHANGED <<client, pair, host, mine, backups, clock>>

Tick ==
    /\ clock < MaxTime
    /\ clock' = clock + 1
    /\ UNCHANGED <<client, pair, host, vm, mine, backups>>

Step(c) ==
    \/ Run(c) \/ Cleanup(c) \/ Stamp(c) \/ Backup(c) \/ List(c) \/ Transfer(c)
    \/ Restore(c) \/ RestoreFile(c)

Next ==
    \/ Destroy
    \/ \E c \in Clients : Step(c)
    \/ EditHost \/ EditVm \/ Tick

Spec == Init /\ [][Next]_vars

-----------------------------------------------------------------------------
(* Properties.                                                             *)

(* When a sync overwrites or deletes what the user has in a file of the    *)
(* host, the backup this sync made holds it: whatever else runs, other     *)
(* syncs of the pair and restores included.  Only a                        *)
(* backup that is a day old by then may be gone.                           *)
OverwritesBackedUp ==
    [][\A c \in Clients : \A f \in mine \ mine' :
          /\ At(c, "transfer") /\ Transfer(c)
          /\ clock < client[c].stamp + Day
          => backups[client[c].stamp][f] = host[f]]_vars

(* The backup of a file stays as it is until it is older than the pair's   *)
(* retention allows, seven days unless the user says otherwise, or the VM  *)
(* is destroyed: no later sync replaces it, and no cleanup comes early.    *)
Kept == IF pair.retention = 0 THEN DefaultRetention ELSE pair.retention

BackupsKept ==
    [][\A s \in Times : \A f \in Files :
          /\ backups[s][f] \notin {Absent, Torn} /\ backups'[s][f] # backups[s][f]
          => \/ \E c \in Clients : /\ At(c, "cleanup")
                                   /\ s + Kept * Day <= clock
             \/ vm' = NoTree /\ client' = client]_vars
=============================================================================
