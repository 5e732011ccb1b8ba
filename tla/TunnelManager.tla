---------------------------- MODULE TunnelManager ----------------------------
(***************************************************************************)
(* SSH tunnels: tunnel_manager.go, and the commands of tunnel_cli.go,      *)
(* web_handlers.go and vm.go that start and stop them.                     *)
(*                                                                         *)
(* A tunnel is an ssh process in a session of its own.  All that is known  *)
(* of it afterwards is tunnels/<id>.pid.  Whoever started it is its parent *)
(* and never waits for it: an ssh that ends stays a zombie until its       *)
(* parent ends, which is at once for a CLI command and never for the web   *)
(* server.  The VM is one bit here: VMLifecycle has the rest of it.        *)
(*                                                                         *)
(* Both commands that add a tunnel enable it; one is disabled by hand, in  *)
(* vmctl.yaml.  Tunnels are told apart by their IDs, which are distinct    *)
(* and not empty.  A loop visits its tunnels in any order.                 *)
(*                                                                         *)
(* A definition marked "faulty variant" is no part of the model: it is the *)
(* definition that follows with a bug, to show that a property notices it. *)
(***************************************************************************)
CONSTANTS
    Tunnels,        \* tunnel IDs
    NoTunnel,       \* the command is about no tunnel in particular
    AutoTunnels,    \* those with auto_start
    EnabledTunnels, \* those not disabled by hand
    Clients,        \* CLI invocations and web handlers
    Handlers,       \* the clients that are goroutines of the web server
    NoClient,       \* the parent of orphans, which waits for them
    Procs,          \* identifiers of ssh processes
    NoProc,         \* "there is no such file"
    Commands,       \* the commands clients run in this instance
    Environment     \* what may happen in this instance, see below

ASSUME IdentifiersAssumption ==
    NoProc \notin Procs /\ NoClient \notin Clients /\ NoTunnel \notin Tunnels
ASSUME TunnelsAssumption  == AutoTunnels \subseteq Tunnels /\ EnabledTunnels \subseteq Tunnels
ASSUME HandlersAssumption == Handlers \subseteq Clients

StartLoops == {"start_all", "vm_start"}
StopLoops  == {"stop_all", "vm_stop", "vm_destroy", "build_stop"}
Loops      == StartLoops \union StopLoops
Starts     == {"start"} \union StartLoops
CliOnly    == {"start_all", "stop_all"}

(* A first start builds the disk, and the builder's Stop is no command.    *)
ASSUME CommandsAssumption ==
    Commands \subseteq {"start", "stop", "add", "remove"} \union (Loops \ {"build_stop"})

(***************************************************************************)
(* "overlap"  a command may begin while another runs.                      *)
(* "exit"     the VM and the ssh processes may end by themselves.          *)
(* "full"     the disk may be full: a pid file is not written, and the     *)
(*            configuration is left empty.                                 *)
(* "kill"     a command's process may be killed, at any step.              *)
(***************************************************************************)
ASSUME EnvironmentAssumption == Environment \subseteq {"overlap", "exit", "full", "kill"}

VARIABLES
    client,     \* client[c]: the command c runs and where it is in it
    ssh,        \* ssh[p]: the ssh process p
    pidFile,    \* pidFile[t]: the process named by tunnels/<t>.pid
    config,     \* the tunnels in vmctl.yaml
    vm          \* whether InspectVM finds the VM running

vars == <<client, ssh, pidFile, config, vm>>

Labels == {"idle", "inspect", "boot", "power_on", "shutdown", "load", "next", "check",
           "start", "launch", "write", "stop", "wait", "save", "remove_dir", "done"}

ClientState == [op   : Commands \union {"none", "vm_start", "build_stop"},
                pc   : Labels,
                cur  : Tunnels \union {NoTunnel},   \* the tunnel at hand
                todo : SUBSET Tunnels,              \* what the loop has yet to visit
                tc   : SUBSET Tunnels,              \* the list the command will save
                pid  : Procs \union {NoProc}]       \* the process at hand

SshState == [tunnel : Tunnels \union {NoTunnel},
             parent : Clients \union {NoClient},
             st     : {"gone", "running", "ending", "zombie"}]

(* A command has a process in hand while it writes its pid, or stops it.   *)
TypeOK ==
    /\ client \in [Clients -> ClientState]
    /\ ssh \in [Procs -> SshState]
    /\ pidFile \in [Tunnels -> Procs \union {NoProc}]
    /\ config \in SUBSET Tunnels
    /\ vm \in BOOLEAN
    /\ \A c \in Clients : client[c].pid # NoProc <=> client[c].pc \in {"write", "wait"}

Idle == [op |-> "none", pc |-> "idle", cur |-> NoTunnel,
         todo |-> {}, tc |-> {}, pid |-> NoProc]
Gone == [tunnel |-> NoTunnel, parent |-> NoClient, st |-> "gone"]

Init ==
    /\ client = [c \in Clients |-> Idle]
    /\ ssh = [p \in Procs |-> Gone]
    /\ pidFile = [t \in Tunnels |-> NoProc]
    /\ config = Tunnels \ EnabledTunnels
    /\ vm = FALSE

-----------------------------------------------------------------------------
(* Operators on the state.                                                 *)

At(c, label) == client[c].pc = label
Op(c) == client[c].op

Becomes(c, state) == client' = [client EXCEPT ![c] = state]
Goto(c, label) == Becomes(c, [client[c] EXCEPT !.pc = label])

(* Faulty variant: the pid file alone tells that a tunnel runs.            *)
IsTunnelRunningByFile(t) == pidFile[t] # NoProc

(* signal 0 reaches every process that was not waited for.                 *)
IsTunnelRunning(t) == pidFile[t] # NoProc /\ ssh[pidFile[t]].st # "gone"

Live(p) == ssh[p].st \in {"running", "ending"}

FreshProcs == {p \in Procs : /\ ssh[p].st = "gone"
                             /\ \A t \in Tunnels : pidFile[t] # p
                             /\ \A c \in Clients : client[c].pid # p}

(* What is left of a process that ended under this parent.                 *)
Ended(s) == IF s.parent = NoClient THEN Gone ELSE [s EXCEPT !.st = "zombie"]

(* Where a command goes on when it is through with the tunnel at hand.     *)
Resume(op) == IF op \in Loops THEN "next" ELSE IF op = "remove" THEN "save" ELSE "done"

-----------------------------------------------------------------------------
(* The commands up to their first tunnel.                                  *)

(* The guard is the only place that knows whether commands may overlap.    *)
(* Bound: an ID disabled by hand is not added again once it was removed.   *)
Begin(c) ==
    /\ At(c, "idle")
    /\ "overlap" \in Environment \/ \A d \in Clients : At(d, "idle")
    /\ \E op \in Commands, t \in Tunnels \union {NoTunnel} :
          /\ op \in Loops <=> t = NoTunnel
          /\ op \in CliOnly => c \notin Handlers
          /\ op = "add" => t \in EnabledTunnels
          /\ Becomes(c, [Idle EXCEPT
                 !.op = op, !.cur = t,
                 !.pc = CASE op = "vm_start" -> "boot"
                          [] op \in {"vm_stop", "vm_destroy"} -> "shutdown"
                          [] op \in Starts /\ c \notin Handlers -> "inspect"
                          [] OTHER -> "load"])
    /\ UNCHANGED <<ssh, pidFile, config, vm>>

(* The CLI looks at the VM before it loads the list, the handler after.    *)
Inspect(c) ==
    /\ At(c, "inspect")
    /\ Goto(c, IF ~vm THEN "done" ELSE IF c \in Handlers THEN "start" ELSE "load")
    /\ UNCHANGED <<ssh, pidFile, config, vm>>

(* Start: a VM that runs already is a success that starts no tunnel.  The  *)
(* first start, whose VM has no disk yet, has the builder's Stop on its    *)
(* way, which stops the tunnels that an earlier VM left behind.            *)
Boot(c) ==
    /\ At(c, "boot")
    /\ \/ Goto(c, "done")
       \/ ~vm /\ Goto(c, "power_on")
       \/ ~vm /\ Becomes(c, [client[c] EXCEPT !.op = "build_stop", !.pc = "load"])
    /\ UNCHANGED <<ssh, pidFile, config, vm>>

PowerOn(c) ==
    /\ At(c, "power_on")
    /\ \/ Goto(c, "load") /\ vm' = TRUE
       \/ Goto(c, "done") /\ UNCHANGED vm
    /\ UNCHANGED <<ssh, pidFile, config>>

(* Stop and Destroy: a VM that does not run is a success that stops no     *)
(* tunnel, and one that does not stop is a failure that stops none.        *)
Shutdown(c) ==
    /\ At(c, "shutdown")
    /\ \/ /\ ~vm
          /\ Goto(c, IF Op(c) = "vm_destroy" THEN "remove_dir" ELSE "done")
          /\ UNCHANGED vm
       \/ vm /\ Goto(c, "load") /\ vm' = FALSE
       \/ vm /\ Goto(c, "done") /\ UNCHANGED vm
    /\ UNCHANGED <<ssh, pidFile, config>>

(* Faulty variant: every loop takes the enabled tunnels only.              *)
VisitsEnabled(op) == config \intersect EnabledTunnels

(* What a loop visits.                                                     *)
Visits(op) ==
    CASE op = "vm_start"  -> config \intersect EnabledTunnels \intersect AutoTunnels
      [] op = "start_all" -> config \intersect EnabledTunnels
      [] OTHER            -> config

(* Where a command goes on after its loop, or when it cannot go through    *)
(* with it: Stop takes note of an error and goes on.                       *)
Finish(c) ==
    LET me == client[c] IN
    Becomes(c, [me EXCEPT !.op = IF @ = "build_stop" THEN "vm_start" ELSE @,
                          !.pc = CASE me.op = "vm_destroy" -> "remove_dir"
                                   [] me.op = "build_stop" -> "power_on"
                                   [] OTHER                -> "done"])

(* AddTunnel and RemoveTunnel, on the list as it was loaded.               *)
Changed(op, t) == IF op = "add" THEN config \union {t} ELSE config \ {t}

(* The commands on one tunnel fail when it is not listed, add when it is,  *)
(* and all of them when vmctl.yaml cannot be read.                         *)
Load(c) ==
    LET me == client[c] IN
    /\ At(c, "load")
    /\ \/ /\ me.op \in Loops
          /\ Becomes(c, [me EXCEPT !.pc = "next", !.todo = Visits(me.op)])
       \/ /\ me.op \in {"add", "remove"} /\ (me.op = "remove" <=> me.cur \in config)
          /\ Becomes(c, [me EXCEPT !.pc = IF me.op = "add" THEN "save" ELSE "check",
                                   !.tc = Changed(me.op, me.cur)])
       \/ /\ me.op = "stop" /\ me.cur \in config
          /\ Goto(c, "stop")
       \/ /\ me.op = "start" /\ me.cur \in config
          /\ Goto(c, IF c \in Handlers THEN "inspect" ELSE "start")
       \/ Finish(c)
    /\ UNCHANGED <<ssh, pidFile, config, vm>>

-----------------------------------------------------------------------------
(* StartAllTunnels, StopAllTunnels and StartAutoTunnels.                   *)

NextTunnel(c) ==
    LET me == client[c] IN
    /\ At(c, "next")
    /\ \/ \E t \in me.todo :
             Becomes(c, [me EXCEPT !.pc = "check", !.cur = t, !.todo = @ \ {t}])
       \/ me.todo = {} /\ Finish(c)
    /\ UNCHANGED <<ssh, pidFile, config, vm>>

(* Faulty variant: remove stops the tunnel when it does not run.           *)
CheckInverted(c) ==
    LET starting == Op(c) \in Starts IN
    /\ At(c, "check")
    /\ Goto(c, IF IsTunnelRunning(client[c].cur) = (starting \/ Op(c) = "remove")
               THEN Resume(Op(c))
               ELSE IF starting THEN "start" ELSE "stop")
    /\ UNCHANGED <<ssh, pidFile, config, vm>>

(* The caller's look at the tunnel: those that run are not started, those  *)
(* that do not are not stopped.                                            *)
Check(c) ==
    LET starting == Op(c) \in Starts IN
    /\ At(c, "check")
    /\ Goto(c, IF IsTunnelRunning(client[c].cur) = starting
               THEN Resume(Op(c))
               ELSE IF starting THEN "start" ELSE "stop")
    /\ UNCHANGED <<ssh, pidFile, config, vm>>

-----------------------------------------------------------------------------
(* StartTunnel.                                                            *)

(* StartTunnel looks once more itself.                                     *)
StartTunnel(c) ==
    /\ At(c, "start")
    /\ Goto(c, IF IsTunnelRunning(client[c].cur) THEN Resume(Op(c)) ELSE "launch")
    /\ UNCHANGED <<ssh, pidFile, config, vm>>

Launch(c) ==
    LET me == client[c] IN
    /\ At(c, "launch")
    /\ \/ \E p \in FreshProcs :
             /\ ssh' = [ssh EXCEPT ![p] =
                          [tunnel |-> me.cur, parent |-> c, st |-> "running"]]
             /\ Becomes(c, [me EXCEPT !.pc = "write", !.pid = p])
       \/ Goto(c, Resume(me.op)) /\ UNCHANGED ssh
    /\ UNCHANGED <<pidFile, config, vm>>

(* When the pid cannot be written the ssh process stays.                   *)
WritePid(c) ==
    LET me == client[c] IN
    /\ At(c, "write")
    /\ Becomes(c, [me EXCEPT !.pc = Resume(me.op), !.pid = NoProc])
    /\ \/ pidFile' = [pidFile EXCEPT ![me.cur] = me.pid]
       \/ "full" \in Environment /\ UNCHANGED pidFile
    /\ UNCHANGED <<ssh, config, vm>>

-----------------------------------------------------------------------------
(* StopTunnel.                                                             *)

(* Faulty variant: the error of reading the pid file is not looked at.     *)
StopTunnelUnread(c) ==
    LET p == pidFile[client[c].cur] IN
    /\ At(c, "stop")
    /\ ssh' = [q \in Procs |->
                 IF q = p /\ ssh[q].st = "running"
                 THEN [ssh[q] EXCEPT !.st = "ending"] ELSE ssh[q]]
    /\ Becomes(c, [client[c] EXCEPT !.pc = "wait", !.pid = p])
    /\ UNCHANGED <<pidFile, config, vm>>

(* Without a pid file there is nothing to stop; otherwise SIGTERM.         *)
StopTunnel(c) ==
    LET me == client[c]
        p  == pidFile[me.cur]
    IN
    /\ At(c, "stop")
    /\ IF p = NoProc
       THEN Goto(c, Resume(me.op)) /\ UNCHANGED ssh
       ELSE /\ ssh' = [ssh EXCEPT ![p].st = IF @ = "running" THEN "ending" ELSE @]
            /\ Becomes(c, [me EXCEPT !.pc = "wait", !.pid = p])
    /\ UNCHANGED <<pidFile, config, vm>>

(* Faulty variant: after the five seconds the process is left alone.       *)
StopWaitNoKill(c) ==
    LET me == client[c] IN
    /\ At(c, "wait")
    /\ pidFile' = [pidFile EXCEPT ![me.cur] = NoProc]
    /\ Becomes(c, [me EXCEPT !.pc = Resume(me.op), !.pid = NoProc])
    /\ UNCHANGED <<ssh, config, vm>>

(* Faulty variant: there is no deadline.                                   *)
StopWaitForever(c) ==
    LET me == client[c] IN
    /\ At(c, "wait")
    /\ ssh[me.pid].st = "gone"
    /\ pidFile' = [pidFile EXCEPT ![me.cur] = NoProc]
    /\ Becomes(c, [me EXCEPT !.pc = Resume(me.op), !.pid = NoProc])
    /\ UNCHANGED <<ssh, config, vm>>

(* Until signal 0 fails, or five seconds are over and SIGKILL is sent.  A  *)
(* zombie takes signal 0, so it costs the five seconds.                    *)
StopWait(c) ==
    LET me == client[c] IN
    /\ At(c, "wait")
    /\ \/ ssh[me.pid].st = "gone" /\ UNCHANGED ssh
       \/ ssh[me.pid].st # "gone" /\ ssh' = [ssh EXCEPT ![me.pid] = Ended(@)]
    /\ pidFile' = [pidFile EXCEPT ![me.cur] = NoProc]
    /\ Becomes(c, [me EXCEPT !.pc = Resume(me.op), !.pid = NoProc])
    /\ UNCHANGED <<config, vm>>

-----------------------------------------------------------------------------
(* The ends of the commands.                                               *)

(* SaveTunnelConfig replaces the whole list by the one loaded earlier.     *)
(* When it fails, before or while it writes, what was stopped is stopped.  *)
Save(c) ==
    /\ At(c, "save")
    /\ \/ config' = client[c].tc
       \/ UNCHANGED config
       \/ "full" \in Environment /\ config' = {}
    /\ Goto(c, "done")
    /\ UNCHANGED <<ssh, pidFile, vm>>

(* Destroy removes the state directory, tunnels/ with it.                  *)
RemoveDir(c) ==
    /\ At(c, "remove_dir")
    /\ pidFile' = [t \in Tunnels |-> NoProc]
    /\ Goto(c, "done")
    /\ UNCHANGED <<ssh, config, vm>>

Orphaned(s) == IF s.st = "zombie" THEN Gone ELSE [s EXCEPT !.parent = NoClient]

(* A command line's process ends, a goroutine leaves its server behind.    *)
Leave(c) ==
    /\ At(c, "done")
    /\ Becomes(c, Idle)
    /\ ssh' = IF c \in Handlers THEN ssh
              ELSE [p \in Procs |-> IF ssh[p].parent = c THEN Orphaned(ssh[p]) ELSE ssh[p]]
    /\ UNCHANGED <<pidFile, config, vm>>

Client(c) ==
    \/ Inspect(c) \/ Boot(c) \/ PowerOn(c) \/ Shutdown(c) \/ Load(c)
    \/ NextTunnel(c) \/ Check(c)
    \/ StartTunnel(c) \/ Launch(c) \/ WritePid(c)
    \/ StopTunnel(c) \/ StopWait(c)
    \/ Save(c) \/ RemoveDir(c) \/ Leave(c)

-----------------------------------------------------------------------------
(* The environment.                                                        *)

(* ssh ends after SIGTERM, and by itself when the connection is lost or    *)
(* the port cannot be forwarded.                                           *)
SshExit(p) ==
    /\ ssh[p].st = "ending" \/ (ssh[p].st = "running" /\ "exit" \in Environment)
    /\ ssh' = [ssh EXCEPT ![p] = Ended(@)]
    /\ UNCHANGED <<client, pidFile, config, vm>>

VmCrash ==
    /\ "exit" \in Environment /\ vm
    /\ vm' = FALSE
    /\ UNCHANGED <<client, ssh, pidFile, config>>

(* Bound: the web server ends only while no handler runs.                  *)
ServerExit ==
    /\ \A c \in Handlers : At(c, "idle")
    /\ \E p \in Procs : ssh[p].parent \in Handlers
    /\ ssh' = [p \in Procs |->
                 IF ssh[p].parent \in Handlers THEN Orphaned(ssh[p]) ELSE ssh[p]]
    /\ UNCHANGED <<client, pidFile, config, vm>>

(* A process that is killed leaves what it launched behind, and a handler  *)
(* dies with its server.                                                   *)
Kill(c) ==
    LET dead == IF c \in Handlers THEN Handlers ELSE {c} IN
    /\ "kill" \in Environment /\ ~At(c, "idle")
    /\ client' = [d \in Clients |-> IF d \in dead THEN Idle ELSE client[d]]
    /\ ssh' = [p \in Procs |-> IF ssh[p].parent \in dead THEN Orphaned(ssh[p]) ELSE ssh[p]]
    /\ UNCHANGED <<pidFile, config, vm>>

Next ==
    \/ \E c \in Clients : Begin(c) \/ Client(c) \/ Kill(c)
    \/ \E p \in Procs : SshExit(p)
    \/ VmCrash
    \/ ServerExit

Spec == Init /\ [][Next]_vars

(* The start of the machine itself, whose build and downloads may wait for *)
(* ever, see VMLifecycle.                                                  *)
Starting(c) == client[c].pc \in {"boot", "power_on"}

(* A command's process runs, and so does its five-second clock.            *)
FairSpec == Spec /\ \A c \in Clients : WF_vars(Client(c) /\ ~Starting(c))

-----------------------------------------------------------------------------
(* Properties.                                                             *)

(* An ssh process that lives can be found: the pid file of its own tunnel  *)
(* names it, or the command that just launched it is about to write that   *)
(* file.  StartTunnel and StopTunnel, while commands run one at a time and *)
(* are not killed, pid files can be written, and the state directory is    *)
(* not removed.                                                            *)
Tracked ==
    \A p \in Procs : Live(p) =>
        \/ pidFile[ssh[p].tunnel] = p
        \/ \E c \in Clients : At(c, "write") /\ client[c].pid = p

(* No tunnel runs that the configuration does not list: what removeTunnel  *)
(* takes from the list it has stopped before, for nothing would stop it    *)
(* later.                                                                  *)
LiveConfigured == \A p \in Procs : Live(p) => ssh[p].tunnel \in config

(* "StopAllTunnels stops all active tunnels": when the loop of tunnel      *)
(* stop-all, or of the Stop behind stop, destroy and the builder, has come *)
(* to its end, no ssh process lives, not of a disabled tunnel either.      *)
StopAllStops ==
    [][\A c \in Clients :
         (Op(c) \in StopLoops /\ At(c, "next") /\ client'[c].pc # "check" /\ client' # client)
         => \A p \in Procs : ~Live(p)]_vars

(* A start passes over a tunnel only if an ssh process of that tunnel runs *)
(* or has ended as a child of the web server that still runs: the one case *)
(* in which the look at the pid file errs, and a tunnel that is down       *)
(* cannot be started again.                                                *)
SkipsOnlyOwn ==
    [][\A c \in Clients :
         (/\ At(c, "check") \/ At(c, "start")
          /\ Op(c) \in Starts
          /\ client'[c].pc \in {"next", "done"})
         => \E p \in Procs : /\ ssh[p].tunnel = client[c].cur
                             /\ \/ ssh[p].st = "running"
                                \/ ssh[p].st = "zombie" /\ ssh[p].parent \in Handlers]_vars

(* Every command on tunnels returns, unless the machine it starts never    *)
(* comes up, though nobody waits for the ssh processes and a zombie never  *)
(* goes away while the web server runs: each StopTunnel gives up on one    *)
(* after five seconds.                                                     *)
EveryCommandReturns == \A c \in Clients : []<>At(c, "idle") \/ <>[]Starting(c)
=============================================================================
