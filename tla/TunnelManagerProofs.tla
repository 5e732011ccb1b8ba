------------------------ MODULE TunnelManagerProofs ------------------------
(* Proofs about TunnelManager, for every value of its constants.            *)
EXTENDS TunnelManager, TLAPS

-----------------------------------------------------------------------------
(* Typing.                                                                  *)

AtTunnel == {"check", "start", "launch", "write", "stop", "wait"}

(* A command that is about one tunnel has it, and so has a loop where it    *)
(* visits one.  A handler looks at the VM for a start only.                 *)
Placed(c) ==
    /\ At(c, "idle") \/ Op(c) \in Loops \/ client[c].cur \in Tunnels
    /\ client[c].pc \in AtTunnel => client[c].cur \in Tunnels
    /\ At(c, "inspect") /\ c \in Handlers => Op(c) = "start"

Typed == TypeOK /\ \A c \in Clients : Placed(c)

LEMMA IdleTyped ==
    /\ Idle \in ClientState
    /\ Idle.op = "none" /\ Idle.pc = "idle" /\ Idle.cur = NoTunnel
    /\ Idle.todo = {} /\ Idle.tc = {} /\ Idle.pid = NoProc
BY DEF Idle, ClientState, Labels

LEMMA GoneTyped == Gone \in SshState /\ Gone.st = "gone" /\ Gone.parent = NoClient
BY DEF Gone, SshState

(* A client in a new state.                                                 *)
LEMMA BecomesTyped ==
    ASSUME TypeOK, NEW c \in Clients, NEW s \in ClientState, Becomes(c, s),
           s.pid # NoProc <=> s.pc \in {"write", "wait"}
    PROVE  /\ client' \in [Clients -> ClientState]
           /\ client'[c] = s
           /\ \A d \in Clients : d # c => client'[d] = client[d]
           /\ \A d \in Clients : client'[d].pid # NoProc <=> client'[d].pc \in {"write", "wait"}
BY DEF TypeOK, Becomes

(* A client at another label, with no process in hand there nor before.     *)
LEMMA GotoTyped ==
    ASSUME TypeOK, NEW c \in Clients, NEW l \in Labels \ {"write", "wait"}, Goto(c, l),
           client[c].pc \notin {"write", "wait"}
    PROVE  /\ client' \in [Clients -> ClientState]
           /\ client'[c].pc = l /\ client'[c].op = client[c].op
           /\ client'[c].cur = client[c].cur /\ client'[c].todo = client[c].todo
           /\ client'[c].tc = client[c].tc /\ client'[c].pid = client[c].pid
           /\ \A d \in Clients : d # c => client'[d] = client[d]
           /\ \A d \in Clients : client'[d].pid # NoProc <=> client'[d].pc \in {"write", "wait"}
<1> DEFINE s == [client[c] EXCEPT !.pc = l]
<1>1. client[c] \in ClientState /\ client[c].pid = NoProc
  BY DEF TypeOK
<1>2. /\ s \in ClientState /\ s.pc = l /\ s.op = client[c].op /\ s.cur = client[c].cur
      /\ s.todo = client[c].todo /\ s.tc = client[c].tc /\ s.pid = client[c].pid
  BY <1>1 DEF ClientState
<1>3. Becomes(c, s)
  BY DEF Goto
<1>4. QED  BY <1>1, <1>2, <1>3, BecomesTyped

(* A command through with its tunnel goes on, and has let go of its         *)
(* process.                                                                 *)
LEMMA ResumeTyped ==
    ASSUME NEW op
    PROVE  /\ Resume(op) \in {"next", "save", "done"}
           /\ Resume(op) \in Labels \ {"write", "wait"}
           /\ Resume(op) = "next" <=> op \in Loops
           /\ Resume(op) = "save" <=> op = "remove"
BY DEF Resume, Loops, StartLoops, StopLoops, Labels

LEMMA LetGoTyped ==
    ASSUME TypeOK, NEW c \in Clients,
           Becomes(c, [client[c] EXCEPT !.pc = Resume(client[c].op), !.pid = NoProc])
    PROVE  /\ client' \in [Clients -> ClientState]
           /\ client'[c].pc = Resume(client[c].op) /\ client'[c].op = client[c].op
           /\ client'[c].cur = client[c].cur /\ client'[c].todo = client[c].todo
           /\ client'[c].tc = client[c].tc /\ client'[c].pid = NoProc
           /\ \A d \in Clients : d # c => client'[d] = client[d]
           /\ \A d \in Clients : client'[d].pid # NoProc <=> client'[d].pc \in {"write", "wait"}
<1> DEFINE s == [client[c] EXCEPT !.pc = Resume(client[c].op), !.pid = NoProc]
<1>1. client[c] \in ClientState
  BY DEF TypeOK
<1>2. Resume(client[c].op) \in Labels \ {"write", "wait"}
  BY ResumeTyped
<1>3. /\ s \in ClientState /\ s.pc = Resume(client[c].op) /\ s.op = client[c].op
      /\ s.cur = client[c].cur /\ s.todo = client[c].todo /\ s.tc = client[c].tc
      /\ s.pid = NoProc
  BY <1>1, <1>2 DEF ClientState
<1>4. QED  BY <1>2, <1>3, BecomesTyped

(* A client that takes a process in hand.                                   *)
LEMMA TakeTyped ==
    ASSUME TypeOK, NEW c \in Clients, NEW p \in Procs, NEW l \in {"write", "wait"},
           Becomes(c, [client[c] EXCEPT !.pc = l, !.pid = p])
    PROVE  /\ client' \in [Clients -> ClientState]
           /\ client'[c].pc = l /\ client'[c].op = client[c].op
           /\ client'[c].cur = client[c].cur /\ client'[c].todo = client[c].todo
           /\ client'[c].tc = client[c].tc /\ client'[c].pid = p
           /\ \A d \in Clients : d # c => client'[d] = client[d]
           /\ \A d \in Clients : client'[d].pid # NoProc <=> client'[d].pc \in {"write", "wait"}
<1> DEFINE s == [client[c] EXCEPT !.pc = l, !.pid = p]
<1>1. client[c] \in ClientState /\ p # NoProc
  BY IdentifiersAssumption DEF TypeOK
<1>2. /\ s \in ClientState /\ s.pc = l /\ s.op = client[c].op /\ s.cur = client[c].cur
      /\ s.todo = client[c].todo /\ s.tc = client[c].tc /\ s.pid = p
  BY <1>1 DEF ClientState, Labels
<1>3. QED  BY <1>1, <1>2, BecomesTyped

(* What can become of a process without a launch.                           *)
LEMMA EndedTyped ==
    ASSUME NEW s \in SshState
    PROVE  /\ Ended(s) \in SshState /\ Orphaned(s) \in SshState
           /\ Ended(s).st \in {"gone", "zombie"}
           /\ Ended(s).st = "zombie" => Ended(s).tunnel = s.tunnel /\ Ended(s).parent = s.parent
                                         /\ s.parent # NoClient
           /\ Orphaned(s).st # "zombie"
           /\ Orphaned(s).st = IF s.st = "zombie" THEN "gone" ELSE s.st
           /\ Orphaned(s).st # "gone" => Orphaned(s).tunnel = s.tunnel
           /\ Orphaned(s).parent = NoClient
BY GoneTyped DEF Ended, Orphaned, Gone, SshState

-----------------------------------------------------------------------------
(* What the steps of a command do to the clients.                           *)

Keeps(c) ==
    /\ client' \in [Clients -> ClientState]
    /\ \A d \in Clients : d # c => client'[d] = client[d]
    /\ \A d \in Clients : client'[d].pid # NoProc <=> client'[d].pc \in {"write", "wait"}

Goes(c, l) ==
    /\ Keeps(c)
    /\ client'[c].pc = l /\ client'[c].op = client[c].op
    /\ client'[c].cur = client[c].cur /\ client'[c].todo = client[c].todo
    /\ client'[c].tc = client[c].tc

LEMMA GotoGoes ==
    ASSUME Typed, NEW c \in Clients, NEW l \in Labels \ {"write", "wait"}, Goto(c, l),
           client[c].pc \notin {"write", "wait"}
    PROVE  Goes(c, l)
BY GotoTyped DEF Typed, Goes, Keeps

(* What a loop visits is listed, and a loop that stops visits all of it.    *)
LEMMA VisitsFacts ==
    ASSUME NEW op
    PROVE  Visits(op) \subseteq config /\ (op \in StopLoops => Visits(op) = config)
<1>1. CASE op = "vm_start"
  BY <1>1 DEF Visits, StopLoops
<1>2. CASE op = "start_all"
  BY <1>2 DEF Visits, StopLoops
<1>3. CASE op \notin {"vm_start", "start_all"}
  BY <1>3 DEF Visits
<1>4. QED  BY <1>1, <1>2, <1>3

LEMMA FinishGoes ==
    ASSUME Typed, NEW c \in Clients, Finish(c), client[c].pc \notin {"write", "wait"}
    PROVE  /\ Keeps(c)
           /\ client'[c].cur = client[c].cur /\ client'[c].todo = client[c].todo
           /\ \/ /\ Op(c) = "build_stop"
                 /\ client'[c].op = "vm_start" /\ client'[c].pc = "power_on"
              \/ /\ Op(c) = "vm_destroy"
                 /\ client'[c].op = "vm_destroy" /\ client'[c].pc = "remove_dir"
              \/ /\ Op(c) \notin {"build_stop", "vm_destroy"}
                 /\ client'[c].op = Op(c) /\ client'[c].pc = "done"
<1> DEFINE me == client[c]
           o  == IF me.op = "build_stop" THEN "vm_start" ELSE me.op
           l  == CASE me.op = "vm_destroy" -> "remove_dir"
                   [] me.op = "build_stop" -> "power_on"
                   [] OTHER                -> "done"
           s  == [me EXCEPT !.op = o, !.pc = l]
<1>1. me \in ClientState /\ me.pid = NoProc
  BY DEF Typed, TypeOK
<1>2. \/ me.op = "build_stop" /\ o = "vm_start" /\ l = "power_on"
      \/ me.op = "vm_destroy" /\ o = "vm_destroy" /\ l = "remove_dir"
      \/ me.op \notin {"build_stop", "vm_destroy"} /\ o = me.op /\ l = "done"
  <2>1. CASE me.op = "build_stop"
    BY <2>1
  <2>2. CASE me.op = "vm_destroy"
    BY <2>2
  <2>3. CASE me.op \notin {"build_stop", "vm_destroy"}
    BY <2>3
  <2>4. QED  BY <2>1, <2>2, <2>3
<1>3. Becomes(c, s)
  BY DEF Finish
<1> HIDE DEF o, l
<1>4. /\ s \in ClientState /\ s.pc = l /\ s.op = o /\ s.cur = me.cur /\ s.todo = me.todo
      /\ s.pid = NoProc
  BY <1>1, <1>2 DEF ClientState, Labels
<1> HIDE DEF s
<1>5. Keeps(c) /\ client'[c] = s
  BY <1>2, <1>3, <1>4, BecomesTyped DEF Typed, Keeps
<1>6. QED  BY <1>2, <1>4, <1>5 DEF Op

LEMMA BeginGoes ==
    ASSUME Typed, NEW c \in Clients, Begin(c)
    PROVE  /\ Keeps(c) /\ At(c, "idle")
           /\ "overlap" \in Environment \/ \A d \in Clients : At(d, "idle")
           /\ client'[c].pc \in {"boot", "shutdown", "inspect", "load"}
           /\ client'[c].pc = "boot" => client'[c].op = "vm_start"
           /\ client'[c].pc = "shutdown" => client'[c].op \in {"vm_stop", "vm_destroy"}
           /\ client'[c].pc = "inspect" => client'[c].op \in Starts /\ c \notin Handlers
           /\ client'[c].op \in Commands
           /\ client'[c].op \in Loops \/ client'[c].cur \in Tunnels
           /\ client'[c].todo = {}
<1>1. PICK op \in Commands, t \in Tunnels \union {NoTunnel} :
          /\ op \in Loops <=> t = NoTunnel
          /\ op \in CliOnly => c \notin Handlers
          /\ op = "add" => t \in EnabledTunnels
          /\ Becomes(c, [Idle EXCEPT
                 !.op = op, !.cur = t,
                 !.pc = CASE op = "vm_start" -> "boot"
                          [] op \in {"vm_stop", "vm_destroy"} -> "shutdown"
                          [] op \in Starts /\ c \notin Handlers -> "inspect"
                          [] OTHER -> "load"])
  BY DEF Begin
<1> DEFINE l == CASE op = "vm_start" -> "boot"
                  [] op \in {"vm_stop", "vm_destroy"} -> "shutdown"
                  [] op \in Starts /\ c \notin Handlers -> "inspect"
                  [] OTHER -> "load"
           s == [Idle EXCEPT !.op = op, !.cur = t, !.pc = l]
<1>2. /\ l \in {"boot", "shutdown", "inspect", "load"}
      /\ l = "boot" => op = "vm_start"
      /\ l = "shutdown" => op \in {"vm_stop", "vm_destroy"}
      /\ l = "inspect" => op \in Starts /\ c \notin Handlers
  <2>1. CASE op = "vm_start"
    BY <2>1
  <2>2. CASE op \in {"vm_stop", "vm_destroy"}
    BY <2>2 DEF Starts, StartLoops
  <2>3. CASE op \notin {"vm_start", "vm_stop", "vm_destroy"} /\ op \in Starts /\ c \notin Handlers
    BY <2>3
  <2>4. CASE op \notin {"vm_start", "vm_stop", "vm_destroy"} /\ ~(op \in Starts /\ c \notin Handlers)
    BY <2>4
  <2>5. QED  BY <2>1, <2>2, <2>3, <2>4
<1>3. Becomes(c, s)
  BY <1>1
<1> HIDE DEF l
<1>4. /\ s \in ClientState /\ s.pc = l /\ s.op = op /\ s.cur = t /\ s.todo = {}
      /\ s.pid = NoProc
  BY <1>2, IdleTyped DEF ClientState, Labels
<1> HIDE DEF s
<1>5. Keeps(c) /\ client'[c] = s
  BY <1>2, <1>3, <1>4, BecomesTyped DEF Typed, Keeps
<1>6. QED  BY <1>1, <1>2, <1>4, <1>5 DEF Begin

LEMMA InspectGoes ==
    ASSUME Typed, NEW c \in Clients, Inspect(c)
    PROVE  /\ At(c, "inspect")
           /\ \/ Goes(c, "done")
              \/ c \in Handlers /\ Goes(c, "start")
              \/ c \notin Handlers /\ Goes(c, "load")
BY GotoGoes DEF Inspect, At, Labels

LEMMA BootGoes ==
    ASSUME Typed, NEW c \in Clients, Boot(c)
    PROVE  /\ At(c, "boot")
           /\ \/ Goes(c, "done") \/ Goes(c, "power_on")
              \/ /\ Keeps(c)
                 /\ client'[c].pc = "load" /\ client'[c].op = "build_stop"
                 /\ client'[c].cur = client[c].cur /\ client'[c].todo = client[c].todo
<1> DEFINE s == [client[c] EXCEPT !.op = "build_stop", !.pc = "load"]
<1>1. At(c, "boot") /\ client[c] \in ClientState /\ client[c].pid = NoProc
  BY DEF Boot, Typed, TypeOK, At
<1>2. CASE Goto(c, "done") \/ Goto(c, "power_on")
  BY <1>1, <1>2, GotoGoes DEF At, Labels
<1>3. CASE Becomes(c, s)
  <2>1. /\ s \in ClientState /\ s.pc = "load" /\ s.op = "build_stop"
        /\ s.cur = client[c].cur /\ s.todo = client[c].todo /\ s.pid = NoProc
    BY <1>1 DEF ClientState, Labels
  <2>2. QED  BY <1>1, <1>3, <2>1, BecomesTyped DEF Typed, Keeps
<1>4. QED  BY <1>2, <1>3 DEF Boot

LEMMA PowerOnGoes ==
    ASSUME Typed, NEW c \in Clients, PowerOn(c)
    PROVE  At(c, "power_on") /\ (Goes(c, "done") \/ Goes(c, "load"))
BY GotoGoes DEF PowerOn, At, Labels

LEMMA ShutdownGoes ==
    ASSUME Typed, NEW c \in Clients, Shutdown(c)
    PROVE  /\ At(c, "shutdown")
           /\ \/ Goes(c, "done")
              \/ Goes(c, "load")
              \/ Op(c) = "vm_destroy" /\ Goes(c, "remove_dir")
BY GotoGoes DEF Shutdown, At, Labels

LEMMA LoadGoes ==
    ASSUME Typed, NEW c \in Clients, Load(c)
    PROVE  /\ At(c, "load")
           /\ \/ /\ Op(c) \in Loops /\ Keeps(c)
                 /\ client'[c].pc = "next" /\ client'[c].op = Op(c)
                 /\ client'[c].todo = Visits(Op(c))
              \/ /\ Op(c) \in {"add", "remove"} /\ Keeps(c)
                 /\ Op(c) = "remove" => client[c].cur \in config
                 /\ client'[c].pc = IF Op(c) = "add" THEN "save" ELSE "check"
                 /\ client'[c].op = Op(c) /\ client'[c].cur = client[c].cur
                 /\ client'[c].todo = client[c].todo
                 /\ client'[c].tc = Changed(Op(c), client[c].cur)
              \/ Op(c) = "stop" /\ client[c].cur \in config /\ Goes(c, "stop")
              \/ /\ Op(c) = "start" /\ client[c].cur \in config
                 /\ Goes(c, IF c \in Handlers THEN "inspect" ELSE "start")
              \/ Finish(c)
<1> DEFINE me == client[c]
<1>1. At(c, "load") /\ me \in ClientState /\ me.pid = NoProc /\ config \subseteq Tunnels
  BY DEF Load, Typed, TypeOK, At
<1>2. CASE me.op \in Loops /\ Becomes(c, [me EXCEPT !.pc = "next", !.todo = Visits(me.op)])
  <2> DEFINE s == [me EXCEPT !.pc = "next", !.todo = Visits(me.op)]
  <2>1. Visits(me.op) \subseteq Tunnels
    BY <1>1, VisitsFacts
  <2>2. s \in ClientState /\ s.pc = "next" /\ s.op = me.op /\ s.todo = Visits(me.op)
        /\ s.pid = NoProc
    BY <1>1, <2>1 DEF ClientState, Labels
  <2>3. QED  BY <1>1, <1>2, <2>2, BecomesTyped DEF Typed, Keeps, Op
<1>3. CASE /\ me.op \in {"add", "remove"} /\ (me.op = "remove" <=> me.cur \in config)
           /\ Becomes(c, [me EXCEPT !.pc = IF me.op = "add" THEN "save" ELSE "check",
                                    !.tc = Changed(me.op, me.cur)])
  <2> DEFINE l == IF me.op = "add" THEN "save" ELSE "check"
             s == [me EXCEPT !.pc = l, !.tc = Changed(me.op, me.cur)]
  <2>1. Placed(c) /\ me.op \notin Loops
    BY <1>3 DEF Typed, Loops, StartLoops, StopLoops
  <2>2. me.cur \in Tunnels
    BY <1>1, <2>1 DEF Placed, At, Op
  <2>3. Changed(me.op, me.cur) \subseteq Tunnels
    BY <1>1, <2>2 DEF Changed
  <2>4. l \in {"save", "check"}
    OBVIOUS
  <2>5. /\ s \in ClientState /\ s.pc = l /\ s.op = me.op /\ s.cur = me.cur
        /\ s.todo = me.todo /\ s.tc = Changed(me.op, me.cur) /\ s.pid = NoProc
    BY <1>1, <2>3, <2>4 DEF ClientState, Labels
  <2>6. QED  BY <1>1, <1>3, <2>4, <2>5, BecomesTyped DEF Typed, Keeps, Op
<1>4. CASE me.op = "stop" /\ me.cur \in config /\ Goto(c, "stop")
  BY <1>1, <1>4, GotoGoes DEF At, Labels, Op
<1>5. CASE /\ me.op = "start" /\ me.cur \in config
           /\ Goto(c, IF c \in Handlers THEN "inspect" ELSE "start")
  BY <1>1, <1>5, GotoGoes DEF At, Labels, Op
<1>6. QED  BY <1>1, <1>2, <1>3, <1>4, <1>5 DEF Load

LEMMA NextTunnelGoes ==
    ASSUME Typed, NEW c \in Clients, NextTunnel(c)
    PROVE  /\ At(c, "next")
           /\ \/ \E t \in client[c].todo :
                    /\ Keeps(c)
                    /\ client'[c].pc = "check" /\ client'[c].op = Op(c)
                    /\ client'[c].cur = t /\ client'[c].todo = client[c].todo \ {t}
              \/ client[c].todo = {} /\ Finish(c)
<1> DEFINE me == client[c]
<1>1. At(c, "next") /\ me \in ClientState /\ me.pid = NoProc
  BY DEF NextTunnel, Typed, TypeOK, At
<1>2. ASSUME NEW t \in me.todo,
             Becomes(c, [me EXCEPT !.pc = "check", !.cur = t, !.todo = me.todo \ {t}])
      PROVE  /\ Keeps(c)
             /\ client'[c].pc = "check" /\ client'[c].op = me.op
             /\ client'[c].cur = t /\ client'[c].todo = me.todo \ {t}
  <2> DEFINE s == [me EXCEPT !.pc = "check", !.cur = t, !.todo = me.todo \ {t}]
  <2>1. /\ s \in ClientState /\ s.pc = "check" /\ s.op = me.op /\ s.cur = t
        /\ s.todo = me.todo \ {t} /\ s.pid = NoProc
    BY <1>1 DEF ClientState, Labels
  <2>2. QED  BY <1>2, <2>1, BecomesTyped DEF Typed, Keeps
<1>3. QED  BY <1>1, <1>2 DEF NextTunnel, Op

LEMMA CheckGoes ==
    ASSUME Typed, NEW c \in Clients, Check(c)
    PROVE  /\ At(c, "check")
           /\ \/ /\ IsTunnelRunning(client[c].cur) <=> Op(c) \in Starts
                 /\ Goes(c, Resume(Op(c)))
              \/ /\ ~IsTunnelRunning(client[c].cur) /\ Op(c) \in Starts
                 /\ Goes(c, "start")
              \/ /\ IsTunnelRunning(client[c].cur) /\ Op(c) \notin Starts
                 /\ Goes(c, "stop")
<1>1. At(c, "check") /\ client[c].pc \notin {"write", "wait"}
  BY DEF Check, At
<1>2. CASE IsTunnelRunning(client[c].cur) <=> Op(c) \in Starts
  <2>1. Goto(c, Resume(Op(c)))
    BY <1>2 DEF Check, IsTunnelRunning
  <2>2. QED  BY <1>1, <1>2, <2>1, ResumeTyped, GotoGoes
<1>3. CASE ~IsTunnelRunning(client[c].cur) /\ Op(c) \in Starts
  <2>1. Goto(c, "start")
    BY <1>3 DEF Check, IsTunnelRunning
  <2>2. QED  BY <1>1, <1>3, <2>1, GotoGoes DEF Labels
<1>4. CASE IsTunnelRunning(client[c].cur) /\ Op(c) \notin Starts
  <2>1. Goto(c, "stop")
    BY <1>4 DEF Check, IsTunnelRunning
  <2>2. QED  BY <1>1, <1>4, <2>1, GotoGoes DEF Labels
<1>5. QED  BY <1>2, <1>3, <1>4

LEMMA StartTunnelGoes ==
    ASSUME Typed, NEW c \in Clients, StartTunnel(c)
    PROVE  /\ At(c, "start")
           /\ \/ IsTunnelRunning(client[c].cur) /\ Goes(c, Resume(Op(c)))
              \/ ~IsTunnelRunning(client[c].cur) /\ Goes(c, "launch")
BY ResumeTyped, GotoGoes DEF StartTunnel, At, Labels

LEMMA LaunchGoes ==
    ASSUME Typed, NEW c \in Clients, Launch(c)
    PROVE  /\ At(c, "launch")
           /\ \/ /\ Goes(c, "write") /\ client'[c].pid \in FreshProcs
                 /\ ssh' = [ssh EXCEPT ![client'[c].pid] =
                              [tunnel |-> client[c].cur, parent |-> c, st |-> "running"]]
              \/ Goes(c, Resume(Op(c))) /\ UNCHANGED ssh
<1>1. At(c, "launch") /\ client[c].pc \notin {"write", "wait"} /\ FreshProcs \subseteq Procs
  BY DEF Launch, At, FreshProcs
<1>2. ASSUME NEW p \in FreshProcs, Becomes(c, [client[c] EXCEPT !.pc = "write", !.pid = p])
      PROVE  Goes(c, "write") /\ client'[c].pid = p
  BY <1>1, <1>2, TakeTyped DEF Goes, Keeps, Typed
<1>3. CASE Goto(c, Resume(client[c].op)) /\ UNCHANGED ssh
  BY <1>1, <1>3, ResumeTyped, GotoGoes DEF Op
<1>4. QED  BY <1>1, <1>2, <1>3 DEF Launch

LEMMA WritePidGoes ==
    ASSUME Typed, NEW c \in Clients, WritePid(c)
    PROVE  At(c, "write") /\ Goes(c, Resume(Op(c)))
BY LetGoTyped DEF WritePid, Typed, Goes, Keeps, Op

LEMMA StopTunnelGoes ==
    ASSUME Typed, NEW c \in Clients, StopTunnel(c)
    PROVE  /\ At(c, "stop") /\ client[c].cur \in Tunnels
           /\ \/ /\ pidFile[client[c].cur] = NoProc
                 /\ Goes(c, Resume(Op(c))) /\ UNCHANGED ssh
              \/ /\ pidFile[client[c].cur] \in Procs
                 /\ Goes(c, "wait") /\ client'[c].pid = pidFile[client[c].cur]
                 /\ ssh' = [ssh EXCEPT ![client'[c].pid].st =
                              IF ssh[client'[c].pid].st = "running" THEN "ending"
                              ELSE ssh[client'[c].pid].st]
<1> DEFINE p == pidFile[client[c].cur]
<1>1. At(c, "stop") /\ client[c].cur \in Tunnels
  BY DEF StopTunnel, At, Typed, Placed, AtTunnel
<1>2. CASE p = NoProc
  BY <1>1, <1>2, ResumeTyped, GotoGoes DEF StopTunnel, At, Op
<1>3. CASE p # NoProc
  <2>1. p \in Procs
    BY <1>1, <1>3 DEF Typed, TypeOK
  <2>2. /\ Becomes(c, [client[c] EXCEPT !.pc = "wait", !.pid = p])
        /\ ssh' = [ssh EXCEPT ![p].st = IF ssh[p].st = "running" THEN "ending" ELSE ssh[p].st]
    BY <1>3 DEF StopTunnel
  <2>3. Goes(c, "wait") /\ client'[c].pid = p
    BY <2>1, <2>2, TakeTyped DEF Typed, Goes, Keeps
  <2>4. QED  BY <1>1, <2>1, <2>2, <2>3
<1>4. QED  BY <1>2, <1>3

LEMMA StopWaitGoes ==
    ASSUME Typed, NEW c \in Clients, StopWait(c)
    PROVE  At(c, "wait") /\ Goes(c, Resume(Op(c))) /\ client[c].pid \in Procs
<1>1. At(c, "wait") /\ Goes(c, Resume(Op(c)))
  BY LetGoTyped DEF StopWait, Typed, Goes, Keeps, Op
<1>2. QED  BY <1>1 DEF Typed, TypeOK, ClientState, At

LEMMA SaveGoes ==
    ASSUME Typed, NEW c \in Clients, Save(c)
    PROVE  At(c, "save") /\ Goes(c, "done")
BY GotoGoes DEF Save, At, Labels

LEMMA RemoveDirGoes ==
    ASSUME Typed, NEW c \in Clients, RemoveDir(c)
    PROVE  At(c, "remove_dir") /\ Goes(c, "done")
BY GotoGoes DEF RemoveDir, At, Labels

LEMMA LeaveGoes ==
    ASSUME Typed, NEW c \in Clients, Leave(c)
    PROVE  At(c, "done") /\ Keeps(c) /\ client'[c] = Idle
BY IdleTyped, BecomesTyped DEF Leave, Typed, Keeps

-----------------------------------------------------------------------------
(* What they do to the processes: in every step the processes but one are   *)
(* as they were, except when their parent ends.                             *)

LEMMA StopTunnelTyped ==
    ASSUME TypeOK, NEW p \in Procs,
           ssh' = [ssh EXCEPT ![p].st = IF ssh[p].st = "running" THEN "ending" ELSE ssh[p].st]
    PROVE  /\ ssh' \in [Procs -> SshState]
           /\ \A q \in Procs : q # p => ssh'[q] = ssh[q]
           /\ ssh'[p].tunnel = ssh[p].tunnel /\ ssh'[p].parent = ssh[p].parent
           /\ ssh'[p].st = IF ssh[p].st = "running" THEN "ending" ELSE ssh[p].st
<1> DEFINE l == IF ssh[p].st = "running" THEN "ending" ELSE ssh[p].st
           s == [ssh[p] EXCEPT !.st = l]
<1>1. ssh[p] \in SshState
  BY DEF TypeOK
<1>2. l \in {"gone", "running", "ending", "zombie"}
  BY <1>1 DEF SshState
<1> HIDE DEF l
<1>3. s \in SshState /\ s.tunnel = ssh[p].tunnel /\ s.parent = ssh[p].parent /\ s.st = l
  BY <1>1, <1>2 DEF SshState
<1>4. ssh' = [ssh EXCEPT ![p] = s]
  BY DEF l
<1>5. ssh' \in [Procs -> SshState] /\ ssh'[p] = s /\ \A q \in Procs : q # p => ssh'[q] = ssh[q]
  BY <1>3, <1>4 DEF TypeOK
<1>6. QED  BY <1>3, <1>5 DEF l

LEMMA EndTyped ==
    ASSUME TypeOK, NEW p \in Procs, ssh' = [ssh EXCEPT ![p] = Ended(ssh[p])]
    PROVE  /\ ssh' \in [Procs -> SshState]
           /\ \A q \in Procs : q # p => ssh'[q] = ssh[q]
           /\ ssh'[p].st \in {"gone", "zombie"}
           /\ ssh'[p].st = "zombie" =>
                 /\ ssh'[p].tunnel = ssh[p].tunnel /\ ssh'[p].parent = ssh[p].parent
                 /\ ssh'[p].parent # NoClient
BY EndedTyped DEF TypeOK

LEMMA OrphansTyped ==
    ASSUME TypeOK, NEW gone,
           ssh' = [p \in Procs |-> IF ssh[p].parent \in gone THEN Orphaned(ssh[p]) ELSE ssh[p]]
    PROVE  /\ ssh' \in [Procs -> SshState]
           /\ \A p \in Procs :
                 /\ ssh'[p].st = ssh[p].st \/ (ssh'[p].st = "gone" /\ ssh[p].st = "zombie")
                 /\ ssh'[p].st # "gone" => ssh'[p].tunnel = ssh[p].tunnel
                 /\ ssh'[p].parent = ssh[p].parent
                       \/ (ssh'[p].parent = NoClient /\ ssh'[p].st # "zombie")
                 /\ ssh'[p].parent \in gone => ssh'[p].parent = NoClient
<1>1. \A p \in Procs : ssh[p] \in SshState
  BY DEF TypeOK
<1>2. \A p \in Procs : ssh'[p] = IF ssh[p].parent \in gone THEN Orphaned(ssh[p]) ELSE ssh[p]
  OBVIOUS
<1>3. \A p \in Procs : Orphaned(ssh[p]) \in SshState
  BY <1>1, EndedTyped
<1>4. ssh' \in [Procs -> SshState]
  BY <1>1, <1>3
<1>5. QED  BY <1>1, <1>2, <1>4, EndedTyped

LEMMA LeaveOrphans ==
    ASSUME Typed, NEW c \in Clients, Leave(c)
    PROVE  /\ ssh' \in [Procs -> SshState]
           /\ \A p \in Procs :
                 /\ ssh'[p].st = ssh[p].st \/ (ssh'[p].st = "gone" /\ ssh[p].st = "zombie")
                 /\ ssh'[p].st # "gone" => ssh'[p].tunnel = ssh[p].tunnel
                 /\ ssh'[p].parent = ssh[p].parent
                       \/ (ssh'[p].parent = NoClient /\ ssh'[p].st # "zombie")
                 /\ c \notin Handlers => ssh'[p].parent # c
<1>1. CASE c \in Handlers
  BY <1>1 DEF Leave, Typed, TypeOK
<1>2. CASE c \notin Handlers
  <2>1. ssh' = [p \in Procs |-> IF ssh[p].parent \in {c} THEN Orphaned(ssh[p]) ELSE ssh[p]]
    BY <1>2 DEF Leave
  <2>2. c # NoClient
    BY IdentifiersAssumption
  <2>3. QED  BY <2>1, <2>2, OrphansTyped DEF Typed
<1>3. QED  BY <1>1, <1>2

(* A process that is killed leaves its client idle and its children orphans. *)
LEMMA KillLeaves ==
    ASSUME Typed, NEW c \in Clients, Kill(c)
    PROVE  /\ client' \in [Clients -> ClientState]
           /\ \A d \in Clients : client'[d] = client[d] \/ client'[d] = Idle
           /\ ssh' \in [Procs -> SshState]
<1> DEFINE dead == IF c \in Handlers THEN Handlers ELSE {c}
<1>1. ssh' = [p \in Procs |-> IF ssh[p].parent \in dead THEN Orphaned(ssh[p]) ELSE ssh[p]]
  BY DEF Kill
<1>2. client' = [d \in Clients |-> IF d \in dead THEN Idle ELSE client[d]]
  BY DEF Kill
<1> HIDE DEF dead
<1>3. ssh' \in [Procs -> SshState]
  BY <1>1, OrphansTyped DEF Typed
<1>4. QED  BY <1>2, <1>3, IdleTyped DEF Typed, TypeOK

LEMMA ServerExitOrphans ==
    ASSUME Typed, ServerExit
    PROVE  /\ ssh' \in [Procs -> SshState]
           /\ \A p \in Procs :
                 /\ ssh'[p].st = ssh[p].st \/ (ssh'[p].st = "gone" /\ ssh[p].st = "zombie")
                 /\ ssh'[p].st # "gone" => ssh'[p].tunnel = ssh[p].tunnel
                 /\ ssh'[p].parent = ssh[p].parent
                       \/ (ssh'[p].parent = NoClient /\ ssh'[p].st # "zombie")
BY OrphansTyped DEF Typed, ServerExit

-----------------------------------------------------------------------------
(* Each step keeps the types.                                               *)

LEMMA InitTyped == Init => Typed
<1>1. SUFFICES ASSUME Init  PROVE Typed
  OBVIOUS
<1>2. TypeOK
  BY <1>1, IdleTyped, GoneTyped DEF Init, TypeOK
<1>3. \A c \in Clients : Placed(c)
  BY <1>1, IdleTyped DEF Init, Placed, At, AtTunnel
<1>4. QED  BY <1>2, <1>3 DEF Typed

(* A step of c that keeps the other variables typed.                        *)
LEMMA GoesTyped ==
    ASSUME Typed, NEW c \in Clients, Keeps(c), Placed(c)',
           ssh' \in [Procs -> SshState],
           pidFile' \in [Tunnels -> Procs \union {NoProc}],
           config' \in SUBSET Tunnels, vm' \in BOOLEAN
    PROVE  Typed'
BY DEF Typed, TypeOK, Keeps, Placed, At, Op

LEMMA RestTyped ==
    ASSUME Typed
    PROVE  /\ UNCHANGED ssh => ssh' \in [Procs -> SshState]
           /\ UNCHANGED pidFile => pidFile' \in [Tunnels -> Procs \union {NoProc}]
           /\ UNCHANGED config => config' \in SUBSET Tunnels
           /\ UNCHANGED vm => vm' \in BOOLEAN
BY DEF Typed, TypeOK

LEMMA FinishPlaced ==
    ASSUME Typed, NEW c \in Clients, Finish(c), client[c].pc \in {"load", "next"}
    PROVE  Placed(c)' /\ Keeps(c)
<1>1. Placed(c)
  BY DEF Typed
<1>2. QED
  BY <1>1, FinishGoes DEF Placed, At, Op, AtTunnel, Loops, StartLoops, StopLoops

LEMMA FirstStepsTyped ==
    ASSUME Typed, NEW c \in Clients,
           Begin(c) \/ Inspect(c) \/ Boot(c) \/ PowerOn(c) \/ Shutdown(c) \/ Load(c)
    PROVE  Typed'
<1>1. CASE Begin(c)
  <2>1. Placed(c)'
    BY <1>1, BeginGoes DEF Placed, At, Op, AtTunnel
  <2>2. QED  BY <1>1, <2>1, BeginGoes, RestTyped, GoesTyped DEF Begin
<1>2. CASE Inspect(c)
  <2>1. At(c, "inspect") /\ Placed(c) /\ "start" \notin Loops
    BY <1>2, InspectGoes DEF Typed, Loops, StartLoops, StopLoops
  <2>2. Placed(c)'
    BY <1>2, <2>1, InspectGoes DEF Placed, At, Op, AtTunnel, Goes
  <2>3. QED  BY <1>2, <2>2, InspectGoes, RestTyped, GoesTyped DEF Inspect, Goes
<1>3. CASE Boot(c)
  <2>1. At(c, "boot") /\ Placed(c)
    BY <1>3, BootGoes DEF Typed
  <2>2. Placed(c)'
    BY <1>3, <2>1, BootGoes
       DEF Placed, At, Op, AtTunnel, Goes, Loops, StartLoops, StopLoops
  <2>3. Keeps(c) /\ vm' \in BOOLEAN
    BY <1>3, BootGoes, RestTyped DEF Boot, Goes
  <2>4. QED  BY <1>3, <2>2, <2>3, RestTyped, GoesTyped DEF Boot
<1>4. CASE Shutdown(c)
  <2>1. At(c, "shutdown") /\ Placed(c)
    BY <1>4, ShutdownGoes DEF Typed
  <2>2. Placed(c)'
    BY <1>4, <2>1, ShutdownGoes DEF Placed, At, Op, AtTunnel, Goes
  <2>3. Keeps(c) /\ vm' \in BOOLEAN
    BY <1>4, ShutdownGoes, RestTyped DEF Shutdown, Goes
  <2>4. QED  BY <1>4, <2>2, <2>3, RestTyped, GoesTyped DEF Shutdown
<1>5. CASE Load(c)
  <2>1. At(c, "load") /\ Placed(c) /\ config \subseteq Tunnels
    BY <1>5, LoadGoes DEF Typed, TypeOK
  <2>2. CASE ~Finish(c)
    <3>1. Placed(c)' /\ Keeps(c)
      BY <1>5, <2>1, <2>2, LoadGoes
         DEF Placed, At, Op, AtTunnel, Goes, Loops, StartLoops, StopLoops
    <3>2. QED  BY <1>5, <3>1, RestTyped, GoesTyped DEF Load
  <2>3. CASE Finish(c)
    <3>1. Placed(c)' /\ Keeps(c)
      BY <2>1, <2>3, FinishPlaced DEF At
    <3>2. QED  BY <1>5, <3>1, RestTyped, GoesTyped DEF Load
  <2>4. QED  BY <2>2, <2>3
<1>6. CASE PowerOn(c)
  <2>1. At(c, "power_on") /\ Placed(c)
    BY <1>6, PowerOnGoes DEF Typed
  <2>2. Placed(c)'
    BY <1>6, <2>1, PowerOnGoes DEF Placed, At, Op, AtTunnel, Goes
  <2>3. Keeps(c) /\ vm' \in BOOLEAN
    BY <1>6, PowerOnGoes, RestTyped DEF PowerOn, Goes
  <2>4. QED  BY <1>6, <2>2, <2>3, RestTyped, GoesTyped DEF PowerOn
<1>7. QED  BY <1>1, <1>2, <1>3, <1>4, <1>5, <1>6

LEMMA TunnelStepsTyped ==
    ASSUME Typed, NEW c \in Clients,
           NextTunnel(c) \/ Check(c) \/ StartTunnel(c) \/ Launch(c) \/ WritePid(c)
              \/ StopTunnel(c) \/ StopWait(c)
    PROVE  Typed'
<1> USE ResumeTyped DEF Placed, At, Op, AtTunnel, Goes
<1>1. Placed(c) /\ client[c] \in ClientState
  BY DEF Typed, TypeOK
<1>2. CASE NextTunnel(c)
  <2>1. Placed(c)' /\ Keeps(c)
    <3>1. CASE Finish(c)
      BY <1>2, <3>1, NextTunnelGoes, FinishPlaced
    <3>2. CASE ~Finish(c)
      BY <1>1, <1>2, <3>2, NextTunnelGoes DEF ClientState
    <3>3. QED  BY <3>1, <3>2
  <2>2. QED  BY <1>2, <2>1, RestTyped, GoesTyped DEF NextTunnel
<1>3. CASE Check(c)
  <2>1. Placed(c)' /\ Keeps(c)
    BY <1>1, <1>3, CheckGoes
  <2>2. QED  BY <1>3, <2>1, RestTyped, GoesTyped DEF Check
<1>4. CASE StartTunnel(c)
  <2>1. Placed(c)' /\ Keeps(c)
    BY <1>1, <1>4, StartTunnelGoes
  <2>2. QED  BY <1>4, <2>1, RestTyped, GoesTyped DEF StartTunnel
<1>5. CASE Launch(c)
  <2>1. Placed(c)' /\ Keeps(c)
    BY <1>1, <1>5, LaunchGoes
  <2>2. ssh' \in [Procs -> SshState]
    <3>1. client[c].cur \in Tunnels
      BY <1>1, <1>5 DEF Launch
    <3>2. [tunnel |-> client[c].cur, parent |-> c, st |-> "running"] \in SshState
      BY <3>1 DEF SshState
    <3>3. FreshProcs \subseteq Procs
      BY DEF FreshProcs
    <3>4. QED  BY <1>5, <3>2, <3>3, LaunchGoes, RestTyped DEF Typed, TypeOK
  <2>3. QED  BY <1>5, <2>1, <2>2, RestTyped, GoesTyped DEF Launch
<1>6. CASE WritePid(c)
  <2>1. Placed(c)' /\ Keeps(c)
    BY <1>1, <1>6, WritePidGoes
  <2>2. pidFile' \in [Tunnels -> Procs \union {NoProc}]
    BY <1>1, <1>6, RestTyped DEF WritePid, Typed, TypeOK, ClientState
  <2>3. QED  BY <1>6, <2>1, <2>2, RestTyped, GoesTyped DEF WritePid
<1>7. CASE StopTunnel(c)
  <2>1. Placed(c)' /\ Keeps(c)
    BY <1>1, <1>7, StopTunnelGoes
  <2>2. ssh' \in [Procs -> SshState]
    BY <1>7, StopTunnelGoes, StopTunnelTyped, RestTyped DEF Typed
  <2>3. QED  BY <1>7, <2>1, <2>2, RestTyped, GoesTyped DEF StopTunnel
<1>8. CASE StopWait(c)
  <2>1. Placed(c)' /\ Keeps(c) /\ client[c].pid \in Procs
    BY <1>1, <1>8, StopWaitGoes
  <2>2. ssh' \in [Procs -> SshState]
    BY <1>8, <2>1, EndTyped, RestTyped DEF StopWait, Typed
  <2>3. pidFile' \in [Tunnels -> Procs \union {NoProc}]
    BY <1>8 DEF StopWait, Typed, TypeOK
  <2>4. QED  BY <1>8, <2>1, <2>2, <2>3, RestTyped, GoesTyped DEF StopWait
<1>9. QED  BY <1>2, <1>3, <1>4, <1>5, <1>6, <1>7, <1>8

LEMMA LastStepsTyped ==
    ASSUME Typed, NEW c \in Clients, Save(c) \/ RemoveDir(c) \/ Leave(c)
    PROVE  Typed'
<1> USE DEF Placed, At, Op, AtTunnel, Goes
<1>1. Placed(c) /\ client[c] \in ClientState
  BY DEF Typed, TypeOK
<1>2. CASE Save(c)
  <2>1. Placed(c)' /\ Keeps(c)
    BY <1>1, <1>2, SaveGoes
  <2>2. config' \in SUBSET Tunnels
    BY <1>1, <1>2, RestTyped DEF Save, ClientState
  <2>3. QED  BY <1>2, <2>1, <2>2, RestTyped, GoesTyped DEF Save
<1>3. CASE RemoveDir(c)
  <2>1. Placed(c)' /\ Keeps(c)
    BY <1>1, <1>3, RemoveDirGoes
  <2>2. QED  BY <1>3, <2>1, RestTyped, GoesTyped DEF RemoveDir
<1>4. CASE Leave(c)
  <2>1. Placed(c)' /\ Keeps(c)
    BY <1>1, <1>4, LeaveGoes, IdleTyped
  <2>2. QED  BY <1>4, <2>1, LeaveOrphans, RestTyped, GoesTyped DEF Leave
<1>5. QED  BY <1>2, <1>3, <1>4

LEMMA EnvironmentTyped ==
    ASSUME Typed, (\E p \in Procs : SshExit(p)) \/ VmCrash \/ ServerExit
    PROVE  Typed'
<1>1. ASSUME UNCHANGED <<client, pidFile, config>>, ssh' \in [Procs -> SshState],
             vm' \in BOOLEAN
      PROVE  Typed'
  BY <1>1 DEF Typed, TypeOK, Placed, At, Op
<1>2. ASSUME NEW p \in Procs, SshExit(p)  PROVE Typed'
  BY <1>1, <1>2, EndTyped, RestTyped DEF SshExit, Typed
<1>3. CASE VmCrash
  BY <1>1, <1>3, RestTyped DEF VmCrash
<1>4. CASE ServerExit
  BY <1>1, <1>4, ServerExitOrphans, RestTyped DEF ServerExit
<1>5. QED  BY <1>2, <1>3, <1>4

LEMMA NextTyped == Typed /\ [Next]_vars => Typed'
<1>1. SUFFICES ASSUME Typed, [Next]_vars  PROVE Typed'
  OBVIOUS
<1>2. ASSUME NEW c \in Clients, Begin(c) \/ Client(c)  PROVE Typed'
  BY <1>1, <1>2, FirstStepsTyped, TunnelStepsTyped, LastStepsTyped DEF Client
<1>3. CASE UNCHANGED vars
  BY <1>1, <1>3 DEF Typed, TypeOK, Placed, At, Op, vars
<1>4. ASSUME NEW c \in Clients, Kill(c)  PROVE Typed'
  <2>1. UNCHANGED <<pidFile, config, vm>>
    BY <1>4 DEF Kill
  <2>2. QED
    BY <1>1, <1>4, <2>1, KillLeaves, IdleTyped DEF Typed, TypeOK, Placed, At, Op, AtTunnel
<1>5. QED  BY <1>1, <1>2, <1>3, <1>4, EnvironmentTyped DEF Next

(* Every variable keeps its type, with any commands that overlap, are       *)
(* killed or fail and whatever ends; a process is in hand exactly while a   *)
(* command writes its pid or stops it.                                      *)
THEOREM TypeCorrect == Spec => []TypeOK
<1>1. Spec => []Typed
  BY InitTyped, NextTyped, PTL DEF Spec
<1>2. Typed => TypeOK
  BY DEF Typed
<1>3. QED  BY <1>1, <1>2, PTL

-----------------------------------------------------------------------------
(* What holds whatever overlaps or fails, when no command is killed.        *)

NobodyKilled == "kill" \notin Environment

(* A pid file, or the pid about to be written to it, is of the file's own   *)
(* tunnel, or of a process that is gone.                                    *)
Owned ==
    /\ \A t \in Tunnels : pidFile[t] # NoProc =>
          ssh[pidFile[t]].st = "gone" \/ ssh[pidFile[t]].tunnel = t
    /\ \A c \in Clients : At(c, "write") =>
          ssh[client[c].pid].st = "gone" \/ ssh[client[c].pid].tunnel = client[c].cur

(* Who sent SIGTERM to a process waits for it.                              *)
Ends == \A p \in Procs : ssh[p].st = "ending" =>
            \E c \in Clients : At(c, "wait") /\ client[c].pid = p

(* A loop does not come back to a tunnel, and only starts launch.           *)
Once(c) ==
    /\ Op(c) \notin Loops => client[c].todo = {}
    /\ client[c].pc \in AtTunnel => client[c].cur \notin client[c].todo
    /\ client[c].pc \in {"start", "launch", "write"} => Op(c) \in Starts

(* A command line that has children is a start, and is through with their   *)
(* tunnels: it meets no zombie of its own.                                  *)
Child(p, c) ==
    ssh[p].parent = c /\ ssh[p].st # "gone" =>
        /\ Op(c) \in Starts
        /\ client[c].pc \in {"next", "check", "start", "launch", "write", "done"}
        /\ ssh[p].tunnel \notin client[c].todo
        /\ client[c].pc \in {"check", "start", "launch"} => ssh[p].tunnel # client[c].cur

SInv ==
    /\ Typed /\ Owned /\ Ends
    /\ \A c \in Clients : Once(c)
    /\ \A p \in Procs, c \in Clients \ Handlers : Child(p, c)

-----------------------------------------------------------------------------
(* What holds while commands run one at a time.                             *)

OneAtATime == "overlap" \notin Environment

(* Pid files are written, and only a stop removes them.                     *)
FilesKept == "full" \notin Environment /\ "vm_destroy" \notin Commands

Sole == \A c, d \in Clients : At(c, "idle") \/ At(d, "idle") \/ c = d

Down(t) == \A p \in Procs : Live(p) => ssh[p].tunnel # t

(* What a command knows of its tunnel.                                      *)
Known(c) ==
    /\ At(c, "launch") => Down(client[c].cur)
    /\ At(c, "write") => \A p \in Procs :
          Live(p) /\ ssh[p].tunnel = client[c].cur => p = client[c].pid
    /\ At(c, "wait") => pidFile[client[c].cur] = client[c].pid

(* What a command knows of the list.                                        *)
Listed(c) ==
    /\ client[c].pc \in AtTunnel \/ (At(c, "inspect") /\ c \in Handlers) =>
          client[c].cur \in config
    /\ client[c].pc \in AtTunnel \union {"next"} =>
          client[c].todo \subseteq config /\ Op(c) # "add"
    /\ At(c, "next") => Op(c) \in Loops
    /\ Op(c) = "remove" /\ client[c].pc \in AtTunnel =>
          client[c].tc = config \ {client[c].cur}
    /\ At(c, "save") =>
          \/ Op(c) = "add" /\ client[c].tc = config \union {client[c].cur}
          \/ /\ Op(c) = "remove" /\ client[c].tc = config \ {client[c].cur}
             /\ Down(client[c].cur)

(* What a loop that stops tunnels has left.                                 *)
Swept(c) ==
    Op(c) \in StopLoops /\ client[c].pc \in AtTunnel \union {"next"} =>
        \A p \in Procs : Live(p) =>
            \/ ssh[p].tunnel \in client[c].todo
            \/ client[c].pc # "next" /\ ssh[p].tunnel = client[c].cur

(* A command that removes the state directory destroys the VM.              *)
Removing(c) == At(c, "remove_dir") => Op(c) = "vm_destroy"

TInv ==
    /\ SInv /\ Sole /\ Tracked /\ LiveConfigured
    /\ \A c \in Clients : Known(c) /\ Listed(c) /\ Swept(c) /\ Removing(c)

-----------------------------------------------------------------------------
(* Each step keeps what holds whatever overlaps.                            *)

LEMMA InitS == Init => SInv
<1>1. SUFFICES ASSUME Init  PROVE SInv
  OBVIOUS
<1>2. Typed
  BY <1>1, InitTyped
<1>3. Owned /\ Ends
  BY <1>1, GoneTyped, IdleTyped DEF Init, Owned, Ends, At
<1>4. \A c \in Clients : Once(c)
  BY <1>1, IdleTyped DEF Init, Once, Op, AtTunnel
<1>5. \A p \in Procs, c \in Clients \ Handlers : Child(p, c)
  BY <1>1, GoneTyped DEF Init, Child
<1>6. QED  BY <1>2, <1>3, <1>4, <1>5 DEF SInv

(* Processes as they were, or gone, or orphans, or children that ended.     *)
Fade ==
    \A p \in Procs :
        /\ ssh'[p].st = ssh[p].st \/ ssh'[p].st \in {"gone", "zombie"}
        /\ ssh'[p].st # "gone" => ssh[p].st # "gone" /\ ssh'[p].tunnel = ssh[p].tunnel
        /\ ssh'[p].parent = ssh[p].parent \/ ssh'[p].parent = NoClient \/ ssh'[p].st = "gone"

(* A step of one client leaves the others as they were, so it is enough to *)
(* see that the one that moved still has its place.                        *)
LEMMA OthersStay ==
    ASSUME SInv, NEW c \in Clients, Keeps(c),
           \A d \in Clients \ {c} : Once(d), Once(c)'
    PROVE  \A d \in Clients : Once(d)'
BY DEF Keeps, Once, Op

LEMMA OwnedStays ==
    ASSUME SInv, NEW c \in Clients, Keeps(c), UNCHANGED pidFile, Fade,
           ~At(c, "write")'
    PROVE  Owned'
<1>1. \A t \in Tunnels : pidFile[t] # NoProc => pidFile[t] \in Procs
  BY DEF SInv, Typed, TypeOK
<1>2. \A d \in Clients : At(d, "write") => client[d].pid \in Procs
  BY DEF SInv, Typed, TypeOK, ClientState, At
<1>3. \A d \in Clients : At(d, "write")' => At(d, "write") /\ client'[d] = client[d]
  BY DEF Keeps, At
<1>4. QED  BY <1>1, <1>2, <1>3 DEF SInv, Owned, Fade, At

LEMMA EndsStays ==
    ASSUME SInv, NEW c \in Clients, Keeps(c), Fade,
           At(c, "wait") => ssh'[client[c].pid].st # "ending"
    PROVE  Ends'
BY DEF SInv, Ends, Fade, Keeps, At

LEMMA ChildrenStay ==
    ASSUME SInv, NEW c \in Clients, Keeps(c), Fade,
           c \notin Handlers => \A p \in Procs : Child(p, c)'
    PROVE  \A p \in Procs, d \in Clients \ Handlers : Child(p, d)'
<1>1. SUFFICES ASSUME NEW p \in Procs, NEW d \in Clients \ Handlers, d # c
               PROVE  Child(p, d)'
  OBVIOUS
<1>2. client'[d] = client[d] /\ Child(p, d) /\ d # NoClient
  BY <1>1, IdentifiersAssumption DEF Keeps, SInv
<1>3. QED  BY <1>2 DEF Child, Fade, Op

(* A step that moves c and leaves processes and files alone.                *)
LEMMA MoveS ==
    ASSUME SInv, Typed', NEW c \in Clients, Keeps(c), UNCHANGED <<ssh, pidFile>>,
           ~At(c, "wait"), ~At(c, "write")', Once(c)',
           c \notin Handlers => \A p \in Procs : Child(p, c)'
    PROVE  SInv'
<1>1. Fade
  BY DEF Fade
<1>2. QED  BY <1>1, OthersStay, OwnedStays, EndsStays, ChildrenStay DEF SInv

LEMMA FirstStepsS ==
    ASSUME SInv, NEW c \in Clients,
           Begin(c) \/ Inspect(c) \/ Boot(c) \/ PowerOn(c) \/ Shutdown(c) \/ Load(c)
    PROVE  SInv'
<1>1. Typed /\ Typed' /\ Once(c) /\ Placed(c) /\ UNCHANGED <<ssh, pidFile>>
  BY FirstStepsTyped DEF SInv, Typed, Begin, Inspect, Boot, PowerOn, Shutdown, Load
<1>2. client[c].pc \in {"idle", "inspect", "boot", "power_on", "shutdown", "load"}
  BY DEF Begin, Inspect, Boot, PowerOn, Shutdown, Load, At
<1>3. c \notin Handlers => \A p \in Procs : Child(p, c)'
  <2>1. c \notin Handlers => \A p \in Procs : ~(ssh[p].parent = c /\ ssh[p].st # "gone")
    BY <1>2 DEF SInv, Child
  <2>2. QED  BY <1>1, <2>1 DEF Child
<1>4. Keeps(c) /\ ~At(c, "wait") /\ ~At(c, "write")'
  BY <1>1, <1>2, BeginGoes, InspectGoes, BootGoes, PowerOnGoes, ShutdownGoes, LoadGoes,
     FinishGoes DEF At, Goes
<1>5. Once(c)'
  <2> USE DEF Once, Op, At, Goes, AtTunnel
  <2>1. CASE Begin(c)
    BY <1>1, <2>1, BeginGoes
  <2>2. CASE Inspect(c)
    <3>1. Op(c) \in Loops => c \notin Handlers
      BY <1>1, <2>2, InspectGoes DEF Placed, Loops, StartLoops, StopLoops
    <3>2. QED  BY <1>1, <2>2, <3>1, InspectGoes DEF Placed, Starts
  <2>3. CASE Boot(c) \/ PowerOn(c) \/ Shutdown(c)
    BY <1>1, <2>3, BootGoes, PowerOnGoes, ShutdownGoes
       DEF Loops, StartLoops, StopLoops
  <2>4. CASE Load(c)
    <3>1. CASE Finish(c)
      BY <1>1, <1>2, <3>1, FinishGoes DEF Loops, StartLoops, StopLoops
    <3>2. CASE ~Finish(c)
      BY <1>1, <2>4, <3>2, LoadGoes DEF Starts, Loops, StartLoops, StopLoops
    <3>3. QED  BY <3>1, <3>2
  <2>5. QED  BY <2>1, <2>2, <2>3, <2>4
<1>6. QED  BY <1>1, <1>3, <1>4, <1>5, MoveS

LEMMA StartsFacts ==
    ASSUME NEW op \in Starts
    PROVE  op # "remove" /\ op \notin StopLoops /\ op # "vm_destroy" /\ op # "add"
           /\ Resume(op) \in {"next", "done"}
BY DEF Starts, StartLoops, StopLoops, Resume

LEMMA WalkS ==
    ASSUME SInv, NEW c \in Clients,
           NextTunnel(c) \/ Check(c) \/ StartTunnel(c) \/ (Launch(c) /\ UNCHANGED ssh)
    PROVE  SInv'
<1> USE DEF Once, Op, At, Goes, AtTunnel
<1>1. Typed /\ Typed' /\ Once(c) /\ Placed(c) /\ UNCHANGED <<ssh, pidFile>>
  BY TunnelStepsTyped DEF SInv, Typed, NextTunnel, Check, StartTunnel, Launch
<1>2. c \notin Handlers => \A p \in Procs : Child(p, c)
  BY DEF SInv
<1>3. CASE NextTunnel(c)
  <2>1. CASE Finish(c)
    <3> At(c, "next")
      BY <1>3 DEF NextTunnel
    <3>1. /\ Keeps(c) /\ client'[c].todo = client[c].todo
          /\ client'[c].pc \in {"power_on", "remove_dir", "done"}
          /\ client'[c].op = client[c].op \/ client'[c].op = "vm_start"
      BY <1>1, <2>1, FinishGoes
    <3>2. Once(c)'
      <4>1. client'[c].pc \notin AtTunnel
        BY <3>1
      <4>2. client'[c].op \notin Loops => client'[c].todo = {}
        BY <1>1, <3>1 DEF Loops, StartLoops
      <4>3. QED  BY <4>1, <4>2
    <3>3. c \notin Handlers => \A p \in Procs : Child(p, c)'
      <4>1. ssh' = ssh
        BY <1>1
      <4>2. Op(c) \in Starts => client'[c].op = Op(c) /\ client'[c].pc = "done"
        <5>1. Op(c) \in Starts => Op(c) \notin {"build_stop", "vm_destroy"}
          BY DEF Starts, StartLoops
        <5>2. QED  BY <1>1, <2>1, <5>1, FinishGoes
      <4>3. QED  BY <1>2, <3>1, <4>1, <4>2 DEF Child
    <3>4. QED  BY <1>1, <3>1, <3>2, <3>3, MoveS
  <2>2. CASE ~Finish(c)
    <3>1. c \notin Handlers => \A p \in Procs : Child(p, c)'
      BY <1>1, <1>2, <1>3, <2>2, NextTunnelGoes, StartsFacts DEF Child
    <3>2. QED  BY <1>1, <1>3, <2>2, <3>1, NextTunnelGoes, MoveS
  <2>3. QED  BY <2>1, <2>2
<1>4. CASE Check(c)
  <2>1. c \notin Handlers => \A p \in Procs : Child(p, c)'
    BY <1>1, <1>2, <1>4, CheckGoes, StartsFacts DEF Child
  <2>2. Once(c)' /\ Keeps(c) /\ ~At(c, "wait") /\ ~At(c, "write")'
    BY <1>1, <1>4, CheckGoes, ResumeTyped
  <2>3. QED  BY <1>1, <2>1, <2>2, MoveS
<1>5. CASE StartTunnel(c)
  <2>1. c \notin Handlers => \A p \in Procs : Child(p, c)'
    BY <1>1, <1>2, <1>5, StartTunnelGoes, StartsFacts DEF Child
  <2>2. Once(c)' /\ Keeps(c) /\ ~At(c, "wait") /\ ~At(c, "write")'
    BY <1>1, <1>5, StartTunnelGoes, ResumeTyped
  <2>3. QED  BY <1>1, <2>1, <2>2, MoveS
<1>6. CASE Launch(c) /\ UNCHANGED ssh
  <2>1. \/ Goes(c, Resume(Op(c)))
        \/ /\ client'[c].pid \in FreshProcs
           /\ ssh' = [ssh EXCEPT ![client'[c].pid] =
                        [tunnel |-> client[c].cur, parent |-> c, st |-> "running"]]
    BY <1>1, <1>6, LaunchGoes
  <2>2. Goes(c, Resume(Op(c)))
    <3>1. ASSUME NEW p \in FreshProcs,
                 ssh' = [ssh EXCEPT ![p] =
                          [tunnel |-> client[c].cur, parent |-> c, st |-> "running"]]
          PROVE  FALSE
      <4>1. p \in Procs /\ ssh[p].st = "gone"
        BY DEF FreshProcs
      <4>2. ssh'[p].st = "running"
        BY <1>1, <3>1, <4>1 DEF Typed, TypeOK
      <4>3. QED  BY <1>6, <4>1, <4>2
    <3>2. QED  BY <2>1, <3>1
  <2>3. c \notin Handlers => \A p \in Procs : Child(p, c)'
    BY <1>1, <1>2, <1>6, <2>2, LaunchGoes, StartsFacts DEF Child
  <2>4. Once(c)' /\ Keeps(c) /\ ~At(c, "wait") /\ ~At(c, "write")'
    BY <1>1, <1>6, <2>2, LaunchGoes, ResumeTyped
  <2>5. QED  BY <1>1, <1>6, <2>3, <2>4, MoveS
<1>7. QED  BY <1>3, <1>4, <1>5, <1>6

(* The process that is launched is one that no file names.                  *)
LEMMA LaunchedFacts ==
    ASSUME Typed, NEW c \in Clients, Launch(c), ~UNCHANGED ssh
    PROVE  /\ Goes(c, "write") /\ At(c, "launch") /\ UNCHANGED <<pidFile, config>>
           /\ client[c].cur \in Tunnels
           /\ \E p \in Procs :
                 /\ client'[c].pid = p /\ ssh[p].st = "gone"
                 /\ ssh'[p].tunnel = client[c].cur /\ ssh'[p].parent = c
                 /\ ssh'[p].st = "running"
                 /\ \A q \in Procs : q # p => ssh'[q] = ssh[q]
                 /\ \A t \in Tunnels : pidFile[t] # p
                 /\ \A d \in Clients : client[d].pid # p
<1>1. /\ At(c, "launch") /\ Goes(c, "write") /\ client'[c].pid \in FreshProcs
      /\ ssh' = [ssh EXCEPT ![client'[c].pid] =
                   [tunnel |-> client[c].cur, parent |-> c, st |-> "running"]]
  BY LaunchGoes
<1>2. UNCHANGED <<pidFile, config>> /\ client[c].cur \in Tunnels
  BY <1>1 DEF Launch, Typed, Placed, At, AtTunnel
<1>3. QED  BY <1>1, <1>2 DEF FreshProcs, Typed, TypeOK

LEMMA LaunchedS ==
    ASSUME SInv, NEW c \in Clients, Launch(c), ~UNCHANGED ssh
    PROVE  SInv'
<1>1. Typed /\ Typed' /\ Once(c)
  BY TunnelStepsTyped DEF SInv
<1>2. /\ Goes(c, "write") /\ At(c, "launch") /\ UNCHANGED pidFile
      /\ client[c].cur \in Tunnels
  BY <1>1, LaunchedFacts
<1>3. PICK p \in Procs :
          /\ client'[c].pid = p /\ ssh[p].st = "gone"
          /\ ssh'[p].tunnel = client[c].cur /\ ssh'[p].parent = c
          /\ ssh'[p].st = "running"
          /\ \A q \in Procs : q # p => ssh'[q] = ssh[q]
          /\ \A t \in Tunnels : pidFile[t] # p
          /\ \A d \in Clients : client[d].pid # p
  BY <1>1, LaunchedFacts
<1>4. \A d \in Clients : Once(d)'
  <2>1. Once(c)'
    BY <1>1, <1>2 DEF Once, Op, At, Goes, AtTunnel
  <2>2. QED  BY <1>2, <2>1, OthersStay DEF SInv, Goes
<1>5. Owned'
  <2>1. \A t \in Tunnels : pidFile[t] # NoProc => pidFile[t] \in Procs
    BY <1>1 DEF Typed, TypeOK
  <2>2. \A d \in Clients : At(d, "write") => client[d].pid \in Procs
    BY <1>1 DEF Typed, TypeOK, ClientState, At
  <2>3. \A t \in Tunnels : pidFile'[t] # NoProc =>
            ssh'[pidFile'[t]].st = "gone" \/ ssh'[pidFile'[t]].tunnel = t
    BY <1>2, <1>3, <2>1 DEF SInv, Owned
  <2>4. \A d \in Clients : At(d, "write")' =>
            ssh'[client'[d].pid].st = "gone" \/ ssh'[client'[d].pid].tunnel = client'[d].cur
    BY <1>2, <1>3, <2>2 DEF SInv, Owned, Goes, Keeps, At
  <2>5. QED  BY <2>3, <2>4 DEF Owned
<1>6. Ends'
  BY <1>2, <1>3 DEF SInv, Ends, Goes, Keeps, At
<1>7. \A q \in Procs, d \in Clients \ Handlers : Child(q, d)'
  <2>1. SUFFICES ASSUME NEW q \in Procs, NEW d \in Clients \ Handlers  PROVE Child(q, d)'
    OBVIOUS
  <2>2. Child(q, d)
    BY DEF SInv
  <2>3. CASE q = p
    BY <1>1, <1>2, <1>3, <2>3 DEF Child, Once, Goes, At, Op, AtTunnel
  <2>4. CASE q # p /\ d = c
    BY <1>2, <1>3, <2>2, <2>4 DEF Child, Goes, At, Op
  <2>5. CASE q # p /\ d # c
    BY <1>2, <1>3, <2>2, <2>5 DEF Child, Goes, Keeps, At, Op
  <2>6. QED  BY <2>3, <2>4, <2>5
<1>8. QED  BY <1>1, <1>4, <1>5, <1>6, <1>7 DEF SInv

LEMMA WritePidS ==
    ASSUME SInv, NEW c \in Clients, WritePid(c)
    PROVE  SInv'
<1>1. Typed /\ Typed' /\ Once(c) /\ Placed(c) /\ UNCHANGED ssh
  BY TunnelStepsTyped DEF SInv, Typed, WritePid
<1>2. At(c, "write") /\ Goes(c, Resume(Op(c))) /\ Op(c) \in Starts
  BY <1>1, WritePidGoes DEF Once, At
<1>3. client[c].cur \in Tunnels /\ client[c].pid \in Procs
  BY <1>1, <1>2 DEF Placed, At, AtTunnel, Typed, TypeOK, ClientState
<1>4. Fade
  BY <1>1 DEF Fade
<1>5. Owned'
  <2>1. \A t \in Tunnels : pidFile'[t] = pidFile[t]
            \/ (t = client[c].cur /\ pidFile'[t] = client[c].pid)
    BY <1>1, <1>3 DEF WritePid, Typed, TypeOK
  <2>2. \A t \in Tunnels : pidFile'[t] # NoProc =>
            ssh'[pidFile'[t]].st = "gone" \/ ssh'[pidFile'[t]].tunnel = t
    BY <1>1, <1>2, <2>1 DEF SInv, Owned
  <2>3. \A d \in Clients : At(d, "write")' => At(d, "write") /\ client'[d] = client[d]
    BY <1>2, ResumeTyped DEF Goes, Keeps, At
  <2>4. QED  BY <1>1, <2>2, <2>3 DEF SInv, Owned
<1>6. \A p \in Procs, d \in Clients \ Handlers : Child(p, d)'
  <2>1. c \notin Handlers => \A p \in Procs : Child(p, c)
    BY DEF SInv
  <2>2. c \notin Handlers => \A p \in Procs : Child(p, c)'
    BY <1>1, <1>2, <2>1, StartsFacts DEF Child, Goes, At, Op
  <2>3. QED  BY <1>2, <1>4, <2>2, ChildrenStay DEF Goes
<1>7. \A d \in Clients : Once(d)'
  <2>1. Once(c)'
    BY <1>1, <1>2, StartsFacts DEF Once, Op, At, Goes, AtTunnel
  <2>2. QED  BY <1>2, <2>1, OthersStay DEF SInv, Goes
<1>8. Ends'
  BY <1>2, <1>4, EndsStays DEF At, Goes
<1>9. QED  BY <1>1, <1>5, <1>6, <1>7, <1>8 DEF SInv

LEMMA StopTunnelS ==
    ASSUME SInv, NEW c \in Clients, StopTunnel(c)
    PROVE  SInv'
<1>1. Typed /\ Typed' /\ Once(c) /\ UNCHANGED pidFile
  BY TunnelStepsTyped DEF SInv, Typed, StopTunnel
<1>2. At(c, "stop") /\ client[c].cur \in Tunnels
  BY <1>1, StopTunnelGoes
<1>3. c \notin Handlers => \A p \in Procs : ~(ssh[p].parent = c /\ ssh[p].st # "gone")
  BY <1>2 DEF SInv, Child, At
<1>4. CASE Goes(c, Resume(Op(c))) /\ UNCHANGED ssh
  <2>1. Once(c)' /\ Keeps(c) /\ ~At(c, "wait") /\ ~At(c, "write")'
    BY <1>1, <1>2, <1>4, ResumeTyped DEF Once, Op, At, Goes, AtTunnel
  <2>2. c \notin Handlers => \A p \in Procs : Child(p, c)'
    BY <1>3, <1>4 DEF Child
  <2>3. QED  BY <1>1, <1>4, <2>1, <2>2, MoveS
<1>5. ASSUME NEW p \in Procs, Goes(c, "wait"), client'[c].pid = p,
             ssh' = [ssh EXCEPT ![p].st = IF ssh[p].st = "running" THEN "ending" ELSE ssh[p].st]
      PROVE  SInv'
  <2>1. /\ \A q \in Procs : q # p => ssh'[q] = ssh[q]
        /\ ssh'[p].tunnel = ssh[p].tunnel /\ ssh'[p].parent = ssh[p].parent
        /\ ssh'[p].st = IF ssh[p].st = "running" THEN "ending" ELSE ssh[p].st
    BY <1>1, <1>5, StopTunnelTyped DEF Typed
  <2>2. \A q \in Procs : /\ ssh'[q].tunnel = ssh[q].tunnel /\ ssh'[q].parent = ssh[q].parent
                         /\ ssh'[q].st = "gone" <=> ssh[q].st = "gone"
    BY <2>1
  <2>3. Owned'
    <3>1. \A t \in Tunnels : pidFile[t] # NoProc => pidFile[t] \in Procs
      BY <1>1 DEF Typed, TypeOK
    <3>2. \A d \in Clients : At(d, "write") => client[d].pid \in Procs
      BY <1>1 DEF Typed, TypeOK, ClientState, At
    <3>3. \A d \in Clients : At(d, "write")' => At(d, "write") /\ client'[d] = client[d]
      BY <1>5 DEF Goes, Keeps, At
    <3>4. QED  BY <1>1, <2>2, <3>1, <3>2, <3>3 DEF SInv, Owned
  <2>4. Ends'
    <3>1. SUFFICES ASSUME NEW q \in Procs, ssh'[q].st = "ending"
                   PROVE  \E d \in Clients : At(d, "wait")' /\ client'[d].pid = q
      BY DEF Ends
    <3>2. CASE q = p
      BY <1>5, <3>2 DEF Goes, At
    <3>3. CASE q # p
      <4>1. PICK d \in Clients : At(d, "wait") /\ client[d].pid = q
        BY <2>1, <3>1, <3>3 DEF SInv, Ends
      <4>2. d # c
        BY <1>2, <4>1 DEF At
      <4>3. QED  BY <1>5, <4>1, <4>2 DEF Goes, Keeps, At
    <3>4. QED  BY <3>2, <3>3
  <2>5. \A q \in Procs, d \in Clients \ Handlers : Child(q, d)'
    <3>1. SUFFICES ASSUME NEW q \in Procs, NEW d \in Clients \ Handlers  PROVE Child(q, d)'
      OBVIOUS
    <3>2. CASE d = c
      BY <1>3, <2>2, <3>2 DEF Child
    <3>3. CASE d # c
      <4>1. Child(q, d) /\ client'[d] = client[d]
        BY <1>5, <3>3 DEF SInv, Goes, Keeps
      <4>2. QED  BY <2>2, <4>1 DEF Child, Op
    <3>4. QED  BY <3>2, <3>3
  <2>6. \A d \in Clients : Once(d)'
    <3>1. Once(c)'
      BY <1>1, <1>2, <1>5 DEF Once, Op, At, Goes, AtTunnel
    <3>2. QED  BY <1>5, <3>1, OthersStay DEF SInv, Goes
  <2>7. QED  BY <1>1, <2>3, <2>4, <2>5, <2>6 DEF SInv
<1>6. QED  BY <1>1, <1>4, <1>5, StopTunnelGoes

(* Files only go, c moves, processes fade.                                  *)
LEMMA FadeS ==
    ASSUME SInv, Typed', NEW c \in Clients, Keeps(c), Fade,
           \A t \in Tunnels : pidFile'[t] \in {pidFile[t], NoProc},
           At(c, "wait") => ssh'[client[c].pid].st # "ending",
           ~At(c, "write")', Once(c)',
           c \notin Handlers => \A p \in Procs : Child(p, c)'
    PROVE  SInv'
<1>1. Owned'
  <2>1. \A t \in Tunnels : pidFile[t] # NoProc => pidFile[t] \in Procs
    BY DEF SInv, Typed, TypeOK
  <2>2. \A d \in Clients : At(d, "write") => client[d].pid \in Procs
    BY DEF SInv, Typed, TypeOK, ClientState, At
  <2>3. \A d \in Clients : At(d, "write")' => At(d, "write") /\ client'[d] = client[d]
    BY DEF Keeps, At
  <2>4. QED  BY <2>1, <2>2, <2>3 DEF SInv, Owned, Fade, At
<1>2. QED  BY <1>1, OthersStay, EndsStays, ChildrenStay DEF SInv

LEMMA StopWaitS ==
    ASSUME SInv, NEW c \in Clients, StopWait(c)
    PROVE  SInv'
<1>1. Typed /\ Typed' /\ Once(c) /\ Placed(c)
  BY TunnelStepsTyped DEF SInv, Typed
<1>2. At(c, "wait") /\ Goes(c, Resume(Op(c))) /\ client[c].pid \in Procs
  BY <1>1, StopWaitGoes
<1>3. Fade /\ ssh'[client[c].pid].st # "ending"
  <2>1. CASE ssh[client[c].pid].st = "gone" /\ UNCHANGED ssh
    BY <2>1 DEF Fade
  <2>2. CASE /\ ssh[client[c].pid].st # "gone"
             /\ ssh' = [ssh EXCEPT ![client[c].pid] = Ended(ssh[client[c].pid])]
    BY <1>1, <1>2, <2>2, EndTyped DEF Typed, Fade
  <2>3. QED  BY <2>1, <2>2 DEF StopWait
<1>4. \A t \in Tunnels : pidFile'[t] \in {pidFile[t], NoProc}
  BY <1>1 DEF StopWait, Typed, TypeOK
<1>5. c \notin Handlers => \A p \in Procs : Child(p, c)'
  <2>1. c \notin Handlers => \A p \in Procs : ~(ssh[p].parent = c /\ ssh[p].st # "gone")
    BY <1>2 DEF SInv, Child, At
  <2>2. c # NoClient
    BY IdentifiersAssumption
  <2>3. QED  BY <1>3, <2>1, <2>2 DEF Child, Fade
<1>6. Once(c)' /\ ~At(c, "write")' /\ Keeps(c)
  BY <1>1, <1>2, ResumeTyped DEF Once, Op, At, Goes, AtTunnel
<1>7. QED  BY <1>1, <1>3, <1>4, <1>5, <1>6, FadeS

LEMMA LastStepsS ==
    ASSUME SInv, NEW c \in Clients, Save(c) \/ RemoveDir(c) \/ Leave(c)
    PROVE  SInv'
<1>1. Typed /\ Typed' /\ Once(c)
  BY LastStepsTyped DEF SInv
<1>2. CASE Save(c) \/ RemoveDir(c)
  <2>1. client[c].pc \in {"save", "remove_dir"} /\ Goes(c, "done") /\ UNCHANGED ssh
    BY <1>1, <1>2, SaveGoes, RemoveDirGoes DEF At, Save, RemoveDir
  <2>2. c \notin Handlers => \A p \in Procs : ~(ssh[p].parent = c /\ ssh[p].st # "gone")
    BY <2>1 DEF SInv, Child
  <2>3. c \notin Handlers => \A p \in Procs : Child(p, c)'
    BY <2>1, <2>2 DEF Child
  <2>4. \A t \in Tunnels : pidFile'[t] \in {pidFile[t], NoProc}
    BY <1>2 DEF Save, RemoveDir
  <2>5. Fade
    BY <2>1 DEF Fade
  <2>6. Once(c)' /\ ~At(c, "write")' /\ ~At(c, "wait") /\ Keeps(c)
    BY <1>1, <2>1 DEF Once, Op, At, Goes, AtTunnel
  <2>7. QED  BY <1>1, <2>3, <2>4, <2>5, <2>6, FadeS
<1>3. CASE Leave(c)
  <2>1. At(c, "done") /\ Keeps(c) /\ client'[c] = Idle /\ UNCHANGED pidFile
    BY <1>1, <1>3, LeaveGoes DEF Leave
  <2>2. Fade /\ (c \notin Handlers => \A p \in Procs : ssh'[p].parent # c)
    BY <1>1, <1>3, LeaveOrphans DEF Fade
  <2>3. Once(c)' /\ ~At(c, "write")' /\ ~At(c, "wait")
    BY <2>1, IdleTyped DEF Once, Op, At, AtTunnel
  <2>4. c \notin Handlers => \A p \in Procs : Child(p, c)'
    BY <2>2 DEF Child
  <2>5. QED  BY <1>1, <2>1, <2>2, <2>3, <2>4, FadeS
<1>4. QED  BY <1>2, <1>3

(* Nobody moves, processes fade.                                            *)
LEMMA AroundS ==
    ASSUME SInv, Typed', UNCHANGED <<client, pidFile>>, Fade
    PROVE  SInv'
<1>1. Owned'
  <2>1. \A t \in Tunnels : pidFile[t] # NoProc => pidFile[t] \in Procs
    BY DEF SInv, Typed, TypeOK
  <2>2. \A d \in Clients : At(d, "write") => client[d].pid \in Procs
    BY DEF SInv, Typed, TypeOK, ClientState, At
  <2>3. QED  BY <2>1, <2>2 DEF SInv, Owned, Fade, At
<1>2. Ends'
  BY DEF SInv, Ends, Fade, At
<1>3. \A d \in Clients : Once(d)'
  BY DEF SInv, Once, Op
<1>4. \A p \in Procs, d \in Clients \ Handlers : Child(p, d)'
  BY IdentifiersAssumption DEF SInv, Child, Fade, Op
<1>5. QED  BY <1>1, <1>2, <1>3, <1>4 DEF SInv

LEMMA EnvironmentFades ==
    ASSUME Typed, (\E p \in Procs : SshExit(p)) \/ VmCrash \/ ServerExit
    PROVE  Fade /\ UNCHANGED <<client, pidFile, config>>
<1>1. ASSUME NEW p \in Procs, SshExit(p)
      PROVE  Fade /\ UNCHANGED <<client, pidFile, config>>
  BY <1>1, EndTyped DEF SshExit, Typed, Fade
<1>2. CASE VmCrash
  BY <1>2 DEF VmCrash, Fade
<1>3. CASE ServerExit
  BY <1>3, ServerExitOrphans DEF ServerExit, Fade
<1>4. QED  BY <1>1, <1>2, <1>3

LEMMA NextS ==
    ASSUME NobodyKilled
    PROVE  SInv /\ [Next]_vars => SInv'
<1>1. SUFFICES ASSUME SInv, [Next]_vars  PROVE SInv'
  OBVIOUS
<1>2. Typed /\ Typed'
  BY <1>1, NextTyped DEF SInv
<1>3. ASSUME NEW c \in Clients, Begin(c) \/ Client(c)  PROVE SInv'
  BY <1>1, <1>3, FirstStepsS, WalkS, LaunchedS, WritePidS, StopTunnelS, StopWaitS, LastStepsS
     DEF Client
<1>4. CASE (\E p \in Procs : SshExit(p)) \/ VmCrash \/ ServerExit
  BY <1>1, <1>2, <1>4, EnvironmentFades, AroundS
<1>5. CASE UNCHANGED vars
  <2>1. Fade /\ UNCHANGED <<client, pidFile>>
    BY <1>5 DEF Fade, vars
  <2>2. QED  BY <1>1, <1>2, <2>1, AroundS
<1>6. QED  BY <1>1, <1>3, <1>4, <1>5 DEF Next, Kill, NobodyKilled

-----------------------------------------------------------------------------
(* A zombie is some client's.                                               *)

Parented == \A p \in Procs : ssh[p].st = "zombie" => ssh[p].parent # NoClient

LEMMA InitParented == Init => Parented
BY GoneTyped DEF Init, Parented

LEMMA NextParented ==
    ASSUME NobodyKilled
    PROVE  Typed /\ Parented /\ [Next]_vars => Parented'
<1>1. SUFFICES ASSUME Typed, Parented, [Next]_vars  PROVE Parented'
  OBVIOUS
<1>2. CASE UNCHANGED ssh
  BY <1>1, <1>2 DEF Parented
<1>3. ASSUME NEW c \in Clients, Client(c), ~UNCHANGED ssh  PROVE Parented'
  <2>1. Launch(c) \/ StopTunnel(c) \/ StopWait(c) \/ Leave(c)
    BY <1>3 DEF Client, Inspect, Boot, PowerOn, Shutdown, Load, NextTunnel, Check,
                StartTunnel, WritePid, Save, RemoveDir
  <2>2. CASE Launch(c)
    BY <1>1, <1>3, <2>2, LaunchedFacts DEF Parented
  <2>3. CASE StopTunnel(c)
    <3>1. PICK p \in Procs : ssh' = [ssh EXCEPT ![p].st =
              IF ssh[p].st = "running" THEN "ending" ELSE ssh[p].st]
      BY <1>1, <1>3, <2>3, StopTunnelGoes
    <3>2. /\ \A q \in Procs : q # p => ssh'[q] = ssh[q]
          /\ ssh'[p].parent = ssh[p].parent
          /\ ssh'[p].st = IF ssh[p].st = "running" THEN "ending" ELSE ssh[p].st
      BY <1>1, <3>1, StopTunnelTyped DEF Typed
    <3>3. QED  BY <1>1, <3>2 DEF Parented
  <2>4. CASE StopWait(c)
    <3>1. client[c].pid \in Procs /\ TypeOK
      BY <1>1, <2>4, StopWaitGoes DEF Typed
    <3>2. ssh' = [ssh EXCEPT ![client[c].pid] = Ended(ssh[client[c].pid])]
      BY <1>3, <2>4 DEF StopWait
    <3>3. QED  BY <1>1, <3>1, <3>2, EndTyped DEF Parented
  <2>5. CASE Leave(c)
    BY <1>1, <2>5, LeaveOrphans DEF Parented
  <2>6. QED  BY <2>1, <2>2, <2>3, <2>4, <2>5
<1>4. ASSUME NEW p \in Procs, SshExit(p)  PROVE Parented'
  BY <1>1, <1>4, EndTyped DEF SshExit, Typed, Parented
<1>5. CASE ServerExit
  BY <1>1, <1>5, ServerExitOrphans DEF Parented
<1>6. QED  BY <1>1, <1>2, <1>3, <1>4, <1>5 DEF Next, Begin, VmCrash, Kill,
                                          NobodyKilled, vars

-----------------------------------------------------------------------------
(* One command at a time.                                                   *)

LEMMA ClientKeeps ==
    ASSUME Typed, NEW c \in Clients, Client(c)
    PROVE  Keeps(c) /\ ~At(c, "idle")
<1>1. CASE Inspect(c) \/ Boot(c) \/ PowerOn(c) \/ Shutdown(c)
  BY <1>1, InspectGoes, BootGoes, PowerOnGoes, ShutdownGoes DEF Goes, At
<1>2. CASE Load(c)
  BY <1>2, LoadGoes, FinishGoes DEF Goes, At
<1>3. CASE NextTunnel(c)
  BY <1>3, NextTunnelGoes, FinishGoes DEF Goes, At
<1>4. CASE Check(c) \/ StartTunnel(c) \/ Launch(c)
  BY <1>4, CheckGoes, StartTunnelGoes, LaunchGoes DEF Goes, At
<1>5. CASE WritePid(c) \/ StopTunnel(c) \/ StopWait(c)
  BY <1>5, WritePidGoes, StopTunnelGoes, StopWaitGoes DEF Goes, At
<1>6. CASE Save(c) \/ RemoveDir(c) \/ Leave(c)
  BY <1>6, SaveGoes, RemoveDirGoes, LeaveGoes DEF Goes, At
<1>7. QED  BY <1>1, <1>2, <1>3, <1>4, <1>5, <1>6 DEF Client

(* Who moves in a step.                                                     *)
LEMMA Mover ==
    ASSUME NobodyKilled, Typed, [Next]_vars, NEW c \in Clients, client'[c] # client[c]
    PROVE  Begin(c) \/ Client(c)
<1>1. PICK d \in Clients : Begin(d) \/ Client(d)
  BY EnvironmentFades DEF Next, Kill, NobodyKilled, vars
<1>2. Keeps(d)
  BY <1>1, BeginGoes, ClientKeeps
<1>3. QED  BY <1>1, <1>2 DEF Keeps

LEMMA InitSole == Init => Sole
BY IdleTyped DEF Init, Sole, At

LEMMA NextSole ==
    ASSUME OneAtATime, NobodyKilled
    PROVE  Typed /\ Sole /\ [Next]_vars => Sole'
<1>1. SUFFICES ASSUME Typed, Sole, [Next]_vars  PROVE Sole'
  OBVIOUS
<1>2. ASSUME NEW c \in Clients, Begin(c)  PROVE Sole'
  BY <1>1, <1>2, BeginGoes DEF OneAtATime, Sole, Keeps, At
<1>3. ASSUME NEW c \in Clients, Client(c)  PROVE Sole'
  BY <1>1, <1>3, ClientKeeps DEF Sole, Keeps, At
<1>4. CASE (\E p \in Procs : SshExit(p)) \/ VmCrash \/ ServerExit
  BY <1>1, <1>4, EnvironmentFades DEF Sole, At
<1>5. CASE UNCHANGED vars
  BY <1>1, <1>5 DEF Sole, At, vars
<1>6. QED  BY <1>1, <1>2, <1>3, <1>4, <1>5 DEF Next, Kill, NobodyKilled

-----------------------------------------------------------------------------
(* Which tunnels a start passes over.                                       *)

LEMMA SkipRunning ==
    ASSUME NobodyKilled, SInv, [Next]_vars,
           NEW c \in Clients, At(c, "check") \/ At(c, "start"),
           Op(c) \in Starts, client'[c].pc \in {"next", "done"}
    PROVE  client[c].cur \in Tunnels /\ IsTunnelRunning(client[c].cur)
<1>1. Typed /\ Placed(c)
  BY DEF SInv, Typed
<1>2. client'[c] # client[c]
  BY DEF At
<1>3. Begin(c) \/ Client(c)
  BY <1>1, <1>2, Mover
<1>4. Check(c) \/ StartTunnel(c)
  BY <1>3 DEF Begin, Client, Inspect, Boot, PowerOn, Shutdown, Load, NextTunnel, Launch,
              WritePid, StopTunnel, StopWait, Save, RemoveDir, Leave, At
<1>5. IsTunnelRunning(client[c].cur)
  BY <1>1, <1>4, CheckGoes, StartTunnelGoes DEF Goes
<1>6. QED  BY <1>1, <1>5 DEF Placed, At, AtTunnel

LEMMA SkipStep ==
    ASSUME NobodyKilled, SInv, Parented, Sole, [Next]_vars,
           NEW c \in Clients, At(c, "check") \/ At(c, "start"),
           Op(c) \in Starts, client'[c].pc \in {"next", "done"}
    PROVE  \E p \in Procs : /\ ssh[p].tunnel = client[c].cur
                            /\ \/ ssh[p].st = "running"
                               \/ ssh[p].st = "zombie" /\ ssh[p].parent \in Handlers
<1> DEFINE p == pidFile[client[c].cur]
<1>1. Typed /\ client[c].cur \in Tunnels /\ p # NoProc /\ ssh[p].st # "gone"
  BY SkipRunning DEF SInv, IsTunnelRunning
<1>2. p \in Procs /\ ssh[p] \in SshState /\ ssh[p].tunnel = client[c].cur
  BY <1>1 DEF SInv, Owned, Typed, TypeOK
<1>3. ssh[p].st # "ending"
  BY <1>2 DEF SInv, Ends, Sole, At
<1>4. ASSUME ssh[p].st = "zombie"  PROVE ssh[p].parent \in Handlers
  <2>1. SUFFICES ASSUME ssh[p].parent \notin Handlers  PROVE FALSE
    OBVIOUS
  <2>2. ssh[p].parent \in Clients \ Handlers
    BY <1>2, <1>4, <2>1 DEF Parented, SshState
  <2>3. Child(p, ssh[p].parent)
    BY <1>2, <2>2 DEF SInv
  <2>4. ssh[p].parent = c
    BY <1>4, <2>2, <2>3 DEF Child, Sole, At
  <2>5. QED  BY <1>2, <1>4, <2>3, <2>4 DEF Child, At
<1>5. QED  BY <1>1, <1>2, <1>3, <1>4 DEF SshState

(* While commands run one at a time and none is killed, a start passes over *)
(* a tunnel only when an ssh process of that tunnel runs, or is a zombie of *)
(* the web server: also when pid files could not be written or were removed *)
(* with the state directory.                                                *)
THEOREM SkipsAreOwn ==
    ASSUME OneAtATime, NobodyKilled
    PROVE  Spec => SkipsOnlyOwn
<1>1. Init => SInv /\ Parented /\ Sole
  BY InitS, InitParented, InitSole
<1>2. SInv /\ Parented /\ Sole /\ [Next]_vars => (SInv /\ Parented /\ Sole)'
  BY NextS, NextParented, NextSole DEF SInv
<1>3. SInv /\ Parented /\ Sole /\ [Next]_vars =>
        [\A c \in Clients :
           (/\ At(c, "check") \/ At(c, "start")
            /\ Op(c) \in Starts
            /\ client'[c].pc \in {"next", "done"})
           => \E p \in Procs : /\ ssh[p].tunnel = client[c].cur
                               /\ \/ ssh[p].st = "running"
                                  \/ ssh[p].st = "zombie" /\ ssh[p].parent \in Handlers]_vars
  BY SkipStep
<1>4. QED  BY <1>1, <1>2, <1>3, PTL DEF Spec, SkipsOnlyOwn

-----------------------------------------------------------------------------
(* While commands run one at a time: what a step of the only one keeps.     *)

NoMore == \A p \in Procs : Live(p)' => Live(p) /\ ssh'[p].tunnel = ssh[p].tunnel

LEMMA FadeIsNoMore ==
    ASSUME Fade  PROVE NoMore
BY DEF Fade, NoMore, Live

LEMMA IdleKnows ==
    ASSUME NEW c \in Clients, At(c, "idle")
    PROVE  Known(c) /\ Listed(c) /\ Swept(c) /\ Removing(c)
BY DEF At, Known, Listed, Swept, Removing, AtTunnel

LEMMA IdleKnowsNext ==
    ASSUME NEW c \in Clients, At(c, "idle")'
    PROVE  Known(c)' /\ Listed(c)' /\ Swept(c)' /\ Removing(c)'
BY DEF At, Known, Listed, Swept, Removing, AtTunnel

LEMMA InitT == Init => TInv
<1>1. SUFFICES ASSUME Init  PROVE TInv
  OBVIOUS
<1>2. SInv /\ Sole
  BY <1>1, InitS, InitSole
<1>3. Tracked /\ LiveConfigured
  BY <1>1, GoneTyped DEF Init, Tracked, LiveConfigured, Live
<1>4. \A c \in Clients : At(c, "idle")
  BY <1>1, IdleTyped DEF Init, At
<1>5. QED  BY <1>2, <1>3, <1>4, IdleKnows DEF TInv

(* Only c moves: what the others know is of no matter.                      *)
LEMMA OnlyMover ==
    ASSUME TInv, SInv', Sole', NEW c \in Clients, Keeps(c), ~At(c, "idle") \/ ~At(c, "idle")',
           Tracked', LiveConfigured',
           Known(c)', Listed(c)', Swept(c)', Removing(c)'
    PROVE  TInv'
<1>1. \A d \in Clients : d # c => At(d, "idle")'
  BY DEF TInv, Sole, Keeps, At
<1>2. QED  BY <1>1, IdleKnowsNext DEF TInv

LEMMA TrackedStays ==
    ASSUME TInv, NEW c \in Clients, Keeps(c), ~At(c, "write"), NoMore, UNCHANGED pidFile
    PROVE  Tracked'
BY DEF TInv, Tracked, NoMore, Keeps, At, Live

LEMMA ConfiguredStays ==
    ASSUME TInv, NoMore, UNCHANGED config
    PROVE  LiveConfigured'
BY DEF TInv, LiveConfigured, NoMore

(* Who looks at the pid file of a tunnel knows whether it is down.          *)
LEMMA NotRunningIsDown ==
    ASSUME TInv, NEW c \in Clients, client[c].pc \notin {"idle", "write"},
           NEW t \in Tunnels, ~IsTunnelRunning(t)
    PROVE  Down(t)
<1>1. SUFFICES ASSUME NEW p \in Procs, Live(p), ssh[p].tunnel = t  PROVE FALSE
  BY DEF Down
<1>2. \A d \in Clients : ~At(d, "write")
  BY DEF TInv, Sole, At
<1>3. pidFile[t] = p
  BY <1>1, <1>2 DEF TInv, Tracked
<1>4. QED  BY <1>1, <1>3, IdentifiersAssumption DEF IsTunnelRunning, Live

LEMMA FirstStepsT ==
    ASSUME TInv, SInv', Sole', NEW c \in Clients,
           Begin(c) \/ Inspect(c) \/ Boot(c) \/ PowerOn(c) \/ Shutdown(c) \/ Load(c)
    PROVE  TInv'
<1> USE DEF At, Op, Goes
<1>1. /\ Typed /\ Once(c) /\ Placed(c) /\ Listed(c) /\ LiveConfigured
      /\ UNCHANGED <<ssh, pidFile, config>>
  BY DEF TInv, SInv, Typed, Begin, Inspect, Boot, PowerOn, Shutdown, Load
<1>2. /\ Keeps(c)
      /\ client[c].pc \in {"idle", "inspect", "boot", "power_on", "shutdown", "load"}
      /\ client'[c].pc \in {"boot", "power_on", "shutdown", "inspect", "load", "start", "done",
                            "remove_dir", "next", "save", "check", "stop"}
  BY <1>1, BeginGoes, InspectGoes, BootGoes, PowerOnGoes, ShutdownGoes, LoadGoes, FinishGoes
<1>3. Tracked' /\ LiveConfigured'
  BY <1>1, <1>2, TrackedStays, ConfiguredStays DEF NoMore, Live
<1>4. Known(c)'
  BY <1>2 DEF Known
<1>5. Listed(c)' /\ Swept(c)' /\ Removing(c)'
  <2> USE DEF Listed, Swept, Removing, AtTunnel
  <2>1. CASE Begin(c)
    BY <1>1, <2>1, BeginGoes
  <2>2. CASE Inspect(c)
    <3>1. CASE client'[c].pc = "start"
      BY <1>1, <2>2, <3>1, InspectGoes DEF Placed, Once, Loops, StartLoops, StopLoops
    <3>2. CASE client'[c].pc # "start"
      BY <1>1, <2>2, <3>2, InspectGoes
    <3>3. QED  BY <3>1, <3>2
  <2>3. CASE Boot(c) \/ PowerOn(c) \/ Shutdown(c)
    BY <1>1, <2>3, BootGoes, PowerOnGoes, ShutdownGoes
  <2>4. CASE Load(c) /\ ~Finish(c)
    <3>1. CASE Op(c) \in Loops
      <4>1. /\ client'[c].pc \in {"next", "done"} /\ client'[c].op = Op(c)
            /\ client'[c].pc = "next" => client'[c].todo = Visits(Op(c))
        BY <1>1, <2>4, <3>1, LoadGoes DEF Loops, StartLoops, StopLoops
      <4>2. Visits(Op(c)) \subseteq config /\ (Op(c) \in StopLoops => Visits(Op(c)) = config)
        BY VisitsFacts
      <4>3. "add" \notin Loops
        BY DEF Loops, StartLoops, StopLoops
      <4>4. Swept(c)'
        BY <1>1, <4>1, <4>2 DEF LiveConfigured, Live
      <4>5. QED  BY <1>1, <3>1, <4>1, <4>2, <4>3, <4>4
    <3>2. CASE Op(c) \notin Loops
      <4>1. client[c].todo = {} /\ Op(c) \notin StopLoops
        BY <1>1, <3>2 DEF Once, Loops
      <4>2. QED  BY <1>1, <2>4, <3>2, <4>1, LoadGoes DEF Changed
    <3>3. QED  BY <3>1, <3>2
  <2>5. CASE Load(c) /\ Finish(c)
    BY <1>1, <1>2, <2>5, FinishGoes
  <2>6. QED  BY <2>1, <2>2, <2>3, <2>4, <2>5
<1>6. QED  BY <1>2, <1>3, <1>4, <1>5, OnlyMover

(* The steps that only look.                                                *)
LEMMA WalkT ==
    ASSUME TInv, SInv', Sole', NEW c \in Clients,
           NextTunnel(c) \/ Check(c) \/ StartTunnel(c) \/ (Launch(c) /\ UNCHANGED ssh)
    PROVE  TInv'
<1> USE DEF At, Op, Goes
<1>1. /\ Typed /\ Once(c) /\ Placed(c) /\ Listed(c) /\ Swept(c)
      /\ UNCHANGED <<ssh, pidFile, config>>
  BY DEF TInv, SInv, Typed, NextTunnel, Check, StartTunnel, Launch
<1>2. NoMore /\ client[c].pc \in {"next", "check", "start", "launch"}
  BY <1>1 DEF NoMore, Live, NextTunnel, Check, StartTunnel, Launch
<1>3. ASSUME Keeps(c), Known(c)', Listed(c)', Swept(c)', Removing(c)'  PROVE TInv'
  BY <1>1, <1>2, <1>3, TrackedStays, ConfiguredStays, OnlyMover
<1>4. \A t \in Tunnels : Down(t)' <=> Down(t)
  BY <1>1 DEF Down, Live
<1> USE DEF Known, Listed, Swept, Removing, AtTunnel
<1>5. CASE NextTunnel(c)
  <2>1. CASE Finish(c)
    BY <1>1, <1>2, <1>3, <2>1, FinishGoes
  <2>2. ASSUME NEW t \in client[c].todo, Keeps(c), client'[c].pc = "check",
               client'[c].op = Op(c), client'[c].cur = t,
               client'[c].todo = client[c].todo \ {t}
        PROVE  TInv'
    <3>1. Op(c) \in Loops /\ "remove" \notin Loops
      BY <1>1, <1>5, NextTunnelGoes DEF Loops, StartLoops, StopLoops
    <3>2. Listed(c)' /\ Known(c)' /\ Removing(c)'
      BY <1>1, <1>5, <2>2, <3>1, NextTunnelGoes
    <3>3. Swept(c)'
      BY <1>1, <1>5, <2>2, NextTunnelGoes DEF Live
    <3>4. QED  BY <1>3, <2>2, <3>2, <3>3
  <2>3. QED  BY <1>1, <1>5, <2>1, <2>2, NextTunnelGoes
<1>6. CASE Check(c)
  <2>1. At(c, "check") /\ client[c].cur \in Tunnels
    BY <1>1, <1>6, CheckGoes DEF Placed
  <2>2. CASE /\ IsTunnelRunning(client[c].cur) <=> Op(c) \in Starts
             /\ Goes(c, Resume(Op(c)))
    <3>1. CASE Op(c) \in Starts
      BY <1>1, <1>3, <2>1, <2>2, <3>1, StartsFacts, ResumeTyped
    <3>2. CASE Op(c) \notin Starts
      <4>1. Down(client[c].cur)
        BY <2>1, <2>2, <3>2, NotRunningIsDown
      <4>2. Known(c)' /\ Removing(c)'
        BY <2>2, ResumeTyped
      <4>3. Listed(c)'
        BY <1>1, <1>4, <2>1, <2>2, <4>1, ResumeTyped
      <4>4. Swept(c)'
        BY <1>1, <2>1, <2>2, <4>1, ResumeTyped DEF Down, Live
      <4>5. QED  BY <1>3, <2>2, <4>2, <4>3, <4>4
    <3>3. QED  BY <3>1, <3>2
  <2>3. CASE Op(c) \in Starts /\ Goes(c, "start")
    BY <1>1, <1>3, <2>1, <2>3, StartsFacts
  <2>4. CASE Op(c) \notin Starts /\ Goes(c, "stop")
    <3>1. Known(c)' /\ Removing(c)' /\ Listed(c)'
      BY <1>1, <2>1, <2>4
    <3>2. Swept(c)'
      BY <1>1, <2>1, <2>4 DEF Live
    <3>3. QED  BY <1>3, <2>4, <3>1, <3>2
  <2>5. QED  BY <1>1, <1>6, <2>2, <2>3, <2>4, CheckGoes
<1>7. CASE StartTunnel(c)
  <2>1. At(c, "start") /\ client[c].cur \in Tunnels /\ Op(c) \in Starts
    BY <1>1, <1>7, StartTunnelGoes DEF Placed, Once
  <2>2. CASE Goes(c, Resume(Op(c)))
    BY <1>1, <1>3, <2>1, <2>2, StartsFacts, ResumeTyped
  <2>3. CASE ~IsTunnelRunning(client[c].cur) /\ Goes(c, "launch")
    <3>1. Down(client[c].cur)
      BY <2>1, <2>3, NotRunningIsDown
    <3>2. QED  BY <1>1, <1>3, <1>4, <2>1, <2>3, <3>1, StartsFacts
  <2>4. QED  BY <1>1, <1>7, <2>2, <2>3, StartTunnelGoes
<1>8. CASE Launch(c) /\ UNCHANGED ssh
  <2>1. At(c, "launch") /\ client[c].cur \in Tunnels /\ Op(c) \in Starts
    BY <1>1, <1>8, LaunchGoes DEF Placed, Once
  <2>2. Goes(c, Resume(Op(c)))
    <3>1. ASSUME NEW p \in FreshProcs,
                 ssh' = [ssh EXCEPT ![p] =
                          [tunnel |-> client[c].cur, parent |-> c, st |-> "running"]]
          PROVE  FALSE
      <4>1. p \in Procs /\ ssh[p].st = "gone"
        BY DEF FreshProcs
      <4>2. ssh'[p].st = "running"
        BY <1>1, <3>1, <4>1 DEF Typed, TypeOK
      <4>3. QED  BY <1>8, <4>1, <4>2
    <3>2. QED  BY <1>1, <1>8, <3>1, LaunchGoes
  <2>3. QED  BY <1>1, <1>3, <2>1, <2>2, StartsFacts, ResumeTyped
<1>9. QED  BY <1>5, <1>6, <1>7, <1>8

LEMMA LaunchedT ==
    ASSUME TInv, SInv', Sole', NEW c \in Clients, Launch(c), ~UNCHANGED ssh
    PROVE  TInv'
<1> USE DEF At, Op, Goes
<1>1. Typed /\ Once(c) /\ Placed(c) /\ Listed(c) /\ Known(c)
  BY DEF TInv, SInv, Typed
<1>2. PICK p \in Procs :
          /\ client'[c].pid = p /\ ssh[p].st = "gone"
          /\ ssh'[p].tunnel = client[c].cur /\ ssh'[p].parent = c
          /\ ssh'[p].st = "running"
          /\ \A q \in Procs : q # p => ssh'[q] = ssh[q]
          /\ \A t \in Tunnels : pidFile[t] # p
          /\ \A d \in Clients : client[d].pid # p
  BY <1>1, LaunchedFacts
<1>3. /\ Goes(c, "write") /\ At(c, "launch") /\ UNCHANGED <<pidFile, config>>
      /\ Op(c) \in Starts
  BY <1>1, LaunchedFacts DEF Once
<1>4. \A q \in Procs : Live(q)' => q = p \/ (Live(q) /\ ssh'[q].tunnel = ssh[q].tunnel)
  BY <1>2 DEF Live
<1>5. Tracked'
  BY <1>2, <1>3, <1>4 DEF TInv, Tracked, Keeps
<1>6. LiveConfigured'
  BY <1>1, <1>2, <1>3, <1>4 DEF TInv, LiveConfigured, Listed, AtTunnel
<1>7. Known(c)'
  BY <1>1, <1>2, <1>3, <1>4 DEF Known, Down
<1>8. Listed(c)' /\ Swept(c)' /\ Removing(c)'
  BY <1>1, <1>3, StartsFacts DEF Listed, Swept, Removing, AtTunnel
<1>9. QED  BY <1>3, <1>5, <1>6, <1>7, <1>8, OnlyMover

LEMMA WritePidT ==
    ASSUME FilesKept, TInv, SInv', Sole', NEW c \in Clients, WritePid(c)
    PROVE  TInv'
<1> USE DEF At, Op, Goes
<1>1. Typed /\ Once(c) /\ Placed(c) /\ Listed(c) /\ Known(c) /\ UNCHANGED <<ssh, config>>
  BY DEF TInv, SInv, Typed, WritePid
<1>2. At(c, "write") /\ Goes(c, Resume(Op(c))) /\ Op(c) \in Starts /\ client[c].cur \in Tunnels
  BY <1>1, WritePidGoes DEF Once, Placed, AtTunnel
<1>3. \A t \in Tunnels : pidFile'[t] = IF t = client[c].cur THEN client[c].pid ELSE pidFile[t]
  BY <1>1 DEF WritePid, FilesKept, Typed, TypeOK
<1>4. Tracked'
  <2>1. SUFFICES ASSUME NEW p \in Procs, Live(p)  PROVE pidFile'[ssh[p].tunnel] = p
    BY <1>1 DEF Tracked, Live
  <2>2. ssh[p].tunnel \in Tunnels
    BY <1>1, <2>1 DEF TInv, LiveConfigured, Typed, TypeOK
  <2>3. CASE pidFile[ssh[p].tunnel] = p
    BY <1>1, <1>2, <1>3, <2>1, <2>2, <2>3 DEF Known
  <2>4. ASSUME NEW d \in Clients, At(d, "write"), client[d].pid = p
        PROVE  pidFile'[ssh[p].tunnel] = p
    <3>1. d = c
      BY <1>2, <2>4 DEF TInv, Sole
    <3>2. ssh[p].tunnel = client[c].cur
      BY <1>2, <2>1, <2>4, <3>1 DEF TInv, SInv, Owned, Live
    <3>3. QED  BY <1>3, <2>2, <2>4, <3>1, <3>2
  <2>5. QED  BY <2>1, <2>3, <2>4 DEF TInv, Tracked
<1>5. LiveConfigured'
  BY <1>1, ConfiguredStays DEF NoMore, Live
<1>6. Known(c)' /\ Listed(c)' /\ Swept(c)' /\ Removing(c)'
  BY <1>1, <1>2, StartsFacts, ResumeTyped DEF Known, Listed, Swept, Removing, AtTunnel
<1>7. QED  BY <1>2, <1>4, <1>5, <1>6, OnlyMover

LEMMA StopTunnelT ==
    ASSUME TInv, SInv', Sole', NEW c \in Clients, StopTunnel(c)
    PROVE  TInv'
<1> USE DEF At, Op, Goes
<1>1. /\ Typed /\ Once(c) /\ Placed(c) /\ Listed(c) /\ Swept(c)
      /\ UNCHANGED <<pidFile, config>>
  BY DEF TInv, SInv, Typed, StopTunnel
<1>2. At(c, "stop") /\ client[c].cur \in Tunnels
  BY <1>1, StopTunnelGoes
<1>3. NoMore
  <2>1. CASE UNCHANGED ssh
    BY <2>1 DEF NoMore, Live
  <2>2. ASSUME NEW p \in Procs,
               ssh' = [ssh EXCEPT ![p].st = IF ssh[p].st = "running" THEN "ending" ELSE ssh[p].st]
        PROVE  NoMore
    BY <1>1, <2>2, StopTunnelTyped DEF Typed, NoMore, Live
  <2>3. QED  BY <1>1, <2>1, <2>2, StopTunnelGoes
<1>4. Keeps(c)
  BY <1>1, StopTunnelGoes
<1>5. Tracked' /\ LiveConfigured'
  BY <1>1, <1>2, <1>3, <1>4, TrackedStays, ConfiguredStays
<1>6. CASE pidFile[client[c].cur] = NoProc /\ Goes(c, Resume(Op(c)))
  <2>1. Down(client[c].cur)
    BY <1>2, <1>6, NotRunningIsDown DEF IsTunnelRunning
  <2>2. Down(client[c].cur)'
    BY <1>3, <1>6, <2>1 DEF Down, NoMore
  <2>3. Known(c)' /\ Removing(c)'
    BY <1>6, ResumeTyped DEF Known, Removing
  <2>4. Listed(c)'
    BY <1>1, <1>2, <1>6, <2>2, ResumeTyped DEF Listed, AtTunnel
  <2>5. Swept(c)'
    BY <1>1, <1>2, <1>3, <1>6, <2>1, ResumeTyped DEF Swept, Down, NoMore, AtTunnel
  <2>6. QED  BY <1>2, <1>4, <1>5, <2>3, <2>4, <2>5, OnlyMover
<1>7. CASE Goes(c, "wait") /\ client'[c].pid = pidFile[client[c].cur]
  <2>1. Known(c)' /\ Removing(c)'
    BY <1>1, <1>7 DEF Known, Removing
  <2>2. Listed(c)'
    BY <1>1, <1>2, <1>7 DEF Listed, AtTunnel
  <2>3. Swept(c)'
    BY <1>1, <1>2, <1>3, <1>7 DEF Swept, NoMore, AtTunnel
  <2>4. QED  BY <1>2, <1>4, <1>5, <2>1, <2>2, <2>3, OnlyMover
<1>8. QED  BY <1>1, <1>6, <1>7, StopTunnelGoes

LEMMA StopWaitT ==
    ASSUME TInv, SInv', Sole', NEW c \in Clients, StopWait(c)
    PROVE  TInv'
<1> USE DEF At, Op, Goes
<1>1. /\ Typed /\ Once(c) /\ Placed(c) /\ Listed(c) /\ Swept(c) /\ Known(c)
      /\ UNCHANGED config
  BY DEF TInv, SInv, Typed, StopWait
<1>2. /\ At(c, "wait") /\ Goes(c, Resume(Op(c))) /\ client[c].pid \in Procs
      /\ client[c].cur \in Tunnels /\ pidFile[client[c].cur] = client[c].pid
  BY <1>1, StopWaitGoes DEF Placed, AtTunnel, Known
<1>3. /\ ssh'[client[c].pid].st \notin {"running", "ending"}
      /\ \A p \in Procs : p # client[c].pid => ssh'[p] = ssh[p]
  <2>1. CASE ssh[client[c].pid].st = "gone" /\ UNCHANGED ssh
    BY <2>1 DEF Live
  <2>2. CASE ssh' = [ssh EXCEPT ![client[c].pid] = Ended(ssh[client[c].pid])]
    BY <1>1, <1>2, <2>2, EndTyped DEF Typed, Live
  <2>3. QED  BY <2>1, <2>2 DEF StopWait
<1>4. NoMore
  BY <1>3 DEF NoMore, Live
<1>5. \A p \in Procs : Live(p)' =>
          /\ Live(p) /\ ssh'[p].tunnel = ssh[p].tunnel /\ ssh[p].tunnel \in Tunnels
          /\ ssh[p].tunnel # client[c].cur /\ pidFile[ssh[p].tunnel] = p
  <2>1. SUFFICES ASSUME NEW p \in Procs, Live(p)'
                 PROVE  /\ Live(p) /\ ssh'[p].tunnel = ssh[p].tunnel /\ ssh[p].tunnel \in Tunnels
                        /\ ssh[p].tunnel # client[c].cur /\ pidFile[ssh[p].tunnel] = p
    OBVIOUS
  <2>2. Live(p) /\ ssh'[p].tunnel = ssh[p].tunnel /\ p # client[c].pid
    <3>1. p # client[c].pid
      BY <1>3, <2>1 DEF Live
    <3>2. QED  BY <1>4, <2>1, <3>1 DEF NoMore
  <2>3. ssh[p].tunnel \in Tunnels
    BY <1>1, <2>2 DEF TInv, LiveConfigured, Typed, TypeOK
  <2>4. \A d \in Clients : ~At(d, "write")
    BY <1>2 DEF TInv, Sole
  <2>5. pidFile[ssh[p].tunnel] = p
    BY <2>2, <2>4 DEF TInv, Tracked
  <2>6. QED  BY <1>2, <2>2, <2>3, <2>5
<1>6. \A t \in Tunnels : t # client[c].cur => pidFile'[t] = pidFile[t]
  BY <1>1 DEF StopWait, Typed, TypeOK
<1>7. Tracked'
  BY <1>5, <1>6 DEF Tracked
<1>8. LiveConfigured'
  BY <1>1, <1>4, ConfiguredStays
<1>9. Known(c)' /\ Removing(c)'
  BY <1>2, ResumeTyped DEF Known, Removing
<1>10. Listed(c)'
  BY <1>1, <1>2, <1>5, ResumeTyped DEF Listed, AtTunnel, Down
<1>11. Swept(c)'
  BY <1>1, <1>2, <1>5, ResumeTyped DEF Swept, AtTunnel
<1>12. QED  BY <1>2, <1>7, <1>8, <1>9, <1>10, <1>11, OnlyMover

LEMMA LastStepsT ==
    ASSUME FilesKept, TInv, SInv', Sole', NEW c \in Clients, Save(c) \/ RemoveDir(c) \/ Leave(c)
    PROVE  TInv'
<1> USE DEF At, Op, Goes
<1>1. Typed /\ Listed(c) /\ Removing(c)
  BY DEF TInv, SInv
<1>2. CASE Save(c)
  <2>1. At(c, "save") /\ Goes(c, "done") /\ UNCHANGED <<ssh, pidFile>>
    BY <1>1, <1>2, SaveGoes DEF Save
  <2>2. NoMore
    BY <2>1 DEF NoMore, Live
  <2>3. Tracked'
    BY <2>1, <2>2, TrackedStays
  <2>4. LiveConfigured'
    <3>1. CASE UNCHANGED config
      BY <2>2, <3>1, ConfiguredStays
    <3>2. CASE config' = client[c].tc
      BY <1>1, <2>1, <2>2, <3>2 DEF TInv, LiveConfigured, NoMore, Listed, Down
    <3>3. QED  BY <1>2, <3>1, <3>2 DEF Save, FilesKept
  <2>5. Known(c)' /\ Listed(c)' /\ Swept(c)' /\ Removing(c)'
    BY <2>1 DEF Known, Listed, Swept, Removing, AtTunnel
  <2>6. QED  BY <2>1, <2>3, <2>4, <2>5, OnlyMover
<1>3. CASE RemoveDir(c)
  <2>1. Op(c) = "vm_destroy"
    BY <1>1, <1>3, RemoveDirGoes DEF Removing
  <2>2. Op(c) \in Commands \union {"none", "vm_start", "build_stop"}
    BY <1>1 DEF Typed, TypeOK, ClientState
  <2>3. QED  BY <2>1, <2>2 DEF FilesKept
<1>4. CASE Leave(c)
  <2>1. At(c, "done") /\ Keeps(c) /\ client'[c] = Idle /\ UNCHANGED <<pidFile, config>>
    BY <1>1, <1>4, LeaveGoes DEF Leave
  <2>2. Fade
    BY <1>1, <1>4, LeaveOrphans DEF Fade
  <2>3. Tracked' /\ LiveConfigured'
    BY <2>1, <2>2, FadeIsNoMore, TrackedStays, ConfiguredStays
  <2>4. QED  BY <2>1, <2>3, IdleTyped, IdleKnowsNext, OnlyMover
<1>5. QED  BY <1>2, <1>3, <1>4

LEMMA AroundT ==
    ASSUME TInv, SInv', Sole', UNCHANGED <<client, pidFile, config>>, NoMore
    PROVE  TInv'
<1>1. Tracked' /\ LiveConfigured'
  BY ConfiguredStays DEF TInv, Tracked, NoMore, At, Live
<1>2. ASSUME NEW c \in Clients  PROVE Known(c)' /\ Listed(c)' /\ Swept(c)' /\ Removing(c)'
  <2>1. Known(c) /\ Listed(c) /\ Swept(c) /\ Removing(c)
    BY DEF TInv
  <2>2. \A t : Down(t) => Down(t)'
    BY DEF NoMore, Down
  <2>3. Known(c)'
    BY <2>1, <2>2 DEF Known, At, NoMore
  <2>4. Listed(c)'
    BY <2>1, <2>2 DEF Listed, At, Op
  <2>5. Swept(c)' /\ Removing(c)'
    BY <2>1 DEF Swept, Removing, NoMore, At, Op
  <2>6. QED  BY <2>3, <2>4, <2>5
<1>3. QED  BY <1>1, <1>2 DEF TInv

LEMMA NextT ==
    ASSUME OneAtATime, NobodyKilled, FilesKept
    PROVE  TInv /\ [Next]_vars => TInv'
<1>1. SUFFICES ASSUME TInv, [Next]_vars  PROVE TInv'
  OBVIOUS
<1>2. Typed /\ SInv' /\ Sole'
  BY <1>1, NextS, NextSole DEF TInv, SInv
<1>3. ASSUME NEW c \in Clients, Begin(c) \/ Client(c)  PROVE TInv'
  BY <1>1, <1>2, <1>3, FirstStepsT, WalkT, LaunchedT, WritePidT, StopTunnelT, StopWaitT,
     LastStepsT DEF Client
<1>4. CASE (\E p \in Procs : SshExit(p)) \/ VmCrash \/ ServerExit
  BY <1>1, <1>2, <1>4, EnvironmentFades, FadeIsNoMore, AroundT
<1>5. CASE UNCHANGED vars
  <2>1. NoMore /\ UNCHANGED <<client, pidFile, config>>
    BY <1>5 DEF NoMore, Live, vars
  <2>2. QED  BY <1>1, <1>2, <2>1, AroundT
<1>6. QED  BY <1>1, <1>3, <1>4, <1>5 DEF Next, Kill, NobodyKilled

(* While commands run one at a time and none is killed, pid files can be    *)
(* written and no destroy removes them, no ssh process that lives is lost:  *)
(* its tunnel's pid file names it, or is about to.                          *)
THEOREM NoneIsLost ==
    ASSUME OneAtATime, NobodyKilled, FilesKept
    PROVE  Spec => []Tracked
<1>1. TInv => Tracked
  BY DEF TInv
<1>2. QED  BY <1>1, InitT, NextT, PTL DEF Spec

(* Under the same assumptions a tunnel that runs is in the list: what is    *)
(* removed from it has been stopped.                                        *)
THEOREM RemovedAreStopped ==
    ASSUME OneAtATime, NobodyKilled, FilesKept
    PROVE  Spec => []LiveConfigured
<1>1. TInv => LiveConfigured
  BY DEF TInv
<1>2. QED  BY <1>1, InitT, NextT, PTL DEF Spec

LEMMA SweepStep ==
    ASSUME OneAtATime, NobodyKilled, TInv, [Next]_vars,
           NEW c \in Clients, Op(c) \in StopLoops, At(c, "next"),
           client'[c].pc # "check", client' # client
    PROVE  \A p \in Procs : ~Live(p)
<1>1. Typed /\ Swept(c)
  BY DEF TInv, SInv
<1>2. PICK d \in Clients : Begin(d) \/ Client(d)
  BY <1>1, EnvironmentFades DEF Next, Kill, NobodyKilled, vars
<1>3. Client(c)
  <2>1. CASE Begin(d)
    BY <1>1, <2>1, BeginGoes DEF OneAtATime, At
  <2>2. CASE Client(d)
    BY <1>1, <2>2, ClientKeeps DEF TInv, Sole, At
  <2>3. QED  BY <1>2, <2>1, <2>2
<1>4. NextTunnel(c)
  BY <1>3 DEF Client, Inspect, Boot, PowerOn, Shutdown, Load, Check, StartTunnel, Launch,
              WritePid, StopTunnel, StopWait, Save, RemoveDir, Leave, At
<1>5. client[c].todo = {}
  BY <1>1, <1>4, NextTunnelGoes
<1>6. QED  BY <1>1, <1>5 DEF Swept, AtTunnel, At

(* Under the same assumptions, when the loop of tunnel stop-all, or of the  *)
(* Stop behind stop and the builder, is at its end, no ssh process lives.   *)
THEOREM LoopsStopAll ==
    ASSUME OneAtATime, NobodyKilled, FilesKept
    PROVE  Spec => StopAllStops
<1>1. TInv /\ [Next]_vars =>
        [\A c \in Clients :
           (Op(c) \in StopLoops /\ At(c, "next") /\ client'[c].pc # "check" /\ client' # client)
           => \A p \in Procs : ~Live(p)]_vars
  BY SweepStep
<1>2. QED  BY <1>1, InitT, NextT, PTL DEF Spec, StopAllStops
=============================================================================
