--------------------------- MODULE SyncCopyProofs ---------------------------
(* Proofs about SyncCopy, for every value of its constants.                 *)
EXTENDS SyncCopy, TLAPS

-----------------------------------------------------------------------------
(* Typing.                                                                  *)

LEMMA TimesFacts ==
    /\ MaxTime \in Nat /\ 0 \in Times
    /\ \A s \in Times : s \in Nat
BY NumbersAssumption DEF Times

LEMMA IdleTyped == Idle \in ClientState /\ Idle.pc = "idle" /\ Idle.stamp = 0
BY TimesFacts DEF Idle, ClientState, Labels

LEMMA NoTreeTyped == NoTree \in Trees /\ Present(NoTree) = {}
BY DEF NoTree, Trees, Present

(* A client in a new state.                                                 *)
LEMMA BecomesTyped ==
    ASSUME TypeOK, NEW c \in Clients, NEW s \in ClientState, s.stamp <= clock, Becomes(c, s)
    PROVE  /\ client' \in [Clients -> ClientState]
           /\ client'[c] = s
           /\ \A d \in Clients : d # c => client'[d] = client[d]
           /\ \A d \in Clients : client'[d].stamp <= clock
BY DEF TypeOK, Becomes

LEMMA FinishTyped ==
    ASSUME TypeOK, NEW c \in Clients, Finish(c)
    PROVE  /\ client' \in [Clients -> ClientState]
           /\ client'[c] = Idle
           /\ \A d \in Clients : d # c => client'[d] = client[d]
           /\ \A d \in Clients : client'[d].stamp <= clock
<1>1. Idle.stamp <= clock
  BY IdleTyped, TimesFacts DEF TypeOK
<1>2. QED  BY <1>1, IdleTyped, BecomesTyped DEF Finish

LEMMA GotoTyped ==
    ASSUME TypeOK, NEW c \in Clients, NEW l \in Labels, Goto(c, l)
    PROVE  /\ client' \in [Clients -> ClientState]
           /\ client'[c].pc = l /\ client'[c].leg = client[c].leg
           /\ client'[c].stamp = client[c].stamp /\ client'[c].todo = client[c].todo
           /\ \A d \in Clients : d # c => client'[d] = client[d]
           /\ \A d \in Clients : client'[d].stamp <= clock
<1> DEFINE s == [client[c] EXCEPT !.pc = l]
<1>1. client[c] \in ClientState /\ client[c].stamp <= clock
  BY DEF TypeOK
<1>2. s \in ClientState /\ s.pc = l /\ s.leg = client[c].leg /\ s.stamp = client[c].stamp
      /\ s.todo = client[c].todo
  BY <1>1 DEF ClientState
<1>3. Becomes(c, s)
  BY DEF Goto
<1>4. QED  BY <1>1, <1>2, <1>3, BecomesTyped

(* The walk goes on without f.                                              *)
LEMMA WalkTyped ==
    ASSUME TypeOK, NEW c \in Clients, NEW f,
           Becomes(c, [client[c] EXCEPT !.todo = client[c].todo \ {f}])
    PROVE  /\ client' \in [Clients -> ClientState]
           /\ client'[c].pc = client[c].pc /\ client'[c].leg = client[c].leg
           /\ client'[c].stamp = client[c].stamp
           /\ client'[c].todo = client[c].todo \ {f}
           /\ \A d \in Clients : d # c => client'[d] = client[d]
           /\ \A d \in Clients : client'[d].stamp <= clock
<1> DEFINE s == [client[c] EXCEPT !.todo = client[c].todo \ {f}]
<1>1. client[c] \in ClientState /\ client[c].stamp <= clock
  BY DEF TypeOK
<1>2. s \in ClientState /\ s.pc = client[c].pc /\ s.leg = client[c].leg
      /\ s.stamp = client[c].stamp /\ s.todo = client[c].todo \ {f}
  BY <1>1 DEF ClientState
<1>3. QED  BY <1>1, <1>2, BecomesTyped

-----------------------------------------------------------------------------
(* The invariant.                                                           *)

Over(c) == client[c].leg = "vm-to-host" /\ client[c].pc \in {"backup", "list", "transfer"}
Fresh(c) == clock < client[c].stamp + Day

(* The label tells the leg.                                                 *)
Legs == \A c \in Clients : client[c].pc \in {"stamp", "backup"} => client[c].leg = "vm-to-host"

(* What is the user's is there.                                             *)
MinePresent == \A f \in mine : host[f] # Absent

(* What a sync to the host will overwrite is in its backup, or will be.     *)
Backed(c) ==
    Over(c) /\ Fresh(c) => \A f \in mine :
        \/ client[c].pc = "backup" /\ f \in client[c].todo
        \/ backups[client[c].stamp][f] = host[f]

(* What a walk has yet to visit is not in its backup.                       *)
Empty(c) ==
    client[c].pc = "backup" => \A f \in client[c].todo : backups[client[c].stamp][f] = Absent

(* Two syncs have two backups, unless the first had nothing to back up.     *)
Apart(c, d) ==
    c # d /\ client[d].pc = "backup" /\ client[c].stamp = client[d].stamp =>
        /\ client[c].pc # "backup"
        /\ Over(c) /\ Fresh(c) => mine = {}

BInv ==
    /\ TypeOK /\ Legs /\ MinePresent
    /\ \A c \in Clients : Backed(c) /\ Empty(c)
    /\ \A c, d \in Clients : Apart(c, d)

-----------------------------------------------------------------------------
(* What copying a file to a backup does to the backups.                     *)

LEMMA BackupTyped ==
    ASSUME TypeOK, NEW s \in Times, s <= clock, NEW f \in Files, NEW v \in Contents,
           backups' = [backups EXCEPT ![s][f] = v]
    PROVE  /\ backups' \in [Times -> Trees]
           /\ \A t \in Times : t > clock => backups'[t] = NoTree
           /\ \A t \in Times : t # s => backups'[t] = backups[t]
           /\ \A g \in Files : g # f => backups'[s][g] = backups[s][g]
           /\ backups'[s][f] = v
<1> DEFINE tree == [backups[s] EXCEPT ![f] = v]
<1>1. backups[s] \in Trees
  BY DEF TypeOK
<1>2. tree \in Trees /\ tree[f] = v /\ \A g \in Files : g # f => tree[g] = backups[s][g]
  BY <1>1 DEF Trees
<1>3. backups' = [backups EXCEPT ![s] = tree]
  OBVIOUS
<1> HIDE DEF tree
<1>4. /\ backups' \in [Times -> Trees]
      /\ \A t \in Times : t # s => backups'[t] = backups[t]
      /\ backups'[s] = tree
  BY <1>2, <1>3 DEF TypeOK
<1>5. \A t \in Times : t > clock => backups'[t] = NoTree
  <2>1. SUFFICES ASSUME NEW t \in Times, t > clock  PROVE backups'[t] = NoTree
    OBVIOUS
  <2>2. t # s
    BY <2>1, TimesFacts DEF TypeOK
  <2>3. QED  BY <1>4, <2>1, <2>2 DEF TypeOK
<1>6. QED  BY <1>2, <1>4, <1>5

(* Removing backups.                                                        *)
LEMMA RemovalTyped ==
    ASSUME TypeOK, NEW gone,
           backups' = [s \in Times |-> IF s \in gone THEN NoTree ELSE backups[s]]
    PROVE  /\ backups' \in [Times -> Trees]
           /\ \A t \in Times : t > clock => backups'[t] = NoTree
BY NoTreeTyped DEF TypeOK

LEMMA PresentIsFiles ==
    ASSUME NEW tree  PROVE Present(tree) \in SUBSET Files
BY DEF Present

LEMMA Contained == HostMade \subseteq Contents /\ VmMade \subseteq Contents /\ Torn \in Contents
BY DEF Contents

-----------------------------------------------------------------------------
(* TypeOK is inductive.                                                     *)

LEMMA TypeInit == Init => TypeOK
<1> SUFFICES ASSUME Init PROVE TypeOK
  OBVIOUS
<1>1. client \in [Clients -> ClientState] /\ \A c \in Clients : client[c].stamp <= clock
  BY IdleTyped, TimesFacts DEF Init
<1>2. host \in Trees /\ vm \in Trees /\ mine \subseteq Files
  BY Contained, NoTreeTyped, PresentIsFiles DEF Init, Trees
<1>3. backups \in [Times -> Trees] /\ clock \in Times
      /\ \A s \in Times : s > clock => backups[s] = NoTree
  BY NoTreeTyped, TimesFacts DEF Init
<1>4. QED  BY <1>1, <1>2, <1>3 DEF Init, TypeOK

LEMMA TypeStep == TypeOK /\ [Next]_vars => TypeOK'
<1> SUFFICES ASSUME TypeOK, [Next]_vars PROVE TypeOK'
  OBVIOUS
<1> USE TimesFacts
<1>1. ASSUME Destroy PROVE TypeOK'
  BY <1>1, NoTreeTyped DEF Destroy, TypeOK
<1>2. ASSUME NEW c \in Clients, Run(c) PROVE TypeOK'
  <2> DEFINE s == [Idle EXCEPT !.pc = "cleanup", !.leg = FirstLeg]
  <2>1. s \in ClientState /\ s.stamp <= clock
    <3>1. FirstLeg \in {"host-to-vm", "vm-to-host"} /\ 0 <= clock
      BY DEF FirstLeg, TypeOK
    <3>2. QED  BY <3>1, IdleTyped DEF ClientState, Labels
  <2>2. client' \in [Clients -> ClientState] /\ \A d \in Clients : client'[d].stamp <= clock
    BY <1>2, <2>1, BecomesTyped DEF Run
  <2>3. QED  BY <1>2, <2>2 DEF Run, TypeOK
<1>3. ASSUME NEW c \in Clients, Cleanup(c) PROVE TypeOK'
  <2>1. PICK gone : backups' = [s \in Times |-> IF s \in gone THEN NoTree ELSE backups[s]]
    BY <1>3 DEF Cleanup
  <2>2. client' \in [Clients -> ClientState] /\ \A d \in Clients : client'[d].stamp <= clock
    BY <1>3, FinishTyped, GotoTyped DEF Cleanup, Labels
  <2>3. QED  BY <1>3, <2>1, <2>2, RemovalTyped DEF Cleanup, TypeOK
<1>4. ASSUME NEW c \in Clients, Stamp(c) PROVE TypeOK'
  <2> DEFINE s == [client[c] EXCEPT !.pc = "backup", !.stamp = clock, !.todo = Present(host)]
  <2>1. s \in ClientState /\ s.stamp <= clock
    <3>1. client[c] \in ClientState /\ clock \in Times /\ clock <= clock
      BY DEF TypeOK
    <3>2. QED  BY <3>1, PresentIsFiles DEF ClientState, Labels
  <2>2. client' \in [Clients -> ClientState] /\ \A d \in Clients : client'[d].stamp <= clock
    BY <1>4, <2>1, BecomesTyped DEF Stamp
  <2>3. QED  BY <1>4, <2>2 DEF Stamp, TypeOK
<1>5. ASSUME NEW c \in Clients, Backup(c) PROVE TypeOK'
  <2>1. client[c].stamp \in Times /\ client[c].stamp <= clock /\ client[c].todo \subseteq Files
    BY DEF TypeOK, ClientState
  <2>2. client' \in [Clients -> ClientState] /\ \A d \in Clients : client'[d].stamp <= clock
    BY <1>5, FinishTyped, GotoTyped, WalkTyped DEF Backup, Labels
  <2>3. backups' \in [Times -> Trees] /\ \A t \in Times : t > clock => backups'[t] = NoTree
    <3>1. CASE UNCHANGED backups
      BY <3>1 DEF TypeOK
    <3>2. ASSUME NEW f \in client[c].todo, NEW v \in Contents,
                 backups' = [backups EXCEPT ![client[c].stamp][f] = v]
          PROVE  backups' \in [Times -> Trees] /\ \A t \in Times : t > clock => backups'[t] = NoTree
      BY <2>1, <3>2, BackupTyped
    <3>3. \A f \in client[c].todo : host[f] # Absent => host[f] \in Contents
      BY <2>1 DEF TypeOK, Trees
    <3>4. QED  BY <1>5, <3>1, <3>2, <3>3, Contained DEF Backup
  <2>4. QED  BY <1>5, <2>2, <2>3 DEF Backup, TypeOK
<1>6. ASSUME NEW c \in Clients, List(c) PROVE TypeOK'
  <2> DEFINE t == (Present(host) \union Present(vm)) \ Excluded
             s == [client[c] EXCEPT !.pc = "transfer", !.todo = t]
  <2>1. s \in ClientState /\ s.stamp <= clock
    <3>1. t \in SUBSET Files
      BY PresentIsFiles
    <3> HIDE DEF t
    <3>2. QED  BY <3>1 DEF ClientState, Labels, TypeOK
  <2>2. client' \in [Clients -> ClientState] /\ \A d \in Clients : client'[d].stamp <= clock
    BY <1>6, <2>1, BecomesTyped, FinishTyped DEF List
  <2>3. QED  BY <1>6, <2>2 DEF List, TypeOK
<1>7. ASSUME NEW c \in Clients, Transfer(c) PROVE TypeOK'
  <2> DEFINE s == [client[c] EXCEPT !.pc = "cleanup", !.leg = "host-to-vm"]
  <2>1. s \in ClientState /\ s.stamp <= clock
    BY DEF ClientState, Labels, TypeOK
  <2>2. client' \in [Clients -> ClientState] /\ \A d \in Clients : client'[d].stamp <= clock
    BY <1>7, <2>1, BecomesTyped, FinishTyped, WalkTyped DEF Transfer
  <2>3. host' \in Trees /\ vm' \in Trees /\ mine' \subseteq Files
    BY <1>7 DEF Transfer, TypeOK, Trees, ClientState
  <2>4. QED  BY <1>7, <2>2, <2>3 DEF Transfer, TypeOK
<1>8. ASSUME NEW c \in Clients, Restore(c) PROVE TypeOK'
  <2>1. PICK t \in 0..clock :
           Becomes(c, [Idle EXCEPT !.pc = "restore", !.stamp = t, !.todo = Present(backups[t])])
    BY <1>8 DEF Restore
  <2> DEFINE s == [Idle EXCEPT !.pc = "restore", !.stamp = t, !.todo = Present(backups[t])]
  <2>2. t \in Times /\ t <= clock
    BY DEF TypeOK, Times
  <2>3. s \in ClientState /\ s.stamp <= clock
    BY <2>2, IdleTyped, PresentIsFiles DEF ClientState, Labels
  <2>4. client' \in [Clients -> ClientState] /\ \A d \in Clients : client'[d].stamp <= clock
    BY <2>1, <2>3, BecomesTyped
  <2>5. QED  BY <1>8, <2>4 DEF Restore, TypeOK
<1>9. ASSUME NEW c \in Clients, RestoreFile(c) PROVE TypeOK'
  <2>1. client' \in [Clients -> ClientState] /\ \A d \in Clients : client'[d].stamp <= clock
    BY <1>9, FinishTyped, WalkTyped DEF RestoreFile
  <2>2. client[c].stamp \in Times /\ client[c].todo \subseteq Files
    BY DEF TypeOK, ClientState
  <2>3. host' \in Trees /\ mine' \subseteq Files
    <3>1. ASSUME NEW f \in client[c].todo, NEW v \in Contents, host' = [host EXCEPT ![f] = v]
          PROVE  host' \in Trees
      BY <2>2, <3>1 DEF TypeOK, Trees
    <3>2. \A f \in client[c].todo : LET v == backups[client[c].stamp][f] IN
             v # Absent => v \in Contents
      BY <2>2 DEF TypeOK, Trees
    <3>3. QED  BY <1>9, <3>1, <3>2, Contained DEF RestoreFile, TypeOK
  <2>4. QED  BY <1>9, <2>1, <2>3 DEF RestoreFile, TypeOK
<1>10. ASSUME EditHost PROVE TypeOK'
  <2>1. host' \in Trees /\ mine' \subseteq Files
    BY <1>10, Contained DEF EditHost, TypeOK, Trees
  <2>2. QED  BY <1>10, <2>1 DEF EditHost, TypeOK
<1>11. ASSUME EditVm PROVE TypeOK'
  <2>1. vm' \in Trees
    BY <1>11, Contained DEF EditVm, TypeOK, Trees
  <2>2. QED  BY <1>11, <2>1 DEF EditVm, TypeOK
<1>12. ASSUME Tick PROVE TypeOK'
  <2>1. clock' \in Times /\ clock \in Nat /\ clock' = clock + 1
    BY <1>12 DEF Tick, TypeOK, Times
  <2>2. \A c \in Clients : client[c].stamp \in Nat
    BY DEF TypeOK, ClientState
  <2>3. QED  BY <1>12, <2>1, <2>2 DEF Tick, TypeOK
<1>13. ASSUME UNCHANGED vars PROVE TypeOK'
  BY <1>13 DEF vars, TypeOK
<1>14. QED
  BY <1>1, <1>2, <1>3, <1>4, <1>5, <1>6, <1>7, <1>8, <1>9, <1>10, <1>11, <1>12, <1>13
     DEF Next, Step

-----------------------------------------------------------------------------
(* Retention.                                                               *)

(* The instances in which backups are made as the code means them to be:    *)
(* nobody writes to the host during a sync, no two backups share a second,  *)
(* and a retention is neither negative nor longer than a Duration holds.    *)
Calm == Environment = {}

RetentionSane ==
    /\ \A r \in Retentions : r \in Nat /\ r * Day <= HalfRange
    /\ DefaultRetention * Day <= HalfRange

(* A Duration that is not too long is what it says.                         *)
LEMMA WrapExact ==
    ASSUME NEW n \in Nat, n <= HalfRange  PROVE Wrap(-n) = -n
<1>1. HalfRange \in Nat \ {0}
  BY NumbersAssumption
<1> DEFINE a == -n + HalfRange
           b == 2 * HalfRange
<1>2. a \in Nat /\ b \in Nat /\ a < b
  BY <1>1
<1>3. a % b = a
  <2> HIDE DEF a, b
  <2>1. QED  BY <1>2
<1>4. QED  BY <1>1, <1>3 DEF Wrap

LEMMA DaysTimes ==
    ASSUME NEW r \in Nat \ {0}, NEW d \in Nat \ {0}  PROVE r * d \in Nat /\ d <= r * d
OBVIOUS

(* What is removed is as old as the retention, and a day at least.          *)
LEMMA ExpiredIsOld ==
    ASSUME TypeOK, RetentionSane, NEW late \in BOOLEAN, NEW s \in Expired(late)
    PROVE  /\ s \in Times
           /\ s + Kept * Day <= clock
           /\ s + Day <= clock
<1> DEFINE n == retentionDays * Day
<1>1. Day \in Nat \ {0} /\ DefaultRetention \in Nat \ {0} /\ HalfRange \in Nat
  BY NumbersAssumption
<1>2. pair.retention \in Retentions
  BY DEF TypeOK, Pairs
<1>3. retentionDays \in Nat \ {0} /\ retentionDays = Kept
  BY <1>1, <1>2 DEF RetentionSane, retentionDays, Kept
<1>4. n <= HalfRange
  BY <1>2 DEF RetentionSane, retentionDays
<1>5. n \in Nat /\ Day <= n
  BY <1>1, <1>3, DaysTimes
<1>6. Wrap(-retentionDays * Day) = -n
  <2>1. -retentionDays * Day = -n
    BY <1>1, <1>3
  <2>2. QED  BY <1>4, <1>5, <2>1, WrapExact
<1>7. clock \in Nat
  BY TimesFacts DEF TypeOK
<1>8. s \in Times /\ s <= clock + (-n)
  <2> HIDE DEF n
  <2>1. s \in Times /\ (s < clock + (-n) \/ s = clock + (-n))
    BY <1>6 DEF Expired
  <2>2. QED  BY <1>5, <1>7, <2>1, TimesFacts
<1>9. s + n <= clock
  <2> HIDE DEF n
  <2>1. QED  BY <1>5, <1>7, <1>8, TimesFacts
<1>10. s + Day <= clock
  <2> HIDE DEF n
  <2>1. QED  BY <1>1, <1>5, <1>7, <1>8, <1>9, TimesFacts
<1>11. QED  BY <1>3, <1>8, <1>9, <1>10

-----------------------------------------------------------------------------
(* BInv is inductive.                                                       *)

LEMMA BInvInit == Init => BInv
<1> SUFFICES ASSUME Init PROVE BInv
  OBVIOUS
<1>1. \A c \in Clients : client[c].pc = "idle"
  BY IdleTyped DEF Init
<1>2. QED
  BY <1>1, TypeInit DEF Init, BInv, Legs, MinePresent, Backed, Empty, Apart, Over, Present

(* A client that goes on, and begins neither a backup nor to overwrite.     *)
LEMMA MovesKeeps ==
    ASSUME BInv, NEW c \in Clients,
           \A d \in Clients : d # c => client'[d] = client[d],
           client'[c].pc # "backup",
           client'[c].pc = "stamp" => client'[c].leg = "vm-to-host",
           Over(c)' => /\ Over(c) /\ client'[c].stamp = client[c].stamp
                       /\ client[c].pc = "backup" => client[c].todo = {},
           clock' = clock, backups' = backups,
           mine' \subseteq mine, \A f \in mine' : host'[f] = host[f]
    PROVE  /\ Legs' /\ MinePresent'
           /\ \A d \in Clients : Backed(d)' /\ Empty(d)'
           /\ \A x, y \in Clients : Apart(x, y)'
<1>1. Legs'
  BY DEF BInv, Legs
<1>2. MinePresent'
  BY DEF BInv, MinePresent
<1>3. ASSUME NEW d \in Clients PROVE Backed(d)' /\ Empty(d)'
  <2>1. Backed(d) /\ Empty(d)
    BY DEF BInv
  <2>2. QED
    BY <2>1 DEF Backed, Empty, Over, Fresh
<1>4. ASSUME NEW x \in Clients, NEW y \in Clients PROVE Apart(x, y)'
  <2>1. Apart(x, y)
    BY DEF BInv
  <2>2. QED
    BY <2>1 DEF Apart, Over, Fresh
<1>5. QED  BY <1>1, <1>2, <1>3, <1>4

(* A client that writes one file of its backup.                             *)
LEMMA BackupKeeps ==
    ASSUME BInv, NEW c \in Clients, At(c, "backup"),
           NEW f \in client[c].todo, NEW v \in Contents,
           backups' = [backups EXCEPT ![client[c].stamp][f] = v],
           \A d \in Clients : d # c => client'[d] = client[d],
           \/ client'[c] = Idle
           \/ /\ client'[c].pc = "backup" /\ client'[c].leg = client[c].leg
              /\ client'[c].stamp = client[c].stamp
              /\ client'[c].todo = client[c].todo \ {f} /\ v = host[f],
           UNCHANGED <<clock, host, mine>>
    PROVE  /\ Legs' /\ MinePresent'
           /\ \A d \in Clients : Backed(d)' /\ Empty(d)'
           /\ \A x, y \in Clients : Apart(x, y)'
<1> DEFINE s == client[c].stamp
<1>1. /\ s \in Times /\ s <= clock /\ f \in Files
      /\ \A d \in Clients : client[d].stamp \in Times
      /\ \A d \in Clients : client[d].todo \subseteq Files
      /\ mine \subseteq Files
  BY DEF BInv, TypeOK, ClientState
<1>2. /\ \A t \in Times : t # s => backups'[t] = backups[t]
      /\ \A g \in Files : g # f => backups'[s][g] = backups[s][g]
      /\ backups'[s][f] = v
  <2>1. s \in Times /\ f \in Files
    BY <1>1
  <2> DEFINE tree == [backups[s] EXCEPT ![f] = v]
  <2>2. backups \in [Times -> Trees] /\ backups' = [backups EXCEPT ![s] = tree]
    BY DEF BInv, TypeOK
  <2>3. tree[f] = v /\ \A g \in Files : g # f => tree[g] = backups[s][g]
    BY <2>1, <2>2 DEF Trees
  <2> HIDE DEF tree, s
  <2>4. backups'[s] = tree /\ \A t \in Times : t # s => backups'[t] = backups[t]
    BY ONLY <1>1, <2>2
  <2>5. QED  BY ONLY <2>3, <2>4
<1>3. Legs'
  BY IdleTyped DEF BInv, Legs, At
<1>4. MinePresent'
  BY DEF BInv, MinePresent
<1>5. Backed(c)' /\ Empty(c)'
  <2>1. CASE client'[c] = Idle
    BY <2>1, IdleTyped DEF Backed, Empty, Over
  <2>2. CASE client'[c] # Idle
    <3>1. /\ client'[c].pc = "backup" /\ client'[c].leg = client[c].leg
          /\ client'[c].stamp = s
          /\ client'[c].todo = client[c].todo \ {f} /\ v = host[f]
      BY <2>2
    <3>2. Backed(c) /\ Empty(c) /\ client[c].pc = "backup"
      BY DEF BInv, At
    <3>3. Empty(c)'
      BY <1>1, <1>2, <3>1, <3>2 DEF Empty
    <3>4. Backed(c)'
      BY <1>1, <1>2, <3>1, <3>2 DEF Backed, Over, Fresh
    <3>5. QED  BY <3>3, <3>4
  <2>3. QED  BY <2>1, <2>2
<1>6. ASSUME NEW d \in Clients, d # c PROVE Backed(d)' /\ Empty(d)'
  <2>1. Backed(d) /\ Empty(d) /\ Apart(d, c) /\ client'[d] = client[d]
    BY <1>6 DEF BInv
  <2>2. CASE client[d].stamp = s
    BY <1>6, <2>1, <2>2 DEF Backed, Empty, Apart, Over, Fresh, At
  <2>3. CASE client[d].stamp # s
    <3>1. backups'[client'[d].stamp] = backups[client[d].stamp]
      BY <1>1, <1>2, <2>1, <2>3
    <3>2. QED  BY <2>1, <3>1 DEF Backed, Empty, Over, Fresh
  <2>4. QED  BY <2>2, <2>3
<1>7. ASSUME NEW x \in Clients, NEW y \in Clients PROVE Apart(x, y)'
  <2>1. Apart(x, y)
    BY DEF BInv
  <2>2. QED  BY <2>1, IdleTyped DEF Apart, Over, Fresh, At
<1>8. QED  BY <1>3, <1>4, <1>5, <1>6, <1>7

LEMMA BInvStep ==
    ASSUME Calm, RetentionSane, BInv, [Next]_vars  PROVE BInv'
<1> USE TimesFacts
<1>1. TypeOK'
  BY TypeStep DEF BInv
<1> DEFINE Goal == /\ Legs' /\ MinePresent'
                   /\ \A d \in Clients : Backed(d)' /\ Empty(d)'
                   /\ \A x, y \in Clients : Apart(x, y)'
<1> SUFFICES Goal
  BY <1>1 DEF BInv
(* Nobody is between his backup and the end of what he overwrites.          *)
<1>q. ASSUME ~Overwriting
      PROVE  \A c \in Clients : ~Over(c) /\ client[c].pc \notin {"backup", "stamp"}
  BY <1>q DEF Overwriting, Over, BInv, Legs
<1>2. ASSUME Destroy PROVE Goal
  <2>1. ~Overwriting
    BY <1>2 DEF Destroy, Calm
  <2>2. QED
    BY <1>2, <1>q, <2>1 DEF Destroy, BInv, Legs, MinePresent, Backed, Empty, Apart, Over, Fresh
<1>3. ASSUME NEW c \in Clients, Run(c) PROVE Goal
  <2> DEFINE s == [Idle EXCEPT !.pc = "cleanup", !.leg = FirstLeg]
  <2>1. s.pc = "cleanup"
    BY IdleTyped DEF ClientState
  <2>2. client'[c].pc = "cleanup" /\ \A d \in Clients : d # c => client'[d] = client[d]
    BY <1>3, <2>1 DEF Run, Becomes, BInv, TypeOK
  <2>3. QED  BY <1>3, <2>2, MovesKeeps DEF Run, Over
<1>4. ASSUME NEW c \in Clients, Cleanup(c) PROVE Goal
  <2>1. PICK late \in BOOLEAN : \E gone \in SUBSET Expired(late) :
           /\ backups' = [s \in Times |-> IF s \in gone THEN NoTree ELSE backups[s]]
           /\ \/ Goto(c, IF client[c].leg = "vm-to-host" THEN "stamp" ELSE "list")
              \/ Finish(c)
    BY <1>4 DEF Cleanup
  <2>2. PICK gone \in SUBSET Expired(late) :
           /\ backups' = [s \in Times |-> IF s \in gone THEN NoTree ELSE backups[s]]
           /\ \/ Goto(c, IF client[c].leg = "vm-to-host" THEN "stamp" ELSE "list")
              \/ Finish(c)
    BY <2>1
  <2>3. /\ \A d \in Clients : d # c => client'[d] = client[d]
        /\ \/ client'[c].pc = "idle"
           \/ client'[c].pc = "stamp" /\ client'[c].leg = "vm-to-host"
           \/ client'[c].pc = "list" /\ client'[c].leg # "vm-to-host"
    BY <2>2, FinishTyped, GotoTyped, IdleTyped DEF Labels, BInv
  <2>4. \A d \in Clients : Fresh(d) => client[d].stamp \notin gone
    <3>1. \A s \in gone : s \in Times /\ s + Day <= clock
      BY ExpiredIsOld DEF BInv
    <3>2. \A d \in Clients : client[d].stamp \in Times
      BY DEF BInv, TypeOK, ClientState
    <3>3. clock \in Nat /\ Day \in Nat
      BY NumbersAssumption DEF BInv, TypeOK
    <3>4. QED  BY <3>1, <3>2, <3>3 DEF Fresh
  <2>5. \A s \in Times : backups'[s] = backups[s] \/ backups'[s] = NoTree
    BY <2>2
  <2>6. UNCHANGED <<host, mine, clock>>
    BY <1>4 DEF Cleanup
  <2>7. Legs' /\ MinePresent'
    BY <2>3, <2>6 DEF BInv, Legs, MinePresent
  <2>8. ASSUME NEW d \in Clients PROVE Backed(d)' /\ Empty(d)'
    <3>1. CASE d = c
      BY <2>3, <3>1 DEF Backed, Empty, Over
    <3>2. CASE d # c
      <4>1. Backed(d) /\ Empty(d) /\ client'[d] = client[d]
        BY <2>3, <3>2 DEF BInv
      <4>2. client[d].stamp \in Times /\ client[d].todo \subseteq Files
        BY DEF BInv, TypeOK, ClientState
      <4>3. Backed(d)'
        <5>1. Fresh(d) => backups'[client[d].stamp] = backups[client[d].stamp]
          BY <2>2, <2>4, <4>2
        <5>2. QED  BY <2>6, <4>1, <5>1 DEF Backed, Over, Fresh
      <4>4. Empty(d)'
        <5>1. \A f \in Files : NoTree[f] = Absent
          BY DEF NoTree
        <5>2. QED  BY <2>5, <4>1, <4>2, <5>1 DEF Empty
      <4>5. QED  BY <4>3, <4>4
    <3>3. QED  BY <3>1, <3>2
  <2>9. ASSUME NEW x \in Clients, NEW y \in Clients PROVE Apart(x, y)'
    <3>1. Apart(x, y)
      BY DEF BInv
    <3>2. QED  BY <2>3, <2>6, <3>1 DEF Apart, Over, Fresh
  <2>10. QED  BY <2>7, <2>8, <2>9
<1>5. ASSUME NEW c \in Clients, Stamp(c) PROVE Goal
  <2> DEFINE s == [client[c] EXCEPT !.pc = "backup", !.stamp = clock, !.todo = Present(host)]
  <2>1. /\ backups[clock] = NoTree
        /\ \A d \in Clients : At(d, "backup") => client[d].stamp # clock
        /\ UNCHANGED <<host, mine, backups, clock>>
    BY <1>5 DEF Stamp, Calm
  <2>2. client[c] \in ClientState /\ client[c].pc = "stamp"
        /\ client[c].leg = "vm-to-host" /\ mine \subseteq Files /\ clock \in Nat
    BY <1>5 DEF Stamp, At, BInv, TypeOK, Legs
  <2>3. s.pc = "backup" /\ s.leg = "vm-to-host" /\ s.stamp = clock /\ s.todo = Present(host)
    BY <2>2 DEF ClientState
  <2>4. client'[c] = s /\ \A d \in Clients : d # c => client'[d] = client[d]
    BY <1>5 DEF Stamp, Becomes, BInv, TypeOK
  <2> HIDE DEF s
  <2>5. Legs' /\ MinePresent'
    BY <2>1, <2>3, <2>4 DEF BInv, Legs, MinePresent
  <2>6. ASSUME NEW d \in Clients PROVE Backed(d)' /\ Empty(d)'
    <3>1. CASE d = c
      <4>1. \A f \in mine : f \in Present(host)
        BY <2>2 DEF BInv, MinePresent, Present
      <4>2. \A f \in Present(host) : backups[clock][f] = Absent
        BY <2>1 DEF NoTree, Present
      <4>3. QED  BY <2>1, <2>3, <2>4, <3>1, <4>1, <4>2 DEF Backed, Empty
    <3>2. CASE d # c
      BY <2>1, <2>4, <3>2 DEF BInv, Backed, Empty, Over, Fresh
    <3>3. QED  BY <3>1, <3>2
  <2>7. ASSUME NEW x \in Clients, NEW y \in Clients PROVE Apart(x, y)'
    <3>1. Apart(x, y) /\ Backed(x)
      BY DEF BInv
    <3>2. CASE y = c /\ x # c
      <4>1. client'[y].stamp = clock /\ client'[x] = client[x]
        BY <2>3, <2>4, <3>2
      <4>2. SUFFICES ASSUME client[x].stamp = clock
                     PROVE client[x].pc # "backup" /\ (Over(x) /\ Fresh(x) => mine = {})
        BY <2>1, <4>1 DEF Apart, Over, Fresh
      <4>3. client[x].pc # "backup"
        BY <2>1, <4>2 DEF At
      <4>4. ASSUME Over(x), Fresh(x), NEW f \in mine PROVE FALSE
        <5>1. backups[clock][f] = host[f]
          BY <3>1, <4>2, <4>3, <4>4 DEF Backed
        <5>2. backups[clock][f] = Absent
          BY <2>1, <2>2 DEF NoTree
        <5>3. QED  BY <5>1, <5>2 DEF BInv, MinePresent
      <4>5. QED  BY <4>3, <4>4
    <3>3. CASE y # c
      BY <2>1, <2>3, <2>4, <3>1, <3>3 DEF Apart, Over, Fresh, At
    <3>4. CASE x = c /\ y = c
      BY <3>4 DEF Apart
    <3>5. QED  BY <3>2, <3>3, <3>4
  <2>8. QED  BY <2>5, <2>6, <2>7
<1>6. ASSUME NEW c \in Clients, Backup(c) PROVE Goal
  <2>1. client[c].todo \subseteq Files /\ At(c, "backup") /\ UNCHANGED <<host, mine, clock>>
    BY <1>6 DEF Backup, BInv, TypeOK, ClientState
  <2>2. CASE client[c].todo = {} /\ Goto(c, "list") /\ UNCHANGED backups
    <3>1. /\ client'[c].pc = "list" /\ client'[c].leg = client[c].leg
          /\ client'[c].stamp = client[c].stamp
          /\ \A d \in Clients : d # c => client'[d] = client[d]
      BY <2>2, GotoTyped DEF Labels, BInv
    <3>2. QED  BY <2>1, <2>2, <3>1, MovesKeeps DEF Over, At
  <2>3. ASSUME NEW f \in client[c].todo, host[f] # Absent,
               backups' = [backups EXCEPT ![client[c].stamp][f] = host[f]],
               Becomes(c, [client[c] EXCEPT !.todo = client[c].todo \ {f}])
        PROVE  Goal
    <3>1. host[f] \in Contents
      BY <2>1, <2>3 DEF BInv, TypeOK, Trees
    <3>2. /\ client'[c].pc = "backup" /\ client'[c].leg = client[c].leg
          /\ client'[c].stamp = client[c].stamp
          /\ client'[c].todo = client[c].todo \ {f}
          /\ \A d \in Clients : d # c => client'[d] = client[d]
      BY <2>1, <2>3, WalkTyped DEF BInv, At
    <3>3. QED  BY <2>1, <2>3, <3>1, <3>2, BackupKeeps
  <2>4. ASSUME NEW f \in client[c].todo,
               backups' = [backups EXCEPT ![client[c].stamp][f] = Torn], Finish(c)
        PROVE  Goal
    <3>1. client'[c] = Idle /\ \A d \in Clients : d # c => client'[d] = client[d]
      BY <2>4, FinishTyped DEF BInv
    <3>2. QED  BY <2>1, <2>4, <3>1, Contained, BackupKeeps
  <2>5. CASE Finish(c) /\ UNCHANGED backups
    <3>1. client'[c] = Idle /\ \A d \in Clients : d # c => client'[d] = client[d]
      BY <2>5, FinishTyped DEF BInv
    <3>2. QED  BY <2>1, <2>5, <3>1, IdleTyped, MovesKeeps DEF Over
  <2>6. QED  BY <1>6, <2>2, <2>3, <2>4, <2>5 DEF Backup
<1>7. ASSUME NEW c \in Clients, List(c) PROVE Goal
  <2> DEFINE t == (Present(host) \union Present(vm)) \ Excluded
             s == [client[c] EXCEPT !.pc = "transfer", !.todo = t]
  <2>1. client[c] \in ClientState /\ client[c].pc = "list"
    BY <1>7 DEF List, At, BInv, TypeOK
  <2>2. s.pc = "transfer" /\ s.leg = client[c].leg /\ s.stamp = client[c].stamp
    BY <2>1 DEF ClientState
  <2>3. /\ client'[c] \in {s, Idle} /\ \A d \in Clients : d # c => client'[d] = client[d]
        /\ UNCHANGED <<host, mine, backups, clock>>
    BY <1>7, FinishTyped DEF List, Becomes, BInv, TypeOK
  <2> HIDE DEF s
  <2>4. QED  BY <2>1, <2>2, <2>3, IdleTyped, MovesKeeps DEF Over
<1>8. ASSUME NEW c \in Clients, Transfer(c) PROVE Goal
  <2> DEFINE s == [client[c] EXCEPT !.pc = "cleanup", !.leg = "host-to-vm"]
  <2>1. client[c] \in ClientState /\ client[c].pc = "transfer"
    BY <1>8 DEF Transfer, At, BInv, TypeOK
  <2>2. s.pc = "cleanup"
    BY <2>1 DEF ClientState
  <2>3. Becomes(c, s) => client'[c] = s /\ \A d \in Clients : d # c => client'[d] = client[d]
    BY DEF Becomes, BInv, TypeOK
  <2> HIDE DEF s
  <2>4. /\ \A d \in Clients : d # c => client'[d] = client[d]
        /\ \/ client'[c].pc \in {"idle", "cleanup"}
           \/ /\ client'[c].pc = "transfer" /\ client'[c].leg = client[c].leg
              /\ client'[c].stamp = client[c].stamp
    <3>1. ASSUME NEW f, Becomes(c, [client[c] EXCEPT !.todo = client[c].todo \ {f}])
          PROVE  /\ \A d \in Clients : d # c => client'[d] = client[d]
                 /\ client'[c].pc = "transfer" /\ client'[c].leg = client[c].leg
                 /\ client'[c].stamp = client[c].stamp
      BY <2>1, <3>1, WalkTyped DEF BInv
    <3>2. ASSUME Finish(c)
          PROVE  /\ \A d \in Clients : d # c => client'[d] = client[d]
                 /\ client'[c].pc = "idle"
      BY <3>2, FinishTyped, IdleTyped DEF BInv
    <3>3. \/ \E f : Becomes(c, [client[c] EXCEPT !.todo = client[c].todo \ {f}])
          \/ Becomes(c, s)
          \/ Finish(c)
      BY <1>8 DEF Transfer, s
    <3>4. QED  BY <2>2, <2>3, <3>1, <3>2, <3>3
  <2>5. /\ mine' \subseteq mine /\ \A f \in mine' : host'[f] = host[f]
        /\ UNCHANGED <<backups, clock>>
    BY <1>8 DEF Transfer, BInv, TypeOK, Trees
  <2>6. QED  BY <2>1, <2>4, <2>5, MovesKeeps DEF Over
<1>9. ASSUME NEW c \in Clients, Restore(c) PROVE Goal
  <2>1. PICK t \in 0..clock :
           Becomes(c, [Idle EXCEPT !.pc = "restore", !.stamp = t, !.todo = Present(backups[t])])
    BY <1>9 DEF Restore
  <2> DEFINE s == [Idle EXCEPT !.pc = "restore", !.stamp = t, !.todo = Present(backups[t])]
  <2>2. s.pc = "restore"
    BY IdleTyped DEF ClientState
  <2>3. client'[c] = s /\ \A d \in Clients : d # c => client'[d] = client[d]
    BY <2>1 DEF Becomes, BInv, TypeOK
  <2> HIDE DEF s
  <2>4. QED  BY <1>9, <2>2, <2>3, MovesKeeps DEF Restore, Over
<1>10. ASSUME NEW c \in Clients, RestoreFile(c) PROVE Goal
  <2>1. client[c].pc = "restore"
    BY <1>10 DEF RestoreFile, At
  <2>2. /\ \A d \in Clients : d # c => client'[d] = client[d]
        /\ client'[c].pc \in {"idle", "restore"}
    BY <1>10, <2>1, WalkTyped, FinishTyped, IdleTyped DEF RestoreFile, BInv
  <2>3. /\ mine' \subseteq mine /\ \A f \in mine' : host'[f] = host[f]
        /\ UNCHANGED <<backups, clock>>
    BY <1>10 DEF RestoreFile, BInv, TypeOK, Trees
  <2>4. QED  BY <2>2, <2>3, MovesKeeps DEF Over
<1>11. ASSUME EditHost PROVE Goal
  <2>1. ~Overwriting /\ UNCHANGED <<client, backups, clock>>
    BY <1>11 DEF EditHost, Calm
  <2>2. MinePresent'
    BY <1>11 DEF EditHost, BInv, TypeOK, Trees, MinePresent
  <2>3. QED
    BY <1>q, <2>1, <2>2 DEF BInv, Legs, Backed, Empty, Apart, Over
<1>12. ASSUME EditVm PROVE Goal
  BY <1>12 DEF EditVm, BInv, Legs, MinePresent, Backed, Empty, Apart, Over, Fresh
<1>13. ASSUME Tick PROVE Goal
  <2>1. clock' = clock + 1 /\ UNCHANGED <<client, host, mine, backups>>
    BY <1>13 DEF Tick
  <2>2. \A d \in Clients : Fresh(d)' => Fresh(d)
    <3>1. clock \in Nat /\ Day \in Nat /\ \A d \in Clients : client[d].stamp \in Nat
      BY NumbersAssumption DEF BInv, TypeOK, ClientState
    <3>2. QED  BY <2>1, <3>1 DEF Fresh
  <2>3. QED  BY <2>1, <2>2 DEF BInv, Legs, MinePresent, Backed, Empty, Apart, Over
<1>14. ASSUME UNCHANGED vars PROVE Goal
  BY <1>14 DEF vars, BInv, Legs, MinePresent, Backed, Empty, Apart, Over, Fresh
<1>15. QED
  BY <1>2, <1>3, <1>4, <1>5, <1>6, <1>7, <1>8, <1>9, <1>10, <1>11, <1>12, <1>13, <1>14
     DEF Next, Step

-----------------------------------------------------------------------------
(* The theorems.                                                            *)

(* Whatever the environment, every variable of SyncCopy keeps its type, and *)
(* no backup is of the future.                                              *)
THEOREM TypeCorrect == Spec => []TypeOK
BY TypeInit, TypeStep, PTL DEF Spec

(* What a step overwrites of the user's is in the backup of the sync.       *)
LEMMA StepOverwrites ==
    ASSUME BInv, NEW c \in Clients, NEW f \in mine \ mine',
           At(c, "transfer"), Transfer(c), clock < client[c].stamp + Day
    PROVE  backups[client[c].stamp][f] = host[f]
<1>1. client[c].leg = "vm-to-host"
  BY DEF Transfer
<1>2. Over(c) /\ Fresh(c) /\ Backed(c) /\ client[c].pc = "transfer"
  BY <1>1 DEF Over, Fresh, At, BInv
<1>3. QED  BY <1>2 DEF Backed

(* Any number of clients may sync and restore at once: when the user leaves *)
(* the host alone meanwhile, no two backups share a second and retentions   *)
(* are sane, a sync overwrites and deletes nothing of the user's that is    *)
(* not in its own backup, unless that is a day old by then.                 *)
THEOREM OverwritesAreBackedUp ==
    ASSUME Calm, RetentionSane  PROVE Spec => OverwritesBackedUp
<1>1. BInv /\ [Next]_vars => BInv'
  BY BInvStep
<1>2. BInv /\ [Next]_vars =>
         [\A c \in Clients : \A f \in mine \ mine' :
             /\ At(c, "transfer") /\ Transfer(c)
             /\ clock < client[c].stamp + Day
             => backups[client[c].stamp][f] = host[f]]_vars
  BY StepOverwrites
<1>3. QED  BY BInvInit, <1>1, <1>2, PTL DEF Spec, OverwritesBackedUp

(* A step that changes what a backup has of a file is a destroy, or a       *)
(* cleanup after the retention.                                             *)
LEMMA StepKeeps ==
    ASSUME RetentionSane, BInv, [Next]_vars, NEW s \in Times, NEW f \in Files,
           backups[s][f] \notin {Absent, Torn}, backups'[s][f] # backups[s][f]
    PROVE  \/ \E c \in Clients : At(c, "cleanup") /\ s + Kept * Day <= clock
           \/ vm' = NoTree /\ client' = client
<1>1. CASE Destroy
  BY <1>1 DEF Destroy
<1>2. ASSUME NEW c \in Clients, Cleanup(c)
      PROVE  At(c, "cleanup") /\ s + Kept * Day <= clock
  <2>1. PICK late \in BOOLEAN : \E gone \in SUBSET Expired(late) :
           backups' = [t \in Times |-> IF t \in gone THEN NoTree ELSE backups[t]]
    BY <1>2 DEF Cleanup
  <2>2. s \in Expired(late)
    BY <2>1
  <2>3. QED  BY <1>2, <2>2, ExpiredIsOld DEF Cleanup, BInv
<1>3. ASSUME NEW c \in Clients, Backup(c) PROVE FALSE
  <2>1. /\ client[c].stamp \in Times /\ client[c].stamp <= clock
        /\ client[c].todo \subseteq Files /\ At(c, "backup") /\ Empty(c)
        /\ TypeOK
    BY <1>3 DEF Backup, BInv, TypeOK, ClientState
  <2>2. PICK g \in client[c].todo : \E v \in Contents :
           backups' = [backups EXCEPT ![client[c].stamp][g] = v]
    <3>1. \A g \in client[c].todo : host[g] # Absent => host[g] \in Contents
      BY <2>1 DEF TypeOK, Trees
    <3>2. QED  BY <1>3, <3>1, Contained DEF Backup
  <2>3. \A t \in Times : t # client[c].stamp => backups'[t] = backups[t]
    BY <2>1, <2>2, BackupTyped
  <2>4. \A h \in Files : h # g => backups'[client[c].stamp][h] = backups[client[c].stamp][h]
    BY <2>1, <2>2, BackupTyped
  <2>5. backups[client[c].stamp][g] = Absent
    BY <2>1 DEF Empty, At
  <2>6. QED  BY <2>3, <2>4, <2>5
<1>4. ASSUME NEW c \in Clients, ~Cleanup(c), ~Backup(c), Step(c) PROVE FALSE
  BY <1>4 DEF Step, Run, Stamp, List, Transfer, Restore, RestoreFile
<1>5. ~EditHost /\ ~EditVm /\ ~Tick
  BY DEF EditHost, EditVm, Tick
<1>6. QED  BY <1>1, <1>2, <1>3, <1>4, <1>5 DEF Next, vars

(* The same of the backups: a copy of a file stays as it is until it is     *)
(* older than the retention, or the VM is destroyed.                        *)
THEOREM BackupsAreKept ==
    ASSUME Calm, RetentionSane  PROVE Spec => BackupsKept
<1>1. BInv /\ [Next]_vars => BInv'
  BY BInvStep
<1>2. BInv /\ [Next]_vars =>
         [\A s \in Times : \A f \in Files :
             /\ backups[s][f] \notin {Absent, Torn} /\ backups'[s][f] # backups[s][f]
             => \/ \E c \in Clients : /\ At(c, "cleanup")
                                      /\ s + Kept * Day <= clock
                \/ vm' = NoTree /\ client' = client]_vars
  BY StepKeeps
<1>3. QED  BY BInvInit, <1>1, <1>2, PTL DEF Spec, BackupsKept
=============================================================================
