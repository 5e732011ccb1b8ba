--------------------------- MODULE ConfigFileProofs ---------------------------
(* Proofs about ConfigFile, for every value of its constants.               *)
EXTENDS ConfigFile, TLAPS

-----------------------------------------------------------------------------
(* Typing.                                                                  *)

LEMMA DefaultsTyped == Defaults \in Contents /\ Defaults.settings \in Valid
<1>1. DefaultSettings \in Valid /\ DefaultSettings \in Settings
  BY SettingsAssumption
<1>2. [s \in Sections |-> {}] \in Lists
  BY DEF Lists
<1>3. QED  BY <1>1, <1>2 DEF Defaults, Contents

LEMMA ParsedTyped ==
    ASSUME TypeOK
    PROVE  Parsed \in Contents
BY DefaultsTyped DEF TypeOK, Parsed

LEMMA ExtraTyped ==
    ASSUME NEW saved, NEW given
    PROVE  ExtraCommands(saved, given) \in [Hooks -> 0..2]
BY DEF ExtraCommands

LEMMA IdleTyped == Idle \in ClientState /\ Idle.pc = "idle"
BY DefaultsTyped, SettingsAssumption DEF Idle, ClientState, Labels, Sections

LEMMA EditedTyped ==
    ASSUME NEW me \in ClientState, NEW cfg \in Contents
    PROVE  Edited(me, cfg) \in Contents
<1>1. /\ me.section \in Sections /\ me.list \in SUBSET Items
      /\ me.new \in Settings /\ me.form \in SUBSET Hooks
  BY DEF ClientState
<1>2. cfg.lists \in Lists /\ cfg.hooks \in SUBSET Hooks
  BY DEF Contents
<1>3. [cfg.lists EXCEPT ![me.section] = me.list] \in Lists
  BY <1>1, <1>2 DEF Lists
<1>4. [cfg EXCEPT !.lists = [cfg.lists EXCEPT ![me.section] = me.list]] \in Contents
  BY <1>3 DEF Contents
<1>5. [cfg EXCEPT !.settings = me.new,
                  !.hooks = IF me.form = {} THEN @ ELSE me.form] \in Contents
  BY <1>1, <1>2 DEF Contents
<1>6. QED  BY <1>4, <1>5 DEF Edited

(* A client in a new state, which does not read a list.                     *)
LEMMA BecomesTyped ==
    ASSUME TypeOK, NEW c \in Clients, NEW s \in ClientState, Becomes(c, s),
           s.pc = "list" => s.op \in ListCommands /\ s.item \in Items
    PROVE  /\ client' \in [Clients -> ClientState]
           /\ \A d \in Clients : client'[d].pc = "list" =>
                 client'[d].op \in ListCommands /\ client'[d].item \in Items
BY DEF TypeOK, Becomes

LEMMA FinishTyped ==
    ASSUME TypeOK, NEW c \in Clients, Finish(c)
    PROVE  /\ client' \in [Clients -> ClientState]
           /\ \A d \in Clients : client'[d].pc = "list" =>
                 client'[d].op \in ListCommands /\ client'[d].item \in Items
BY IdleTyped, BecomesTyped DEF Finish

LEMMA GotoTyped ==
    ASSUME TypeOK, NEW c \in Clients, NEW l \in Labels, l # "list", Goto(c, l)
    PROVE  /\ client' \in [Clients -> ClientState]
           /\ \A d \in Clients : client'[d].pc = "list" =>
                 client'[d].op \in ListCommands /\ client'[d].item \in Items
<1>1. client[c] \in ClientState
  BY DEF TypeOK
<1>2. [client[c] EXCEPT !.pc = l] \in ClientState
  BY <1>1 DEF ClientState
<1>3. [client[c] EXCEPT !.pc = l].pc = l
  BY <1>1 DEF ClientState
<1>4. QED  BY <1>2, <1>3, BecomesTyped DEF Goto

LEMMA TypeOKInit == Init => TypeOK
<1>1. Defaults \in [settings : Valid, hooks : SUBSET Hooks, lists : Lists]
  BY DefaultsTyped DEF Contents, Defaults
<1>2. QED  BY <1>1, IdleTyped DEF Init, TypeOK

LEMMA BeginTyped ==
    ASSUME TypeOK, NEW c \in Clients, Begin(c)
    PROVE  TypeOK'
<1> PICK op \in Commands :
        \/ /\ op \in ListCommands
           /\ \E s \in Sections, i \in Items :
                 Becomes(c, [Idle EXCEPT !.op = op, !.pc = "list",
                                         !.section = s, !.item = i])
        \/ \E v \in Settings, hs \in SUBSET Hooks : Becomes(c, Given(op, v, hs))
        \/ Becomes(c, [Idle EXCEPT !.op = op, !.pc = "act", !.cfg = server,
                                   !.runs = ExtraCommands(server.hooks, {})])
  BY DEF Begin
<1> DEFINE Typed == /\ client' \in [Clients -> ClientState]
                    /\ \A d \in Clients : client'[d].pc = "list" =>
                          client'[d].op \in ListCommands /\ client'[d].item \in Items
<1> SUFFICES Typed
  BY DEF Begin, TypeOK
<1>1. CASE /\ op \in ListCommands
           /\ \E s \in Sections, i \in Items :
                 Becomes(c, [Idle EXCEPT !.op = op, !.pc = "list",
                                         !.section = s, !.item = i])
  <2> PICK s \in Sections, i \in Items :
          Becomes(c, [Idle EXCEPT !.op = op, !.pc = "list", !.section = s, !.item = i])
    BY <1>1
  <2> DEFINE new == [Idle EXCEPT !.op = op, !.pc = "list", !.section = s, !.item = i]
  <2>1. new \in ClientState /\ new.op = op /\ new.item = i
    BY IdleTyped DEF ClientState, Labels
  <2> HIDE DEF new
  <2>2. QED  BY <1>1, <2>1, BecomesTyped DEF new
<1>2. CASE \E v \in Settings, hs \in SUBSET Hooks : Becomes(c, Given(op, v, hs))
  <2> PICK v \in Settings, hs \in SUBSET Hooks : Becomes(c, Given(op, v, hs))
    BY <1>2
  <2>1. Given(op, v, hs) \in ClientState /\ Given(op, v, hs).pc = "load"
    BY IdleTyped DEF ClientState, Labels, Given
  <2>2. QED  BY <2>1, BecomesTyped
<1>3. CASE Becomes(c, [Idle EXCEPT !.op = op, !.pc = "act", !.cfg = server,
                                   !.runs = ExtraCommands(server.hooks, {})])
  <2> DEFINE runs == ExtraCommands(server.hooks, {})
             new  == [Idle EXCEPT !.op = op, !.pc = "act", !.cfg = server, !.runs = runs]
  <2>1. server \in Contents /\ runs \in [Hooks -> 0..2]
    BY SettingsAssumption, ExtraTyped DEF TypeOK, Contents
  <2> HIDE DEF runs
  <2>2. new \in ClientState /\ new.pc = "act"
    BY <2>1, IdleTyped DEF ClientState, Labels
  <2> HIDE DEF new
  <2>3. Becomes(c, new)
    BY <1>3 DEF new, runs
  <2>4. QED  BY <2>2, <2>3, BecomesTyped
<1>4. QED  BY <1>1, <1>2, <1>3

LEMMA ListTyped ==
    ASSUME TypeOK, NEW c \in Clients, List(c)
    PROVE  TypeOK'
<1> DEFINE me    == client[c]
           list  == Parsed.lists[me.section]
           after == Changed(me.op, list, me.item)
           new   == [me EXCEPT !.pc = "load", !.list = after]
<1>1. me \in ClientState /\ me.item \in Items /\ me.section \in Sections
  BY DEF TypeOK, ClientState, List, At
<1>2. list \in SUBSET Items
  BY <1>1, ParsedTyped DEF Contents, Lists
<1>3. after \in SUBSET Items
  BY <1>1, <1>2 DEF Changed
<1>4. new \in ClientState /\ new.pc = "load"
  <2> HIDE DEF after
  <2>1. QED  BY <1>1, <1>3 DEF ClientState, Labels
<1>5. Finish(c) \/ Becomes(c, new)
  BY DEF List
<1> HIDE DEF new
<1>6. QED  BY <1>4, <1>5, FinishTyped, BecomesTyped DEF List, TypeOK

LEMMA LoadTyped ==
    ASSUME TypeOK, NEW c \in Clients, Load(c)
    PROVE  TypeOK'
<1> DEFINE cfg  == Edited(client[c], Parsed)
           runs == ExtraCommands(Parsed.hooks, client[c].form)
           l    == IF client[c].op \notin {"start", "bootstrap"} THEN "truncate" ELSE "act"
           new  == [client[c] EXCEPT !.pc = l, !.cfg = cfg, !.runs = runs]
<1>1. client[c] \in ClientState
  BY DEF TypeOK
<1>2. cfg \in Contents /\ runs \in [Hooks -> 0..2]
  BY <1>1, ParsedTyped, EditedTyped, ExtraTyped
<1>3. new \in ClientState /\ new.pc # "list"
  <2> HIDE DEF cfg, runs
  <2>1. QED  BY <1>1, <1>2 DEF ClientState, Labels
<1>4. Becomes(c, new) \/ Finish(c)
  BY DEF Load
<1> HIDE DEF new
<1>5. QED  BY <1>3, <1>4, FinishTyped, BecomesTyped DEF Load, TypeOK

LEMMA TypeOKStep == TypeOK /\ [Next]_vars => TypeOK'
<1> SUFFICES ASSUME TypeOK, [Next]_vars PROVE TypeOK'
  OBVIOUS
<1>1. ASSUME NEW c \in Clients, Begin(c) PROVE TypeOK'
  BY <1>1, BeginTyped
<1>2. ASSUME NEW c \in Clients, List(c) PROVE TypeOK'
  BY <1>2, ListTyped
<1>3. ASSUME NEW c \in Clients, Load(c) PROVE TypeOK'
  BY <1>3, LoadTyped
<1>4. ASSUME NEW c \in Clients, Truncate(c) PROVE TypeOK'
  BY <1>4, GotoTyped, FinishTyped DEF Truncate, Labels, TypeOK
<1>5. ASSUME NEW c \in Clients, Write(c) PROVE TypeOK'
  <2>1. client[c].cfg \in Contents
    BY DEF TypeOK, ClientState
  <2>2. QED  BY <1>5, <2>1, GotoTyped, FinishTyped DEF Write, Labels, TypeOK
<1>6. ASSUME NEW c \in Clients, Act(c) \/ Kill(c) PROVE TypeOK'
  BY <1>6, FinishTyped DEF Act, Kill, TypeOK
<1>7. ASSUME ServerStart PROVE TypeOK'
  BY <1>7, ParsedTyped DEF ServerStart, Loads, TypeOK, Contents
<1>8. ASSUME UNCHANGED vars PROVE TypeOK'
  BY <1>8 DEF vars, TypeOK
<1>9. QED  BY <1>1, <1>2, <1>3, <1>4, <1>5, <1>6, <1>7, <1>8 DEF Next, Client

(* Every variable keeps its type; the web server's configuration is valid.  *)
THEOREM TypeCorrect == Spec => []TypeOK
BY TypeOKInit, TypeOKStep, PTL DEF Spec

-----------------------------------------------------------------------------
(* One command at a time: the file implements the store.                    *)

SoleClient == \A c, d \in Clients : c = d

(* What a list command has in hand is made from the list in the file.       *)
ListReady(c) ==
    LET me   == client[c]
        list == Parsed.lists[me.section]
    IN  me.op \in ListCommands =>
          /\ me.item \in Items
          /\ me.op = "add" <=> me.item \notin list
          /\ me.list = Changed(me.op, list, me.item)

(* The strengthening: between its reads and its write a sole command sees   *)
(* the file as it was, and the file is empty between truncation and write.  *)
Held ==
    \A c \in Clients :
        /\ At(c, "load") => ListReady(c)
        /\ At(c, "truncate") => /\ ListReady(c) /\ client[c].op \notin {"start", "bootstrap"}
                                /\ client[c].cfg = Edited(client[c], Parsed)
        /\ At(c, "write") => file = Empty

LEMMA HeldInit == Init => Held
BY IdleTyped DEF Init, Held, At

(* A client that is not past its first read has nothing to keep.            *)
LEMMA NothingHeld ==
    ASSUME SoleClient, NEW c \in Clients, client'[c].pc \in {"idle", "list", "act"}
    PROVE  Held'
BY DEF SoleClient, Held, At

LEMMA FinishHeld ==
    ASSUME TypeOK, SoleClient, NEW c \in Clients, Finish(c)
    PROVE  Held' /\ client'[c].pc = "idle"
<1>1. client'[c].pc = "idle"
  BY IdleTyped DEF TypeOK, Finish, Becomes
<1>2. QED  BY <1>1, NothingHeld

(* Where Begin leads.                                                       *)
LEMMA BeginLeads ==
    ASSUME TypeOK, NEW c \in Clients, Begin(c)
    PROVE  \/ client'[c].pc = "list"
           \/ client'[c].pc = "load" /\ client'[c].op \notin ListCommands
           \/ client'[c].pc = "act" /\ "web_start" \in Commands
<1>1. \A s : Becomes(c, s) => client'[c] = s
  BY DEF TypeOK, Becomes
<1>2. Idle \in ClientState
  BY IdleTyped
<1>3. PICK op \in Commands :
        \/ \E s \in Sections, i \in Items :
              client'[c] = [Idle EXCEPT !.op = op, !.pc = "list",
                                        !.section = s, !.item = i]
        \/ /\ op \notin ListCommands
           /\ \E v \in Settings, hs \in SUBSET Hooks : client'[c] = Given(op, v, hs)
        \/ /\ op = "web_start"
           /\ client'[c] = [Idle EXCEPT !.op = op, !.pc = "act", !.cfg = server,
                                        !.runs = ExtraCommands(server.hooks, {})]
  BY <1>1 DEF Begin
<1>4. CASE \E s \in Sections, i \in Items :
              client'[c] = [Idle EXCEPT !.op = op, !.pc = "list",
                                        !.section = s, !.item = i]
  BY <1>2, <1>4 DEF ClientState
<1>5. CASE /\ op \notin ListCommands
           /\ \E v \in Settings, hs \in SUBSET Hooks : client'[c] = Given(op, v, hs)
  BY <1>2, <1>5 DEF ClientState, Given
<1>6. CASE /\ op = "web_start"
           /\ client'[c] = [Idle EXCEPT !.op = op, !.pc = "act", !.cfg = server,
                                        !.runs = ExtraCommands(server.hooks, {})]
  BY <1>2, <1>6 DEF ClientState
<1>7. QED  BY <1>3, <1>4, <1>5, <1>6

LEMMA ListHeld ==
    ASSUME TypeOK, SoleClient, NEW c \in Clients, List(c)
    PROVE  Held' /\ client'[c].pc # "write"
<1> DEFINE me   == client[c]
           list == Parsed.lists[me.section]
           new  == [me EXCEPT !.pc = "load", !.list = Changed(me.op, list, me.item)]
<1>1. me \in ClientState /\ me.op \in ListCommands /\ me.item \in Items
  BY DEF TypeOK, List, At
<1>2. CASE Finish(c)
  BY <1>2, FinishHeld
<1>3. CASE /\ me.op = "add" <=> me.item \notin list
           /\ Becomes(c, new)
  <2>1. client'[c] = new /\ Parsed' = Parsed
    BY <1>3 DEF TypeOK, Becomes, List, Parsed
  <2>2. /\ new.pc = "load" /\ new.op = me.op /\ new.item = me.item
        /\ new.section = me.section
        /\ new.list = Changed(me.op, list, me.item)
    BY <1>1 DEF ClientState
  <2> HIDE DEF new
  <2>3. ListReady(c)'
    BY <1>1, <1>3, <2>1, <2>2 DEF ListReady
  <2>4. client'[c].pc = "load"
    BY <2>1, <2>2
  <2>5. QED  BY <2>3, <2>4 DEF SoleClient, Held, At
<1>4. QED  BY <1>2, <1>3 DEF List

LEMMA LoadHeld ==
    ASSUME TypeOK, SoleClient, Held, NEW c \in Clients, Load(c)
    PROVE  Held' /\ client'[c].pc # "write"
<1> DEFINE me   == client[c]
           l    == IF me.op \notin {"start", "bootstrap"} THEN "truncate" ELSE "act"
           cfg  == Edited(me, Parsed)
           runs == ExtraCommands(Parsed.hooks, me.form)
           new  == [me EXCEPT !.pc = l, !.cfg = cfg, !.runs = runs]
<1>1. me \in ClientState /\ ListReady(c)
  BY DEF TypeOK, Held, Load
<1>2. CASE Finish(c)
  BY <1>2, FinishHeld
<1>3. CASE Becomes(c, new)
  <2>1. client'[c] = new /\ Parsed' = Parsed
    BY <1>3 DEF TypeOK, Becomes, Load, Parsed
  <2>2. /\ new.pc = l /\ new.cfg = cfg /\ new.op = me.op /\ new.item = me.item
        /\ new.section = me.section /\ new.list = me.list /\ new.new = me.new
        /\ new.form = me.form
    <3> HIDE DEF cfg, l, runs
    <3>1. QED  BY <1>1 DEF ClientState
  <2> HIDE DEF new
  <2>3. ListReady(c)'
    BY <1>1, <2>1, <2>2 DEF ListReady
  <2>4. Edited(new, Parsed) = cfg
    BY <2>2 DEF Edited
  <2>5. QED  BY <2>1, <2>2, <2>3, <2>4 DEF SoleClient, Held, At
<1>4. QED  BY <1>2, <1>3 DEF Load

LEMMA HeldStep == TypeOK /\ SoleClient /\ Held /\ [Next]_vars => Held'
<1> SUFFICES ASSUME TypeOK, SoleClient, Held, [Next]_vars PROVE Held'
  OBVIOUS
<1>1. ASSUME NEW c \in Clients, Begin(c) PROVE Held'
  <2>1. CASE client'[c].pc \in {"list", "act"}
    BY <2>1, NothingHeld
  <2>2. CASE client'[c].pc = "load" /\ client'[c].op \notin ListCommands
    BY <2>2 DEF SoleClient, Held, At, ListReady
  <2>3. QED  BY <1>1, <2>1, <2>2, BeginLeads
<1>2. ASSUME NEW c \in Clients, List(c) PROVE Held'
  BY <1>2, ListHeld
<1>3. ASSUME NEW c \in Clients, Load(c) PROVE Held'
  BY <1>3, LoadHeld
<1>4. ASSUME NEW c \in Clients, Truncate(c) PROVE Held'
  <2>1. CASE Finish(c)
    BY <2>1, FinishHeld
  <2>2. CASE Goto(c, "write") /\ file' = Empty
    <3>1. client'[c].pc = "write"
      BY <2>2 DEF TypeOK, ClientState, Goto, Becomes
    <3>2. QED  BY <2>2, <3>1 DEF SoleClient, Held, At
  <2>3. QED  BY <1>4, <2>1, <2>2 DEF Truncate
<1>5. ASSUME NEW c \in Clients, Write(c) PROVE Held'
  <2>1. CASE Finish(c)
    BY <2>1, FinishHeld
  <2>2. CASE Goto(c, "act")
    <3>1. client'[c].pc = "act"
      BY <2>2 DEF TypeOK, ClientState, Goto, Becomes
    <3>2. QED  BY <3>1, NothingHeld
  <2>3. QED  BY <1>5, <2>1, <2>2 DEF Write
<1>6. ASSUME NEW c \in Clients, Act(c) \/ Kill(c) PROVE Held'
  BY <1>6, FinishHeld DEF Act, Kill
<1>7. CASE ServerStart \/ UNCHANGED vars
  BY <1>7 DEF ServerStart, vars, Held, At, ListReady, Parsed
<1>8. QED  BY <1>1, <1>2, <1>3, <1>4, <1>5, <1>6, <1>7 DEF Next, Client

(* What Saved stands for.                                                   *)
LEMMA SavedMeans ==
    ASSUME SoleClient, NEW c \in Clients
    PROVE  /\ At(c, "write") => Saved = client[c].cfg
           /\ ~At(c, "write") => Saved = Parsed
BY DEF SoleClient, Saved

LEMMA SavedMeansNext ==
    ASSUME SoleClient, NEW c \in Clients
    PROVE  /\ client'[c].pc = "write" => Saved' = client'[c].cfg
           /\ client'[c].pc # "write" => Saved' = Parsed'
BY DEF SoleClient, Saved, At

LEMMA SavedTyped ==
    ASSUME TypeOK, SoleClient
    PROVE  Saved \in Contents
<1>1. CASE \E c \in Clients : At(c, "write")
  BY <1>1, SavedMeans DEF TypeOK, ClientState
<1>2. CASE ~\E c \in Clients : At(c, "write")
  BY <1>2, ParsedTyped DEF Saved
<1>3. QED  BY <1>1, <1>2

(* What a command has made of the configuration is one step of the store.   *)
LEMMA EditStores ==
    ASSUME TypeOK, NEW c \in Clients, ListReady(c),
           client[c].op \notin {"start", "bootstrap"},
           Saved = Parsed, Saved' = Edited(client[c], Parsed)
    PROVE  Store!Next
<1> DEFINE me   == client[c]
           s    == me.section
           list == Parsed.lists[s]
           hs   == IF me.form = {} THEN Parsed.hooks ELSE me.form
<1>1. /\ me \in ClientState /\ s \in Sections /\ me.new \in Settings
      /\ hs \in SUBSET Hooks
  BY ParsedTyped DEF TypeOK, ClientState, Contents
<1>2. CASE me.op \notin ListCommands
  <2>1. Saved' = [Saved EXCEPT !.settings = me.new, !.hooks = hs]
    BY <1>2 DEF Edited
  <2> HIDE DEF hs
  <2>2. Store!Change(me.new, hs)
    BY <2>1 DEF Store!Change
  <2>3. QED  BY <1>1, <2>2 DEF Store!Next
<1>3. CASE me.op \in ListCommands
  <2>1. Saved' = [Saved EXCEPT !.lists = [Saved.lists EXCEPT ![s] = me.list]]
    BY <1>3 DEF Edited
  <2>2. me.item \in Items /\ (me.op = "add" <=> me.item \notin list)
        /\ me.list = Changed(me.op, list, me.item)
    BY <1>3 DEF ListReady
  <2>3. CASE me.op = "add"
    <3>1. me.list = Saved.lists[s] \union {me.item} /\ me.item \notin Saved.lists[s]
      BY <2>2, <2>3 DEF Changed
    <3>2. Saved' = [Saved EXCEPT !.lists =
                      [Saved.lists EXCEPT ![s] = Saved.lists[s] \union {me.item}]]
      BY <2>1, <3>1
    <3>3. Store!Add(s, me.item)
      BY <3>1, <3>2 DEF Store!Add
    <3>4. QED  BY <1>1, <2>2, <3>3 DEF Store!Next
  <2>4. CASE me.op # "add"
    <3>1. me.list = Saved.lists[s] \ {me.item} /\ me.item \in Saved.lists[s]
      BY <2>2, <2>4 DEF Changed
    <3>2. Saved' = [Saved EXCEPT !.lists =
                      [Saved.lists EXCEPT ![s] = Saved.lists[s] \ {me.item}]]
      BY <2>1, <3>1
    <3>3. Store!Remove(s, me.item)
      BY <3>1, <3>2 DEF Store!Remove
    <3>4. QED  BY <1>1, <2>2, <3>3 DEF Store!Next
  <2>5. QED  BY <2>3, <2>4
<1>4. QED  BY <1>2, <1>3

LEMMA StoreInit == Init => Store!Init
BY IdleTyped DEF Init, Store!Init, Saved, Parsed, At

(* Every step is one of the store or leaves it as it was.                   *)
LEMMA StoreStep ==
    TypeOK /\ SoleClient /\ Held /\ [Next]_vars => [Store!Next]_Saved
<1> SUFFICES ASSUME TypeOK, SoleClient, Held, [Next]_vars
             PROVE  Store!Next \/ Saved' = Saved
  OBVIOUS
<1> DEFINE Step == Store!Next \/ Saved' = Saved
<1>a. ASSUME NEW c \in Clients, ~At(c, "write"), client'[c].pc # "write", UNCHANGED file
      PROVE  Step
  <2>1. Saved = Parsed /\ Saved' = Parsed'
    BY <1>a, SavedMeans, SavedMeansNext
  <2>2. QED  BY <1>a, <2>1 DEF Parsed
<1>1. ASSUME NEW c \in Clients, Begin(c) PROVE Step
  <2>1. client'[c].pc # "write"
    BY <1>1, BeginLeads
  <2>2. QED  BY <1>1, <1>a, <2>1 DEF Begin, At
<1>2. ASSUME NEW c \in Clients, List(c) \/ Load(c) PROVE Step
  BY <1>2, <1>a, ListHeld, LoadHeld DEF List, Load, At
<1>3. ASSUME NEW c \in Clients, Truncate(c) PROVE Step
  <2>1. CASE Goto(c, "write") /\ file' = Empty
    <3>1. client'[c].pc = "write" /\ client'[c].cfg = client[c].cfg
      BY <2>1 DEF TypeOK, ClientState, Goto, Becomes
    <3>2. Saved' = Edited(client[c], Parsed) /\ Saved = Parsed
      BY <1>3, <3>1, SavedMeans, SavedMeansNext DEF Truncate, At, Held
    <3>3. ListReady(c) /\ client[c].op \notin {"start", "bootstrap"}
      BY <1>3 DEF Truncate, Held
    <3>4. QED  BY <3>2, <3>3, EditStores
  <2>2. CASE Finish(c) /\ UNCHANGED file
    BY <1>3, <1>a, <2>2, FinishHeld DEF Truncate, At
  <2>3. QED  BY <1>3, <2>1, <2>2 DEF Truncate
<1>4. ASSUME NEW c \in Clients, Write(c) PROVE Step
  <2>1. client'[c].pc # "write"
    BY <1>4, FinishHeld DEF TypeOK, ClientState, Write, Goto, Becomes
  <2>2. Saved = client[c].cfg /\ Saved' = Parsed'
    BY <1>4, <2>1, SavedMeans, SavedMeansNext DEF Write
  <2>3. CASE file' = client[c].cfg
    <3>1. client[c].cfg # Empty
      BY EmptyAssumption DEF TypeOK, ClientState
    <3>2. QED  BY <2>2, <2>3, <3>1 DEF Parsed
  <2>4. CASE "full" \in Environment /\ UNCHANGED file
    <3>1. Saved' = Defaults
      BY <1>4, <2>2, <2>4 DEF Held, Write, Parsed
    <3>2. QED  BY <2>4, <3>1 DEF Store!Next, Store!Lose
  <2>5. QED  BY <1>4, <2>3, <2>4 DEF Write
<1>5. ASSUME NEW c \in Clients, Act(c) PROVE Step
  BY <1>5, <1>a, FinishHeld DEF Act, At
<1>6. ASSUME NEW c \in Clients, Kill(c) PROVE Step
  <2>1. client'[c].pc = "idle"
    BY <1>6, FinishHeld DEF Kill
  <2>2. CASE ~At(c, "write")
    BY <1>6, <1>a, <2>1, <2>2 DEF Kill
  <2>3. CASE At(c, "write")
    <3>1. Saved' = Defaults
      BY <1>6, <2>1, <2>3, SavedMeansNext DEF Held, Kill, Parsed
    <3>2. QED  BY <1>6, <3>1 DEF Kill, Store!Next, Store!Lose
  <2>4. QED  BY <2>2, <2>3
<1>7. CASE ServerStart \/ UNCHANGED vars
  BY <1>7 DEF ServerStart, vars, Saved, Parsed, At
<1>8. QED  BY <1>1, <1>2, <1>3, <1>4, <1>5, <1>6, <1>7 DEF Next, Client

(* While commands run one at a time, the file implements ConfigStore: a     *)
(* command changes its own part of the configuration and nothing else, and  *)
(* only a save that was killed, or could not be written, loses it, whole.   *)
THEOREM FileImplementsStore ==
    ASSUME SoleClient
    PROVE  Spec => ImplementsStore
<1>1. TypeOK /\ Held /\ [Next]_vars => Held'
  BY HeldStep
<1>2. TypeOK /\ Held /\ [Next]_vars => [Store!Next]_Saved
  BY StoreStep
<1>3. QED
  BY <1>1, <1>2, TypeOKInit, TypeOKStep, HeldInit, StoreInit, PTL
     DEF Spec, ImplementsStore, Store!Spec

-----------------------------------------------------------------------------
(* What the commands act on.                                                *)

(* A Config is not written, and not acted on, unless its extra commands     *)
(* hold its hooks; a start is given no others.                              *)
Prepared ==
    \A c \in Clients :
        /\ client[c].op = "start" => client[c].form = {}
        /\ client[c].pc \in {"truncate", "write", "act"} =>
              \A h \in client[c].cfg.hooks : client[c].runs[h] > 0

LEMMA ExtraMeans ==
    ASSUME NEW saved, NEW given, NEW h \in Hooks
    PROVE  ExtraCommands(saved, given)[h] > 0 <=> h \in saved \union given
<1>1. ExtraCommands(saved, given)[h] =
          (IF h \in saved THEN 1 ELSE 0) + (IF h \in given THEN 1 ELSE 0)
  BY DEF ExtraCommands
<1>2. CASE h \in saved /\ h \in given
  BY <1>1, <1>2
<1>3. CASE h \in saved /\ h \notin given
  BY <1>1, <1>3
<1>4. CASE h \notin saved /\ h \in given
  BY <1>1, <1>4
<1>5. CASE h \notin saved /\ h \notin given
  BY <1>1, <1>5
<1>6. QED  BY <1>2, <1>3, <1>4, <1>5

LEMMA PreparedInit == Init => Prepared
<1>1. Idle.form = {} /\ Idle.pc = "idle"
  BY DEF Idle
<1>2. QED  BY <1>1 DEF Init, Prepared

(* The other clients stay prepared.                                         *)
LEMMA OnePrepared ==
    ASSUME TypeOK, Prepared, NEW c \in Clients, NEW s, Becomes(c, s),
           s.op = "start" => s.form = {},
           s.pc \in {"truncate", "write", "act"} => \A h \in s.cfg.hooks : s.runs[h] > 0
    PROVE  Prepared'
BY DEF TypeOK, Prepared, Becomes

LEMMA FinishPrepared ==
    ASSUME TypeOK, Prepared, NEW c \in Clients, Finish(c)
    PROVE  Prepared'
BY OnePrepared DEF Finish, Idle

LEMMA GotoPrepared ==
    ASSUME TypeOK, Prepared, NEW c \in Clients, NEW l, Goto(c, l),
           client[c].pc \in {"truncate", "write"}
    PROVE  Prepared'
<1> DEFINE s == [client[c] EXCEPT !.pc = l]
<1>1. /\ s.op = client[c].op /\ s.form = client[c].form
      /\ s.cfg = client[c].cfg /\ s.runs = client[c].runs
  BY DEF TypeOK, ClientState
<1>2. Becomes(c, s)
  BY DEF Goto
<1> HIDE DEF s
<1>3. QED  BY <1>1, <1>2, OnePrepared DEF Prepared

LEMMA EditedHooks ==
    ASSUME NEW me \in ClientState, NEW cfg \in Contents
    PROVE  Edited(me, cfg).hooks \in {cfg.hooks, me.form}
BY DEF Edited, ClientState, Contents

LEMMA PreparedStep == TypeOK /\ Prepared /\ [Next]_vars => Prepared'
<1> SUFFICES ASSUME TypeOK, Prepared, [Next]_vars PROVE Prepared'
  OBVIOUS
<1>1. ASSUME NEW c \in Clients, Begin(c) PROVE Prepared'
  <2> PICK op \in Commands :
          \/ \E s \in Sections, i \in Items :
                Becomes(c, [Idle EXCEPT !.op = op, !.pc = "list",
                                        !.section = s, !.item = i])
          \/ \E v \in Settings, hs \in SUBSET Hooks :
                (op = "start" => hs = {}) /\ Becomes(c, Given(op, v, hs))
          \/ Becomes(c, [Idle EXCEPT !.op = op, !.pc = "act", !.cfg = server,
                                     !.runs = ExtraCommands(server.hooks, {})])
    BY <1>1 DEF Begin
  <2>1. CASE \E s \in Sections, i \in Items :
                Becomes(c, [Idle EXCEPT !.op = op, !.pc = "list",
                                        !.section = s, !.item = i])
    BY <2>1, OnePrepared DEF Idle
  <2>2. CASE \E v \in Settings, hs \in SUBSET Hooks :
                (op = "start" => hs = {}) /\ Becomes(c, Given(op, v, hs))
    BY <2>2, OnePrepared DEF Given, Idle
  <2>3. CASE Becomes(c, [Idle EXCEPT !.op = op, !.pc = "act", !.cfg = server,
                                     !.runs = ExtraCommands(server.hooks, {})])
    <3> DEFINE runs == ExtraCommands(server.hooks, {})
               new  == [Idle EXCEPT !.op = op, !.pc = "act", !.cfg = server, !.runs = runs]
    <3>1. server.hooks \in SUBSET Hooks
      BY DEF TypeOK
    <3>2. \A h \in server.hooks : runs[h] > 0
      BY <3>1, ExtraMeans
    <3>3. Becomes(c, new)
      BY <2>3
    <3> HIDE DEF runs
    <3>4. new.form = {} /\ new.cfg = server /\ new.runs = runs
      BY DEF Idle
    <3> HIDE DEF new
    <3>5. QED  BY <3>2, <3>3, <3>4, OnePrepared
  <2>4. QED  BY <2>1, <2>2, <2>3
<1>2. ASSUME NEW c \in Clients, List(c) PROVE Prepared'
  <2>1. CASE Finish(c)
    BY <2>1, FinishPrepared
  <2>2. CASE ~Finish(c)
    <3> PICK list : Becomes(c, [client[c] EXCEPT !.pc = "load", !.list = list])
      BY <1>2, <2>2 DEF List
    <3> DEFINE new == [client[c] EXCEPT !.pc = "load", !.list = list]
    <3>1. new.op = client[c].op /\ new.form = client[c].form /\ new.pc = "load"
      BY DEF TypeOK, ClientState
    <3>2. Becomes(c, new)
      OBVIOUS
    <3> HIDE DEF new
    <3>3. QED  BY <3>1, <3>2, OnePrepared DEF Prepared
  <2>3. QED  BY <2>1, <2>2
<1>3. ASSUME NEW c \in Clients, Load(c) PROVE Prepared'
  <2> DEFINE cfg  == Edited(client[c], Parsed)
             runs == ExtraCommands(Parsed.hooks, client[c].form)
             l    == IF client[c].op \notin {"start", "bootstrap"} THEN "truncate" ELSE "act"
             new  == [client[c] EXCEPT !.pc = l, !.cfg = cfg, !.runs = runs]
  <2>1. /\ client[c] \in ClientState /\ Parsed \in Contents
        /\ Parsed.hooks \in SUBSET Hooks /\ client[c].form \in SUBSET Hooks
    BY ParsedTyped DEF TypeOK, ClientState, Contents
  <2>2. cfg.hooks \in {Parsed.hooks, client[c].form}
    BY <2>1, EditedHooks
  <2>3. \A h \in cfg.hooks : runs[h] > 0
    <3> HIDE DEF cfg
    <3>1. QED  BY <2>1, <2>2, ExtraMeans
  <2>4. Becomes(c, new) \/ Finish(c)
    BY <1>3 DEF Load
  <2> HIDE DEF cfg, runs, l
  <2>5. /\ new.op = client[c].op /\ new.form = client[c].form
        /\ new.cfg = cfg /\ new.runs = runs
    BY <2>1 DEF ClientState
  <2> HIDE DEF new
  <2>6. QED  BY <2>3, <2>4, <2>5, OnePrepared, FinishPrepared DEF Prepared
<1>4. ASSUME NEW c \in Clients, Truncate(c) \/ Write(c) PROVE Prepared'
  BY <1>4, GotoPrepared, FinishPrepared DEF Truncate, Write, At
<1>5. ASSUME NEW c \in Clients, Act(c) \/ Kill(c) PROVE Prepared'
  BY <1>5, FinishPrepared DEF Act, Kill
<1>6. CASE ServerStart \/ UNCHANGED vars
  BY <1>6 DEF ServerStart, vars, Prepared
<1>7. QED  BY <1>1, <1>2, <1>3, <1>4, <1>5, <1>6 DEF Next, Client

(* ActsOnSaved of one client, whose Config is the saved one.                *)
LEMMA ActsSole ==
    ASSUME SoleClient, NEW c \in Clients, TypeOK', Prepared',
           client'[c].cfg = Saved',
           client'[c].op = "start" =>
               client'[c].runs = ExtraCommands(client'[c].cfg.hooks, {})
    PROVE  ActsOnSaved'
<1> SUFFICES ASSUME client'[c].pc = "act" PROVE ActsOnSaved'
  BY DEF SoleClient, ActsOnSaved, At
<1> DEFINE runs == {h \in Hooks : client'[c].runs[h] > 0}
<1>1. client'[c].cfg.hooks \in SUBSET Hooks
  BY DEF TypeOK, ClientState, Contents
<1>2. \A h \in client'[c].cfg.hooks : client'[c].runs[h] > 0
  BY DEF Prepared
<1>3. Saved'.hooks \subseteq runs
  BY <1>1, <1>2
<1>4. client'[c].op = "start" => runs = Saved'.hooks
  BY <1>1, <1>3, ExtraMeans
<1>5. QED  BY <1>3, <1>4 DEF SoleClient, ActsOnSaved, At

LEMMA ActsStep ==
    ASSUME TypeOK, TypeOK', SoleClient, Held, Prepared, Prepared',
           "web_start" \notin Commands, ActsOnSaved, [Next]_vars
    PROVE  ActsOnSaved'
<1>a. ASSUME NEW c \in Clients, client'[c].pc # "act" PROVE ActsOnSaved'
  BY <1>a DEF SoleClient, ActsOnSaved, At
<1>b. ASSUME NEW c \in Clients, Finish(c) PROVE ActsOnSaved'
  BY <1>a, <1>b, FinishHeld
<1>1. ASSUME NEW c \in Clients, Begin(c) PROVE ActsOnSaved'
  <2>1. client'[c].pc # "act"
    BY <1>1, BeginLeads
  <2>2. QED  BY <1>a, <2>1
<1>2. ASSUME NEW c \in Clients, List(c) PROVE ActsOnSaved'
  <2>1. CASE Finish(c)
    BY <1>b, <2>1
  <2>2. CASE ~Finish(c)
    <3> PICK list : Becomes(c, [client[c] EXCEPT !.pc = "load", !.list = list])
      BY <1>2, <2>2 DEF List
    <3>1. client'[c].pc = "load"
      BY DEF Becomes, TypeOK, ClientState
    <3>2. QED  BY <1>a, <3>1
  <2>3. QED  BY <2>1, <2>2
<1>3. ASSUME NEW c \in Clients, Load(c) PROVE ActsOnSaved'
  <2> DEFINE me   == client[c]
             cfg  == Edited(me, Parsed)
             runs == ExtraCommands(Parsed.hooks, me.form)
             l    == IF me.op \notin {"start", "bootstrap"} THEN "truncate" ELSE "act"
             new  == [me EXCEPT !.pc = l, !.cfg = cfg, !.runs = runs]
  <2>1. CASE Finish(c)
    BY <1>b, <2>1
  <2>2. CASE Becomes(c, new)
    <3>1. client'[c] = new
      BY <2>2 DEF TypeOK, Becomes
    <3>2. /\ client'[c].pc = l /\ client'[c].cfg = cfg /\ client'[c].runs = runs
          /\ client'[c].op = me.op
      <4> HIDE DEF cfg, runs, l
      <4>1. QED  BY <3>1 DEF TypeOK, ClientState
    <3>3. CASE me.op \notin {"start", "bootstrap"}
      BY <1>a, <3>2, <3>3
    <3>4. CASE me.op \in {"start", "bootstrap"}
      <4>1. cfg = Parsed
        BY <3>4 DEF Edited, ListCommands
      <4>2. Parsed' = Parsed
        BY <1>3 DEF Load, Parsed
      <4>3. Saved' = Parsed'
        BY <3>2, <3>4, SavedMeansNext
      <4>4. me.op = "start" => runs = ExtraCommands(Parsed.hooks, {})
        BY DEF Prepared
      <4> HIDE DEF cfg, runs
      <4>5. QED  BY <3>2, <4>1, <4>2, <4>3, <4>4, ActsSole
    <3>5. QED  BY <3>3, <3>4
  <2>3. QED  BY <1>3, <2>1, <2>2 DEF Load
<1>4. ASSUME NEW c \in Clients, Truncate(c) PROVE ActsOnSaved'
  <2>1. CASE Goto(c, "write")
    <3>1. client'[c].pc = "write"
      BY <2>1 DEF TypeOK, ClientState, Goto, Becomes
    <3>2. QED  BY <1>a, <3>1
  <2>2. QED  BY <1>4, <1>b, <2>1 DEF Truncate
<1>5. ASSUME NEW c \in Clients, Write(c) PROVE ActsOnSaved'
  <2>1. CASE Goto(c, "act") /\ file' = client[c].cfg
    <3>1. /\ client'[c].pc = "act" /\ client'[c].cfg = client[c].cfg
          /\ client'[c].op = client[c].op
      BY <2>1 DEF TypeOK, ClientState, Goto, Becomes
    <3>2. client[c].cfg # Empty
      BY EmptyAssumption DEF TypeOK, ClientState
    <3>3. Saved' = client[c].cfg
      BY <2>1, <3>1, <3>2, SavedMeansNext DEF Parsed
    <3>4. client[c].op = "configure"
      BY <1>5, <2>1, <3>1, FinishHeld DEF Write
    <3>5. QED  BY <3>1, <3>3, <3>4, ActsSole
  <2>2. QED  BY <1>5, <1>b, <2>1 DEF Write
<1>6. ASSUME NEW c \in Clients, Act(c) \/ Kill(c) PROVE ActsOnSaved'
  BY <1>6, <1>b DEF Act, Kill
<1>7. CASE ServerStart \/ UNCHANGED vars
  BY <1>7 DEF ServerStart, vars, ActsOnSaved, Saved, Parsed, At
<1>8. QED  BY <1>1, <1>2, <1>3, <1>4, <1>5, <1>6, <1>7 DEF Next, Client

(* While commands run one at a time and none of them is a start from the    *)
(* web UI, a start or a bootstrap acts on the settings that are saved and   *)
(* runs every hook that is saved, and a start runs no other.  (What else a  *)
(* bootstrap runs, and how often, is no part of it: see HooksRunOnce.)      *)
THEOREM CommandsActOnSaved ==
    ASSUME SoleClient, "web_start" \notin Commands
    PROVE  Spec => []ActsOnSaved
<1>1. Init => ActsOnSaved
  BY IdleTyped DEF Init, ActsOnSaved, At
<1>2. TypeOK /\ Held /\ [Next]_vars => Held'
  BY HeldStep
<1>3. TypeOK /\ TypeOK' /\ Held /\ Prepared /\ Prepared' /\ ActsOnSaved /\ [Next]_vars
          => ActsOnSaved'
  BY ActsStep
<1>4. QED
  BY <1>1, <1>2, <1>3, TypeOKInit, TypeOKStep, HeldInit, PreparedInit, PreparedStep, PTL
     DEF Spec
=============================================================================
