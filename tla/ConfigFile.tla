------------------------------ MODULE ConfigFile ------------------------------
(***************************************************************************)
(* vmctl.yaml: config.go, yaml_config.go, sync_config.go, tunnel_config.go *)
(* and the commands that change it.                                        *)
(*                                                                         *)
(* Every save writes the whole file, in two steps: os.WriteFile truncates  *)
(* and then writes.  Every reader takes an empty file for the defaults.    *)
(* There is no lock, and a command that changes a list reads the file      *)
(* twice: for the list, and for all the rest when it saves the list.       *)
(*                                                                         *)
(* A definition marked "faulty variant" is no part of the model: it is the *)
(* definition that follows with a bug, to show that a property notices it. *)
(***************************************************************************)
EXTENDS Naturals

CONSTANTS
    Clients,        \* CLI invocations and web handlers
    Items,          \* identifiers of sync pairs and of tunnels
    NoItem,         \* the command is about no list
    Hooks,          \* paths of hook scripts
    Settings,       \* values of everything else
    Valid,          \* those validateConfig accepts
    DefaultSettings,
    Empty,          \* a file of no bytes, or no file
    Commands,       \* the commands clients run in this instance
    Environment     \* what may happen in this instance, see below

ListCommands == {"add", "remove"}

ASSUME IdentifiersAssumption == NoItem \notin Items
ASSUME SettingsAssumption    == Valid \subseteq Settings /\ DefaultSettings \in Valid
ASSUME CommandsAssumption    ==
    Commands \subseteq ListCommands \union {"set_ip", "configure",
                                          "bootstrap", "start", "web_start"}

(* "kill"  a client dies at any step.                                      *)
(* "full"  the file is truncated but cannot be written.                    *)
ASSUME EnvironmentAssumption == Environment \subseteq {"kill", "full"}

VARIABLES
    client,     \* client[c]: the command c runs and where it is in it
    file,       \* what vmctl.yaml holds
    server      \* what the web server loaded when it started

vars == <<client, file, server>>

Sections == {"sync", "tunnels"}
Labels   == {"idle", "list", "load", "truncate", "write", "act"}

Lists    == [Sections -> SUBSET Items]
Contents == [settings : Settings, hooks : SUBSET Hooks, lists : Lists]
Defaults == [settings |-> DefaultSettings, hooks |-> {},
             lists |-> [s \in Sections |-> {}]]

ASSUME EmptyAssumption == Empty \notin Contents

ClientState == [op      : Commands \union {"none"},
                pc      : Labels,
                section : Sections,                 \* the list to change,
                item    : Items \union {NoItem},    \* and what to add or remove
                new     : Settings,                 \* the settings to save
                form    : SUBSET Hooks,             \* the hooks a bootstrap is given
                list    : SUBSET Items,             \* the list to save
                cfg     : Contents,                 \* the Config in hand
                runs    : [Hooks -> 0..2]]          \* how often its extra commands
                                                    \* hold each hook

(* The web server runs on a configuration that was validated; what reads a *)
(* list is about to change it.                                             *)
TypeOK ==
    /\ client \in [Clients -> ClientState]
    /\ file \in Contents \union {Empty}
    /\ server \in [settings : Valid, hooks : SUBSET Hooks, lists : Lists]
    /\ \A c \in Clients : client[c].pc = "list" =>
          client[c].op \in ListCommands /\ client[c].item \in Items

Idle == [op |-> "none", pc |-> "idle", section |-> "sync", item |-> NoItem,
         new |-> DefaultSettings, form |-> {}, list |-> {}, cfg |-> Defaults,
         runs |-> [h \in Hooks |-> 0]]

Init ==
    /\ client = [c \in Clients |-> Idle]
    /\ file = Empty
    /\ server = Defaults

-----------------------------------------------------------------------------
(* Operators on the state.                                                 *)

At(c, label) == client[c].pc = label
Becomes(c, state) == client' = [client EXCEPT ![c] = state]
Goto(c, label) == Becomes(c, [client[c] EXCEPT !.pc = label])
Finish(c) == Becomes(c, Idle)

(* loadVMConfigFile, of a file that can be read.                           *)
Parsed == IF file = Empty THEN Defaults ELSE file

(* Faulty variant: LoadConfig does not validate.                           *)
LoadsAnything == TRUE

(* validateConfig.                                                         *)
Loads == Parsed.settings \in Valid

(* AddPair, RemovePair, AddTunnel, RemoveTunnel.                           *)
Changed(op, list, item) == IF op = "add" THEN list \union {item} ELSE list \ {item}

(* Faulty variant: SaveSyncConfig and SaveTunnelConfig do not load the     *)
(* rest of the configuration before they save it.                          *)
EditedAlone(me, cfg) ==
    IF me.op \in ListCommands
    THEN [Defaults EXCEPT !.lists[me.section] = me.list]
    ELSE IF me.op \in {"start", "bootstrap"} THEN cfg
    ELSE [cfg EXCEPT !.settings = me.new,
                     !.hooks = IF me.form = {} THEN @ ELSE me.form]

(* The Config a command goes on with, from the one it loaded.  A form      *)
(* without hooks leaves the list as it is.                                 *)
Edited(me, cfg) ==
    IF me.op \in ListCommands
    THEN [cfg EXCEPT !.lists[me.section] = me.list]
    ELSE IF me.op \in {"start", "bootstrap"} THEN cfg
    ELSE [cfg EXCEPT !.settings = me.new,
                     !.hooks = IF me.form = {} THEN @ ELSE me.form]

(* BootstrapExtraCommands: LoadConfig puts the saved hooks there, and the  *)
(* two bootstraps append those of the form or of the --hook flags.         *)
ExtraCommands(saved, given) ==
    LET Count(hooks, h) == IF h \in hooks THEN 1 ELSE 0
    IN  [h \in Hooks |-> Count(saved, h) + Count(given, h)]

-----------------------------------------------------------------------------
(* The commands.                                                           *)

(* A command that begins with LoadConfig, and what it is given: settings,  *)
(* and the hooks of the form or of the --hook flags.                       *)
Given(op, v, hs) == [Idle EXCEPT !.op = op, !.pc = "load", !.new = v, !.form = hs]

(* A list command's own LoadConfig at its beginning is left out: it fails  *)
(* when the one in "load" does.  handleStart takes what the server loaded. *)
Begin(c) ==
    /\ At(c, "idle")
    /\ \E op \in Commands :
          \/ /\ op \in ListCommands
             /\ \E s \in Sections, i \in Items :
                   Becomes(c, [Idle EXCEPT !.op = op, !.pc = "list",
                                           !.section = s, !.item = i])
          \/ /\ op \notin ListCommands \union {"web_start"}
             /\ \E v \in Settings, hs \in SUBSET Hooks :
                   /\ op \notin {"set_ip", "configure"} => v = DefaultSettings
                   /\ op \notin {"configure", "bootstrap"} => hs = {}
                   /\ Becomes(c, Given(op, v, hs))
          \/ /\ op = "web_start"
             /\ Becomes(c, [Idle EXCEPT !.op = op, !.pc = "act", !.cfg = server,
                                     !.runs = ExtraCommands(server.hooks, {})])
    /\ UNCHANGED <<file, server>>

(* LoadSyncConfig or LoadTunnelConfig, and the change of the list; or the  *)
(* failure to read the file.                                               *)
List(c) ==
    LET me   == client[c]
        list == Parsed.lists[me.section]
    IN
    /\ At(c, "list")
    /\ \/ Finish(c)
       \/ /\ me.op = "add" <=> me.item \notin list
          /\ Becomes(c, [me EXCEPT !.pc = "load",
                                   !.list = Changed(me.op, list, me.item)])
    /\ UNCHANGED <<file, server>>

(* LoadConfig: of the command line, of handleBootstrap, of the two savers  *)
(* of a list.  It fails when the file or a hook script cannot be read.     *)
Load(c) ==
    LET me    == client[c]
        saves == me.op \notin {"start", "bootstrap"}
    IN
    /\ At(c, "load")
    /\ \/ /\ Loads
          /\ Becomes(c, [me EXCEPT !.pc = IF saves THEN "truncate" ELSE "act",
                                   !.cfg = Edited(me, Parsed),
                                   !.runs = ExtraCommands(Parsed.hooks, me.form)])
       \/ Finish(c)
    /\ UNCHANGED <<file, server>>

(* SaveConfig, or its failure before it touches the file.                  *)
Truncate(c) ==
    /\ At(c, "truncate")
    /\ \/ Goto(c, "write") /\ file' = Empty
       \/ Finish(c) /\ UNCHANGED file
    /\ UNCHANGED server

(* Faulty variant: handleBootstrap goes on with the configuration that the *)
(* web server loaded when it started.                                      *)
WriteThenOld(c) ==
    /\ At(c, "write")
    /\ file' = client[c].cfg
    /\ IF client[c].op = "configure"
       THEN Becomes(c, [client[c] EXCEPT !.pc = "act", !.cfg = server])
       ELSE Finish(c)
    /\ UNCHANGED server

(* handleBootstrap goes on with the configuration it saved.  A full disk   *)
(* leaves nothing of the file: what would be a short write of a file of    *)
(* several blocks, and leave a prefix of it, is not modelled.              *)
Write(c) ==
    /\ At(c, "write")
    /\ \/ /\ file' = client[c].cfg
          /\ IF client[c].op = "configure" THEN Goto(c, "act") ELSE Finish(c)
       \/ "full" \in Environment /\ Finish(c) /\ UNCHANGED file
    /\ UNCHANGED server

(* Start or BootstrapSetup reads the Config it was given, and runs its     *)
(* extra commands in the guest.                                            *)
Act(c) ==
    /\ At(c, "act")
    /\ Finish(c)
    /\ UNCHANGED <<file, server>>

Client(c) == List(c) \/ Load(c) \/ Truncate(c) \/ Write(c) \/ Act(c)

-----------------------------------------------------------------------------
(* The environment.                                                        *)

Kill(c) ==
    /\ "kill" \in Environment /\ ~At(c, "idle")
    /\ Finish(c)
    /\ UNCHANGED <<file, server>>

(* LaunchWebServer.  Bound: not while a command runs.                      *)
ServerStart ==
    /\ \A c \in Clients : At(c, "idle")
    /\ Loads
    /\ server' = Parsed
    /\ UNCHANGED <<client, file>>

Next ==
    \/ \E c \in Clients : Begin(c) \/ Client(c) \/ Kill(c)
    \/ ServerStart

Spec == Init /\ [][Next]_vars

-----------------------------------------------------------------------------
(* Properties, for commands that run one at a time.                        *)

(* The configuration is that of the file, or the one that is about to be   *)
(* written to it.                                                          *)
Saved ==
    IF \E c \in Clients : At(c, "write")
    THEN client[CHOOSE c \in Clients : At(c, "write")].cfg
    ELSE Parsed

(* The file implements ConfigStore: a command changes the part of the      *)
(* configuration it is about, once, and nothing else of it; only a save    *)
(* that was killed, or found the disk full, loses it, and then all of it.  *)
(* LoadConfig, SaveConfig, SaveSyncConfig, SaveTunnelConfig.               *)
Store == INSTANCE ConfigStore WITH
    contents <- Saved,
    Lossy    <- "kill" \in Environment \/ "full" \in Environment

ImplementsStore == Store!Spec

(* A start or a bootstrap acts on the settings that are saved, whatever    *)
(* was lost or truncated before, and runs every saved hook; a start runs   *)
(* no other.  A bootstrap may: the hooks the form replaced, and those of   *)
(* the --hook flags, which are not saved.  A start of the web UI has what  *)
(* the server began with.  LoadConfig, handleBootstrap, newBootstrapCommand*)
ActsOnSaved ==
    \A c \in Clients : At(c, "act") =>
        LET me   == client[c]
            runs == {h \in Hooks : me.runs[h] > 0}
        IN  /\ me.cfg.settings = Saved.settings
            /\ Saved.hooks \subseteq runs
            /\ me.op = "start" => runs = Saved.hooks

(* docs/specs.md, 12: post-bootstrap hooks execute once.  handleBootstrap  *)
(* appends the hooks of the form to those LoadConfig read from the file.   *)
HooksRunOnce ==
    \A c \in Clients : At(c, "act") => \A h \in Hooks : client[c].runs[h] <= 1
=============================================================================
