------------------------------ MODULE GitSetup ------------------------------
(***************************************************************************)
(* Git synchronisation: sync_git.go, add-git in sync_cli.go and its        *)
(* handler in web_handlers.go.                                             *)
(*                                                                         *)
(* The pair is saved first.  Then five commands, each of which must        *)
(* succeed, make a bare repository in the guest, name it as the remote     *)
(* "vm" of the host's repository, push to it and clone it.  None of them   *)
(* is undone when a later one fails, and removing the pair undoes none.    *)
(*                                                                         *)
(* The repositories on the host have one base name, so that only one pair  *)
(* of them can be listed at a time: AddPair compares base names.  They     *)
(* have one branch, with one commit at least, and may have a tag, of one   *)
(* name in all of them.                                                    *)
(*                                                                         *)
(* A definition marked "faulty variant" is no part of the model: it is the *)
(* definition that follows with a bug, to show that a property notices it. *)
(***************************************************************************)
EXTENDS Integers

CONSTANTS
    Clients,        \* CLI invocations and web handlers
    Hosts,          \* repositories on the host
    Bares,          \* paths of bare repositories: the default and --bare-repo
    Named,          \* Named[b]: the path that the remote's URL stands for, below
    MaxCommits,     \* bound: commits on a branch
    None,           \* no host, no pair, no repository
    Environment     \* what may happen in this instance, see below

ASSUME BoundsAssumption == MaxCommits \in Nat \ {0}
(* gitRemoteURL: ssh://user@guest/~/path, where the path is that of the    *)
(* bare repository without /home/<user>/.  A path outside the user's home  *)
(* keeps its own, and so names one under the home.                         *)
ASSUME NamedAssumption  == Named \in [Bares -> Bares]
ASSUME NoneAssumption   == None \notin Hosts /\ None \notin Bares

(* "recreate"  the VM may be destroyed and made again during a setup.      *)
ASSUME EnvironmentAssumption == Environment \subseteq {"recreate"}

VARIABLES
    client,     \* client[c]: the setup c is in
    pair,       \* the pair listed under the base name, or None
    remote,     \* remote[h]: the bare repository "vm" names in h
    host,       \* host[h]: the branch and tags of h
    bare,       \* bare[b]: the branch and tags of b, or None
    target      \* whether the target directory in the guest exists

vars == <<client, pair, remote, host, bare, target>>

Commits == 1..MaxCommits
Labels  == {"idle", "init_bare", "remote_add", "push_all", "push_tags", "clone"}

Pairs     == [host : Hosts, bare : Bares]
HostRepos == [main : Commits, tagged : BOOLEAN]

(* Whose branch it is, and how far; whether the guest has added to it; and *)
(* whose the tag is.                                                       *)
BareRepos == [of    : Hosts \union {None},
              main  : 0..MaxCommits,
              ahead : BOOLEAN,
              tag   : Hosts \union {None}]

EmptyBare == [of |-> None, main |-> 0, ahead |-> FALSE, tag |-> None]

ASSUME NoRecordAssumption == None \notin Pairs /\ None \notin BareRepos

ClientState == [pc    : Labels,
                pair  : Pairs \union {None},
                begun : HostRepos \union {None}]    \* history: the host's refs at the start

(* A branch is somebody's when it has commits, and nobody is ahead of an   *)
(* empty one.                                                              *)
TypeOK ==
    /\ client \in [Clients -> ClientState]
    /\ pair \in Pairs \union {None}
    /\ remote \in [Hosts -> Bares \union {None}]
    /\ host \in [Hosts -> HostRepos]
    /\ bare \in [Bares -> BareRepos \union {None}]
    /\ target \in BOOLEAN
    /\ \A b \in Bares : bare[b] # None =>
          (bare[b].of = None) = (bare[b].main = 0) /\ (bare[b].ahead => bare[b].main # 0)

Idle == [pc |-> "idle", pair |-> None, begun |-> None]

Init ==
    /\ client = [c \in Clients |-> Idle]
    /\ pair = None
    /\ remote = [h \in Hosts |-> None]
    /\ host = [h \in Hosts |-> [main |-> 1, tagged |-> FALSE]]
    /\ bare = [b \in Bares |-> None]
    /\ target = FALSE

-----------------------------------------------------------------------------
(* Operators on the state.                                                 *)

At(c, label) == client[c].pc = label
Goto(c, label) == client' = [client EXCEPT ![c].pc = label]
Finish(c) == client' = [client EXCEPT ![c] = Idle]

AllIdle == \A c \in Clients : At(c, "idle")

Pair(c) == client[c].pair

InHome(b) == Named[b] = b

-----------------------------------------------------------------------------
(* The commands.  How the list is saved is ConfigFile's.                   *)

(* Faulty variant: without --bare-repo there is no default.                *)
AddWithoutDefault(c) ==
    /\ At(c, "idle") /\ pair = None
    /\ \E h \in Hosts, b \in Bares \union {None} :
          /\ pair' = [host |-> h, bare |-> b]
          /\ client' = [client EXCEPT ![c] = [pc |-> "init_bare", pair |-> pair',
                                              begun |-> host[h]]]
    /\ UNCHANGED <<remote, host, bare, target>>

Add(c) ==
    /\ At(c, "idle") /\ pair = None
    /\ \E p \in Pairs :
          /\ pair' = p
          /\ client' = [client EXCEPT ![c] = [pc |-> "init_bare", pair |-> p,
                                              begun |-> host[p.host]]]
    /\ UNCHANGED <<remote, host, bare, target>>

Remove ==
    /\ pair # None
    /\ pair' = None
    /\ UNCHANGED <<client, remote, host, bare, target>>

(* git init --bare leaves a repository that is there as it is.             *)
InitBare(c) ==
    LET b == Pair(c).bare IN
    /\ At(c, "init_bare")
    /\ bare' = [bare EXCEPT ![b] = IF @ = None THEN EmptyBare ELSE @]
    /\ Goto(c, "remote_add")
    /\ UNCHANGED <<pair, remote, host, target>>

(* Faulty variant: a remote that is there is taken for the right one.      *)
RemoteAddOnce(c) ==
    LET h == Pair(c).host IN
    /\ At(c, "remote_add")
    /\ remote' = [remote EXCEPT ![h] = IF @ = None THEN Named[Pair(c).bare] ELSE @]
    /\ Goto(c, "push_all")
    /\ UNCHANGED <<pair, host, bare, target>>

(* git remote add refuses a name that is taken.                            *)
RemoteAdd(c) ==
    LET h == Pair(c).host IN
    /\ At(c, "remote_add") /\ remote[h] = None
    /\ remote' = [remote EXCEPT ![h] = Named[Pair(c).bare]]
    /\ Goto(c, "push_all")
    /\ UNCHANGED <<pair, host, bare, target>>

(* Faulty variant: the push is forced.                                     *)
PushAllForced(c) ==
    LET h == Pair(c).host
        b == remote[h] IN
    /\ At(c, "push_all") /\ b # None /\ bare[b] # None
    /\ bare' = [bare EXCEPT ![b].of = h, ![b].main = host[h].main, ![b].ahead = FALSE]
    /\ Goto(c, "push_tags")
    /\ UNCHANGED <<pair, remote, host, target>>

(* git push goes where the remote says by then, and forward only.          *)
PushAll(c) ==
    LET h == Pair(c).host
        b == remote[h] IN
    /\ At(c, "push_all") /\ b # None /\ bare[b] # None
    /\ \/ bare[b].of = None
       \/ bare[b].of = h /\ ~bare[b].ahead
    /\ bare' = [bare EXCEPT ![b].of = h, ![b].main = host[h].main]
    /\ Goto(c, "push_tags")
    /\ UNCHANGED <<pair, remote, host, target>>

(* A tag of the same name is not replaced.                                 *)
PushTags(c) ==
    LET h == Pair(c).host
        b == remote[h] IN
    /\ At(c, "push_tags") /\ b # None /\ bare[b] # None
    /\ host[h].tagged => bare[b].tag \in {None, h}
    /\ bare' = [bare EXCEPT ![b].tag = IF host[h].tagged THEN h ELSE @]
    /\ Goto(c, "clone")
    /\ UNCHANGED <<pair, remote, host, target>>

(* git clone wants a new directory, and takes an empty repository.         *)
Clone(c) ==
    LET b == Pair(c).bare IN
    /\ At(c, "clone") /\ bare[b] # None /\ ~target
    /\ target' = TRUE
    /\ Finish(c)
    /\ UNCHANGED <<pair, remote, host, bare>>

(* A command fails, the connection breaks before its exit status arrives,  *)
(* or the setup is killed; a clone may leave its part.                     *)
Fail(c) ==
    /\ ~At(c, "idle")
    /\ Finish(c)
    /\ target' \in IF At(c, "clone") THEN {target, TRUE} ELSE {target}
    /\ UNCHANGED <<pair, remote, host, bare>>

-----------------------------------------------------------------------------
(* What the user does in the repositories, and to the VM.                  *)

Commit(h) ==
    /\ host[h].main < MaxCommits
    /\ host' = [host EXCEPT ![h].main = @ + 1]
    /\ UNCHANGED <<client, pair, remote, bare, target>>

Tag(h) ==
    /\ ~host[h].tagged
    /\ host' = [host EXCEPT ![h].tagged = TRUE]
    /\ UNCHANGED <<client, pair, remote, bare, target>>

(* git remote remove vm, after a setup that failed.                        *)
Unlink(h) ==
    /\ AllIdle
    /\ remote' = [remote EXCEPT ![h] = None]
    /\ UNCHANGED <<client, pair, host, bare, target>>

(* A commit made in the guest is pushed to the bare repository.            *)
GuestPush(b) ==
    /\ bare[b] # None /\ bare[b].of # None
    /\ bare' = [bare EXCEPT ![b].ahead = TRUE]
    /\ UNCHANGED <<client, pair, remote, host, target>>

(* Destroy and start: the guest's files are gone, the host's stay.         *)
Recreate ==
    /\ "recreate" \in Environment \/ AllIdle
    /\ bare' = [b \in Bares |-> None]
    /\ target' = FALSE
    /\ UNCHANGED <<client, pair, remote, host>>

Step(c) ==
    \/ Add(c) \/ InitBare(c) \/ RemoteAdd(c) \/ PushAll(c) \/ PushTags(c) \/ Clone(c)
    \/ Fail(c)

Next ==
    \/ \E c \in Clients : Step(c)
    \/ Remove
    \/ \E h \in Hosts : Commit(h) \/ Tag(h) \/ Unlink(h)
    \/ \E b \in Bares : GuestPush(b)
    \/ Recreate

Spec == Init /\ [][Next]_vars

-----------------------------------------------------------------------------
(* Properties.                                                             *)

Holds(repo, h, begun) ==
    /\ repo.of = h /\ repo.main >= begun.main
    /\ begun.tagged => repo.tag = h

(* The remote "vm" of the pair's host is the bare repository of the pair,  *)
(* which has every commit and the tag the host had when the setup began.   *)
Linked(c) ==
    LET p == Pair(c) IN
    /\ remote[p.host] = p.bare
    /\ Holds(bare[p.bare], p.host, client[c].begun)

(* A setup with a bare repository in the user's home that succeeds has     *)
(* linked its pair: although the bare repository, the remote or both may   *)
(* be left from an earlier setup, of another host even, although a setup   *)
(* with a path outside the home may push to the same repository, although  *)
(* the guest may push to it and the user commit, and although the pair may *)
(* have been removed and added again meanwhile.  GitSetupPair.             *)
SuccessMeansLinked ==
    [][\A c \in Clients : Clone(c) /\ InHome(Pair(c).bare) => Linked(c)]_vars

(* docs/specs.md, 8: git mode makes a bare repository, adds it as a remote *)
(* of the host's and clones it; --bare-repo is its path, any path.         *)
AnyPathIsLinked == [][\A c \in Clients : Clone(c) => Linked(c)]_vars

(* What the guest has pushed stays in its repository, whoever runs a setup *)
(* with it: only the end of the VM takes it.                               *)
GuestWorkKept ==
    [][\A b \in Bares : bare[b] # None /\ bare[b].ahead /\ ~(\A d \in Bares : bare'[d] = None)
          => bare'[b] # None /\ bare'[b].ahead /\ bare'[b].main = bare[b].main]_vars
=============================================================================
