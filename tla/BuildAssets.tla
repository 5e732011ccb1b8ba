---------------------------- MODULE BuildAssets ----------------------------
(***************************************************************************)
(* What a build needs from the network: util.go's downloads, the kernel    *)
(* package and what downloadBuildKernel takes out of it, and the tarball   *)
(* that resolveBaseImage fetches.                                          *)
(*                                                                         *)
(* Everything fetched is trusted from then on because it exists: only a    *)
(* download is compared with the size a HEAD request told.  A download     *)
(* writes a file of a fixed temporary name, removed first and renamed last.*)
(* The name of a file and the file are apart here, as a writer goes on     *)
(* with the file it opened whatever its name has become.  Nothing is       *)
(* locked.                                                                 *)
(*                                                                         *)
(* A release is fetched block by block, and release r has r blocks: no two *)
(* have one size.  A destination is modelled with one kind of asset.       *)
(*                                                                         *)
(* A definition marked "faulty variant" is no part of the model: it is the *)
(* definition that follows with a bug, to show that a property notices it. *)
(***************************************************************************)
EXTENDS Integers, FiniteSets, FiniteSetsExt

CONSTANTS
    Clients,        \* commands that build a disk
    Inodes,         \* files, by identity
    NoInode,        \* a name without a file
    MaxRelease,     \* bound: releases of the asset upstream
    MaxAttempts,    \* downloads tried by one command: 3 in downloadFile
    Torn,           \* a copy that was not completed
    Environment     \* what may happen in this instance, see below

ASSUME BoundsAssumption ==
    /\ MaxRelease \in Nat \ {0} /\ MaxAttempts \in Nat \ {0}
    /\ Torn \notin 0..MaxRelease

ASSUME InodesAssumption ==
    /\ NoInode \notin Inodes
    /\ IsFiniteSet(Clients) /\ IsFiniteSet(Inodes)
    /\ Cardinality(Inodes) >= Cardinality(Clients) + 2

(* "kill"  a client dies at any step.                                      *)
(* "full"  a copy within the state directory fails, at once or half way.    *)
(* "halfway"  destroy may be interrupted.                                  *)
ASSUME EnvironmentAssumption == Environment \subseteq {"kill", "full", "halfway"}

VARIABLES
    client,     \* client[c]: the download or extraction c is in
    asset,      \* "kernel" or "rootfs", the same for ever
    named,      \* TRUE when the configuration gives the URL, the same for ever
    upstream,   \* the release the mirror has
    url,        \* the release build-kernel-url.cache or rootfs-url.cache names, or 0
    part, dest, \* the files named destination.part and destination
    content,    \* content[i][k]: the release block k of file i is from, 0 for a hole
    kernel,     \* build-vmlinuz: a release, Torn, or 0 for none
    modules,    \* build-kernel-modules: likewise
    failed      \* history: the last copy of the modules failed or was killed

constantVars == <<asset, named>>
copies == <<kernel, modules, failed>>
vars == <<client, constantVars, upstream, url, part, dest, content, copies>>

Releases == 1..MaxRelease
Blocks   == 1..MaxRelease
Copies   == Releases \union {0, Torn}
Labels   == {"idle", "resolve", "check", "open", "write", "verify", "extract",
             "kernel", "modules", "fill", "use"}

ClientState == [pc       : Labels,
                want     : 0..MaxRelease,       \* what the URL names, 0: the latest
                expected : 0..MaxRelease,       \* what HEAD told, 0: nothing
                attempt  : 0..MaxAttempts,
                release  : 0..MaxRelease,       \* what is being read
                inode    : Inodes \union {NoInode},
                pos      : 0..MaxRelease]       \* the blocks written

Hole == [k \in Blocks |-> 0]
Full(r) == [k \in Blocks |-> IF k <= r THEN r ELSE 0]
WholeFile(i) == \E r \in Releases : content[i] = Full(r)
Size(i) == Max({0} \union {k \in Blocks : content[i][k] # 0})

(* Who has an open file in hand reads a release, and has not read past it. *)
TypeOK ==
    /\ client \in [Clients -> ClientState]
    /\ asset \in {"kernel", "rootfs"} /\ named \in BOOLEAN
    /\ upstream \in Releases /\ url \in 0..MaxRelease /\ url <= upstream
    /\ part \in Inodes \union {NoInode} /\ dest \in Inodes \union {NoInode}
    /\ content \in [Inodes -> [Blocks -> 0..MaxRelease]]
    /\ kernel \in Copies /\ modules \in Copies /\ failed \in BOOLEAN
    /\ \A c \in Clients : client[c].pc = "write" =>
          /\ client[c].inode # NoInode /\ client[c].pos <= client[c].release
          /\ client[c].attempt < MaxAttempts

Idle == [pc |-> "idle", want |-> 0, expected |-> 0, attempt |-> 0, release |-> 0,
         inode |-> NoInode, pos |-> 0]

Init ==
    /\ client = [c \in Clients |-> Idle]
    /\ asset \in {"kernel", "rootfs"} /\ named \in BOOLEAN
    /\ upstream = 1 /\ url = 0
    /\ part = NoInode /\ dest = NoInode
    /\ content = [i \in Inodes |-> Hole]
    /\ kernel = 0 /\ modules = 0 /\ failed = FALSE

-----------------------------------------------------------------------------
(* Operators on the state.                                                 *)

At(c, label) == client[c].pc = label
Transfers(c) == client[c].pc \in {"open", "write"}
Becomes(c, state) == client' = [client EXCEPT ![c] = state]
Goto(c, label) == Becomes(c, [Idle EXCEPT !.pc = label])
Finish(c) == Becomes(c, Idle)

(* The mirror keeps the last release; a URL that was given is always there.*)
Served(c) == IF client[c].want \in {0, upstream} THEN upstream ELSE 0

InUse == {part, dest} \union {client[c].inode : c \in Clients}
FreshInode == CHOOSE i \in Inodes : i \notin InUse

After(c) == IF asset = "kernel" THEN "extract" ELSE "use"

-----------------------------------------------------------------------------
(* Which URL.                                                              *)

(* Faulty variant: the kernel alone tells that it was extracted.           *)
ReadyWithKernel == IF asset = "kernel" THEN kernel # 0 ELSE dest # NoInode

Ready == IF asset = "kernel" THEN kernel # 0 /\ modules # 0 ELSE dest # NoInode

Begin(c) ==
    /\ At(c, "idle")
    /\ Goto(c, IF Ready THEN "use" ELSE "resolve")
    /\ UNCHANGED <<constantVars, upstream, url, part, dest, content, copies>>

(* resolveBuildKernelURL, resolveRootfsURL: the cache never expires, and   *)
(* need not be written.  A package that is there is not looked at again.   *)
Resolve(c) ==
    LET want == CASE named -> 0 [] ~named /\ url # 0 -> url [] OTHER -> upstream
        next == IF asset = "kernel" /\ dest # NoInode THEN "extract" ELSE "check" IN
    /\ At(c, "resolve")
    /\ \/ /\ url' \in IF named THEN {url} ELSE {url, want}
          /\ Becomes(c, [Idle EXCEPT !.pc = next, !.want = want])
       \/ /\ ~named /\ url = 0
          /\ Finish(c) /\ UNCHANGED url
    /\ UNCHANGED <<constantVars, upstream, part, dest, content, copies>>

-----------------------------------------------------------------------------
(* ensureDownloadedFile.                                                   *)

(* remoteContentLength, the look at what is there, and the removal of the  *)
(* temporary file with which downloadFile begins.                          *)
Check(c) ==
    /\ At(c, "check")
    /\ \E expected \in {0, Served(c)} :
          IF dest # NoInode /\ expected \in {0, Size(dest)}
          THEN Goto(c, After(c)) /\ UNCHANGED <<part, dest>>
          ELSE /\ Becomes(c, [client[c] EXCEPT !.pc = "open", !.expected = expected])
               /\ part' = NoInode
               /\ dest' = NoInode
    /\ UNCHANGED <<constantVars, upstream, url, content, copies>>

(* GET, and then O_CREATE|O_TRUNC: whose file it truncates it cannot know. *)
Open(c) ==
    LET i == IF part # NoInode THEN part ELSE FreshInode IN
    /\ At(c, "open") /\ Served(c) # 0
    /\ part' = i
    /\ content' = [content EXCEPT ![i] = Hole]
    /\ Becomes(c, [client[c] EXCEPT !.pc = "write", !.release = Served(c),
                                    !.inode = i, !.pos = 0])
    /\ UNCHANGED <<constantVars, upstream, url, dest, copies>>

Write(c) ==
    LET me == client[c] IN
    /\ At(c, "write") /\ me.pos < me.release
    /\ content' = [content EXCEPT ![me.inode][me.pos + 1] = me.release]
    /\ Becomes(c, [me EXCEPT !.pos = @ + 1])
    /\ UNCHANGED <<constantVars, upstream, url, part, dest, copies>>

(* Faulty variant: the attempts are not counted.                           *)
AttemptFailsAlways(c) ==
    /\ client[c].pc \in {"open", "write"}
    /\ part' = NoInode
    /\ Becomes(c, [client[c] EXCEPT !.pc = "open", !.inode = NoInode, !.release = 0,
                                    !.pos = 0])
    /\ UNCHANGED <<constantVars, upstream, url, dest, content, copies>>

(* Faulty variant: one attempt too many.                                   *)
AttemptFailsOnceMore(c) ==
    LET me == client[c] IN
    /\ me.pc \in {"open", "write"}
    /\ part' = NoInode
    /\ IF me.attempt < MaxAttempts
       THEN Becomes(c, [me EXCEPT !.pc = "open", !.attempt = @ + 1, !.inode = NoInode,
                                  !.release = 0, !.pos = 0])
       ELSE Finish(c)
    /\ UNCHANGED <<constantVars, upstream, url, dest, content, copies>>

(* No connection, no such file, a broken transfer, a full disk.            *)
AttemptFails(c) ==
    LET me == client[c] IN
    /\ me.pc \in {"open", "write"}
    /\ part' = NoInode
    /\ IF me.attempt + 1 < MaxAttempts
       THEN Becomes(c, [me EXCEPT !.pc = "open", !.attempt = @ + 1, !.inode = NoInode,
                                  !.release = 0, !.pos = 0])
       ELSE Finish(c)
    /\ UNCHANGED <<constantVars, upstream, url, dest, content, copies>>

(* Faulty variant: the end of the body is taken for the end of the file.   *)
RenameAtEnd(c) ==
    /\ At(c, "write")
    /\ IF part # NoInode
       THEN dest' = part /\ Becomes(c, [client[c] EXCEPT !.pc = "verify", !.inode = NoInode])
       ELSE UNCHANGED dest /\ Finish(c)
    /\ part' = NoInode
    /\ UNCHANGED <<constantVars, upstream, url, content, copies>>

(* Whatever has the temporary name by now becomes the destination.         *)
Rename(c) ==
    LET me == client[c] IN
    /\ At(c, "write") /\ me.pos = me.release
    /\ IF part # NoInode
       THEN dest' = part /\ Becomes(c, [me EXCEPT !.pc = "verify", !.inode = NoInode])
       ELSE UNCHANGED dest /\ Finish(c)
    /\ part' = NoInode
    /\ UNCHANGED <<constantVars, upstream, url, content, copies>>

(* A destination of another size is an error, and stays.                   *)
Verify(c) ==
    LET expected == client[c].expected IN
    /\ At(c, "verify")
    /\ IF expected # 0 /\ (dest = NoInode \/ Size(dest) # expected)
       THEN Finish(c)
       ELSE Goto(c, After(c))
    /\ UNCHANGED <<constantVars, upstream, url, part, dest, content, copies>>

-----------------------------------------------------------------------------
(* downloadBuildKernel: what it takes out of the package.                  *)

(* tar refuses a package that is not whole.                                *)
Extract(c) ==
    /\ At(c, "extract")
    /\ \/ /\ dest # NoInode /\ WholeFile(dest)
          /\ Becomes(c, [Idle EXCEPT !.pc = "kernel", !.release = content[dest][1]])
       \/ Finish(c)
    /\ UNCHANGED <<constantVars, upstream, url, part, dest, content, copies>>

(* copyFile truncates its target and then fills it.                        *)
CopyKernel(c) ==
    /\ At(c, "kernel")
    /\ \/ kernel # Torn /\ kernel' = Torn /\ UNCHANGED client
       \/ /\ kernel = Torn /\ kernel' = client[c].release
          /\ Becomes(c, [client[c] EXCEPT !.pc = "modules"])
       \/ "full" \in Environment /\ kernel' = Torn /\ Finish(c)
    /\ UNCHANGED <<constantVars, upstream, url, part, dest, content, modules, failed>>

(* One file after the other.  No failure is noticed, not even when the     *)
(* first directory cannot be made and there are no modules at all.         *)
CopyModules(c) ==
    /\ At(c, "modules")
    /\ \/ /\ modules = 0 /\ modules' = Torn
          /\ Becomes(c, [client[c] EXCEPT !.pc = "fill"])
          /\ UNCHANGED failed
       \/ /\ modules = 0 /\ "full" \in Environment
          /\ failed' = TRUE
          /\ Goto(c, "use") /\ UNCHANGED modules
       \/ /\ modules # 0
          /\ Goto(c, "use") /\ UNCHANGED <<modules, failed>>
    /\ UNCHANGED <<constantVars, upstream, url, part, dest, content, kernel>>

FillModules(c) ==
    /\ At(c, "fill")
    /\ modules' \in {client[c].release} \union (IF "full" \in Environment THEN {Torn} ELSE {})
    /\ failed' = (modules' = Torn)
    /\ Goto(c, "use")
    /\ UNCHANGED <<constantVars, upstream, url, part, dest, content, kernel>>

(* The build has what it needs, and goes on elsewhere.                     *)
Use(c) ==
    /\ At(c, "use")
    /\ Finish(c)
    /\ UNCHANGED <<constantVars, upstream, url, part, dest, content, copies>>

-----------------------------------------------------------------------------
(* What happens around it.                                                 *)

(* The tarball is in the image directory, which destroy leaves alone.      *)
Destroy ==
    \E gone \in SUBSET {"url", "package", "kernel", "modules"} :
        /\ "halfway" \in Environment \/ gone = {"url", "package", "kernel", "modules"}
        /\ \A c \in Clients : At(c, "idle")
        /\ url' = IF "url" \in gone THEN 0 ELSE url
        /\ kernel' = IF "kernel" \in gone THEN 0 ELSE kernel
        /\ modules' = IF "modules" \in gone THEN 0 ELSE modules
        /\ failed' = (failed /\ "modules" \notin gone)
        /\ IF asset = "kernel" /\ "package" \in gone
           THEN part' = NoInode /\ dest' = NoInode
           ELSE UNCHANGED <<part, dest>>
        /\ UNCHANGED <<client, constantVars, upstream, content>>

Publish ==
    /\ upstream < MaxRelease
    /\ upstream' = upstream + 1
    /\ UNCHANGED <<client, constantVars, url, part, dest, content, copies>>

Kill(c) ==
    /\ "kill" \in Environment /\ ~At(c, "idle")
    /\ failed' = (failed \/ At(c, "fill"))
    /\ Finish(c)
    /\ UNCHANGED <<constantVars, upstream, url, part, dest, content, kernel, modules>>

Step(c) ==
    \/ Resolve(c) \/ Check(c) \/ Open(c) \/ Write(c) \/ AttemptFails(c) \/ Rename(c)
    \/ Verify(c) \/ Extract(c) \/ CopyKernel(c) \/ CopyModules(c) \/ FillModules(c) \/ Use(c)

Next ==
    \/ \E c \in Clients : Begin(c) \/ Step(c) \/ Kill(c)
    \/ Destroy \/ Publish

Spec == Init /\ [][Next]_vars

(* A command that has begun goes on, and the requests made for an address  *)
(* or a size have a deadline.  A transfer has none: neither curl nor the   *)
(* client of its own is given a time, so nothing makes one end.            *)
FairSpec == Spec /\ \A c \in Clients : WF_vars(Step(c) /\ ~Transfers(c))

-----------------------------------------------------------------------------
(* Properties.                                                             *)

(* A package or a tarball that is there is one release, whole, whenever    *)
(* the command that fetched it was killed, however often the transfer      *)
(* broke off, and whatever the mirror changed in the meantime.             *)
WholeFiles == dest # NoInode => WholeFile(dest)

(* A build that is given a kernel is given a whole one, and with it the     *)
(* modules of its release, unless their last copy failed or was killed; of *)
(* another release they never are.  What a killed command left of the      *)
(* kernel is not taken for one, as the modules are copied after it.        *)
KernelUsable ==
    \A c \in Clients : At(c, "use") /\ asset = "kernel"
        => /\ kernel \in Releases
           /\ modules \in {kernel, Torn, 0}
           /\ modules # kernel => failed

(* Every command ends, or hangs in one transfer for ever: broken transfers *)
(* are not tried without end.                                              *)
EveryDownloadEnds ==
    \A c \in Clients :
        \/ []<>At(c, "idle")
        \/ <>[]Transfers(c) /\ <>[][FALSE]_(client[c])
=============================================================================
