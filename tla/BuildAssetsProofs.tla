-------------------------- MODULE BuildAssetsProofs --------------------------
(* Proofs about BuildAssets, for every value of its constants.              *)
EXTENDS BuildAssets, FiniteSetTheorems, TLAPS

-----------------------------------------------------------------------------
(* Typing.                                                                  *)

LEMMA NumberFacts ==
    /\ MaxRelease \in Nat /\ MaxRelease >= 1 /\ MaxAttempts \in Nat /\ MaxAttempts >= 1
    /\ 0 \in 0..MaxRelease /\ 0 \in 0..MaxAttempts /\ 1 \in Releases /\ 1 \in Blocks
    /\ Releases \subseteq 0..MaxRelease /\ 0 \notin Releases
    /\ \A r \in 0..MaxRelease : r # 0 => r \in Releases
    /\ \A r \in 0..MaxRelease : r \in Nat
    /\ Torn \notin Releases /\ Torn # 0
BY BoundsAssumption DEF Releases, Blocks

LEMMA IdleTyped ==
    /\ Idle \in ClientState /\ Idle.pc = "idle" /\ Idle.release = 0 /\ Idle.inode = NoInode
    /\ Idle.pos = 0 /\ Idle.want = 0 /\ Idle.attempt = 0
BY NumberFacts DEF Idle, ClientState, Labels

(* TypeOK says it of a client that writes; the attempts are counted from    *)
(* the first on.                                                            *)
Sound(s) ==
    /\ s.attempt < MaxAttempts
    /\ s.pc = "write" => s.inode # NoInode /\ s.pos <= s.release

Typed == TypeOK /\ \A c \in Clients : Sound(client[c])

LEMMA BecomesTyped ==
    ASSUME Typed, NEW c \in Clients, NEW s \in ClientState, Sound(s), Becomes(c, s)
    PROVE  /\ client' \in [Clients -> ClientState]
           /\ client'[c] = s
           /\ \A d \in Clients : d # c => client'[d] = client[d]
           /\ \A d \in Clients : Sound(client'[d])
BY DEF Typed, TypeOK, Becomes, Sound

LEMMA FinishTyped ==
    ASSUME Typed, NEW c \in Clients, Finish(c)
    PROVE  /\ client' \in [Clients -> ClientState]
           /\ client'[c] = Idle
           /\ \A d \in Clients : d # c => client'[d] = client[d]
           /\ \A d \in Clients : Sound(client'[d])
BY IdleTyped, NumberFacts, BecomesTyped DEF Finish, Sound

LEMMA GotoTyped ==
    ASSUME Typed, NEW c \in Clients, NEW l \in Labels \ {"write"}, Goto(c, l)
    PROVE  /\ client' \in [Clients -> ClientState]
           /\ client'[c].pc = l
           /\ \A d \in Clients : d # c => client'[d] = client[d]
           /\ \A d \in Clients : Sound(client'[d])
<1> DEFINE s == [Idle EXCEPT !.pc = l]
<1>1. s \in ClientState /\ s.pc = l /\ s.attempt < MaxAttempts
  BY IdleTyped, NumberFacts DEF ClientState
<1>2. Becomes(c, s) /\ Sound(s)
  BY <1>1 DEF Goto, Sound
<1>3. QED  BY <1>1, <1>2, BecomesTyped

LEMMA AfterTyped ==
    ASSUME NEW c
    PROVE  /\ After(c) \in Labels \ {"write"}
           /\ After(c) = IF asset = "kernel" THEN "extract" ELSE "use"
BY DEF After, Labels

LEMMA ServedTyped ==
    ASSUME Typed, NEW c \in Clients
    PROVE  Served(c) \in 0..MaxRelease /\ (Served(c) # 0 => Served(c) \in Releases)
BY NumberFacts DEF Typed, TypeOK, Served

(* There is a file for a download that is not another's.                    *)
LEMMA FreshFacts ==
    ASSUME Typed, NEW c \in Clients, At(c, "open"), part = NoInode
    PROVE  FreshInode \in Inodes /\ FreshInode # dest
<1> DEFINE f == [d \in Clients |-> client[d].inode]
           T == {f[d] : d \in Clients}
<1>1. IsFiniteSet(Clients) /\ Cardinality(Clients) \in Nat
  BY InodesAssumption, FS_CardinalityType
<1>2. f \in Surjection(Clients, T)
  BY DEF Surjection
<1>3. IsFiniteSet(T) /\ Cardinality(T) <= Cardinality(Clients)
  BY <1>1, <1>2, FS_Surjection
<1>4. Cardinality(T) \in Nat
  BY <1>3, FS_CardinalityType
<1>5. /\ IsFiniteSet(T \union {dest})
      /\ Cardinality(T \union {dest}) <= Cardinality(Clients) + 1
  <2> HIDE DEF T
  <2>1. /\ IsFiniteSet(T \union {dest})
        /\ Cardinality(T \union {dest}) \in {Cardinality(T), Cardinality(T) + 1}
    BY <1>3, FS_AddElement
  <2>2. QED  BY <1>1, <1>3, <1>4, <2>1
<1>6. Cardinality(T \union {dest}) \in Nat
  BY <1>5, FS_CardinalityType
<1>7. \E i \in Inodes : i \notin T \union {dest}
  <2>1. SUFFICES ASSUME Inodes \in SUBSET (T \union {dest})  PROVE FALSE
    OBVIOUS
  <2>2. Cardinality(Inodes) <= Cardinality(T \union {dest})
    BY <1>5, <2>1, FS_Subset
  <2>3. Cardinality(Inodes) \in Nat
    BY InodesAssumption, FS_CardinalityType
  <2>4. QED  BY <1>1, <1>5, <1>6, <2>2, <2>3, InodesAssumption
<1>8. InUse \subseteq T \union {dest, NoInode}
  BY DEF InUse
<1>9. \E i \in Inodes : i \notin InUse
  BY <1>7, <1>8, InodesAssumption
<1>10. FreshInode \in Inodes /\ FreshInode \notin InUse
  BY <1>9 DEF FreshInode
<1>11. QED  BY <1>10 DEF InUse

LEMMA BeginTyped == ASSUME Typed, NEW c \in Clients, Begin(c)  PROVE Typed'
<1>1. \E l \in {"use", "resolve"} : Goto(c, l)
  BY DEF Begin
<1>2. PICK l \in {"use", "resolve"} : Goto(c, l)
  BY <1>1
<1>3. client' \in [Clients -> ClientState] /\ \A d \in Clients : Sound(client'[d])
  BY <1>2, GotoTyped DEF Labels
<1>4. QED  BY <1>3 DEF Begin, Typed, TypeOK, Sound, constantVars, copies

LEMMA ResolveTyped == ASSUME Typed, NEW c \in Clients, Resolve(c)  PROVE Typed'
<1> DEFINE want == CASE named -> 0 [] ~named /\ url # 0 -> url [] OTHER -> upstream
           next == IF asset = "kernel" /\ dest # NoInode THEN "extract" ELSE "check"
           s == [Idle EXCEPT !.pc = next, !.want = want]
<1>1. want \in 0..MaxRelease /\ want <= upstream /\ 0 <= upstream
  BY NumberFacts DEF Typed, TypeOK, Releases
<1>2. s \in ClientState /\ s.pc # "write" /\ s.attempt < MaxAttempts
  <2>1. next \in Labels \ {"write"}
    BY DEF Labels
  <2> HIDE DEF want, next
  <2>2. /\ s.pc = next /\ s.attempt = 0
        /\ s \in ClientState
    BY <1>1, <2>1, IdleTyped DEF ClientState
  <2>3. QED  BY <2>1, <2>2, NumberFacts
<1>3. url' \in {url, want} /\ (Becomes(c, s) \/ Finish(c))
  BY DEF Resolve
<1>4. client' \in [Clients -> ClientState] /\ \A d \in Clients : Sound(client'[d])
  <2>1. CASE Becomes(c, s)
    BY <1>2, <2>1, BecomesTyped DEF Sound
  <2>2. CASE Finish(c)
    BY <2>2, FinishTyped
  <2>3. QED  BY <1>3, <2>1, <2>2
<1>5. url' \in 0..MaxRelease /\ url' <= upstream
  BY <1>1, <1>3 DEF Typed, TypeOK
<1>6. UNCHANGED <<asset, named, upstream, part, dest, content, kernel, modules, failed>>
  BY DEF Resolve, constantVars, copies
<1>7. QED  BY <1>4, <1>5, <1>6 DEF Typed, TypeOK, Sound

LEMMA CheckTyped == ASSUME Typed, NEW c \in Clients, Check(c)  PROVE Typed'
<1>1. PICK expected \in {0, Served(c)} :
         IF dest # NoInode /\ expected \in {0, Size(dest)}
         THEN Goto(c, After(c)) /\ UNCHANGED <<part, dest>>
         ELSE /\ Becomes(c, [client[c] EXCEPT !.pc = "open", !.expected = expected])
              /\ part' = NoInode
              /\ dest' = NoInode
  BY DEF Check
<1> DEFINE s == [client[c] EXCEPT !.pc = "open", !.expected = expected]
<1>2. expected \in 0..MaxRelease
  BY <1>1, ServedTyped, NumberFacts
<1>3. s \in ClientState /\ Sound(s)
  BY <1>2 DEF Typed, TypeOK, ClientState, Labels, Sound
<1>4. /\ client' \in [Clients -> ClientState] /\ \A d \in Clients : Sound(client'[d])
      /\ part' \in {part, NoInode} /\ dest' \in {dest, NoInode}
  <2>1. CASE Goto(c, After(c)) /\ UNCHANGED <<part, dest>>
    BY <2>1, AfterTyped, GotoTyped
  <2>2. CASE Becomes(c, s) /\ part' = NoInode /\ dest' = NoInode
    BY <1>3, <2>2, BecomesTyped
  <2>3. QED  BY <1>1, <2>1, <2>2
<1>5. UNCHANGED <<asset, named, upstream, url, content, kernel, modules, failed>>
  BY DEF Check, constantVars, copies
<1>6. QED  BY <1>4, <1>5 DEF Typed, TypeOK, Sound

(* What Open does, the file it opens apart.                                 *)
LEMMA Opens ==
    ASSUME Typed, NEW c \in Clients, Open(c)
    PROVE  \E i \in Inodes :
              /\ part # NoInode => i = part
              /\ part = NoInode => i # dest
              /\ part' = i
              /\ content' = [content EXCEPT ![i] = Hole]
              /\ Served(c) \in Releases
              /\ client' \in [Clients -> ClientState]
              /\ client'[c] = [client[c] EXCEPT !.pc = "write", !.release = Served(c),
                                                !.inode = i, !.pos = 0]
              /\ \A d \in Clients : d # c => client'[d] = client[d]
              /\ \A d \in Clients : Sound(client'[d])
<1> DEFINE i == IF part # NoInode THEN part ELSE FreshInode
           s == [client[c] EXCEPT !.pc = "write", !.release = Served(c), !.inode = i, !.pos = 0]
<1>1. i \in Inodes /\ (part = NoInode => i # dest)
  BY FreshFacts DEF Typed, TypeOK, Open
<1>2. Served(c) \in Releases
  BY ServedTyped DEF Open
<1>3. s \in ClientState
  BY <1>1, <1>2, NumberFacts DEF Typed, TypeOK, ClientState, Labels
<1>4. client' = [client EXCEPT ![c] = s]
  BY DEF Open, Becomes
<1>5. Sound(s)
  BY <1>1, <1>2, InodesAssumption, NumberFacts DEF Sound, Typed, TypeOK, ClientState
<1> HIDE DEF s
<1>6. /\ client' \in [Clients -> ClientState] /\ client'[c] = s
      /\ \A d \in Clients : d # c => client'[d] = client[d]
      /\ \A d \in Clients : Sound(client'[d])
  BY <1>3, <1>4, <1>5 DEF Typed, TypeOK, Sound
<1>7. part' = i /\ content' = [content EXCEPT ![i] = Hole]
  BY DEF Open
<1>8. QED  BY <1>1, <1>2, <1>6, <1>7 DEF s

LEMMA OpenTyped == ASSUME Typed, NEW c \in Clients, Open(c)  PROVE Typed'
<1>1. PICK i \in Inodes :
         /\ part' = i /\ content' = [content EXCEPT ![i] = Hole]
         /\ client' \in [Clients -> ClientState]
         /\ \A d \in Clients : Sound(client'[d])
  BY Opens
<1>2. Hole \in [Blocks -> 0..MaxRelease]
  BY NumberFacts DEF Hole
<1>3. content' \in [Inodes -> [Blocks -> 0..MaxRelease]]
  BY <1>1, <1>2 DEF Typed, TypeOK
<1>4. UNCHANGED <<asset, named, upstream, url, dest, kernel, modules, failed>>
  BY DEF Open, constantVars, copies
<1>5. QED  BY <1>1, <1>3, <1>4 DEF Typed, TypeOK, Sound

(* The block that Write adds.                                               *)
LEMMA Writes ==
    ASSUME Typed, NEW c \in Clients, Write(c)
    PROVE  /\ client[c].inode \in Inodes /\ client[c].pos + 1 \in Blocks
           /\ client[c].release \in Releases
           /\ content' = [content EXCEPT ![client[c].inode][client[c].pos + 1] =
                             client[c].release]
           /\ client' \in [Clients -> ClientState]
           /\ client'[c] = [client[c] EXCEPT !.pos = @ + 1]
           /\ \A d \in Clients : d # c => client'[d] = client[d]
           /\ \A d \in Clients : Sound(client'[d])
<1> DEFINE me == client[c]
           s == [me EXCEPT !.pos = @ + 1]
<1>1. /\ me.pc = "write" /\ me.pos < me.release /\ me \in ClientState /\ Sound(me)
      /\ Becomes(c, s)
      /\ content' = [content EXCEPT ![me.inode][me.pos + 1] = me.release]
  BY DEF Write, At, Typed, TypeOK
<1>2. /\ me.inode \in Inodes /\ me.release \in 0..MaxRelease /\ me.pos \in 0..MaxRelease
      /\ me.release \in Releases /\ me.pos + 1 \in Blocks
  BY <1>1, NumberFacts DEF ClientState, Sound, Releases, Blocks
<1>3. s \in ClientState
  BY <1>1, <1>2 DEF ClientState, Blocks
<1>4. Sound(s)
  BY <1>1, <1>2 DEF ClientState, Sound
<1> HIDE DEF s
<1>5. /\ client' \in [Clients -> ClientState] /\ client'[c] = s
      /\ \A d \in Clients : d # c => client'[d] = client[d]
      /\ \A d \in Clients : Sound(client'[d])
  BY <1>1, <1>3, <1>4, BecomesTyped
<1>6. QED  BY <1>1, <1>2, <1>5 DEF s

LEMMA WriteTyped == ASSUME Typed, NEW c \in Clients, Write(c)  PROVE Typed'
<1>1. content' \in [Inodes -> [Blocks -> 0..MaxRelease]]
  <2> DEFINE i == client[c].inode
             k == client[c].pos + 1
             r == client[c].release
  <2>1. i \in Inodes /\ k \in Blocks /\ r \in 0..MaxRelease
    BY Writes, NumberFacts
  <2>2. content' = [content EXCEPT ![i][k] = r]
    BY Writes
  <2>3. content \in [Inodes -> [Blocks -> 0..MaxRelease]]
    BY DEF Typed, TypeOK
  <2> HIDE DEF i, k, r
  <2>4. [content[i] EXCEPT ![k] = r] \in [Blocks -> 0..MaxRelease]
    BY <2>1, <2>3
  <2>5. QED  BY <2>1, <2>2, <2>3, <2>4
<1>2. UNCHANGED <<asset, named, upstream, url, part, dest, kernel, modules, failed>>
  BY DEF Write, constantVars, copies
<1>3. QED  BY <1>1, <1>2, Writes DEF Typed, TypeOK, Sound

LEMMA AttemptFailsTyped == ASSUME Typed, NEW c \in Clients, AttemptFails(c)  PROVE Typed'
<1> DEFINE me == client[c]
           s == [me EXCEPT !.pc = "open", !.attempt = @ + 1, !.inode = NoInode,
                           !.release = 0, !.pos = 0]
<1>1. IF me.attempt + 1 < MaxAttempts THEN Becomes(c, s) ELSE Finish(c)
  BY DEF AttemptFails
<1>2. client' \in [Clients -> ClientState] /\ \A d \in Clients : Sound(client'[d])
  <2>1. CASE me.attempt + 1 < MaxAttempts
    <3>1. me \in ClientState /\ me.attempt + 1 \in 0..MaxAttempts
      BY <2>1, NumberFacts DEF Typed, TypeOK, ClientState
    <3>2. s \in ClientState /\ Sound(s)
      BY <2>1, <3>1, NumberFacts DEF ClientState, Labels, Sound
    <3>3. QED  BY <1>1, <2>1, <3>2, BecomesTyped
  <2>2. CASE ~(me.attempt + 1 < MaxAttempts)
    BY <1>1, <2>2, FinishTyped
  <2>3. QED  BY <2>1, <2>2
<1>3. part' = NoInode /\ UNCHANGED <<asset, named, upstream, url, dest, content, kernel, modules, failed>>
  BY DEF AttemptFails, constantVars, copies
<1>4. QED  BY <1>2, <1>3 DEF Typed, TypeOK, Sound

LEMMA RenameTyped == ASSUME Typed, NEW c \in Clients, Rename(c)  PROVE Typed'
<1> DEFINE s == [client[c] EXCEPT !.pc = "verify", !.inode = NoInode]
<1>1. \/ part # NoInode /\ dest' = part /\ Becomes(c, s)
      \/ UNCHANGED dest /\ Finish(c)
  BY DEF Rename
<1>2. s \in ClientState /\ Sound(s)
  BY DEF Typed, TypeOK, ClientState, Labels, Sound
<1>3. client' \in [Clients -> ClientState] /\ \A d \in Clients : Sound(client'[d])
  BY <1>1, <1>2, BecomesTyped, FinishTyped
<1>4. dest' \in {part, dest} /\ part' = NoInode
  BY <1>1 DEF Rename
<1>5. UNCHANGED <<asset, named, upstream, url, content, kernel, modules, failed>>
  BY DEF Rename, constantVars, copies
<1>6. QED  BY <1>3, <1>4, <1>5 DEF Typed, TypeOK, Sound

LEMMA VerifyTyped == ASSUME Typed, NEW c \in Clients, Verify(c)  PROVE Typed'
<1>1. Finish(c) \/ Goto(c, After(c))
  BY DEF Verify
<1>2. client' \in [Clients -> ClientState] /\ \A d \in Clients : Sound(client'[d])
  BY <1>1, AfterTyped, GotoTyped, FinishTyped
<1>3. QED  BY <1>2 DEF Verify, Typed, TypeOK, Sound, constantVars, copies

(* What tar takes out of a package that is whole is of its release.         *)
LEMMA Extracts ==
    ASSUME Typed, NEW c \in Clients, Extract(c)
    PROVE  \/ /\ content[dest][1] \in Releases
              /\ client' \in [Clients -> ClientState]
              /\ client'[c] = [Idle EXCEPT !.pc = "kernel", !.release = content[dest][1]]
              /\ \A d \in Clients : d # c => client'[d] = client[d]
              /\ \A d \in Clients : Sound(client'[d])
           \/ Finish(c)
<1> DEFINE s == [Idle EXCEPT !.pc = "kernel", !.release = content[dest][1]]
<1>1. SUFFICES ASSUME dest # NoInode, WholeFile(dest), Becomes(c, s)
               PROVE  /\ content[dest][1] \in Releases
                      /\ client' \in [Clients -> ClientState] /\ client'[c] = s
                      /\ \A d \in Clients : d # c => client'[d] = client[d]
                      /\ \A d \in Clients : Sound(client'[d])
  BY DEF Extract
<1>2. PICK r \in Releases : content[dest] = Full(r)
  BY <1>1 DEF WholeFile
<1>3. content[dest][1] = r
  BY <1>2, NumberFacts DEF Full, Releases
<1>4. s \in ClientState /\ Sound(s)
  <2>1. s = [Idle EXCEPT !.pc = "kernel", !.release = r]
    BY <1>3
  <2>2. s \in ClientState /\ s.pc = "kernel" /\ s.attempt = 0
    BY <2>1, IdleTyped, NumberFacts DEF ClientState, Labels
  <2>3. QED  BY <2>2, NumberFacts DEF Sound
<1>5. QED  BY <1>1, <1>2, <1>3, <1>4, BecomesTyped

LEMMA ExtractTyped == ASSUME Typed, NEW c \in Clients, Extract(c)  PROVE Typed'
<1>1. client' \in [Clients -> ClientState] /\ \A d \in Clients : Sound(client'[d])
  BY Extracts, FinishTyped
<1>2. QED  BY <1>1 DEF Extract, Typed, TypeOK, Sound, constantVars, copies

LEMMA CopyKernelTyped == ASSUME Typed, NEW c \in Clients, CopyKernel(c)  PROVE Typed'
<1> DEFINE s == [client[c] EXCEPT !.pc = "modules"]
<1>1. \/ UNCHANGED client /\ kernel' = Torn
      \/ Becomes(c, s) /\ kernel' = client[c].release
      \/ Finish(c) /\ kernel' = Torn
  BY DEF CopyKernel
<1>2. s \in ClientState /\ Sound(s)
  BY DEF Typed, TypeOK, ClientState, Labels, Sound
<1>3. client' \in [Clients -> ClientState] /\ \A d \in Clients : Sound(client'[d])
  BY <1>1, <1>2, BecomesTyped, FinishTyped DEF Typed, TypeOK
<1>4. kernel' \in Copies
  BY <1>1, NumberFacts DEF Typed, TypeOK, ClientState, Copies
<1>5. QED  BY <1>3, <1>4 DEF CopyKernel, Typed, TypeOK, Sound, constantVars, copies

LEMMA CopyModulesTyped == ASSUME Typed, NEW c \in Clients, CopyModules(c)  PROVE Typed'
<1> DEFINE s == [client[c] EXCEPT !.pc = "fill"]
<1>1. /\ failed' \in {failed, TRUE}
      /\ (modules' = Torn /\ Becomes(c, s)) \/ (Goto(c, "use") /\ UNCHANGED modules)
  BY DEF CopyModules
<1>2. s \in ClientState /\ Sound(s)
  BY DEF Typed, TypeOK, ClientState, Labels, Sound
<1>3. client' \in [Clients -> ClientState] /\ \A d \in Clients : Sound(client'[d])
  BY <1>1, <1>2, BecomesTyped, GotoTyped DEF Labels
<1>4. modules' \in Copies /\ failed' \in BOOLEAN
  BY <1>1 DEF Typed, TypeOK, Copies
<1>5. QED  BY <1>3, <1>4 DEF CopyModules, Typed, TypeOK, Sound, constantVars, copies

LEMMA FillModulesTyped == ASSUME Typed, NEW c \in Clients, FillModules(c)  PROVE Typed'
<1>1. Goto(c, "use") /\ modules' \in {client[c].release, Torn}
  BY DEF FillModules
<1>2. client' \in [Clients -> ClientState] /\ \A d \in Clients : Sound(client'[d])
  BY <1>1, GotoTyped DEF Labels
<1>3. modules' \in Copies /\ failed' \in BOOLEAN
  BY <1>1, NumberFacts DEF FillModules, Typed, TypeOK, ClientState, Copies
<1>4. QED  BY <1>2, <1>3 DEF FillModules, Typed, TypeOK, Sound, constantVars, copies

(* The command ends, having what it needs or killed.                        *)
LEMMA EndTyped ==
    ASSUME Typed, NEW c \in Clients, Use(c) \/ Kill(c)
    PROVE  Typed'
<1>1. Finish(c)
  BY DEF Use, Kill
<1>2. client' \in [Clients -> ClientState] /\ \A d \in Clients : Sound(client'[d])
  BY <1>1, FinishTyped
<1>3. failed' \in BOOLEAN
  BY DEF Use, Kill, copies, Typed, TypeOK
<1>4. QED  BY <1>2, <1>3 DEF Use, Kill, Typed, TypeOK, Sound, constantVars, copies

LEMMA DestroyTyped == ASSUME Typed, Destroy  PROVE Typed'
<1>1. /\ url' \in {0, url} /\ kernel' \in {0, kernel} /\ modules' \in {0, modules}
      /\ part' \in {NoInode, part} /\ dest' \in {NoInode, dest}
      /\ UNCHANGED <<client, asset, named, upstream, content>>
  BY DEF Destroy, constantVars, copies
<1>2. url' \in 0..MaxRelease /\ url' <= upstream
  BY <1>1, NumberFacts DEF Typed, TypeOK, Releases
<1>3. kernel' \in Copies /\ modules' \in Copies /\ failed' \in BOOLEAN
  BY <1>1 DEF Destroy, Typed, TypeOK, Copies
<1>4. QED  BY <1>1, <1>2, <1>3 DEF Typed, TypeOK, Sound

LEMMA PublishTyped == ASSUME Typed, Publish  PROVE Typed'
BY NumberFacts DEF Publish, Typed, TypeOK, Releases, Sound, constantVars, copies

LEMMA InitTyped == Init => Typed
<1> SUFFICES ASSUME Init PROVE Typed
  OBVIOUS
<1>1. client = [c \in Clients |-> Idle]
  BY DEF Init
<1>2. client \in [Clients -> ClientState] /\ \A c \in Clients : Sound(client[c])
  BY <1>1, IdleTyped, NumberFacts DEF Sound
<1>3. content \in [Inodes -> [Blocks -> 0..MaxRelease]]
  BY NumberFacts DEF Init, Hole
<1>4. failed \in BOOLEAN
  BY DEF Init
<1>5. QED  BY <1>2, <1>3, <1>4, NumberFacts DEF Init, Typed, TypeOK, Copies, Sound

LEMMA StepTyped == Typed /\ [Next]_vars => Typed'
<1> SUFFICES ASSUME Typed, [Next]_vars PROVE Typed'
  OBVIOUS
<1>1. ASSUME NEW c \in Clients, Begin(c) \/ Step(c) \/ Kill(c)  PROVE Typed'
  BY <1>1, BeginTyped, ResolveTyped, CheckTyped, OpenTyped, WriteTyped, AttemptFailsTyped,
     RenameTyped, VerifyTyped, ExtractTyped, CopyKernelTyped, CopyModulesTyped,
     FillModulesTyped, EndTyped DEF Step
<1>2. CASE UNCHANGED vars
  BY <1>2 DEF vars, constantVars, copies, Typed, TypeOK, Sound
<1>3. QED  BY <1>1, <1>2, DestroyTyped, PublishTyped DEF Next

LEMMA AlwaysTyped == Spec => []Typed
<1>1. QED  BY InitTyped, StepTyped, PTL DEF Spec

(* TypeOK holds for any number of commands, killed or not: in particular no *)
(* command tries more often than MaxAttempts, and none reads past the end   *)
(* of its release.                                                          *)
THEOREM TypeCorrect == Spec => []TypeOK
<1>1. Typed => TypeOK
  BY DEF Typed
<1>2. QED  BY <1>1, AlwaysTyped, PTL

-----------------------------------------------------------------------------
(* What one command fetches.                                                *)

(* downloadFile locks nothing: two commands that fetch one file write into  *)
(* one temporary file, or rename each other's.  What follows is about one   *)
(* command at a time, which may die at any step and be run again.           *)
SoleClient == \A c, d \in Clients : c = d

(* A file that is being written has a prefix of its release, and there is   *)
(* no destination then; before it is opened there is no temporary file.     *)
Prefix(s) == [k \in Blocks |-> IF k <= s.pos THEN s.release ELSE 0]

Opening(c) == At(c, "open") => part = NoInode /\ dest = NoInode

Filling(c) ==
    At(c, "write") => /\ part = client[c].inode /\ dest = NoInode
                      /\ client[c].release \in Releases
                      /\ content[part] = Prefix(client[c])

FInv == Typed /\ WholeFiles /\ \A c \in Clients : Opening(c) /\ Filling(c)

(* A file that was read to its end is whole.                                *)
LEMMA PrefixWhole ==
    ASSUME NEW i, NEW s, content[i] = Prefix(s), s.pos = s.release, s.release \in Releases
    PROVE  WholeFile(i)
BY DEF Prefix, WholeFile, Full

(* The steps that leave the files alone, and do not come to write one.      *)
LEMMA FilesAlone ==
    ASSUME FInv, SoleClient, Typed', UNCHANGED content,
           NEW c \in Clients, client'[c].pc \notin {"open", "write"},
           dest' \in {dest, NoInode}
    PROVE  FInv'
<1>1. WholeFiles'
  BY DEF FInv, WholeFiles, WholeFile
<1>2. \A d \in Clients : (Opening(d) /\ Filling(d))'
  BY DEF SoleClient, Opening, Filling, At
<1>3. QED  BY <1>1, <1>2 DEF FInv

LEMMA EndsElsewhere ==
    ASSUME Typed, NEW c \in Clients,
           Finish(c) \/ \E l \in Labels \ {"open", "write"} : Goto(c, l)
    PROVE  client'[c].pc \notin {"open", "write"}
BY FinishTyped, GotoTyped, IdleTyped

LEMMA BecomesIt ==
    ASSUME Typed, NEW c \in Clients, NEW s, Becomes(c, s)
    PROVE  client'[c] = s
BY DEF Typed, TypeOK, Becomes

LEMMA CheckFiles == ASSUME FInv, SoleClient, Typed', NEW c \in Clients, Check(c)  PROVE FInv'
<1>1. Typed /\ UNCHANGED content
  BY DEF FInv, Check
<1>2. CASE Goto(c, After(c)) /\ UNCHANGED <<part, dest>>
  <2>1. client'[c].pc \notin {"open", "write"}
    BY <1>1, <1>2, EndsElsewhere DEF After, Labels
  <2>2. QED  BY <1>1, <1>2, <2>1, FilesAlone
<1>3. CASE \E expected \in {0, Served(c)} :
             /\ Becomes(c, [client[c] EXCEPT !.pc = "open", !.expected = expected])
             /\ part' = NoInode /\ dest' = NoInode
  <2>1. client'[c].pc = "open" /\ part' = NoInode /\ dest' = NoInode
    BY <1>1, <1>3 DEF Becomes, Typed, TypeOK, ClientState
  <2>2. WholeFiles'
    BY <2>1 DEF WholeFiles
  <2>3. \A d \in Clients : (Opening(d) /\ Filling(d))'
    BY <2>1 DEF SoleClient, Opening, Filling, At
  <2>4. QED  BY <2>2, <2>3 DEF FInv
<1>4. QED  BY <1>2, <1>3 DEF Check

LEMMA OpenFiles == ASSUME FInv, SoleClient, Typed', NEW c \in Clients, Open(c)  PROVE FInv'
<1>1. Typed /\ At(c, "open") /\ part = NoInode /\ dest = NoInode /\ UNCHANGED dest
  BY DEF FInv, Open, Opening
<1>2. PICK i \in Inodes :
         /\ part' = i /\ content' = [content EXCEPT ![i] = Hole]
         /\ Served(c) \in Releases
         /\ client'[c] = [client[c] EXCEPT !.pc = "write", !.release = Served(c),
                                           !.inode = i, !.pos = 0]
  BY <1>1, Opens
<1>3. /\ client'[c].pc = "write" /\ client'[c].release \in Releases
      /\ client'[c].inode = i /\ client'[c].pos = 0
  BY <1>1, <1>2 DEF Typed, TypeOK, ClientState
<1>4. content'[i] = Hole
  BY <1>1, <1>2 DEF Typed, TypeOK
<1>5. Hole = Prefix(client'[c])
  BY <1>3 DEF Hole, Prefix, Blocks
<1>6. WholeFiles'
  BY <1>1 DEF WholeFiles
<1>7. \A d \in Clients : (Opening(d) /\ Filling(d))'
  BY <1>1, <1>2, <1>3, <1>4, <1>5 DEF SoleClient, Opening, Filling, At, Prefix
<1>8. QED  BY <1>6, <1>7 DEF FInv

LEMMA WriteFiles == ASSUME FInv, SoleClient, Typed', NEW c \in Clients, Write(c)  PROVE FInv'
<1> DEFINE me == client[c]
<1>1. /\ Typed /\ me.pc = "write" /\ part = me.inode /\ dest = NoInode
      /\ me.release \in Releases /\ content[part] = Prefix(me)
      /\ UNCHANGED <<part, dest>>
  BY DEF FInv, Write, At, Filling
<1>2. /\ me.inode \in Inodes /\ me.pos + 1 \in Blocks
      /\ content' = [content EXCEPT ![me.inode][me.pos + 1] = me.release]
      /\ client'[c] = [me EXCEPT !.pos = @ + 1]
  BY <1>1, Writes
<1>3. /\ client'[c].pc = "write" /\ client'[c].release = me.release
      /\ client'[c].inode = me.inode /\ client'[c].pos = me.pos + 1
      /\ me.pos \in Nat
  BY <1>1, <1>2, NumberFacts DEF Typed, TypeOK, ClientState
<1>4. content'[part] = [content[part] EXCEPT ![me.pos + 1] = me.release]
  BY <1>1, <1>2 DEF Typed, TypeOK
<1>5. content'[part] = Prefix(client'[c])
  <2>1. [Prefix(me) EXCEPT ![me.pos + 1] = me.release]
           = [k \in Blocks |-> IF k <= me.pos + 1 THEN me.release ELSE 0]
    <3> DEFINE p == me.pos
               r == me.release
    <3>1. p \in Nat /\ p + 1 \in Blocks /\ Blocks \subseteq Int
      BY <1>2, <1>3 DEF Blocks
    <3> HIDE DEF p, r
    <3>2. [[k \in Blocks |-> IF k <= p THEN r ELSE 0] EXCEPT ![p + 1] = r]
             = [k \in Blocks |-> IF k <= p + 1 THEN r ELSE 0]
      <4>1. \A k \in Blocks : (k <= p + 1) <=> (k <= p \/ k = p + 1)
        BY <3>1
      <4>2. [[k \in Blocks |-> IF k <= p THEN r ELSE 0] EXCEPT ![p + 1] = r]
               = [k \in Blocks |-> IF k = p + 1 THEN r ELSE IF k <= p THEN r ELSE 0]
        BY Zenon
      <4>3. QED  BY <4>1, <4>2
    <3>3. QED  BY <3>2 DEF p, r, Prefix
  <2>2. Prefix(client'[c]) = [k \in Blocks |-> IF k <= me.pos + 1 THEN me.release ELSE 0]
    BY <1>3 DEF Prefix
  <2>3. QED  BY <1>1, <1>4, <2>1, <2>2
<1>6. WholeFiles'
  BY <1>1 DEF WholeFiles
<1>7. \A d \in Clients : (Opening(d) /\ Filling(d))'
  BY <1>1, <1>3, <1>5 DEF SoleClient, Opening, Filling, At, Prefix
<1>8. QED  BY <1>6, <1>7 DEF FInv

LEMMA AttemptFailsFiles ==
    ASSUME FInv, SoleClient, Typed', NEW c \in Clients, AttemptFails(c)  PROVE FInv'
<1>1. Typed /\ dest = NoInode /\ part' = NoInode /\ UNCHANGED <<dest, content>>
  BY DEF FInv, AttemptFails, Opening, Filling, At
<1>2. client'[c].pc \in {"open", "idle"}
  <2> DEFINE s == [client[c] EXCEPT !.pc = "open", !.attempt = @ + 1, !.inode = NoInode,
                                    !.release = 0, !.pos = 0]
  <2>1. Becomes(c, s) \/ Finish(c)
    BY DEF AttemptFails
  <2>2. s.pc = "open"
    BY <1>1 DEF Typed, TypeOK, ClientState
  <2>3. QED  BY <1>1, <2>1, <2>2, BecomesIt, FinishTyped, IdleTyped
<1>3. WholeFiles'
  BY <1>1 DEF WholeFiles
<1>4. \A d \in Clients : (Opening(d) /\ Filling(d))'
  BY <1>1, <1>2 DEF SoleClient, Opening, Filling, At
<1>5. QED  BY <1>3, <1>4 DEF FInv

(* The file that is renamed was written to its end, by this command.        *)
LEMMA RenameFiles == ASSUME FInv, SoleClient, Typed', NEW c \in Clients, Rename(c)  PROVE FInv'
<1> DEFINE me == client[c]
<1>1. /\ Typed /\ me.pc = "write" /\ me.pos = me.release /\ part = me.inode /\ dest = NoInode
      /\ me.release \in Releases /\ content[part] = Prefix(me) /\ UNCHANGED content
  BY DEF FInv, Rename, At, Filling
<1>2. WholeFile(part)
  BY <1>1, PrefixWhole
<1>3. dest' \in {part, dest}
  BY DEF Rename
<1>4. WholeFiles'
  BY <1>1, <1>2, <1>3 DEF WholeFiles, WholeFile
<1>5. client'[c].pc \in {"verify", "idle"}
  <2> DEFINE s == [me EXCEPT !.pc = "verify", !.inode = NoInode]
  <2>1. Becomes(c, s) \/ Finish(c)
    BY DEF Rename
  <2>2. s.pc = "verify"
    BY <1>1 DEF Typed, TypeOK, ClientState
  <2>3. QED  BY <1>1, <2>1, <2>2, BecomesIt, FinishTyped, IdleTyped
<1>6. \A d \in Clients : (Opening(d) /\ Filling(d))'
  BY <1>5 DEF SoleClient, Opening, Filling, At
<1>7. QED  BY <1>4, <1>6 DEF FInv

(* The other steps of a command.                                            *)
LEMMA OtherFiles ==
    ASSUME FInv, SoleClient, Typed', NEW c \in Clients,
           \/ Begin(c) \/ Resolve(c) \/ Verify(c) \/ Extract(c) \/ CopyKernel(c)
           \/ CopyModules(c) \/ FillModules(c) \/ Use(c) \/ Kill(c)
    PROVE  FInv'
<1>1. Typed /\ UNCHANGED <<dest, content>>
  BY DEF FInv, Begin, Resolve, Verify, Extract, CopyKernel, CopyModules, FillModules, Use, Kill
<1>2. client \in [Clients -> ClientState]
  BY <1>1 DEF Typed, TypeOK
<1>3. client'[c].pc \notin {"open", "write"}
  <2>1. CASE Begin(c) \/ Verify(c) \/ CopyModules(c) \/ FillModules(c) \/ Use(c) \/ Kill(c)
    <3>1. \/ Finish(c) \/ \E l \in Labels \ {"open", "write"} : Goto(c, l)
          \/ Becomes(c, [client[c] EXCEPT !.pc = "fill"])
      BY <2>1 DEF Begin, Verify, CopyModules, FillModules, Use, Kill, After, Labels
    <3>2. QED  BY <1>1, <1>2, <3>1, EndsElsewhere DEF Becomes, ClientState
  <2>2. CASE Resolve(c)
    <3>1. PICK next \in {"extract", "check"}, want \in {0, url, upstream} :
             Becomes(c, [Idle EXCEPT !.pc = next, !.want = want]) \/ Finish(c)
      BY <2>2 DEF Resolve
    <3>2. [Idle EXCEPT !.pc = next, !.want = want].pc = next
      BY IdleTyped DEF ClientState
    <3>3. QED  BY <1>1, <3>1, <3>2, BecomesIt, FinishTyped, IdleTyped
  <2>3. CASE Extract(c)
    BY <1>1, <1>2, <2>3, IdleTyped, Extracts, FinishTyped DEF ClientState
  <2>4. CASE CopyKernel(c)
    <3> DEFINE s == [client[c] EXCEPT !.pc = "modules"]
    <3>1. client[c].pc = "kernel" /\ (UNCHANGED client \/ Becomes(c, s) \/ Finish(c))
      BY <2>4 DEF CopyKernel, At
    <3>2. s.pc = "modules"
      BY <1>2 DEF ClientState
    <3>3. QED  BY <1>1, <3>1, <3>2, BecomesIt, FinishTyped, IdleTyped
  <2>5. QED  BY <2>1, <2>2, <2>3, <2>4
<1>4. QED  BY <1>1, <1>3, FilesAlone

LEMMA DestroyFiles == ASSUME FInv, Typed', Destroy  PROVE FInv'
<1>1. dest' \in {dest, NoInode} /\ UNCHANGED <<client, content>>
  BY DEF Destroy
<1>2. \A c \in Clients : client[c].pc = "idle"
  BY DEF Destroy, At
<1>3. WholeFiles'
  BY <1>1 DEF FInv, WholeFiles, WholeFile
<1>4. \A d \in Clients : (Opening(d) /\ Filling(d))'
  BY <1>1, <1>2 DEF Opening, Filling, At
<1>5. QED  BY <1>3, <1>4 DEF FInv

LEMMA QuietFiles == ASSUME FInv, Typed', Publish \/ UNCHANGED vars  PROVE FInv'
BY DEF FInv, Publish, vars, WholeFiles, WholeFile, Opening, Filling, At, Prefix

LEMMA FilesInit == Init => FInv
<1>1. Init => WholeFiles
  BY DEF Init, WholeFiles
<1>2. Init => \A c \in Clients : Opening(c) /\ Filling(c)
  BY IdleTyped DEF Init, Opening, Filling, At
<1>3. QED  BY <1>1, <1>2, InitTyped DEF FInv

LEMMA FilesStep == ASSUME SoleClient  PROVE FInv /\ [Next]_vars => FInv'
<1> SUFFICES ASSUME FInv, [Next]_vars PROVE FInv'
  OBVIOUS
<1>1. Typed'
  BY StepTyped DEF FInv
<1>2. ASSUME NEW c \in Clients, Begin(c) \/ Step(c) \/ Kill(c)  PROVE FInv'
  BY <1>1, <1>2, CheckFiles, OpenFiles, WriteFiles, AttemptFailsFiles, RenameFiles, OtherFiles
     DEF Step
<1>3. QED  BY <1>1, <1>2, DestroyFiles, QuietFiles DEF Next

(* What one command at a time leaves under the destination's name is one    *)
(* release from its first block to its last, wherever the command was       *)
(* killed and whatever the mirror published in between.                     *)
THEOREM FetchedWhole == ASSUME SoleClient  PROVE Spec => []WholeFiles
<1>1. FInv => WholeFiles
  BY DEF FInv
<1>2. FInv /\ [Next]_vars => FInv'
  BY FilesStep
<1>3. QED  BY <1>1, <1>2, FilesInit, PTL DEF Spec

-----------------------------------------------------------------------------
(* What one command takes out of the package.                               *)

(* A destroy that stops half way may remove the kernel and leave the        *)
(* modules, which the next build then takes for those of its own kernel.    *)
DestroyWhole == "halfway" \notin Environment

(* Modules are there only beside the kernel they came with, as the kernel   *)
(* is copied before them and a build without modules copies both again.     *)
(* Torn ones, and none for a build that has its kernel, are the mark of a   *)
(* copy that failed or was killed.                                          *)
Together == modules # 0 => kernel \in Releases /\ modules \in {kernel, Torn}

Before == {"resolve", "check", "open", "write", "verify", "extract"}

InHand(c) ==
    LET me == client[c] IN
    /\ me.pc \in Before => modules = 0
    /\ me.pc = "kernel" => modules = 0 /\ me.release \in Releases
    /\ me.pc = "modules" => modules = 0 /\ me.release \in Releases /\ kernel = me.release
    /\ me.pc = "fill" => modules = Torn /\ me.release \in Releases /\ kernel = me.release
    /\ me.pc = "use" => kernel \in Releases /\ (modules = 0 => failed)
    /\ me.pc # "fill" /\ modules = Torn => failed

Kept == asset = "kernel" => Together /\ \A c \in Clients : InHand(c)

KInv == Typed /\ Kept

(* The steps that leave kernel and modules alone.                           *)
LEMMA CopiesAlone ==
    ASSUME KInv, SoleClient, UNCHANGED <<asset, kernel, modules, failed>>,
           NEW c \in Clients, client[c].pc # "fill",
           \/ client'[c].pc = "idle"
           \/ client[c].pc \in Before /\ client'[c].pc \in Before
           \/ client'[c].pc = "use" /\ asset # "kernel"
    PROVE  Kept'
BY NumberFacts DEF KInv, Kept, Together, SoleClient, InHand, Before

LEMMA BeginKept == ASSUME KInv, SoleClient, NEW c \in Clients, Begin(c)  PROVE Kept'
<1>1. /\ Typed /\ UNCHANGED <<asset, kernel, modules, failed>> /\ client[c].pc = "idle"
      /\ Goto(c, IF Ready THEN "use" ELSE "resolve")
  BY DEF KInv, Begin, constantVars, copies, At
<1>2. client'[c].pc = IF Ready THEN "use" ELSE "resolve"
  BY <1>1, GotoTyped DEF Labels
<1>3. asset = "kernel" => IF Ready THEN modules # 0 ELSE modules = 0
  BY NumberFacts DEF KInv, Kept, Together, Ready
<1>4. QED  BY <1>1, <1>2, <1>3, NumberFacts DEF KInv, Kept, Together, SoleClient, InHand, Before

(* From the URL to the package: nothing was taken out of it yet.            *)
LEMMA FetchKept ==
    ASSUME KInv, SoleClient, NEW c \in Clients,
           Resolve(c) \/ Check(c) \/ Open(c) \/ Write(c) \/ AttemptFails(c) \/ Rename(c) \/ Verify(c)
    PROVE  Kept'
<1>1. /\ Typed /\ UNCHANGED <<asset, kernel, modules, failed>> /\ client[c] \in ClientState
      /\ client[c].pc \in Before
  BY DEF KInv, Typed, TypeOK, Resolve, Check, Open, Write, AttemptFails, Rename, Verify,
         constantVars, copies, At, Before
<1>2. \/ Finish(c)
      \/ Goto(c, After(c))
      \/ \E s : Becomes(c, s) /\ s.pc \in Before
  <2>1. CASE Resolve(c)
    <3>1. PICK next \in {"extract", "check"}, want \in {0, url, upstream} :
             Becomes(c, [Idle EXCEPT !.pc = next, !.want = want]) \/ Finish(c)
      BY <2>1 DEF Resolve
    <3>2. [Idle EXCEPT !.pc = next, !.want = want].pc = next
      BY IdleTyped DEF ClientState
    <3>3. QED  BY <3>1, <3>2 DEF Before
  <2>2. CASE Check(c)
    <3>1. PICK expected \in {0, Served(c)} :
             \/ Goto(c, After(c))
             \/ Becomes(c, [client[c] EXCEPT !.pc = "open", !.expected = expected])
      BY <2>2 DEF Check
    <3>2. [client[c] EXCEPT !.pc = "open", !.expected = expected].pc = "open"
      BY <1>1 DEF ClientState
    <3>3. QED  BY <3>1, <3>2 DEF Before
  <2>3. CASE Open(c)
    <3> DEFINE i == IF part # NoInode THEN part ELSE FreshInode
               s == [client[c] EXCEPT !.pc = "write", !.release = Served(c), !.inode = i,
                                      !.pos = 0]
    <3>1. Becomes(c, s)
      BY <2>3 DEF Open
    <3>2. s.pc = "write"
      BY <1>1 DEF ClientState
    <3>3. QED  BY <3>1, <3>2 DEF Before
  <2>4. CASE Write(c)
    <3> DEFINE s == [client[c] EXCEPT !.pos = @ + 1]
    <3>1. Becomes(c, s)
      BY <2>4 DEF Write
    <3>2. s.pc = client[c].pc
      BY <1>1 DEF ClientState
    <3>3. QED  BY <1>1, <3>1, <3>2
  <2>5. CASE AttemptFails(c)
    <3> DEFINE s == [client[c] EXCEPT !.pc = "open", !.attempt = @ + 1, !.inode = NoInode,
                                      !.release = 0, !.pos = 0]
    <3>1. Becomes(c, s) \/ Finish(c)
      BY <2>5 DEF AttemptFails
    <3>2. s.pc = "open"
      BY <1>1 DEF ClientState
    <3>3. QED  BY <3>1, <3>2 DEF Before
  <2>6. CASE Rename(c)
    <3> DEFINE s == [client[c] EXCEPT !.pc = "verify", !.inode = NoInode]
    <3>1. Becomes(c, s) \/ Finish(c)
      BY <2>6 DEF Rename
    <3>2. s.pc = "verify"
      BY <1>1 DEF ClientState
    <3>3. QED  BY <3>1, <3>2 DEF Before
  <2>7. CASE Verify(c)
    BY <2>7 DEF Verify
  <2>8. QED  BY <2>1, <2>2, <2>3, <2>4, <2>5, <2>6, <2>7
<1>3. CASE Finish(c)
  BY <1>1, <1>3, FinishTyped, IdleTyped, CopiesAlone DEF Before
<1>4. CASE Goto(c, After(c))
  <2>1. client'[c].pc = IF asset = "kernel" THEN "extract" ELSE "use"
    BY <1>1, <1>4, AfterTyped, GotoTyped
  <2>2. QED  BY <1>1, <2>1, CopiesAlone DEF Before
<1>5. CASE \E s : Becomes(c, s) /\ s.pc \in Before
  BY <1>1, <1>5, BecomesIt, CopiesAlone DEF Before
<1>6. QED  BY <1>2, <1>3, <1>4, <1>5

LEMMA ExtractKept == ASSUME KInv, SoleClient, NEW c \in Clients, Extract(c)  PROVE Kept'
<1>1. Typed /\ UNCHANGED <<asset, kernel, modules, failed>> /\ client[c].pc = "extract"
  BY DEF KInv, Extract, constantVars, copies, At
<1>2. CASE Finish(c)
  BY <1>1, <1>2, FinishTyped, IdleTyped, CopiesAlone
<1>3. CASE /\ content[dest][1] \in Releases
           /\ client'[c] = [Idle EXCEPT !.pc = "kernel", !.release = content[dest][1]]
  <2>1. client'[c].pc = "kernel" /\ client'[c].release \in Releases
    BY <1>3, IdleTyped DEF ClientState
  <2>2. QED  BY <1>1, <2>1 DEF KInv, Kept, Together, SoleClient, InHand, Before
<1>4. QED  BY <1>1, <1>2, <1>3, Extracts

(* No modules are there while the kernel is torn.                           *)
LEMMA CopyKernelKept == ASSUME KInv, SoleClient, NEW c \in Clients, CopyKernel(c)  PROVE Kept'
<1> DEFINE s == [client[c] EXCEPT !.pc = "modules"]
<1>1. /\ Typed /\ UNCHANGED <<asset, modules, failed>> /\ client[c].pc = "kernel"
      /\ \/ UNCHANGED client
         \/ kernel' = client[c].release /\ Becomes(c, s)
         \/ Finish(c)
  BY DEF KInv, CopyKernel, constantVars, copies, At
<1>2. s.pc = "modules" /\ s.release = client[c].release
  BY <1>1 DEF Typed, TypeOK, ClientState
<1>3. asset = "kernel" => modules = 0 /\ client[c].release \in Releases
  BY <1>1 DEF KInv, Kept, InHand
<1>4. CASE UNCHANGED client
  BY <1>1, <1>3, <1>4 DEF KInv, Kept, Together, SoleClient, InHand, Before
<1>5. CASE kernel' = client[c].release /\ Becomes(c, s)
  <2>1. client'[c].pc = "modules" /\ client'[c].release = client[c].release
    BY <1>1, <1>2, <1>5, BecomesIt
  <2>2. QED  BY <1>1, <1>3, <1>5, <2>1, NumberFacts DEF Kept, Together, SoleClient, InHand, Before
<1>6. CASE Finish(c)
  <2>1. client'[c].pc = "idle"
    BY <1>1, <1>6, FinishTyped, IdleTyped
  <2>2. QED  BY <1>1, <1>3, <2>1, NumberFacts DEF Kept, Together, SoleClient, InHand, Before
<1>7. QED  BY <1>1, <1>4, <1>5, <1>6

LEMMA CopyModulesKept == ASSUME KInv, SoleClient, NEW c \in Clients, CopyModules(c)  PROVE Kept'
<1> DEFINE s == [client[c] EXCEPT !.pc = "fill"]
<1>1. /\ Typed /\ UNCHANGED <<asset, kernel>> /\ client[c].pc = "modules"
  BY DEF KInv, CopyModules, constantVars, At
<1>2. asset = "kernel" => modules = 0 /\ client[c].release \in Releases /\ kernel = client[c].release
  BY <1>1 DEF KInv, Kept, InHand
<1>3. s.pc = "fill" /\ s.release = client[c].release
  BY <1>1 DEF Typed, TypeOK, ClientState
<1>4. CASE modules' = Torn /\ Becomes(c, s) /\ UNCHANGED failed
  <2>1. client'[c].pc = "fill" /\ client'[c].release = client[c].release
    BY <1>1, <1>3, <1>4, BecomesIt
  <2>2. QED  BY <1>1, <1>2, <1>4, <2>1 DEF Kept, Together, SoleClient, InHand, Before
<1>5. CASE modules = 0 /\ failed' /\ Goto(c, "use") /\ UNCHANGED modules
  <2>1. client'[c].pc = "use"
    BY <1>1, <1>5, GotoTyped DEF Labels
  <2>2. QED  BY <1>1, <1>2, <1>5, <2>1 DEF Kept, Together, SoleClient, InHand, Before
<1>6. CASE asset # "kernel"
  BY <1>1, <1>6 DEF Kept
<1>7. QED  BY <1>2, <1>4, <1>5, <1>6 DEF CopyModules

LEMMA FillModulesKept == ASSUME KInv, SoleClient, NEW c \in Clients, FillModules(c)  PROVE Kept'
<1>1. /\ Typed /\ UNCHANGED <<asset, kernel>> /\ client[c].pc = "fill"
      /\ modules' \in {client[c].release, Torn} /\ Goto(c, "use")
      /\ failed' = (modules' = Torn)
  BY DEF KInv, FillModules, constantVars, At
<1>2. client'[c].pc = "use"
  BY <1>1, GotoTyped DEF Labels
<1>3. asset = "kernel" => client[c].release \in Releases /\ kernel = client[c].release
  BY <1>1 DEF KInv, Kept, InHand
<1>4. QED  BY <1>1, <1>2, <1>3, NumberFacts DEF Kept, Together, SoleClient, InHand, Before

(* A command that is killed while it fills the modules leaves them torn.    *)
LEMMA EndKept == ASSUME KInv, SoleClient, NEW c \in Clients, Use(c) \/ Kill(c)  PROVE Kept'
<1>1. /\ Typed /\ UNCHANGED <<asset, kernel, modules>> /\ Finish(c)
      /\ failed' = (failed \/ client[c].pc = "fill")
  BY DEF KInv, Use, Kill, constantVars, copies, At, Typed, TypeOK
<1>2. client'[c].pc = "idle"
  BY <1>1, FinishTyped, IdleTyped
<1>3. CASE client[c].pc = "fill"
  BY <1>1, <1>2, <1>3 DEF KInv, Kept, Together, SoleClient, InHand, Before
<1>4. CASE client[c].pc # "fill"
  <2>1. UNCHANGED failed
    BY <1>1, <1>4 DEF Typed, TypeOK
  <2>2. QED  BY <1>1, <1>2, <1>4, <2>1, CopiesAlone
<1>5. QED  BY <1>3, <1>4

LEMMA DestroyKept == ASSUME KInv, DestroyWhole, Destroy  PROVE Kept'
<1>1. modules' = 0 /\ UNCHANGED <<client, asset>> /\ \A c \in Clients : client[c].pc = "idle"
  BY DEF DestroyWhole, Destroy, constantVars, copies, At
<1>2. QED  BY <1>1, NumberFacts DEF Kept, Together, InHand, Before

LEMMA QuietKept == ASSUME KInv, Publish \/ UNCHANGED vars  PROVE Kept'
BY DEF KInv, Publish, vars, constantVars, copies, Kept, Together, InHand

LEMMA KeptInit == Init => KInv
<1> SUFFICES ASSUME Init PROVE KInv
  OBVIOUS
<1>1. modules = 0 /\ \A c \in Clients : client[c].pc = "idle"
  BY IdleTyped DEF Init
<1>2. QED  BY <1>1, InitTyped, NumberFacts DEF KInv, Kept, Together, InHand, Before

LEMMA KeptStep == ASSUME SoleClient, DestroyWhole  PROVE KInv /\ [Next]_vars => KInv'
<1> SUFFICES ASSUME KInv, [Next]_vars PROVE KInv'
  OBVIOUS
<1>1. Typed'
  BY StepTyped DEF KInv
<1>2. ASSUME NEW c \in Clients, Begin(c) \/ Step(c) \/ Kill(c)  PROVE Kept'
  BY <1>2, BeginKept, FetchKept, ExtractKept, CopyKernelKept, CopyModulesKept,
     FillModulesKept, EndKept DEF Step
<1>3. QED  BY <1>1, <1>2, DestroyKept, QuietKept DEF Next, KInv

(* With one command at a time, and no destroy that stops half way, a build  *)
(* is given a kernel that is whole, and with it the modules of its release  *)
(* unless their last copy failed or was killed: although copies fail and    *)
(* commands are killed between any two of their steps, and although a copy  *)
(* of the modules that failed is taken for good.                            *)
THEOREM KernelsAreUsable == ASSUME SoleClient, DestroyWhole  PROVE Spec => []KernelUsable
<1>1. KInv => KernelUsable
  BY DEF KInv, Kept, Together, InHand, KernelUsable, At
<1>2. KInv /\ [Next]_vars => KInv'
  BY KeptStep
<1>3. QED  BY <1>1, <1>2, KeptInit, PTL DEF Spec

==============================================================================
