--------------------------- MODULE GitSetupProofs ---------------------------
(* Proofs about GitSetup, for every value of its constants.                 *)
EXTENDS GitSetup, TLAPS

-----------------------------------------------------------------------------
(* Typing.                                                                  *)

LEMMA IdleTyped == Idle \in ClientState
BY DEF Idle, ClientState, Labels

LEMMA EmptyBareTyped ==
    /\ EmptyBare \in BareRepos
    /\ EmptyBare.of = None /\ EmptyBare.main = 0 /\ ~EmptyBare.ahead
<1>1. 0 \in 0..MaxCommits
  BY BoundsAssumption
<1>2. QED  BY <1>1 DEF EmptyBare, BareRepos

LEMMA GotoTyped ==
    ASSUME TypeOK, NEW c \in Clients, NEW l \in Labels, Goto(c, l)
    PROVE  client' \in [Clients -> ClientState]
<1>1. client[c] \in ClientState
  BY DEF TypeOK
<1>2. [client[c] EXCEPT !.pc = l] \in ClientState
  BY <1>1 DEF ClientState
<1>3. QED  BY <1>2 DEF Goto, TypeOK

LEMMA FinishTyped ==
    ASSUME TypeOK, NEW c \in Clients, Finish(c)
    PROVE  client' \in [Clients -> ClientState]
BY IdleTyped DEF Finish, TypeOK

(* A setup that has begun has a pair and knows the refs it began with.      *)
Begun ==
    \A c \in Clients : client[c].pc # "idle" =>
        /\ client[c].pair \in Pairs
        /\ client[c].begun \in HostRepos
        /\ client[c].begun.main <= host[client[c].pair.host].main
        /\ client[c].begun.tagged => host[client[c].pair.host].tagged

LEMMA PairTyped ==
    ASSUME TypeOK, Begun, NEW c \in Clients, client[c].pc # "idle"
    PROVE  /\ Pair(c) \in Pairs /\ Pair(c).host \in Hosts /\ Pair(c).bare \in Bares
           /\ Pair(c) = client[c].pair
BY DEF Begun, Pair, Pairs

LEMMA InitTyped == Init => TypeOK /\ Begun
<1>1. ASSUME Init PROVE TypeOK
  <2>1. [main |-> 1, tagged |-> FALSE] \in HostRepos
    BY BoundsAssumption DEF HostRepos, Commits
  <2>2. QED  BY <1>1, <2>1, IdleTyped DEF Init, TypeOK
<1>2. ASSUME Init PROVE Begun
  BY <1>2 DEF Init, Begun, Idle
<1>3. QED  BY <1>1, <1>2

LEMMA AddTyped ==
    ASSUME TypeOK, Begun, NEW c \in Clients, Add(c)
    PROVE  TypeOK' /\ Begun'
<1> PICK p \in Pairs : /\ pair' = p
                       /\ client' = [client EXCEPT ![c] =
                              [pc |-> "init_bare", pair |-> p, begun |-> host[p.host]]]
  BY DEF Add
<1>1. p.host \in Hosts /\ host[p.host] \in HostRepos
  BY DEF Pairs, TypeOK
<1>2. [pc |-> "init_bare", pair |-> p, begun |-> host[p.host]] \in ClientState
  BY <1>1 DEF ClientState, Labels
<1>3. TypeOK'
  BY <1>2 DEF TypeOK, Add
<1>4. host[p.host].main <= host[p.host].main
  BY <1>1 DEF HostRepos, Commits
<1>5. Begun'
  BY <1>1, <1>4 DEF Begun, Add, TypeOK
<1>6. QED  BY <1>3, <1>5

LEMMA RemoveTyped ==
    ASSUME TypeOK, Begun, Remove
    PROVE  TypeOK' /\ Begun'
BY DEF TypeOK, Begun, Remove

(* What a step of a setup, which leaves the host's repositories alone, does *)
(* to Begun.                                                                *)
LEMMA GotoBegun ==
    ASSUME TypeOK, Begun, NEW c \in Clients, NEW l \in Labels, Goto(c, l),
           client[c].pc # "idle", UNCHANGED host
    PROVE  Begun'
<1>1. client[c] \in ClientState
  BY DEF TypeOK
<1>2. ASSUME NEW d \in Clients
      PROVE  client'[d].pair = client[d].pair /\ client'[d].begun = client[d].begun
  BY <1>1 DEF Goto, TypeOK, ClientState
<1>3. ASSUME NEW d \in Clients, client'[d].pc # "idle"
      PROVE  client[d].pc # "idle"
  BY <1>1, <1>3 DEF Goto, TypeOK
<1>4. QED  BY <1>2, <1>3 DEF Begun

LEMMA FinishBegun ==
    ASSUME TypeOK, Begun, NEW c \in Clients, Finish(c), UNCHANGED host
    PROVE  Begun'
BY DEF Begun, Finish, TypeOK, Idle

LEMMA InitBareTyped ==
    ASSUME TypeOK, Begun, NEW c \in Clients, InitBare(c)
    PROVE  TypeOK' /\ Begun'
<1>1. client[c].pc # "idle" /\ "remote_add" \in Labels
  BY DEF InitBare, At, Labels
<1>2. client' \in [Clients -> ClientState] /\ Begun'
  BY <1>1, GotoTyped, GotoBegun DEF InitBare
<1>3. bare' \in [Bares -> BareRepos \union {None}]
  BY EmptyBareTyped DEF InitBare, TypeOK
<1>4. \A b \in Bares : bare'[b] = bare[b] \/ bare'[b] = EmptyBare
  BY DEF InitBare, TypeOK
<1>5. \A b \in Bares : bare'[b] # None =>
          (bare'[b].of = None) = (bare'[b].main = 0) /\ (bare'[b].ahead => bare'[b].main # 0)
  BY <1>4, EmptyBareTyped DEF TypeOK
<1>6. QED  BY <1>2, <1>3, <1>5 DEF TypeOK, InitBare

LEMMA RemoteAddTyped ==
    ASSUME TypeOK, Begun, NEW c \in Clients, RemoteAdd(c)
    PROVE  TypeOK' /\ Begun'
<1>1. client[c].pc # "idle" /\ "push_all" \in Labels
  BY DEF RemoteAdd, At, Labels
<1>2. client' \in [Clients -> ClientState] /\ Begun'
  BY <1>1, GotoTyped, GotoBegun DEF RemoteAdd
<1>3. Named[Pair(c).bare] \in Bares
  BY <1>1, PairTyped, NamedAssumption
<1>4. remote' \in [Hosts -> Bares \union {None}]
  BY <1>1, <1>3, PairTyped DEF RemoteAdd, TypeOK
<1>5. QED  BY <1>2, <1>4 DEF TypeOK, RemoteAdd

(* A bare repository is replaced by one that is no less well made.          *)
LEMMA BareTyped ==
    ASSUME TypeOK, NEW b \in Bares, NEW r \in BareRepos,
           bare' = [bare EXCEPT ![b] = r],
           (r.of = None) = (r.main = 0), r.ahead => r.main # 0
    PROVE  /\ bare' \in [Bares -> BareRepos \union {None}]
           /\ \A d \in Bares : bare'[d] # None =>
                 (bare'[d].of = None) = (bare'[d].main = 0)
                 /\ (bare'[d].ahead => bare'[d].main # 0)
BY DEF TypeOK

LEMMA PushAllBare ==
    ASSUME TypeOK, Begun, NEW c \in Clients, PushAll(c)
    PROVE  LET h == Pair(c).host
               b == remote[h]
               r == [bare[b] EXCEPT !.of = h, !.main = host[h].main] IN
           /\ h \in Hosts /\ b \in Bares /\ bare[b] \in BareRepos
           /\ r \in BareRepos /\ bare' = [bare EXCEPT ![b] = r]
           /\ r.of = h /\ r.main = host[h].main /\ r.tag = bare[b].tag
           /\ r.ahead = bare[b].ahead
<1> DEFINE h == Pair(c).host
           b == remote[h]
           r == [bare[b] EXCEPT !.of = h, !.main = host[h].main]
<1>1. client[c].pc # "idle"
  BY DEF PushAll, At
<1>2. h \in Hosts
  BY <1>1, PairTyped
<1>3. b \in Bares /\ bare[b] \in BareRepos
  BY <1>2 DEF PushAll, TypeOK
<1>4. host[h].main \in 0..MaxCommits
  BY <1>2, BoundsAssumption DEF TypeOK, HostRepos, Commits
<1>5. r \in BareRepos /\ r.of = h /\ r.main = host[h].main /\ r.tag = bare[b].tag
      /\ r.ahead = bare[b].ahead
  BY <1>2, <1>3, <1>4 DEF BareRepos
<1>6. bare' = [bare EXCEPT ![b] = r]
  BY <1>3 DEF PushAll, TypeOK
<1>7. QED  BY <1>2, <1>3, <1>5, <1>6

LEMMA PushAllTyped ==
    ASSUME TypeOK, Begun, NEW c \in Clients, PushAll(c)
    PROVE  TypeOK' /\ Begun'
<1> DEFINE h == Pair(c).host
           b == remote[h]
           r == [bare[b] EXCEPT !.of = h, !.main = host[h].main]
<1>1. client[c].pc # "idle" /\ "push_tags" \in Labels
  BY DEF PushAll, At, Labels
<1>2. client' \in [Clients -> ClientState] /\ Begun'
  BY <1>1, GotoTyped, GotoBegun DEF PushAll
<1>3. h \in Hosts /\ b \in Bares /\ r \in BareRepos /\ bare' = [bare EXCEPT ![b] = r]
      /\ r.of = h /\ r.main = host[h].main
  BY PushAllBare
<1>4. r.main # 0 /\ r.of # None
  BY <1>3, NoneAssumption DEF TypeOK, HostRepos, Commits
<1>5. QED  BY <1>2, <1>3, <1>4, BareTyped DEF TypeOK, PushAll

LEMMA PushTagsBare ==
    ASSUME TypeOK, Begun, NEW c \in Clients, PushTags(c)
    PROVE  LET h == Pair(c).host
               b == remote[h]
               r == [bare[b] EXCEPT !.tag = IF host[h].tagged THEN h ELSE @] IN
           /\ h \in Hosts /\ b \in Bares /\ bare[b] \in BareRepos
           /\ r \in BareRepos /\ bare' = [bare EXCEPT ![b] = r]
           /\ r.of = bare[b].of /\ r.main = bare[b].main /\ r.ahead = bare[b].ahead
           /\ r.tag = IF host[h].tagged THEN h ELSE bare[b].tag
<1> DEFINE h == Pair(c).host
           b == remote[h]
           r == [bare[b] EXCEPT !.tag = IF host[h].tagged THEN h ELSE @]
<1>1. client[c].pc # "idle"
  BY DEF PushTags, At
<1>2. h \in Hosts
  BY <1>1, PairTyped
<1>3. b \in Bares /\ bare[b] \in BareRepos
  BY <1>2 DEF PushTags, TypeOK
<1>4. r \in BareRepos /\ r.of = bare[b].of /\ r.main = bare[b].main
      /\ r.ahead = bare[b].ahead /\ r.tag = IF host[h].tagged THEN h ELSE bare[b].tag
  BY <1>2, <1>3 DEF BareRepos
<1>5. bare' = [bare EXCEPT ![b] = r]
  BY <1>3 DEF PushTags, TypeOK
<1>6. QED  BY <1>2, <1>3, <1>4, <1>5

LEMMA PushTagsTyped ==
    ASSUME TypeOK, Begun, NEW c \in Clients, PushTags(c)
    PROVE  TypeOK' /\ Begun'
<1> DEFINE h == Pair(c).host
           b == remote[h]
           r == [bare[b] EXCEPT !.tag = IF host[h].tagged THEN h ELSE @]
<1>1. client[c].pc # "idle" /\ "clone" \in Labels
  BY DEF PushTags, At, Labels
<1>2. client' \in [Clients -> ClientState] /\ Begun'
  BY <1>1, GotoTyped, GotoBegun DEF PushTags
<1>3. b \in Bares /\ bare[b] \in BareRepos /\ r \in BareRepos
      /\ bare' = [bare EXCEPT ![b] = r]
      /\ r.of = bare[b].of /\ r.main = bare[b].main /\ r.ahead = bare[b].ahead
  BY PushTagsBare
<1>4. (r.of = None) = (r.main = 0) /\ (r.ahead => r.main # 0)
  BY <1>3 DEF TypeOK, PushTags
<1>5. QED  BY <1>2, <1>3, <1>4, BareTyped DEF TypeOK, PushTags

LEMMA EndsTyped ==
    ASSUME TypeOK, Begun, NEW c \in Clients, Clone(c) \/ Fail(c)
    PROVE  TypeOK' /\ Begun'
<1>1. Finish(c) /\ UNCHANGED <<pair, remote, host, bare>> /\ target' \in BOOLEAN
  BY DEF Clone, Fail, TypeOK
<1>2. QED  BY <1>1, FinishTyped, FinishBegun DEF TypeOK

LEMMA CommitTyped ==
    ASSUME TypeOK, Begun, NEW h \in Hosts, Commit(h) \/ Tag(h)
    PROVE  TypeOK' /\ Begun'
<1>1. host[h] \in HostRepos
  BY DEF TypeOK
<1>2. PICK r \in HostRepos : /\ host' = [host EXCEPT ![h] = r]
                             /\ host[h].main <= r.main
                             /\ host[h].tagged => r.tagged
  <2>1. CASE Commit(h)
    <3>1. [host[h] EXCEPT !.main = @ + 1] \in HostRepos
      BY <1>1, <2>1, BoundsAssumption DEF Commit, HostRepos, Commits
    <3>2. host' = [host EXCEPT ![h] = [host[h] EXCEPT !.main = @ + 1]]
      BY <2>1 DEF Commit, TypeOK
    <3>3. [host[h] EXCEPT !.main = @ + 1].main = host[h].main + 1
          /\ [host[h] EXCEPT !.main = @ + 1].tagged = host[h].tagged
          /\ host[h].main \in Int
      BY <1>1 DEF HostRepos, Commits
    <3>4. host[h].main <= host[h].main + 1
      BY <3>3
    <3>5. QED  BY <3>1, <3>2, <3>3, <3>4
  <2>2. CASE Tag(h)
    <3>1. [host[h] EXCEPT !.tagged = TRUE] \in HostRepos
      BY <1>1 DEF HostRepos
    <3>2. host' = [host EXCEPT ![h] = [host[h] EXCEPT !.tagged = TRUE]]
      BY <2>2 DEF Tag, TypeOK
    <3>3. [host[h] EXCEPT !.tagged = TRUE].main = host[h].main
          /\ [host[h] EXCEPT !.tagged = TRUE].tagged
          /\ host[h].main <= host[h].main
      BY <1>1 DEF HostRepos, Commits
    <3>4. QED  BY <3>1, <3>2, <3>3
  <2>3. QED  BY <2>1, <2>2
<1>3. UNCHANGED <<client, pair, remote, bare, target>>
  BY DEF Commit, Tag
<1>4. TypeOK'
  BY <1>2, <1>3 DEF TypeOK
<1>5. ASSUME NEW d \in Clients, client[d].pc # "idle"
      PROVE  /\ client[d].begun.main <= host'[client[d].pair.host].main
             /\ client[d].begun.tagged => host'[client[d].pair.host].tagged
  <2>1. client[d].pair.host \in Hosts /\ client[d].begun \in HostRepos
    BY <1>5, PairTyped DEF Begun
  <2>2. /\ client[d].begun.main <= host[client[d].pair.host].main
        /\ client[d].begun.tagged => host[client[d].pair.host].tagged
    BY <1>5 DEF Begun
  <2>3. host[client[d].pair.host] \in HostRepos
    BY <2>1 DEF TypeOK
  <2>4. CASE client[d].pair.host = h
    <3>1. host'[client[d].pair.host] = r
      BY <1>2, <2>4 DEF TypeOK
    <3>2. client[d].begun.main \in Nat /\ host[h].main \in Nat /\ r.main \in Nat
      BY <1>1, <1>2, <2>1 DEF HostRepos, Commits
    <3>3. QED  BY <1>2, <2>2, <2>4, <3>1, <3>2
  <2>5. CASE client[d].pair.host # h
    BY <1>2, <2>1, <2>2, <2>5 DEF TypeOK
  <2>6. QED  BY <2>4, <2>5
<1>6. Begun'
  BY <1>3, <1>5 DEF Begun
<1>7. QED  BY <1>4, <1>6

LEMMA UnlinkTyped ==
    ASSUME TypeOK, Begun, NEW h \in Hosts, Unlink(h)
    PROVE  TypeOK' /\ Begun'
BY DEF TypeOK, Begun, Unlink

LEMMA GuestPushBare ==
    ASSUME TypeOK, NEW b \in Bares, GuestPush(b)
    PROVE  LET r == [bare[b] EXCEPT !.ahead = TRUE] IN
           /\ bare[b] \in BareRepos /\ r \in BareRepos /\ bare' = [bare EXCEPT ![b] = r]
           /\ r.of = bare[b].of /\ r.main = bare[b].main /\ r.tag = bare[b].tag
<1>1. bare[b] \in BareRepos
  BY DEF GuestPush, TypeOK
<1>2. QED  BY <1>1 DEF GuestPush, TypeOK, BareRepos

LEMMA GuestPushTyped ==
    ASSUME TypeOK, Begun, NEW b \in Bares, GuestPush(b)
    PROVE  TypeOK' /\ Begun'
<1> DEFINE r == [bare[b] EXCEPT !.ahead = TRUE]
<1>1. bare[b] \in BareRepos /\ r \in BareRepos /\ bare' = [bare EXCEPT ![b] = r]
      /\ r.of = bare[b].of /\ r.main = bare[b].main
  BY GuestPushBare
<1>2. r.of # None /\ r.main # 0
  BY <1>1 DEF GuestPush, TypeOK
<1>3. QED  BY <1>1, <1>2, BareTyped DEF TypeOK, Begun, GuestPush

LEMMA RecreateTyped ==
    ASSUME TypeOK, Begun, Recreate
    PROVE  TypeOK' /\ Begun'
BY DEF TypeOK, Begun, Recreate

LEMMA TypedStep ==
    ASSUME TypeOK, Begun, [Next]_vars
    PROVE  TypeOK' /\ Begun'
<1>1. CASE UNCHANGED vars
  BY <1>1 DEF vars, TypeOK, Begun
<1>2. ASSUME NEW c \in Clients, Step(c) PROVE TypeOK' /\ Begun'
  BY <1>2, AddTyped, InitBareTyped, RemoteAddTyped, PushAllTyped, PushTagsTyped,
     EndsTyped DEF Step
<1>3. QED
  BY <1>1, <1>2, RemoveTyped, CommitTyped, UnlinkTyped, GuestPushTyped, RecreateTyped
  DEF Next

(* Types, for every value of the constants.                                 *)
THEOREM TypeCorrect == Spec => []TypeOK
<1>1. TypeOK /\ Begun /\ [Next]_vars => (TypeOK /\ Begun)'
  BY TypedStep
<1>2. QED  BY <1>1, InitTyped, PTL DEF Spec

-----------------------------------------------------------------------------
(* What the guest pushed stays.                                             *)

LEMMA GuestWorkStep ==
    ASSUME TypeOK, Begun, [Next]_vars
    PROVE  \A b \in Bares :
              bare[b] # None /\ bare[b].ahead /\ ~(\A d \in Bares : bare'[d] = None)
              => bare'[b] # None /\ bare'[b].ahead /\ bare'[b].main = bare[b].main
<1> SUFFICES ASSUME NEW b \in Bares, bare[b] # None, bare[b].ahead,
                    ~(\A d \in Bares : bare'[d] = None)
             PROVE  bare'[b] # None /\ bare'[b].ahead /\ bare'[b].main = bare[b].main
  OBVIOUS
<1>1. CASE UNCHANGED bare
  BY <1>1
<1>2. ASSUME NEW c \in Clients, Step(c)
      PROVE  bare'[b] # None /\ bare'[b].ahead /\ bare'[b].main = bare[b].main
  <2>1. CASE InitBare(c)
    BY <2>1 DEF InitBare, TypeOK
  <2>2. CASE PushAll(c)
    <3> DEFINE h == Pair(c).host
               r == [bare[remote[h]] EXCEPT !.of = h, !.main = host[h].main]
    <3>1. h \in Hosts /\ remote[h] \in Bares /\ bare' = [bare EXCEPT ![remote[h]] = r]
      BY <2>2, PushAllBare
    <3>2. bare[remote[h]].of = None \/ ~bare[remote[h]].ahead
      BY <2>2 DEF PushAll
    <3>3. remote[h] # b
      BY <3>1, <3>2, <2>2 DEF TypeOK, PushAll
    <3>4. QED  BY <3>1, <3>3 DEF TypeOK
  <2>3. CASE PushTags(c)
    <3> DEFINE h == Pair(c).host
               d == remote[h]
               r == [bare[d] EXCEPT !.tag = IF host[h].tagged THEN h ELSE @]
    <3>1. d \in Bares /\ r \in BareRepos /\ bare' = [bare EXCEPT ![d] = r]
          /\ r.main = bare[d].main /\ r.ahead = bare[d].ahead
      BY <2>3, PushTagsBare
    <3>2. QED  BY <3>1, NoRecordAssumption DEF TypeOK
  <2>4. CASE Add(c) \/ RemoteAdd(c) \/ Clone(c) \/ Fail(c)
    BY <2>4, <1>1 DEF Add, RemoteAdd, Clone, Fail
  <2>5. QED  BY <1>2, <2>1, <2>2, <2>3, <2>4 DEF Step
<1>3. ASSUME NEW d \in Bares, GuestPush(d)
      PROVE  bare'[b] # None /\ bare'[b].ahead /\ bare'[b].main = bare[b].main
  <2> DEFINE r == [bare[d] EXCEPT !.ahead = TRUE]
  <2>1. bare[d] \in BareRepos /\ r \in BareRepos /\ bare' = [bare EXCEPT ![d] = r]
        /\ r.main = bare[d].main
    BY <1>3, GuestPushBare
  <2>2. r.ahead
    BY <2>1 DEF BareRepos
  <2>3. QED  BY <2>1, <2>2, NoRecordAssumption DEF TypeOK
<1>4. CASE Recreate
  BY <1>4 DEF Recreate
<1>5. CASE Remove \/ \E h \in Hosts : Commit(h) \/ Tag(h) \/ Unlink(h)
  BY <1>5, <1>1 DEF Remove, Commit, Tag, Unlink
<1>6. CASE UNCHANGED vars
  BY <1>6, <1>1 DEF vars
<1>7. QED  BY <1>2, <1>3, <1>4, <1>5, <1>6 DEF Next

(* No setup, of whatever pair, takes commits away that the guest pushed.    *)
THEOREM GuestWorkStays == Spec => GuestWorkKept
<1>1. TypeOK /\ Begun /\ [Next]_vars => (TypeOK /\ Begun)'
  BY TypedStep
<1>2. TypeOK /\ Begun /\ [Next]_vars =>
        [\A b \in Bares : bare[b] # None /\ bare[b].ahead /\ ~(\A d \in Bares : bare'[d] = None)
          => bare'[b] # None /\ bare'[b].ahead /\ bare'[b].main = bare[b].main]_vars
  BY GuestWorkStep
<1>3. QED  BY <1>1, <1>2, InitTyped, PTL DEF Spec, GuestWorkKept

-----------------------------------------------------------------------------
(* A setup in the user's home that has come so far has the remote of its    *)
(* pair, a bare repository with its branch, and with its tag.               *)
LinkedAt(c) ==
    LET p == client[c].pair
        begun == client[c].begun IN
    client[c].pc # "idle" /\ InHome(p.bare) =>
    /\ client[c].pc \in {"push_all", "push_tags", "clone"} => remote[p.host] = p.bare
    /\ client[c].pc \in {"push_tags", "clone"} =>
          /\ bare[p.bare] # None
          /\ bare[p.bare].of = p.host /\ bare[p.bare].main >= begun.main
    /\ client[c].pc = "clone" /\ begun.tagged => bare[p.bare].tag = p.host

(* No bare repository has more than the host it is of.                      *)
Behind ==
    \A b \in Bares : bare[b] # None /\ bare[b].of # None
        => bare[b].main <= host[bare[b].of].main

LInv ==
    /\ TypeOK /\ Begun
    /\ \A c \in Clients : LinkedAt(c)
    /\ Behind

LEMMA LInvInit == Init => LInv
<1>1. Init => Behind /\ \A c \in Clients : LinkedAt(c)
  BY DEF Init, Behind, LinkedAt, Idle
<1>2. QED  BY <1>1, InitTyped DEF LInv

LEMMA MainNat ==
    /\ \A r \in BareRepos : r.main \in Nat
    /\ \A r \in HostRepos : r.main \in Nat
    /\ TypeOK => \A h \in Hosts : host[h].main \in Nat
<1>1. \A r \in HostRepos : r.main \in Nat
  BY DEF HostRepos, Commits
<1>2. QED  BY <1>1 DEF BareRepos, TypeOK

(* What every step but Unlink and Recreate does to what setups rely on.     *)
Grows ==
    /\ \A h \in Hosts : remote[h] # None => remote'[h] = remote[h]
    /\ \A b \in Bares : bare[b] # None /\ bare[b].of # None =>
          /\ bare'[b] # None
          /\ bare'[b].of = bare[b].of /\ bare'[b].main >= bare[b].main
          /\ bare[b].tag # None => bare'[b].tag = bare[b].tag

LEMMA SameGrows ==
    ASSUME TypeOK, UNCHANGED <<remote, bare>>
    PROVE  Grows
<1>1. ASSUME NEW b \in Bares, bare[b] # None PROVE bare[b].main >= bare[b].main
  BY <1>1 DEF TypeOK, BareRepos
<1>2. QED  BY <1>1 DEF Grows

(* One repository grows: the others stay as they are.                       *)
LEMMA OneGrows ==
    ASSUME TypeOK, UNCHANGED remote,
           NEW b \in Bares, bare[b] \in BareRepos, NEW r \in BareRepos,
           bare' = [bare EXCEPT ![b] = r],
           bare[b].of # None =>
              /\ r.of = bare[b].of /\ r.main >= bare[b].main
              /\ bare[b].tag # None => r.tag = bare[b].tag
    PROVE  Grows
<1>1. ASSUME NEW d \in Bares, bare[d] # None, bare[d].of # None
      PROVE  /\ bare'[d] # None
             /\ bare'[d].of = bare[d].of /\ bare'[d].main >= bare[d].main
             /\ bare[d].tag # None => bare'[d].tag = bare[d].tag
  <2>1. CASE d = b
    BY <1>1, <2>1, NoRecordAssumption DEF TypeOK
  <2>2. CASE d # b
    <3>1. bare'[d] = bare[d] /\ bare[d] \in BareRepos
      BY <1>1, <2>2 DEF TypeOK
    <3>2. bare[d].main >= bare[d].main
      BY <3>1 DEF BareRepos
    <3>3. QED  BY <1>1, <3>1, <3>2
  <2>3. QED  BY <2>1, <2>2
<1>2. QED  BY <1>1 DEF Grows

(* A setup that does not move keeps what it has.                            *)
LEMMA GrowsLinked ==
    ASSUME LInv, TypeOK', Grows, NEW d \in Clients, client'[d] = client[d]
    PROVE  LinkedAt(d)'
<1> DEFINE p == client[d].pair
           begun == client[d].begun
<1> SUFFICES ASSUME client[d].pc # "idle", InHome(p.bare)
             PROVE  LinkedAt(d)'
  BY DEF LinkedAt
<1>1. p \in Pairs /\ p.host \in Hosts /\ p.bare \in Bares /\ begun \in HostRepos
  BY PairTyped DEF LInv, Begun
<1>2. ASSUME client[d].pc \in {"push_all", "push_tags", "clone"}
      PROVE  remote'[p.host] = p.bare
  BY <1>1, <1>2, NoneAssumption DEF LInv, LinkedAt, Grows
<1>3. ASSUME client[d].pc \in {"push_tags", "clone"}
      PROVE  /\ bare'[p.bare] # None
             /\ bare'[p.bare].of = p.host /\ bare'[p.bare].main >= begun.main
  <2>1. bare[p.bare] # None /\ bare[p.bare].of = p.host /\ bare[p.bare].main >= begun.main
    BY <1>3 DEF LInv, LinkedAt
  <2>2. bare[p.bare].of # None
    BY <1>1, <2>1, NoneAssumption
  <2>3. bare'[p.bare] # None /\ bare'[p.bare].of = p.host
        /\ bare'[p.bare].main >= bare[p.bare].main
    BY <1>1, <2>1, <2>2 DEF Grows
  <2>4. bare[p.bare].main \in Nat /\ bare'[p.bare].main \in Nat /\ begun.main \in Nat
    BY <1>1, <2>1, <2>3 DEF LInv, TypeOK, BareRepos, HostRepos, Commits
  <2>5. QED  BY <2>1, <2>3, <2>4
<1>4. ASSUME client[d].pc = "clone", begun.tagged
      PROVE  bare'[p.bare].tag = p.host
  <2>1. bare[p.bare] # None /\ bare[p.bare].of = p.host /\ bare[p.bare].tag = p.host
    BY <1>4 DEF LInv, LinkedAt
  <2>2. QED  BY <1>1, <2>1, NoneAssumption DEF Grows
<1>5. QED  BY <1>2, <1>3, <1>4 DEF LinkedAt

(* The others do not move.                                                  *)
LEMMA OthersLinked ==
    ASSUME LInv, TypeOK', Grows, NEW c \in Clients, NEW s,
           client' = [client EXCEPT ![c] = s], LinkedAt(c)'
    PROVE  \A d \in Clients : LinkedAt(d)'
<1> SUFFICES ASSUME NEW d \in Clients, d # c PROVE LinkedAt(d)'
  OBVIOUS
<1>1. client'[d] = client[d]
  BY DEF LInv, TypeOK
<1>2. QED  BY <1>1, GrowsLinked

LEMMA GotoState ==
    ASSUME TypeOK, NEW c \in Clients, NEW l, Goto(c, l)
    PROVE  /\ client' = [client EXCEPT ![c] = [client[c] EXCEPT !.pc = l]]
           /\ client'[c].pc = l /\ client'[c].pair = client[c].pair
           /\ client'[c].begun = client[c].begun
BY DEF Goto, TypeOK, ClientState

LEMMA FinishLinked ==
    ASSUME LInv, TypeOK', NEW c \in Clients, Finish(c), UNCHANGED <<remote, bare, host>>
    PROVE  (\A d \in Clients : LinkedAt(d)') /\ Behind'
<1>1. Grows
  BY SameGrows DEF LInv
<1>2. client'[c] = Idle
  BY DEF Finish, LInv, TypeOK
<1>3. LinkedAt(c)'
  BY <1>2 DEF LinkedAt, Idle
<1>4. QED  BY <1>1, <1>3, OthersLinked DEF Finish, LInv, Behind

LEMMA AddLinked ==
    ASSUME LInv, TypeOK', NEW c \in Clients, Add(c)
    PROVE  (\A d \in Clients : LinkedAt(d)') /\ Behind'
<1> PICK p \in Pairs : client' = [client EXCEPT ![c] =
                          [pc |-> "init_bare", pair |-> p, begun |-> host[p.host]]]
  BY DEF Add
<1>1. UNCHANGED <<remote, bare, host>> /\ Grows
  BY SameGrows DEF LInv, Add
<1>2. LinkedAt(c)'
  BY DEF LinkedAt, LInv, TypeOK
<1>3. QED  BY <1>1, <1>2, OthersLinked DEF LInv, Behind

LEMMA InitBareLinked ==
    ASSUME LInv, TypeOK', NEW c \in Clients, InitBare(c)
    PROVE  (\A d \in Clients : LinkedAt(d)') /\ Behind'
<1>1. \A b \in Bares : bare[b] # None => bare'[b] = bare[b]
  BY DEF InitBare, LInv, TypeOK
<1>2. \A b \in Bares : bare[b] = None => bare'[b] \in {None, EmptyBare}
  BY DEF InitBare, LInv, TypeOK
<1>3. Grows
  <2>1. \A b \in Bares : bare[b] # None => bare[b].main >= bare[b].main
    BY DEF LInv, TypeOK, BareRepos
  <2>2. QED  BY <1>1, <2>1 DEF Grows, InitBare
<1>4. Goto(c, "remote_add") /\ TypeOK
  BY DEF InitBare, LInv
<1>5. LinkedAt(c)'
  BY <1>4, GotoState DEF LinkedAt
<1>6. Behind'
  BY <1>1, <1>2, EmptyBareTyped DEF Behind, LInv, InitBare
<1>7. QED  BY <1>3, <1>4, <1>5, <1>6, GotoState, OthersLinked

LEMMA RemoteAddLinked ==
    ASSUME LInv, TypeOK', NEW c \in Clients, RemoteAdd(c)
    PROVE  (\A d \in Clients : LinkedAt(d)') /\ Behind'
<1>1. Pair(c).host \in Hosts /\ Pair(c) = client[c].pair
  BY PairTyped DEF LInv, RemoteAdd, At
<1>2. Goto(c, "push_all") /\ TypeOK /\ UNCHANGED <<bare, host>>
  BY DEF RemoteAdd, LInv
<1>3. Grows
  <2>1. \A b \in Bares : bare[b] # None => bare[b].main >= bare[b].main
    BY DEF LInv, TypeOK, BareRepos
  <2>2. \A h \in Hosts : remote[h] # None => remote'[h] = remote[h]
    BY <1>1 DEF RemoteAdd, LInv, TypeOK
  <2>3. QED  BY <1>2, <2>1, <2>2 DEF Grows
<1>4. InHome(client[c].pair.bare) =>
          remote'[client[c].pair.host] = client[c].pair.bare
  BY <1>1 DEF RemoteAdd, LInv, TypeOK, InHome
<1>5. LinkedAt(c)'
  BY <1>2, <1>4, GotoState DEF LinkedAt
<1>6. QED  BY <1>2, <1>3, <1>5, GotoState, OthersLinked DEF LInv, Behind

LEMMA PushAllLinked ==
    ASSUME LInv, TypeOK', NEW c \in Clients, PushAll(c)
    PROVE  (\A d \in Clients : LinkedAt(d)') /\ Behind'
<1> DEFINE h == Pair(c).host
           b == remote[h]
           r == [bare[b] EXCEPT !.of = h, !.main = host[h].main]
<1>1. TypeOK /\ Begun /\ client[c].pc = "push_all"
  BY DEF LInv, PushAll, At
<1>2. h \in Hosts /\ Pair(c) = client[c].pair /\ b \in Bares
      /\ bare[b] \in BareRepos /\ r \in BareRepos /\ bare' = [bare EXCEPT ![b] = r]
      /\ r.of = h /\ r.main = host[h].main /\ r.tag = bare[b].tag
  BY <1>1, PushAllBare, PairTyped
<1>3. InHome(client[c].pair.bare) => b = client[c].pair.bare
  BY <1>1, <1>2 DEF LInv, LinkedAt
<1>4. Goto(c, "push_tags") /\ UNCHANGED <<remote, host>>
  BY DEF PushAll
<1>5. bare[b].of # None => r.of = bare[b].of /\ r.main >= bare[b].main
  <2>1. ASSUME bare[b].of # None PROVE bare[b].of = h /\ bare[b].main <= host[h].main
    BY <1>2, <2>1, NoRecordAssumption DEF PushAll, LInv, Behind
  <2>2. bare[b].main \in Nat /\ host[h].main \in Nat
    BY <1>1, <1>2, MainNat
  <2>3. QED  BY <1>2, <2>1, <2>2
<1>6. Grows
  BY <1>1, <1>2, <1>4, <1>5, OneGrows
<1>7. LinkedAt(c)'
  <2>1. bare'[b] = r /\ r # None
    BY <1>1, <1>2, NoRecordAssumption DEF TypeOK
  <2>2. client[c].begun.main <= host[h].main /\ client[c].begun \in HostRepos
    BY <1>1, <1>2 DEF Begun
  <2>3. client[c].begun.main \in Nat /\ host[h].main \in Nat
    BY <1>1, <1>2, <2>2, MainNat
  <2>4. r.main >= client[c].begun.main
    BY <1>2, <2>2, <2>3
  <2>5. client'[c].pc = "push_tags" /\ client'[c].pair = client[c].pair
        /\ client'[c].begun = client[c].begun
    BY <1>1, <1>4, GotoState
  <2>6. InHome(client[c].pair.bare) =>
            remote'[client[c].pair.host] = client[c].pair.bare
    BY <1>2, <1>3, <1>4
  <2>7. QED  BY <1>2, <1>3, <2>1, <2>4, <2>5, <2>6 DEF LinkedAt
<1>8. Behind'
  <2>1. \A d \in Bares : bare'[d] = IF d = b THEN r ELSE bare[d]
    BY <1>1, <1>2 DEF TypeOK
  <2>2. host[h].main \in Nat
    BY <1>1, <1>2, MainNat
  <2>3. QED  BY <1>2, <1>4, <2>1, <2>2 DEF Behind, LInv
<1>9. QED  BY <1>1, <1>4, <1>6, <1>7, <1>8, GotoState, OthersLinked

LEMMA PushTagsLinked ==
    ASSUME LInv, TypeOK', NEW c \in Clients, PushTags(c)
    PROVE  (\A d \in Clients : LinkedAt(d)') /\ Behind'
<1> DEFINE h == Pair(c).host
           b == remote[h]
           r == [bare[b] EXCEPT !.tag = IF host[h].tagged THEN h ELSE @]
<1>1. TypeOK /\ Begun /\ client[c].pc = "push_tags"
  BY DEF LInv, PushTags, At
<1>2. h \in Hosts /\ Pair(c) = client[c].pair /\ b \in Bares
      /\ bare[b] \in BareRepos /\ r \in BareRepos /\ bare' = [bare EXCEPT ![b] = r]
      /\ r.of = bare[b].of /\ r.main = bare[b].main
      /\ r.tag = IF host[h].tagged THEN h ELSE bare[b].tag
  BY <1>1, PushTagsBare, PairTyped
<1>3. InHome(client[c].pair.bare) => b = client[c].pair.bare
  BY <1>1, <1>2 DEF LInv, LinkedAt
<1>4. Goto(c, "clone") /\ UNCHANGED <<remote, host>>
  BY DEF PushTags
<1>5. bare[b].main >= bare[b].main
  <2>1. bare[b].main \in Nat
    BY <1>2, MainNat
  <2>2. QED  BY <2>1
<1>6. bare[b].tag # None => r.tag = bare[b].tag
  BY <1>2 DEF PushTags
<1>7. Grows
  BY <1>1, <1>2, <1>4, <1>5, <1>6, OneGrows
<1>8. bare'[b] = r /\ r # None
  BY <1>1, <1>2, NoRecordAssumption DEF TypeOK
<1>9. LinkedAt(c)'
  <2>1. client'[c].pc = "clone" /\ client'[c].pair = client[c].pair
        /\ client'[c].begun = client[c].begun
    BY <1>1, <1>4, GotoState
  <2>2. InHome(client[c].pair.bare) =>
            remote'[client[c].pair.host] = client[c].pair.bare
    BY <1>2, <1>3, <1>4
  <2>3. InHome(client[c].pair.bare) => r.of = h /\ r.main >= client[c].begun.main
    BY <1>1, <1>2, <1>3 DEF LInv, LinkedAt
  <2>4. client[c].begun.tagged => r.tag = h
    BY <1>1, <1>2 DEF Begun
  <2>5. InHome(client[c].pair.bare) => bare'[client[c].pair.bare] = r
    BY <1>3, <1>8
  <2>6. CASE InHome(client[c].pair.bare)
    <3>1. /\ remote'[client[c].pair.host] = client[c].pair.bare
          /\ bare'[client[c].pair.bare] = r
      BY <2>2, <2>5, <2>6
    <3>2. r.of = client[c].pair.host /\ r.main >= client[c].begun.main
      BY <1>2, <2>3, <2>6
    <3>3. client[c].begun.tagged => r.tag = client[c].pair.host
      BY <1>2, <2>4
    <3>4. QED  BY <1>8, <2>1, <3>1, <3>2, <3>3 DEF LinkedAt
  <2>7. CASE ~InHome(client[c].pair.bare)
    BY <2>1, <2>7 DEF LinkedAt, InHome
  <2>8. QED  BY <2>6, <2>7
<1>10. Behind'
  <2>1. \A d \in Bares : bare'[d] = IF d = b THEN r ELSE bare[d]
    BY <1>1, <1>2 DEF TypeOK
  <2>2. QED  BY <1>2, <1>4, <2>1, NoRecordAssumption DEF Behind, LInv
<1>11. QED  BY <1>1, <1>4, <1>7, <1>9, <1>10, GotoState, OthersLinked

LEMMA CommitLinked ==
    ASSUME LInv, TypeOK', NEW h \in Hosts, Commit(h) \/ Tag(h)
    PROVE  (\A d \in Clients : LinkedAt(d)') /\ Behind'
<1>1. UNCHANGED <<client, remote, bare>> /\ Grows
  BY SameGrows DEF LInv, Commit, Tag
<1>2. \A d \in Clients : LinkedAt(d)'
  BY <1>1, GrowsLinked
<1>3. \A g \in Hosts : host[g].main <= host'[g].main
  <2>1. \A g \in Hosts : host[g] \in HostRepos /\ host[g].main \in Nat
    BY MainNat DEF LInv, TypeOK
  <2>2. host'[h].main \in {host[h].main, host[h].main + 1}
    BY <2>1 DEF Commit, Tag, LInv, TypeOK, HostRepos
  <2>3. \A g \in Hosts \ {h} : host'[g] = host[g]
    BY DEF Commit, Tag, LInv, TypeOK
  <2>4. QED  BY <2>1, <2>2, <2>3
<1>4. Behind'
  <2> SUFFICES ASSUME NEW b \in Bares, bare[b] # None, bare[b].of # None
               PROVE  bare[b].main <= host'[bare[b].of].main
    BY <1>1 DEF Behind
  <2>1. bare[b] \in BareRepos /\ bare[b].of \in Hosts
    BY DEF LInv, TypeOK, BareRepos
  <2>2. bare[b].main <= host[bare[b].of].main
    BY DEF LInv, Behind
  <2>3. /\ bare[b].main \in Nat /\ host[bare[b].of].main \in Nat
        /\ host'[bare[b].of].main \in Nat
    BY <2>1, MainNat DEF LInv, TypeOK
  <2>4. QED  BY <1>3, <2>1, <2>2, <2>3
<1>5. QED  BY <1>2, <1>4

LEMMA GuestPushLinked ==
    ASSUME LInv, TypeOK', NEW b \in Bares, GuestPush(b)
    PROVE  (\A d \in Clients : LinkedAt(d)') /\ Behind'
<1> DEFINE r == [bare[b] EXCEPT !.ahead = TRUE]
<1>1. TypeOK /\ UNCHANGED <<client, remote, host>>
  BY DEF LInv, GuestPush
<1>2. bare[b] \in BareRepos /\ r \in BareRepos /\ bare' = [bare EXCEPT ![b] = r]
      /\ r.of = bare[b].of /\ r.main = bare[b].main /\ r.tag = bare[b].tag
  BY <1>1, GuestPushBare
<1>3. bare[b].main >= bare[b].main
  <2>1. bare[b].main \in Nat
    BY <1>2, MainNat
  <2>2. QED  BY <2>1
<1>4. Grows
  BY <1>1, <1>2, <1>3, OneGrows
<1>5. \A d \in Clients : LinkedAt(d)'
  BY <1>1, <1>4, GrowsLinked
<1>6. Behind'
  <2>1. \A d \in Bares : bare'[d] = IF d = b THEN r ELSE bare[d]
    BY <1>1, <1>2 DEF TypeOK
  <2>2. QED  BY <1>1, <1>2, <2>1, NoRecordAssumption DEF Behind, LInv
<1>7. QED  BY <1>5, <1>6

(* These two wait for every setup to end.                                   *)
LEMMA IdleLinked ==
    ASSUME LInv, (\E h \in Hosts : Unlink(h)) \/ Recreate, Environment = {}
    PROVE  (\A d \in Clients : LinkedAt(d)') /\ Behind'
<1>1. AllIdle /\ UNCHANGED <<client, host>>
  BY DEF Unlink, Recreate
<1>2. \A d \in Clients : client'[d].pc = "idle"
  BY <1>1 DEF AllIdle, At
<1>3. \A b \in Bares : bare'[b] = bare[b] \/ bare'[b] = None
  BY DEF Unlink, Recreate
<1>4. QED  BY <1>1, <1>2, <1>3 DEF LinkedAt, Behind, LInv

LEMMA LInvStep ==
    ASSUME LInv, [Next]_vars, Environment = {}
    PROVE  LInv'
<1>1. TypeOK' /\ Begun'
  BY TypedStep DEF LInv
<1>2. CASE UNCHANGED vars
  BY <1>2 DEF vars, LInv, LinkedAt, Behind, TypeOK, Begun
<1>3. ASSUME NEW c \in Clients, Step(c)
      PROVE  (\A d \in Clients : LinkedAt(d)') /\ Behind'
  <2>1. CASE Clone(c) \/ Fail(c)
    BY <2>1, <1>1, FinishLinked DEF Clone, Fail
  <2>2. QED
    BY <2>1, <1>1, <1>3, AddLinked, InitBareLinked, RemoteAddLinked, PushAllLinked,
       PushTagsLinked DEF Step
<1>4. CASE Remove
  <2>1. UNCHANGED <<client, remote, host, bare>>
    BY <1>4 DEF Remove
  <2>2. QED  BY <2>1, <1>1 DEF LInv, LinkedAt, Behind
<1>5. QED
  BY <1>1, <1>2, <1>3, <1>4, CommitLinked, GuestPushLinked, IdleLinked DEF LInv, Next

LEMMA CloneLinked ==
    ASSUME LInv
    PROVE  \A c \in Clients : Clone(c) /\ InHome(Pair(c).bare) => Linked(c)
BY DEF LInv, LinkedAt, Linked, Clone, At, Pair, Holds

(* Setups of any number of pairs that share a name, in any interleaving and *)
(* whatever earlier ones have left behind, with bare repositories anywhere: *)
(* one whose bare repository is in the user's home, and that succeeds, has  *)
(* linked its host to it, and it has the host's commits and tag.            *)
THEOREM SuccessLinks == ASSUME Environment = {} PROVE Spec => SuccessMeansLinked
<1>1. LInv /\ [Next]_vars => LInv'
  BY LInvStep
<1>2. LInv /\ [Next]_vars =>
        [\A c \in Clients : Clone(c) /\ InHome(Pair(c).bare) => Linked(c)]_vars
  BY CloneLinked
<1>3. QED  BY <1>1, <1>2, LInvInit, PTL DEF Spec, SuccessMeansLinked
=============================================================================
