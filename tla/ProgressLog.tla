---------------------------- MODULE ProgressLog ----------------------------
(***************************************************************************)
(* The progress log: progress.go, the handler that serves it, and the page *)
(* that polls it (app.js).                                                 *)
(*                                                                         *)
(* An entry is stamped, and then appended under a lock; the log keeps the  *)
(* last ones.  Two goroutines pass on what a script in the guest prints,   *)
(* so that an entry may overtake another.  Every two seconds the page asks *)
(* for the entries after the millisecond that follows the last one in the  *)
(* answer before, whether or not its last request was answered.            *)
(*                                                                         *)
(* Entries have the numbers in which they were stamped.                    *)
(*                                                                         *)
(* A definition marked "faulty variant" is no part of the model: it is the *)
(* definition that follows with a bug, to show that a property notices it. *)
(***************************************************************************)
EXTENDS Integers, Sequences, FiniteSets, SequencesExt

CONSTANTS
    Writers,        \* goroutines that report progress
    Requests,       \* requests of the page that may be on their way at a time
    NoEntry, NoRequest,
    MaxSize,        \* progressMaxSize: 200
    Ms,             \* moments in a millisecond
    MaxEntries,     \* bound: entries
    MaxTime         \* bound: the last moment

ASSUME BoundsAssumption ==
    /\ MaxSize \in Nat \ {0} /\ Ms \in Nat \ {0}
    /\ MaxEntries \in Nat /\ MaxTime \in Nat \ {0}
    /\ NoEntry \notin 1..MaxEntries

VARIABLES
    clock,
    stamp,      \* history: stamp[n]: when entry n was made, 0: not yet
    holding,    \* holding[w]: the entry that w is about to append
    log,        \* progressLog
    overtook,   \* history: <<m, n>>: m was appended before n, and made after it
    floor,      \* history: the entries up to this number went with a server
    request,    \* request[r]: what the page asked for, and the answer
    last,       \* lastProgressTime
    shown       \* what the page shows

vars == <<clock, stamp, holding, log, overtook, floor, request, last, shown>>

Times   == 0..MaxTime
Entries == 1..MaxEntries

(* What the page may ask for: the start of a millisecond.                  *)
Milliseconds == {Ms * m : m \in 0..(MaxTime \div Ms + 1)}

RequestState == [since    : Milliseconds,
                 answered : BOOLEAN,
                 entries  : Seq(Entries)]

Stamped == {n \in Entries : stamp[n] # 0}

(* The log has no more than it may; what is shown was stamped.             *)
TypeOK ==
    /\ clock \in Times
    /\ stamp \in [Entries -> Times]
    /\ holding \in [Writers -> Entries \union {NoEntry}]
    /\ log \in Seq(Stamped) /\ Len(log) <= MaxSize
    /\ overtook \subseteq Stamped \X Stamped
    /\ floor \in 0..MaxEntries
    /\ request \in [Requests -> RequestState \union {NoRequest}]
    /\ last \in Milliseconds
    /\ shown \in Seq(Stamped)

Init ==
    /\ clock = 1
    /\ stamp = [n \in Entries |-> 0]
    /\ holding = [w \in Writers |-> NoEntry]
    /\ log = <<>> /\ overtook = {} /\ floor = 0
    /\ request = [r \in Requests |-> NoRequest]
    /\ last = 0 /\ shown = <<>>

-----------------------------------------------------------------------------
(* addProgress.                                                            *)

Stamp(w) ==
    /\ holding[w] = NoEntry
    /\ \E n \in Entries \ Stamped :
          /\ \A m \in Entries \ Stamped : n <= m
          /\ stamp' = [stamp EXCEPT ![n] = clock]
          /\ holding' = [holding EXCEPT ![w] = n]
    /\ UNCHANGED <<clock, log, overtook, floor, request, last, shown>>

(* Faulty variant: a log that is full keeps what it has.                   *)
TrimmedAtEnd(entries) == IF Len(entries) > MaxSize THEN Front(entries) ELSE entries

(* Faulty variant: the oldest entry is dropped one too late.               *)
TrimmedLate(entries) == IF Len(entries) > MaxSize + 1 THEN Tail(entries) ELSE entries

Trimmed(entries) ==
    IF Len(entries) > MaxSize
    THEN SubSeq(entries, Len(entries) - MaxSize + 1, Len(entries))
    ELSE entries

(* The earlier entries that others have in hand.                           *)
Behind(n) == {m \in Entries : m < n /\ \E v \in Writers : holding[v] = m}

AddProgress(w) ==
    /\ holding[w] # NoEntry
    /\ log' = Trimmed(Append(log, holding[w]))
    /\ overtook' = overtook \union {<<holding[w], m>> : m \in Behind(holding[w])}
    /\ holding' = [holding EXCEPT ![w] = NoEntry]
    /\ UNCHANGED <<clock, stamp, floor, request, last, shown>>

-----------------------------------------------------------------------------
(* loadProgress, and the answer to it.                                     *)

Poll(r) ==
    /\ request[r] = NoRequest
    /\ request' = [request EXCEPT ![r] = [since |-> last, answered |-> FALSE, entries |-> <<>>]]
    /\ UNCHANGED <<clock, stamp, holding, log, overtook, floor, last, shown>>

(* The members of a set of numbers in their order: the one rising sequence. *)
Rising(S) ==
    {f \in [1..Cardinality(S) -> S] : \A i, j \in 1..Cardinality(S) : i < j => f[i] < f[j]}

(* handleProgress, getProgressSince                                        *)
Answer(r) ==
    LET later == {i \in 1..Len(log) : stamp[log[i]] > request[r].since} IN
    /\ request[r] # NoRequest /\ ~request[r].answered
    /\ \E f \in Rising(later) :
          request' = [request EXCEPT ![r] =
              [@ EXCEPT !.answered = TRUE,
                        !.entries = [i \in 1..Cardinality(later) |-> log[f[i]]]]]
    /\ UNCHANGED <<clock, stamp, holding, log, overtook, floor, last, shown>>

(* Faulty variant: the page asks from the last entry's own millisecond.    *)
SinceSame(n) == Ms * (stamp[n] \div Ms)

(* A date has milliseconds.                                                *)
Since(n) == Ms * (stamp[n] \div Ms + 1)

Show(r) ==
    LET new == request[r].entries IN
    /\ request[r] # NoRequest /\ request[r].answered
    /\ shown' = shown \o new
    /\ last' = IF new = <<>> THEN last ELSE Since(Last(new))
    /\ request' = [request EXCEPT ![r] = NoRequest]
    /\ UNCHANGED <<clock, stamp, holding, log, overtook, floor>>

(* The request or its answer is lost: the page does nothing.               *)
Lose(r) ==
    /\ request[r] # NoRequest
    /\ request' = [request EXCEPT ![r] = NoRequest]
    /\ UNCHANGED <<clock, stamp, holding, log, overtook, floor, last, shown>>

-----------------------------------------------------------------------------
(* What else happens.                                                      *)

Reload ==
    /\ request' = [r \in Requests |-> NoRequest]
    /\ last' = 0 /\ shown' = <<>>
    /\ UNCHANGED <<clock, stamp, holding, log, overtook, floor>>

(* The web server is started again: the page stays.                        *)
Restart ==
    /\ log # <<>> \/ \E w \in Writers : holding[w] # NoEntry
    /\ log' = <<>>
    /\ holding' = [w \in Writers |-> NoEntry]
    /\ floor' = Cardinality(Stamped)
    /\ request' = [r \in Requests |-> IF request[r] # NoRequest /\ request[r].answered
                                      THEN request[r] ELSE NoRequest]
    /\ UNCHANGED <<clock, stamp, overtook, last, shown>>

Tick ==
    /\ clock < MaxTime
    /\ clock' = clock + 1
    /\ UNCHANGED <<stamp, holding, log, overtook, floor, request, last, shown>>

Next ==
    \/ \E w \in Writers : Stamp(w) \/ AddProgress(w)
    \/ \E r \in Requests : Poll(r) \/ Answer(r) \/ Show(r) \/ Lose(r)
    \/ Reload \/ Restart \/ Tick

Spec == Init /\ [][Next]_vars

(* The server answers, the page polls for ever and not every answer is     *)
(* lost; a goroutine does not stop with an entry in hand.                  *)
FairSpec ==
    /\ Spec
    /\ \A w \in Writers : WF_vars(AddProgress(w))
    /\ \A r \in Requests : WF_vars(Poll(r)) /\ SF_vars(Answer(r)) /\ SF_vars(Show(r))

-----------------------------------------------------------------------------
(* Properties.                                                             *)

Raced(n) == \E p \in overtook : n \in {p[1], p[2]}

(* After an entry that neither overtook another nor was overtaken, the     *)
(* page shows later ones only, and so never that one again: whatever was   *)
(* lost on the way, however others raced, the log was trimmed or the       *)
(* server started again.                                                   *)
ShownInOrder ==
    \A i, j \in 1..Len(shown) : i < j /\ ~Raced(shown[i]) => shown[i] < shown[j]

(* An entry is shown in the end.  Four things excuse one that is not:      *)
(* progressMaxSize entries after it, the end of its server, an entry that  *)
(* overtook it and was shown, and an entry before it that was shown, when  *)
(* it was made no later than the very start of the next millisecond.       *)
Excused(n) ==
    \/ n <= floor
    \/ Cardinality({m \in Stamped : m > n \/ <<n, m>> \in overtook}) >= MaxSize
    \/ \E m \in ToSet(shown) : <<m, n>> \in overtook
    \/ \E m \in ToSet(shown) : m < n /\ stamp[n] <= Ms * (stamp[m] \div Ms + 1)

EveryEntryShown ==
    \A n \in Entries : n \in Stamped ~> n \in ToSet(shown) \/ Excused(n)
=============================================================================
