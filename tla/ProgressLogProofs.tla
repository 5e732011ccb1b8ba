-------------------------- MODULE ProgressLogProofs --------------------------
(* Proofs about ProgressLog, for every value of its constants.              *)
EXTENDS ProgressLog, SequenceTheorems, FiniteSetTheorems, TLAPS

-----------------------------------------------------------------------------
(* Milliseconds.                                                            *)

(* Where a moment lies in its millisecond.                                  *)
LEMMA DivFacts ==
    ASSUME NEW n \in Nat
    PROVE  /\ n \div Ms \in Nat
           /\ Ms * (n \div Ms) <= n /\ n < Ms * (n \div Ms + 1)
<1>1. Ms \in Nat /\ Ms > 0
  BY BoundsAssumption
<1>2. QED  BY <1>1

(* A later moment is in no earlier millisecond.                             *)
LEMMA DivOrder ==
    ASSUME NEW m \in Nat, NEW n \in Nat, m <= n
    PROVE  m \div Ms <= n \div Ms
<1> DEFINE p == m \div Ms
           q == n \div Ms
<1>1. p \in Nat /\ q \in Nat /\ Ms * p <= m /\ n < Ms * (q + 1)
  BY DivFacts
<1>2. Ms \in Nat /\ Ms > 0
  BY BoundsAssumption
<1> HIDE DEF p, q
<1>3. ~(q + 1 <= p)
  <2>1. SUFFICES ASSUME q + 1 <= p  PROVE FALSE
    OBVIOUS
  <2>2. Ms * (q + 1) <= Ms * p
    BY <1>1, <1>2, <2>1
  <2>3. Ms * (q + 1) \in Nat /\ Ms * p \in Nat
    BY <1>1, <1>2
  <2>4. QED  BY <1>1, <2>2, <2>3
<1>4. QED  BY <1>1, <1>3 DEF p, q

LEMMA SinceFacts ==
    ASSUME NEW n, stamp[n] \in Times
    PROVE  /\ Since(n) \in Milliseconds
           /\ Since(n) \in Nat /\ stamp[n] < Since(n)
<1> DEFINE q == stamp[n] \div Ms
<1>1. MaxTime \in Nat /\ stamp[n] \in Nat /\ stamp[n] <= MaxTime
  BY BoundsAssumption DEF Times
<1>2. q \in Nat /\ MaxTime \div Ms \in Nat /\ q <= MaxTime \div Ms
  BY <1>1, DivFacts, DivOrder
<1>3. q + 1 \in 0..(MaxTime \div Ms + 1)
  BY <1>2
<1>4. Since(n) = Ms * (q + 1)
  BY DEF Since
<1>5. Ms * (q + 1) \in Milliseconds
  BY <1>3 DEF Milliseconds
<1>6. Ms * (q + 1) \in Nat
  BY <1>2, BoundsAssumption
<1>7. QED  BY <1>1, <1>4, <1>5, <1>6, DivFacts

-----------------------------------------------------------------------------
(* Sequences.                                                               *)

LEMMA TrimmedFacts ==
    ASSUME NEW S, NEW s \in Seq(S)
    PROVE  /\ Trimmed(s) \in Seq(S) /\ Len(Trimmed(s)) <= MaxSize
           /\ \E k \in Nat : \A i \in 1..Len(Trimmed(s)) :
                 /\ i + k \in 1..Len(s)
                 /\ Trimmed(s)[i] = s[i + k]
<1>0. MaxSize \in Nat /\ MaxSize >= 1 /\ Len(s) \in Nat
  BY BoundsAssumption
<1>1. CASE Len(s) > MaxSize
  <2> DEFINE m == Len(s) - MaxSize + 1
             n == Len(s)
             t == SubSeq(s, m, n)
  <2>1. m \in Int /\ n \in Int /\ m <= n /\ m >= 1 /\ \A i \in m..n : s[i] \in S
    BY <1>0, <1>1
  <2>2. /\ t \in Seq(S) /\ Len(t) = n - m + 1
        /\ \A i \in 1..(n - m + 1) : t[i] = s[m + i - 1]
    BY <2>1, SubSeqProperties
  <2>3. Trimmed(s) = t
    BY <1>1 DEF Trimmed
  <2>4. Len(t) = MaxSize
    BY <1>0, <2>2
  <2>5. \A i \in 1..Len(t) : i + (m - 1) \in 1..Len(s) /\ t[i] = s[i + (m - 1)]
    BY <1>0, <2>1, <2>2, <2>4
  <2>6. m - 1 \in Nat
    BY <1>0, <1>1
  <2>7. \E k \in Nat : \A i \in 1..Len(t) : i + k \in 1..Len(s) /\ t[i] = s[i + k]
    BY <2>5, <2>6, Zenon
  <2> HIDE DEF t
  <2>8. t \in Seq(S) /\ Len(t) <= MaxSize
    BY <1>0, <2>2, <2>4
  <2>9. QED  BY <2>3, <2>7, <2>8, Zenon
<1>2. CASE ~(Len(s) > MaxSize)
  <2>1. Trimmed(s) = s
    BY <1>2 DEF Trimmed
  <2>2. \A i \in 1..Len(s) : i + 0 \in 1..Len(s) /\ s[i] = s[i + 0]
    BY <1>0
  <2>3. QED  BY <1>0, <1>2, <2>1, <2>2
<1>3. QED  BY <1>1, <1>2

(* What an answer is made of.                                               *)
LEMMA PickFacts ==
    ASSUME NEW S, NEW s \in Seq(S), NEW T \in SUBSET (1..Len(s)), NEW f \in Rising(T)
    PROVE  /\ Cardinality(T) \in Nat
           /\ [i \in 1..Cardinality(T) |-> s[f[i]]] \in Seq(S)
           /\ Len([i \in 1..Cardinality(T) |-> s[f[i]]]) = Cardinality(T)
           /\ \A i \in 1..Cardinality(T) : f[i] \in T /\ s[f[i]] \in S
           /\ \A i, j \in 1..Cardinality(T) : i < j => f[i] < f[j]
<1>1. Len(s) \in Nat /\ IsFiniteSet(1..Len(s))
  BY FS_Interval
<1>2. IsFiniteSet(T)
  BY <1>1, FS_Subset
<1>3. Cardinality(T) \in Nat
  BY <1>2, FS_CardinalityType
<1>4. f \in [1..Cardinality(T) -> T] /\ \A i, j \in 1..Cardinality(T) : i < j => f[i] < f[j]
  BY DEF Rising
<1>5. \A i \in 1..Cardinality(T) : f[i] \in T /\ s[f[i]] \in S
  <2>1. \A i \in 1..Len(s) : s[i] \in S
    OBVIOUS
  <2>2. \A i \in 1..Cardinality(T) : f[i] \in T
    BY <1>4
  <2>3. QED  BY <2>1, <2>2
<1>6. QED  BY <1>3, <1>4, <1>5

LEMMA SeqGrows ==
    ASSUME NEW S, NEW T, S \subseteq T, NEW s \in Seq(S)
    PROVE  s \in Seq(T)
OBVIOUS

-----------------------------------------------------------------------------
(* Typing.                                                                  *)

(* What is in a goroutine's hand or on its way to the page was stamped.     *)
Held  == \A w \in Writers : holding[w] # NoEntry => holding[w] \in Stamped
Asked == \A r \in Requests : request[r] # NoRequest => request[r].entries \in Seq(Stamped)

Typed == TypeOK /\ clock >= 1 /\ Held /\ Asked

LEMMA NumberFacts ==
    /\ MaxSize \in Nat /\ MaxTime \in Nat /\ MaxTime >= 1 /\ MaxEntries \in Nat
    /\ 0 \in Times /\ 1 \in Times /\ Times \subseteq Int
    /\ NoEntry \notin Entries /\ Entries \subseteq Int
    /\ 0 \in Milliseconds
<1>1. MaxTime \in Nat /\ MaxTime >= 1
  BY BoundsAssumption
<1>2. MaxTime \div Ms \in Nat
  BY <1>1, DivFacts
<1>3. 0 \in Milliseconds
  <2>1. 0 \in 0..(MaxTime \div Ms + 1) /\ Ms * 0 = 0
    BY <1>2, BoundsAssumption
  <2>2. QED  BY <2>1 DEF Milliseconds
<1>4. QED  BY <1>1, <1>3, BoundsAssumption DEF Times, Entries

LEMMA StampedFacts == /\ Stamped \subseteq Entries
                      /\ \A n \in Stamped : stamp[n] # 0
BY DEF Stamped

LEMMA InitTyped == Init => Typed
<1> SUFFICES ASSUME Init PROVE Typed
  OBVIOUS
<1>1. <<>> \in Seq(Stamped) /\ Len(<<>>) = 0
  OBVIOUS
<1>2. QED  BY <1>1, NumberFacts DEF Init, Typed, TypeOK, Held, Asked

(* A stamp makes one entry more.                                            *)
LEMMA Stamps ==
    ASSUME Typed, NEW w \in Writers, Stamp(w)
    PROVE  \E n \in Entries \ Stamped :
              /\ \A m \in Entries \ Stamped : n <= m
              /\ stamp' = [stamp EXCEPT ![n] = clock] /\ stamp' \in [Entries -> Times]
              /\ holding' = [holding EXCEPT ![w] = n]
              /\ Stamped' = Stamped \union {n}
<1>1. PICK n \in Entries \ Stamped :
         /\ \A m \in Entries \ Stamped : n <= m
         /\ stamp' = [stamp EXCEPT ![n] = clock]
         /\ holding' = [holding EXCEPT ![w] = n]
  BY DEF Stamp
<1>2. stamp \in [Entries -> Times] /\ clock \in Times /\ clock # 0
  BY NumberFacts DEF Typed, TypeOK
<1>3. stamp' \in [Entries -> Times]
  BY <1>1, <1>2
<1>4. Stamped' = Stamped \union {n}
  BY <1>1, <1>2 DEF Stamped
<1>5. QED  BY <1>1, <1>3, <1>4

LEMMA StampTyped == ASSUME Typed, NEW w \in Writers, Stamp(w)  PROVE Typed'
<1>1. PICK n \in Entries \ Stamped :
         /\ stamp' \in [Entries -> Times]
         /\ holding' = [holding EXCEPT ![w] = n]
         /\ Stamped' = Stamped \union {n}
  BY Stamps
<1>2. UNCHANGED <<clock, log, overtook, floor, request, last, shown>>
  BY DEF Stamp
<1>3. /\ log' \in Seq(Stamped') /\ shown' \in Seq(Stamped')
      /\ overtook' \subseteq Stamped' \X Stamped'
  BY <1>1, <1>2, SeqGrows DEF Typed, TypeOK
<1>4. holding' \in [Writers -> Entries \union {NoEntry}]
  BY <1>1 DEF Typed, TypeOK
<1>5. Held'
  BY <1>1 DEF Typed, TypeOK, Held
<1>6. Asked'
  BY <1>1, <1>2, SeqGrows DEF Typed, Asked
<1>7. QED  BY <1>1, <1>2, <1>3, <1>4, <1>5, <1>6 DEF Typed, TypeOK

LEMMA AddProgressTyped == ASSUME Typed, NEW w \in Writers, AddProgress(w)  PROVE Typed'
<1>1. /\ UNCHANGED <<clock, stamp, floor, request, last, shown>>
      /\ holding' = [holding EXCEPT ![w] = NoEntry]
      /\ log' = Trimmed(Append(log, holding[w])) /\ holding[w] \in Stamped
  BY DEF AddProgress, Typed, Held
<1>2. Append(log, holding[w]) \in Seq(Stamped)
  BY <1>1 DEF Typed, TypeOK
<1>3. log' \in Seq(Stamped) /\ Len(log') <= MaxSize
  BY <1>1, <1>2, TrimmedFacts
<1>4. Stamped' = Stamped
  BY <1>1 DEF Stamped
<1>5. holding' \in [Writers -> Entries \union {NoEntry}] /\ Held'
  BY <1>1, <1>4 DEF Typed, TypeOK, Held
<1>6. overtook' \subseteq Stamped \X Stamped
  <2>1. Behind(holding[w]) \subseteq Stamped
    BY NumberFacts DEF Behind, Typed, Held
  <2>2. QED  BY <1>1, <2>1 DEF AddProgress, Typed, TypeOK
<1>7. QED  BY <1>1, <1>3, <1>4, <1>5, <1>6 DEF Typed, TypeOK, Asked

(* The steps of the page's requests leave the server's state alone.         *)
LEMMA RequestTyped ==
    ASSUME Typed, UNCHANGED <<clock, stamp, holding, log, overtook, floor>>,
           NEW r \in Requests, NEW q, request' = [request EXCEPT ![r] = q],
           q = NoRequest \/ (q \in RequestState /\ q.entries \in Seq(Stamped)),
           last' \in Milliseconds, shown' \in Seq(Stamped)
    PROVE  Typed'
<1>1. Stamped' = Stamped
  BY DEF Stamped
<1>2. request' \in [Requests -> RequestState \union {NoRequest}]
  BY DEF Typed, TypeOK
<1>3. Asked'
  BY <1>1 DEF Typed, TypeOK, Asked
<1>4. QED  BY <1>1, <1>2, <1>3 DEF Typed, TypeOK, Held

LEMMA PollTyped == ASSUME Typed, NEW r \in Requests, Poll(r)  PROVE Typed'
<1> DEFINE q == [since |-> last, answered |-> FALSE, entries |-> <<>>]
<1>1. q \in RequestState /\ q.entries \in Seq(Stamped)
  BY DEF Typed, TypeOK, RequestState
<1>2. request' = [request EXCEPT ![r] = q]
  BY DEF Poll
<1> HIDE DEF q
<1>3. QED  BY <1>1, <1>2, RequestTyped DEF Poll, Typed, TypeOK

(* What the answer holds, in which order, and after what.                   *)
LEMMA Answers ==
    ASSUME Typed, NEW r \in Requests, Answer(r)
    PROVE  /\ request[r] # NoRequest /\ request[r] \in RequestState
           /\ UNCHANGED <<clock, stamp, holding, log, overtook, floor, last, shown>>
           /\ \E q \in RequestState :
                 /\ request' = [request EXCEPT ![r] = q]
                 /\ q.since = request[r].since /\ q.answered
                 /\ q.entries \in Seq(Stamped)
                 /\ \E p \in [1..Len(q.entries) -> 1..Len(log)] :
                       /\ \A i, j \in 1..Len(q.entries) : i < j => p[i] < p[j]
                       /\ \A i \in 1..Len(q.entries) :
                             q.entries[i] = log[p[i]] /\ stamp[q.entries[i]] > q.since
<1> DEFINE since == request[r].since
           T == {i \in 1..Len(log) : stamp[log[i]] > since}
<1>1. request[r] # NoRequest /\ request[r] \in RequestState
  BY DEF Answer, Typed, TypeOK
<1>2. UNCHANGED <<clock, stamp, holding, log, overtook, floor, last, shown>>
  BY DEF Answer
<1>3. PICK f \in Rising(T) :
         request' = [request EXCEPT ![r] =
            [@ EXCEPT !.answered = TRUE,
                      !.entries = [i \in 1..Cardinality(T) |-> log[f[i]]]]]
  BY DEF Answer
<1> DEFINE e == [i \in 1..Cardinality(T) |-> log[f[i]]]
           q == [request[r] EXCEPT !.answered = TRUE, !.entries = e]
<1>4. request' = [request EXCEPT ![r] = q]
  BY <1>3
<1>5. log \in Seq(Stamped) /\ T \in SUBSET (1..Len(log))
  BY DEF Typed, TypeOK
<1>6. /\ Cardinality(T) \in Nat /\ e \in Seq(Stamped) /\ Len(e) = Cardinality(T)
      /\ \A i \in 1..Cardinality(T) : f[i] \in T
      /\ \A i, j \in 1..Cardinality(T) : i < j => f[i] < f[j]
  <2>1. f \in Rising(T)
    BY <1>3
  <2> HIDE DEF T
  <2>2. QED  BY <1>5, <2>1, PickFacts
<1>7. f \in [1..Len(e) -> 1..Len(log)]
  <2> HIDE DEF e, T
  <2>1. f \in [1..Cardinality(T) -> T]
    BY <1>3 DEF Rising
  <2>2. QED  BY <1>5, <1>6, <2>1
<1>8. \A i \in 1..Len(e) : e[i] = log[f[i]] /\ stamp[e[i]] > since
  BY <1>6
<1> HIDE DEF e, T
<1>9. /\ q \in RequestState /\ q.since = since /\ q.answered /\ q.entries = e
  <2>1. Stamped \subseteq Entries
    BY StampedFacts
  <2>2. e \in Seq(Entries)
    BY <1>6, <2>1, SeqGrows
  <2>3. QED  BY <1>1, <2>2 DEF RequestState
<1> HIDE DEF q
<1>10. \A i, j \in 1..Len(e) : i < j => f[i] < f[j]
  BY <1>6
<1>11. \E p \in [1..Len(e) -> 1..Len(log)] :
          /\ \A i, j \in 1..Len(e) : i < j => p[i] < p[j]
          /\ \A i \in 1..Len(e) : e[i] = log[p[i]] /\ stamp[e[i]] > since
  BY <1>7, <1>8, <1>10, Zenon
<1> HIDE DEF since
<1>12. QED  BY <1>1, <1>2, <1>4, <1>6, <1>9, <1>11, Zenon DEF since

LEMMA AnswerTyped == ASSUME Typed, NEW r \in Requests, Answer(r)  PROVE Typed'
<1>1. /\ UNCHANGED <<clock, stamp, holding, log, overtook, floor, last, shown>>
      /\ \E q \in RequestState : /\ request' = [request EXCEPT ![r] = q]
                                 /\ q.entries \in Seq(Stamped)
  BY Answers
<1>2. last \in Milliseconds /\ shown \in Seq(Stamped)
  BY DEF Typed, TypeOK
<1>3. QED  BY <1>1, <1>2, RequestTyped

(* What a request that was answered adds to the page.                       *)
LEMMA Shows ==
    ASSUME Typed, NEW r \in Requests, Show(r)
    PROVE  LET new == request[r].entries IN
           /\ request[r] # NoRequest /\ new \in Seq(Stamped)
           /\ shown' = shown \o new
           /\ request' = [request EXCEPT ![r] = NoRequest]
           /\ UNCHANGED <<clock, stamp, holding, log, overtook, floor>>
           /\ new = <<>> => last' = last
           /\ new # <<>> => Len(new) \in 1..Len(new) /\ last' = Since(new[Len(new)])
<1>1. request[r] # NoRequest /\ request[r].entries \in Seq(Stamped)
  BY DEF Show, Typed, Asked
<1>2. QED  BY <1>1 DEF Show, Last

LEMMA ShowTyped == ASSUME Typed, NEW r \in Requests, Show(r)  PROVE Typed'
<1> DEFINE new == request[r].entries
<1>1. /\ new \in Seq(Stamped) /\ shown' = shown \o new
      /\ request' = [request EXCEPT ![r] = NoRequest]
      /\ UNCHANGED <<clock, stamp, holding, log, overtook, floor>>
      /\ new = <<>> => last' = last
      /\ new # <<>> => Len(new) \in 1..Len(new) /\ last' = Since(new[Len(new)])
  BY Shows
<1>2. shown \in Seq(Stamped) /\ last \in Milliseconds /\ stamp \in [Entries -> Times]
  BY DEF Typed, TypeOK
<1>3. shown' \in Seq(Stamped)
  BY <1>1, <1>2, ConcatProperties
<1>4. last' \in Milliseconds
  <2>1. CASE new = <<>>
    BY <1>1, <1>2, <2>1
  <2>2. CASE new # <<>>
    <3>1. new[Len(new)] \in Stamped
      BY <1>1, <2>2
    <3>2. stamp[new[Len(new)]] \in Times
      BY <1>2, <3>1, StampedFacts
    <3>3. QED  BY <1>1, <2>2, <3>2, SinceFacts
  <2>3. QED  BY <2>1, <2>2
<1>5. QED  BY <1>1, <1>3, <1>4, RequestTyped

LEMMA LoseTyped == ASSUME Typed, NEW r \in Requests, Lose(r)  PROVE Typed'
BY RequestTyped DEF Lose, Typed, TypeOK

LEMMA ReloadTyped == ASSUME Typed, Reload  PROVE Typed'
<1>1. Stamped' = Stamped
  BY DEF Stamped, Reload
<1>2. <<>> \in Seq(Stamped)
  OBVIOUS
<1>3. QED  BY <1>1, <1>2, NumberFacts DEF Reload, Typed, TypeOK, Held, Asked

LEMMA RestartTyped == ASSUME Typed, Restart  PROVE Typed'
<1>1. Stamped' = Stamped
  BY DEF Stamped, Restart
<1>2. <<>> \in Seq(Stamped) /\ Len(<<>>) = 0
  OBVIOUS
<1>3. Cardinality(Stamped) \in 0..MaxEntries
  <2>1. IsFiniteSet(Entries) /\ Cardinality(Entries) = MaxEntries
    BY FS_Interval, NumberFacts DEF Entries
  <2>2. Cardinality(Stamped) <= Cardinality(Entries) /\ Cardinality(Stamped) \in Nat
    BY <2>1, StampedFacts, FS_Subset, FS_CardinalityType
  <2>3. QED  BY <2>1, <2>2, NumberFacts
<1>4. /\ request' \in [Requests -> RequestState \union {NoRequest}]
      /\ \A r \in Requests : request'[r] # NoRequest => request'[r] = request[r]
  BY DEF Restart, Typed, TypeOK
<1>5. Asked'
  BY <1>1, <1>4 DEF Typed, Asked
<1>6. QED  BY <1>1, <1>2, <1>3, <1>4, <1>5, NumberFacts DEF Restart, Typed, TypeOK, Held

LEMMA TickTyped == ASSUME Typed, Tick \/ UNCHANGED vars  PROVE Typed'
<1>1. Stamped' = Stamped
  BY DEF Stamped, Tick, vars
<1>2. clock' \in Times /\ clock' >= 1
  BY NumberFacts DEF Tick, vars, Typed, TypeOK, Times
<1>3. QED  BY <1>1, <1>2 DEF Tick, vars, Typed, TypeOK, Held, Asked

LEMMA StepTyped == Typed /\ [Next]_vars => Typed'
BY StampTyped, AddProgressTyped, PollTyped, AnswerTyped, ShowTyped, LoseTyped, ReloadTyped,
   RestartTyped, TickTyped DEF Next

LEMMA AlwaysTyped == Spec => []Typed
<1>1. QED  BY InitTyped, StepTyped, PTL DEF Spec

(* TypeOK holds for any number of goroutines and requests: in particular    *)
(* the log has no more than MaxSize entries, and the page shows none that   *)
(* was not made.                                                            *)
THEOREM TypeCorrect == Spec => []TypeOK
<1>1. Typed => TypeOK
  BY DEF Typed
<1>2. QED  BY <1>1, AlwaysTyped, PTL

-----------------------------------------------------------------------------
(* The order of what is shown.                                              *)

(* Two requests on their way may bring the page one entry twice.            *)
SoleRequest == \A q, r \in Requests : q = r

(* m was made before n, or has overtaken it.                                *)
Ahead(S, m, n) == m < n \/ <<m, n>> \in S

InOrder(S, s) == \A i, j \in 1..Len(s) : i < j => Ahead(S, s[i], s[j])

(* Entries are made one after the other, and the clock does not go back.    *)
Clocked ==
    /\ \A n \in Entries : stamp[n] <= clock
    /\ \A m, n \in Entries : m < n /\ n \in Stamped => m \in Stamped /\ stamp[m] <= stamp[n]

(* No entry is in two hands, and one in hand comes after all of the log but *)
(* what has overtaken it.                                                   *)
LogInOrder ==
    /\ InOrder(overtook, log)
    /\ \A w \in Writers : holding[w] # NoEntry =>
          /\ \A i \in 1..Len(log) : Ahead(overtook, log[i], holding[w])
          /\ \A v \in Writers : v # w => holding[v] # holding[w]

(* An answer holds what was made after the moment the page asks from: it    *)
(* did not go on since it asked.                                            *)
AnswerInOrder(r) ==
    request[r] # NoRequest =>
        /\ request[r].since = last
        /\ InOrder(overtook, request[r].entries)
        /\ \A i \in 1..Len(request[r].entries) : stamp[request[r].entries[i]] > last

(* What is shown was made before the moment the page asks from, unless it   *)
(* raced with another: then it may come again.                              *)
ShownBefore ==
    \A i \in 1..Len(shown) : ~Raced(shown[i]) =>
        /\ stamp[shown[i]] < last
        /\ \A j \in 1..Len(shown) : i < j => shown[i] < shown[j]

AnswersInOrder == \A r \in Requests : AnswerInOrder(r)

OInv == Typed /\ Clocked /\ LogInOrder /\ AnswersInOrder /\ ShownBefore

(* Who overtook and who was overtaken raced, for ever.                      *)
LEMMA RacedFacts ==
    /\ \A m, n : Ahead(overtook, m, n) /\ ~Raced(m) => m < n
    /\ overtook \subseteq overtook' =>
          \A m, n : Ahead(overtook, m, n) => Ahead(overtook', m, n)
<1>1. \A m, n : <<m, n>> \in overtook => Raced(m)
  BY DEF Raced
<1>2. QED  BY <1>1 DEF Ahead

LEMMA Numbers ==
    ASSUME Typed
    PROVE  /\ \A n \in Stamped : n \in Int /\ stamp[n] \in Int
           /\ \A i \in 1..Len(log) : log[i] \in Stamped
           /\ \A i \in 1..Len(shown) : shown[i] \in Stamped
           /\ last \in Int
<1>1. stamp \in [Entries -> Times] /\ log \in Seq(Stamped) /\ shown \in Seq(Stamped)
  BY DEF Typed, TypeOK
<1>2. last \in Int
  <2>1. PICK m \in 0..(MaxTime \div Ms + 1) : last = Ms * m
    BY DEF Typed, TypeOK, Milliseconds
  <2>2. MaxTime \div Ms \in Nat /\ Ms \in Nat
    BY NumberFacts, DivFacts, BoundsAssumption
  <2>3. QED  BY <2>1, <2>2
<1>3. \A n \in Stamped : n \in Int /\ stamp[n] \in Int
  <2>1. SUFFICES ASSUME NEW n \in Stamped  PROVE n \in Int /\ stamp[n] \in Int
    OBVIOUS
  <2>2. n \in Entries
    BY StampedFacts
  <2>3. stamp[n] \in Times
    BY <1>1, <2>2
  <2>4. QED  BY <2>2, <2>3, NumberFacts
<1>4. /\ \A i \in 1..Len(log) : log[i] \in Stamped
      /\ \A i \in 1..Len(shown) : shown[i] \in Stamped
  BY <1>1
<1>5. QED  BY <1>2, <1>3, <1>4

(* A later stamp is a later entry.                                          *)
LEMMA StampOrder ==
    ASSUME Typed, Clocked, NEW m \in Stamped, NEW n \in Stamped, stamp[m] < stamp[n]
    PROVE  m < n
<1>1. m \in Entries /\ n \in Entries /\ m \in Int /\ n \in Int
      /\ stamp[m] \in Int /\ stamp[n] \in Int
  BY Numbers, StampedFacts
<1>2. CASE n < m
  BY <1>1, <1>2 DEF Clocked
<1>3. QED  BY <1>1, <1>2

LEMMA StampInOrder ==
    ASSUME OInv, NEW w \in Writers, Stamp(w)
    PROVE  (Clocked /\ LogInOrder /\ AnswersInOrder /\ ShownBefore)'
<1>0. Typed
  BY DEF OInv
<1>1. PICK n \in Entries \ Stamped :
         /\ \A m \in Entries \ Stamped : n <= m
         /\ stamp' = [stamp EXCEPT ![n] = clock]
         /\ holding' = [holding EXCEPT ![w] = n]
         /\ Stamped' = Stamped \union {n}
  BY <1>0, Stamps
<1>2. UNCHANGED <<clock, log, overtook, floor, request, last, shown>>
  BY DEF Stamp
<1>3. /\ stamp \in [Entries -> Times] /\ clock \in Int /\ Stamped \subseteq Entries
      /\ Entries \subseteq Int /\ Times \subseteq Int
  BY <1>0, StampedFacts, NumberFacts DEF Typed, TypeOK
<1>4. \A m \in Stamped : m < n
  <2>1. SUFFICES ASSUME NEW m \in Stamped, n < m  PROVE FALSE
    BY <1>1, <1>3
  <2>2. QED  BY <1>1, <1>3, <2>1 DEF OInv, Clocked
<1>5. \A m \in Stamped : stamp'[m] = stamp[m]
  BY <1>1, <1>3
<1>6. Clocked'
  <2>1. \A m \in Entries : stamp'[m] <= clock'
    BY <1>1, <1>2, <1>3 DEF OInv, Clocked
  <2>2. ASSUME NEW m \in Entries, NEW k \in Entries, m < k, k \in Stamped'
        PROVE  m \in Stamped' /\ stamp'[m] <= stamp'[k]
    <3>1. CASE k \in Stamped
      BY <1>1, <1>5, <2>2, <3>1 DEF OInv, Clocked
    <3>2. CASE k = n
      <4>1. m \in Stamped
        BY <1>1, <1>3, <2>2, <3>2
      <4>2. QED  BY <1>1, <1>3, <1>5, <3>2, <4>1 DEF OInv, Clocked
    <3>3. QED  BY <1>1, <2>2, <3>1, <3>2
  <2>3. QED  BY <2>1, <2>2 DEF Clocked
<1>7. LogInOrder'
  <2>1. \A i \in 1..Len(log) : Ahead(overtook, log[i], n)
    BY <1>0, <1>4, Numbers DEF Ahead
  <2>2. \A v \in Writers : holding'[v] = IF v = w THEN n ELSE holding[v]
    BY <1>0, <1>1 DEF Typed, TypeOK
  <2>3. \A v \in Writers : holding[v] # NoEntry => holding[v] # n
    BY <1>0, <1>1 DEF Typed, Held
  <2>4. n # NoEntry
    BY <1>1, NumberFacts
  <2>5. QED  BY <1>2, <2>1, <2>2, <2>3, <2>4 DEF OInv, LogInOrder, InOrder, Ahead
<1>8. AnswersInOrder'
  <2>1. ASSUME NEW r \in Requests, request[r] # NoRequest
        PROVE  \A i \in 1..Len(request[r].entries) : request[r].entries[i] \in Stamped
    BY <1>0, <2>1 DEF Typed, Asked
  <2>2. QED  BY <1>2, <1>5, <2>1 DEF OInv, AnswersInOrder, AnswerInOrder, InOrder, Ahead
<1>9. ShownBefore'
  BY <1>0, <1>2, <1>5, Numbers DEF OInv, ShownBefore, Raced
<1>10. QED  BY <1>6, <1>7, <1>8, <1>9

(* Who has an earlier entry in hand is overtaken.                           *)
LEMMA AddProgressInOrder ==
    ASSUME OInv, NEW w \in Writers, AddProgress(w)
    PROVE  (Clocked /\ LogInOrder /\ AnswersInOrder /\ ShownBefore)'
<1> DEFINE n == holding[w]
           more == Append(log, n)
<1>1. /\ Typed /\ UNCHANGED <<clock, stamp, floor, request, last, shown>>
      /\ holding' = [holding EXCEPT ![w] = NoEntry]
      /\ overtook' = overtook \union {<<n, m>> : m \in Behind(n)}
      /\ log' = Trimmed(more) /\ n \in Stamped /\ n # NoEntry
  BY DEF OInv, AddProgress, Typed, Held
<1>2. log \in Seq(Stamped) /\ \A i \in 1..Len(log) : Ahead(overtook, log[i], n)
  BY <1>1 DEF OInv, LogInOrder, Typed, TypeOK
<1>3. /\ more \in Seq(Stamped) /\ Len(more) = Len(log) + 1 /\ more[Len(log) + 1] = n
      /\ \A i \in 1..Len(log) : more[i] = log[i]
  BY <1>1, <1>2
<1>4. InOrder(overtook, more)
  <2>1. SUFFICES ASSUME NEW i \in 1..Len(log) + 1, NEW j \in 1..Len(log) + 1, i < j
                 PROVE  Ahead(overtook, more[i], more[j])
    BY <1>3 DEF InOrder
  <2>2. Len(log) \in Nat /\ i \in 1..Len(log)
    BY <1>2, <2>1
  <2>3. CASE j = Len(log) + 1
    BY <1>2, <1>3, <2>2, <2>3
  <2>4. CASE j \in 1..Len(log)
    BY <1>3, <2>1, <2>2, <2>4 DEF OInv, LogInOrder, InOrder
  <2>5. QED  BY <2>2, <2>3, <2>4
<1>5. ASSUME NEW v \in Writers, v # w, holding[v] # NoEntry, NEW i \in 1..Len(more)
      PROVE  Ahead(overtook', more[i], holding[v])
  <2> DEFINE m == holding[v]
  <2>1. m \in Stamped /\ m # n /\ \A k \in 1..Len(log) : Ahead(overtook, log[k], m)
    BY <1>1, <1>5 DEF OInv, LogInOrder, Typed, Held
  <2>2. m \in Int /\ n \in Int /\ m \in Entries
    BY <1>1, <2>1, Numbers, StampedFacts
  <2>3. m < n => m \in Behind(n)
    BY <2>2 DEF Behind
  <2>4. Ahead(overtook', n, m)
    <3> HIDE DEF m, n
    <3>1. m < n => <<n, m>> \in overtook'
      BY <1>1, <2>3
    <3>2. QED  BY <2>1, <2>2, <3>1 DEF Ahead
  <2>5. \A k \in 1..Len(log) : Ahead(overtook', log[k], m)
    BY <1>1, <2>1, RacedFacts
  <2>6. i = Len(log) + 1 \/ i \in 1..Len(log)
    BY <1>2, <1>3, <1>5
  <2>7. QED  BY <1>3, <2>4, <2>5, <2>6
<1>6. overtook \subseteq overtook'
  BY <1>1
<1> HIDE DEF more
<1>7. PICK k \in Nat : \A i \in 1..Len(log') : i + k \in 1..Len(more) /\ log'[i] = more[i + k]
  <2>1. \E k \in Nat : \A i \in 1..Len(Trimmed(more)) :
           i + k \in 1..Len(more) /\ Trimmed(more)[i] = more[i + k]
    BY <1>3, TrimmedFacts
  <2>2. QED  BY <1>1, <2>1
<1>8. Len(log') \in Nat
  BY <1>1, <1>3, TrimmedFacts
<1>9. InOrder(overtook', log')
  <2>1. InOrder(overtook', more)
    BY <1>4, <1>6, RacedFacts DEF InOrder
  <2>2. QED  BY <1>7, <1>8, <2>1 DEF InOrder
<1>10. LogInOrder'
  <2>1. \A v \in Writers : holding'[v] = IF v = w THEN NoEntry ELSE holding[v]
    BY <1>1 DEF Typed, TypeOK
  <2>2. ASSUME NEW v \in Writers, holding'[v] # NoEntry
        PROVE  \A i \in 1..Len(log') : Ahead(overtook', log'[i], holding'[v])
    <3>1. v # w /\ holding'[v] = holding[v] /\ holding[v] # NoEntry
      BY <2>1, <2>2
    <3>2. QED  BY <1>5, <1>7, <3>1
  <2>3. \A u, v \in Writers :
           holding'[u] # NoEntry /\ v # u => holding'[v] # holding'[u]
    BY <2>1 DEF OInv, LogInOrder
  <2>4. QED  BY <1>9, <2>2, <2>3 DEF LogInOrder
<1>11. Stamped' = Stamped
  BY <1>1 DEF Stamped
<1>12. AnswersInOrder'
  BY <1>1, <1>6, RacedFacts DEF OInv, AnswersInOrder, AnswerInOrder, InOrder, Ahead
<1>13. ShownBefore'
  BY <1>1, <1>6 DEF OInv, ShownBefore, Raced
<1>14. QED  BY <1>1, <1>10, <1>11, <1>12, <1>13 DEF OInv, Clocked

(* The page's steps leave the log alone.                                    *)
LEMMA LogAlone ==
    ASSUME OInv, UNCHANGED <<clock, stamp, holding, log, overtook>>
    PROVE  Clocked' /\ LogInOrder'
<1>1. Stamped' = Stamped
  BY DEF Stamped
<1>2. QED  BY <1>1 DEF OInv, Clocked, LogInOrder, InOrder, Ahead

LEMMA PollInOrder ==
    ASSUME OInv, NEW r \in Requests, Poll(r)
    PROVE  (Clocked /\ LogInOrder /\ AnswersInOrder /\ ShownBefore)'
<1> DEFINE q == [since |-> last, answered |-> FALSE, entries |-> <<>>]
<1>1. /\ request' = [request EXCEPT ![r] = q]
      /\ UNCHANGED <<clock, stamp, holding, log, overtook, last, shown>>
  BY DEF Poll
<1>2. q.since = last /\ q.entries = <<>> /\ Len(<<>>) = 0
  OBVIOUS
<1> HIDE DEF q
<1>3. AnswersInOrder'
  BY <1>1, <1>2 DEF OInv, AnswersInOrder, AnswerInOrder, InOrder, Ahead, Typed, TypeOK
<1>4. ShownBefore'
  BY <1>1 DEF OInv, ShownBefore, Raced
<1>5. QED  BY <1>1, <1>3, <1>4, LogAlone

LEMMA AnswerKeepsOrder ==
    ASSUME OInv, NEW r \in Requests, Answer(r)
    PROVE  (Clocked /\ LogInOrder /\ AnswersInOrder /\ ShownBefore)'
<1>1. Typed /\ UNCHANGED <<clock, stamp, holding, log, overtook, floor, last, shown>>
  BY Answers DEF OInv
<1>2. PICK q \in RequestState :
         /\ request' = [request EXCEPT ![r] = q]
         /\ q.since = request[r].since
         /\ q.entries \in Seq(Stamped)
         /\ \E p \in [1..Len(q.entries) -> 1..Len(log)] :
               /\ \A i, j \in 1..Len(q.entries) : i < j => p[i] < p[j]
               /\ \A i \in 1..Len(q.entries) :
                     q.entries[i] = log[p[i]] /\ stamp[q.entries[i]] > q.since
  BY Answers DEF OInv
<1>3. PICK p \in [1..Len(q.entries) -> 1..Len(log)] :
         /\ \A i, j \in 1..Len(q.entries) : i < j => p[i] < p[j]
         /\ \A i \in 1..Len(q.entries) :
               q.entries[i] = log[p[i]] /\ stamp[q.entries[i]] > q.since
  BY <1>2
<1>4. q.since = last
  BY <1>1, <1>2, Answers DEF OInv, AnswersInOrder, AnswerInOrder
<1>5. InOrder(overtook, q.entries)
  BY <1>3 DEF OInv, LogInOrder, InOrder
<1>6. \A i \in 1..Len(q.entries) : stamp[q.entries[i]] > last
  BY <1>3, <1>4
<1>7. \A d \in Requests : request'[d] = IF d = r THEN q ELSE request[d]
  BY <1>1, <1>2 DEF Typed, TypeOK
<1>8. AnswersInOrder'
  BY <1>1, <1>4, <1>5, <1>6, <1>7 DEF OInv, AnswersInOrder, AnswerInOrder, InOrder, Ahead
<1>9. ShownBefore'
  BY <1>1 DEF OInv, ShownBefore, Raced
<1>10. QED  BY <1>1, <1>8, <1>9, LogAlone

(* What is shown now was made before what is in the answer.                 *)
LEMMA ShowInOrder ==
    ASSUME OInv, SoleRequest, NEW r \in Requests, Show(r)
    PROVE  (Clocked /\ LogInOrder /\ AnswersInOrder /\ ShownBefore)'
<1> DEFINE new == request[r].entries
<1>1. /\ Typed /\ request[r] # NoRequest /\ new \in Seq(Stamped)
      /\ shown' = shown \o new
      /\ request' = [request EXCEPT ![r] = NoRequest]
      /\ UNCHANGED <<clock, stamp, holding, log, overtook, floor>>
      /\ new = <<>> => last' = last
      /\ new # <<>> => Len(new) \in 1..Len(new) /\ last' = Since(new[Len(new)])
  BY Shows DEF OInv
<1>2. InOrder(overtook, new) /\ \A i \in 1..Len(new) : new[i] \in Stamped /\ stamp[new[i]] > last
  BY <1>1 DEF OInv, AnswersInOrder, AnswerInOrder
<1>3. /\ shown \in Seq(Stamped) /\ last \in Int
      /\ \A i \in 1..Len(shown) : shown[i] \in Stamped
      /\ \A i \in 1..Len(shown) : ~Raced(shown[i]) =>
            /\ stamp[shown[i]] < last
            /\ \A j \in 1..Len(shown) : i < j => shown[i] < shown[j]
  BY <1>1, Numbers DEF OInv, ShownBefore, Typed, TypeOK
<1> HIDE DEF new
<1>4. /\ Len(shown) \in Nat /\ Len(new) \in Nat
      /\ Len(shown') = Len(shown) + Len(new)
      /\ \A i \in 1..Len(shown) + Len(new) :
            shown'[i] = IF i <= Len(shown) THEN shown[i] ELSE new[i - Len(shown)]
  BY <1>1, <1>3, ConcatProperties
<1>5. ASSUME NEW i \in 1..Len(shown), ~Raced(shown[i]), NEW j \in 1..Len(new)
      PROVE  shown[i] < new[j]
  <2>1. /\ shown[i] \in Stamped /\ new[j] \in Stamped
        /\ stamp[shown[i]] < last /\ last < stamp[new[j]]
    BY <1>2, <1>3, <1>5
  <2>2. stamp[shown[i]] < stamp[new[j]]
    BY <1>1, <2>1, Numbers
  <2>3. QED  BY <1>1, <2>1, <2>2, StampOrder DEF OInv
<1>6. ASSUME NEW i \in 1..Len(new), ~Raced(new[i]), NEW j \in 1..Len(new), i < j
      PROVE  new[i] < new[j]
  BY <1>2, <1>6, RacedFacts DEF InOrder
<1>7. ASSUME NEW i \in 1..Len(shown'), ~Raced(shown'[i]), NEW j \in 1..Len(shown'), i < j
      PROVE  shown'[i] < shown'[j]
  <2>1. CASE j <= Len(shown)
    BY <1>3, <1>4, <1>7, <2>1
  <2>2. CASE i <= Len(shown) /\ ~(j <= Len(shown))
    <3>1. /\ i \in 1..Len(shown) /\ j - Len(shown) \in 1..Len(new)
          /\ shown'[i] = shown[i] /\ shown'[j] = new[j - Len(shown)]
      BY <1>4, <1>7, <2>2
    <3>2. QED  BY <1>5, <1>7, <3>1
  <2>3. CASE ~(i <= Len(shown))
    <3>1. /\ i - Len(shown) \in 1..Len(new) /\ j - Len(shown) \in 1..Len(new)
          /\ i - Len(shown) < j - Len(shown)
          /\ shown'[i] = new[i - Len(shown)] /\ shown'[j] = new[j - Len(shown)]
      BY <1>4, <1>7, <2>3
    <3>2. QED  BY <1>6, <1>7, <3>1
  <2>4. QED  BY <1>4, <1>7, <2>1, <2>2, <2>3
<1>8. ASSUME NEW i \in 1..Len(shown'), ~Raced(shown'[i])  PROVE stamp[shown'[i]] < last'
  <2>1. CASE new = <<>>
    <3>1. Len(new) = 0
      BY <2>1
    <3>2. shown'[i] = shown[i] /\ i \in 1..Len(shown)
      BY <1>4, <1>8, <3>1
    <3>3. QED  BY <1>1, <1>3, <1>8, <2>1, <3>2
  <2>2. CASE new # <<>>
    <3> DEFINE n == new[Len(new)]
    <3>1. Len(new) \in 1..Len(new) /\ last' = Since(n) /\ n \in Stamped
      BY <1>1, <1>2, <2>2
    <3>2. stamp \in [Entries -> Times] /\ Stamped \subseteq Entries
      BY <1>1, StampedFacts DEF Typed, TypeOK
    <3>3. stamp[n] \in Times
      BY <3>1, <3>2
    <3>4. last' \in Nat /\ stamp[n] < last'
      BY <3>1, <3>3, SinceFacts
    <3>5. shown'[i] \in Stamped /\ (shown'[i] = n \/ shown'[i] < n)
      <4>1. CASE i <= Len(shown)
        <5>1. i \in 1..Len(shown) /\ shown'[i] = shown[i]
          BY <1>4, <1>8, <4>1
        <5>2. QED  BY <1>3, <1>5, <1>8, <3>1, <5>1
      <4>2. CASE ~(i <= Len(shown))
        <5>1. i - Len(shown) \in 1..Len(new) /\ shown'[i] = new[i - Len(shown)]
          BY <1>4, <1>8, <4>2
        <5>2. i - Len(shown) = Len(new) \/ i - Len(shown) < Len(new)
          BY <1>4, <5>1
        <5>3. QED  BY <1>2, <1>6, <1>8, <3>1, <5>1, <5>2
      <4>3. QED  BY <4>1, <4>2
    <3> HIDE DEF n
    <3>6. stamp[shown'[i]] <= stamp[n]
      <4>1. stamp[n] \in Int
        BY <1>1, <3>1, Numbers
      <4>2. shown'[i] \in Entries /\ n \in Entries
        BY <3>1, <3>2, <3>5
      <4>3. QED  BY <3>1, <3>5, <4>1, <4>2 DEF OInv, Clocked
    <3>7. stamp[shown'[i]] \in Int /\ stamp[n] \in Int
      BY <1>1, <3>1, <3>5, Numbers
    <3>8. QED  BY <3>4, <3>6, <3>7
  <2>3. QED  BY <2>1, <2>2
<1>9. ShownBefore'
  BY <1>1, <1>7, <1>8 DEF ShownBefore, Raced
<1>10. AnswersInOrder'
  BY <1>1 DEF SoleRequest, AnswersInOrder, AnswerInOrder, Typed, TypeOK
<1>11. QED  BY <1>1, <1>9, <1>10, LogAlone

LEMMA LoseInOrder ==
    ASSUME OInv, NEW r \in Requests, Lose(r)
    PROVE  (Clocked /\ LogInOrder /\ AnswersInOrder /\ ShownBefore)'
<1>1. Typed /\ UNCHANGED <<clock, stamp, holding, log, overtook, last, shown>>
  BY DEF OInv, Lose
<1>2. AnswersInOrder'
  BY <1>1 DEF Lose, OInv, AnswersInOrder, AnswerInOrder, InOrder, Ahead, Typed, TypeOK
<1>3. ShownBefore'
  BY <1>1 DEF OInv, ShownBefore, Raced
<1>4. QED  BY <1>1, <1>2, <1>3, LogAlone

LEMMA ReloadInOrder ==
    ASSUME OInv, Reload
    PROVE  (Clocked /\ LogInOrder /\ AnswersInOrder /\ ShownBefore)'
<1>1. /\ UNCHANGED <<clock, stamp, holding, log, overtook>>
      /\ request' = [r \in Requests |-> NoRequest] /\ shown' = <<>>
  BY DEF Reload
<1>2. AnswersInOrder'
  BY <1>1 DEF AnswersInOrder, AnswerInOrder
<1>3. ShownBefore'
  <2>1. Len(shown') = 0
    BY <1>1
  <2>2. QED  BY <2>1 DEF ShownBefore
<1>4. QED  BY <1>1, <1>2, <1>3, LogAlone

(* What a server that was started again forgets was in order.               *)
LEMMA RestartInOrder ==
    ASSUME OInv, Restart
    PROVE  (Clocked /\ LogInOrder /\ AnswersInOrder /\ ShownBefore)'
<1>1. /\ log' = <<>> /\ \A w \in Writers : holding'[w] = NoEntry
      /\ \A r \in Requests : request'[r] # NoRequest => request'[r] = request[r]
      /\ UNCHANGED <<clock, stamp, overtook, last, shown>>
  BY DEF Restart
<1>2. Stamped' = Stamped
  BY <1>1 DEF Stamped
<1>3. Len(log') = 0
  BY <1>1
<1>4. LogInOrder'
  BY <1>1, <1>3 DEF LogInOrder, InOrder
<1>5. AnswersInOrder'
  BY <1>1 DEF OInv, AnswersInOrder, AnswerInOrder, InOrder, Ahead
<1>6. QED  BY <1>1, <1>2, <1>4, <1>5 DEF OInv, Clocked, ShownBefore, InOrder, Ahead, Raced

LEMMA TickInOrder ==
    ASSUME OInv, Tick \/ UNCHANGED vars
    PROVE  (Clocked /\ LogInOrder /\ AnswersInOrder /\ ShownBefore)'
<1>1. /\ UNCHANGED <<stamp, holding, log, overtook, floor, request, last, shown>>
      /\ clock' = clock \/ clock' = clock + 1
  BY DEF Tick, vars
<1>2. Stamped' = Stamped
  BY <1>1 DEF Stamped
<1>3. \A n \in Entries : stamp[n] \in Int /\ clock \in Int
  BY NumberFacts DEF OInv, Typed, TypeOK
<1>4. Clocked'
  BY <1>1, <1>2, <1>3 DEF OInv, Clocked
<1>5. QED  BY <1>1, <1>4
           DEF OInv, LogInOrder, AnswersInOrder, AnswerInOrder, ShownBefore, InOrder, Ahead, Raced

LEMMA OrderInit == Init => OInv
<1> SUFFICES ASSUME Init PROVE OInv
  OBVIOUS
<1>1. Len(<<>>) = 0 /\ Stamped = {}
  BY DEF Init, Stamped
<1>2. Clocked
  BY <1>1 DEF Init, Clocked
<1>3. QED  BY <1>1, <1>2, InitTyped
           DEF Init, OInv, LogInOrder, AnswersInOrder, AnswerInOrder, ShownBefore, InOrder, Ahead, Raced

LEMMA OrderStep ==
    ASSUME SoleRequest
    PROVE  OInv /\ [Next]_vars => OInv'
<1> SUFFICES ASSUME OInv, [Next]_vars PROVE OInv'
  OBVIOUS
<1>1. Typed'
  BY StepTyped DEF OInv
<1>2. (Clocked /\ LogInOrder /\ AnswersInOrder /\ ShownBefore)'
  BY StampInOrder, AddProgressInOrder, PollInOrder, AnswerKeepsOrder, ShowInOrder, LoseInOrder,
     ReloadInOrder, RestartInOrder, TickInOrder DEF Next
<1>3. QED  BY <1>1, <1>2 DEF OInv

(* With one request on its way at a time and any number of goroutines that  *)
(* report, the page shows an entry that raced with no other once, and only  *)
(* later ones after it: be the log trimmed, requests and answers lost, the  *)
(* page loaded again or the server started again.                           *)
THEOREM PageInOrder == ASSUME SoleRequest  PROVE Spec => []ShownInOrder
<1>1. OInv => ShownInOrder
  BY DEF OInv, ShownBefore, ShownInOrder
<1>2. OInv /\ [Next]_vars => OInv'
  BY OrderStep
<1>3. QED  BY <1>1, <1>2, OrderInit, PTL DEF Spec

==============================================================================
