-------------------------- MODULE StellarRpcProofs --------------------------
(***************************************************************************)
(* The circuit breaker and the rate limiter, for any number of callers     *)
(* that interleave and any limits: when the breaker is open, that nothing  *)
(* closes it again, and what is sent past it and past the limiter.         *)
(***************************************************************************)
EXTENDS StellarRpc, FiniteSetTheorems, SequenceTheorems, TLAPS

(* The counter is the number of failures at the end of the answers, except *)
(* that the history forgets all but the last Threshold of them.            *)
CountsFailures ==
    /\ consecutiveFailures \in Nat
    /\ recent \in Seq(BOOLEAN) /\ Len(recent) <= Threshold
    /\ consecutiveFailures < Len(recent) => recent[Len(recent) - consecutiveFailures] = TRUE
    /\ consecutiveFailures > Len(recent) => Len(recent) = Threshold
    /\ \A i \in 1..Len(recent) : i > Len(recent) - consecutiveFailures => recent[i] = FALSE

(* It has reached the threshold exactly while the breaker is open.         *)
OpenAtThreshold ==
    \/ circuitOpen = TRUE /\ consecutiveFailures >= Threshold
    \/ circuitOpen = FALSE /\ consecutiveFailures < Threshold

(* What remembering an answer does to the history.                         *)
LEMMA Remembered ==
  ASSUME RpcAssumption, recent \in Seq(BOOLEAN), Len(recent) <= Threshold, NEW ok \in BOOLEAN, Remember(ok)
  PROVE  /\ recent' \in Seq(BOOLEAN) /\ Len(recent') <= Threshold /\ Len(recent') > 0
         /\ recent'[Len(recent')] = ok
         /\ \/ Len(recent) < Threshold /\ Len(recent') = Len(recent) + 1
               /\ \A i \in 1..Len(recent) : recent'[i] = recent[i]
            \/ Len(recent) = Threshold /\ Len(recent') = Threshold
               /\ \A i \in 1..(Threshold - 1) : recent'[i] = recent[i + 1]
<1>1. CASE Len(recent) < Threshold
  <2>1. recent' = Append(recent, ok)
    BY <1>1 DEF Remember
  <2>2. QED
    BY <1>1, <2>1
<1>2. CASE Len(recent) = Threshold
  <2> DEFINE t == Tail(recent)
  <2>1. /\ t \in Seq(BOOLEAN) /\ Len(t) = Threshold - 1
        /\ \A i \in 1..(Threshold - 1) : t[i] = recent[i + 1]
    BY <1>2 DEF RpcAssumption
  <2>2. recent' = Append(t, ok)
    BY <1>2 DEF Remember, RpcAssumption
  <2> HIDE DEF t
  <2>3. QED
    BY <1>2, <2>1, <2>2 DEF RpcAssumption
<1>3. QED
  BY <1>1, <1>2 DEF RpcAssumption

LEMMA InitCounts == ASSUME RpcAssumption, Init PROVE CountsFailures /\ OpenAtThreshold
<1>1. consecutiveFailures = 0 /\ circuitOpen = FALSE /\ recent = <<>>
  BY DEF Init
<1>2. recent \in Seq(BOOLEAN) /\ Len(recent) = 0
  BY <1>1
<1>3. consecutiveFailures < Threshold
  BY <1>1 DEF RpcAssumption
<1>4. CountsFailures
  BY <1>1, <1>2 DEF CountsFailures, RpcAssumption
<1>5. QED
  BY <1>1, <1>3, <1>4 DEF OpenAtThreshold

LEMMA AnswerCounts ==
  ASSUME RpcAssumption, CountsFailures, NEW c \in Callers, QueryAnswered(c)
  PROVE  CountsFailures' /\ OpenAtThreshold'
<1>1. Remember(TRUE) /\ consecutiveFailures' = 0 /\ circuitOpen' = FALSE
  BY DEF QueryAnswered
<1>2. /\ recent' \in Seq(BOOLEAN) /\ Len(recent') <= Threshold /\ Len(recent') > 0
      /\ recent'[Len(recent')] = TRUE
  BY <1>1, Remembered DEF CountsFailures
<1>3. CountsFailures'
  BY <1>1, <1>2 DEF CountsFailures, RpcAssumption
<1>4. consecutiveFailures' < Threshold
  BY <1>1 DEF RpcAssumption
<1>5. QED
  BY <1>1, <1>3, <1>4 DEF OpenAtThreshold

LEMMA FailureCounts ==
  ASSUME RpcAssumption, CountsFailures, OpenAtThreshold, NEW c \in Callers, QueryFailed(c)
  PROVE  CountsFailures' /\ OpenAtThreshold'
<1>1. /\ Remember(FALSE) /\ consecutiveFailures' = consecutiveFailures + 1
      /\ circuitOpen' = (circuitOpen \/ consecutiveFailures' >= Threshold)
  BY DEF QueryFailed
<1>2. /\ recent' \in Seq(BOOLEAN) /\ Len(recent') <= Threshold /\ Len(recent') > 0
      /\ recent'[Len(recent')] = FALSE
      /\ \/ Len(recent) < Threshold /\ Len(recent') = Len(recent) + 1
            /\ \A i \in 1..Len(recent) : recent'[i] = recent[i]
         \/ Len(recent) = Threshold /\ Len(recent') = Threshold
            /\ \A i \in 1..(Threshold - 1) : recent'[i] = recent[i + 1]
  BY <1>1, Remembered DEF CountsFailures
<1>3. consecutiveFailures \in Nat /\ consecutiveFailures' = consecutiveFailures + 1 /\ Threshold \in Nat
  BY <1>1 DEF CountsFailures, RpcAssumption
<1>4. OpenAtThreshold'
  <2>1. CASE circuitOpen = TRUE
    <3>1. circuitOpen' = TRUE
      BY <1>1, <2>1
    <3>2. consecutiveFailures >= Threshold
      BY <2>1 DEF OpenAtThreshold
    <3>3. consecutiveFailures' >= Threshold
      BY <1>3, <3>2
    <3>4. QED
      BY <3>1, <3>3 DEF OpenAtThreshold
  <2>2. CASE circuitOpen = FALSE /\ consecutiveFailures' >= Threshold
    BY <1>1, <2>2, Zenon DEF OpenAtThreshold
  <2>3. CASE circuitOpen = FALSE /\ ~ (consecutiveFailures' >= Threshold)
    <3>1. circuitOpen' = FALSE
      BY <1>1, <2>3, Zenon
    <3>2. consecutiveFailures' < Threshold
      BY <1>3, <2>3
    <3>3. QED
      BY <3>1, <3>2 DEF OpenAtThreshold
  <2>4. QED
    BY <2>1, <2>2, <2>3, Zenon DEF OpenAtThreshold
<1>5. consecutiveFailures' < Len(recent') => recent'[Len(recent') - consecutiveFailures'] = TRUE
  <2> SUFFICES ASSUME consecutiveFailures' < Len(recent')
               PROVE  recent'[Len(recent') - consecutiveFailures'] = TRUE
    OBVIOUS
  <2> DEFINE i == Len(recent') - consecutiveFailures'
  <2>1. Len(recent) \in Nat /\ Len(recent') \in Nat
    BY <1>2 DEF CountsFailures
  <2>2. CASE Len(recent') = Len(recent) + 1 /\ \A k \in 1..Len(recent) : recent'[k] = recent[k]
    <3>1. i = Len(recent) - consecutiveFailures /\ i \in 1..Len(recent) /\ consecutiveFailures < Len(recent)
      BY <1>3, <2>1, <2>2
    <3>2. recent[i] = TRUE
      BY <3>1 DEF CountsFailures
    <3>3. QED
      BY <2>2, <3>1, <3>2
  <2>3. CASE /\ Len(recent) = Threshold /\ Len(recent') = Threshold
             /\ \A k \in 1..(Threshold - 1) : recent'[k] = recent[k + 1]
    <3>1. /\ i + 1 = Len(recent) - consecutiveFailures /\ i \in 1..(Threshold - 1)
          /\ consecutiveFailures < Len(recent)
      BY <1>3, <2>1, <2>3
    <3>2. recent[i + 1] = TRUE
      BY <3>1 DEF CountsFailures
    <3>3. QED
      BY <2>3, <3>1, <3>2
  <2>4. QED
    BY <1>2, <2>2, <2>3
<1>6. consecutiveFailures' > Len(recent') => Len(recent') = Threshold
  BY <1>2, <1>3 DEF CountsFailures
<1>7. \A i \in 1..Len(recent') : i > Len(recent') - consecutiveFailures' => recent'[i] = FALSE
  <2> SUFFICES ASSUME NEW i \in 1..Len(recent'), i > Len(recent') - consecutiveFailures' PROVE recent'[i] = FALSE
    OBVIOUS
  <2>1. CASE i = Len(recent')
    BY <1>2, <2>1
  <2>2. CASE Len(recent') = Len(recent) + 1 /\ i # Len(recent') /\ \A k \in 1..Len(recent) : recent'[k] = recent[k]
    <3>1. i \in 1..Len(recent) /\ i > Len(recent) - consecutiveFailures /\ recent'[i] = recent[i]
      BY <1>2, <1>3, <2>2 DEF CountsFailures
    <3>2. QED
      BY <3>1 DEF CountsFailures
  <2>3. CASE /\ Len(recent) = Threshold /\ Len(recent') = Threshold /\ i # Len(recent')
             /\ \A k \in 1..(Threshold - 1) : recent'[k] = recent[k + 1]
    <3>1. /\ i + 1 \in 1..Len(recent) /\ i + 1 > Len(recent) - consecutiveFailures /\ recent'[i] = recent[i + 1]
      BY <1>2, <1>3, <2>3 DEF CountsFailures
    <3>2. QED
      BY <3>1 DEF CountsFailures
  <2>4. QED
    BY <1>2, <2>1, <2>2, <2>3
<1>8. QED
  BY <1>2, <1>3, <1>4, <1>5, <1>6, <1>7 DEF CountsFailures

LEMMA NextCounts ==
  ASSUME RpcAssumption, CountsFailures, OpenAtThreshold, [Next]_rpcVars
  PROVE  CountsFailures' /\ OpenAtThreshold'
<1>1. CASE UNCHANGED <<consecutiveFailures, circuitOpen, recent>>
  BY <1>1 DEF CountsFailures, OpenAtThreshold
<1>2. CASE \E c \in Callers : QueryAnswered(c) \/ QueryFailed(c)
  BY <1>2, AnswerCounts, FailureCounts
<1>3. QED
  BY <1>1, <1>2 DEF Next, rpcVars, Tick, Progress, Enter, AcquireSlot, AcquireWait, AcquireWake, Send, Retry,
                     OnceAnswered

(* The breaker is open exactly while the last Threshold answers to queries *)
(* were failures, for any callers that interleave (withRetry).             *)
THEOREM BreakerSound == Spec => []OpenMeansFailures
<1>1. CountsFailures /\ OpenAtThreshold => OpenMeansFailures
  <2> SUFFICES ASSUME CountsFailures, OpenAtThreshold PROVE OpenMeansFailures
    OBVIOUS
  <2>1. ASSUME circuitOpen = TRUE PROVE Len(recent) = Threshold /\ \A i \in 1..Threshold : recent[i] = FALSE
    <3>1. consecutiveFailures >= Threshold
      BY <2>1 DEF OpenAtThreshold
    <3>2. consecutiveFailures \in Nat /\ Threshold \in Nat /\ Len(recent) \in Nat /\ Len(recent) = Threshold
      BY <3>1, RpcAssumption DEF CountsFailures, RpcAssumption
    <3>3. \A i \in 1..Len(recent) : i > Len(recent) - consecutiveFailures
      BY <3>1, <3>2
    <3>4. QED
      BY <3>2, <3>3 DEF CountsFailures
  <2>2. ASSUME circuitOpen = FALSE, Len(recent) = Threshold PROVE \E i \in 1..Threshold : recent[i] = TRUE
    <3>1. consecutiveFailures < Threshold
      BY <2>2 DEF OpenAtThreshold
    <3>2. Len(recent) - consecutiveFailures \in 1..Threshold
      BY <2>2, <3>1, RpcAssumption DEF CountsFailures, RpcAssumption
    <3>3. QED
      BY <2>2, <3>1, <3>2 DEF CountsFailures
  <2>3. QED
    BY <2>1, <2>2, Zenon DEF OpenMeansFailures, OpenAtThreshold
<1>2. QED
  BY <1>1, InitCounts, NextCounts, RpcAssumption, PTL DEF Spec

-----------------------------------------------------------------------------
Places == {"idle", "acquire", "slot", "sent", "backoff"}

(* Each caller's record has its four fields; left is not constrained.      *)
CallsShaped ==
    /\ call = [c \in Callers |-> call[c]]
    /\ \A c \in Callers : \E attempt, left :
          call[c] \in [at : Places, kind : Kinds, attempt : {attempt}, left : {left}]

USE DEF Places, Kinds

LEMMA InitShaped == Init => CallsShaped
<1>1. ASSUME Init PROVE CallsShaped
  <2>1. call = [c \in Callers |-> Idle]
    BY <1>1 DEF Init
  <2>2. Idle \in [at : Places, kind : Kinds, attempt : {0}, left : {0}]
    BY DEF Idle
  <2>3. QED
    BY <2>1, <2>2 DEF CallsShaped
<1>2. QED
  BY <1>1

(* A step of a caller changes its own record only and, unless it begins a  *)
(* call or ends one, not the kind of its call.                             *)
OneMoves(c) ==
    /\ call' = [call EXCEPT ![c] = call'[c]]
    /\ \E attempt, left : call'[c] \in [at : Places, kind : Kinds, attempt : {attempt}, left : {left}]

LEMMA OneMovesShaped == ASSUME CallsShaped, NEW c \in Callers, OneMoves(c)
                        PROVE  CallsShaped' /\ \A d \in Callers \ {c} : call'[d] = call[d]
BY DEF CallsShaped, OneMoves

LEMMA ProgressMoves ==
  ASSUME CallsShaped, NEW c \in Callers, Progress(c)
  PROVE  OneMoves(c) /\ call[c].at # "idle" /\ (call'[c] = Idle \/ call'[c].kind = call[c].kind)
<1>1. PICK a, n : call[c] \in [at : Places, kind : Kinds, attempt : {a}, left : {n}]
  BY DEF CallsShaped
<1>2. call = [d \in Callers |-> call[d]]
  BY DEF CallsShaped
<1>3. CASE AcquireSlot(c) \/ AcquireWake(c)
  <2> DEFINE new == [call[c] EXCEPT !.at = "sent"]
  <2>1. call' = [call EXCEPT ![c] = new] /\ call[c].at # "idle"
    BY <1>3 DEF AcquireSlot, AcquireWake, Send
  <2>2. new \in [at : Places, kind : Kinds, attempt : {a}, left : {n}] /\ new.kind = call[c].kind
    BY <1>1
  <2> HIDE DEF new
  <2>3. call'[c] = new
    BY <1>2, <2>1
  <2>4. QED
    BY <2>1, <2>2, <2>3 DEF OneMoves
<1>4. CASE AcquireWait(c)
  <2> DEFINE left == Window - Head(InWindow)
             new == [call[c] EXCEPT !.at = "slot", !.left = left]
  <2>1. call' = [call EXCEPT ![c] = new] /\ call[c].at # "idle"
    BY <1>4 DEF AcquireWait
  <2> HIDE DEF left
  <2>2. new \in [at : Places, kind : Kinds, attempt : {a}, left : {left}] /\ new.kind = call[c].kind
    BY <1>1
  <2> HIDE DEF new
  <2>3. call'[c] = new
    BY <1>2, <2>1
  <2>4. QED
    BY <2>1, <2>2, <2>3 DEF OneMoves
<1>5. CASE Retry(c)
  <2> DEFINE attempt == call[c].attempt + 1
             new == [call[c] EXCEPT !.at = "acquire", !.attempt = attempt]
  <2>1. call' = [call EXCEPT ![c] = new] /\ call[c].at # "idle"
    BY <1>5 DEF Retry
  <2> HIDE DEF attempt
  <2>2. new \in [at : Places, kind : Kinds, attempt : {attempt}, left : {n}] /\ new.kind = call[c].kind
    BY <1>1
  <2> HIDE DEF new
  <2>3. call'[c] = new
    BY <1>2, <2>1
  <2>4. QED
    BY <2>1, <2>2, <2>3 DEF OneMoves
<1>6. ASSUME call' = [call EXCEPT ![c] = Idle], call[c].at = "sent"
      PROVE  OneMoves(c) /\ call[c].at # "idle" /\ (call'[c] = Idle \/ call'[c].kind = call[c].kind)
  <2>1. Idle \in [at : Places, kind : Kinds, attempt : {0}, left : {0}]
    BY DEF Idle
  <2>2. call'[c] = Idle
    BY <1>2, <1>6
  <2>3. QED
    BY <1>6, <2>1, <2>2 DEF OneMoves
<1>7. CASE QueryAnswered(c) \/ OnceAnswered(c)
  BY <1>6, <1>7 DEF QueryAnswered, OnceAnswered
<1>8. CASE QueryFailed(c)
  <2>1. CASE call' = [call EXCEPT ![c] = Idle]
    BY <1>6, <1>8, <2>1 DEF QueryFailed
  <2>2. CASE call' # [call EXCEPT ![c] = Idle]
    <3> DEFINE left == InitialDelay * 2 ^ (call[c].attempt - 1)
               new == [call[c] EXCEPT !.at = "backoff", !.left = left]
    <3>1. call' = [call EXCEPT ![c] = new] /\ call[c].at # "idle"
      BY <1>8, <2>2 DEF QueryFailed
    <3> HIDE DEF left
    <3>2. new \in [at : Places, kind : Kinds, attempt : {a}, left : {left}] /\ new.kind = call[c].kind
      BY <1>1
    <3> HIDE DEF new
    <3>3. call'[c] = new
      BY <1>2, <3>1
    <3>4. QED
      BY <3>1, <3>2, <3>3 DEF OneMoves
  <2>3. QED
    BY <2>1, <2>2
<1>9. QED
  BY <1>3, <1>4, <1>5, <1>7, <1>8 DEF Progress

LEMMA EnterMoves ==
  ASSUME CallsShaped, NEW c \in Callers, NEW kind \in Kinds, Enter(c, kind)
  PROVE  OneMoves(c) /\ call'[c].kind = kind /\ call'[c].attempt = 1 /\ call'[c].at = "acquire"
<1> DEFINE new == [at |-> "acquire", kind |-> kind, attempt |-> 1, left |-> 0]
<1>1. call' = [call EXCEPT ![c] = new]
  BY DEF Enter
<1>2. new \in [at : Places, kind : Kinds, attempt : {1}, left : {0}]
      /\ new.kind = kind /\ new.attempt = 1 /\ new.at = "acquire"
  OBVIOUS
<1> HIDE DEF new
<1>3. call'[c] = new
  BY <1>1 DEF CallsShaped
<1>4. QED
  BY <1>1, <1>2, <1>3 DEF OneMoves

(* The clock changes no call but for its timer.                            *)
LEMMA TickShaped ==
  ASSUME CallsShaped, Tick
  PROVE  /\ CallsShaped'
         /\ \A c \in Callers : /\ call'[c].at = call[c].at /\ call'[c].kind = call[c].kind
                               /\ call'[c].attempt = call[c].attempt
<1> DEFINE Left(c) == IF call[c].left > 0 THEN call[c].left - 1 ELSE 0
<1>1. call' = [c \in Callers |-> [call[c] EXCEPT !.left = Left(c)]]
  BY DEF Tick
<1> HIDE DEF Left
<1>2. ASSUME NEW c \in Callers
      PROVE  /\ call'[c].at = call[c].at /\ call'[c].kind = call[c].kind /\ call'[c].attempt = call[c].attempt
             /\ \E attempt, left : call'[c] \in [at : Places, kind : Kinds, attempt : {attempt}, left : {left}]
  <2>1. PICK a, n : call[c] \in [at : Places, kind : Kinds, attempt : {a}, left : {n}]
    BY DEF CallsShaped
  <2>2. call'[c] = [call[c] EXCEPT !.left = Left(c)]
    BY <1>1
  <2>3. call'[c] \in [at : Places, kind : Kinds, attempt : {a}, left : {Left(c)}]
    BY <2>1, <2>2
  <2>4. QED
    BY <2>1, <2>2, <2>3
<1>3. QED
  BY <1>1, <1>2 DEF CallsShaped

LEMMA NextShaped == ASSUME CallsShaped, [Next]_rpcVars PROVE CallsShaped'
<1>1. CASE UNCHANGED rpcVars
  BY <1>1 DEF rpcVars, CallsShaped
<1>2. CASE Tick
  BY <1>2, TickShaped
<1>3. CASE \E c \in Callers : Progress(c) \/ \E kind \in Kinds : Enter(c, kind)
  BY <1>3, ProgressMoves, EnterMoves, OneMovesShaped
<1>4. QED
  BY <1>1, <1>2, <1>3 DEF Next

(* An open breaker with no query under way stays open for ever: nothing in *)
(* the code but an answer to a query closes it, and withRetry lets no      *)
(* query in (there is no half-open state).                                 *)
THEOREM NoWayBack == Spec => OpenForGood
<1>1. ASSUME CallsShaped, [Next]_rpcVars, circuitOpen, ~QueriesUnderWay
      PROVE  circuitOpen' /\ ~QueriesUnderWay'
  <2>1. \A c \in Callers : call[c].at # "idle" => call[c].kind # "query"
    BY <1>1 DEF QueriesUnderWay
  <2>2. CASE UNCHANGED rpcVars
    BY <1>1, <2>2 DEF rpcVars, QueriesUnderWay
  <2>3. CASE Tick
    <3>1. \A c \in Callers : call'[c].at = call[c].at /\ call'[c].kind = call[c].kind
      BY <1>1, <2>3, TickShaped
    <3>2. QED
      BY <1>1, <2>1, <2>3, <3>1 DEF Tick, QueriesUnderWay
  <2>4. ASSUME NEW c \in Callers, Progress(c) PROVE circuitOpen' /\ ~QueriesUnderWay'
    <3>1. call[c].at # "idle" /\ call[c].kind # "query"
      BY <1>1, <2>1, <2>4, ProgressMoves
    <3>2. circuitOpen'
      BY <1>1, <2>4, <3>1 DEF Progress, AcquireSlot, AcquireWait, AcquireWake, Send, Retry, QueryAnswered,
                              QueryFailed, OnceAnswered
    <3>3. /\ call'[c] = Idle \/ call'[c].kind = call[c].kind
          /\ \A d \in Callers \ {c} : call'[d] = call[d]
      BY <1>1, <2>4, ProgressMoves, OneMovesShaped
    <3>4. Idle.at = "idle"
      BY DEF Idle
    <3>5. QED
      BY <2>1, <3>1, <3>2, <3>3, <3>4 DEF QueriesUnderWay
  <2>5. ASSUME NEW c \in Callers, NEW kind \in Kinds, Enter(c, kind) PROVE circuitOpen' /\ ~QueriesUnderWay'
    <3>1. kind = "fee" /\ circuitOpen'
      BY <1>1, <2>5 DEF Enter
    <3>2. call'[c].kind = "fee" /\ \A d \in Callers \ {c} : call'[d] = call[d]
      BY <1>1, <2>5, <3>1, EnterMoves, OneMovesShaped
    <3>3. QED
      BY <2>1, <3>1, <3>2 DEF QueriesUnderWay
  <2>6. QED
    BY <1>1, <2>2, <2>3, <2>4, <2>5 DEF Next
<1>2. QED
  BY <1>1, InitShaped, NextShaped, PTL DEF Spec, OpenForGood

-----------------------------------------------------------------------------
(* The rate limiter.                                                       *)

(* Callers whose sleep is over: they will take a slot, free or not.        *)
Ready == {c \in Callers : call[c].at = "slot" /\ call[c].left = 0}

(* The stamps are in the order of time: the older ones come first.         *)
InOrder ==
    /\ stamps \in Seq(0..Window)
    /\ \A i, j \in 1..Len(stamps) : i <= j => stamps[i] >= stamps[j]

(* What has been sent in the last k ticks, and what those who are ready    *)
(* will send, is within the limit and one for each caller and tick.        *)
Room(k) == MaxRequests + k * Cardinality(Callers) - 1
SentInOrder(i) == Len(stamps) - i + 1 + Cardinality(Ready) <= Room(stamps[i] + 1)

LimiterInv ==
    /\ InOrder
    /\ \A i \in 1..Len(stamps) : stamps[i] < Window => SentInOrder(i)

LEMMA RoomGrows ==
  /\ Cardinality(Callers) \in Nat
  /\ \A k \in Nat : Room(k) \in Int /\ Room(k + 1) = Room(k) + Cardinality(Callers)
  /\ \A j, k \in Nat : j <= k => Room(j) <= Room(k)
  /\ Room(0) = MaxRequests - 1
<1>1. PICK n \in Nat : n = Cardinality(Callers)
  BY RpcAssumption, FS_CardinalityType DEF RpcAssumption
<1>2. \A k \in Nat : k * n \in Nat /\ (k + 1) * n = k * n + n
  OBVIOUS
<1>3. \A k \in Nat : Room(k) = MaxRequests + k * n - 1 /\ Room(k + 1) = MaxRequests + (k + 1) * n - 1
  BY <1>1 DEF Room
<1>4. MaxRequests \in Nat
  BY RpcAssumption DEF RpcAssumption
<1>5. ASSUME NEW k \in Nat
      PROVE  Room(k) \in Int /\ Room(k + 1) = Room(k) + n
  <2>1. PICK m \in Nat : m = k * n /\ (k + 1) * n = m + n
    BY <1>2
  <2>2. QED
    BY <1>3, <1>4, <2>1
<1>6. ASSUME NEW j \in Nat, NEW k \in Nat, j <= k PROVE Room(j) <= Room(k)
  <2>1. PICK d \in Nat : k = j + d
    BY <1>6
  <2>2. k * n = j * n + d * n /\ d * n \in Nat /\ j * n \in Nat
    BY <1>2, <2>1
  <2>3. PICK a \in Nat, b \in Nat : j * n = a /\ d * n = b /\ k * n = a + b
    BY <2>2
  <2>4. QED
    BY <1>3, <1>4, <2>3
<1>7. Room(0) = MaxRequests - 1
  BY <1>1, <1>3, <1>4
<1>8. QED
  BY <1>1, <1>5, <1>6, <1>7

LEMMA ReadyBounds ==
  /\ Cardinality(Ready) \in Nat /\ Cardinality(Ready) <= Cardinality(Callers)
  /\ \A c \in Callers : c \notin Ready => Cardinality(Ready) + 1 <= Cardinality(Callers)
<1>1. IsFiniteSet(Callers) /\ Ready \in SUBSET Callers
  BY RpcAssumption DEF RpcAssumption, Ready
<1>2. /\ IsFiniteSet(Ready) /\ Cardinality(Ready) <= Cardinality(Callers)
      /\ Cardinality(Callers) = Cardinality(Ready) => Callers = Ready
  BY <1>1, FS_Subset
<1>3. Cardinality(Ready) \in Nat /\ Cardinality(Callers) \in Nat
  BY <1>1, <1>2, FS_CardinalityType
<1>4. ASSUME NEW c \in Callers, c \notin Ready
      PROVE  Cardinality(Ready) + 1 <= Cardinality(Callers)
  <2>1. Cardinality(Callers) # Cardinality(Ready)
    BY <1>2, <1>4
  <2>2. QED
    BY <1>2, <1>3, <2>1
<1>5. QED
  BY <1>2, <1>3, <1>4

LEMMA StampTypes ==
  ASSUME InOrder
  PROVE  /\ Window \in Nat \ {0} /\ Len(stamps) \in Nat /\ DOMAIN stamps = 1..Len(stamps)
         /\ \A i \in 1..Len(stamps) : stamps[i] \in Nat /\ stamps[i] \in 0..Window
<1>1. Window \in Nat \ {0}
  BY RpcAssumption DEF RpcAssumption
<1>2. stamps \in Seq(0..Window)
  BY DEF InOrder
<1>3. Len(stamps) \in Nat /\ DOMAIN stamps = 1..Len(stamps)
  BY <1>2, LenProperties
<1>4. \A i \in 1..Len(stamps) : stamps[i] \in 0..Window
  BY <1>2, ElementOfSeq
<1>5. QED
  BY <1>1, <1>3, <1>4

(* The filter drops the first stamps.                                      *)
LEMMA Filtered ==
  ASSUME InOrder
  PROVE  \E m \in 0..Len(stamps) :
           /\ InWindow \in Seq(0..Window) /\ Len(InWindow) = Len(stamps) - m
           /\ \A j \in 1..(Len(stamps) - m) : InWindow[j] = stamps[m + j] /\ InWindow[j] < Window
<1> DEFINE Old == {i \in DOMAIN stamps : stamps[i] >= Window}
           m == Cardinality(Old)
<1>1. /\ Window \in Nat \ {0} /\ Len(stamps) \in Nat /\ DOMAIN stamps = 1..Len(stamps)
      /\ \A i \in 1..Len(stamps) : stamps[i] \in Nat /\ stamps[i] \in 0..Window
  BY StampTypes
<1>2. Old \in SUBSET (1..Len(stamps))
  BY <1>1
<1>3. IsFiniteSet(1..Len(stamps)) /\ Cardinality(1..Len(stamps)) = Len(stamps)
  BY <1>1, FS_Interval
<1>4. IsFiniteSet(Old) /\ m \in Nat /\ m <= Len(stamps)
  BY <1>2, <1>3, FS_Subset, FS_CardinalityType
<1>5. ASSUME NEW i \in Old PROVE i \in 1..m
  <2>1. i \in 1..Len(stamps) /\ i \in Nat
    BY <1>1, <1>2
  <2>2. ASSUME NEW j \in 1..i PROVE j \in Old
    <3>1. j \in 1..Len(stamps) /\ j <= i
      BY <1>1, <2>1
    <3>2. stamps[j] >= stamps[i] /\ stamps[i] >= Window
      BY <2>1, <3>1 DEF InOrder
    <3>3. stamps[j] >= Window
      BY <1>1, <2>1, <3>1, <3>2
    <3>4. QED
      BY <1>1, <3>1, <3>3
  <2>3. (1..i) \in SUBSET Old
    BY <2>2
  <2>4. Cardinality(1..i) = i
    BY <2>1, FS_Interval
  <2>5. Cardinality(1..i) <= Cardinality(Old)
    BY <1>4, <2>3, FS_Subset
  <2>6. QED
    BY <1>4, <2>1, <2>4, <2>5
<1>6. Old = 1..m
  <2>1. Old \in SUBSET (1..m)
    BY <1>5
  <2>2. IsFiniteSet(1..m) /\ Cardinality(1..m) = m
    BY <1>4, FS_Interval
  <2>3. QED
    BY <2>1, <2>2, FS_Subset
<1>7. InWindow = SubSeq(stamps, 1 + m, Len(stamps))
  BY DEF InWindow
<1> HIDE DEF m
<1>8. /\ InWindow \in Seq(0..Window) /\ Len(InWindow) = Len(stamps) - m
      /\ \A j \in 1..(Len(stamps) - m) : InWindow[j] = stamps[m + j]
  <2>1. 1 + m \in Int /\ Len(stamps) \in Int /\ \A i \in (1 + m)..Len(stamps) : stamps[i] \in 0..Window
    BY <1>1, <1>4
  <2>2. /\ InWindow \in Seq(0..Window)
        /\ Len(InWindow) = IF 1 + m <= Len(stamps) THEN Len(stamps) - (1 + m) + 1 ELSE 0
        /\ \A j \in 1..(Len(stamps) - (1 + m) + 1) : InWindow[j] = stamps[1 + m + j - 1]
    BY <1>7, <2>1, SubSeqProperties
  <2>3. Len(stamps) - (1 + m) + 1 = Len(stamps) - m
    BY <1>1, <1>4
  <2>4. Len(InWindow) = Len(stamps) - m
    <3>1. PICK n \in Nat : n = Len(stamps)
      BY <1>1
    <3>2. m \in Nat /\ m <= n /\ Len(InWindow) = IF 1 + m <= n THEN n - (1 + m) + 1 ELSE 0
      BY <1>4, <2>2, <3>1
    <3>3. QED
      BY <3>1, <3>2
  <2>5. ASSUME NEW j \in 1..(Len(stamps) - m) PROVE InWindow[j] = stamps[m + j]
    <3>1. 1 + m + j - 1 = m + j
      BY <1>4
    <3>2. QED
      BY <2>2, <2>3, <3>1
  <2>6. QED
    BY <2>2, <2>4, <2>5
<1>9. ASSUME NEW j \in 1..(Len(stamps) - m) PROVE stamps[m + j] < Window
  <2>1. m + j \in 1..Len(stamps) /\ m + j \notin 1..m
    BY <1>1, <1>4
  <2>2. m + j \notin Old
    BY <1>6, <2>1
  <2>3. QED
    BY <1>1, <2>1, <2>2
<1>10. m \in 0..Len(stamps)
  BY <1>1, <1>4
<1>11. QED
  BY <1>8, <1>9, <1>10

LEMMA ReadyAfter ==
  ASSUME CallsShaped, NEW c \in Callers, OneMoves(c), call'[c].at = "slot" => call'[c].left # 0
  PROVE  Ready' = Ready \ {c}
BY OneMovesShaped DEF Ready

(* Only Tick lets a sleep run out; a caller never waits for nothing.       *)
LEMMA ProgressReady ==
  ASSUME CallsShaped, InOrder, NEW c \in Callers, Progress(c)
  PROVE  Ready' = Ready \ {c}
<1>1. PICK a, n : call[c] \in [at : Places, kind : Kinds, attempt : {a}, left : {n}]
  BY DEF CallsShaped
<1>2. call = [d \in Callers |-> call[d]] /\ OneMoves(c)
  BY ProgressMoves DEF CallsShaped
<1>3. ASSUME AcquireWait(c) PROVE call'[c].left # 0
  <2> DEFINE h == Head(InWindow)
             left == Window - h
             new == [call[c] EXCEPT !.at = "slot", !.left = left]
  <2>1. call' = [call EXCEPT ![c] = new] /\ Len(InWindow) >= MaxRequests
    BY <1>3 DEF AcquireWait
  <2>2. h \in Nat /\ h < Window /\ Window \in Nat
    <3>1. PICK m \in 0..Len(stamps) :
             /\ InWindow \in Seq(0..Window) /\ Len(InWindow) = Len(stamps) - m
             /\ \A j \in 1..(Len(stamps) - m) : InWindow[j] = stamps[m + j] /\ InWindow[j] < Window
      BY Filtered
    <3>2. Len(InWindow) \in Nat /\ Len(InWindow) >= 1
      BY <2>1, <3>1, LenProperties, RpcAssumption DEF RpcAssumption
    <3>3. h = InWindow[1] /\ InWindow[1] < Window
      BY <3>1, <3>2
    <3>4. InWindow[1] \in 0..Window /\ Window \in Nat
      BY <3>1, <3>2, ElementOfSeq, RpcAssumption DEF RpcAssumption
    <3>5. QED
      BY <3>3, <3>4
  <2>3. left # 0
    BY <2>2
  <2> HIDE DEF left
  <2>4. new.left = left
    BY <1>1
  <2> HIDE DEF new
  <2>5. call'[c] = new
    BY <1>2, <2>1
  <2>6. QED
    BY <2>3, <2>4, <2>5
<1>4. ASSUME ~AcquireWait(c) PROVE call'[c].at # "slot"
  <2>1. CASE AcquireSlot(c) \/ AcquireWake(c)
    <3>1. call'[c].at = "sent"
      BY <1>1, <1>2, <2>1 DEF AcquireSlot, AcquireWake, Send
    <3>2. QED
      BY <3>1
  <2>2. CASE Retry(c)
    <3> DEFINE attempt == call[c].attempt + 1
    <3>1. call' = [call EXCEPT ![c] = [call[c] EXCEPT !.at = "acquire", !.attempt = attempt]]
      BY <2>2 DEF Retry
    <3> HIDE DEF attempt
    <3>2. call'[c].at = "acquire"
      BY <1>1, <1>2, <3>1
    <3>3. QED
      BY <3>2
  <2>3. ASSUME call' = [call EXCEPT ![c] = Idle] PROVE call'[c].at # "slot"
    BY <1>2, <2>3 DEF Idle
  <2>4. CASE QueryAnswered(c) \/ OnceAnswered(c)
    BY <2>3, <2>4 DEF QueryAnswered, OnceAnswered
  <2>5. CASE QueryFailed(c)
    <3> DEFINE left == InitialDelay * 2 ^ (call[c].attempt - 1)
    <3>1. CASE call' = [call EXCEPT ![c] = [call[c] EXCEPT !.at = "backoff", !.left = left]]
      <4> HIDE DEF left
      <4>1. call'[c].at = "backoff"
        BY <1>1, <1>2, <3>1
      <4>2. QED
        BY <4>1
    <3>2. QED
      BY <2>3, <2>5, <3>1 DEF QueryFailed
  <2>6. QED
    BY <1>4, <2>1, <2>2, <2>4, <2>5 DEF Progress
<1>5. QED
  BY <1>2, <1>3, <1>4, ReadyAfter

LEMMA EnterReady ==
  ASSUME CallsShaped, NEW c \in Callers, NEW kind \in Kinds, Enter(c, kind)
  PROVE  Ready' = Ready
<1>1. OneMoves(c) /\ call'[c].at = "acquire" /\ call[c].at = "idle"
  BY EnterMoves DEF Enter
<1>2. Ready' = Ready \ {c} /\ c \notin Ready
  BY <1>1, ReadyAfter DEF Ready
<1>3. QED
  BY <1>2

(* A request that goes out adds its stamp to those in the window.          *)
LEMMA Stamped ==
  ASSUME InOrder, NEW c \in Callers, Send(c)
  PROVE  /\ InOrder'
         /\ \E m \in 0..Len(stamps) :
              /\ Len(stamps') = Len(InWindow) + 1 /\ Len(InWindow) = Len(stamps) - m
              /\ stamps'[Len(InWindow) + 1] = 0
              /\ \A j \in 1..Len(InWindow) : stamps'[j] = stamps[m + j]
<1>1. /\ Window \in Nat \ {0} /\ Len(stamps) \in Nat
      /\ \A i \in 1..Len(stamps) : stamps[i] \in Nat /\ stamps[i] \in 0..Window
  BY StampTypes
<1>2. PICK m \in 0..Len(stamps) :
         /\ InWindow \in Seq(0..Window) /\ Len(InWindow) = Len(stamps) - m
         /\ \A j \in 1..(Len(stamps) - m) : InWindow[j] = stamps[m + j] /\ InWindow[j] < Window
  BY Filtered
<1>3. stamps' = Append(InWindow, 0) /\ 0 \in 0..Window
  BY <1>1 DEF Send
<1>4. PICK n \in Nat : n = Len(InWindow)
  BY <1>2, LenProperties
<1>5. /\ stamps' \in Seq(0..Window) /\ Len(stamps') = n + 1 /\ stamps'[n + 1] = 0
      /\ \A j \in 1..n : stamps'[j] = InWindow[j]
  BY <1>2, <1>3, <1>4
<1>6. \A j \in 1..n : stamps'[j] = stamps[m + j] /\ m + j \in 1..Len(stamps)
  BY <1>1, <1>2, <1>4, <1>5
<1>7. ASSUME NEW i \in 1..(n + 1), NEW j \in 1..(n + 1), i <= j PROVE stamps'[i] >= stamps'[j]
  <2>1. CASE j = n + 1
    <3>1. stamps'[i] \in 0..Window /\ stamps'[j] = 0
      BY <1>5, <2>1, ElementOfSeq
    <3>2. QED
      BY <1>1, <3>1
  <2>2. CASE j # n + 1
    <3>1. i \in 1..n /\ j \in 1..n /\ m + i <= m + j
      BY <1>1, <1>4, <1>7, <2>2
    <3>2. QED
      BY <1>6, <3>1 DEF InOrder
  <2>3. QED
    BY <2>1, <2>2
<1>8. InOrder'
  BY <1>5, <1>7 DEF InOrder
<1>9. QED
  BY <1>2, <1>4, <1>5, <1>6, <1>8

LEMMA SendKeeps ==
  ASSUME CallsShaped, LimiterInv, NEW c \in Callers, AcquireSlot(c) \/ AcquireWake(c)
  PROVE  LimiterInv'
<1> DEFINE n == Len(InWindow)
           r == Cardinality(Ready)
<1>1. /\ Window \in Nat \ {0} /\ Len(stamps) \in Nat
      /\ \A i \in 1..Len(stamps) : stamps[i] \in Nat /\ stamps[i] \in 0..Window
  BY StampTypes DEF LimiterInv
<1>2. InOrder /\ Send(c) /\ Progress(c)
  BY DEF LimiterInv, AcquireSlot, AcquireWake, Progress
<1>3. PICK m \in 0..Len(stamps) :
         /\ Len(stamps') = n + 1 /\ n = Len(stamps) - m /\ stamps'[n + 1] = 0
         /\ \A j \in 1..n : stamps'[j] = stamps[m + j]
  BY <1>2, Stamped
<1>4. n \in Nat /\ r \in Nat /\ Cardinality(Callers) \in Nat /\ r <= Cardinality(Callers)
  BY <1>1, <1>3, ReadyBounds, RoomGrows
<1>5. Ready' = Ready \ {c} /\ IsFiniteSet(Ready)
  <2>1. IsFiniteSet(Callers) /\ Ready \in SUBSET Callers
    BY RpcAssumption DEF RpcAssumption, Ready
  <2>2. QED
    BY <1>2, <2>1, ProgressReady, FS_Subset
<1>6. Room(1) = MaxRequests + Cardinality(Callers) - 1 /\ MaxRequests \in Nat \ {0}
  <2>1. Room(0 + 1) = Room(0) + Cardinality(Callers) /\ Room(0) = MaxRequests - 1
    BY RoomGrows
  <2>2. QED
    BY <1>4, <2>1, RpcAssumption DEF RpcAssumption
<1>7. ASSUME NEW j \in 1..(n + 1), stamps'[j] < Window
      PROVE  (n + 1) - j + 1 + Cardinality(Ready') <= Room(stamps'[j] + 1)
  <2>1. stamps'[j] \in Nat
    <3>1. CASE j = n + 1
      BY <1>3, <3>1
    <3>2. CASE j # n + 1
      <4>1. j \in 1..n /\ m + j \in 1..Len(stamps)
        BY <1>1, <1>3, <1>4, <3>2
      <4>2. QED
        BY <1>1, <1>3, <4>1
    <3>3. QED
      BY <3>1, <3>2
  <2>2. Room(stamps'[j] + 1) \in Int /\ Room(1) <= Room(stamps'[j] + 1)
    <3>1. PICK k \in Nat : k = stamps'[j] + 1 /\ 1 <= k
      BY <2>1
    <3>2. Room(k) \in Int /\ Room(1) <= Room(k)
      BY <3>1, RoomGrows
    <3>3. QED
      BY <3>1, <3>2
  <2>3. CASE AcquireSlot(c)
    <3>1. c \notin Ready /\ n < MaxRequests
      BY <2>3 DEF AcquireSlot, Ready
    <3>2. Cardinality(Ready') = r /\ r + 1 <= Cardinality(Callers)
      BY <1>5, <3>1, ReadyBounds, FS_RemoveElement
    <3>3. (n + 1) - j + 1 + r <= MaxRequests + Cardinality(Callers) - 1
      BY <1>4, <1>6, <3>1, <3>2
    <3>4. QED
      BY <1>4, <1>6, <2>2, <3>2, <3>3
  <2>4. CASE AcquireWake(c)
    <3>1. c \in Ready
      BY <2>4 DEF AcquireWake, Ready
    <3>2. Cardinality(Ready') = r - 1
      BY <1>5, <3>1, FS_RemoveElement
    <3>3. CASE j = n + 1
      BY <1>4, <1>6, <2>2, <3>2, <3>3
    <3>4. CASE j # n + 1
      <4>1. j \in 1..n /\ m + j \in 1..Len(stamps) /\ stamps'[j] = stamps[m + j]
        BY <1>1, <1>3, <1>4, <3>4
      <4>2. Len(stamps) - (m + j) + 1 + r <= Room(stamps[m + j] + 1)
        BY <1>7, <4>1 DEF LimiterInv, SentInOrder
      <4>3. (n + 1) - j + 1 + (r - 1) = Len(stamps) - (m + j) + 1 + r
        BY <1>1, <1>3, <1>4
      <4>4. QED
        BY <3>2, <4>1, <4>2, <4>3
    <3>5. QED
      BY <3>3, <3>4
  <2>5. QED
    BY <2>3, <2>4
<1>8. InOrder' /\ Len(stamps') = n + 1
  BY <1>2, <1>3, Stamped
<1>9. QED
  BY <1>7, <1>8 DEF LimiterInv, SentInOrder

LEMMA WaitKeeps ==
  ASSUME CallsShaped, LimiterInv, NEW c \in Callers, AcquireWait(c)
  PROVE  LimiterInv'
<1>1. /\ Window \in Nat \ {0} /\ Len(stamps) \in Nat
      /\ \A i \in 1..Len(stamps) : stamps[i] \in Nat /\ stamps[i] \in 0..Window
  BY StampTypes DEF LimiterInv
<1>2. InOrder /\ Progress(c) /\ stamps' = InWindow
  BY DEF LimiterInv, AcquireWait, Progress
<1>3. Ready' = Ready
  <2>1. Ready' = Ready \ {c} /\ c \notin Ready
    BY <1>2, ProgressReady DEF Ready, AcquireWait
  <2>2. QED
    BY <2>1
<1>4. PICK m \in 0..Len(stamps) :
         /\ stamps' \in Seq(0..Window) /\ Len(stamps') = Len(stamps) - m
         /\ \A j \in 1..(Len(stamps) - m) : stamps'[j] = stamps[m + j]
  BY <1>2, Filtered
<1>5. PICK n \in Nat : n = Len(stamps) - m /\ n = Len(stamps')
  <2>1. Len(stamps') \in Nat
    BY <1>4, LenProperties
  <2>2. QED
    BY <1>4, <2>1
<1>6. ASSUME NEW j \in 1..n PROVE stamps'[j] = stamps[m + j] /\ m + j \in 1..Len(stamps)
  BY <1>1, <1>4, <1>5
<1>7. ASSUME NEW i \in 1..n, NEW j \in 1..n, i <= j PROVE stamps'[i] >= stamps'[j]
  <2>1. m + i <= m + j
    BY <1>4, <1>7
  <2>2. QED
    BY <1>2, <1>6, <2>1 DEF InOrder
<1>8. ASSUME NEW j \in 1..n, stamps'[j] < Window
      PROVE  n - j + 1 + Cardinality(Ready) <= Room(stamps'[j] + 1)
  <2>1. Len(stamps) - (m + j) + 1 + Cardinality(Ready) <= Room(stamps[m + j] + 1)
    BY <1>6, <1>8 DEF LimiterInv, SentInOrder
  <2>2. Len(stamps) - (m + j) + 1 = n - j + 1
    BY <1>1, <1>4, <1>5
  <2>3. QED
    BY <1>6, <2>1, <2>2
<1>9. InOrder'
  BY <1>4, <1>5, <1>7 DEF InOrder
<1>10. QED
  BY <1>3, <1>5, <1>8, <1>9 DEF LimiterInv, SentInOrder

LEMMA TickKeeps ==
  ASSUME LimiterInv, Tick
  PROVE  LimiterInv'
<1> DEFINE n == Len(stamps)
<1>1. /\ Window \in Nat \ {0} /\ n \in Nat /\ DOMAIN stamps = 1..n
      /\ \A i \in 1..n : stamps[i] \in Nat /\ stamps[i] \in 0..Window
  BY StampTypes DEF LimiterInv
<1>2. stamps' = [i \in 1..n |-> IF stamps[i] < Window THEN stamps[i] + 1 ELSE Window]
  BY <1>1 DEF Tick
<1> DEFINE Aged(i) == IF stamps[i] < Window THEN stamps[i] + 1 ELSE Window
<1>3. \A i \in 1..n : Aged(i) \in 0..Window
  BY <1>1
<1>4. stamps' \in Seq(0..Window) /\ Len(stamps') = n
  <2> HIDE DEF n
  <2>1. stamps' = [i \in 1..n |-> Aged(i)]
    BY <1>2
  <2> HIDE DEF Aged
  <2>2. stamps' \in [1..n -> 0..Window]
    BY <1>3, <2>1
  <2>3. QED
    BY <1>1, <2>2
<1>5. ASSUME NEW i \in 1..n, NEW j \in 1..n, i <= j PROVE stamps'[i] >= stamps'[j]
  <2>1. stamps[i] >= stamps[j]
    BY <1>5 DEF LimiterInv, InOrder
  <2>2. QED
    BY <1>1, <1>2, <2>1
<1>6. ASSUME NEW i \in 1..n, stamps'[i] < Window
      PROVE  n - i + 1 + Cardinality(Ready') <= Room(stamps'[i] + 1)
  <2>1. PICK k \in Nat : k = stamps[i] + 1 /\ stamps'[i] = k /\ stamps[i] < Window
    BY <1>1, <1>2, <1>6
  <2>2. n - i + 1 + Cardinality(Ready) <= Room(k)
    BY <2>1 DEF LimiterInv, SentInOrder
  <2>3. Room(k) \in Int /\ Room(k + 1) = Room(k) + Cardinality(Callers) /\ Cardinality(Callers) \in Nat
    BY RoomGrows
  <2>4. Cardinality(Ready) \in Nat /\ Cardinality(Ready') \in Nat /\ Cardinality(Ready') <= Cardinality(Callers)
    <3>1. Ready' \in SUBSET Callers /\ IsFiniteSet(Callers)
      BY RpcAssumption DEF Ready, RpcAssumption
    <3>2. QED
      BY <3>1, ReadyBounds, RoomGrows, FS_Subset, FS_CardinalityType
  <2>5. n - i + 1 + Cardinality(Ready') <= Room(k + 1)
    BY <1>1, <2>2, <2>3, <2>4
  <2>6. QED
    BY <2>1, <2>5
<1>7. InOrder'
  BY <1>4, <1>5 DEF InOrder
<1>8. QED
  BY <1>4, <1>6, <1>7 DEF LimiterInv, SentInOrder

LEMMA NextLimited == ASSUME CallsShaped, LimiterInv, [Next]_rpcVars PROVE LimiterInv'
<1>1. ASSUME stamps' = stamps, Cardinality(Ready') <= Cardinality(Ready), Cardinality(Ready') \in Nat PROVE LimiterInv'
  <2>1. InOrder'
    BY <1>1 DEF InOrder, LimiterInv
  <2>2. ASSUME NEW i \in 1..Len(stamps), stamps[i] < Window
        PROVE  Len(stamps) - i + 1 + Cardinality(Ready') <= Room(stamps[i] + 1)
    <3>1. Len(stamps) \in Nat /\ stamps[i] + 1 \in Nat
      BY StampTypes DEF LimiterInv
    <3>2. Room(stamps[i] + 1) \in Int /\ Cardinality(Ready) \in Nat
      BY <3>1, RoomGrows, ReadyBounds
    <3>3. Len(stamps) - i + 1 + Cardinality(Ready) <= Room(stamps[i] + 1)
      BY <2>2 DEF LimiterInv, SentInOrder
    <3>4. QED
      BY <1>1, <3>1, <3>2, <3>3
  <2>3. QED
    BY <1>1, <2>1, <2>2 DEF LimiterInv, SentInOrder
<1>2. IsFiniteSet(Ready) /\ Cardinality(Ready) \in Nat
  <2>1. IsFiniteSet(Callers) /\ Ready \in SUBSET Callers
    BY RpcAssumption DEF RpcAssumption, Ready
  <2>2. QED
    BY <2>1, ReadyBounds, FS_Subset
<1>3. CASE UNCHANGED rpcVars
  <2>1. stamps' = stamps /\ Ready' = Ready
    BY <1>3 DEF rpcVars, Ready
  <2>2. QED
    BY <1>1, <1>2, <2>1
<1>4. CASE Tick
  BY <1>4, TickKeeps
<1>5. ASSUME NEW c \in Callers, Progress(c) PROVE LimiterInv'
  <2>1. CASE AcquireSlot(c) \/ AcquireWake(c)
    BY <2>1, SendKeeps
  <2>2. CASE AcquireWait(c)
    BY <2>2, WaitKeeps
  <2>3. CASE Retry(c) \/ QueryAnswered(c) \/ QueryFailed(c) \/ OnceAnswered(c)
    <3>1. stamps' = stamps
      BY <2>3 DEF Retry, QueryAnswered, QueryFailed, OnceAnswered
    <3>2. Ready' = Ready \ {c}
      BY <1>5, ProgressReady DEF LimiterInv
    <3>3. Cardinality(Ready') <= Cardinality(Ready) /\ Cardinality(Ready') \in Nat
      BY <1>2, <3>2, FS_Subset, FS_CardinalityType
    <3>4. QED
      BY <1>1, <3>1, <3>3
  <2>4. QED
    BY <1>5, <2>1, <2>2, <2>3 DEF Progress
<1>6. ASSUME NEW c \in Callers, NEW kind \in Kinds, Enter(c, kind) PROVE LimiterInv'
  <2>1. stamps' = stamps /\ Ready' = Ready
    BY <1>6, EnterReady DEF Enter
  <2>2. QED
    BY <1>1, <1>2, <2>1
<1>7. QED
  BY <1>3, <1>4, <1>5, <1>6 DEF Next

LEMMA LimiterBounded == ASSUME LimiterInv PROVE WindowOverrun
<1>1. Window \in Nat \ {0} /\ Len(stamps) \in Nat /\ InOrder
      /\ \A i \in 1..Len(stamps) : stamps[i] \in Nat
  BY StampTypes DEF LimiterInv
<1>2. PICK m \in 0..Len(stamps) :
         /\ InWindow \in Seq(0..Window) /\ Len(InWindow) = Len(stamps) - m
         /\ \A j \in 1..(Len(stamps) - m) : InWindow[j] = stamps[m + j] /\ InWindow[j] < Window
  BY <1>1, Filtered
<1>3. PICK n \in Nat : n = Len(InWindow) /\ n = Len(stamps) - m
  <2>1. Len(InWindow) \in Nat
    BY <1>2, LenProperties
  <2>2. QED
    BY <1>2, <2>1
<1>4. Room(Window) = MaxRequests + Window * Cardinality(Callers) - 1 /\ Room(Window) \in Int
  BY <1>1, RoomGrows DEF Room
<1>5. n <= Room(Window)
  <2>1. CASE n = 0
    <3>1. Room(0) <= Room(Window) /\ Room(0) = MaxRequests - 1 /\ MaxRequests >= 1 /\ MaxRequests \in Nat
      BY <1>1, RoomGrows, RpcAssumption DEF RpcAssumption
    <3>2. QED
      BY <1>4, <2>1, <3>1
  <2>2. CASE n # 0
    <3>1. m + 1 \in 1..Len(stamps) /\ 1 \in 1..(Len(stamps) - m)
      BY <1>1, <1>2, <1>3, <2>2
    <3>2. PICK k \in Nat : k = stamps[m + 1] /\ k + 1 <= Window
      BY <1>1, <1>2, <3>1
    <3>3. Len(stamps) - (m + 1) + 1 + Cardinality(Ready) <= Room(k + 1)
      BY <1>1, <3>1, <3>2 DEF LimiterInv, SentInOrder
    <3>4. Room(k + 1) \in Int /\ Room(k + 1) <= Room(Window) /\ Cardinality(Ready) \in Nat
      <4>1. PICK l \in Nat : l = k + 1 /\ l <= Window
        BY <3>2
      <4>2. Room(l) \in Int /\ Room(l) <= Room(Window)
        BY <1>1, <4>1, RoomGrows
      <4>3. QED
        BY <4>1, <4>2, ReadyBounds
    <3>5. QED
      BY <1>1, <1>2, <1>3, <1>4, <3>3, <3>4
  <2>3. QED
    BY <2>1, <2>2
<1>6. PICK w \in Int : w = Window * Cardinality(Callers)
  BY <1>1, RoomGrows
<1>7. MaxRequests \in Nat
  BY RpcAssumption DEF RpcAssumption
<1>8. n < MaxRequests + w
  BY <1>4, <1>5, <1>6, <1>7
<1>9. QED
  BY <1>3, <1>6, <1>8 DEF WindowOverrun

-----------------------------------------------------------------------------
(* Requests past an open breaker.                                          *)

(* The requests a call can still send.                                     *)
Remaining(r) ==
    IF r.at = "idle" \/ r.kind # "query" THEN 0
    ELSE IF r.at \in {"acquire", "slot"} THEN MaxRetries - r.attempt + 1 ELSE MaxRetries - r.attempt

Attempts(r) ==
    /\ r.at # "idle" => r.attempt \in 1..MaxRetries
    /\ r.at = "backoff" => r.attempt < MaxRetries

(* What a caller has sent since the breaker opened and may still send.     *)
Late(c) == late[c] + Remaining(call[c])

LateInv ==
    /\ late \in [Callers -> Nat] /\ circuitOpen \in BOOLEAN
    /\ \A c \in Callers : Attempts(call[c]) /\ Late(c) <= MaxRetries
    /\ circuitOpen => \E c \in Callers : Late(c) < MaxRetries
    /\ ~circuitOpen => \A c \in Callers : late[c] = 0

LEMMA RemainingBounds ==
  ASSUME NEW r, Attempts(r)
  PROVE  Remaining(r) \in Nat /\ Remaining(r) <= MaxRetries
BY RpcAssumption DEF Attempts, Remaining, RpcAssumption

(* A step that adds to nobody's requests, and leaves the breaker alone.    *)
LEMMA NoneAdded ==
  ASSUME LateInv, circuitOpen' = circuitOpen, late' \in [Callers -> Nat],
         ~circuitOpen => late' = late,
         \A c \in Callers : Attempts(call'[c]) /\ late'[c] + Remaining(call'[c]) <= Late(c)
  PROVE  LateInv'
<1>1. ASSUME NEW c \in Callers
      PROVE  late[c] \in Nat /\ late'[c] \in Nat /\ Remaining(call[c]) \in Nat /\ Remaining(call'[c]) \in Nat
  BY RemainingBounds DEF LateInv
<1>2. MaxRetries \in Nat
  BY RpcAssumption DEF RpcAssumption
<1>3. ASSUME NEW c \in Callers PROVE late'[c] + Remaining(call'[c]) <= MaxRetries
  BY <1>1, <1>2 DEF LateInv, Late
<1>4. ASSUME circuitOpen PROVE \E c \in Callers : late'[c] + Remaining(call'[c]) < MaxRetries
  <2>1. PICK c \in Callers : Late(c) < MaxRetries
    BY <1>4 DEF LateInv
  <2>2. late'[c] + Remaining(call'[c]) < MaxRetries
    BY <1>1, <1>2, <2>1 DEF Late
  <2>3. QED
    BY <2>2
<1>5. ASSUME ~circuitOpen PROVE \A c \in Callers : late'[c] = 0
  BY <1>5 DEF LateInv
<1>6. QED
  BY <1>3, <1>4, <1>5 DEF LateInv, Late

LEMMA CallerAdds ==
  ASSUME CallsShaped, LateInv, NEW c \in Callers, OneMoves(c), circuitOpen' = circuitOpen,
         late' \in [Callers -> Nat], ~circuitOpen => late' = late,
         \A d \in Callers \ {c} : late'[d] = late[d],
         Attempts(call'[c]), late'[c] + Remaining(call'[c]) <= Late(c)
  PROVE  LateInv'
<1>1. ASSUME NEW d \in Callers PROVE Attempts(call'[d]) /\ late'[d] + Remaining(call'[d]) <= Late(d)
  <2>1. CASE d = c
    BY <2>1
  <2>2. CASE d # c
    <3>1. call'[d] = call[d] /\ late'[d] = late[d] /\ Attempts(call[d])
      BY <2>2, OneMovesShaped DEF LateInv
    <3>2. late[d] \in Nat /\ Remaining(call[d]) \in Nat
      BY <3>1, RemainingBounds DEF LateInv
    <3>3. QED
      BY <3>1, <3>2 DEF Late
  <2>3. QED
    BY <2>1, <2>2
<1>2. QED
  BY <1>1, NoneAdded

LEMMA SendLate ==
  ASSUME CallsShaped, LateInv, NEW c \in Callers, AcquireSlot(c) \/ AcquireWake(c)
  PROVE  LateInv'
<1>1. PICK a, n : call[c] \in [at : Places, kind : Kinds, attempt : {a}, left : {n}]
  BY DEF CallsShaped
<1>2. call = [d \in Callers |-> call[d]] /\ OneMoves(c)
  BY ProgressMoves DEF CallsShaped, Progress
<1>3. call'[c].at = "sent" /\ call'[c].kind = call[c].kind /\ call'[c].attempt = call[c].attempt
  BY <1>1, <1>2 DEF AcquireSlot, AcquireWake, Send
<1>4. call[c].at \in {"acquire", "slot"} /\ circuitOpen' = circuitOpen
      /\ late' = IF circuitOpen /\ call[c].kind = "query" THEN [late EXCEPT ![c] = late[c] + 1] ELSE late
  BY DEF AcquireSlot, AcquireWake, Send
<1>5. late \in [Callers -> Nat] /\ Attempts(call[c]) /\ call[c].attempt \in 1..MaxRetries /\ MaxRetries \in Nat
  BY <1>4, RpcAssumption DEF LateInv, Attempts, RpcAssumption
<1>6. Attempts(call'[c])
  BY <1>3, <1>5 DEF Attempts
<1>7. /\ late' \in [Callers -> Nat] /\ (~circuitOpen => late' = late)
      /\ \A d \in Callers \ {c} : late'[d] = late[d]
  BY <1>4, <1>5
<1>8. CASE call[c].kind = "query"
  <2>1. Remaining(call[c]) = MaxRetries - call[c].attempt + 1 /\ Remaining(call'[c]) = MaxRetries - call[c].attempt
    BY <1>3, <1>4, <1>8 DEF Remaining
  <2>2. late[c] \in Nat /\ late'[c] \in Nat /\ late'[c] <= late[c] + 1
    BY <1>4, <1>5
  <2>3. late'[c] + Remaining(call'[c]) <= Late(c)
    BY <1>5, <2>1, <2>2 DEF Late
  <2>4. QED
    BY <1>2, <1>4, <1>6, <1>7, <2>3, CallerAdds
<1>9. CASE call[c].kind # "query"
  <2>1. Remaining(call[c]) = 0 /\ Remaining(call'[c]) = 0 /\ late' = late /\ late[c] \in Nat
    BY <1>3, <1>4, <1>5, <1>9 DEF Remaining
  <2>2. late'[c] + Remaining(call'[c]) <= Late(c)
    BY <2>1 DEF Late
  <2>3. QED
    BY <1>2, <1>4, <1>6, <1>7, <2>2, CallerAdds
<1>10. QED
  BY <1>8, <1>9

LEMMA WaitLate ==
  ASSUME CallsShaped, LateInv, NEW c \in Callers, AcquireWait(c) \/ Retry(c)
  PROVE  LateInv'
<1>1. PICK a, n : call[c] \in [at : Places, kind : Kinds, attempt : {a}, left : {n}]
  BY DEF CallsShaped
<1>2. call = [d \in Callers |-> call[d]] /\ OneMoves(c)
  BY ProgressMoves DEF CallsShaped, Progress
<1>3. circuitOpen' = circuitOpen /\ late' = late /\ late \in [Callers -> Nat] /\ late[c] \in Nat
  BY DEF AcquireWait, Retry, LateInv
<1>4. call[c].at # "idle"
  BY DEF AcquireWait, Retry
<1>5. Attempts(call[c]) /\ call[c].attempt \in 1..MaxRetries /\ MaxRetries \in Nat
  BY <1>4, RpcAssumption DEF LateInv, Attempts, RpcAssumption
<1>6. CASE AcquireWait(c)
  <2> DEFINE left == Window - Head(InWindow)
  <2>1. call' = [call EXCEPT ![c] = [call[c] EXCEPT !.at = "slot", !.left = left]] /\ call[c].at = "acquire"
    BY <1>6 DEF AcquireWait
  <2> HIDE DEF left
  <2>2. call'[c].at = "slot" /\ call'[c].kind = call[c].kind /\ call'[c].attempt = call[c].attempt
    BY <1>1, <1>2, <2>1
  <2>3. Remaining(call'[c]) = Remaining(call[c]) /\ Attempts(call'[c])
    BY <1>5, <2>1, <2>2 DEF Remaining, Attempts
  <2>4. Remaining(call[c]) \in Nat
    BY <1>5, RemainingBounds
  <2>5. late'[c] + Remaining(call'[c]) <= Late(c)
    BY <1>3, <2>3, <2>4 DEF Late
  <2>6. QED
    BY <1>2, <1>3, <2>3, <2>5, CallerAdds
<1>7. CASE Retry(c)
  <2>1. /\ call' = [call EXCEPT ![c] = [call[c] EXCEPT !.at = "acquire", !.attempt = call[c].attempt + 1]]
        /\ call[c].at = "backoff"
    BY <1>7 DEF Retry
  <2>2. PICK t \in Nat : t = call[c].attempt
    BY <1>5
  <2>3. call'[c].at = "acquire" /\ call'[c].kind = call[c].kind /\ call'[c].attempt = t + 1
    BY <1>1, <1>2, <2>1, <2>2
  <2>4. t + 1 \in 1..MaxRetries
    BY <1>5, <2>1, <2>2 DEF Attempts
  <2>5. Remaining(call'[c]) = Remaining(call[c]) /\ Attempts(call'[c])
    BY <1>5, <2>1, <2>2, <2>3, <2>4 DEF Remaining, Attempts
  <2>6. Remaining(call[c]) \in Nat
    BY <1>5, RemainingBounds
  <2>7. late'[c] + Remaining(call'[c]) <= Late(c)
    BY <1>3, <2>5, <2>6 DEF Late
  <2>8. QED
    BY <1>2, <1>3, <2>5, <2>7, CallerAdds
<1>8. QED
  BY <1>6, <1>7

LEMMA EndLate ==
  ASSUME CallsShaped, LateInv, NEW c \in Callers, OnceAnswered(c)
  PROVE  LateInv'
<1>1. call' = [call EXCEPT ![c] = Idle] /\ circuitOpen' = circuitOpen /\ late' = late
  BY DEF OnceAnswered
<1>2. OneMoves(c) /\ call'[c] = Idle
  BY <1>1, ProgressMoves DEF Progress, CallsShaped
<1>3. Remaining(Idle) = 0 /\ Attempts(Idle)
  BY DEF Idle, Remaining, Attempts
<1>4. late \in [Callers -> Nat] /\ late[c] \in Nat /\ Remaining(call[c]) \in Nat
  BY RemainingBounds DEF LateInv
<1>5. late'[c] + Remaining(call'[c]) <= Late(c)
  BY <1>1, <1>2, <1>3, <1>4 DEF Late
<1>6. QED
  BY <1>1, <1>2, <1>3, <1>4, <1>5, CallerAdds

LEMMA AnswerLate ==
  ASSUME CallsShaped, LateInv, NEW c \in Callers, QueryAnswered(c)
  PROVE  LateInv'
<1>1. call' = [call EXCEPT ![c] = Idle] /\ circuitOpen' = FALSE /\ late' = [d \in Callers |-> 0]
  BY DEF QueryAnswered
<1>2. OneMoves(c) /\ call'[c] = Idle
  BY <1>1, ProgressMoves DEF Progress, CallsShaped
<1>3. Attempts(Idle)
  BY DEF Idle, Attempts
<1>4. ASSUME NEW d \in Callers PROVE Attempts(call'[d]) /\ late'[d] + Remaining(call'[d]) <= MaxRetries
  <2>1. Attempts(call'[d])
    BY <1>2, <1>3, OneMovesShaped DEF LateInv
  <2>2. Remaining(call'[d]) \in Nat /\ Remaining(call'[d]) <= MaxRetries /\ late'[d] = 0
    BY <1>1, <2>1, RemainingBounds
  <2>3. QED
    BY <2>1, <2>2
<1>5. QED
  BY <1>1, <1>4 DEF LateInv, Late

LEMMA FailureLate ==
  ASSUME CallsShaped, LateInv, NEW c \in Callers, QueryFailed(c)
  PROVE  LateInv'
<1>1. PICK a, n : call[c] \in [at : Places, kind : Kinds, attempt : {a}, left : {n}]
  BY DEF CallsShaped
<1>2. call = [d \in Callers |-> call[d]] /\ OneMoves(c)
  BY ProgressMoves DEF CallsShaped, Progress
<1>3. late' = late /\ late \in [Callers -> Nat] /\ late[c] \in Nat /\ call[c].at = "sent" /\ call[c].kind = "query"
  BY DEF QueryFailed, LateInv
<1>4. circuitOpen' = TRUE \/ circuitOpen' = circuitOpen
  <2>1. circuitOpen' = (circuitOpen \/ consecutiveFailures' >= Threshold) /\ circuitOpen \in BOOLEAN
    BY DEF QueryFailed, LateInv
  <2>2. QED
    BY <2>1, Zenon
<1>5. PICK t \in Nat : t = call[c].attempt /\ t \in 1..MaxRetries
  BY <1>3 DEF LateInv, Attempts
<1>6. MaxRetries \in Nat /\ Remaining(call[c]) = MaxRetries - t
  BY <1>3, <1>5, RpcAssumption DEF Remaining, RpcAssumption
<1>7. Attempts(call'[c]) /\ Remaining(call'[c]) = MaxRetries - t
  <2>1. CASE t < MaxRetries
    <3> DEFINE left == InitialDelay * 2 ^ (call[c].attempt - 1)
    <3>1. call' = [call EXCEPT ![c] = [call[c] EXCEPT !.at = "backoff", !.left = left]]
      BY <1>5, <2>1 DEF QueryFailed
    <3> HIDE DEF left
    <3>2. call'[c].at = "backoff" /\ call'[c].kind = "query" /\ call'[c].attempt = t
      BY <1>1, <1>2, <1>3, <1>5, <3>1
    <3>3. QED
      BY <1>5, <2>1, <3>2 DEF Attempts, Remaining
  <2>2. CASE ~(t < MaxRetries)
    <3>1. call' = [call EXCEPT ![c] = Idle] /\ MaxRetries - t = 0
      BY <1>5, <1>6, <2>2 DEF QueryFailed
    <3>2. call'[c] = Idle
      BY <1>2, <3>1
    <3>3. QED
      BY <3>1, <3>2 DEF Idle, Attempts, Remaining
  <2>3. QED
    BY <2>1, <2>2
<1>8. CASE circuitOpen' = circuitOpen
  <2>1. late'[c] + Remaining(call'[c]) <= Late(c)
    BY <1>3, <1>5, <1>6, <1>7 DEF Late
  <2>2. QED
    BY <1>2, <1>3, <1>7, <1>8, <2>1, CallerAdds
<1>9. CASE circuitOpen' # circuitOpen
  <2>1. ~circuitOpen /\ circuitOpen' = TRUE
    BY <1>4, <1>9 DEF LateInv
  <2>2. ASSUME NEW d \in Callers PROVE Attempts(call'[d]) /\ late'[d] + Remaining(call'[d]) <= MaxRetries
    <3>1. Attempts(call'[d])
      BY <1>2, <1>7, OneMovesShaped DEF LateInv
    <3>2. Remaining(call'[d]) \in Nat /\ Remaining(call'[d]) <= MaxRetries /\ late'[d] = 0
      BY <1>3, <2>1, <3>1, RemainingBounds DEF LateInv
    <3>3. QED
      BY <3>1, <3>2
  <2>3. late'[c] + Remaining(call'[c]) < MaxRetries
    <3>1. late'[c] = 0
      BY <1>3, <2>1 DEF LateInv
    <3>2. QED
      BY <1>5, <1>6, <1>7, <3>1
  <2>4. QED
    BY <1>3, <2>1, <2>2, <2>3 DEF LateInv, Late
<1>10. QED
  BY <1>8, <1>9

LEMMA EnterLate ==
  ASSUME CallsShaped, LateInv, NEW c \in Callers, NEW kind \in Kinds, Enter(c, kind)
  PROVE  LateInv'
<1>1. /\ OneMoves(c) /\ circuitOpen' = circuitOpen /\ late' = late /\ (kind # "fee" => ~circuitOpen)
      /\ call'[c].kind = kind /\ call'[c].attempt = 1 /\ call'[c].at = "acquire" /\ call[c].at = "idle"
  BY EnterMoves DEF Enter
<1>2. MaxRetries \in Nat \ {0}
  BY RpcAssumption DEF RpcAssumption
<1>3. Attempts(call'[c])
  BY <1>1, <1>2 DEF Attempts
<1>4. late \in [Callers -> Nat] /\ late[c] \in Nat /\ Remaining(call[c]) = 0
  BY <1>1 DEF LateInv, Remaining
<1>5. CASE kind = "query"
  <2>1. ~circuitOpen /\ circuitOpen \in BOOLEAN
    BY <1>1, <1>5 DEF LateInv
  <2>2. ASSUME NEW d \in Callers PROVE Attempts(call'[d]) /\ late'[d] + Remaining(call'[d]) <= MaxRetries
    <3>1. Attempts(call'[d])
      BY <1>1, <1>3, OneMovesShaped DEF LateInv
    <3>2. Remaining(call'[d]) \in Nat /\ Remaining(call'[d]) <= MaxRetries /\ late'[d] = 0
      BY <1>1, <2>1, <3>1, RemainingBounds DEF LateInv
    <3>3. QED
      BY <3>1, <3>2
  <2>3. QED
    BY <1>1, <1>4, <2>1, <2>2 DEF LateInv, Late
<1>6. CASE kind # "query"
  <2>1. Remaining(call'[c]) = 0
    BY <1>1, <1>6 DEF Remaining
  <2>2. late'[c] + Remaining(call'[c]) <= Late(c)
    BY <1>1, <1>4, <2>1 DEF Late
  <2>3. QED
    BY <1>1, <1>3, <1>4, <2>2, CallerAdds
<1>7. QED
  BY <1>5, <1>6

LEMMA NextLate == ASSUME CallsShaped, LateInv, [Next]_rpcVars PROVE LateInv'
<1>1. CASE UNCHANGED rpcVars
  BY <1>1 DEF rpcVars, LateInv, Late
<1>2. CASE Tick
  <2>1. circuitOpen' = circuitOpen /\ late' = late /\ late \in [Callers -> Nat]
    BY <1>2 DEF Tick, LateInv
  <2>2. ASSUME NEW c \in Callers PROVE Attempts(call'[c]) /\ late'[c] + Remaining(call'[c]) <= Late(c)
    <3>1. call'[c].at = call[c].at /\ call'[c].kind = call[c].kind /\ call'[c].attempt = call[c].attempt
      BY <1>2, TickShaped
    <3>2. Attempts(call[c]) /\ late[c] \in Nat
      BY <2>1 DEF LateInv
    <3>3. Attempts(call'[c]) /\ Remaining(call'[c]) = Remaining(call[c])
      BY <3>1, <3>2 DEF Attempts, Remaining
    <3>4. Remaining(call[c]) \in Nat
      BY <3>2, RemainingBounds
    <3>5. QED
      BY <2>1, <3>2, <3>3, <3>4 DEF Late
  <2>3. QED
    BY <2>1, <2>2, NoneAdded
<1>3. ASSUME NEW c \in Callers, Progress(c) PROVE LateInv'
  BY <1>3, SendLate, WaitLate, EndLate, AnswerLate, FailureLate DEF Progress
<1>4. QED
  BY <1>1, <1>2, <1>3, EnterLate DEF Next

(* What goes out past the limiter, because sleepers do not count again     *)
(* when they wake (RateLimiter.acquire), and past an open breaker, because *)
(* withRetry looks at it only at the start, is bounded for any number of   *)
(* callers and any limits: one request for each caller and tick beyond the *)
(* limit, and for each caller the attempts of the call it was in.          *)
THEOREM OverrunSound == Spec => []OverrunBounded
<1>1. ASSUME Init PROVE LimiterInv /\ LateInv
  <2>1. stamps = <<>> /\ late = [c \in Callers |-> 0] /\ circuitOpen = FALSE /\ call = [c \in Callers |-> Idle]
    BY <1>1 DEF Init
  <2>2. LimiterInv
    <3>1. stamps \in Seq(0..Window) /\ Len(stamps) = 0
      BY <2>1, EmptySeq
    <3>2. 1..Len(stamps) = {}
      BY <3>1
    <3>3. QED
      BY <3>1, <3>2 DEF LimiterInv, InOrder
  <2>3. Attempts(Idle) /\ Remaining(Idle) = 0 /\ MaxRetries \in Nat
    BY RpcAssumption DEF Idle, Attempts, Remaining, RpcAssumption
  <2>4. \A c \in Callers : late[c] = 0 /\ call[c] = Idle
    BY <2>1
  <2>5. \A c \in Callers : Attempts(call[c]) /\ Late(c) <= MaxRetries
    BY <2>3, <2>4 DEF Late
  <2>6. late \in [Callers -> Nat]
    BY <2>1
  <2>7. LateInv
    BY <2>1, <2>4, <2>5, <2>6 DEF LateInv
  <2>8. QED
    BY <2>2, <2>7
<1>2. ASSUME LimiterInv, LateInv PROVE OverrunBounded
  <2>1. \A c \in Callers : late[c] \in Nat /\ Remaining(call[c]) \in Nat
    BY <1>2, RemainingBounds DEF LateInv
  <2>2. MaxRetries \in Nat
    BY RpcAssumption DEF RpcAssumption
  <2>3. \A c \in Callers : late[c] <= MaxRetries
    BY <1>2, <2>1, <2>2 DEF LateInv, Late
  <2>4. circuitOpen => \E c \in Callers : late[c] < MaxRetries
    BY <1>2, <2>1, <2>2 DEF LateInv, Late
  <2>5. QED
    BY <1>2, <2>3, <2>4, LimiterBounded DEF OverrunBounded, FewRequestsWhileOpen
<1>3. QED
  BY <1>1, <1>2, InitShaped, NextShaped, NextLimited, NextLate, PTL DEF Spec
=============================================================================
