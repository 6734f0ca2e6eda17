----------------------------- MODULE StellarRpc -----------------------------
(***************************************************************************)
(* The read side of the Stellar client: withRetry with its circuit breaker *)
(* over the shared rate limiter, and the two calls that take a slot of the *)
(* limiter without the breaker's bookkeeping (isHealthy, the fee event).   *)
(*                                                                         *)
(* Time is kept as ages, so that it never ends and the states stay finite: *)
(* a time stamp is the number of ticks since it was taken, capped at       *)
(* Window, and a timer is the number of ticks it has left.  A timer that   *)
(* has run out fires at some later moment, as setTimeout does.             *)
(***************************************************************************)
EXTENDS Naturals, Sequences, FiniteSets

CONSTANTS
    Callers,      \* calls that can be in progress at once
    MaxRetries,   \* MAX_RETRIES
    Threshold,    \* CIRCUIT_BREAKER_THRESHOLD
    MaxRequests,  \* slots of the rate limiter in a window
    Window,       \* length of the window, in ticks
    InitialDelay  \* INITIAL_DELAY_MS, in ticks

ASSUME RpcAssumption ==
    /\ MaxRetries \in Nat \ {0} /\ Threshold \in Nat \ {0}
    /\ MaxRequests \in Nat \ {0} /\ Window \in Nat \ {0} /\ InitialDelay \in Nat
    /\ IsFiniteSet(Callers)

VARIABLES
    stamps,               \* requestTimestamps, as ages
    consecutiveFailures,
    circuitOpen,
    call,                 \* what each caller is doing
    recent,               \* history: the last Threshold answers to withRetry
    late                  \* history: each caller's queries since the breaker opened

rpcVars == <<stamps, consecutiveFailures, circuitOpen, call, recent, late>>

Kinds == {"query", "probe", "fee"}
Idle == [at |-> "idle", kind |-> "query", attempt |-> 0, left |-> 0]

Init ==
    /\ stamps = <<>> /\ consecutiveFailures = 0 /\ circuitOpen = FALSE
    /\ call = [c \in Callers |-> Idle]
    /\ recent = <<>> /\ late = [c \in Callers |-> 0]

-----------------------------------------------------------------------------
(* The rate limiter. *)

\* The stamps that are still inside the window.  They are in the order in
\* which they were taken, so that the filter drops the first ones.
InWindow == SubSeq(stamps, 1 + Cardinality({i \in DOMAIN stamps : stamps[i] >= Window}), Len(stamps))

\* The request goes out with the stamp that pays for it.
Send(c) ==
    /\ stamps' = Append(InWindow, 0)
    /\ call' = [call EXCEPT ![c].at = "sent"]
    /\ late' = IF circuitOpen /\ call[c].kind = "query" THEN [late EXCEPT ![c] = @ + 1] ELSE late
    /\ UNCHANGED <<consecutiveFailures, circuitOpen, recent>>

\* Mutant: the requests in the window are not counted.
AcquireSlotUncounted(c) == call[c].at = "acquire" /\ Send(c)

\* acquire finds a free slot.
AcquireSlot(c) ==
    /\ call[c].at = "acquire"
    /\ Len(InWindow) < MaxRequests
    /\ Send(c)

\* acquire finds none and sleeps until the oldest request has left the window.
AcquireWait(c) ==
    /\ call[c].at = "acquire"
    /\ Len(InWindow) >= MaxRequests
    /\ stamps' = InWindow
    /\ call' = [call EXCEPT ![c].at = "slot", ![c].left = Window - Head(InWindow)]
    /\ UNCHANGED <<consecutiveFailures, circuitOpen, recent, late>>

\* Mutant: the sleeper counts the requests again.
AcquireWakeAndCount(c) ==
    /\ call[c].at = "slot" /\ call[c].left = 0
    /\ call' = [call EXCEPT ![c].at = "acquire"]
    /\ UNCHANGED <<stamps, consecutiveFailures, circuitOpen, recent, late>>

\* The sleeper takes its slot; it does not count the requests again.
AcquireWake(c) ==
    /\ call[c].at = "slot" /\ call[c].left = 0
    /\ Send(c)

-----------------------------------------------------------------------------
(* The calls. *)

\* withRetry lets a call in while the breaker is closed.  isHealthy looks at
\* the breaker too; emitFeeUpdatedEvent does not.
Enter(c, kind) ==
    /\ call[c].at = "idle"
    /\ kind # "fee" => ~circuitOpen
    /\ call' = [call EXCEPT ![c] = [at |-> "acquire", kind |-> kind, attempt |-> 1, left |-> 0]]
    /\ UNCHANGED <<stamps, consecutiveFailures, circuitOpen, recent, late>>

Remember(ok) ==
    recent' = IF Len(recent) < Threshold THEN Append(recent, ok) ELSE Append(Tail(recent), ok)

\* Mutant: an answer does not start the count of failures again.
QueryAnsweredStillCounting(c) ==
    /\ call[c].at = "sent" /\ call[c].kind = "query"
    /\ circuitOpen' = FALSE /\ late' = [d \in Callers |-> 0]
    /\ Remember(TRUE)
    /\ call' = [call EXCEPT ![c] = Idle]
    /\ UNCHANGED <<stamps, consecutiveFailures>>

\* An answer to withRetry closes the breaker, whatever it was.
QueryAnswered(c) ==
    /\ call[c].at = "sent" /\ call[c].kind = "query"
    /\ consecutiveFailures' = 0 /\ circuitOpen' = FALSE /\ late' = [d \in Callers |-> 0]
    /\ Remember(TRUE)
    /\ call' = [call EXCEPT ![c] = Idle]
    /\ UNCHANGED stamps

\* A failure counts; the call backs off and tries again unless it was its last try.
QueryFailed(c) ==
    /\ call[c].at = "sent" /\ call[c].kind = "query"
    /\ consecutiveFailures' = consecutiveFailures + 1
    /\ circuitOpen' = (circuitOpen \/ consecutiveFailures' >= Threshold)
    /\ Remember(FALSE)
    /\ call' = IF call[c].attempt < MaxRetries
               THEN [call EXCEPT ![c].at = "backoff",
                                 ![c].left = InitialDelay * 2 ^ (call[c].attempt - 1)]
               ELSE [call EXCEPT ![c] = Idle]
    /\ UNCHANGED <<stamps, late>>

Retry(c) ==
    /\ call[c].at = "backoff" /\ call[c].left = 0
    /\ call' = [call EXCEPT ![c].at = "acquire", ![c].attempt = @ + 1]
    /\ UNCHANGED <<stamps, consecutiveFailures, circuitOpen, recent, late>>

\* Mutant: an answer to these closes the breaker too.
OnceAnsweredCloses(c) ==
    /\ call[c].at = "sent" /\ call[c].kind # "query"
    /\ call' = [call EXCEPT ![c] = Idle]
    /\ circuitOpen' = FALSE
    /\ UNCHANGED <<stamps, consecutiveFailures, recent, late>>

\* isHealthy and the fee event make one attempt and leave the breaker alone.
OnceAnswered(c) ==
    /\ call[c].at = "sent" /\ call[c].kind # "query"
    /\ call' = [call EXCEPT ![c] = Idle]
    /\ UNCHANGED <<stamps, consecutiveFailures, circuitOpen, recent, late>>

\* The clock: every stamp ages and every timer runs down.
Tick ==
    /\ stamps' = [i \in DOMAIN stamps |-> IF stamps[i] < Window THEN stamps[i] + 1 ELSE Window]
    /\ call' = [c \in Callers |-> [call[c] EXCEPT !.left = IF @ > 0 THEN @ - 1 ELSE 0]]
    /\ UNCHANGED <<consecutiveFailures, circuitOpen, recent, late>>

Progress(c) ==
    \/ AcquireSlot(c) \/ AcquireWait(c) \/ AcquireWake(c) \/ Retry(c)
    \/ QueryAnswered(c) \/ QueryFailed(c) \/ OnceAnswered(c)

Next ==
    \/ Tick
    \/ \E c \in Callers : Progress(c) \/ \E kind \in Kinds : Enter(c, kind)

Spec == Init /\ [][Next]_rpcVars

\* Timers fire, and a request is answered or fails in the end.
FairSpec == Spec /\ WF_rpcVars(Tick) /\ \A c \in Callers : WF_rpcVars(Progress(c))

-----------------------------------------------------------------------------
(* The breaker is open exactly while the last Threshold answers that any   *)
(* caller of withRetry got were failures, however the callers interleave.  *)
OpenMeansFailures ==
    circuitOpen <=> Len(recent) = Threshold /\ \A i \in 1..Threshold : ~recent[i]

(* Callers that wait for a slot take it when they wake, without a look at  *)
(* what the others have taken, so a window can hold more requests than the *)
(* limiter allows.  Since a caller never waits for nothing, these are one  *)
(* for each caller and tick at most (RateLimiter.acquire).                 *)
WindowOverrun == Len(InWindow) < MaxRequests + Window * Cardinality(Callers)

(* The breaker stops no call that is already under way: each of them still *)
(* sends what is left of its attempts, and nobody sends more than that;    *)
(* the one whose failure opened the breaker has fewer left.                *)
FewRequestsWhileOpen ==
    /\ \A c \in Callers : late[c] <= MaxRetries
    /\ circuitOpen => \E c \in Callers : late[c] < MaxRetries

(* What is sent past the limiter and past an open breaker is bounded.      *)
OverrunBounded == WindowOverrun /\ FewRequestsWhileOpen

(* Nothing but a call of withRetry that was under way when the breaker     *)
(* opened can close it: an open breaker with none under way stays open for *)
(* ever, even if the RPC node is well again (there is no half-open state). *)
QueriesUnderWay == \E c \in Callers : call[c].at # "idle" /\ call[c].kind = "query"
OpenForGood ==
    [][circuitOpen /\ ~QueriesUnderWay => circuitOpen' /\ ~QueriesUnderWay']_rpcVars

(* Every call ends: waiting for a slot and backing off are bounded.        *)
EveryCallEnds == \A c \in Callers : call[c].at # "idle" ~> call[c].at = "idle"
=============================================================================
