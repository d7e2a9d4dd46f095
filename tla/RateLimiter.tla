----------------------------- MODULE RateLimiter -----------------------------
(***************************************************************************)
(* The gateway's rate limiter (services/gateway/src/middleware/             *)
(* rate_limiter.rs): a counter per client address and path over a window of *)
(* window_secs that starts with the first request after the previous one.   *)
(*                                                                          *)
(* RateLimiter::new runs in the closure that HttpServer calls once for each *)
(* of its workers (main.rs), so each worker has counters of its own.  A     *)
(* worker is one thread and holds its mutex over no await: try_lock never   *)
(* fails and a request is one step.  The clock is the wall clock, which may *)
(* be set back; the subtraction of two u64 then wraps (release build).      *)
(***************************************************************************)
EXTENDS Integers, Sequences, FiniteSets

CONSTANTS
  Worker,       \* the workers of the gateway
  Key,          \* client addresses with paths
  max_weight,
  window_secs,
  MaxTime,      \* bound: the clock stops here
  MaxStepsBack, \* bound: how often the clock is set back
  MaxRequests,  \* bound: requests of one key to one worker
  Wide          \* the width of the subtraction: 2^64 in the code

Time == 0 .. MaxTime

ASSUME LimiterAssumption ==
  /\ IsFiniteSet(Worker)
  /\ max_weight \in Nat \ {0} /\ window_secs \in Nat \ {0}
  /\ MaxTime \in Nat /\ MaxStepsBack \in Nat /\ MaxRequests \in Nat
  /\ Wide \in Nat /\ Wide > MaxTime + window_secs

VARIABLES
  now,       \* the wall clock
  stepsBack, \* how often it was set back
  counters,  \* worker -> key -> start of the window and requests in it
  received,  \* worker, key -> the times of its requests, refused ones included
  passed     \* worker, key -> the times of those that were let through

vars == <<now, stepsBack, counters, received, passed>>

Entry == [start : Time, count : Nat]

TypeOK ==
  /\ now \in Time
  /\ stepsBack \in 0 .. MaxStepsBack
  /\ \A w \in Worker : /\ DOMAIN counters[w] \subseteq Key
                       /\ counters[w] \in [DOMAIN counters[w] -> Entry]
  /\ received \in [Worker \X Key -> Seq(Time)]
  /\ passed \in [Worker \X Key -> Seq(Time)]

Init ==
  /\ now \in Time
  /\ stepsBack = 0
  /\ counters = [w \in Worker |-> [k \in {} |-> 0]]
  /\ received = [c \in Worker \X Key |-> <<>>]
  /\ passed = [c \in Worker \X Key |-> <<>>]

\* Mutant: a clock that was set back makes no time pass.
ElapsedSaturating(start) == IF now < start THEN 0 ELSE now - start

Elapsed(start) == (now - start) % Wide

\* What a request makes of its entry.
Counted(entry) ==
  IF Elapsed(entry.start) >= window_secs
  THEN [start |-> now, count |-> 1]
  ELSE [entry EXCEPT !.count = @ + 1]

EntryOf(w, k) ==
  IF k \in DOMAIN counters[w] THEN counters[w][k] ELSE [start |-> now, count |-> 0]

\* Mutant: one request too many is let through.
ExceededLate(entry) == entry.count > max_weight + 1

Exceeded(entry) == entry.count > max_weight

\* RateLimiterService::call
Call(w, k) ==
  LET entry == Counted(EntryOf(w, k))
  IN  /\ Len(received[<<w, k>>]) < MaxRequests
      /\ counters' = [counters EXCEPT ![w] =
                        [q \in DOMAIN @ \cup {k} |-> IF q = k THEN entry ELSE @[q]]]
      /\ received' = [received EXCEPT ![<<w, k>>] = Append(@, now)]
      /\ passed' = IF Exceeded(entry) THEN passed
                   ELSE [passed EXCEPT ![<<w, k>>] = Append(@, now)]
      /\ UNCHANGED <<now, stepsBack>>

Tick ==
  /\ now < MaxTime
  /\ now' = now + 1
  /\ UNCHANGED <<stepsBack, counters, received, passed>>

\* The wall clock is set back.
StepBack ==
  /\ stepsBack < MaxStepsBack
  /\ now' \in {t \in Time : t < now}
  /\ stepsBack' = stepsBack + 1
  /\ UNCHANGED <<counters, received, passed>>

\* Bound: all requests have been made.
Quiet ==
  /\ \A c \in Worker \X Key : Len(received[c]) = MaxRequests
  /\ UNCHANGED vars

Next == (\E w \in Worker, k \in Key : Call(w, k)) \/ Tick \/ StepBack \/ Quiet

Spec == Init /\ [][Next]_vars

-----------------------------------------------------------------------------
(* Properties *)

Passed(k, t) ==
  {p \in Worker \X (1 .. MaxRequests) :
     LET times == passed[<<p[1], k>>]
     IN  /\ p[2] <= Len(times)
         /\ t <= times[p[2]] /\ times[p[2]] < t + window_secs}

\* What the limit comes to: in any stretch of window_secs a client gets through at
\* most 2 * max_weight - 1 times at each worker, since two windows of the worker may
\* touch the stretch, and the first request of the earlier one came before it; and as
\* often again for each time the clock was set back.
LimitHolds ==
  \A k \in Key, t \in Time :
    Cardinality(Passed(k, t)) <= Cardinality(Worker) * ((stepsBack + 1) * (2 * max_weight - 1))

\* Nobody is refused for nothing: when a request is refused, the same client has
\* sent max_weight others to the same worker less than a window away.
RefusedForCause ==
  [][\A w \in Worker, k \in Key :
       received'[<<w, k>>] # received[<<w, k>>] /\ passed'[<<w, k>>] = passed[<<w, k>>]
         => Cardinality({i \in DOMAIN received[<<w, k>>] :
                           /\ received[<<w, k>>][i] < now + window_secs
                           /\ now < received[<<w, k>>][i] + window_secs}) >= max_weight]_vars
=============================================================================
