-------------------------- MODULE RateLimiter_proofs --------------------------
(* Theorems about RateLimiter, for every number of workers and clients, any limit and *)
(* any clock.                                                                        *)
EXTENDS RateLimiter, Sums_proofs, TLAPS

Table == UNION {[K -> Entry] : K \in SUBSET Key}

InWindow(t, start) == start <= t /\ t < start + window_secs

\* The requests that a counter has counted are the last ones of its client, and came in
\* the window that began with its start.
CountsOK ==
  \A w \in Worker : \A k \in DOMAIN counters[w] :
    LET entry == counters[w][k]
        times == received[<<w, k>>]
    IN  /\ entry.count <= Len(times)
        /\ \A i \in Len(times) - entry.count + 1 .. Len(times) : InWindow(times[i], entry.start)

LimiterInv == TypeOK /\ counters \in [Worker -> Table] /\ CountsOK

-----------------------------------------------------------------------------
(* A window that has not run out, as the wrapped difference tells it, has begun. *)

LEMMA ElapsedInWindow ==
  ASSUME NEW start \in Time, now \in Time, ~(Elapsed(start) >= window_secs)
  PROVE  InWindow(now, start)
<1>1. /\ MaxTime \in Nat /\ window_secs \in Nat \ {0} /\ Wide \in Nat
      /\ Wide > MaxTime + window_secs
  BY LimiterAssumption
<1>2. /\ start \in Nat /\ now \in Nat /\ start <= MaxTime /\ now <= MaxTime
  BY <1>1 DEF Time
<1>3. CASE now >= start
  <2>1. now - start \in 0 .. Wide - 1
    BY <1>1, <1>2, <1>3
  <2>2. (now - start) % Wide = now - start
    BY <1>1, <2>1
  <2> QED
    BY <1>1, <1>2, <1>3, <2>2 DEF Elapsed, InWindow
<1>4. CASE now < start
  <2>1. now - start + Wide \in 0 .. Wide - 1 /\ now - start + Wide >= window_secs
    BY <1>1, <1>2, <1>4
  <2>2. (now - start) % Wide = now - start + Wide
    BY <1>1, <1>2, <2>1
  <2> QED
    BY <1>1, <1>2, <2>1, <2>2 DEF Elapsed
<1> QED
  BY <1>2, <1>3, <1>4

\* What a request makes of its counter.
LEMMA CountedEntry ==
  ASSUME LimiterInv, NEW w \in Worker, NEW k \in Key
  PROVE  LET entry == Counted(EntryOf(w, k))
             times == received[<<w, k>>]
         IN  /\ entry \in Entry
             /\ entry.count <= Len(times) + 1
             /\ InWindow(now, entry.start)
             /\ \A i \in Len(times) + 2 - entry.count .. Len(times) : InWindow(times[i], entry.start)
<1> DEFINE old   == EntryOf(w, k)
           entry == Counted(old)
           times == received[<<w, k>>]
<1>1. /\ now \in Time /\ times \in Seq(Time) /\ Len(times) \in Nat
      /\ window_secs \in Nat \ {0}
  BY LimiterAssumption DEF LimiterInv, TypeOK
<1>2. /\ old \in Entry /\ old.count <= Len(times)
      /\ \A i \in Len(times) + 1 - old.count .. Len(times) : InWindow(times[i], old.start)
  <2>1. CASE k \in DOMAIN counters[w]
    <3>1. old = counters[w][k]
      BY <2>1 DEF EntryOf
    <3>2. old \in Entry
      BY <2>1, <3>1 DEF LimiterInv, TypeOK
    <3>3. Len(times) - old.count + 1 = Len(times) + 1 - old.count
      BY <1>1, <3>2 DEF Entry
    <3> QED
      BY <2>1, <3>1, <3>2, <3>3 DEF LimiterInv, CountsOK
  <2>2. CASE k \notin DOMAIN counters[w]
    <3>1. old = [start |-> now, count |-> 0]
      BY <2>2 DEF EntryOf
    <3> QED
      BY <1>1, <3>1 DEF Entry
  <2> QED
    BY <2>1, <2>2
<1>3. CASE Elapsed(old.start) >= window_secs
  <2>1. entry = [start |-> now, count |-> 1]
    BY <1>3 DEF Counted
  <2> QED
    BY <1>1, <2>1, LimiterAssumption DEF Entry, InWindow, Time
<1>4. CASE ~(Elapsed(old.start) >= window_secs)
  <2>1. /\ entry = [old EXCEPT !.count = @ + 1]
        /\ entry \in Entry /\ entry.count = old.count + 1 /\ entry.start = old.start
    BY <1>2, <1>4 DEF Counted, Entry
  <2>2. InWindow(now, old.start)
    BY <1>1, <1>2, <1>4, ElapsedInWindow DEF Entry
  <2>3. Len(times) + 2 - entry.count = Len(times) + 1 - old.count
    BY <1>1, <1>2, <2>1 DEF Entry
  <2>4. entry.count <= Len(times) + 1
    BY <1>1, <1>2, <2>1 DEF Entry
  <2> QED
    BY <1>2, <2>1, <2>2, <2>3, <2>4
<1> QED
  BY <1>3, <1>4
-----------------------------------------------------------------------------
(* The invariant *)

LEMMA InitLimiter == Init => LimiterInv
<1> SUFFICES ASSUME Init PROVE LimiterInv
  OBVIOUS
<1>1. \A w \in Worker : counters[w] = [k \in {} |-> 0]
  BY DEF Init
<1>2. \A w \in Worker : DOMAIN counters[w] = {} /\ counters[w] \in [{} -> Entry]
  BY <1>1
<1>3. counters \in [Worker -> Table]
  <2>1. \A w \in Worker : counters[w] \in Table
    BY <1>2 DEF Table
  <2>2. counters = [w \in Worker |-> counters[w]]
    BY DEF Init
  <2> QED
    BY <2>1, <2>2
<1>4. TypeOK
  <2>1. stepsBack \in 0 .. MaxStepsBack
    BY LimiterAssumption DEF Init
  <2> QED
    BY <1>2, <2>1 DEF Init, TypeOK
<1> QED
  BY <1>2, <1>3, <1>4 DEF LimiterInv, CountsOK

LEMMA CallKeeps ==
  ASSUME LimiterInv, NEW w \in Worker, NEW k \in Key, Call(w, k)
  PROVE  LimiterInv'
<1> DEFINE entry == Counted(EntryOf(w, k))
           times == received[<<w, k>>]
           row   == [q \in DOMAIN counters[w] \cup {k} |-> IF q = k THEN entry ELSE counters[w][q]]
<1>1. /\ entry \in Entry
      /\ entry.count <= Len(times) + 1
      /\ InWindow(now, entry.start)
      /\ \A i \in Len(times) + 2 - entry.count .. Len(times) : InWindow(times[i], entry.start)
  BY CountedEntry
<1>2. /\ counters' = [counters EXCEPT ![w] = row]
      /\ received' = [received EXCEPT ![<<w, k>>] = Append(times, now)]
      /\ passed' = passed \/ passed' = [passed EXCEPT ![<<w, k>>] = Append(passed[<<w, k>>], now)]
      /\ UNCHANGED <<now, stepsBack>>
  BY DEF Call
<1> HIDE DEF entry
<1>3. /\ now \in Time /\ counters \in [Worker -> Table]
      /\ DOMAIN counters[w] \subseteq Key /\ counters[w] \in [DOMAIN counters[w] -> Entry]
      /\ received \in [Worker \X Key -> Seq(Time)] /\ passed \in [Worker \X Key -> Seq(Time)]
  BY DEF LimiterInv, TypeOK
<1>4. row \in [DOMAIN counters[w] \cup {k} -> Entry] /\ row \in Table
  <2>1. row \in [DOMAIN counters[w] \cup {k} -> Entry]
    BY <1>1, <1>3
  <2>2. DOMAIN counters[w] \cup {k} \in SUBSET Key
    BY <1>3
  <2> HIDE DEF row
  <2> QED
    BY <2>1, <2>2 DEF Table
<1>5. /\ counters' \in [Worker -> Table]
      /\ counters'[w] = row
      /\ \A v \in Worker \ {w} : counters'[v] = counters[v]
  BY <1>2, <1>3, <1>4
<1>6. /\ times \in Seq(Time) /\ Append(times, now) \in Seq(Time)
      /\ received'[<<w, k>>] = Append(times, now)
      /\ \A v \in Worker, q \in Key : <<v, q>> # <<w, k>> => received'[<<v, q>>] = received[<<v, q>>]
      /\ received' \in [Worker \X Key -> Seq(Time)]
  BY <1>2, <1>3
<1>7. passed' \in [Worker \X Key -> Seq(Time)]
  <2>1. Append(passed[<<w, k>>], now) \in Seq(Time)
    BY <1>3
  <2> QED
    BY <1>2, <1>3, <2>1
<1>8. TypeOK'
  <2>1. \A v \in Worker : /\ DOMAIN counters'[v] \subseteq Key
                          /\ counters'[v] \in [DOMAIN counters'[v] -> Entry]
    <3>1. DOMAIN row = DOMAIN counters[w] \cup {k}
      OBVIOUS
    <3>2. DOMAIN counters'[w] \subseteq Key /\ counters'[w] \in [DOMAIN counters'[w] -> Entry]
      BY <1>3, <1>4, <1>5, <3>1
    <3>3. \A v \in Worker \ {w} : /\ DOMAIN counters'[v] \subseteq Key
                                  /\ counters'[v] \in [DOMAIN counters'[v] -> Entry]
      BY <1>5 DEF LimiterInv, TypeOK
    <3> QED
      BY <3>2, <3>3
  <2> QED
    BY <1>2, <1>6, <1>7, <2>1 DEF LimiterInv, TypeOK
<1>9. CountsOK'
  <2> SUFFICES ASSUME NEW v \in Worker, NEW q \in DOMAIN counters'[v]
               PROVE  LET e == counters'[v][q]
                          s == received'[<<v, q>>]
                      IN  /\ e.count <= Len(s)
                          /\ \A i \in Len(s) - e.count + 1 .. Len(s) : InWindow(s[i], e.start)
    BY DEF CountsOK, InWindow
  <2>1. CASE v = w /\ q = k
    <3>1. counters'[v][q] = entry /\ received'[<<v, q>>] = Append(times, now)
      BY <1>5, <1>6, <2>1
    <3>2. Len(Append(times, now)) = Len(times) + 1 /\ Len(times) \in Nat /\ entry.count \in Nat
      BY <1>1, <1>3, <1>6 DEF Entry
    <3>3. ASSUME NEW i \in Len(times) + 1 - entry.count + 1 .. Len(times) + 1
          PROVE  InWindow(Append(times, now)[i], entry.start)
      <4>1. CASE i = Len(times) + 1
        BY <1>1, <1>6, <4>1
      <4>2. CASE i # Len(times) + 1
        <5>1. i \in Len(times) + 2 - entry.count .. Len(times) /\ i >= 1
          BY <1>1, <3>2, <4>2, SMTT(60)
        <5>2. i \in 1 .. Len(times)
          BY <3>2, <5>1
        <5>3. Append(times, now)[i] = times[i]
          <6> HIDE DEF times
          <6> QED
            BY <1>6, <5>2
        <5> QED
          BY <1>1, <5>1, <5>3
      <4> QED
        BY <4>1, <4>2
    <3>4. entry.count <= Len(times) + 1
      BY <1>1
    <3> HIDE DEF times
    <3> QED
      BY <3>1, <3>2, <3>3, <3>4
  <2>2. CASE ~(v = w /\ q = k)
    <3>1. q \in DOMAIN counters[v] /\ counters'[v][q] = counters[v][q]
      BY <1>5, <2>2
    <3>2. q \in Key
      BY <3>1 DEF LimiterInv, TypeOK
    <3>3. received'[<<v, q>>] = received[<<v, q>>]
      BY <1>6, <2>2, <3>2
    <3> QED
      BY <3>1, <3>3 DEF LimiterInv, CountsOK
  <2> QED
    BY <2>1, <2>2
<1> QED
  BY <1>5, <1>8, <1>9 DEF LimiterInv

LEMMA ClockKeeps ==
  ASSUME LimiterInv, Tick \/ StepBack
  PROVE  LimiterInv'
<1>1. now' \in Time /\ stepsBack' \in 0 .. MaxStepsBack
  BY LimiterAssumption DEF LimiterInv, TypeOK, Tick, StepBack, Time
<1>2. UNCHANGED <<counters, received, passed>>
  BY DEF Tick, StepBack
<1>3. TypeOK'
  BY <1>1, <1>2 DEF LimiterInv, TypeOK
<1> QED
  BY <1>2, <1>3 DEF LimiterInv, CountsOK, InWindow

LEMMA NextKeepsLimiter == LimiterInv /\ [Next]_vars => LimiterInv'
<1> SUFFICES ASSUME LimiterInv, [Next]_vars PROVE LimiterInv'
  OBVIOUS
<1>1. ASSUME NEW w \in Worker, NEW k \in Key, Call(w, k) PROVE LimiterInv'
  BY <1>1, CallKeeps
<1>2. CASE Tick \/ StepBack
  BY <1>2, ClockKeeps
<1>3. CASE UNCHANGED vars
  BY <1>3 DEF vars, LimiterInv, TypeOK, CountsOK, InWindow
<1> QED
  BY <1>1, <1>2, <1>3 DEF Next, Quiet

LEMMA LimiterInvariant == Spec => []LimiterInv
<1> QED
  BY InitLimiter, NextKeepsLimiter, PTL DEF Spec

\* Types: the tables of all workers, and what the clients were told.
THEOREM LimiterTypes == Spec => []TypeOK
<1>1. LimiterInv => TypeOK
  BY DEF LimiterInv
<1> QED
  BY <1>1, LimiterInvariant, PTL

-----------------------------------------------------------------------------
(* Refusals *)

\* A request that is refused finds a counter that stands at the limit.
LEMMA RefusedAtLimit ==
  ASSUME LimiterInv, NEW w \in Worker, NEW k \in Key, Exceeded(Counted(EntryOf(w, k)))
  PROVE  LET times == received[<<w, k>>]
         IN  \E first \in Int :
               /\ Len(times) - first + 1 >= max_weight /\ first >= 1
               /\ \A i \in first .. Len(times) :
                    times[i] < now + window_secs /\ now < times[i] + window_secs
<1> DEFINE entry == Counted(EntryOf(w, k))
           times == received[<<w, k>>]
           first == Len(times) + 2 - entry.count
<1>1. /\ entry \in Entry
      /\ entry.count <= Len(times) + 1
      /\ InWindow(now, entry.start)
      /\ \A i \in first .. Len(times) : InWindow(times[i], entry.start)
  BY CountedEntry
<1>2. entry.count > max_weight
  BY DEF Exceeded
<1> HIDE DEF entry
<1>3. /\ now \in Int /\ entry.count \in Nat /\ entry.start \in Int
      /\ max_weight \in Nat /\ window_secs \in Nat /\ times \in Seq(Time) /\ Len(times) \in Nat
  BY <1>1, LimiterAssumption, SMTT(60) DEF LimiterInv, TypeOK, Time, Entry
<1>4. first \in Int /\ first >= 1 /\ Len(times) - first + 1 >= max_weight
  BY <1>1, <1>2, <1>3, SMTT(60)
<1>5. ASSUME NEW i \in first .. Len(times)
      PROVE  times[i] < now + window_secs /\ now < times[i] + window_secs
  <2>1. times[i] \in Int
    <3>1. i \in 1 .. Len(times)
      BY <1>3, <1>4
    <3>2. times[i] \in Time
      BY <1>3, <3>1
    <3> QED
      BY <3>2 DEF Time
  <2>2. InWindow(times[i], entry.start) /\ InWindow(now, entry.start)
    BY <1>1
  <2> QED
    BY <1>3, <2>1, <2>2, SMTT(60) DEF InWindow
<1> QED
  BY <1>4, <1>5

\* A step in which a request of a client is refused is a call whose counter is exceeded.
LEMMA RefusalIsCall ==
  ASSUME LimiterInv, [Next]_vars, NEW w \in Worker, NEW k \in Key,
         received'[<<w, k>>] # received[<<w, k>>], passed'[<<w, k>>] = passed[<<w, k>>]
  PROVE  Exceeded(Counted(EntryOf(w, k)))
<1>1. received' # received
  OBVIOUS
<1>2. PICK v \in Worker, q \in Key : Call(v, q)
  BY <1>1 DEF Next, Tick, StepBack, Quiet, vars
<1>3. received \in [Worker \X Key -> Seq(Time)] /\ passed \in [Worker \X Key -> Seq(Time)]
      /\ now \in Time
  BY DEF LimiterInv, TypeOK
<1>4. v = w /\ q = k
  BY <1>2, <1>3 DEF Call
<1>5. SUFFICES ASSUME ~Exceeded(Counted(EntryOf(w, k))) PROVE FALSE
  OBVIOUS
<1>6. passed' = [passed EXCEPT ![<<w, k>>] = Append(@, now)]
  BY <1>2, <1>4, <1>5 DEF Call
<1>7. passed'[<<w, k>>] = Append(passed[<<w, k>>], now)
  BY <1>3, <1>6
<1>8. Len(Append(passed[<<w, k>>], now)) = Len(passed[<<w, k>>]) + 1
      /\ Len(passed[<<w, k>>]) \in Nat
  BY <1>3
<1> QED
  BY <1>7, <1>8

\* Nobody is refused for nothing, whatever the clock does: the wrapped difference never
\* takes a request that came before the start of the window to be in it.
THEOREM RefusalsHaveCauses == Spec => RefusedForCause
<1>1. ASSUME LimiterInv, [Next]_vars, NEW w \in Worker, NEW k \in Key,
             received'[<<w, k>>] # received[<<w, k>>], passed'[<<w, k>>] = passed[<<w, k>>]
      PROVE  Cardinality({i \in DOMAIN received[<<w, k>>] :
                            /\ received[<<w, k>>][i] < now + window_secs
                            /\ now < received[<<w, k>>][i] + window_secs}) >= max_weight
  <2> DEFINE times == received[<<w, k>>]
             near  == {i \in DOMAIN times :
                         times[i] < now + window_secs /\ now < times[i] + window_secs}
  <2>1. Exceeded(Counted(EntryOf(w, k)))
    BY <1>1, RefusalIsCall
  <2>2. PICK first \in Int :
          /\ Len(times) - first + 1 >= max_weight /\ first >= 1
          /\ \A i \in first .. Len(times) :
               times[i] < now + window_secs /\ now < times[i] + window_secs
    BY <1>1, <2>1, RefusedAtLimit
  <2>3. times \in Seq(Time) /\ Len(times) \in Nat /\ DOMAIN times = 1 .. Len(times)
        /\ max_weight \in Nat \ {0}
    BY <1>1, LimiterAssumption DEF LimiterInv, TypeOK
  <2>4. first .. Len(times) \subseteq near /\ near \subseteq 1 .. Len(times)
    BY <2>2, <2>3
  <2>5. /\ IsFiniteSet(1 .. Len(times)) /\ IsFiniteSet(first .. Len(times))
        /\ Cardinality(first .. Len(times)) = Len(times) - first + 1
    <3>1. 1 \in Int /\ Len(times) \in Int /\ first \in Int /\ ~(first > Len(times))
      BY <2>2, <2>3
    <3> HIDE DEF times
    <3> QED
      BY <3>1, FS_Interval
  <2>6. IsFiniteSet(near)
    BY <2>4, <2>5, FS_Subset
  <2>7. Cardinality(first .. Len(times)) <= Cardinality(near) /\ Cardinality(near) \in Nat
    BY <2>4, <2>6, FS_Subset, FS_CardinalityType
  <2> HIDE DEF near
  <2>8. Cardinality(near) >= max_weight
    BY <2>2, <2>3, <2>5, <2>7
  <2> QED
    BY <2>8 DEF near
<1>2. LimiterInv /\ [Next]_vars =>
        [\A w \in Worker, k \in Key :
           received'[<<w, k>>] # received[<<w, k>>] /\ passed'[<<w, k>>] = passed[<<w, k>>]
             => Cardinality({i \in DOMAIN received[<<w, k>>] :
                               /\ received[<<w, k>>][i] < now + window_secs
                               /\ now < received[<<w, k>>][i] + window_secs}) >= max_weight]_vars
  BY <1>1
<1> QED
  BY <1>2, LimiterInvariant, PTL DEF Spec, RefusedForCause
-----------------------------------------------------------------------------
(* The limit *)

\* What the windows of one stretch of the clock may let through in window_secs.
Twice == 2 * max_weight - 1

Through(w, k, t) == {i \in DOMAIN passed[<<w, k>>] : InWindow(passed[<<w, k>>][i], t)}

\* How much of that may have been used up, by t + window_secs, when this is the counter:
\* nothing as long as its window ends before t; but for the first request, which came
\* before t, what it has let through if it began before; and once it begins after t, what
\* the one before it may have let through besides.
Allowed(entry, t) ==
  LET n == IF entry.count < max_weight THEN entry.count ELSE max_weight
  IN  IF now < entry.start \/ entry.start + window_secs <= t THEN 0
      ELSE IF entry.start < t THEN n - 1
      ELSE IF entry.start < t + window_secs THEN max_weight - 1 + n
      ELSE Twice

WindowsOK ==
  \A w \in Worker, k \in Key :
    /\ k \notin DOMAIN counters[w] => passed[<<w, k>>] = <<>>
    /\ k \in DOMAIN counters[w] =>
         /\ counters[w][k].count >= 1
         /\ \A t \in Time :
              Cardinality(Through(w, k, t)) <= stepsBack * Twice + Allowed(counters[w][k], t)

LEMMA ThroughFinite ==
  ASSUME TypeOK, NEW w \in Worker, NEW k \in Key, NEW t
  PROVE  IsFiniteSet(Through(w, k, t)) /\ Cardinality(Through(w, k, t)) \in Nat
<1>1. passed[<<w, k>>] \in Seq(Time)
  BY DEF TypeOK
<1>2. DOMAIN passed[<<w, k>>] = 1 .. Len(passed[<<w, k>>]) /\ Len(passed[<<w, k>>]) \in Nat
  BY <1>1
<1>3. IsFiniteSet(1 .. Len(passed[<<w, k>>]))
  BY <1>2, FS_Interval
<1>4. Through(w, k, t) \in SUBSET (1 .. Len(passed[<<w, k>>]))
  BY <1>2 DEF Through
<1> QED
  BY <1>3, <1>4, FS_Subset, FS_CardinalityType

\* A request that gets through counts once in the spans it lies in.
LEMMA ThroughGrows ==
  ASSUME TypeOK, NEW w \in Worker, NEW k \in Key, NEW t,
         passed'[<<w, k>>] = Append(passed[<<w, k>>], now)
  PROVE  /\ Cardinality(Through(w, k, t)') \in Nat
         /\ Cardinality(Through(w, k, t)') <=
              Cardinality(Through(w, k, t)) + (IF InWindow(now, t) THEN 1 ELSE 0)
<1> DEFINE s == passed[<<w, k>>]
           n == Len(s) + 1
<1>1. s \in Seq(Time) /\ Len(s) \in Nat /\ now \in Time
  BY DEF TypeOK
<1>2. IsFiniteSet(Through(w, k, t)) /\ Cardinality(Through(w, k, t)) \in Nat
  BY ThroughFinite
<1>3. /\ DOMAIN Append(s, now) = 1 .. n /\ DOMAIN s = 1 .. Len(s)
      /\ Append(s, now)[n] = now
      /\ \A i \in 1 .. Len(s) : Append(s, now)[i] = s[i]
  BY <1>1
<1>4. Through(w, k, t) = {i \in 1 .. Len(s) : InWindow(s[i], t)}
  BY <1>3 DEF Through
<1>5. Through(w, k, t)' = {i \in 1 .. n : InWindow(Append(s, now)[i], t)}
  BY <1>3 DEF Through, InWindow
<1>6. \A i : i \in 1 .. n <=> i \in 1 .. Len(s) \/ i = n
  BY <1>1
<1> HIDE DEF n, s
<1>7. CASE InWindow(now, t)
  <2>1. Through(w, k, t)' \subseteq Through(w, k, t) \cup {n}
    BY <1>3, <1>4, <1>5, <1>6
  <2>2. /\ IsFiniteSet(Through(w, k, t) \cup {n})
        /\ Cardinality(Through(w, k, t) \cup {n}) <= Cardinality(Through(w, k, t)) + 1
        /\ Cardinality(Through(w, k, t) \cup {n}) \in Nat
    <3>1. /\ IsFiniteSet(Through(w, k, t) \cup {n})
          /\ Cardinality(Through(w, k, t) \cup {n}) =
               IF n \in Through(w, k, t) THEN Cardinality(Through(w, k, t)) ELSE Cardinality(Through(w, k, t)) + 1
      BY <1>2, FS_AddElement
    <3> QED
      BY <1>2, <3>1
  <2>3. PICK A : A = Through(w, k, t)'
    OBVIOUS
  <2>4. IsFiniteSet(A) /\ Cardinality(A) <= Cardinality(Through(w, k, t) \cup {n})
    BY <2>1, <2>2, <2>3, FS_Subset
  <2>5. Cardinality(A) \in Nat
    BY <2>4, FS_CardinalityType
  <2> QED
    BY <1>2, <1>7, <2>2, <2>3, <2>4, <2>5
<1>8. CASE ~InWindow(now, t)
  <2>1. Through(w, k, t)' = Through(w, k, t)
    BY <1>3, <1>4, <1>5, <1>6, <1>8
  <2> QED
    BY <1>2, <1>8, <2>1
<1> QED
  BY <1>7, <1>8

LEMMA AllowedBound ==
  ASSUME NEW entry \in Entry, entry.count >= 1, NEW t \in Time
  PROVE  Allowed(entry, t) \in Nat /\ Allowed(entry, t) <= Twice /\ Twice \in Nat
<1>1. max_weight \in Nat \ {0} /\ entry.count \in Nat
  BY LimiterAssumption DEF Entry
<1> QED
  BY <1>1 DEF Allowed, Twice

\* What a request adds to its counter allows for its getting through.
LEMMA AllowedGrows ==
  ASSUME now \in Time, NEW entry \in Entry, NEW t \in Time, entry.count >= 1
  PROVE  /\ Counted(entry) \in Entry /\ Counted(entry).count >= 1
         /\ Allowed(Counted(entry), t) >= Allowed(entry, t)
         /\ ~Exceeded(Counted(entry)) =>
              Allowed(Counted(entry), t) >= Allowed(entry, t) + (IF InWindow(now, t) THEN 1 ELSE 0)
<1> DEFINE s == entry.start
           c == entry.count
           z == Counted(entry)
<1>1. /\ max_weight \in Nat \ {0} /\ window_secs \in Nat \ {0} /\ MaxTime \in Nat
      /\ s \in Nat /\ c \in Nat /\ now \in Nat /\ t \in Nat /\ c >= 1
  BY LimiterAssumption DEF Entry, Time
<1>2. CASE Elapsed(s) >= window_secs
  <2>1. z = [start |-> now, count |-> 1]
    BY <1>2 DEF Counted
  <2>2. z.start = now /\ z.count = 1 /\ z \in Entry
    BY <2>1 DEF Entry
  <2>3. now < s \/ now >= s + window_secs
    <3>1. CASE now >= s
      <4>1. now - s \in 0 .. Wide - 1 /\ Wide \in Nat
        BY <1>1, <3>1, LimiterAssumption DEF Time, Entry
      <4>2. (now - s) % Wide = now - s
        BY <4>1
      <4> QED
        BY <1>1, <1>2, <4>2 DEF Elapsed
    <3> QED
      BY <1>1, <3>1
  <2> HIDE DEF z, s, c
  <2>4. Allowed(z, t) >= Allowed(entry, t) + (IF InWindow(now, t) THEN 1 ELSE 0)
    BY <1>1, <2>2, <2>3 DEF Allowed, Twice, InWindow, s, c
  <2>5. Allowed(z, t) >= Allowed(entry, t)
    BY <1>1, <2>2, <2>3 DEF Allowed, Twice, s, c
  <2> QED
    BY <1>1, <2>2, <2>4, <2>5 DEF z
<1>3. CASE ~(Elapsed(s) >= window_secs)
  <2>1. z = [entry EXCEPT !.count = c + 1]
    BY <1>3 DEF Counted
  <2>2. z.start = s /\ z.count = c + 1 /\ z \in Entry
    BY <1>1, <2>1 DEF Entry
  <2>3. InWindow(now, s)
    BY <1>3, ElapsedInWindow DEF Entry
  <2>4. Exceeded(z) <=> c + 1 > max_weight
    BY <2>2 DEF Exceeded
  <2> HIDE DEF z, s, c
  <2>5. Allowed(z, t) >= Allowed(entry, t)
    BY <1>1, <2>2, <2>3 DEF Allowed, Twice, InWindow, s, c
  <2>6. ~(c + 1 > max_weight) => Allowed(z, t) >= Allowed(entry, t) + (IF InWindow(now, t) THEN 1 ELSE 0)
    BY <1>1, <2>2, <2>3 DEF Allowed, Twice, InWindow, s, c
  <2> QED
    BY <1>1, <2>2, <2>4, <2>5, <2>6 DEF z
<1> QED
  BY <1>2, <1>3

\* The first request of a client makes a counter that allows for it.
LEMMA AllowedFirst ==
  ASSUME now \in Time, NEW t \in Time
  PROVE  LET z == Counted([start |-> now, count |-> 0])
         IN  /\ z \in Entry /\ z.count = 1
             /\ Allowed(z, t) >= (IF InWindow(now, t) THEN 1 ELSE 0)
<1>1. /\ max_weight \in Nat \ {0} /\ window_secs \in Nat \ {0} /\ Wide \in Nat \ {0}
      /\ now \in Nat /\ t \in Nat
  BY LimiterAssumption DEF Time
<1>2. PICK e : e = [start |-> now, count |-> 0]
  OBVIOUS
<1>3. e.start = now /\ e.count = 0 /\ e \in Entry
  BY <1>2 DEF Entry
<1>4. ~(Elapsed(now) >= window_secs)
  <2>1. now - now = 0 /\ 0 % Wide = 0
    BY <1>1
  <2> QED
    BY <1>1, <2>1 DEF Elapsed
<1>5. Counted(e) = [e EXCEPT !.count = 0 + 1]
  BY <1>3, <1>4 DEF Counted
<1>6. PICK z : z = Counted(e)
  OBVIOUS
<1>7. z.start = now /\ z.count = 1 /\ z \in Entry
  BY <1>3, <1>5, <1>6 DEF Entry
<1>8. Allowed(z, t) >= (IF InWindow(now, t) THEN 1 ELSE 0)
  BY <1>1, <1>7 DEF Allowed, Twice, InWindow
<1> QED
  BY <1>2, <1>6, <1>7, <1>8

LEMMA CallKeepsWindows ==
  ASSUME LimiterInv, WindowsOK, NEW v \in Worker, NEW q \in Key, Call(v, q)
  PROVE  WindowsOK'
<1> DEFINE entry == Counted(EntryOf(v, q))
<1>0. TypeOK /\ now \in Time /\ stepsBack \in Nat /\ now' = now /\ stepsBack' = stepsBack
  <2>1. TypeOK
    BY DEF LimiterInv
  <2>2. now \in Time /\ stepsBack \in 0 .. MaxStepsBack
    BY <2>1 DEF TypeOK
  <2>3. now' = now /\ stepsBack' = stepsBack
    BY DEF Call
  <2> QED
    BY <2>1, <2>2, <2>3, LimiterAssumption
<1>1. /\ counters \in [Worker -> Table] /\ passed \in [Worker \X Key -> Seq(Time)]
      /\ \A w \in Worker : counters[w] \in [DOMAIN counters[w] -> Entry]
  BY DEF LimiterInv, TypeOK
<1>2. /\ \A w \in Worker, k \in Key : <<w, k>> # <<v, q>> => passed'[<<w, k>>] = passed[<<w, k>>]
      /\ \/ Exceeded(entry) /\ passed'[<<v, q>>] = passed[<<v, q>>]
         \/ ~Exceeded(entry) /\ passed'[<<v, q>>] = Append(passed[<<v, q>>], now)
  BY <1>1 DEF Call
<1>3. /\ DOMAIN counters'[v] = DOMAIN counters[v] \cup {q}
      /\ counters'[v][q] = entry
      /\ \A k \in DOMAIN counters[v] \ {q} : counters'[v][k] = counters[v][k]
      /\ \A w \in Worker \ {v} : counters'[w] = counters[w]
  BY <1>1 DEF Call
<1> HIDE DEF entry
<1>4. \A e, t : Allowed(e, t)' = Allowed(e, t)
  BY <1>0 DEF Allowed
<1>5. ASSUME NEW w \in Worker, NEW k \in Key, ~(w = v /\ k = q)
      PROVE  /\ k \notin DOMAIN counters'[w] => passed'[<<w, k>>] = <<>>
             /\ k \in DOMAIN counters'[w] =>
                  /\ counters'[w][k].count >= 1
                  /\ \A t \in Time :
                       Cardinality(Through(w, k, t)') <= stepsBack' * Twice + Allowed(counters[w][k], t)'
  <2>1. passed'[<<w, k>>] = passed[<<w, k>>]
    BY <1>2, <1>5
  <2>2. (k \in DOMAIN counters'[w] <=> k \in DOMAIN counters[w])
        /\ (k \in DOMAIN counters[w] => counters'[w][k] = counters[w][k])
    BY <1>3, <1>5
  <2>3. \A t : Through(w, k, t)' = Through(w, k, t)
    BY <2>1 DEF Through, InWindow
  <2> QED
    BY <1>0, <1>4, <2>1, <2>2, <2>3 DEF WindowsOK
<1>6. entry.count >= 1 /\ \A t \in Time :
        Cardinality(Through(v, q, t)') <= stepsBack * Twice + Allowed(entry, t)
  <2>0. Twice \in Nat /\ stepsBack * Twice \in Nat
    <3>1. Twice \in Nat
      BY LimiterAssumption DEF Twice
    <3> QED
      BY <1>0, <3>1
  <2>1. ASSUME NEW t \in Time, NEW before \in Int,
               Cardinality(Through(v, q, t)) <= stepsBack * Twice + before,
               entry \in Entry, entry.count >= 1, Allowed(entry, t) >= before,
               ~Exceeded(entry) => Allowed(entry, t) >= before + (IF InWindow(now, t) THEN 1 ELSE 0)
        PROVE  Cardinality(Through(v, q, t)') <= stepsBack * Twice + Allowed(entry, t)
    <3>1. Cardinality(Through(v, q, t)) \in Nat
      BY <1>0, ThroughFinite
    <3>2. Allowed(entry, t) \in Nat
      BY <2>1, AllowedBound
    <3>3. CASE passed'[<<v, q>>] = passed[<<v, q>>]
      <4>1. Through(v, q, t)' = Through(v, q, t)
        BY <3>3 DEF Through, InWindow
      <4> QED
        BY <2>0, <2>1, <3>1, <3>2, <4>1
    <3>4. CASE ~Exceeded(entry) /\ passed'[<<v, q>>] = Append(passed[<<v, q>>], now)
      <4>1. /\ Cardinality(Through(v, q, t)') \in Nat
            /\ Cardinality(Through(v, q, t)') <=
                 Cardinality(Through(v, q, t)) + (IF InWindow(now, t) THEN 1 ELSE 0)
        BY <1>0, <3>4, ThroughGrows
      <4>2. PICK m \in {0, 1} : m = (IF InWindow(now, t) THEN 1 ELSE 0)
        OBVIOUS
      <4>3. Allowed(entry, t) >= before + m
        BY <2>1, <3>4, <4>2
      <4>4. PICK a : a = Cardinality(Through(v, q, t)')
        OBVIOUS
      <4>5. a <= Cardinality(Through(v, q, t)) + m
        BY <4>1, <4>2, <4>4
      <4>6. a \in Int
        BY <4>1, <4>4
      <4>7. a <= stepsBack * Twice + Allowed(entry, t)
        BY <2>0, <2>1, <3>1, <3>2, <4>3, <4>5, <4>6
      <4> QED
        BY <4>4, <4>7
    <3> QED
      BY <1>2, <3>3, <3>4
  <2>2. CASE q \in DOMAIN counters[v]
    <3>1. PICK old : old = counters[v][q]
      OBVIOUS
    <3>2. old \in Entry /\ old.count >= 1 /\ entry = Counted(old)
      BY <1>1, <2>2, <3>1 DEF WindowsOK, EntryOf, entry
    <3>3. ASSUME NEW t \in Time
          PROVE  /\ Cardinality(Through(v, q, t)) <= stepsBack * Twice + Allowed(old, t)
                 /\ Allowed(old, t) \in Int
                 /\ entry \in Entry /\ entry.count >= 1
                 /\ Allowed(entry, t) >= Allowed(old, t)
                 /\ ~Exceeded(entry) =>
                      Allowed(entry, t) >= Allowed(old, t) + (IF InWindow(now, t) THEN 1 ELSE 0)
      <4>1. Cardinality(Through(v, q, t)) <= stepsBack * Twice + Allowed(old, t)
        BY <2>2, <3>1 DEF WindowsOK
      <4>2. Allowed(old, t) \in Nat
        BY <3>2, AllowedBound
      <4>3. /\ entry \in Entry /\ entry.count >= 1
            /\ Allowed(entry, t) >= Allowed(old, t)
            /\ ~Exceeded(entry) =>
                 Allowed(entry, t) >= Allowed(old, t) + (IF InWindow(now, t) THEN 1 ELSE 0)
        BY <1>0, <3>2, AllowedGrows
      <4> QED
        BY <4>1, <4>2, <4>3
    <3>4. entry.count >= 1
      <4>1. 0 \in Time
        BY LimiterAssumption DEF Time
      <4> QED
        BY <3>3, <4>1
    <3> QED
      BY <2>1, <3>3, <3>4
  <2>3. CASE q \notin DOMAIN counters[v]
    <3>1. entry = Counted([start |-> now, count |-> 0])
      BY <2>3 DEF EntryOf, entry
    <3>2. passed[<<v, q>>] = <<>>
      BY <2>3 DEF WindowsOK
    <3>3. ASSUME NEW t \in Time
          PROVE  /\ entry \in Entry /\ entry.count = 1
                 /\ Allowed(entry, t) >= (IF InWindow(now, t) THEN 1 ELSE 0)
      BY <1>0, <3>1, AllowedFirst
    <3>4. ASSUME NEW t \in Time
          PROVE  /\ Cardinality(Through(v, q, t)) <= stepsBack * Twice + 0
                 /\ entry \in Entry /\ entry.count >= 1 /\ Allowed(entry, t) >= 0
                 /\ Allowed(entry, t) >= 0 + (IF InWindow(now, t) THEN 1 ELSE 0)
      <4>1. Through(v, q, t) = {}
        BY <3>2 DEF Through
      <4>2. Cardinality(Through(v, q, t)) = 0
        BY <4>1, FS_EmptySet
      <4>3. entry \in Entry /\ entry.count >= 1
        BY <3>3
      <4>4. Allowed(entry, t) \in Nat
        BY <4>3, AllowedBound
      <4> QED
        BY <2>0, <3>3, <4>2, <4>3, <4>4
    <3>5. entry.count >= 1
      <4>1. 0 \in Time
        BY LimiterAssumption DEF Time
      <4> QED
        BY <3>4, <4>1
    <3> QED
      BY <2>1, <3>4, <3>5
  <2> QED
    BY <2>2, <2>3
<1>7. ASSUME NEW w \in Worker, NEW k \in Key
      PROVE  /\ k \notin DOMAIN counters'[w] => passed'[<<w, k>>] = <<>>
             /\ k \in DOMAIN counters'[w] =>
                  /\ counters'[w][k].count >= 1
                  /\ \A t \in Time :
                       Cardinality(Through(w, k, t)') <= stepsBack' * Twice + Allowed(counters[w][k], t)'
  <2>1. CASE w = v /\ k = q
    BY <1>0, <1>3, <1>4, <1>6, <2>1
  <2> QED
    BY <1>5, <2>1
<1> QED
  BY <1>7 DEF WindowsOK, Twice

\* Setting the clock back forgets at most what one stretch of it lets through.
LEMMA ClockKeepsWindows ==
  ASSUME LimiterInv, WindowsOK, Tick \/ StepBack
  PROVE  WindowsOK'
<1>0. TypeOK /\ now \in Nat /\ now' \in Nat /\ stepsBack \in Nat /\ Twice \in Nat /\ max_weight \in Nat \ {0}
      /\ window_secs \in Nat \ {0}
  <2>1. TypeOK
    BY DEF LimiterInv
  <2>2. now \in 0 .. MaxTime /\ stepsBack \in 0 .. MaxStepsBack
    BY <2>1 DEF TypeOK, Time
  <2>3. now \in Nat /\ stepsBack \in Nat
    BY <2>2, LimiterAssumption
  <2>4. now' = now + 1 \/ now' \in 0 .. MaxTime
    BY DEF Tick, StepBack, Time
  <2>5. now' \in Nat
    BY <2>3, <2>4, LimiterAssumption
  <2>6. Twice \in Nat
    BY LimiterAssumption DEF Twice
  <2> QED
    BY <2>1, <2>3, <2>5, <2>6, LimiterAssumption
<1>1. UNCHANGED <<counters, received, passed>>
  BY DEF Tick, StepBack
<1>2. \A w, k, t : Through(w, k, t)' = Through(w, k, t)
  BY <1>1 DEF Through, InWindow
<1>3. ASSUME NEW e \in Entry, e.count >= 1, NEW t \in Time
      PROVE  Allowed(e, t)' \in Nat /\ stepsBack * Twice + Allowed(e, t) <= stepsBack' * Twice + Allowed(e, t)'
  <2>1. Allowed(e, t) \in Nat /\ Allowed(e, t) <= Twice
    BY <1>3, AllowedBound
  <2>2. e.start \in Nat /\ e.count \in Nat /\ t \in Nat
    BY LimiterAssumption DEF Entry, Time
  <2>3. Allowed(e, t)' \in Nat
    BY <1>0, <1>3, <2>2 DEF Allowed, Twice
  <2>4. CASE Tick
    <3>1. now' = now + 1 /\ stepsBack' = stepsBack
      BY <2>4 DEF Tick
    <3>2. Allowed(e, t) <= Allowed(e, t)'
      BY <1>0, <1>3, <2>2, <3>1 DEF Allowed, Twice
    <3>3. stepsBack * Twice \in Nat
      BY <1>0
    <3> QED
      BY <2>1, <2>3, <3>1, <3>2, <3>3
  <2>5. CASE StepBack
    <3>1. stepsBack' = stepsBack + 1
      BY <2>5 DEF StepBack
    <3>2. (stepsBack + 1) * Twice = stepsBack * Twice + Twice /\ stepsBack * Twice \in Nat
      BY <1>0
    <3> QED
      BY <1>0, <2>1, <2>3, <3>1, <3>2
  <2> QED
    BY <2>3, <2>4, <2>5
<1>4. ASSUME NEW w \in Worker, NEW k \in Key
      PROVE  /\ k \notin DOMAIN counters'[w] => passed'[<<w, k>>] = <<>>
             /\ k \in DOMAIN counters'[w] =>
                  /\ counters'[w][k].count >= 1
                  /\ \A t \in Time :
                       Cardinality(Through(w, k, t)') <= stepsBack' * Twice + Allowed(counters[w][k], t)'
  <2>1. CASE k \in DOMAIN counters[w]
    <3>1. PICK e : e = counters[w][k]
      OBVIOUS
    <3>2. counters'[w][k] = e /\ k \in DOMAIN counters'[w]
      BY <1>1, <2>1, <3>1
    <3>3. e \in Entry /\ e.count >= 1
      BY <2>1, <3>1 DEF LimiterInv, TypeOK, WindowsOK
    <3>4. ASSUME NEW t \in Time
          PROVE  Cardinality(Through(w, k, t)') <= stepsBack' * Twice + Allowed(e, t)'
      <4>1. Cardinality(Through(w, k, t)) <= stepsBack * Twice + Allowed(e, t)
        BY <2>1, <3>1 DEF WindowsOK
      <4>2. Cardinality(Through(w, k, t)) \in Nat
        BY <1>0, ThroughFinite
      <4>3. Allowed(e, t)' \in Nat /\ stepsBack * Twice + Allowed(e, t) <= stepsBack' * Twice + Allowed(e, t)'
        BY <1>3, <3>3
      <4>4. Allowed(e, t) \in Nat /\ stepsBack * Twice \in Nat /\ stepsBack' * Twice \in Nat
        <5>1. stepsBack' \in Nat
          BY <1>0 DEF Tick, StepBack
        <5>2. Allowed(e, t) \in Nat
          BY <3>3, AllowedBound
        <5>3. \A a, b \in Nat : a * b \in Nat
          OBVIOUS
        <5> QED
          BY <1>0, <5>1, <5>2, <5>3
      <4> QED
        BY <1>2, <4>1, <4>2, <4>3, <4>4
    <3> QED
      BY <3>2, <3>3, <3>4
  <2>2. CASE k \notin DOMAIN counters[w]
    BY <1>1, <2>2 DEF WindowsOK
  <2> QED
    BY <2>1, <2>2
<1> QED
  BY <1>4 DEF WindowsOK, Twice

\* What gets through at all workers together.
LEMMA PassedBound ==
  ASSUME TypeOK, NEW k \in Key, NEW t \in Time, NEW n \in Nat,
         \A w \in Worker : Cardinality(Through(w, k, t)) <= n
  PROVE  Cardinality(Passed(k, t)) <= Cardinality(Worker) * n
<1>1. PICK f : f = [w \in Worker |-> {w} \X Through(w, k, t)]
  OBVIOUS
<1>2. ASSUME NEW w \in Worker
      PROVE  IsFiniteSet(f[w]) /\ Cardinality(f[w]) <= n
  <2>1. IsFiniteSet(Through(w, k, t)) /\ Cardinality(Through(w, k, t)) \in Nat
    BY ThroughFinite
  <2>2. IsFiniteSet({w}) /\ Cardinality({w}) = 1
    BY FS_Singleton
  <2>3. /\ IsFiniteSet({w} \X Through(w, k, t))
        /\ Cardinality({w} \X Through(w, k, t)) = 1 * Cardinality(Through(w, k, t))
    BY <2>1, <2>2, FS_Product
  <2> QED
    BY <1>1, <2>1, <2>3
<1>3. IsFiniteSet(Worker) /\ Cardinality(Worker) \in Nat
  BY LimiterAssumption, FS_CardinalityType
<1>4. IsFiniteSet(Pieces(f, Worker)) /\ Cardinality(Pieces(f, Worker)) <= Cardinality(Worker) * n
  BY <1>2, <1>3, PiecesBound
<1>5. Passed(k, t) \subseteq Pieces(f, Worker)
  <2> SUFFICES ASSUME NEW p \in Passed(k, t) PROVE p \in Pieces(f, Worker)
    OBVIOUS
  <2>1. PICK w \in Worker, i \in 1 .. MaxRequests : p = <<w, i>>
    BY DEF Passed
  <2>2. i <= Len(passed[<<w, k>>]) /\ InWindow(passed[<<w, k>>][i], t)
    BY <2>1 DEF Passed, InWindow
  <2>3. DOMAIN passed[<<w, k>>] = 1 .. Len(passed[<<w, k>>]) /\ Len(passed[<<w, k>>]) \in Nat
    BY DEF TypeOK
  <2>4. i \in 1 .. Len(passed[<<w, k>>])
    BY <2>2, <2>3, LimiterAssumption
  <2>5. i \in Through(w, k, t)
    BY <2>2, <2>3, <2>4 DEF Through
  <2>6. p \in f[w]
    BY <1>1, <2>1, <2>5
  <2> QED
    BY <2>6 DEF Pieces
<1>6. IsFiniteSet(Passed(k, t)) /\ Cardinality(Passed(k, t)) <= Cardinality(Pieces(f, Worker))
  BY <1>4, <1>5, FS_Subset
<1>7. Cardinality(Passed(k, t)) \in Nat /\ Cardinality(Pieces(f, Worker)) \in Nat /\ Cardinality(Worker) * n \in Nat
  BY <1>3, <1>4, <1>6, FS_CardinalityType
<1> QED
  BY <1>4, <1>6, <1>7

\* However requests and the clock go, a client gets through at most twice the limit, less
\* one, per worker in any stretch of window_secs (rate_limiter.rs, call), and as often
\* again for each time the clock was set back.
THEOREM LimitIsKept == Spec => []LimitHolds
<1>1. Init => WindowsOK
  BY DEF Init, WindowsOK
<1>2. LimiterInv /\ WindowsOK /\ [Next]_vars => WindowsOK'
  <2> SUFFICES ASSUME LimiterInv, WindowsOK, [Next]_vars PROVE WindowsOK'
    OBVIOUS
  <2>1. ASSUME NEW w \in Worker, NEW k \in Key, Call(w, k) PROVE WindowsOK'
    BY <2>1, CallKeepsWindows
  <2>2. CASE Tick \/ StepBack
    BY <2>2, ClockKeepsWindows
  <2>3. CASE UNCHANGED vars
    <3>1. UNCHANGED <<now, stepsBack, counters, received, passed>>
      BY <2>3 DEF vars
    <3>2. \A w, k, t : Through(w, k, t)' = Through(w, k, t)
      BY <3>1 DEF Through, InWindow
    <3>3. \A e, t : Allowed(e, t)' = Allowed(e, t)
      BY <3>1 DEF Allowed
    <3>4. \A w \in Worker, k \in Key : k \in DOMAIN counters[w] =>
            \A t : Allowed(counters[w][k], t)' = Allowed(counters[w][k], t)
      BY <3>1, <3>3
    <3>5. ASSUME NEW w \in Worker, NEW k \in Key
          PROVE  /\ k \notin DOMAIN counters'[w] => passed'[<<w, k>>] = <<>>
                 /\ k \in DOMAIN counters'[w] =>
                      /\ counters'[w][k].count >= 1
                      /\ \A t \in Time :
                           Cardinality(Through(w, k, t)') <= stepsBack' * Twice + Allowed(counters[w][k], t)'
      <4>1. ASSUME NEW t \in Time, k \in DOMAIN counters[w]
            PROVE  Cardinality(Through(w, k, t)') <= stepsBack' * Twice + Allowed(counters[w][k], t)'
        <5>1. Cardinality(Through(w, k, t)) <= stepsBack * Twice + Allowed(counters[w][k], t)
          BY <4>1 DEF WindowsOK
        <5>2. Cardinality(Through(w, k, t)') = Cardinality(Through(w, k, t))
          BY <3>2
        <5>3. Allowed(counters[w][k], t)' = Allowed(counters[w][k], t)
          BY <3>4, <4>1
        <5> QED
          BY <3>1, <5>1, <5>2, <5>3
      <4>2. /\ k \notin DOMAIN counters[w] => passed[<<w, k>>] = <<>>
            /\ k \in DOMAIN counters[w] => counters[w][k].count >= 1
        BY DEF WindowsOK
      <4> QED
        BY <3>1, <4>1, <4>2
    <3> QED
      BY <3>5 DEF WindowsOK, Twice
  <2> QED
    BY <2>1, <2>2, <2>3 DEF Next, Quiet
<1>3. LimiterInv /\ WindowsOK => LimitHolds
  <2> SUFFICES ASSUME LimiterInv, WindowsOK, NEW k \in Key, NEW t \in Time
               PROVE  Cardinality(Passed(k, t)) <=
                        Cardinality(Worker) * ((stepsBack + 1) * (2 * max_weight - 1))
    BY DEF LimitHolds
  <2>1. TypeOK /\ stepsBack \in Nat /\ Twice \in Nat
    BY LimiterAssumption DEF LimiterInv, TypeOK, Twice
  <2>2. (stepsBack + 1) * Twice = stepsBack * Twice + Twice /\ stepsBack * Twice \in Nat
        /\ (stepsBack + 1) * Twice \in Nat
    BY <2>1
  <2>3. ASSUME NEW w \in Worker
        PROVE  Cardinality(Through(w, k, t)) <= (stepsBack + 1) * Twice
    <3>1. CASE k \in DOMAIN counters[w]
      <4>1. PICK e : e = counters[w][k]
        OBVIOUS
      <4>2. e \in Entry /\ e.count >= 1
        BY <3>1, <4>1 DEF LimiterInv, TypeOK, WindowsOK
      <4>3. Cardinality(Through(w, k, t)) <= stepsBack * Twice + Allowed(e, t)
        BY <3>1, <4>1 DEF WindowsOK
      <4>4. Allowed(e, t) \in Nat /\ Allowed(e, t) <= Twice
        BY <4>2, AllowedBound
      <4>5. Cardinality(Through(w, k, t)) \in Nat
        BY <2>1, ThroughFinite
      <4> QED
        BY <2>1, <2>2, <4>3, <4>4, <4>5
    <3>2. CASE k \notin DOMAIN counters[w]
      <4>1. Through(w, k, t) = {}
        BY <3>2 DEF WindowsOK, Through
      <4> QED
        BY <2>2, <4>1, FS_EmptySet
    <3> QED
      BY <3>1, <3>2
  <2>4. Cardinality(Passed(k, t)) <= Cardinality(Worker) * ((stepsBack + 1) * Twice)
    BY <2>1, <2>2, <2>3, PassedBound
  <2> QED
    BY <2>4 DEF Twice
<1> QED
  BY LimiterInvariant, <1>1, <1>2, <1>3, PTL DEF Spec
=============================================================================
