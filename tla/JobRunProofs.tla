---------------------------- MODULE JobRunProofs ----------------------------
(***************************************************************************)
(* Proofs about JobRun, for any number of workers and any limit: the calls *)
(* of a worker keep their distance, and no directory is lost.              *)
(***************************************************************************)
EXTENDS JobRun, TLAPS

-----------------------------------------------------------------------------
(***************************************************************************)
(* Arithmetic                                                              *)
(***************************************************************************)

\* GEMINI_RPM_LIMIT is clamped, and no more than one call per unit of time.
LEMMA IntervalPositive == Interval \in Nat \ {0}
<1> DEFINE r == IF Rpm < 1 THEN 1 ELSE Rpm
<1>1. r \in Nat \ {0} /\ r <= Minute /\ Minute \in Nat
  BY RpmAssumption, MinuteAssumption
<1>2. ASSUME NEW m \in Nat, NEW q \in Nat \ {0}, q <= m
      PROVE  m \div q \in Nat \ {0}
  BY <1>2
<1> HIDE DEF r
<1>3. Minute \div r \in Nat \ {0}
  BY <1>1, <1>2
<1> QED
  BY <1>3 DEF Interval, r

\* One interval more.
LEMMA OneMore ==
    ASSUME NEW n \in Int
    PROVE  /\ Intervals(n) = Intervals(n - 1) + Interval
           /\ Intervals(n) \in Int /\ Intervals(n - 1) \in Int
<1>1. ASSUME NEW i \in Int
      PROVE  n * i = (n - 1) * i + i /\ n * i \in Int /\ (n - 1) * i \in Int
  OBVIOUS
<1> QED
  BY <1>1, IntervalPositive DEF Intervals

\* An interval after time t all n intervals since time b have passed, if n - 1
\* had passed at time a, before t.
LEMMA AfterInterval ==
    ASSUME NEW a \in Int, NEW b \in Int, NEW t \in Int, NEW n \in Int,
           a - b >= Intervals(n - 1), a <= t
    PROVE  t + Interval - b >= Intervals(n)
  BY OneMore, IntervalPositive

\* The same the other way: the tick before time x came at time t or earlier.
LEMMA BeforeInterval ==
    ASSUME NEW x \in Int, NEW b \in Int, NEW t \in Int, NEW n \in Int,
           x - b >= Intervals(n), x <= t + Interval
    PROVE  t - b >= Intervals(n - 1)
  BY OneMore, IntervalPositive

LEMMA IntervalsInt == \A n \in Int : Intervals(n) \in Int
  BY OneMore

LEMMA NoIntervals == Intervals(0) = 0
  BY IntervalPositive DEF Intervals

LEMMA SameIntervals == \A n : Intervals(n)' = Intervals(n)
  BY DEF Intervals, Interval

-----------------------------------------------------------------------------
(***************************************************************************)
(* Types                                                                   *)
(***************************************************************************)
LEMMA TypeInit == Init => TypeOK
<1> SUFFICES ASSUME Init PROVE TypeOK
  OBVIOUS
<1>1. pc \in [Workers -> WithDir \cup {"idle"}]
  BY DEF Init
<1>2. todo \in [Workers -> 0..CallsPerJob]
  BY CallsPerJobAssumption DEF Init
<1>3. dirOf \in [Workers -> Dirs \cup {0}] /\ next \in [Workers -> Nat]
  BY DEF Init
<1>4. ticks \in [Workers -> 0..1]
  BY DEF Init
<1>5. calls \in [Workers -> Seq(Nat)]
  BY DEF Init
<1>6. now \in Nat /\ runs \in 0..MaxRuns
  BY BoundsAssumption DEF Init
<1>8. ctxDone \in BOOLEAN /\ hasKey \in BOOLEAN
  BY Zenon DEF Init
<1>7. dirs \in SUBSET Dirs /\ left \in SUBSET Dirs
  BY DEF Init
<1> QED
  BY <1>1, <1>2, <1>3, <1>4, <1>5, <1>6, <1>7, <1>8 DEF TypeOK

\* The variables of a process that starts.
LEMMA FreshTypes ==
    ASSUME Fresh
    PROVE  /\ pc' \in [Workers -> WithDir \cup {"idle"}]
           /\ todo' \in [Workers -> 0..CallsPerJob]
           /\ dirOf' \in [Workers -> Dirs \cup {0}]
           /\ next' \in [Workers -> Nat]
           /\ ticks' \in [Workers -> 0..1]
           /\ ctxDone' \in BOOLEAN /\ hasKey' \in BOOLEAN
<1>1. pc' \in [Workers -> WithDir \cup {"idle"}]
  BY DEF Fresh
<1>2. todo' \in [Workers -> 0..CallsPerJob]
  BY CallsPerJobAssumption DEF Fresh
<1>3. dirOf' \in [Workers -> Dirs \cup {0}] /\ next' \in [Workers -> Nat]
  BY DEF Fresh
<1>4. ticks' \in [Workers -> 0..1]
  BY DEF Fresh
<1> QED
  BY <1>1, <1>2, <1>3, <1>4 DEF Fresh

LEMMA TypeNext == TypeOK /\ [Next]_vars => TypeOK'
<1> SUFFICES ASSUME TypeOK, [Next]_vars PROVE TypeOK'
  OBVIOUS
<1> USE BoundsAssumption, CallsPerJobAssumption
<1>1. ASSUME NEW w \in Workers, MkdirTemp(w) PROVE TypeOK'
  BY <1>1 DEF MkdirTemp, Goto, TypeOK, WithDir, Dirs
<1>2. ASSUME NEW w \in Workers, CloneFails(w) PROVE TypeOK'
  BY <1>2 DEF CloneFails, Goto, Cleanup, TypeOK, WithDir
<1>3. ASSUME NEW w \in Workers, Cloned(w) PROVE TypeOK'
  BY <1>3 DEF Cloned, Goto, TypeOK, WithDir
<1>4. ASSUME NEW w \in Workers, Leave(w) PROVE TypeOK'
  BY <1>4 DEF Leave, Return, Goto, Cleanup, Stop, TypeOK, WithDir
<1>5. ASSUME NEW w \in Workers, Hang(w) PROVE TypeOK'
  BY <1>5 DEF Hang, Goto, TypeOK, WithDir
<1>6. ASSUME NEW w \in Workers, MakeLimiter(w) PROVE TypeOK'
  <2>1. pc' \in [Workers -> WithDir \cup {"idle"}] /\ todo' \in [Workers -> 0..CallsPerJob]
    BY <1>6 DEF MakeLimiter, Goto, TypeOK, WithDir
  <2>2. next' \in [Workers -> Nat] /\ ticks' \in [Workers -> 0..1]
    <3>1. CASE hasKey
      <4>1. /\ next' = [next EXCEPT ![w] = now + Interval]
            /\ ticks' = [ticks EXCEPT ![w] = 0]
        BY <1>6, <3>1 DEF MakeLimiter, NewRateLimiter
      <4>2. now + Interval \in Nat
        BY IntervalPositive DEF TypeOK
      <4> QED
        BY <4>1, <4>2 DEF TypeOK
    <3>2. CASE ~hasKey
      BY <1>6, <3>2 DEF MakeLimiter, TypeOK
    <3> QED
      BY <3>1, <3>2
  <2> QED
    BY <1>6, <2>1, <2>2 DEF MakeLimiter, TypeOK
<1>7. ASSUME NEW w \in Workers, Wait(w) PROVE TypeOK'
  <2>1. pc' \in [Workers -> WithDir \cup {"idle"}] /\ todo' \in [Workers -> 0..CallsPerJob]
    BY <1>7 DEF Wait, Goto, TypeOK, WithDir
  <2>2. ticks' \in [Workers -> 0..1] /\ calls' \in [Workers -> Seq(Nat)]
    <3>1. CASE ticks' = [ticks EXCEPT ![w] = 0] /\ calls' = [calls EXCEPT ![w] = Append(@, now)]
      <4>1. Append(calls[w], now) \in Seq(Nat)
        BY DEF TypeOK
      <4> QED
        BY <3>1, <4>1 DEF TypeOK
    <3>2. CASE UNCHANGED <<ticks, calls>>
      BY <3>2 DEF TypeOK
    <3> QED
      BY <1>7, <3>1, <3>2 DEF Wait
  <2> QED
    BY <1>7, <2>1, <2>2 DEF Wait, TypeOK
<1>8. ASSUME NEW w \in Workers, CallReturns(w) PROVE TypeOK'
  BY <1>8 DEF CallReturns, Goto, TypeOK, WithDir
<1>9. ASSUME NEW w \in Workers, Tick(w) PROVE TypeOK'
  BY <1>9, IntervalPositive DEF Tick, TypeOK, WithDir
<1>10. ASSUME NEW w \in Workers, Panic(w) PROVE TypeOK'
  BY <1>10, FreshTypes DEF Panic, TypeOK
<1>11. ASSUME Signal PROVE TypeOK'
  BY <1>11 DEF Signal, runVars, TypeOK, WithDir
<1>12. ASSUME Crash PROVE TypeOK'
  BY <1>12, FreshTypes DEF Crash, TypeOK
<1>13. ASSUME Exit PROVE TypeOK'
  BY <1>13, FreshTypes DEF Exit, TypeOK
<1>14. ASSUME Pass PROVE TypeOK'
  BY <1>14 DEF Pass, runVars, TypeOK, WithDir
<1>15. ASSUME UNCHANGED vars PROVE TypeOK'
  BY <1>15 DEF vars, runVars, TypeOK, WithDir
<1> QED
  BY <1>1, <1>2, <1>3, <1>4, <1>5, <1>6, <1>7, <1>8, <1>9, <1>10, <1>11, <1>12, <1>13, <1>14, <1>15 DEF Next

-----------------------------------------------------------------------------
(***************************************************************************)
(* The limiters                                                            *)
(***************************************************************************)

\* A step that makes no call, leaves the tickers alone, and neither enters nor
\* leaves the generate loop.
LEMMA TickersIdle ==
    ASSUME TimeInv, UNCHANGED <<now, hasKey, next, ticks, calls>>,
           \A v \in Workers : pc'[v] \in WithLimiter <=> pc[v] \in WithLimiter
    PROVE  TimeInv'
<1>1. Interval' = Interval
  BY DEF Interval
<1> QED
  BY <1>1, SameIntervals DEF TimeInv, TickSoon, Spacing, Past, TickAhead

\* The end of a process stops all tickers.
LEMMA TickersEnd ==
    ASSUME TimeInv, Fresh, UNCHANGED <<now, calls>>
    PROVE  TimeInv'
  BY DEF TimeInv, TickSoon, Spacing, Past, TickAhead, Fresh, WithLimiter

\* A limiter that is made now ticks after every call that was made.
LEMMA MadeKeeps ==
    ASSUME TypeOK, TimeInv, NEW w \in Workers, MakeLimiter(w)
    PROVE  TimeInv'
<1> USE IntervalPositive, SameIntervals
<1>0. Interval' = Interval
  BY DEF Interval
<1>1. CASE ~hasKey
  <2>1. UNCHANGED <<now, hasKey, next, ticks, calls>>
    BY <1>1 DEF MakeLimiter
  <2>2. next[w] = 0 /\ \A v \in Workers : next[v] = 0
    BY <1>1 DEF TimeInv, TickSoon
  <2> QED
    BY <1>0, <1>1, <2>1, <2>2 DEF TimeInv, TickSoon, Spacing, Past, TickAhead
<1>2. CASE hasKey
  <2>1. /\ next' = [next EXCEPT ![w] = now + Interval]
        /\ ticks' = [ticks EXCEPT ![w] = 0]
        /\ pc' = [pc EXCEPT ![w] = "generate"]
        /\ UNCHANGED <<now, calls, hasKey>>
    BY <1>2 DEF MakeLimiter, NewRateLimiter, Goto
  <2>2. TickSoon'
    BY <1>0, <1>2, <2>1 DEF TimeInv, TickSoon, TypeOK, WithLimiter
  <2>3. Spacing' /\ Past'
    BY <1>0, <2>1 DEF TimeInv, Spacing, Past
  <2>4. ASSUME NEW k \in DOMAIN calls[w]
        PROVE  now + Interval - calls[w][k] >= Intervals(Len(calls[w]) - k)
    <3> DEFINE l == Len(calls[w])
    <3>1. calls[w] \in Seq(Nat) /\ l \in Nat /\ k \in 1..l /\ l \in DOMAIN calls[w]
      BY <2>4 DEF TypeOK
    <3>2. calls[w][l] <= now /\ calls[w][l] \in Nat /\ calls[w][k] \in Nat /\ now \in Nat
      BY <3>1 DEF TimeInv, Past, TypeOK
    <3>3. CASE k = l
      BY <3>2, <3>3, NoIntervals
    <3>4. CASE k < l
      <4>1. calls[w][l] - calls[w][k] >= Intervals(l - k - 1)
        BY <3>1, <3>4 DEF TimeInv, Spacing
      <4> DEFINE n == l - k
                 a == calls[w][l]
                 b == calls[w][k]
      <4>2. n \in Int /\ a \in Int /\ b \in Int /\ now \in Int
        BY <3>1, <3>2
      <4>3. a - b >= Intervals(n - 1) /\ a <= now
        BY <3>2, <4>1
      <4> HIDE DEF n, a, b
      <4>4. now + Interval - b >= Intervals(n)
        BY <4>2, <4>3, AfterInterval
      <4> QED
        BY <4>4 DEF n, b
    <3> QED
      BY <3>1, <3>3, <3>4
  <2>5. TickAhead'
    <3> DEFINE Ahead(v) ==
          next'[v] # 0 =>
            \A k \in DOMAIN calls[v] :
              next'[v] - calls[v][k] >= Intervals(Len(calls[v]) - k + ticks'[v])
    <3>1. Ahead(w)
      <4>1. next'[w] = now + Interval /\ ticks'[w] = 0
        BY <2>1 DEF TypeOK
      <4>2. \A k \in DOMAIN calls[w] : Len(calls[w]) - k + ticks'[w] = Len(calls[w]) - k
        BY <4>1 DEF TypeOK
      <4> SUFFICES ASSUME NEW k \in DOMAIN calls[w]
                   PROVE  next'[w] - calls[w][k] >= Intervals(Len(calls[w]) - k + ticks'[w])
        BY Zenon
      <4>3. calls[w] \in Seq(Nat) /\ calls[w][k] \in Nat /\ now \in Nat
        BY DEF TypeOK
      <4>4. Len(calls[w]) - k \in Int
        BY <4>3
      <4>5. Intervals(Len(calls[w]) - k) \in Int
        BY <4>4, IntervalsInt
      <4> QED
        BY <2>4, <4>1, <4>2, <4>3, <4>4, <4>5
    <3>2. ASSUME NEW v \in Workers, v # w PROVE Ahead(v)
      BY <2>1, <3>2 DEF TimeInv, TickAhead, TypeOK
    <3> QED
      BY <1>0, <2>1, <3>1, <3>2 DEF TickAhead
  <2> QED
    BY <2>2, <2>3, <2>5 DEF TimeInv
<1> QED
  BY <1>1, <1>2

\* A call takes the tick that has put the ticker ahead of it.
LEMMA CallKeeps ==
    ASSUME TypeOK, TimeInv, NEW w \in Workers, Wait(w)
    PROVE  TimeInv'
<1>0. Interval' = Interval
  BY DEF Interval
<1>1. CASE UNCHANGED <<pc, ticks, calls>>
  <2>1. UNCHANGED <<now, hasKey, next, ticks, calls, pc>>
    BY <1>1 DEF Wait
  <2> QED
    BY <2>1, TickersIdle
<1>2. CASE /\ ticks[w] = 1
           /\ ticks' = [ticks EXCEPT ![w] = 0]
           /\ calls' = [calls EXCEPT ![w] = Append(@, now)]
           /\ Goto(w, "calling")
  <2> DEFINE l == Len(calls[w])
  <2>1. /\ pc[w] = "generate" /\ hasKey /\ UNCHANGED <<now, hasKey, next>>
        /\ next[w] # 0
    BY DEF Wait, TimeInv, TickSoon, WithLimiter
  <2>2. /\ calls[w] \in Seq(Nat) /\ l \in Nat /\ now \in Nat /\ next[w] \in Nat
        /\ DOMAIN calls[w] = 1..l /\ DOMAIN calls'[w] = 1..(l + 1)
        /\ Len(calls'[w]) = l + 1
        /\ calls'[w][l + 1] = now
        /\ \A k \in 1..l : calls'[w][k] = calls[w][k] /\ calls[w][k] \in Nat
    BY <1>2 DEF TypeOK
  <2> HIDE DEF l
  <2>3. \A v \in Workers \ {w} : calls'[v] = calls[v] /\ ticks'[v] = ticks[v] /\ pc'[v] = pc[v]
    BY <1>2 DEF TypeOK, Goto
  <2>4. ticks'[w] = 0 /\ pc'[w] = "calling"
    BY <1>2 DEF TypeOK, Goto
  <2>5. TickSoon'
    BY <1>0, <2>1, <2>3, <2>4 DEF TimeInv, TickSoon, WithLimiter
  <2>6. Past'
    <3> SUFFICES ASSUME NEW v \in Workers, NEW k \in DOMAIN calls'[v]
                 PROVE  calls'[v][k] <= now
      BY <2>1 DEF Past
    <3>1. CASE v # w
      BY <2>3, <3>1 DEF TimeInv, Past
    <3>2. CASE v = w /\ k # l + 1
      <4>1. k \in 1..l
        BY <2>2, <3>2
      <4> QED
        BY <2>2, <3>2, <4>1 DEF TimeInv, Past
    <3>3. CASE v = w /\ k = l + 1
      BY <2>2, <3>3
    <3> QED
      BY <3>1, <3>2, <3>3
  <2>7. ASSUME NEW k \in 1..l
        PROVE  /\ next[w] - calls[w][k] >= Intervals(l + 1 - k)
               /\ now - calls[w][k] >= Intervals(l + 1 - k - 1)
    <3> DEFINE n == l + 1 - k
               b == calls[w][k]
               x == next[w]
    <3>1. /\ n \in Int /\ l - k + ticks[w] = n
          /\ b \in Int /\ x \in Int /\ now \in Int
      BY <1>2, <2>2
    <3>2. x - b >= Intervals(l - k + ticks[w])
      BY <2>1, <2>2 DEF TimeInv, TickAhead, l
    <3>3. x <= now + Interval
      BY <2>1, <2>2, IntervalPositive DEF TimeInv, TickSoon
    <3>4. x - b >= Intervals(n)
      BY <3>1, <3>2
    <3> HIDE DEF n, b, x
    <3>5. now - b >= Intervals(n - 1)
      BY <3>1, <3>3, <3>4, BeforeInterval
    <3> QED
      BY <2>2, <3>1, <3>4, <3>5 DEF n, b, x
  <2>8. Spacing'
    <3> SUFFICES ASSUME NEW v \in Workers, NEW k \in DOMAIN calls'[v],
                        NEW m \in DOMAIN calls'[v], k < m
                 PROVE  calls'[v][m] - calls'[v][k] >= Intervals(m - k - 1)
      BY SameIntervals DEF Spacing
    <3>1. CASE v # w
      BY <2>3, <3>1 DEF TimeInv, Spacing
    <3>2. CASE v = w /\ m # l + 1
      <4>1. k \in 1..l /\ m \in 1..l
        BY <2>2, <3>2
      <4> QED
        BY <2>2, <3>2, <4>1 DEF TimeInv, Spacing
    <3>3. CASE v = w /\ m = l + 1
      <4>1. k \in 1..l
        BY <2>2, <3>3
      <4>2. now - calls[w][k] >= Intervals(l + 1 - k - 1)
        BY <2>7, <4>1
      <4>3. calls'[v][m] = now /\ calls'[v][k] = calls[w][k]
        BY <2>2, <3>3, <4>1
      <4>4. m - k - 1 = l + 1 - k - 1 /\ l + 1 - k - 1 \in Int
        BY <2>2, <3>3, <4>1
      <4>5. Intervals(m - k - 1) = Intervals(l + 1 - k - 1)
        BY <4>4
      <4> HIDE DEF l
      <4> QED
        BY <4>2, <4>3, <4>5
    <3> QED
      BY <3>1, <3>2, <3>3
  <2>9. TickAhead'
    <3> SUFFICES ASSUME NEW v \in Workers, next[v] # 0, NEW k \in DOMAIN calls'[v]
                 PROVE  next[v] - calls'[v][k] >= Intervals(Len(calls'[v]) - k + ticks'[v])
      BY <2>1, SameIntervals DEF TickAhead
    <3>1. CASE v # w
      BY <2>3, <3>1 DEF TimeInv, TickAhead
    <3>2. CASE v = w /\ k # l + 1
      <4>1. k \in 1..l
        BY <2>2, <3>2
      <4>2. next[w] - calls[w][k] >= Intervals(l + 1 - k)
        BY <2>7, <4>1
      <4>3. Len(calls'[v]) - k + ticks'[v] = l + 1 - k
        BY <2>2, <2>4, <3>2, <4>1
      <4> QED
        BY <2>2, <3>2, <4>1, <4>2, <4>3
    <3>3. CASE v = w /\ k = l + 1
      <4>1. next[w] >= now
        BY <2>1, <2>2, IntervalPositive DEF TimeInv, TickSoon
      <4>2. Len(calls'[v]) = l + 1 /\ ticks'[v] = 0 /\ k = l + 1
        BY <2>2, <2>4, <3>3
      <4>3. Len(calls'[v]) - k + ticks'[v] = 0
        <5>1. l + 1 - (l + 1) + 0 = 0
          BY <2>2
        <5> QED
          BY <4>2, <5>1
      <4>4. next[v] - calls'[v][k] >= 0
        BY <2>2, <3>3, <4>1
      <4> QED
        BY <4>3, <4>4, NoIntervals
    <3> QED
      BY <3>1, <3>2, <3>3
  <2> QED
    BY <2>5, <2>6, <2>8, <2>9 DEF TimeInv
<1> QED
  BY <1>1, <1>2 DEF Wait

\* A tick puts the ticker one interval further ahead, whether it is dropped or
\* not.
LEMMA TickKeeps ==
    ASSUME TypeOK, TimeInv, NEW w \in Workers, Tick(w)
    PROVE  TimeInv'
<1>1. /\ next[w] = now /\ next[w] # 0
      /\ next' = [next EXCEPT ![w] = now + Interval]
      /\ ticks' = [ticks EXCEPT ![w] = 1]
      /\ UNCHANGED <<now, hasKey, pc, calls>>
  BY DEF Tick
<1>2. Interval' = Interval
  BY DEF Interval
<1>3. /\ next'[w] = now + Interval /\ ticks'[w] = 1 /\ now \in Nat /\ next'[w] # 0
      /\ \A v \in Workers \ {w} : next'[v] = next[v] /\ ticks'[v] = ticks[v]
  BY <1>1, IntervalPositive DEF TypeOK
<1>4. TickSoon'
  BY <1>1, <1>2, <1>3, IntervalPositive DEF TimeInv, TickSoon
<1>5. Spacing' /\ Past'
  BY <1>1, SameIntervals DEF TimeInv, Spacing, Past
<1>6. TickAhead'
  <2> SUFFICES ASSUME NEW v \in Workers, next'[v] # 0, NEW k \in DOMAIN calls[v]
               PROVE  next'[v] - calls[v][k] >= Intervals(Len(calls[v]) - k + ticks'[v])
    BY <1>1, SameIntervals DEF TickAhead
  <2>1. CASE v # w
    BY <1>3, <2>1 DEF TimeInv, TickAhead
  <2>2. CASE v = w
    <3> DEFINE n == Len(calls[w]) - k
               b == calls[w][k]
    <3>1. /\ n \in Int /\ b \in Int /\ ticks[w] \in {0, 1} /\ k \in DOMAIN calls[w]
      BY <2>2 DEF TypeOK
    <3>2. now - b >= Intervals(n + ticks[w])
      BY <1>1, <3>1 DEF TimeInv, TickAhead
    <3> HIDE DEF n, b
    <3>3. /\ Intervals(n + 1) = Intervals(n) + Interval
          /\ Intervals(n + 1) \in Int /\ Intervals(n) \in Int
      <4> DEFINE m == n + 1
      <4>1. m \in Int /\ m - 1 = n
        BY <3>1
      <4> HIDE DEF m
      <4>2. /\ Intervals(m) = Intervals(m - 1) + Interval
            /\ Intervals(m) \in Int /\ Intervals(m - 1) \in Int
        BY <4>1, OneMore
      <4>3. Intervals(m - 1) = Intervals(n)
        BY <4>1
      <4> QED
        BY <4>2, <4>3 DEF m
    <3>4. CASE ticks[w] = 0
      <4>1. n + ticks[w] = n
        BY <3>1, <3>4
      <4> QED
        BY <1>3, <2>2, <3>1, <3>2, <3>3, <4>1, IntervalPositive DEF n, b
    <3>5. CASE ticks[w] = 1
      <4>1. n + ticks[w] = n + 1
        BY <3>5
      <4>2. now + Interval - b >= Intervals(n + 1)
        BY <1>3, <3>1, <3>2, <3>3, <4>1, IntervalPositive
      <4>3. Len(calls[v]) - k + ticks'[v] = n + 1
        BY <1>3, <2>2 DEF n
      <4>4. Intervals(Len(calls[v]) - k + ticks'[v]) = Intervals(n + 1)
        BY <4>3
      <4>5. next'[v] - calls[v][k] = now + Interval - b
        <5>1. next'[v] = now + Interval
          BY <1>3, <2>2
        <5>2. calls[v][k] = b
          BY <2>2 DEF b
        <5> QED
          BY <1>3, <3>1, <5>1, <5>2, IntervalPositive
      <4> QED
        BY <4>2, <4>4, <4>5
    <3> QED
      BY <3>1, <3>4, <3>5
  <2> QED
    BY <2>1, <2>2
<1> QED
  BY <1>4, <1>5, <1>6 DEF TimeInv

\* Time passes up to the next tick.
LEMMA PassKeeps ==
    ASSUME TypeOK, TimeInv, Pass
    PROVE  TimeInv'
<1>1. now' = now + 1 /\ UNCHANGED <<hasKey, pc, next, ticks, calls>> /\ now \in Nat
  BY DEF Pass, runVars, TypeOK
<1>2. Interval' = Interval
  BY DEF Interval
<1>3. \A v \in Workers : next[v] # 0 => next[v] > now
  BY DEF Pass
<1>4. TickSoon'
  BY <1>1, <1>2, <1>3, IntervalPositive DEF TimeInv, TickSoon, TypeOK
<1>5. Past'
  BY <1>1 DEF TimeInv, Past, TypeOK
<1>6. Spacing' /\ TickAhead'
  BY <1>1, SameIntervals DEF TimeInv, Spacing, TickAhead
<1> QED
  BY <1>4, <1>5, <1>6 DEF TimeInv

\* processJob returns and its limiter, if it had one, is stopped.
LEMMA LeaveKeeps ==
    ASSUME TypeOK, TimeInv, NEW w \in Workers, Leave(w)
    PROVE  TimeInv'
<1>1. /\ next' = [next EXCEPT ![w] = 0] /\ ticks' = [ticks EXCEPT ![w] = 0]
      /\ pc' = [pc EXCEPT ![w] = "idle"] /\ UNCHANGED <<now, hasKey, calls>>
  BY DEF Leave, Return, Goto, Stop
<1>2. Interval' = Interval
  BY DEF Interval
<1>3. /\ next'[w] = 0 /\ pc'[w] = "idle"
      /\ \A v \in Workers \ {w} : next'[v] = next[v] /\ ticks'[v] = ticks[v] /\ pc'[v] = pc[v]
  BY <1>1 DEF TypeOK
<1>4. TickSoon'
  BY <1>1, <1>2, <1>3 DEF TimeInv, TickSoon, WithLimiter
<1>5. Spacing' /\ Past' /\ TickAhead'
  BY <1>1, <1>3, SameIntervals DEF TimeInv, Spacing, Past, TickAhead
<1> QED
  BY <1>4, <1>5 DEF TimeInv

LEMMA TimeInit == Init => TimeInv
<1> SUFFICES ASSUME Init PROVE TimeInv
  OBVIOUS
<1>1. \A w \in Workers : next[w] = 0 /\ pc[w] = "idle" /\ calls[w] = << >>
  BY DEF Init
<1> QED
  BY <1>1 DEF TimeInv, TickSoon, Spacing, Past, TickAhead, WithLimiter

LEMMA TimeNext == TypeOK /\ TimeInv /\ [Next]_vars => TimeInv'
<1> SUFFICES ASSUME TypeOK, TimeInv, [Next]_vars PROVE TimeInv'
  OBVIOUS
<1>1. ASSUME NEW w \in Workers,
             MkdirTemp(w) \/ CloneFails(w) \/ Cloned(w) \/ Hang(w) \/ CallReturns(w)
      PROVE  TimeInv'
  <2>1. UNCHANGED <<now, hasKey, next, ticks, calls>>
    BY <1>1 DEF MkdirTemp, CloneFails, Cloned, Hang, CallReturns
  <2>2. PICK p \in WithDir \cup {"idle"} :
          /\ pc' = [pc EXCEPT ![w] = p]
          /\ p \in WithLimiter <=> pc[w] \in WithLimiter
    BY <1>1 DEF MkdirTemp, CloneFails, Cloned, Hang, CallReturns, Goto, WithDir, WithLimiter
  <2>3. \A v \in Workers : pc'[v] \in WithLimiter <=> pc[v] \in WithLimiter
    BY <2>2 DEF TypeOK
  <2> QED
    BY <2>1, <2>3, TickersIdle
<1>2. ASSUME Signal \/ UNCHANGED vars
      PROVE  TimeInv'
  <2>1. UNCHANGED <<now, hasKey, next, ticks, calls, pc>>
    BY <1>2 DEF Signal, vars, runVars
  <2> QED
    BY <2>1, TickersIdle
<1>3. ASSUME Crash \/ Exit \/ \E w \in Workers : Panic(w)
      PROVE  TimeInv'
  <2>1. Fresh /\ UNCHANGED <<now, calls>>
    BY <1>3 DEF Crash, Exit, Panic
  <2> QED
    BY <2>1, TickersEnd
<1> QED
  BY <1>1, <1>2, <1>3, MadeKeeps, CallKeeps, TickKeeps, PassKeeps, LeaveKeeps DEF Next

-----------------------------------------------------------------------------
(***************************************************************************)
(* The directories                                                         *)
(***************************************************************************)
LEMMA DirInit == Init => DirInv
<1> SUFFICES ASSUME Init PROVE DirInv
  OBVIOUS
<1>1. \A w \in Workers : dirOf[w] = 0 /\ pc[w] = "idle"
  BY DEF Init
<1>2. dirs = {} /\ left = {} /\ runs = 0
  BY DEF Init
<1> QED
  BY <1>1, <1>2 DEF DirInv, Numbered, DirsOwned, HasItsDir, Dirs

\* A step of a worker that keeps its directory, or has none and gets none.
LEMMA DirsIdle ==
    ASSUME DirInv, UNCHANGED <<dirs, dirOf, left, runs>>,
           \A v \in Workers : pc'[v] = "idle" <=> pc[v] = "idle"
    PROVE  DirInv'
  BY DEF DirInv, Numbered, DirsOwned, HasItsDir

\* A worker that gives its directory back.
LEMMA DirReturned ==
    ASSUME TypeOK, DirInv, NEW w \in Workers, pc[w] # "idle", Cleanup(w), Goto(w, "idle"),
           UNCHANGED <<left, runs>>
    PROVE  DirInv'
<1>1. /\ dirs' = dirs \ {dirOf[w]} /\ dirOf'[w] = 0 /\ pc'[w] = "idle"
      /\ \A v \in Workers \ {w} : dirOf'[v] = dirOf[v] /\ pc'[v] = pc[v]
  BY DEF Cleanup, Goto, TypeOK
<1>2. dirOf[w] \in Dirs /\ dirOf[w] \notin left
  BY DEF TypeOK, DirInv, Numbered, DirsOwned
<1>3. \A v \in Workers \ {w} : dirOf[v] # dirOf[w]
  BY DEF DirInv, HasItsDir
<1>4. Numbered'
  <2>1. dirs' \cup left' \subseteq 1..runs'
    BY <1>1 DEF DirInv, Numbered
  <2>2. ASSUME NEW v \in Workers, v # w
        PROVE  dirOf'[v] \in 0..runs' /\ (dirOf'[v] = 0 <=> pc'[v] = "idle")
    BY <1>1, <2>2 DEF DirInv, Numbered
  <2>3. dirOf'[w] \in 0..runs' /\ (dirOf'[w] = 0 <=> pc'[w] = "idle")
    BY <1>1 DEF TypeOK
  <2> QED
    BY <2>1, <2>2, <2>3 DEF Numbered
<1>5. DirsOwned'
  <2> SUFFICES ASSUME NEW d \in Dirs
               PROVE  /\ d \in dirs' <=>
                           d \in left \/ \E v \in Workers : pc'[v] # "idle" /\ dirOf'[v] = d
                      /\ d \in left => \A v \in Workers : dirOf'[v] # d
    BY DEF DirsOwned
  <2>1. /\ d \in dirs <=> d \in left \/ \E v \in Workers : pc[v] # "idle" /\ dirOf[v] = d
        /\ d \in left => \A v \in Workers : dirOf[v] # d
    BY DEF DirInv, DirsOwned
  <2>2. d # 0
    BY BoundsAssumption DEF Dirs
  <2>3. CASE d = dirOf[w]
    BY <1>1, <1>2, <1>3, <2>1, <2>3
  <2>4. CASE d # dirOf[w]
    BY <1>1, <2>1, <2>2, <2>4
  <2> QED
    BY <2>3, <2>4
<1>6. HasItsDir'
  BY <1>1, <1>3 DEF DirInv, Numbered, HasItsDir
<1> QED
  BY <1>4, <1>5, <1>6 DEF DirInv

\* A new directory has a number that no directory has had.
LEMMA DirMade ==
    ASSUME TypeOK, DirInv, NEW w \in Workers, MkdirTemp(w)
    PROVE  DirInv'
<1> DEFINE d == runs + 1
<1>1. /\ pc[w] = "idle" /\ runs \in Nat /\ d \in Dirs /\ runs' = d
      /\ dirs' = dirs \cup {d} /\ dirOf'[w] = d /\ pc'[w] = "clone" /\ left' = left
      /\ \A v \in Workers \ {w} : dirOf'[v] = dirOf[v] /\ pc'[v] = pc[v]
  BY BoundsAssumption DEF MkdirTemp, Goto, TypeOK, Dirs
<1>2. d \notin dirs /\ d \notin left /\ \A v \in Workers : dirOf[v] # d
  BY <1>1 DEF DirInv, Numbered
<1>3. Numbered'
  BY <1>1 DEF DirInv, Numbered
<1>4. DirsOwned'
  BY <1>1, <1>2 DEF DirInv, DirsOwned
<1>5. HasItsDir'
  BY <1>1, <1>2 DEF DirInv, HasItsDir
<1> QED
  BY <1>3, <1>4, <1>5 DEF DirInv

\* The end of a process: what is on disk is left.
LEMMA DirsLeft ==
    ASSUME TypeOK, DirInv, Fresh, dirs' \subseteq dirs, left' = dirs', runs' = runs
    PROVE  DirInv'
<1>1. \A v \in Workers : dirOf'[v] = 0 /\ pc'[v] = "idle"
  BY DEF Fresh
<1> QED
  BY <1>1 DEF DirInv, Numbered, DirsOwned, HasItsDir, Dirs, TypeOK

LEMMA DirNext == TypeOK /\ DirInv /\ [Next]_vars => DirInv'
<1> SUFFICES ASSUME TypeOK, DirInv, [Next]_vars PROVE DirInv'
  OBVIOUS
<1>1. ASSUME NEW w \in Workers,
             Cloned(w) \/ Hang(w) \/ CallReturns(w) \/ MakeLimiter(w) \/ Wait(w)
      PROVE  DirInv'
  <2>1. UNCHANGED <<dirs, dirOf, left, runs>>
    BY <1>1 DEF Cloned, Hang, CallReturns, MakeLimiter, Wait
  <2>2. pc[w] # "idle" /\ (pc' = pc \/ \E p \in WithDir : pc' = [pc EXCEPT ![w] = p])
    BY <1>1 DEF Cloned, Hang, CallReturns, MakeLimiter, Wait, Goto, WithDir
  <2>3. \A v \in Workers : pc'[v] = "idle" <=> pc[v] = "idle"
    BY <2>2 DEF TypeOK, WithDir
  <2> QED
    BY <2>1, <2>3, DirsIdle
<1>2. ASSUME Signal \/ Pass \/ (\E w \in Workers : Tick(w)) \/ UNCHANGED vars
      PROVE  DirInv'
  <2>1. UNCHANGED <<dirs, dirOf, left, runs, pc>>
    BY <1>2 DEF Signal, Pass, Tick, vars, runVars
  <2> QED
    BY <2>1, DirsIdle
<1>3. ASSUME NEW w \in Workers, CloneFails(w) \/ Leave(w)
      PROVE  DirInv'
  <2>1. /\ pc[w] # "idle" /\ Cleanup(w) /\ Goto(w, "idle")
        /\ UNCHANGED <<left, runs>>
    BY <1>3 DEF CloneFails, Leave, Return
  <2> QED
    BY <2>1, DirReturned
<1>4. ASSUME Crash \/ \E w \in Workers : Panic(w)
      PROVE  DirInv'
  <2>1. Fresh /\ dirs' \subseteq dirs /\ left' = dirs' /\ runs' = runs
    BY <1>4 DEF Crash, Panic
  <2> QED
    BY <2>1, DirsLeft
<1>5. ASSUME Exit
      PROVE  DirInv'
  <2>1. UNCHANGED <<dirs, left, runs>> /\ \A w \in Workers : pc[w] = "idle" /\ dirOf[w] = 0
    BY <1>5 DEF Exit, DirInv, Numbered
  <2>2. \A w \in Workers : pc'[w] = "idle" /\ dirOf'[w] = 0
    BY <1>5 DEF Exit, Fresh
  <2> QED
    BY <2>1, <2>2 DEF DirInv, Numbered, DirsOwned, HasItsDir
<1> QED
  BY <1>1, <1>2, <1>3, <1>4, <1>5, DirMade DEF Next

-----------------------------------------------------------------------------
(***************************************************************************)
(* Theorems                                                                *)
(***************************************************************************)

\* Types: among them that a ticker never holds more than one tick.
THEOREM RunTypeCorrect == Spec => []TypeOK
  BY TypeInit, TypeNext, PTL DEF Spec

\* The invariants of the limiters and of the directories hold at every step.
THEOREM RunInductive == Spec => [](TypeOK /\ TimeInv /\ DirInv)
<1>1. Init => TypeOK /\ TimeInv /\ DirInv
  BY TypeInit, TimeInit, DirInit
<1>2. TypeOK /\ TimeInv /\ DirInv /\ [Next]_vars => (TypeOK /\ TimeInv /\ DirInv)'
  BY TypeNext, TimeNext, DirNext
<1> QED
  BY <1>1, <1>2, PTL DEF Spec

\* The calls of one worker keep the distance that GEMINI_RPM_LIMIT asks for, but
\* for one call, over any number of jobs (ratelimit.go:12-31).
THEOREM CallsAreSpaced == Spec => []Spacing
<1>1. TimeInv => Spacing
  BY DEF TimeInv
<1> QED
  BY <1>1, RunInductive, PTL

\* Whoever waits for a tick gets one within an interval (worker.go:97-98).
THEOREM TicksComeSoon == Spec => []TickSoon
<1>1. TimeInv => TickSoon
  BY DEF TimeInv
<1> QED
  BY <1>1, RunInductive, PTL

\* No error path leaks a clone directory (cloner.go:65-111, worker.go:56).
THEOREM NoDirLost == Spec => []DirsOwned
<1>1. DirInv => DirsOwned
  BY DEF DirInv
<1> QED
  BY <1>1, RunInductive, PTL

\* No worker loses its clone directory before it returns.
THEOREM NoDirMissing == Spec => []HasItsDir
<1>1. DirInv => HasItsDir
  BY DEF DirInv
<1> QED
  BY <1>1, RunInductive, PTL

=============================================================================
