------------------------- MODULE EventTimersProofs -------------------------
(***************************************************************************)
(* Proofs about the timers of a node: the list of event timers, the event  *)
(* queue and the callback timers on top of them stay consistent, and no    *)
(* expiry is overlooked, for every number of timers, size of the clock and *)
(* size of the queue.                                                      *)
(***************************************************************************)
EXTENDS EventTimers, Inductions, SequenceTheorems

-----------------------------------------------------------------------------
(* Sequences without repetition.                                           *)

Once(s) == \A i, j \in DOMAIN s : s[i] = s[j] => i = j

\* A new element in front.
LEMMA Prepended ==
  ASSUME NEW S, NEW s \in Seq(S), NEW t \in S
  PROVE  /\ <<t>> \o s \in Seq(S) /\ Len(<<t>> \o s) = Len(s) + 1
         /\ ToSet(<<t>> \o s) = {t} \cup ToSet(s)
         /\ Once(s) /\ t \notin ToSet(s) => Once(<<t>> \o s)
<1> DEFINE r == <<t>> \o s
<1>1. <<t>> \in Seq(S) /\ Len(<<t>>) = 1 /\ <<t>>[1] = t
  OBVIOUS
<1>2. r \in Seq(S) /\ Len(r) = Len(s) + 1
  BY <1>1
<1>3. r[1] = t /\ \A i \in DOMAIN s : r[i + 1] = s[i]
  BY <1>1
<1>4. DOMAIN r = 1 .. Len(s) + 1 /\ DOMAIN s = 1 .. Len(s) /\ Len(s) \in Nat
  BY <1>2
<1> HIDE DEF r
<1>5. \A i \in DOMAIN r : i = 1 \/ (i - 1 \in DOMAIN s /\ r[i] = s[i - 1])
  BY <1>3, <1>4
<1>6. ToSet(r) = {t} \cup ToSet(s)
  <2>1. ToSet(r) \subseteq {t} \cup ToSet(s)
    BY <1>3, <1>5 DEF ToSet
  <2>2. t \in ToSet(r)
    BY <1>3, <1>4 DEF ToSet
  <2>3. ToSet(s) \subseteq ToSet(r)
    <3> SUFFICES ASSUME NEW i \in DOMAIN s PROVE s[i] \in ToSet(r)
      BY DEF ToSet
    <3>1. i + 1 \in DOMAIN r
      BY <1>4
    <3> QED
      BY <1>3, <3>1 DEF ToSet
  <2> QED
    BY <2>1, <2>2, <2>3
<1>7. ASSUME Once(s), t \notin ToSet(s)
      PROVE  Once(r)
  BY <1>3, <1>4, <1>5, <1>7 DEF Once, ToSet
<1> QED
  BY <1>2, <1>6, <1>7 DEF r

\* The element at position k unlinked.
LEMMA Unlinked ==
  ASSUME NEW S, NEW s \in Seq(S), NEW k \in 1 .. Len(s)
  PROVE  /\ RemoveAt(s, k) \in Seq(S) /\ Len(RemoveAt(s, k)) = Len(s) - 1
         /\ Once(s) => /\ ToSet(RemoveAt(s, k)) = ToSet(s) \ {s[k]}
                       /\ Once(RemoveAt(s, k))
<1> DEFINE r == RemoveAt(s, k)
           u == SubSeq(s, 1, k - 1)
           v == SubSeq(s, k + 1, Len(s))
<1>1. Len(s) \in Nat /\ DOMAIN s = 1 .. Len(s)
  OBVIOUS
<1>2. r = u \o v
  BY DEF RemoveAt
<1>u. u \in Seq(S) /\ Len(u) = k - 1 /\ \A i \in 1 .. k - 1 : u[i] = s[i]
  <2>1. 1 \in Int /\ k - 1 \in Int /\ \A i \in 1 .. k - 1 : s[i] \in S
    BY <1>1
  <2>2. /\ u \in Seq(S) /\ Len(u) = IF 1 <= k - 1 THEN k - 1 - 1 + 1 ELSE 0
        /\ \A i \in 1 .. k - 1 - 1 + 1 : u[i] = s[1 + i - 1]
    BY <2>1, SubSeqProperties
  <2> HIDE DEF u
  <2> QED
    BY <1>1, <2>2
<1>v. v \in Seq(S) /\ Len(v) = Len(s) - k /\ \A i \in 1 .. Len(s) - k : v[i] = s[k + i]
  <2>1. k + 1 \in Int /\ Len(s) \in Int /\ \A i \in k + 1 .. Len(s) : s[i] \in S
    BY <1>1
  <2>2. /\ v \in Seq(S)
        /\ Len(v) = IF k + 1 <= Len(s) THEN Len(s) - (k + 1) + 1 ELSE 0
        /\ \A i \in 1 .. Len(s) - (k + 1) + 1 : v[i] = s[(k + 1) + i - 1]
    BY <2>1, SubSeqProperties
  <2> HIDE DEF v
  <2> QED
    BY <1>1, <2>2
<1> HIDE DEF r, u, v
<1>c. /\ u \o v \in Seq(S) /\ Len(u \o v) = Len(u) + Len(v)
      /\ \A i \in 1 .. Len(u) + Len(v) : (u \o v)[i] =
           IF i <= Len(u) THEN u[i] ELSE v[i - Len(u)]
  BY <1>u, <1>v, ConcatProperties
<1>3. r \in Seq(S) /\ Len(r) = Len(s) - 1
  BY <1>1, <1>2, <1>u, <1>v, <1>c
<1>4. \A i \in 1 .. Len(s) - 1 : r[i] = IF i < k THEN s[i] ELSE s[i + 1]
  <2> TAKE i \in 1 .. Len(s) - 1
  <2>1. r[i] = IF i <= k - 1 THEN u[i] ELSE v[i - (k - 1)]
    BY <1>1, <1>2, <1>u, <1>v, <1>c
  <2>2. CASE i < k
    BY <1>1, <1>u, <2>1, <2>2
  <2>3. CASE ~ (i < k)
    <3>1. i - (k - 1) \in 1 .. Len(s) - k /\ k + (i - (k - 1)) = i + 1
      BY <1>1, <2>3
    <3> QED
      BY <1>1, <1>v, <2>1, <2>3, <3>1
  <2> QED
    BY <2>2, <2>3
<1>5. DOMAIN r = 1 .. Len(s) - 1
  BY <1>1, <1>3
<1> HIDE DEF r
<1>6. ASSUME Once(s)
      PROVE  ToSet(r) = ToSet(s) \ {s[k]} /\ Once(r)
  <2>1. \A i \in DOMAIN r : \E j \in DOMAIN s : j # k /\ r[i] = s[j] /\ j = IF i < k THEN i ELSE i + 1
    BY <1>1, <1>4, <1>5
  <2>2. \A j \in DOMAIN s : j # k => \E i \in DOMAIN r : r[i] = s[j]
    <3> SUFFICES ASSUME NEW j \in DOMAIN s, j # k
                 PROVE  \E i \in DOMAIN r : r[i] = s[j]
      OBVIOUS
    <3>1. CASE j < k
      BY <1>1, <1>4, <1>5, <3>1
    <3>2. CASE j > k
      <4>1. j - 1 \in DOMAIN r /\ ~ (j - 1 < k) /\ (j - 1) + 1 = j
        BY <1>1, <1>5, <3>2
      <4> QED
        BY <1>4, <1>5, <4>1
    <3> QED
      BY <1>1, <3>1, <3>2
  <2>3. ToSet(r) \subseteq ToSet(s) \ {s[k]}
    BY <1>1, <1>6, <2>1 DEF ToSet, Once
  <2>4. ToSet(s) \ {s[k]} \subseteq ToSet(r)
    BY <2>2 DEF ToSet
  <2>5. Once(r)
    <3> SUFFICES ASSUME NEW i \in DOMAIN r, NEW j \in DOMAIN r, r[i] = r[j]
                 PROVE  i = j
      BY DEF Once
    <3>1. PICK x \in DOMAIN s : r[i] = s[x] /\ x = IF i < k THEN i ELSE i + 1
      BY <2>1
    <3>2. PICK y \in DOMAIN s : r[j] = s[y] /\ y = IF j < k THEN j ELSE j + 1
      BY <2>1
    <3>3. x = y
      BY <1>6, <3>1, <3>2 DEF Once
    <3> QED
      BY <1>1, <1>5, <3>1, <3>2, <3>3
  <2> QED
    BY <2>3, <2>4, <2>5
<1> QED
  BY <1>3, <1>6 DEF r

\* The first occurrence of an element unlinked.
LEMMA FirstUnlinked ==
  ASSUME NEW S, NEW s \in Seq(S), NEW t, Once(s)
  PROVE  /\ RemoveFirst(s, t) \in Seq(S) /\ Len(RemoveFirst(s, t)) <= Len(s)
         /\ ToSet(RemoveFirst(s, t)) = ToSet(s) \ {t}
         /\ Once(RemoveFirst(s, t))
<1> DEFINE I == {i \in 1 .. Len(s) : s[i] = t}
<1>1. Len(s) \in Nat /\ DOMAIN s = 1 .. Len(s)
  OBVIOUS
<1>2. CASE I = {}
  <2>1. RemoveFirst(s, t) = s
    BY <1>2 DEF RemoveFirst
  <2>2. t \notin ToSet(s)
    BY <1>1, <1>2 DEF ToSet
  <2> QED
    BY <1>1, <2>1, <2>2
<1>3. CASE I # {}
  <2>1. RemoveFirst(s, t) = RemoveAt(s, Min(I))
    BY <1>3 DEF RemoveFirst, SelectInSeq
  <2>2. \E x \in I : \A y \in I : x <= y
    <3>1. I \subseteq Nat
      BY <1>1
    <3> HIDE DEF I
    <3> QED
      BY <1>3, <3>1, LeastNatural
  <2>3. Min(I) \in I
    <3> HIDE DEF I
    <3> QED
      BY <2>2 DEF Min
  <2>4. Min(I) \in 1 .. Len(s) /\ s[Min(I)] = t
    BY <2>3
  <2> HIDE DEF I
  <2> DEFINE k == Min(I)
  <2> HIDE DEF k
  <2>5. k \in 1 .. Len(s) /\ s[k] = t /\ RemoveFirst(s, t) = RemoveAt(s, k)
    BY <2>1, <2>4 DEF k
  <2>6. /\ RemoveAt(s, k) \in Seq(S) /\ Len(RemoveAt(s, k)) = Len(s) - 1
        /\ ToSet(RemoveAt(s, k)) = ToSet(s) \ {s[k]} /\ Once(RemoveAt(s, k))
    BY <2>5, Unlinked
  <2> QED
    BY <1>1, <2>5, <2>6
<1> QED
  BY <1>2, <1>3

\* An event at the end of the queue.
LEMMA Appended ==
  ASSUME NEW S, NEW s \in Seq(S), NEW e \in S
  PROVE  /\ Append(s, e) \in Seq(S) /\ Len(Append(s, e)) = Len(s) + 1
         /\ DOMAIN Append(s, e) = DOMAIN s \cup {Len(s) + 1}
         /\ Len(s) + 1 \notin DOMAIN s
         /\ \A i \in DOMAIN s : Append(s, e)[i] = s[i]
         /\ Append(s, e)[Len(s) + 1] = e
OBVIOUS

\* The event at the head of the queue taken off.
LEMMA Delivered ==
  ASSUME NEW S, NEW s \in Seq(S), s # <<>>
  PROVE  /\ Tail(s) \in Seq(S) /\ Len(Tail(s)) = Len(s) - 1 /\ 1 \in DOMAIN s
         /\ Head(s) = s[1]
         /\ \A i \in DOMAIN Tail(s) : i + 1 \in DOMAIN s /\ Tail(s)[i] = s[i + 1]
         /\ \A i \in DOMAIN s : i = 1 \/ (i - 1 \in DOMAIN Tail(s) /\ Tail(s)[i - 1] = s[i])
<1>1. Len(s) \in Nat /\ DOMAIN s = 1 .. Len(s) /\ Len(s) > 0
  OBVIOUS
<1>2. Tail(s) \in Seq(S) /\ Len(Tail(s)) = Len(s) - 1
  OBVIOUS
<1>3. DOMAIN Tail(s) = 1 .. Len(s) - 1
  BY <1>1, <1>2
<1>4. \A i \in 1 .. Len(s) - 1 : Tail(s)[i] = s[i + 1]
  BY <1>1
<1> QED
  BY <1>1, <1>2, <1>3, <1>4

\* What the exit of a process leaves on the list.
LEMMA OwnedRemain ==
  ASSUME timerlist \in Seq(Timer), NEW p
  PROVE  /\ WithoutOwner(p) \in Seq(Timer)
         /\ ToSet(WithoutOwner(p)) = {t \in ToSet(timerlist) : owner[t] # p}
         /\ Once(timerlist) => Once(WithoutOwner(p))
<1> DEFINE n == Len(timerlist)
           Kept(f) == f = [i \in 0 .. n |->
             IF i = 0 THEN <<>>
             ELSE IF owner[timerlist[i]] = p THEN f[i - 1]
             ELSE Append(f[i - 1], timerlist[i])]
           kept == CHOOSE f : Kept(f)
           V == Seq(Timer)
           g == [i \in 1 .. n |-> [s \in V |->
                   IF owner[timerlist[i]] = p THEN s ELSE Append(s, timerlist[i])]]
<1>1. WithoutOwner(p) = kept[n]
  BY DEF WithoutOwner
<1>2. n \in Nat /\ DOMAIN timerlist = 1 .. n /\ \A i \in 1 .. n : timerlist[i] \in Timer
  OBVIOUS
<1> HIDE DEF n
<1>3. <<>> \in V
  OBVIOUS
<1>4. g \in [1 .. n -> [V -> V]]
  <2> SUFFICES ASSUME NEW i \in 1 .. n, NEW s \in V
               PROVE  (IF owner[timerlist[i]] = p THEN s ELSE Append(s, timerlist[i])) \in V
    OBVIOUS
  <2>1. timerlist[i] \in Timer
    BY <1>2
  <2> QED
    BY <2>1
<1>5. \E f : Kept(f)
  <2> HIDE DEF g, V
  <2>1. PICK f \in [0 .. n -> V] : Iterates(f, n, <<>>, g)
    BY <1>2, <1>3, <1>4, IterationExists
  <2>2. f = [i \in 0 .. n |-> IF i = 0 THEN <<>> ELSE g[i][f[i - 1]]]
    BY <2>1 DEF Iterates
  <2>3. \A i \in 0 .. n : i # 0 =>
          g[i][f[i - 1]] = IF owner[timerlist[i]] = p THEN f[i - 1]
                           ELSE Append(f[i - 1], timerlist[i])
    <3> SUFFICES ASSUME NEW i \in 0 .. n, i # 0
                 PROVE  g[i][f[i - 1]] = IF owner[timerlist[i]] = p THEN f[i - 1]
                                         ELSE Append(f[i - 1], timerlist[i])
      OBVIOUS
    <3>1. i \in 1 .. n /\ i - 1 \in 0 .. n
      BY <1>2
    <3>2. f[i - 1] \in V
      BY <2>1, <3>1
    <3> QED
      BY <3>1, <3>2 DEF g
  <2>4. Kept(f)
    BY <2>2, <2>3
  <2> QED
    BY <2>4
<1>6. Kept(kept)
  <2> HIDE DEF Kept
  <2> QED
    BY <1>5
<1> HIDE DEF kept
<1>7. kept[0] = <<>>
  BY <1>2, <1>6
<1>8. \A i \in 1 .. n : kept[i] = IF owner[timerlist[i]] = p THEN kept[i - 1]
                                  ELSE Append(kept[i - 1], timerlist[i])
  <2> TAKE i \in 1 .. n
  <2>1. i \in 0 .. n /\ i # 0
    BY <1>2
  <2> QED
    BY <1>6, <2>1
<1> HIDE DEF g, Kept
<1> DEFINE Right(i) == /\ kept[i] \in V
                       /\ ToSet(kept[i]) = {timerlist[j] : j \in {j \in 1 .. i : owner[timerlist[j]] # p}}
                       /\ Once(timerlist) => Once(kept[i])
           S == {i \in 0 .. n : Right(i)}
<1>9. 0 \in S
  <2>1. ToSet(<<>>) = {} /\ Once(<<>>)
    BY DEF ToSet, Once
  <2>2. {timerlist[j] : j \in {j \in 1 .. 0 : owner[timerlist[j]] # p}} = {}
    OBVIOUS
  <2>3. Right(0)
    BY <1>3, <1>7, <2>1, <2>2
  <2> QED
    BY <1>2, <2>3
<1>10. ASSUME NEW i \in 0 .. n - 1, Right(i)
       PROVE  Right(i + 1)
  <2> DEFINE k == kept[i]
             t == timerlist[i + 1]
             m == kept[i + 1]
  <2>1. i + 1 \in 1 .. n /\ (i + 1) - 1 = i
    BY <1>2
  <2>2. m = IF owner[t] = p THEN k ELSE Append(k, t)
    BY <1>8, <2>1
  <2>3. k \in V /\ t \in Timer
    BY <1>2, <1>10, <2>1
  <2>4. \A j \in 1 .. i + 1 : j \in 1 .. i \/ j = i + 1
    OBVIOUS
  <2>5. \A j \in 1 .. i : j \in 1 .. i + 1
    OBVIOUS
  <2>6. ToSet(k) = {timerlist[j] : j \in {j \in 1 .. i : owner[timerlist[j]] # p}}
    BY <1>10
  <2>7. CASE owner[t] = p
    <3>1. m = k
      BY <2>2, <2>7
    <3>2. {j \in 1 .. i : owner[timerlist[j]] # p} = {j \in 1 .. i + 1 : owner[timerlist[j]] # p}
      BY <2>4, <2>5, <2>7
    <3> QED
      BY <1>10, <3>1, <3>2
  <2>8. CASE owner[t] # p
    <3>1. m = Append(k, t)
      BY <2>2, <2>8
    <3> HIDE DEF k, m
    <3>2. /\ m \in V /\ DOMAIN m = DOMAIN k \cup {Len(k) + 1}
          /\ Len(k) + 1 \notin DOMAIN k
          /\ \A j \in DOMAIN k : m[j] = k[j]
          /\ m[Len(k) + 1] = t
      BY <2>3, <3>1, Appended
    <3>3. ToSet(m) = ToSet(k) \cup {t}
      <4>1. ToSet(m) \subseteq ToSet(k) \cup {t}
        BY <3>2 DEF ToSet
      <4>2. ToSet(k) \cup {t} \subseteq ToSet(m)
        BY <3>2 DEF ToSet
      <4> QED
        BY <4>1, <4>2
    <3>4. {j \in 1 .. i + 1 : owner[timerlist[j]] # p}
            = {j \in 1 .. i : owner[timerlist[j]] # p} \cup {i + 1}
      BY <2>1, <2>4, <2>5, <2>8
    <3>5. ToSet(m) = {timerlist[j] : j \in {j \in 1 .. i + 1 : owner[timerlist[j]] # p}}
      BY <2>6, <3>3, <3>4
    <3>6. Once(timerlist) => Once(m)
      <4> SUFFICES ASSUME Once(timerlist) PROVE Once(m)
        OBVIOUS
      <4>1. Once(k)
        BY <1>10 DEF k
      <4>2. t \notin ToSet(k)
        BY <1>2, <2>1, <2>6 DEF Once
      <4> QED
        BY <3>2, <4>1, <4>2 DEF Once, ToSet
    <3> QED
      BY <3>2, <3>5, <3>6 DEF m
  <2> QED
    BY <2>7, <2>8
<1>11. n \in S
  <2> HIDE DEF Right
  <2>1. \A i \in 0 .. n - 1 : i \in S => i + 1 \in S
    <3> SUFFICES ASSUME NEW i \in 0 .. n - 1, i \in S PROVE i + 1 \in S
      OBVIOUS
    <3>1. i + 1 \in 0 .. n
      BY <1>2
    <3> QED
      BY <1>10, <3>1
  <2> HIDE DEF S
  <2> QED
    BY <1>2, <1>9, <2>1, BoundedInduction
<1>12. {timerlist[j] : j \in {j \in 1 .. n : owner[timerlist[j]] # p}}
         = {t \in ToSet(timerlist) : owner[t] # p}
  BY <1>2 DEF ToSet
<1>13. Right(n)
  BY <1>11
<1> QED
  BY <1>1, <1>12, <1>13

-----------------------------------------------------------------------------
(* Times.                                                                  *)

\* Half the clock, and differences of times that wrap.
LEMMA HalfTheClock ==
  Half \in Nat /\ Half >= 1 /\ ClockSize = 2 * Half /\ 0 \in Time
BY SizesAssumption DEF Half, Time

\* The difference of two times, as update_time computes it.
LEMMA MinusValue ==
  ASSUME NEW x \in Time, NEW y \in Time
  PROVE  /\ Minus(x, y) \in Time
         /\ Minus(x, y) = IF x >= y THEN x - y ELSE x - y + ClockSize
BY SizesAssumption DEF Minus, Time

\* Intervals and their lateness stay below half the clock.
LEMMA IntervalsAreShort ==
  ASSUME NEW i \in Intervals
  PROVE  i \in Nat /\ i >= 1 /\ i + MaxLate < Half /\ i \in Time
BY SizesAssumption, IntervalsAssumption, HalfTheClock DEF Time

\* A timer that is not later than the bound has expired when its age has
\* reached its interval.
LEMMA ExpiredByAge ==
  ASSUME NEW i \in Intervals, NEW a \in Time, a <= i + MaxLate
  PROVE  (i < (a + 1) % ClockSize) <=> a >= i
<1>1. /\ i \in Nat /\ i + MaxLate < Half /\ MaxLate \in Nat
      /\ a \in Nat /\ Half \in Nat /\ ClockSize = 2 * Half
  BY IntervalsAreShort, HalfTheClock, SizesAssumption DEF Time
<1>2. (a + 1) % ClockSize = a + 1
  BY <1>1
<1> QED
  BY <1>1, <1>2

\* A tick later the distances are the same.
LEMMA DistanceKept ==
  ASSUME NEW d \in Nat, 1 <= d, d < Half, NEW h \in Time,
         Minus(d, h) < Half
  PROVE  Minus(d - 1, Minus(h, 1)) = Minus(d, h)
<1>1. Half \in Nat /\ ClockSize = 2 * Half
  BY HalfTheClock
<1>2. d \in Time /\ d - 1 \in Time /\ 1 \in Time
  BY <1>1 DEF Time
<1>3. Minus(h, 1) \in Time /\ Minus(h, 1) = IF h >= 1 THEN h - 1 ELSE h - 1 + ClockSize
  BY <1>2, MinusValue
<1> DEFINE k == Minus(h, 1)
<1>4. Minus(d - 1, k) = IF d - 1 >= k THEN d - 1 - k ELSE d - 1 - k + ClockSize
  <2>1. k \in Time
    BY <1>3
  <2> HIDE DEF k
  <2> QED
    BY <1>2, <2>1, MinusValue
<1>5. Minus(d, h) = IF d >= h THEN d - h ELSE d - h + ClockSize
  BY <1>2, MinusValue
<1> QED
  BY <1>1, <1>3, <1>4, <1>5 DEF Time

\* The interrupt wakes the process up for a timer that expires at this tick.
LEMMA WokenInTime ==
  ASSUME NEW h \in Time, Minus(1, h) < Half
  PROVE  WakesUp(Minus(h, 1))
<1>1. Half \in Nat /\ Half >= 1 /\ ClockSize = 2 * Half
  BY HalfTheClock
<1>2. 1 \in Time
  BY <1>1 DEF Time
<1> DEFINE k == Minus(h, 1)
<1>3. k \in Time /\ k = IF h >= 1 THEN h - 1 ELSE h - 1 + ClockSize
  BY <1>2, MinusValue
<1>4. Minus(1, h) = IF 1 >= h THEN 1 - h ELSE 1 - h + ClockSize
  BY <1>2, MinusValue
<1> HIDE DEF k
<1>5. Minus(k, 1) = IF k >= 1 THEN k - 1 ELSE k - 1 + ClockSize
  BY <1>2, <1>3, MinusValue
<1>6. Minus(k, 1) >= Half
  BY <1>1, <1>3, <1>4, <1>5 DEF Time
<1> QED
  BY <1>6 DEF WakesUp, k

\* next_expiration lies less than half the clock before every timer that has
\* not expired, wherever it lies for those that have.
LEMMA NextExpirationIsNear ==
  ASSUME NEW list \in Seq(Timer), NEW ag \in [Timer -> Time],
         NEW iv \in [Timer -> Intervals \cup {0}],
         \A t \in ToSet(list) : iv[t] \in Intervals /\ ag[t] <= iv[t] + MaxLate
  PROVE  /\ NextExpiration(list, ag, iv) \in Time
         /\ \A t \in ToSet(list) : ag[t] < iv[t] =>
              Minus(Minus(iv[t], ag[t]), NextExpiration(list, ag, iv)) < Half
<1> DEFINE due == NextExpiration(list, ag, iv)
           D == {Minus(iv[t], ag[t]) : t \in ToSet(list)}
<1>1. ToSet(list) \subseteq Timer
  BY DEF ToSet
<1>2. \A t \in ToSet(list) : iv[t] \in Time /\ ag[t] \in Time /\ iv[t] < Half
                             /\ iv[t] \in Nat /\ ag[t] \in Nat
  BY <1>1, IntervalsAreShort, SizesAssumption, HalfTheClock DEF Time
<1>3. D \subseteq Time
  BY <1>2, MinusValue
<1>4. CASE list = <<>>
  <2>1. due = 0 /\ ToSet(list) = {}
    BY <1>4 DEF NextExpiration, ToSet
  <2> QED
    BY <2>1, HalfTheClock
<1>5. CASE list # <<>>
  <2>1. due = Min(D)
    BY <1>5 DEF NextExpiration
  <2>2. D # {}
    <3>1. 1 \in DOMAIN list
      BY <1>5
    <3> QED
      BY <3>1 DEF ToSet
  <2>3. \E x \in D : \A y \in D : x <= y
    <3>1. D \subseteq Nat
      BY <1>3 DEF Time
    <3> HIDE DEF D
    <3> QED
      BY <2>2, <3>1, LeastNatural
  <2>4. due \in D /\ \A y \in D : due <= y
    <3> HIDE DEF D, due
    <3> QED
      BY <2>1, <2>3 DEF Min
  <2>5. ASSUME NEW t \in ToSet(list), ag[t] < iv[t]
        PROVE  Minus(Minus(iv[t], ag[t]), due) < Half
    <3> HIDE DEF due
    <3>1. Minus(iv[t], ag[t]) = iv[t] - ag[t] /\ Minus(iv[t], ag[t]) \in Time
      BY <1>2, <2>5, MinusValue
    <3>2. due <= Minus(iv[t], ag[t]) /\ due \in Time
      BY <1>3, <2>4
    <3>3. Minus(Minus(iv[t], ag[t]), due) = Minus(iv[t], ag[t]) - due
      BY <3>1, <3>2, MinusValue DEF Time
    <3> QED
      BY <1>2, <3>1, <3>2, <3>3, HalfTheClock DEF Time
  <2> QED
    BY <1>3, <2>4, <2>5
<1> QED
  BY <1>4, <1>5

-----------------------------------------------------------------------------
(* The inductive invariant.                                                *)

OwnerOf(t) == IF t \in Callback THEN Ctimer ELSE App

Owned ==
  /\ \A t \in ToSet(timerlist) : owner[t] = OwnerOf(t)
  /\ \A i \in DOMAIN events : events[i].to = OwnerOf(events[i].timer)

\* A timer that is used has an interval and is not later than the bound.
Dated ==
  \A t \in Timer : Listed(t) \/ Queued(t) =>
    interval[t] \in Intervals /\ age[t] <= interval[t] + MaxLate

\* A callback timer that is set runs, or its time has come and its event waits.
\* A periodic one is never in both places, nor twice in the queue.
CallbacksSet ==
  /\ \A c \in ctimer_list : Listed(c) \/ (Queued(c) /\ age[c] >= interval[c])
  /\ \A c \in Periodic : c \in ctimer_list \/ (~Listed(c) /\ ~Queued(c))
  /\ \A c \in Periodic : ~(Listed(c) /\ Queued(c))
  /\ \A i, j \in DOMAIN events :
       events[i].timer = events[j].timer /\ events[i].timer \in Periodic => i = j

\* next_expiration is not far behind a timer that has not expired.
Near ==
  \A t \in ToSet(timerlist) : age[t] < interval[t] =>
    Minus(Minus(interval[t], age[t]), ahead) < Half

IInv ==
  /\ TypeOK /\ Once(timerlist) /\ Owned /\ Dated /\ CallbacksSet /\ Near
  /\ ExpiryNoticed /\ ExitedHasNoTimer

\* What is on the list are timers.
LEMMA ListedAreTimers ==
  ASSUME TypeOK
  PROVE  /\ ToSet(timerlist) \subseteq Timer
         /\ \A i \in DOMAIN timerlist : timerlist[i] \in ToSet(timerlist)
         /\ \A t \in ToSet(timerlist) : \E i \in DOMAIN timerlist : t = timerlist[i]
         /\ DOMAIN timerlist = 1 .. Len(timerlist) /\ Len(timerlist) \in Nat
BY DEF TypeOK, ToSet

\* The timers that have expired, by their age.
LEMMA ExpiredOnes ==
  ASSUME TypeOK, Dated, NEW t \in Timer, Listed(t) \/ Queued(t)
  PROVE  TimerExpired(t) <=> age[t] >= interval[t]
<1>1. interval[t] \in Intervals /\ age[t] \in Time /\ age[t] <= interval[t] + MaxLate
  BY DEF TypeOK, Dated
<1> QED
  BY <1>1, ExpiredByAge DEF TimerExpired

\* While the event timer process does not run, it has been asked to look
\* whenever a timer has expired.
LEMMA NoticedAtRest ==
  ASSUME TypeOK, scan = 0
  PROVE  ExpiryNoticed <=> (\A t \in ToSet(timerlist) : TimerExpired(t) => needspoll)
BY ListedAreTimers DEF ExpiryNoticed

\* The timers of a node that boots satisfy the invariant.
LEMMA InitIInv ==
  Init => IInv
<1> SUFFICES ASSUME Init PROVE IInv
  OBVIOUS
<1> USE DEF Init
<1>1. ToSet(timerlist) = {} /\ \A t : ~Queued(t)
  BY DEF ToSet, Queued
<1>2. TypeOK
  <2>1. /\ 0 \in Time /\ 0 \in 0 .. MaxCalls /\ 0 \in 0 .. Len(<<>>) + 1
        /\ Len(<<>>) <= NumEvents /\ <<>> \in Seq(Timer) /\ <<>> \in Seq(Event)
    BY HalfTheClock, SizesAssumption
  <2> QED
    BY <2>1 DEF TypeOK
<1>3. Once(timerlist) /\ Owned /\ Dated /\ Near /\ ExpiryNoticed /\ ExitedHasNoTimer
  BY <1>1 DEF Once, Owned, Dated, Near, ExpiryNoticed, ExitedHasNoTimer, Listed
<1>4. CallbacksSet
  BY <1>1 DEF CallbacksSet, Listed
<1> QED
  BY <1>2, <1>3, <1>4 DEF IInv

-----------------------------------------------------------------------------
(* The clock and the event timer process.                                  *)

\* The clock interrupt.
LEMMA TickPreserves ==
  ASSUME IInv, Tick
  PROVE  IInv'
<1> DEFINE Running(t) == Listed(t) \/ Queued(t)
<1>1. /\ TypeOK /\ Dated /\ Near /\ CallbacksSet
      /\ ToSet(timerlist) \subseteq Timer
  BY ListedAreTimers DEF IInv
<1>2. /\ timerlist' = timerlist /\ interval' = interval /\ owner' = owner
      /\ scan' = scan /\ polled' = polled /\ events' = events
      /\ ctimer_list' = ctimer_list /\ alive' = alive /\ calls' = calls
      /\ age' = [t \in Timer |-> IF Running(t) THEN (age[t] + 1) % ClockSize ELSE 0]
      /\ ahead' = (IF timerlist = <<>> THEN 0 ELSE Minus(ahead, 1))
      /\ needspoll' = (needspoll \/ (timerlist # <<>> /\ WakesUp(ahead')))
      /\ \A t \in Timer : Waited(t) < MaxLate
  BY DEF Tick, loop
<1>3. \A t : (Listed(t)' <=> Listed(t)) /\ (Queued(t)' <=> Queued(t))
  BY <1>2 DEF Listed, Queued
<1>4. ASSUME NEW t \in Timer, Running(t)
      PROVE  /\ age'[t] = age[t] + 1 /\ age[t] + 1 <= interval[t] + MaxLate
             /\ age[t] + 1 \in Time /\ interval[t] \in Intervals /\ age[t] \in Time
  <2>1. /\ interval[t] \in Intervals /\ age[t] \in Time /\ age[t] <= interval[t] + MaxLate
        /\ age'[t] = (age[t] + 1) % ClockSize /\ Waited(t) < MaxLate
    BY <1>1, <1>2, <1>4 DEF TypeOK, Dated
  <2>2. /\ interval[t] \in Time /\ interval[t] \in Nat /\ interval[t] + MaxLate < Half
        /\ MaxLate \in Nat /\ Half \in Nat /\ ClockSize = 2 * Half
    BY <2>1, IntervalsAreShort, HalfTheClock, SizesAssumption
  <2>3. age[t] + 1 <= interval[t] + MaxLate
    <3>1. CASE age[t] < interval[t]
      BY <2>1, <2>2, <3>1 DEF Time
    <3>2. CASE age[t] >= interval[t]
      <4>1. Minus(age[t], interval[t]) = age[t] - interval[t]
        BY <2>1, <2>2, <3>2, MinusValue
      <4>2. Minus(age[t], interval[t]) < Half
        BY <2>1, <2>2, <4>1 DEF Time
      <4>3. Waited(t) = Minus(age[t], interval[t])
        BY <1>4, <4>2 DEF Waited
      <4> QED
        BY <2>1, <2>2, <4>1, <4>3 DEF Time
    <3> QED
      BY <2>1, <2>2, <3>1, <3>2 DEF Time
  <2>4. age[t] + 1 \in Time /\ (age[t] + 1) % ClockSize = age[t] + 1
    BY <2>1, <2>2, <2>3 DEF Time
  <2> QED
    BY <2>1, <2>3, <2>4
<1>5. age' \in [Timer -> Time] /\ ahead' \in Time
  <2>1. \A t \in Timer : (IF Running(t) THEN (age[t] + 1) % ClockSize ELSE 0) \in Time
    BY <1>4, <1>2, HalfTheClock
  <2>2. Minus(ahead, 1) \in Time
    BY <1>1, SizesAssumption DEF TypeOK, Minus, Time
  <2> QED
    BY <1>2, <2>1, <2>2, HalfTheClock
<1>6. TypeOK'
  <2>1. needspoll' \in BOOLEAN
    BY <1>1, <1>2 DEF TypeOK, WakesUp
  <2> QED
    BY <1>1, <1>2, <1>5, <2>1 DEF TypeOK
<1>7. Once(timerlist)' /\ Owned' /\ ExitedHasNoTimer'
  BY <1>2 DEF IInv, Once, Owned, ExitedHasNoTimer
<1>8. Dated'
  BY <1>2, <1>3, <1>4 DEF Dated
<1>9. CallbacksSet'
  <2>1. ASSUME NEW c \in ctimer_list, ~Listed(c)
        PROVE  Queued(c) /\ age'[c] >= interval[c]
    <3>1. c \in Timer /\ Queued(c) /\ age[c] >= interval[c]
      BY <1>1, <2>1 DEF CallbacksSet, TypeOK, Timer
    <3>2. age'[c] = age[c] + 1 /\ age[c] \in Nat /\ interval[c] \in Nat
      BY <1>4, <3>1, IntervalsAreShort DEF Time
    <3> QED
      BY <3>1, <3>2
  <2> QED
    BY <1>1, <1>2, <1>3, <2>1 DEF CallbacksSet
<1>10. ASSUME NEW t \in ToSet(timerlist), age[t] < interval[t]
       PROVE  /\ interval[t] - age[t] \in Nat /\ 1 <= interval[t] - age[t]
              /\ interval[t] - age[t] < Half /\ ahead' = Minus(ahead, 1)
              /\ Minus(interval[t] - age[t], ahead) < Half /\ ahead \in Time
              /\ age[t] \in Nat /\ interval[t] \in Nat /\ interval[t] \in Time
  <2>1. t \in Timer /\ Running(t)
    BY <1>1 DEF Listed
  <2>2. age[t] \in Time /\ interval[t] \in Intervals
    BY <1>4, <2>1
  <2>3. /\ interval[t] \in Nat /\ interval[t] \in Time /\ interval[t] < Half
        /\ age[t] \in Nat /\ Half \in Nat
    BY <2>2, IntervalsAreShort, SizesAssumption, HalfTheClock DEF Time
  <2>4. Minus(interval[t], age[t]) = interval[t] - age[t]
    BY <1>10, <2>2, <2>3, MinusValue
  <2>5. timerlist # <<>>
    BY DEF ToSet
  <2> QED
    BY <1>1, <1>2, <1>10, <2>3, <2>4, <2>5 DEF Near, TypeOK
<1>11. Near'
  <2> SUFFICES ASSUME NEW t \in ToSet(timerlist), age'[t] < interval[t]
               PROVE  Minus(Minus(interval[t], age'[t]), ahead') < Half
    BY <1>2 DEF Near
  <2>1. age'[t] = age[t] + 1 /\ age'[t] \in Time /\ age[t] \in Time /\ interval[t] \in Intervals
    BY <1>1, <1>4 DEF Listed
  <2>2. age[t] < interval[t] /\ 1 <= interval[t] - age[t] - 1
    BY <2>1, IntervalsAreShort DEF Time
  <2>3. Minus(interval[t], age'[t]) = (interval[t] - age[t]) - 1
    BY <1>10, <2>1, <2>2, MinusValue
  <2> DEFINE d == interval[t] - age[t]
  <2>4. Minus(d - 1, Minus(ahead, 1)) = Minus(d, ahead)
    <3>1. d \in Nat /\ 1 <= d /\ d < Half /\ ahead \in Time /\ Minus(d, ahead) < Half
      BY <1>10, <2>2
    <3> HIDE DEF d
    <3> QED
      BY <3>1, DistanceKept
  <2> QED
    BY <1>10, <2>2, <2>3, <2>4
<1>12. ExpiryNoticed'
  <2> SUFFICES ASSUME NEW i \in DOMAIN timerlist, ~needspoll',
                      interval[timerlist[i]] < (age'[timerlist[i]] + 1) % ClockSize
               PROVE  scan # 0 /\ scan <= i
    BY <1>2 DEF ExpiryNoticed, TimerExpired
  <2> DEFINE t == timerlist[i]
  <2>1. t \in ToSet(timerlist) /\ t \in Timer /\ Running(t)
    BY <1>1 DEF ToSet, Listed
  <2>2. /\ age'[t] = age[t] + 1 /\ age'[t] \in Time /\ interval[t] \in Intervals
        /\ age'[t] <= interval[t] + MaxLate /\ age[t] \in Time
    BY <1>4, <2>1
  <2> HIDE DEF t
  <2>3. age'[t] >= interval[t]
    <3>1. interval[t] < (age'[t] + 1) % ClockSize
      BY DEF t
    <3> QED
      BY <2>2, <3>1, ExpiredByAge
  <2>4. CASE age[t] >= interval[t]
    <3>1. TimerExpired(t)
      BY <1>1, <2>1, <2>4, ExpiredOnes
    <3>2. ~needspoll
      BY <1>2
    <3> QED
      BY <3>1, <3>2 DEF IInv, ExpiryNoticed, t
  <2>5. CASE age[t] < interval[t]
    <3>1. interval[t] - age[t] = 1
      BY <1>10, <2>1, <2>2, <2>3, <2>5
    <3>2. WakesUp(Minus(ahead, 1))
      BY <1>10, <2>1, <2>5, <3>1, WokenInTime
    <3>3. timerlist # <<>>
      BY <2>1 DEF ToSet
    <3> QED
      BY <1>2, <1>10, <2>1, <2>5, <3>2, <3>3
  <2>6. age[t] \in Nat /\ interval[t] \in Nat
    BY <2>2, IntervalsAreShort DEF Time
  <2> QED
    BY <2>4, <2>5, <2>6
<1> QED
  BY <1>6, <1>7, <1>8, <1>9, <1>11, <1>12 DEF IInv

\* The event timer process is polled.
LEMMA BeginPollPreserves ==
  ASSUME IInv, BeginPoll
  PROVE  IInv'
<1>1. /\ UNCHANGED <<timerlist, age, interval, owner, ahead, events, ctimer_list, alive, calls>>
      /\ needspoll' = FALSE /\ scan' = 1 /\ polled' = TRUE
  BY DEF BeginPoll, timers
<1>2. TypeOK'
  <2>1. TypeOK
    BY DEF IInv
  <2>2. 1 \in 0 .. Len(timerlist) + 1
    BY <2>1, ListedAreTimers
  <2> QED
    BY <1>1, <2>1, <2>2 DEF TypeOK
<1>3. /\ Once(timerlist)' /\ Owned' /\ Dated' /\ CallbacksSet' /\ Near'
      /\ ExitedHasNoTimer'
  BY <1>1 DEF IInv, Once, Owned, Dated, CallbacksSet, Near, ExitedHasNoTimer, Listed, Queued
<1>4. ExpiryNoticed'
  <2>1. \A i \in DOMAIN timerlist : 1 <= i
    BY ListedAreTimers DEF IInv
  <2> QED
    BY <1>1, <2>1 DEF ExpiryNoticed
<1> QED
  BY <1>2, <1>3, <1>4 DEF IInv

\* Its poll handler returns.
LEMMA EndPollPreserves ==
  ASSUME IInv, EndPoll
  PROVE  IInv'
<1>1. /\ UNCHANGED <<timerlist, age, interval, owner, ahead, needspoll, polled,
                     events, ctimer_list, alive, calls>>
      /\ scan = Len(timerlist) + 1 /\ scan' = 0
  BY DEF EndPoll, timers
<1>2. Len(timerlist) \in Nat /\ DOMAIN timerlist = 1 .. Len(timerlist)
  BY ListedAreTimers DEF IInv
<1>3. TypeOK'
  <2>1. scan' \in 0 .. Len(timerlist') + 1
    BY <1>1, <1>2
  <2>2. TypeOK
    BY DEF IInv
  <2> QED
    BY <1>1, <2>1, <2>2 DEF TypeOK
<1>4. /\ Once(timerlist)' /\ Owned' /\ Dated' /\ CallbacksSet' /\ Near'
      /\ ExitedHasNoTimer'
  BY <1>1 DEF IInv, Once, Owned, Dated, CallbacksSet, Near, ExitedHasNoTimer, Listed, Queued
<1>5. ExpiryNoticed'
  BY <1>1, <1>2 DEF IInv, ExpiryNoticed, TimerExpired
<1> QED
  BY <1>3, <1>4, <1>5 DEF IInv

\* A timer that has not expired, or an expiry the queue has no room for: in
\* the second case the process asks for another poll.
LEMMA PassOverPreserves ==
  ASSUME IInv, scan \in 1 .. Len(timerlist), NEW t, t = timerlist[scan],
         Skip(t) \/ (TimerExpired(t) /\ TryLater(t)),
         UNCHANGED <<polled, ctimer_list, alive, calls>>
  PROVE  IInv'
<1>1. /\ UNCHANGED <<timerlist, age, interval, owner, ahead, events, ctimer_list, alive, calls, polled>>
      /\ scan' = scan + 1 /\ needspoll' \in BOOLEAN
      /\ (~TimerExpired(t) /\ needspoll' = needspoll) \/ needspoll' = TRUE
  BY DEF Skip, TryLater, timers, IInv, TypeOK
<1>2. Len(timerlist) \in Nat /\ DOMAIN timerlist = 1 .. Len(timerlist)
  BY ListedAreTimers DEF IInv
<1>3. TypeOK'
  BY <1>1, <1>2 DEF IInv, TypeOK
<1>4. /\ Once(timerlist)' /\ Owned' /\ Dated' /\ CallbacksSet' /\ Near'
      /\ ExitedHasNoTimer'
  BY <1>1 DEF IInv, Once, Owned, Dated, CallbacksSet, Near, ExitedHasNoTimer, Listed, Queued
<1>5. ExpiryNoticed'
  <2> SUFFICES ASSUME NEW i \in DOMAIN timerlist, TimerExpired(timerlist[i]), ~needspoll'
               PROVE  scan' # 0 /\ scan' <= i
    BY <1>1 DEF ExpiryNoticed, TimerExpired
  <2>1. ~TimerExpired(t) /\ needspoll' = needspoll
    BY <1>1
  <2>2. scan # 0 /\ scan <= i
    BY <2>1 DEF IInv, ExpiryNoticed
  <2>3. scan # i
    BY <2>1
  <2> QED
    BY <1>1, <1>2, <2>2, <2>3
<1> QED
  BY <1>3, <1>4, <1>5 DEF IInv

\* The expiry is put into the queue, the timer leaves the list.
LEMMA PostExpiryPreserves ==
  ASSUME IInv, scan \in 1 .. Len(timerlist), NEW t, t = timerlist[scan],
         TimerExpired(t), PostExpiry(t),
         UNCHANGED <<polled, ctimer_list, alive, calls>>
  PROVE  IInv'
<1>1. /\ UNCHANGED <<age, interval, needspoll, ctimer_list, alive, calls, polled>>
      /\ Len(events) < NumEvents
      /\ events' = Append(events, [to |-> owner[t], timer |-> t])
      /\ owner' = [owner EXCEPT ![t] = None]
      /\ timerlist' = RemoveAt(timerlist, scan)
      /\ ahead' = NextExpiration(timerlist', age, interval) /\ scan' = 1
  BY DEF PostExpiry
<1>2. TypeOK /\ Once(timerlist) /\ Owned /\ Dated /\ CallbacksSet
  BY DEF IInv
<1>3. t \in Timer /\ Listed(t) /\ t \in ToSet(timerlist)
  BY <1>2, ListedAreTimers DEF Listed
<1>4. /\ timerlist' \in Seq(Timer) /\ Len(timerlist') = Len(timerlist) - 1
      /\ ToSet(timerlist') = ToSet(timerlist) \ {t} /\ Once(timerlist')
  <2>1. timerlist \in Seq(Timer) /\ Once(timerlist)
    BY <1>2 DEF TypeOK
  <2> QED
    BY <1>1, <2>1, Unlinked
<1>5. owner[t] = OwnerOf(t) /\ OwnerOf(t) \in {Ctimer, App}
  BY <1>2, <1>3 DEF Owned, OwnerOf
<1> DEFINE e == [to |-> owner[t], timer |-> t]
<1>6. e \in Event /\ e.to = OwnerOf(e.timer) /\ e.timer = t
  BY <1>3, <1>5 DEF Event
<1> HIDE DEF e
<1>7. /\ events' \in Seq(Event) /\ Len(events') = Len(events) + 1
      /\ DOMAIN events' = DOMAIN events \cup {Len(events) + 1}
      /\ Len(events) + 1 \notin DOMAIN events
      /\ \A i \in DOMAIN events : events'[i] = events[i]
      /\ events'[Len(events) + 1] = e
  <2>1. events \in Seq(Event) /\ events' = Append(events, e)
    BY <1>1, <1>2 DEF TypeOK, e
  <2> QED
    BY <1>6, <2>1, Appended
<1>8. \A u : /\ Listed(u)' <=> Listed(u) /\ u # t
             /\ Queued(u)' <=> Queued(u) \/ u = t
  BY <1>4, <1>6, <1>7 DEF Listed, Queued
<1>9. ahead' \in Time /\ Near'
  <2>1. \A u \in ToSet(timerlist') : interval[u] \in Intervals /\ age[u] <= interval[u] + MaxLate
    <3> TAKE u \in ToSet(timerlist')
    <3>1. u \in Timer /\ Listed(u)
      BY <1>2, <1>4, ListedAreTimers DEF Listed
    <3> QED
      BY <1>2, <3>1 DEF Dated
  <2>2. age \in [Timer -> Time] /\ interval \in [Timer -> Intervals \cup {0}]
    BY <1>2 DEF TypeOK
  <2>3. /\ NextExpiration(timerlist', age, interval) \in Time
        /\ \A u \in ToSet(timerlist') : age[u] < interval[u] =>
             Minus(Minus(interval[u], age[u]), NextExpiration(timerlist', age, interval)) < Half
    BY <1>4, <2>1, <2>2, NextExpirationIsNear
  <2> QED
    BY <1>1, <2>3 DEF Near
<1>10. TypeOK'
  <2>1. /\ Len(events') \in Nat /\ Len(events') <= NumEvents
    BY <1>1, <1>2, <1>7, SizesAssumption DEF TypeOK
  <2>2. owner' \in [Timer -> {None, Ctimer, App}]
    BY <1>1, <1>2 DEF TypeOK
  <2>3. scan' \in 0 .. Len(timerlist') + 1
    BY <1>1, <1>2, <1>4, ListedAreTimers
  <2> QED
    BY <1>1, <1>2, <1>4, <1>7, <1>9, <2>1, <2>2, <2>3 DEF TypeOK
<1>11. Owned'
  <2>1. \A u \in ToSet(timerlist') : owner'[u] = OwnerOf(u)
    <3> TAKE u \in ToSet(timerlist')
    <3>1. u \in Timer /\ u # t /\ owner[u] = OwnerOf(u)
      BY <1>2, <1>4, ListedAreTimers DEF Owned
    <3> QED
      BY <1>1, <1>2, <3>1 DEF TypeOK
  <2>2. \A i \in DOMAIN events' : events'[i].to = OwnerOf(events'[i].timer)
    BY <1>2, <1>6, <1>7 DEF Owned
  <2> QED
    BY <2>1, <2>2 DEF Owned, OwnerOf
<1>12. Dated'
  BY <1>1, <1>2, <1>3, <1>8 DEF Dated
<1>13. age[t] >= interval[t]
  BY <1>2, <1>3, ExpiredOnes
<1>14. CallbacksSet'
  <2>1. \A c \in ctimer_list : Listed(c)' \/ (Queued(c)' /\ age[c] >= interval[c])
    BY <1>2, <1>8, <1>13 DEF CallbacksSet
  <2>2. \A c \in Periodic : c \in ctimer_list \/ (~Listed(c)' /\ ~Queued(c)')
    BY <1>2, <1>3, <1>8 DEF CallbacksSet
  <2>3. \A c \in Periodic : ~(Listed(c)' /\ Queued(c)')
    BY <1>2, <1>8 DEF CallbacksSet
  <2>4. ASSUME NEW i \in DOMAIN events', NEW j \in DOMAIN events',
               events'[i].timer = events'[j].timer, events'[i].timer \in Periodic
        PROVE  i = j
    <3>1. t \in Periodic => ~Queued(t)
      BY <1>2, <1>3 DEF CallbacksSet
    <3>2. \A k \in DOMAIN events : events[k].timer = t => t \notin Periodic
      BY <3>1 DEF Queued
    <3>3. CASE i \in DOMAIN events /\ j \in DOMAIN events
      BY <1>2, <1>7, <2>4, <3>3 DEF CallbacksSet
    <3>4. CASE i \notin DOMAIN events /\ j \in DOMAIN events
      BY <1>6, <1>7, <2>4, <3>2, <3>4
    <3>5. CASE i \in DOMAIN events /\ j \notin DOMAIN events
      BY <1>6, <1>7, <2>4, <3>2, <3>5
    <3>6. CASE i \notin DOMAIN events /\ j \notin DOMAIN events
      BY <1>7, <3>6
    <3> QED
      BY <3>3, <3>4, <3>5, <3>6
  <2> QED
    BY <1>1, <2>1, <2>2, <2>3, <2>4 DEF CallbacksSet
<1>15. ExpiryNoticed'
  <2>1. \A i \in DOMAIN timerlist' : 1 <= i
    BY <1>4
  <2> QED
    BY <1>1, <2>1 DEF ExpiryNoticed
<1>16. ExitedHasNoTimer'
  <2>1. \A i \in DOMAIN timerlist' : timerlist'[i] \in Timer /\ timerlist'[i] # t
                                      /\ timerlist'[i] \in ToSet(timerlist)
    BY <1>2, <1>4, ListedAreTimers DEF ToSet
  <2>2. ~alive => \A u \in ToSet(timerlist) : owner[u] # App
    BY <1>2, ListedAreTimers DEF IInv, ExitedHasNoTimer
  <2> QED
    BY <1>1, <1>2, <2>1, <2>2 DEF ExitedHasNoTimer, TypeOK
<1> QED
  BY <1>4, <1>9, <1>10, <1>11, <1>12, <1>14, <1>15, <1>16 DEF IInv, Once

\* One step of its loop.
LEMMA ScanTimerPreserves ==
  ASSUME IInv, ScanTimer
  PROVE  IInv'
<1> DEFINE t == timerlist[scan]
<1>1. /\ scan \in 1 .. Len(timerlist)
      /\ UNCHANGED <<polled, ctimer_list, alive, calls>>
      /\ Skip(t) \/ (TimerExpired(t) /\ (PostExpiry(t) \/ TryLater(t)))
  BY DEF ScanTimer
<1>2. CASE TimerExpired(t) /\ PostExpiry(t)
  BY <1>1, <1>2, PostExpiryPreserves
<1>3. CASE Skip(t) \/ (TimerExpired(t) /\ TryLater(t))
  BY <1>1, <1>3, PassOverPreserves
<1> QED
  BY <1>1, <1>2, <1>3

-----------------------------------------------------------------------------
(* Timers are set and stopped.                                             *)

\* A timer that is set is on the list, once.
LEMMA TimerAdded ==
  ASSUME TypeOK, Once(timerlist), Owned, Dated,
         NEW t \in Timer, NEW ag \in Time, NEW iv \in Intervals, ag <= iv + MaxLate,
         AddTimer(t, OwnerOf(t), ag, iv)
  PROVE  /\ timerlist' \in Seq(Timer) /\ Once(timerlist')
         /\ ToSet(timerlist') = ToSet(timerlist) \cup {t}
         /\ age' \in [Timer -> Time] /\ age' = [age EXCEPT ![t] = ag]
         /\ interval' \in [Timer -> Intervals \cup {0}] /\ interval' = [interval EXCEPT ![t] = iv]
         /\ owner' \in [Timer -> {None, Ctimer, App}]
         /\ \A u \in ToSet(timerlist') : owner'[u] = OwnerOf(u)
         /\ ahead' \in Time /\ Near' /\ needspoll' = TRUE
         /\ \A u \in ToSet(timerlist') :
              interval'[u] \in Intervals /\ age'[u] <= interval'[u] + MaxLate
<1> DEFINE running == owner[t] # None /\ Listed(t)
<1>1. /\ age' = [age EXCEPT ![t] = ag]
      /\ interval' = [interval EXCEPT ![t] = iv]
      /\ owner' = IF running THEN owner ELSE [owner EXCEPT ![t] = OwnerOf(t)]
      /\ timerlist' = IF running THEN timerlist ELSE <<t>> \o timerlist
      /\ ahead' = NextExpiration(timerlist', age', interval')
      /\ needspoll' = TRUE
  BY DEF AddTimer
<1>2. OwnerOf(t) \in {Ctimer, App} /\ OwnerOf(t) # None
  BY NamesAssumption DEF OwnerOf
<1>3. running <=> t \in ToSet(timerlist)
  BY <1>2 DEF Owned, Listed
<1>4. timerlist \in Seq(Timer) /\ owner \in [Timer -> {None, Ctimer, App}]
  BY DEF TypeOK
<1> HIDE DEF running
<1>5. /\ timerlist' \in Seq(Timer) /\ Once(timerlist')
      /\ ToSet(timerlist') = ToSet(timerlist) \cup {t}
  <2>1. CASE running
    BY <1>1, <1>3, <1>4, <2>1
  <2>2. CASE ~running
    <3>1. timerlist' = <<t>> \o timerlist /\ t \notin ToSet(timerlist)
      BY <1>1, <1>3, <2>2
    <3> QED
      BY <1>4, <3>1, Prepended
  <2> QED
    BY <2>1, <2>2
<1>6. /\ age' \in [Timer -> Time] /\ interval' \in [Timer -> Intervals \cup {0}]
  BY <1>1 DEF TypeOK
<1>7. /\ owner' \in [Timer -> {None, Ctimer, App}]
      /\ \A u \in ToSet(timerlist') : owner'[u] = OwnerOf(u)
  <2>1. ToSet(timerlist) \subseteq Timer /\ \A u \in ToSet(timerlist) : owner[u] = OwnerOf(u)
    BY ListedAreTimers DEF Owned
  <2>2. CASE running
    BY <1>1, <1>3, <1>4, <1>5, <2>1, <2>2
  <2>3. CASE ~running
    BY <1>1, <1>2, <1>4, <1>5, <2>1, <2>3
  <2> QED
    BY <2>2, <2>3
<1>8. \A u \in ToSet(timerlist') :
        interval'[u] \in Intervals /\ age'[u] <= interval'[u] + MaxLate
  <2> TAKE u \in ToSet(timerlist')
  <2>1. CASE u = t
    BY <1>1, <2>1 DEF TypeOK
  <2>2. CASE u # t
    <3>1. u \in Timer /\ Listed(u)
      BY <1>5, <2>2, ListedAreTimers DEF Listed
    <3> QED
      BY <1>1, <2>2, <3>1 DEF TypeOK, Dated
  <2> QED
    BY <2>1, <2>2
<1>9. ahead' \in Time /\ Near'
  <2> DEFINE due == NextExpiration(timerlist', age', interval')
  <2>1. /\ due \in Time
        /\ \A u \in ToSet(timerlist') : age'[u] < interval'[u] =>
             Minus(Minus(interval'[u], age'[u]), due) < Half
    BY <1>5, <1>6, <1>8, NextExpirationIsNear
  <2> HIDE DEF due
  <2>2. ahead' = due
    BY <1>1 DEF due
  <2> QED
    BY <2>1, <2>2 DEF Near
<1> QED
  BY <1>1, <1>5, <1>6, <1>7, <1>8, <1>9

\* A timer is set by an application or by the routing protocol.
LEMMA SetPreserves ==
  ASSUME IInv, NEW t \in Timer, NEW iv \in Intervals, Called,
         AddTimer(t, OwnerOf(t), 0, iv),
         t \in Periodic => t \notin ctimer_list,
         t \in Plain => alive,
         ctimer_list' = (IF t \in Callback THEN ctimer_list \cup {t} ELSE ctimer_list),
         UNCHANGED <<loop, events, alive>>
  PROVE  IInv'
<1>1. TypeOK /\ Once(timerlist) /\ Owned /\ Dated /\ CallbacksSet
  BY DEF IInv
<1>2. 0 \in Time /\ 0 <= iv + MaxLate
  BY HalfTheClock, IntervalsAreShort, SizesAssumption
<1>3. /\ timerlist' \in Seq(Timer) /\ Once(timerlist')
      /\ ToSet(timerlist') = ToSet(timerlist) \cup {t}
      /\ age' \in [Timer -> Time] /\ age' = [age EXCEPT ![t] = 0]
      /\ interval' \in [Timer -> Intervals \cup {0}] /\ interval' = [interval EXCEPT ![t] = iv]
      /\ owner' \in [Timer -> {None, Ctimer, App}]
      /\ \A u \in ToSet(timerlist') : owner'[u] = OwnerOf(u)
      /\ ahead' \in Time /\ Near' /\ needspoll' = TRUE
      /\ \A u \in ToSet(timerlist') :
           interval'[u] \in Intervals /\ age'[u] <= interval'[u] + MaxLate
  BY <1>1, <1>2, TimerAdded
<1>4. /\ scan = 0 /\ scan' = 0 /\ polled' = polled /\ events' = events /\ alive' = alive
      /\ calls < MaxCalls /\ calls' = calls + 1
  BY DEF Called, loop
<1>5. \A u : /\ Listed(u)' <=> Listed(u) \/ u = t
             /\ Queued(u)' <=> Queued(u)
  BY <1>3, <1>4 DEF Listed, Queued
<1>6. TypeOK'
  <2>1. 0 \in 0 .. Len(timerlist') + 1 /\ calls' \in 0 .. MaxCalls
    BY <1>1, <1>3, <1>4, SizesAssumption DEF TypeOK
  <2>2. ctimer_list' \subseteq Callback
    BY <1>1 DEF TypeOK
  <2> QED
    BY <1>1, <1>3, <1>4, <2>1, <2>2 DEF TypeOK
<1>7. Owned'
  BY <1>1, <1>3, <1>4 DEF Owned, OwnerOf
<1>8. Dated'
  <2> SUFFICES ASSUME NEW u \in Timer, Listed(u) \/ u = t \/ Queued(u)
               PROVE  interval'[u] \in Intervals /\ age'[u] <= interval'[u] + MaxLate
    BY <1>5 DEF Dated
  <2>1. CASE u = t
    BY <1>3, <2>1
  <2>2. CASE u # t
    BY <1>1, <1>3, <2>2 DEF Dated, TypeOK
  <2> QED
    BY <2>1, <2>2
<1>9. CallbacksSet'
  <2>1. ASSUME NEW c \in ctimer_list', ~Listed(c)'
        PROVE  Queued(c)' /\ age'[c] >= interval'[c]
    <3>1. c # t /\ c \in ctimer_list /\ ~Listed(c)
      BY <1>5, <2>1
    <3>2. c \in Timer
      BY <1>1, <3>1 DEF TypeOK, Timer
    <3> QED
      BY <1>1, <1>3, <1>5, <3>1, <3>2 DEF CallbacksSet, TypeOK
  <2>2. t \in Periodic => t \in ctimer_list' /\ ~Queued(t)
    BY <1>1, NamesAssumption DEF CallbacksSet
  <2>3. ctimer_list \subseteq ctimer_list'
    OBVIOUS
  <2>4. \A c \in Periodic : c \in ctimer_list' \/ (~Listed(c)' /\ ~Queued(c)')
    BY <1>1, <1>5, <2>2, <2>3 DEF CallbacksSet
  <2>5. \A c \in Periodic : ~(Listed(c)' /\ Queued(c)')
    BY <1>1, <1>5, <2>2 DEF CallbacksSet
  <2> QED
    BY <1>1, <1>4, <2>1, <2>4, <2>5 DEF CallbacksSet
<1>10. ExpiryNoticed'
  BY <1>3 DEF ExpiryNoticed
<1>11. ExitedHasNoTimer'
  <2> SUFFICES ASSUME ~alive, NEW i \in DOMAIN timerlist'
               PROVE  owner'[timerlist'[i]] # App
    BY <1>4 DEF ExitedHasNoTimer
  <2> DEFINE u == timerlist'[i]
  <2>1. u \in ToSet(timerlist')
    BY DEF ToSet
  <2> HIDE DEF u
  <2>2. owner'[u] = OwnerOf(u)
    BY <1>3, <2>1
  <2>3. CASE u = t
    BY <2>2, <2>3, NamesAssumption DEF OwnerOf, Timer, u
  <2>4. CASE u # t
    <3>1. u \in ToSet(timerlist)
      BY <1>3, <2>1, <2>4
    <3>2. owner[u] # App /\ owner[u] = OwnerOf(u)
      BY <1>1, <3>1, ListedAreTimers DEF IInv, ExitedHasNoTimer, Owned
    <3> QED
      BY <2>2, <3>2 DEF u
  <2> QED
    BY <2>3, <2>4
<1> QED
  BY <1>3, <1>6, <1>7, <1>8, <1>9, <1>10, <1>11 DEF IInv, Once

\* A timer that is stopped is taken off the list.
LEMMA StopPreserves ==
  ASSUME IInv, NEW t \in Timer \ Periodic, Called, EtimerStop(t),
         ctimer_list' = ctimer_list \ {t},
         UNCHANGED <<needspoll, loop, events, alive>>
  PROVE  IInv'
<1>1. TypeOK /\ Once(timerlist) /\ Owned /\ Dated /\ CallbacksSet /\ Near
  BY DEF IInv
<1>2. /\ scan = 0 /\ scan' = 0 /\ polled' = polled /\ events' = events /\ alive' = alive
      /\ needspoll' = needspoll /\ calls < MaxCalls /\ calls' = calls + 1
      /\ age' = age /\ interval' = interval /\ owner' = [owner EXCEPT ![t] = None]
      /\ timerlist' = RemoveFirst(timerlist, t)
      /\ ahead' = IF Listed(t) THEN NextExpiration(timerlist', age, interval) ELSE ahead
  BY DEF Called, EtimerStop, loop
<1>3. /\ timerlist' \in Seq(Timer) /\ Once(timerlist')
      /\ ToSet(timerlist') = ToSet(timerlist) \ {t}
  <2>1. timerlist \in Seq(Timer)
    BY <1>1 DEF TypeOK
  <2> QED
    BY <1>1, <1>2, <2>1, FirstUnlinked
<1>4. \A u : /\ Listed(u)' <=> Listed(u) /\ u # t
             /\ Queued(u)' <=> Queued(u)
  BY <1>2, <1>3 DEF Listed, Queued
<1>5. ahead' \in Time /\ Near'
  <2>1. CASE Listed(t)
    <3>1. \A u \in ToSet(timerlist') : interval[u] \in Intervals /\ age[u] <= interval[u] + MaxLate
      <4> TAKE u \in ToSet(timerlist')
      <4>1. u \in Timer /\ Listed(u)
        BY <1>1, <1>3, ListedAreTimers DEF Listed
      <4> QED
        BY <1>1, <4>1 DEF Dated
    <3>2. age \in [Timer -> Time] /\ interval \in [Timer -> Intervals \cup {0}]
      BY <1>1 DEF TypeOK
    <3>3. /\ NextExpiration(timerlist', age, interval) \in Time
          /\ \A u \in ToSet(timerlist') : age[u] < interval[u] =>
               Minus(Minus(interval[u], age[u]), NextExpiration(timerlist', age, interval)) < Half
      BY <1>3, <3>1, <3>2, NextExpirationIsNear
    <3> QED
      BY <1>2, <2>1, <3>3 DEF Near
  <2>2. CASE ~Listed(t)
    BY <1>1, <1>2, <1>3, <2>2 DEF Near, TypeOK
  <2> QED
    BY <2>1, <2>2
<1>6. TypeOK'
  <2>1. 0 \in 0 .. Len(timerlist') + 1 /\ calls' \in 0 .. MaxCalls
    BY <1>1, <1>2, <1>3, SizesAssumption DEF TypeOK
  <2>2. owner' \in [Timer -> {None, Ctimer, App}] /\ ctimer_list' \subseteq Callback
    BY <1>1, <1>2 DEF TypeOK
  <2> QED
    BY <1>1, <1>2, <1>3, <1>5, <2>1, <2>2 DEF TypeOK
<1>7. \A u \in ToSet(timerlist') : u \in ToSet(timerlist) /\ owner'[u] = owner[u]
  BY <1>1, <1>2, <1>3, ListedAreTimers DEF TypeOK
<1>8. Owned'
  BY <1>1, <1>2, <1>7 DEF Owned, OwnerOf
<1>9. Dated'
  BY <1>1, <1>2, <1>4 DEF Dated
<1>10. CallbacksSet'
  <2>1. \A c \in ctimer_list' : Listed(c)' \/ (Queued(c)' /\ age'[c] >= interval'[c])
    BY <1>1, <1>2, <1>4 DEF CallbacksSet
  <2>2. \A c \in Periodic : c \in ctimer_list' \/ (~Listed(c)' /\ ~Queued(c)')
    BY <1>1, <1>4 DEF CallbacksSet
  <2>3. \A c \in Periodic : ~(Listed(c)' /\ Queued(c)')
    BY <1>1, <1>4 DEF CallbacksSet
  <2> QED
    BY <1>1, <1>2, <2>1, <2>2, <2>3 DEF CallbacksSet
<1>11. ExpiryNoticed'
  <2>1. \A u \in ToSet(timerlist) : TimerExpired(u) => needspoll
    BY <1>1, <1>2, NoticedAtRest DEF IInv
  <2>2. \A i \in DOMAIN timerlist' : timerlist'[i] \in ToSet(timerlist)
    BY <1>3 DEF ToSet
  <2> QED
    BY <1>2, <2>1, <2>2 DEF ExpiryNoticed, TimerExpired
<1>12. ExitedHasNoTimer'
  <2>1. ~alive => \A u \in ToSet(timerlist) : owner[u] # App
    BY <1>1, ListedAreTimers DEF IInv, ExitedHasNoTimer
  <2>2. \A i \in DOMAIN timerlist' : timerlist'[i] \in ToSet(timerlist')
    BY DEF ToSet
  <2> QED
    BY <1>2, <1>7, <2>1, <2>2 DEF ExitedHasNoTimer
<1> QED
  BY <1>3, <1>5, <1>6, <1>8, <1>9, <1>10, <1>11, <1>12 DEF IInv, Once

-----------------------------------------------------------------------------
(* Events are delivered.                                                   *)

\* What taking an event off the queue leaves in it.
LEMMA QueueShortened ==
  ASSUME TypeOK, Owned, CallbacksSet, events # <<>>, events' = Tail(events)
  PROVE  /\ events' \in Seq(Event) /\ Len(events') <= NumEvents
         /\ Head(events) \in Event /\ Queued(Head(events).timer)
         /\ Head(events).to = OwnerOf(Head(events).timer)
         /\ \A i \in DOMAIN events' : events'[i].to = OwnerOf(events'[i].timer)
         /\ \A u : Queued(u)' => Queued(u)
         /\ \A u : Queued(u) => Queued(u)' \/ u = Head(events).timer
         /\ Head(events).timer \in Periodic =>
              \A i \in DOMAIN events' : events'[i].timer # Head(events).timer
         /\ \A i, j \in DOMAIN events' :
              events'[i].timer = events'[j].timer /\ events'[i].timer \in Periodic => i = j
<1>1. events \in Seq(Event) /\ Len(events) <= NumEvents
  BY DEF TypeOK
<1>2. /\ events' \in Seq(Event) /\ Len(events') = Len(events) - 1 /\ 1 \in DOMAIN events
      /\ Head(events) = events[1]
      /\ \A i \in DOMAIN events' : i + 1 \in DOMAIN events /\ events'[i] = events[i + 1]
      /\ \A i \in DOMAIN events : i = 1 \/ (i - 1 \in DOMAIN events' /\ events'[i - 1] = events[i])
  BY <1>1, Delivered
<1>3. DOMAIN events' \subseteq Nat \ {0} /\ Len(events) \in Nat /\ NumEvents \in Nat
      /\ DOMAIN events \subseteq Nat
  BY <1>1, <1>2, SizesAssumption
<1>4. \A u : Queued(u) <=> \E i \in DOMAIN events : events[i].timer = u
  BY DEF Queued
<1>5. \A u : Queued(u)' <=> \E i \in DOMAIN events' : events'[i].timer = u
  BY DEF Queued
<1>6. \A u : Queued(u)' => Queued(u)
  BY <1>2, <1>4, <1>5
<1>7. \A u : Queued(u) => Queued(u)' \/ u = Head(events).timer
  BY <1>2, <1>4, <1>5
<1>8. \A i, j \in DOMAIN events' :
        events'[i].timer = events'[j].timer /\ events'[i].timer \in Periodic => i = j
  <2> SUFFICES ASSUME NEW i \in DOMAIN events', NEW j \in DOMAIN events',
                      events'[i].timer = events'[j].timer, events'[i].timer \in Periodic
               PROVE  i = j
    OBVIOUS
  <2>1. i + 1 = j + 1
    BY <1>2 DEF CallbacksSet
  <2> QED
    BY <1>3, <2>1
<1>9. ASSUME Head(events).timer \in Periodic
      PROVE  \A i \in DOMAIN events' : events'[i].timer # Head(events).timer
  <2> SUFFICES ASSUME NEW i \in DOMAIN events', events'[i].timer = Head(events).timer
               PROVE  FALSE
    OBVIOUS
  <2>1. i + 1 = 1
    BY <1>2, <1>9 DEF CallbacksSet
  <2> QED
    BY <1>3, <2>1
<1>10. /\ Head(events) \in Event /\ Queued(Head(events).timer)
       /\ Head(events).to = OwnerOf(Head(events).timer)
       /\ \A i \in DOMAIN events' : events'[i].to = OwnerOf(events'[i].timer)
  BY <1>1, <1>2, <1>4 DEF Owned
<1>11. Len(events') <= NumEvents
  BY <1>1, <1>2, <1>3
<1> QED
  BY <1>2, <1>6, <1>7, <1>8, <1>9, <1>10, <1>11

\* An event that finds nothing to call back.
LEMMA PlainDeliveryPreserves ==
  ASSUME IInv, scan = 0, events # <<>>, events' = Tail(events), polled' \in BOOLEAN,
         Head(events).timer \in ctimer_list => Head(events).timer \notin ctimer_list',
         ctimer_list' \subseteq ctimer_list,
         \A c \in ctimer_list \ ctimer_list' : c \notin Periodic,
         UNCHANGED <<timers, needspoll, scan, alive, calls>>
  PROVE  IInv'
<1>1. TypeOK /\ Once(timerlist) /\ Owned /\ Dated /\ CallbacksSet /\ Near
  BY DEF IInv
<1>2. UNCHANGED <<timerlist, age, interval, owner, ahead, needspoll, scan, alive, calls>>
  BY DEF timers
<1>3. /\ events' \in Seq(Event) /\ Len(events') <= NumEvents
      /\ \A i \in DOMAIN events' : events'[i].to = OwnerOf(events'[i].timer)
      /\ \A u : Queued(u)' => Queued(u)
      /\ \A u : Queued(u) => Queued(u)' \/ u = Head(events).timer
      /\ \A i, j \in DOMAIN events' :
           events'[i].timer = events'[j].timer /\ events'[i].timer \in Periodic => i = j
  BY <1>1, QueueShortened
<1>4. \A u : Listed(u)' <=> Listed(u)
  BY <1>2 DEF Listed
<1>5. TypeOK'
  BY <1>1, <1>2, <1>3 DEF TypeOK
<1>6. Owned'
  BY <1>1, <1>2, <1>3 DEF Owned, OwnerOf
<1>7. Dated'
  BY <1>1, <1>2, <1>3, <1>4 DEF Dated
<1>8. CallbacksSet'
  <2>1. \A c \in ctimer_list' : Listed(c)' \/ (Queued(c)' /\ age'[c] >= interval'[c])
    BY <1>1, <1>2, <1>3, <1>4 DEF CallbacksSet
  <2>2. \A c \in Periodic : c \in ctimer_list' \/ (~Listed(c)' /\ ~Queued(c)')
    BY <1>1, <1>3, <1>4 DEF CallbacksSet
  <2>3. \A c \in Periodic : ~(Listed(c)' /\ Queued(c)')
    BY <1>1, <1>3, <1>4 DEF CallbacksSet
  <2> QED
    BY <1>3, <2>1, <2>2, <2>3 DEF CallbacksSet
<1>9. Once(timerlist)' /\ Near' /\ ExpiryNoticed' /\ ExitedHasNoTimer'
  BY <1>2 DEF IInv, Once, Near, ExpiryNoticed, ExitedHasNoTimer, TimerExpired
<1> QED
  BY <1>5, <1>6, <1>7, <1>8, <1>9 DEF IInv

\* A periodic callback timer is reset by its callback.
LEMMA PeriodicDeliveryPreserves ==
  ASSUME IInv, scan = 0, events # <<>>, events' = Tail(events), polled' \in BOOLEAN,
         NEW c, c = Head(events).timer, c \in ctimer_list, c \in Periodic,
         AddTimer(c, Ctimer, Minus(age[c], interval[c]), interval[c]),
         UNCHANGED <<scan, ctimer_list, alive, calls>>
  PROVE  IInv'
<1>1. TypeOK /\ Once(timerlist) /\ Owned /\ Dated /\ CallbacksSet /\ Near
  BY DEF IInv
<1>2. /\ events' \in Seq(Event) /\ Len(events') <= NumEvents
      /\ \A i \in DOMAIN events' : events'[i].to = OwnerOf(events'[i].timer)
      /\ Queued(c) /\ ~Queued(c)'
      /\ \A u : Queued(u)' => Queued(u)
      /\ \A u : Queued(u) => Queued(u)' \/ u = c
      /\ \A i, j \in DOMAIN events' :
           events'[i].timer = events'[j].timer /\ events'[i].timer \in Periodic => i = j
  <2>1. ~Queued(c)' <=> \A i \in DOMAIN events' : events'[i].timer # c
    BY DEF Queued
  <2> QED
    BY <1>1, <2>1, QueueShortened
<1>3. c \in Callback /\ c \in Timer /\ OwnerOf(c) = Ctimer
  BY NamesAssumption DEF Timer, OwnerOf
<1>4. ~Listed(c) /\ age[c] >= interval[c]
  BY <1>1, <1>2 DEF CallbacksSet
<1> DEFINE late == Minus(age[c], interval[c])
<1>5. late \in Time /\ interval[c] \in Intervals /\ late <= interval[c] + MaxLate
  <2>1. interval[c] \in Intervals /\ age[c] <= interval[c] + MaxLate /\ age[c] \in Time
    BY <1>1, <1>2, <1>3 DEF Dated, TypeOK
  <2>2. interval[c] \in Time /\ interval[c] \in Nat /\ MaxLate \in Nat
    BY <2>1, IntervalsAreShort, SizesAssumption
  <2>3. late = age[c] - interval[c] /\ late \in Time
    BY <1>4, <2>1, <2>2, MinusValue
  <2> HIDE DEF late
  <2> QED
    BY <2>1, <2>2, <2>3 DEF Time
<1> HIDE DEF late
<1>6. AddTimer(c, OwnerOf(c), late, interval[c])
  BY <1>3 DEF late
<1>7. /\ timerlist' \in Seq(Timer) /\ Once(timerlist')
      /\ ToSet(timerlist') = ToSet(timerlist) \cup {c}
      /\ age' \in [Timer -> Time] /\ age' = [age EXCEPT ![c] = late]
      /\ interval' \in [Timer -> Intervals \cup {0}]
      /\ interval' = [interval EXCEPT ![c] = interval[c]]
      /\ owner' \in [Timer -> {None, Ctimer, App}]
      /\ \A u \in ToSet(timerlist') : owner'[u] = OwnerOf(u)
      /\ ahead' \in Time /\ Near' /\ needspoll' = TRUE
      /\ \A u \in ToSet(timerlist') :
           interval'[u] \in Intervals /\ age'[u] <= interval'[u] + MaxLate
  BY <1>1, <1>3, <1>5, <1>6, TimerAdded
<1>8. \A u : Listed(u)' <=> Listed(u) \/ u = c
  BY <1>7 DEF Listed
<1>9. TypeOK'
  <2>1. 0 \in 0 .. Len(timerlist') + 1
    BY <1>7
  <2> QED
    BY <1>1, <1>2, <1>7, <2>1 DEF TypeOK
<1>10. Owned'
  BY <1>2, <1>7 DEF Owned, OwnerOf
<1>11. Dated'
  <2> SUFFICES ASSUME NEW u \in Timer, Listed(u) \/ u = c \/ Queued(u)
               PROVE  interval'[u] \in Intervals /\ age'[u] <= interval'[u] + MaxLate
    BY <1>2, <1>8 DEF Dated
  <2>1. CASE u = c
    BY <1>7, <2>1
  <2>2. CASE u # c
    BY <1>1, <1>7, <2>2 DEF Dated, TypeOK
  <2> QED
    BY <2>1, <2>2
<1>12. CallbacksSet'
  <2>1. ASSUME NEW d \in ctimer_list, ~Listed(d)'
        PROVE  Queued(d)' /\ age'[d] >= interval'[d]
    <3>1. d # c /\ ~Listed(d) /\ d \in Timer
      BY <1>1, <1>8, <2>1 DEF TypeOK, Timer
    <3>2. Queued(d) /\ age[d] >= interval[d]
      BY <1>1, <3>1 DEF CallbacksSet
    <3> QED
      BY <1>1, <1>2, <1>7, <3>1, <3>2 DEF TypeOK
  <2>2. \A d \in Periodic : d \in ctimer_list \/ (~Listed(d)' /\ ~Queued(d)')
    BY <1>1, <1>2, <1>8 DEF CallbacksSet
  <2>3. \A d \in Periodic : ~(Listed(d)' /\ Queued(d)')
    BY <1>1, <1>2, <1>8 DEF CallbacksSet
  <2> QED
    BY <1>2, <2>1, <2>2, <2>3 DEF CallbacksSet
<1>13. ExpiryNoticed'
  BY <1>7 DEF ExpiryNoticed
<1>14. ExitedHasNoTimer'
  <2> SUFFICES ASSUME ~alive, NEW i \in DOMAIN timerlist'
               PROVE  owner'[timerlist'[i]] # App
    BY DEF ExitedHasNoTimer
  <2> DEFINE u == timerlist'[i]
  <2>1. u \in ToSet(timerlist')
    BY DEF ToSet
  <2> HIDE DEF u
  <2>2. owner'[u] = OwnerOf(u)
    BY <1>7, <2>1
  <2>3. CASE u = c
    BY <1>3, <2>2, <2>3, NamesAssumption DEF u
  <2>4. CASE u # c
    <3>1. u \in ToSet(timerlist)
      BY <1>7, <2>1, <2>4
    <3>2. owner[u] # App /\ owner[u] = OwnerOf(u)
      BY <1>1, <3>1, ListedAreTimers DEF IInv, ExitedHasNoTimer, Owned
    <3> QED
      BY <2>2, <3>2 DEF u
  <2> QED
    BY <2>3, <2>4
<1> QED
  BY <1>7, <1>9, <1>10, <1>11, <1>12, <1>13, <1>14 DEF IInv, Once

\* An event is taken off the queue and delivered.
LEMMA DeliverPreserves ==
  ASSUME IInv, Deliver
  PROVE  IInv'
<1> DEFINE c == Head(events).timer
<1>1. /\ scan = 0 /\ events # <<>> /\ events' = Tail(events) /\ polled' \in BOOLEAN
      /\ UNCHANGED <<scan, alive, calls>>
      /\ IF Head(events).to = Ctimer THEN CallBack(c)
         ELSE UNCHANGED <<timers, needspoll, ctimer_list>>
  BY DEF Deliver
<1>2. TypeOK /\ Owned /\ CallbacksSet
  BY DEF IInv
<1>3. Head(events).to = OwnerOf(c)
  BY <1>1, <1>2, QueueShortened
<1>4. CASE Head(events).to # Ctimer
  <2>1. c \notin ctimer_list
    BY <1>2, <1>3, <1>4 DEF OwnerOf, TypeOK
  <2> QED
    BY <1>1, <1>4, <2>1, PlainDeliveryPreserves
<1>5. CASE Head(events).to = Ctimer /\ c \notin ctimer_list
  BY <1>1, <1>5, PlainDeliveryPreserves DEF CallBack
<1>6. CASE Head(events).to = Ctimer /\ c \in ctimer_list /\ c \notin Periodic
  <2>1. ctimer_list' = ctimer_list \ {c} /\ UNCHANGED <<timers, needspoll>>
    BY <1>1, <1>6 DEF CallBack
  <2> QED
    BY <1>1, <1>6, <2>1, PlainDeliveryPreserves
<1>7. CASE Head(events).to = Ctimer /\ c \in ctimer_list /\ c \in Periodic
  <2>1. /\ AddTimer(c, Ctimer, Minus(age[c], interval[c]), interval[c])
        /\ UNCHANGED ctimer_list
    BY <1>1, <1>7 DEF CallBack
  <2> HIDE DEF c
  <2>2. c = Head(events).timer
    BY DEF c
  <2> QED
    BY <1>1, <1>7, <2>1, <2>2, PeriodicDeliveryPreserves
<1> QED
  BY <1>4, <1>5, <1>6, <1>7

-----------------------------------------------------------------------------
(* The application process.                                                *)

\* The application exits: its timers are unlinked.
LEMMA AppExitPreserves ==
  ASSUME IInv, AppExit
  PROVE  IInv'
<1>1. TypeOK /\ Once(timerlist) /\ Owned /\ Dated /\ CallbacksSet /\ Near
  BY DEF IInv
<1>2. /\ scan = 0 /\ calls < MaxCalls /\ calls' = calls + 1 /\ alive' = FALSE
      /\ timerlist' = WithoutOwner(App)
      /\ UNCHANGED <<age, interval, owner, ahead, needspoll, scan, polled, events, ctimer_list>>
  BY DEF AppExit, Called, loop
<1>3. /\ timerlist' \in Seq(Timer) /\ Once(timerlist')
      /\ ToSet(timerlist') = {t \in ToSet(timerlist) : owner[t] # App}
  <2>1. timerlist \in Seq(Timer)
    BY <1>1 DEF TypeOK
  <2> QED
    BY <1>1, <1>2, <2>1, OwnedRemain
<1>4. \A u : /\ Listed(u)' => Listed(u)
             /\ Listed(u) /\ u \in Callback => Listed(u)'
             /\ Queued(u)' <=> Queued(u)
  <2>1. \A u \in ToSet(timerlist) : u \in Callback => owner[u] # App
    BY <1>1, NamesAssumption DEF Owned, OwnerOf
  <2> QED
    BY <1>2, <1>3, <2>1 DEF Listed, Queued
<1>5. TypeOK'
  <2>1. 0 \in 0 .. Len(timerlist') + 1 /\ calls' \in 0 .. MaxCalls
    BY <1>1, <1>2, <1>3, SizesAssumption DEF TypeOK
  <2> QED
    BY <1>1, <1>2, <1>3, <2>1 DEF TypeOK
<1>6. Owned' /\ Near'
  BY <1>1, <1>2, <1>3 DEF Owned, OwnerOf, Near
<1>7. Dated'
  BY <1>1, <1>2, <1>4 DEF Dated
<1>8. CallbacksSet'
  <2>1. ctimer_list \subseteq Callback /\ Periodic \subseteq Callback
    BY <1>1, NamesAssumption DEF TypeOK
  <2>2. \A c \in ctimer_list : Listed(c)' \/ (Queued(c)' /\ age'[c] >= interval'[c])
    BY <1>1, <1>2, <1>4, <2>1 DEF CallbacksSet
  <2>3. \A c \in Periodic : c \in ctimer_list' \/ (~Listed(c)' /\ ~Queued(c)')
    BY <1>1, <1>2, <1>4 DEF CallbacksSet
  <2>4. \A c \in Periodic : ~(Listed(c)' /\ Queued(c)')
    BY <1>1, <1>4 DEF CallbacksSet
  <2> QED
    BY <1>1, <1>2, <2>2, <2>3, <2>4 DEF CallbacksSet
<1>9. \A i \in DOMAIN timerlist' : timerlist'[i] \in ToSet(timerlist')
  BY DEF ToSet
<1>10. ExpiryNoticed'
  <2>1. \A u \in ToSet(timerlist) : TimerExpired(u) => needspoll
    BY <1>1, <1>2, NoticedAtRest DEF IInv
  <2> QED
    BY <1>2, <1>3, <1>9, <2>1 DEF ExpiryNoticed, TimerExpired
<1>11. ExitedHasNoTimer'
  BY <1>2, <1>3, <1>9 DEF ExitedHasNoTimer
<1> QED
  BY <1>3, <1>5, <1>6, <1>7, <1>8, <1>10, <1>11 DEF IInv, Once

\* It is started again.
LEMMA AppStartPreserves ==
  ASSUME IInv, AppStart
  PROVE  IInv'
<1>1. /\ UNCHANGED <<timerlist, age, interval, owner, ahead, needspoll, scan, polled, events, ctimer_list>>
      /\ calls < MaxCalls /\ calls' = calls + 1 /\ alive' = TRUE
  BY DEF AppStart, Called, loop, timers
<1>2. TypeOK'
  <2>1. calls' \in 0 .. MaxCalls
    BY <1>1, SizesAssumption DEF IInv, TypeOK
  <2> QED
    BY <1>1, <2>1 DEF IInv, TypeOK
<1>3. /\ Once(timerlist)' /\ Owned' /\ Dated' /\ CallbacksSet' /\ Near'
      /\ ExpiryNoticed' /\ ExitedHasNoTimer'
  BY <1>1 DEF IInv, Once, Owned, Dated, CallbacksSet, Near, ExitedHasNoTimer,
              Listed, Queued, ExpiryNoticed, TimerExpired
<1> QED
  BY <1>2, <1>3 DEF IInv

\* Any other event is posted.
LEMMA PostOtherPreserves ==
  ASSUME IInv, PostOther
  PROVE  IInv'
<1> DEFINE e == [to |-> App, timer |-> None]
<1>1. /\ UNCHANGED <<timerlist, age, interval, owner, ahead, needspoll, scan, polled, ctimer_list, alive>>
      /\ calls < MaxCalls /\ calls' = calls + 1
      /\ Len(events) < NumEvents /\ events' = Append(events, e)
  BY DEF PostOther, Called, loop, timers
<1>2. TypeOK /\ Owned /\ Dated /\ CallbacksSet
  BY DEF IInv
<1>3. e \in Event /\ e.to = OwnerOf(e.timer) /\ e.timer = None /\ None \notin Timer
  BY NamesAssumption DEF Event, OwnerOf, Timer
<1> HIDE DEF e
<1>4. /\ events' \in Seq(Event) /\ Len(events') = Len(events) + 1
      /\ DOMAIN events' = DOMAIN events \cup {Len(events) + 1}
      /\ \A i \in DOMAIN events : events'[i] = events[i]
      /\ events'[Len(events) + 1] = e
  <2>1. events \in Seq(Event)
    BY <1>2 DEF TypeOK
  <2> QED
    BY <1>1, <1>3, <2>1, Appended
<1>5. \A u : /\ Listed(u)' <=> Listed(u)
             /\ Queued(u)' <=> Queued(u) \/ u = None
  BY <1>1, <1>3, <1>4 DEF Listed, Queued
<1>6. TypeOK'
  <2>1. calls' \in 0 .. MaxCalls /\ Len(events') <= NumEvents
    BY <1>1, <1>2, <1>4, SizesAssumption DEF TypeOK
  <2> QED
    BY <1>1, <1>2, <1>4, <2>1 DEF TypeOK
<1>7. Owned'
  <2>1. \A i \in DOMAIN events' : events'[i].to = OwnerOf(events'[i].timer)
    BY <1>2, <1>3, <1>4 DEF Owned
  <2> QED
    BY <1>1, <1>2, <2>1 DEF Owned, OwnerOf
<1>8. Dated'
  BY <1>1, <1>2, <1>3, <1>5 DEF Dated
<1>9. CallbacksSet'
  <2>1. Periodic \subseteq Timer /\ ctimer_list \subseteq Timer
    BY <1>2, NamesAssumption DEF TypeOK, Timer
  <2>2. \A c \in ctimer_list' : Listed(c)' \/ (Queued(c)' /\ age'[c] >= interval'[c])
    BY <1>1, <1>2, <1>5 DEF CallbacksSet
  <2>3. \A c \in Periodic : c \in ctimer_list' \/ (~Listed(c)' /\ ~Queued(c)')
    BY <1>1, <1>2, <1>3, <1>5, <2>1 DEF CallbacksSet
  <2>4. \A c \in Periodic : ~(Listed(c)' /\ Queued(c)')
    BY <1>2, <1>3, <1>5, <2>1 DEF CallbacksSet
  <2>5. \A i, j \in DOMAIN events' :
          events'[i].timer = events'[j].timer /\ events'[i].timer \in Periodic => i = j
    BY <1>2, <1>3, <1>4, <2>1 DEF CallbacksSet
  <2> QED
    BY <2>2, <2>3, <2>4, <2>5 DEF CallbacksSet
<1>10. Once(timerlist)' /\ Near' /\ ExpiryNoticed' /\ ExitedHasNoTimer'
  BY <1>1 DEF IInv, Once, Near, ExpiryNoticed, ExitedHasNoTimer, TimerExpired
<1> QED
  BY <1>6, <1>7, <1>8, <1>9, <1>10 DEF IInv

-----------------------------------------------------------------------------

\* Every step preserves the invariant.
LEMMA NextPreserves ==
  IInv /\ [Next]_vars => IInv'
<1> SUFFICES ASSUME IInv, [Next]_vars PROVE IInv'
  OBVIOUS
<1>1. CASE Tick
  BY <1>1, TickPreserves
<1>2. CASE BeginPoll
  BY <1>2, BeginPollPreserves
<1>3. CASE ScanTimer
  BY <1>3, ScanTimerPreserves
<1>4. CASE EndPoll
  BY <1>4, EndPollPreserves
<1>5. CASE Deliver
  BY <1>5, DeliverPreserves
<1>6. ASSUME NEW c \in Callback \ Periodic, CtimerStop(c)
      PROVE  IInv'
  BY <1>6, StopPreserves DEF CtimerStop, Timer
<1>7. ASSUME NEW c \in Callback, NEW iv \in Intervals, CtimerSet(c, iv)
      PROVE  IInv'
  <2>1. /\ Called /\ AddTimer(c, OwnerOf(c), 0, iv)
        /\ c \in Periodic => c \notin ctimer_list
        /\ ctimer_list' = ctimer_list \cup {c} /\ UNCHANGED <<loop, events, alive>>
    BY <1>7 DEF CtimerSet, OwnerOf
  <2>2. c \in Timer /\ c \notin Plain
    BY NamesAssumption DEF Timer
  <2> QED
    BY <2>1, <2>2, SetPreserves
<1>8. ASSUME NEW t \in Plain, StopPlain(t)
      PROVE  IInv'
  <2>1. t \in Timer \ Periodic /\ t \notin Callback
    BY NamesAssumption DEF Timer
  <2>2. ctimer_list \ {t} = ctimer_list
    BY <2>1 DEF IInv, TypeOK
  <2> QED
    BY <1>8, <2>1, <2>2, StopPreserves DEF StopPlain
<1>9. ASSUME NEW t \in Plain, NEW iv \in Intervals, EtimerSet(t, iv)
      PROVE  IInv'
  <2>1. t \in Timer /\ t \notin Callback /\ t \notin Periodic
    BY NamesAssumption DEF Timer
  <2>2. /\ Called /\ alive /\ AddTimer(t, OwnerOf(t), 0, iv)
        /\ ctimer_list' = ctimer_list /\ UNCHANGED <<loop, events, alive>>
    BY <1>9, <2>1 DEF EtimerSet, OwnerOf
  <2> QED
    BY <2>1, <2>2, SetPreserves
<1>10. CASE AppExit
  BY <1>10, AppExitPreserves
<1>11. CASE AppStart
  BY <1>11, AppStartPreserves
<1>12. CASE PostOther
  BY <1>12, PostOtherPreserves
<1>13. CASE UNCHANGED vars
  <2>1. UNCHANGED <<timerlist, age, interval, owner, ahead, needspoll, scan, polled,
                    events, ctimer_list, alive, calls>>
    BY <1>13 DEF vars, timers, loop
  <2> QED
    BY <2>1 DEF IInv, TypeOK, Once, Owned, Dated, CallbacksSet, Near, ExitedHasNoTimer,
                Listed, Queued, ExpiryNoticed, TimerExpired
<1> QED
  BY <1>1, <1>2, <1>3, <1>4, <1>5, <1>6, <1>7, <1>8, <1>9, <1>10, <1>11, <1>12, <1>13
     DEF Next

\* Every state of the timers satisfies the inductive invariant: how the list,
\* the queue, the owners and the dates of timers fit together (etimer.c,
\* ctimer.c, process.c).
THEOREM InvariantHolds == Spec => []IInv
<1> QED
  BY InitIInv, NextPreserves, PTL DEF Spec

\* The list, the queue, the clock and the flags keep their types: the queue
\* never holds more than PROCESS_CONF_NUMEVENTS events (process_post).
THEOREM TypesHold == Spec => []TypeOK
<1>1. IInv => TypeOK
  BY DEF IInv
<1> QED
  BY <1>1, InvariantHolds, PTL

\* A callback timer that is set has its event timer running or its expiry in
\* the queue (ctimer_set, etimer_process, ctimer_process).
THEOREM CallbacksAreKept == Spec => []NoCallbackLost
<1>1. IInv => NoCallbackLost
  BY DEF IInv, CallbacksSet, NoCallbackLost
<1> QED
  BY <1>1, InvariantHolds, PTL

\* The event timer process has been asked to look whenever a timer of the
\* list has expired (update_time, timera1, etimer_process).
THEOREM ExpiriesAreNoticed == Spec => []ExpiryNoticed
<1>1. IInv => ExpiryNoticed
  BY DEF IInv
<1> QED
  BY <1>1, InvariantHolds, PTL

\* No event timer is linked twice, and none on the list has no owner
\* (add_timer, etimer_stop).
THEOREM TimersAreListedOnce == Spec => []ListedOnce
<1>1. IInv => ListedOnce
  <2> SUFFICES ASSUME IInv PROVE ListedOnce
    OBVIOUS
  <2>1. \A i \in DOMAIN timerlist : owner[timerlist[i]] = OwnerOf(timerlist[i])
    BY ListedAreTimers DEF IInv, Owned
  <2> QED
    BY <2>1, NamesAssumption DEF IInv, Once, OwnerOf, ListedOnce
<1> QED
  BY <1>1, InvariantHolds, PTL

\* A process that has exited has no timer on the list (etimer_process,
\* exit_process).
THEOREM ExitTakesTimersOff == Spec => []ExitedHasNoTimer
<1>1. IInv => ExitedHasNoTimer
  BY DEF IInv
<1> QED
  BY <1>1, InvariantHolds, PTL

\* A callback that comes early belongs to a timer that was set again while
\* its previous expiry was in the queue (ctimer_process, ctimer_set).
THEOREM CallbacksAreTimely == Spec => EarlyOnlyWhenSetAgain
<1>1. IInv => [\A c \in ctimer_list \ ctimer_list' :
                 events' # events /\ ~Listed(c) => age[c] >= interval[c]]_vars
  BY DEF IInv, CallbacksSet
<1> QED
  BY <1>1, InvariantHolds, PTL DEF EarlyOnlyWhenSetAgain
=============================================================================
