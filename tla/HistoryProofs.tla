---------------------------- MODULE HistoryProofs ----------------------------
(***************************************************************************)
(* Proofs about History, for any age, length and times: what is held are   *)
(* the newest samples in order, bounded, and without a hole in the window, *)
(* and the binary search finds among them what it would find among all.    *)
(***************************************************************************)
EXTENDS History, FiniteSetTheorems, WellFoundedInduction, TLAPS

-----------------------------------------------------------------------------
(* What is dropped *)

Increasing(s) == \A i, j \in 1 .. Len(s) : i < j => s[i] < s[j]

\* In an increasing sequence the samples that are too old are the first ones,
\* and never the newest.
LEMMA TooOldAreFirst ==
    ASSUME NEW S \in SUBSET Int, NEW s \in Seq(S), Increasing(s), s # <<>>
    PROVE  /\ TooOld(s) \in 0 .. Len(s) - 1
           /\ \A i \in 1 .. Len(s) : s[i] < s[Len(s)] - MaxAge <=> i <= TooOld(s)
<1>. DEFINE old == {i \in 1 .. Len(s) : s[i] < s[Len(s)] - MaxAge}
<1>1. /\ Len(s) \in Nat /\ Len(s) > 0 /\ MaxAge \in Nat
      /\ \A i \in 1 .. Len(s) : s[i] \in Int
  <2>1. \A i \in 1 .. Len(s) : s[i] \in S
    OBVIOUS
  <2>2. \A i \in 1 .. Len(s) : s[i] \in Int
    BY <2>1
  <2>3. Len(s) \in Nat /\ Len(s) > 0
    OBVIOUS
  <2>. QED
    BY <2>2, <2>3, HistoryAssumption
<1>2. \A i, j \in 1 .. Len(s) : i <= j => s[i] <= s[j]
  BY <1>1 DEF Increasing
<1>3. Len(s) \notin old
  BY <1>1
<1>4. \A j \in old : \A i \in 1 .. j : i \in old
  BY <1>1, <1>2
<1>. HIDE DEF old
<1>5. old \subseteq 1 .. Len(s)
  BY DEF old
<1>6. IsFiniteSet(old) /\ Cardinality(old) \in Nat
  <2>1. IsFiniteSet(1 .. Len(s))
    BY <1>1, FS_Interval
  <2>2. IsFiniteSet(old)
    BY <1>5, <2>1, FS_Subset
  <2>. QED
    BY <2>2, FS_CardinalityType
<1>7. \A j \in old : j <= Cardinality(old)
  <2>1. SUFFICES ASSUME NEW j \in old PROVE j <= Cardinality(old)
    OBVIOUS
  <2>2. j \in Nat /\ j > 0
    BY <1>1, <1>5
  <2>3. 1 .. j \subseteq old
    BY <1>4
  <2>4. Cardinality(1 .. j) = j
    BY <2>2, FS_Interval
  <2>. QED
    BY <1>6, <2>3, <2>4, FS_Subset
<1>8. \A j \in 1 .. Len(s) : j \notin old => Cardinality(old) <= j - 1
  <2>1. SUFFICES ASSUME NEW j \in 1 .. Len(s), j \notin old
                 PROVE  Cardinality(old) <= j - 1
    OBVIOUS
  <2>2. j \in Nat /\ j > 0 /\ j - 1 \in Nat
    BY <1>1
  <2>3. \A i \in old : i \in 1 .. (j - 1)
    <3>1. SUFFICES ASSUME NEW i \in old PROVE i \in 1 .. (j - 1)
      OBVIOUS
    <3>2. i \in Nat /\ i > 0
      BY <1>1, <1>5
    <3>3. ~(j \in 1 .. i)
      BY <1>4, <2>1
    <3>. QED
      BY <2>2, <3>2, <3>3
  <2>4. Cardinality(1 .. (j - 1)) = j - 1 /\ IsFiniteSet(1 .. (j - 1))
    BY <2>2, FS_Interval
  <2>. QED
    BY <2>3, <2>4, FS_Subset
<1>9. TooOld(s) = Cardinality(old)
  BY DEF TooOld, old
<1>10. Len(s) \in 1 .. Len(s) /\ Cardinality(old) <= Len(s) - 1
  BY <1>1, <1>3, <1>8
<1>11. \A i \in 1 .. Len(s) : i \in old <=> i <= Cardinality(old)
  <2>1. SUFFICES ASSUME NEW i \in 1 .. Len(s)
                 PROVE  i \in old <=> i <= Cardinality(old)
    OBVIOUS
  <2>2. i \in Nat /\ (i \notin old => Cardinality(old) <= i - 1)
    BY <1>1, <1>8
  <2>. QED
    BY <1>6, <1>7, <2>2
<1>. QED
  BY <1>6, <1>9, <1>10, <1>11 DEF old

\* The largest of three numbers.
LEMMA MaxOfThree ==
    ASSUME NEW a \in Int, NEW b \in Int, NEW c \in Int
    PROVE  /\ Max({a, b, c}) \in {a, b, c}
           /\ Max({a, b, c}) >= a /\ Max({a, b, c}) >= b /\ Max({a, b, c}) >= c
<1>1. \E x \in {a, b, c} : \A y \in {a, b, c} : x >= y
  <2>1. CASE a >= b /\ a >= c
    BY <2>1
  <2>2. CASE b >= a /\ b >= c
    BY <2>2
  <2>3. CASE c >= a /\ c >= b
    BY <2>3
  <2>. QED
    BY <2>1, <2>2, <2>3
<1>2. Max({a, b, c}) \in {a, b, c} /\ \A y \in {a, b, c} : Max({a, b, c}) >= y
  BY <1>1 DEF Max
<1>. QED
  BY <1>2

\* How many are dropped: never the newest, one that is too old stays if there
\* is any, or MaxLen are left.
LEMMA SurplusFits ==
    ASSUME NEW S \in SUBSET Int, NEW s \in Seq(S), Increasing(s), s # <<>>
    PROVE  /\ Surplus(s) \in 0 .. Len(s) - 1
           /\ Len(s) - Surplus(s) <= MaxLen
           /\ Surplus(s) >= TooOld(s) - 1
           /\ \/ Surplus(s) = 0
              \/ Surplus(s) = Len(s) - MaxLen
              \/ Surplus(s) + 1 = TooOld(s)
<1>1. /\ Len(s) \in Nat /\ Len(s) > 0 /\ MaxLen \in Nat /\ MaxLen > 0
      /\ TooOld(s) \in 0 .. Len(s) - 1
  BY HistoryAssumption, TooOldAreFirst
<1>2. /\ Surplus(s) \in {TooOld(s) - 1, Len(s) - MaxLen, 0}
      /\ Surplus(s) >= TooOld(s) - 1 /\ Surplus(s) >= Len(s) - MaxLen
      /\ Surplus(s) >= 0
  <2>. DEFINE a == TooOld(s) - 1
              b == Len(s) - MaxLen
  <2>1. a \in Int /\ b \in Int /\ 0 \in Int
    BY <1>1
  <2>2. Surplus(s) = Max({a, b, 0})
    BY DEF Surplus
  <2>. HIDE DEF a, b
  <2>3. /\ Surplus(s) \in {a, b, 0}
        /\ Surplus(s) >= a /\ Surplus(s) >= b /\ Surplus(s) >= 0
    <3>1. /\ Max({a, b, 0}) \in {a, b, 0}
          /\ Max({a, b, 0}) >= a /\ Max({a, b, 0}) >= b /\ Max({a, b, 0}) >= 0
      BY <2>1, MaxOfThree
    <3>. QED
      BY <2>2, <3>1
  <2>. QED
    BY <2>3 DEF a, b
<1>. QED
  BY <1>1, <1>2

-----------------------------------------------------------------------------
(* The invariant *)

Held == {samples[i] : i \in 1 .. Len(samples)}

\* The samples held are the newest of those accepted, in order.
NewestHeld ==
    /\ samples \in Seq(Time) /\ added \subseteq Time
    /\ Increasing(samples)
    /\ samples = <<>> => added = {}
    /\ \A i \in 1 .. Len(samples) : samples[i] \in added
    /\ \A t \in added : t \in Held \/ \A i \in 1 .. Len(samples) : t < samples[i]

\* Nothing was dropped, or a sample is held that is older than the window, or
\* the history is full.
Window ==
    \/ \A t \in added : \A i \in 1 .. Len(samples) : i = 1 => samples[i] <= t
    \/ Len(samples) > 0 /\ samples[1] < Newest - MaxAge
    \/ Len(samples) = MaxLen

Inv == NewestHeld /\ Window /\ Bounded

LEMMA Starts == Init => Inv
<1>. SUFFICES ASSUME Init PROVE Inv
  OBVIOUS
<1>1. samples = <<>> /\ added = {}
  BY DEF Init
<1>2. NewestHeld
  BY <1>1 DEF NewestHeld, Increasing
<1>3. Window
  BY <1>1 DEF Window
<1>4. Bounded
  BY <1>1, HistoryAssumption DEF Bounded
<1>. QED
  BY <1>2, <1>3, <1>4 DEF Inv

\* What Add leaves of the samples held and the new one.
LEMMA AddLeaves ==
    ASSUME NewestHeld, NEW now \in Time, Add(now)
    PROVE  LET s == Append(samples, now)
               d == Surplus(s)
           IN  /\ s \in Seq(Time) /\ Increasing(s) /\ s # <<>>
               /\ Len(s) = Len(samples) + 1 /\ s[Len(s)] = now
               /\ \A i \in 1 .. Len(samples) : s[i] = samples[i]
               /\ d \in 0 .. Len(s) - 1
               /\ samples' \in Seq(Time) /\ Len(samples') = Len(s) - d
               /\ \A i \in 1 .. Len(samples') : samples'[i] = s[i + d]
<1>. DEFINE s == Append(samples, now)
            d == Surplus(s)
<1>1. /\ samples \in Seq(Time) /\ Len(samples) \in Nat /\ Increasing(samples)
      /\ Time \subseteq Int
  BY HistoryAssumption DEF NewestHeld, Time
<1>. HIDE DEF Time
<1>2. /\ s \in Seq(Time) /\ Len(s) = Len(samples) + 1 /\ s[Len(s)] = now /\ s # <<>>
      /\ \A i \in 1 .. Len(samples) : s[i] = samples[i]
  BY <1>1
<1>3. samples # <<>> => now > samples[Len(samples)]
  BY DEF Add, InOrder, Newest
<1>4. \A i \in 1 .. Len(samples) : samples[i] < now
  <2>1. SUFFICES ASSUME NEW i \in 1 .. Len(samples) PROVE samples[i] < now
    OBVIOUS
  <2>2. /\ samples[i] \in Int /\ samples[Len(samples)] \in Int /\ now \in Int
        /\ samples # <<>>
    <3>1. samples[i] \in Time /\ samples[Len(samples)] \in Time /\ samples # <<>>
      BY <1>1
    <3>. QED
      BY <1>1, <3>1
  <2>3. samples[i] <= samples[Len(samples)]
    BY <1>1, <2>2 DEF Increasing
  <2>. QED
    BY <1>3, <2>2, <2>3
<1>5. Increasing(s)
  <2>1. SUFFICES ASSUME NEW i \in 1 .. Len(s), NEW j \in 1 .. Len(s), i < j
                 PROVE  s[i] < s[j]
    BY DEF Increasing
  <2>2. i \in 1 .. Len(samples)
    BY <1>1, <1>2, <2>1
  <2>3. CASE j \in 1 .. Len(samples)
    BY <1>1, <1>2, <2>1, <2>2, <2>3 DEF Increasing
  <2>4. CASE j = Len(s)
    BY <1>2, <1>4, <2>2, <2>4
  <2>. QED
    BY <1>1, <1>2, <2>3, <2>4
<1>. HIDE DEF s
<1>7. d \in 0 .. Len(s) - 1
  BY <1>1, <1>2, <1>5, SurplusFits
<1>8. samples' = SubSeq(s, d + 1, Len(s))
  BY DEF Add, s
<1>. HIDE DEF d
<1>9. /\ samples' \in Seq(Time) /\ Len(samples') = Len(s) - d
      /\ \A i \in 1 .. Len(samples') : samples'[i] = s[i + d]
  BY <1>1, <1>2, <1>7, <1>8
<1>. QED
  BY <1>1, <1>2, <1>5, <1>7, <1>9 DEF s, d

LEMMA AddNewestHeld ==
    ASSUME NewestHeld, NEW now \in Time, Add(now)
    PROVE  NewestHeld'
<1>. DEFINE s == Append(samples, now)
            d == Surplus(s)
<1>1. /\ s \in Seq(Time) /\ Increasing(s) /\ Len(s) = Len(samples) + 1
      /\ s[Len(s)] = now /\ \A i \in 1 .. Len(samples) : s[i] = samples[i]
      /\ d \in 0 .. Len(s) - 1
      /\ samples' \in Seq(Time) /\ Len(samples') = Len(s) - d
      /\ \A i \in 1 .. Len(samples') : samples'[i] = s[i + d]
  BY AddLeaves
<1>2. /\ added' = added \cup {now} /\ added \subseteq Time
      /\ samples = <<>> => added = {}
      /\ \A i \in 1 .. Len(samples) : samples[i] \in added
      /\ \A t \in added : t \in Held \/ \A i \in 1 .. Len(samples) : t < samples[i]
      /\ samples \in Seq(Time) /\ Len(samples) \in Nat
  BY DEF Add, NewestHeld
<1>. HIDE DEF s, d
<1>3. /\ Len(s) \in Nat /\ Len(samples') \in Nat /\ Len(samples') > 0 /\ d \in Nat
      /\ \A i \in 1 .. Len(samples') : i + d \in 1 .. Len(s)
      /\ \A j \in 1 .. Len(s) : j > d => j - d \in 1 .. Len(samples')
      /\ \A i \in 1 .. Len(s) : i \in 1 .. Len(samples) \/ i = Len(s)
  BY <1>1, <1>2
<1>4. Increasing(samples')
  <2>1. SUFFICES ASSUME NEW i \in 1 .. Len(samples'), NEW j \in 1 .. Len(samples'), i < j
                 PROVE  samples'[i] < samples'[j]
    BY DEF Increasing
  <2>2. i + d < j + d /\ i + d \in 1 .. Len(s) /\ j + d \in 1 .. Len(s)
    BY <1>3, <2>1
  <2>. QED
    BY <1>1, <2>2 DEF Increasing
<1>5. \A i \in 1 .. Len(samples') : samples'[i] \in added'
  <2>1. \A i \in 1 .. Len(s) : s[i] \in added'
    BY <1>1, <1>2, <1>3
  <2>. QED
    BY <1>1, <1>3, <2>1
<1>6. \A t \in added' : t \in Held' \/ \A i \in 1 .. Len(samples') : t < samples'[i]
  <2>1. SUFFICES ASSUME NEW t \in added'
                 PROVE  t \in Held' \/ \A i \in 1 .. Len(samples') : t < samples'[i]
    OBVIOUS
  <2>2. ASSUME NEW j \in 1 .. Len(s), t = s[j]
        PROVE  t \in Held' \/ \A i \in 1 .. Len(samples') : t < samples'[i]
    <3>1. CASE j > d
      <4>1. samples'[j - d] = s[(j - d) + d] /\ (j - d) + d = j
        BY <1>1, <1>3, <3>1
      <4>. QED
        BY <1>3, <2>2, <3>1, <4>1 DEF Held
    <3>2. CASE ~(j > d)
      <4>1. \A i \in 1 .. Len(samples') : j < i + d
        BY <1>3, <3>2
      <4>2. \A i \in 1 .. Len(samples') : s[j] < s[i + d]
        BY <1>1, <1>3, <4>1 DEF Increasing
      <4>. QED
        BY <1>1, <2>2, <4>2
    <3>. QED
      BY <3>1, <3>2
  <2>3. CASE t = now
    <3>1. Len(s) \in 1 .. Len(s)
      BY <1>1, <1>2
    <3>. QED
      BY <1>1, <2>2, <2>3, <3>1
  <2>4. CASE t \in added /\ t \in Held
    <3>1. PICK j \in 1 .. Len(samples) : t = samples[j]
      BY <2>4 DEF Held
    <3>2. j \in 1 .. Len(s) /\ t = s[j]
      BY <1>1, <1>2, <3>1
    <3>. QED
      BY <2>2, <3>2
  <2>5. CASE t \in added /\ \A i \in 1 .. Len(samples) : t < samples[i]
    <3>1. Len(samples) \in 1 .. Len(samples)
      BY <1>2, <2>5
    <3>2. t \in Int /\ \A i \in 1 .. Len(s) : s[i] \in Int
      BY <1>1, <1>2, <2>5, HistoryAssumption DEF Time
    <3>3. \A i \in 1 .. Len(samples) : t < s[i]
      BY <1>1, <2>5
    <3>4. s[Len(samples)] < s[Len(s)] /\ Len(samples) \in 1 .. Len(s) /\ Len(s) \in 1 .. Len(s)
      BY <1>1, <1>2, <3>1 DEF Increasing
    <3>5. t < s[Len(s)]
      BY <3>1, <3>2, <3>3, <3>4
    <3>6. \A i \in 1 .. Len(s) : t < s[i]
      BY <1>3, <3>3, <3>5
    <3>. QED
      BY <1>1, <1>3, <3>6
  <2>. QED
    BY <1>2, <2>3, <2>4, <2>5
<1>7. samples' # <<>> /\ added' \subseteq Time
  BY <1>2, <1>3
<1>. QED
  BY <1>1, <1>4, <1>5, <1>6, <1>7 DEF NewestHeld

\* The numbers of samples that are too old and that are dropped.
LEMMA AddDrops ==
    ASSUME NewestHeld, NEW now \in Time, Add(now)
    PROVE  LET s == Append(samples, now)
               d == Surplus(s)
               k == TooOld(s)
           IN  /\ k \in 0 .. Len(s) - 1
               /\ \A i \in 1 .. Len(s) : s[i] < now - MaxAge <=> i <= k
               /\ Len(s) - d <= MaxLen /\ d >= k - 1
               /\ d = 0 \/ d = Len(s) - MaxLen \/ d + 1 = k
<1>. DEFINE s == Append(samples, now)
<1>1. /\ s \in Seq(Time) /\ Increasing(s) /\ s # <<>> /\ s[Len(s)] = now
  BY AddLeaves
<1>2. Time \in SUBSET Int
  BY HistoryAssumption DEF Time
<1>. HIDE DEF s, Time
<1>3. /\ TooOld(s) \in 0 .. Len(s) - 1
      /\ \A i \in 1 .. Len(s) : s[i] < s[Len(s)] - MaxAge <=> i <= TooOld(s)
  BY <1>1, <1>2, TooOldAreFirst
<1>4. /\ Len(s) - Surplus(s) <= MaxLen /\ Surplus(s) >= TooOld(s) - 1
      /\ Surplus(s) = 0 \/ Surplus(s) = Len(s) - MaxLen \/ Surplus(s) + 1 = TooOld(s)
  BY <1>1, <1>2, SurplusFits
<1>. QED
  BY <1>1, <1>3, <1>4 DEF s

LEMMA AddKeeps ==
    ASSUME Inv, NEW now \in Time, Add(now)
    PROVE  Inv'
<1>. DEFINE s == Append(samples, now)
            d == Surplus(s)
            k == TooOld(s)
<1>1. NewestHeld /\ NewestHeld' /\ Window
  BY AddNewestHeld DEF Inv
<1>2. /\ s \in Seq(Time) /\ Increasing(s) /\ Len(s) = Len(samples) + 1
      /\ s[Len(s)] = now /\ \A i \in 1 .. Len(samples) : s[i] = samples[i]
      /\ d \in 0 .. Len(s) - 1
      /\ samples' \in Seq(Time) /\ Len(samples') = Len(s) - d
      /\ \A i \in 1 .. Len(samples') : samples'[i] = s[i + d]
  BY <1>1, AddLeaves
<1>3. /\ k \in 0 .. Len(s) - 1
      /\ \A i \in 1 .. Len(s) : s[i] < now - MaxAge <=> i <= k
      /\ Len(s) - d <= MaxLen /\ d >= k - 1
      /\ d = 0 \/ d = Len(s) - MaxLen \/ d + 1 = k
  BY <1>1, AddDrops
<1>4. /\ Len(samples) \in Nat /\ added' = added \cup {now}
      /\ MaxLen \in Nat /\ MaxAge \in Nat
      /\ now \in Int /\ \A i \in 1 .. Len(s) : s[i] \in Int
  <2>1. Time \subseteq Int
    BY HistoryAssumption DEF Time
  <2>2. \A i \in 1 .. Len(s) : s[i] \in Time
    BY <1>2
  <2>3. \A i \in 1 .. Len(s) : s[i] \in Int
    BY <2>1, <2>2
  <2>4. Len(samples) \in Nat
    BY <1>1 DEF NewestHeld
  <2>5. added' = added \cup {now}
    BY DEF Add
  <2>. QED
    BY <2>1, <2>3, <2>4, <2>5, HistoryAssumption
<1>. HIDE DEF s, d, k
<1>5. Newest' = now /\ Len(samples') \in Nat /\ Len(samples') > 0
  <2>1. Len(samples') > 0 /\ Len(samples') + d = Len(s) /\ Len(samples') \in 1 .. Len(samples')
    BY <1>2, <1>4
  <2>. QED
    BY <1>2, <2>1 DEF Newest
<1>6. Bounded'
  <2>1. Len(samples') <= MaxLen
    BY <1>2, <1>3
  <2>2. ASSUME Len(samples') >= 2 PROVE samples'[2] >= now - MaxAge
    <3>1. 2 \in 1 .. Len(samples') /\ 2 + d \in 1 .. Len(s) /\ ~(2 + d <= k)
      BY <1>2, <1>3, <1>4, <1>5, <2>2
    <3>2. samples'[2] = s[2 + d] /\ ~(s[2 + d] < now - MaxAge) /\ s[2 + d] \in Int
      BY <1>2, <1>3, <1>4, <3>1
    <3>. QED
      BY <1>4, <3>2
  <2>. QED
    BY <1>5, <2>1, <2>2 DEF Bounded
<1>7. Window'
  <2>1. samples'[1] = s[1 + d] /\ 1 + d \in 1 .. Len(s)
    BY <1>2, <1>4, <1>5
  <2>2. CASE d + 1 = k
    <3>1. s[1 + d] < now - MaxAge
      BY <1>2, <1>3, <1>4, <2>1, <2>2
    <3>. QED
      BY <1>5, <2>1, <3>1 DEF Window
  <2>3. CASE d = Len(s) - MaxLen
    <3>1. Len(samples') = MaxLen
      BY <1>2, <1>4, <2>3
    <3>. QED
      BY <3>1 DEF Window
  <2>4. CASE d = 0 /\ d + 1 # k /\ d # Len(s) - MaxLen
    <3>1. 1 \in 1 .. Len(s) /\ ~(s[1] < now - MaxAge) /\ samples'[1] = s[1]
      BY <1>2, <1>3, <1>4, <1>5, <2>1, <2>4
    <3>2. Len(samples) # MaxLen
      BY <1>2, <1>3, <1>4, <2>4
    <3>3. ~(Len(samples) > 0 /\ samples[1] < Newest - MaxAge)
      <4>1. SUFFICES ASSUME Len(samples) > 0 PROVE ~(samples[1] < Newest - MaxAge)
        OBVIOUS
      <4>2. 1 \in 1 .. Len(samples) /\ Len(samples) \in 1 .. Len(samples)
        BY <1>4, <4>1
      <4>3. Newest = s[Len(samples)] /\ samples[1] = s[1]
        BY <1>2, <4>2 DEF Newest
      <4>4. Len(samples) \in 1 .. Len(s) /\ Len(s) \in 1 .. Len(s) /\ Len(samples) < Len(s)
        BY <1>2, <1>4, <4>1
      <4>5. s[Len(samples)] < now /\ s[Len(samples)] \in Int /\ s[1] \in Int
        BY <1>2, <1>4, <3>1, <4>4 DEF Increasing
      <4>. QED
        BY <1>4, <3>1, <4>3, <4>5
    <3>4. \A t \in added : \A i \in 1 .. Len(samples) : i = 1 => samples[i] <= t
      BY <1>1, <3>2, <3>3 DEF Window
    <3>5. \A t \in added' : s[1] <= t
      <4>1. s[1] <= now
        <5>1. 1 = Len(s) \/ s[1] < s[Len(s)]
          BY <1>2, <1>4, <3>1 DEF Increasing
        <5>. QED
          BY <1>2, <1>4, <3>1, <5>1
      <4>2. \A t \in added : s[1] <= t
        <5>1. SUFFICES ASSUME NEW t \in added PROVE s[1] <= t
          OBVIOUS
        <5>2. 1 \in 1 .. Len(samples)
          <6>1. samples # <<>>
            BY <1>1 DEF NewestHeld
          <6>. QED
            BY <1>1, <1>4, <6>1 DEF NewestHeld
        <5>. QED
          BY <1>2, <3>4, <5>2
      <4>. QED
        BY <1>4, <4>1, <4>2
    <3>. QED
      BY <3>1, <3>5 DEF Window
  <2>. QED
    BY <1>3, <2>2, <2>3, <2>4
<1>. QED
  BY <1>1, <1>6, <1>7 DEF Inv

LEMMA StepKeeps == Inv /\ [Next]_vars => Inv'
<1>. SUFFICES ASSUME Inv, [Next]_vars PROVE Inv'
  OBVIOUS
<1>1. CASE NewHistory
  <2>1. samples' = <<>> /\ added' = {}
    BY <1>1 DEF NewHistory
  <2>2. NewestHeld'
    BY <2>1 DEF NewestHeld, Increasing
  <2>3. Window'
    BY <2>1 DEF Window
  <2>4. Bounded'
    BY <2>1, HistoryAssumption DEF Bounded
  <2>. QED
    BY <2>2, <2>3, <2>4 DEF Inv
<1>2. ASSUME NEW now \in Time, Add(now) PROVE Inv'
  BY <1>2, AddKeeps
<1>3. CASE UNCHANGED vars
  <2>1. samples' = samples /\ added' = added
    BY <1>3 DEF vars
  <2>. QED
    BY <2>1 DEF Inv, NewestHeld, Held, Increasing, Window, Bounded, Newest
<1>. QED
  BY <1>1, <1>2, <1>3 DEF Next, AddLate

-----------------------------------------------------------------------------
(* The theorems *)

\* The samples held are the newest of those accepted, in strictly increasing
\* order, for any age, length and times.
THEOREM TypeCorrect == Spec => []TypeOK
<1>1. Inv => TypeOK
  <2>1. SUFFICES ASSUME Inv PROVE TypeOK
    OBVIOUS
  <2>2. /\ samples \in Seq(Time) /\ added \subseteq Time /\ Len(samples) \in Nat
        /\ Held \subseteq added
        /\ \A t \in added : t \in Held \/ \A i \in 1 .. Len(samples) : t < samples[i]
    BY <2>1 DEF Inv, NewestHeld, Held
  <2>3. \A i \in 1 .. Len(samples) - 1 : samples[i] < samples[i + 1]
    BY <2>1, <2>2 DEF Inv, NewestHeld, Increasing
  <2>4. \A t \in added \ Held : \A u \in Held : t < u
    BY <2>2 DEF Held
  <2>. QED
    BY <2>2, <2>3, <2>4 DEF TypeOK, Held
<1>. QED
  BY <1>1, Starts, StepKeeps, PTL DEF Spec

\* A player's history never holds more than MaxLen samples, nor more than one
\* that is older than MaxAge.
THEOREM BoundedAlways == Spec => []Bounded
<1>1. Inv => Bounded
  BY DEF Inv
<1>. QED
  BY <1>1, Starts, StepKeeps, PTL DEF Spec

\* Unless MaxLen was reached, a player who was there at a time of the window is
\* found at it, however many samples have been dropped.
THEOREM WindowKeptAlways == Spec => []WindowKept
<1>1. Inv => WindowKept
  <2>1. SUFFICES ASSUME Inv, samples # <<>>, Len(samples) < MaxLen,
                        NEW at \in Time, at >= Newest - MaxAge,
                        NEW t \in added, t <= at
                 PROVE  At(at) # Missing
    BY DEF WindowKept
  <2>2. samples \in Seq(Time) /\ Len(samples) \in Nat /\ Len(samples) > 0
    BY <2>1 DEF Inv, NewestHeld
  <2>3. /\ samples[1] \in Int /\ samples[Len(samples)] \in Int /\ t \in Int
        /\ at \in Int /\ MaxAge \in Nat
    <3>1. samples[1] \in Time /\ samples[Len(samples)] \in Time /\ t \in Time
      BY <2>1, <2>2 DEF Inv, NewestHeld
    <3>. QED
      BY <3>1, HistoryAssumption DEF Time
  <2>4. ~(at < samples[1])
    <3>1. CASE \A u \in added : \A i \in 1 .. Len(samples) : i = 1 => samples[i] <= u
      <4>1. samples[1] <= t
        BY <2>2, <3>1
      <4>. QED
        BY <2>1, <2>3, <4>1
    <3>2. CASE samples[1] < Newest - MaxAge
      BY <2>1, <2>3, <3>2 DEF Newest
    <3>3. Len(samples) # MaxLen
      BY <2>1, <2>2
    <3>. QED
      BY <2>1, <3>1, <3>2, <3>3 DEF Inv, Window
  <2>5. \/ At(at) = <<Newest, Newest>>
        \/ At(at) = OutOfRange
        \/ At(at) = <<samples[Search(at) - 1], samples[Search(at)]>>
    BY <2>1, <2>4 DEF At
  <2>. QED
    BY <2>5 DEF Missing, OutOfRange
<1>. QED
  BY <1>1, Starts, StepKeeps, PTL DEF Spec

-----------------------------------------------------------------------------
(* What a look-up finds *)

\* The least-number principle, for the inductions below: a set of natural
\* numbers that is not empty has a smallest member.
LEMMA Smallest ==
    ASSUME NEW T \in SUBSET Nat, T # {}
    PROVE  \E m \in T : \A k \in T : m <= k
<1>. DEFINE R == {ss \in Nat \X Nat : ss[1] < ss[2]}
<1>1. IsWellFoundedOn(R, Nat)
  BY NatLessThanWellFounded DEF OpToRel
<1>. HIDE DEF R
<1>2. PICK m \in T : \A k \in T : <<k, m>> \notin R
  BY <1>1, WFMin
<1>3. \A k \in T : <<k, m>> \in Nat \X Nat
  OBVIOUS
<1>4. \A k \in T : ~(k < m)
  BY <1>2, <1>3 DEF R
<1>. QED
  BY <1>4

\* m is where a search from lo to hi should end: the first sample after at, or
\* the end where none before it is.
IsFirst(m, lo, hi, at) ==
    /\ m \in lo .. hi
    /\ m = hi \/ After(samples[m], at)
    /\ \A i \in lo .. m - 1 : ~After(samples[i], at)

First(lo, hi, at) == CHOOSE m \in lo .. hi : IsFirst(m, lo, hi, at)

\* There is exactly one such place.
LEMMA FirstIs ==
    ASSUME NEW lo \in Nat, NEW hi \in Nat, lo <= hi, NEW at
    PROVE  /\ IsFirst(First(lo, hi, at), lo, hi, at)
           /\ \A m : IsFirst(m, lo, hi, at) => m = First(lo, hi, at)
<1>. DEFINE T == {i \in lo .. hi : i = hi \/ After(samples[i], at)}
<1>1. T \subseteq Nat /\ hi \in T
  OBVIOUS
<1>2. PICK m \in T : \A k \in T : m <= k
  BY <1>1, Smallest
<1>3. IsFirst(m, lo, hi, at)
  BY <1>1, <1>2 DEF IsFirst
<1>4. IsFirst(First(lo, hi, at), lo, hi, at)
  BY <1>3 DEF First, IsFirst
<1>5. ASSUME NEW a, NEW b, IsFirst(a, lo, hi, at), IsFirst(b, lo, hi, at) PROVE ~(a < b)
  <2>1. a \in Nat /\ b \in Nat /\ a \in lo .. hi /\ b \in lo .. hi
    BY <1>5 DEF IsFirst
  <2>2. SUFFICES ASSUME a < b PROVE FALSE
    OBVIOUS
  <2>3. a \in lo .. b - 1 /\ a # hi
    BY <2>1, <2>2
  <2>. QED
    BY <1>5, <2>3 DEF IsFirst
<1>6. \A m1 : IsFirst(m1, lo, hi, at) => m1 = First(lo, hi, at)
  <2>1. SUFFICES ASSUME NEW m1, IsFirst(m1, lo, hi, at) PROVE m1 = First(lo, hi, at)
    OBVIOUS
  <2>2. m1 \in Nat /\ First(lo, hi, at) \in Nat
    BY <1>4, <2>1 DEF IsFirst
  <2>3. ~(m1 < First(lo, hi, at)) /\ ~(First(lo, hi, at) < m1)
    BY <1>4, <1>5, <2>1
  <2>. QED
    BY <2>2, <2>3
<1>. QED
  BY <1>4, <1>6

\* Samples are times, and times are numbers.
LEMMA SamplesAreTimes ==
    ASSUME NewestHeld
    PROVE  /\ \A i \in 1 .. Len(samples) : samples[i] \in Time /\ samples[i] \in Int
           /\ \A t \in added : t \in Int
           /\ Len(samples) \in Nat
<1>1. samples \in Seq(Time) /\ added \subseteq Time
  BY DEF NewestHeld
<1>2. \A i \in 1 .. Len(samples) : samples[i] \in Time
  BY <1>1
<1>3. \A t \in Time : t \in Int
  BY HistoryAssumption DEF Time
<1>. QED
  BY <1>1, <1>2, <1>3

\* Where the samples are in order, the half that the search goes on in has the
\* place it looks for.
LEMMA Halves ==
    ASSUME NewestHeld, NEW at \in Int, NEW lo \in 1 .. Len(samples),
           NEW hi \in 1 .. Len(samples), lo < hi
    PROVE  LET mid == (lo + hi) \div 2
           IN  /\ mid \in lo .. hi - 1
               /\ First(lo, hi, at) = IF After(samples[mid], at) THEN First(lo, mid, at)
                                      ELSE First(mid + 1, hi, at)
<1>. DEFINE mid == (lo + hi) \div 2
<1>1. /\ Len(samples) \in Nat /\ lo \in Nat /\ hi \in Nat /\ mid \in Nat
      /\ lo <= mid /\ mid < hi
  BY DEF NewestHeld
<1>. HIDE DEF mid
<1>2. CASE After(samples[mid], at)
  <2>1. IsFirst(First(lo, mid, at), lo, mid, at)
    BY <1>1, FirstIs
  <2>2. IsFirst(First(lo, mid, at), lo, hi, at)
    BY <1>1, <1>2, <2>1 DEF IsFirst
  <2>3. First(lo, mid, at) = First(lo, hi, at)
    BY <1>1, <2>2, FirstIs
  <2>. QED
    BY <1>1, <1>2, <2>3 DEF mid
<1>3. CASE ~After(samples[mid], at)
  <2>. DEFINE m == First(mid + 1, hi, at)
  <2>1. IsFirst(m, mid + 1, hi, at) /\ mid + 1 \in Nat /\ mid + 1 <= hi
    BY <1>1, FirstIs
  <2>2. \A i \in lo .. mid : ~After(samples[i], at)
    <3>1. \A i \in 1 .. Len(samples) : samples[i] \in Int
      BY SamplesAreTimes
    <3>2. \A i \in lo .. mid : i \in 1 .. Len(samples) /\ mid \in 1 .. Len(samples)
      BY <1>1
    <3>3. \A i \in lo .. mid : samples[i] <= samples[mid]
      BY <1>1, <3>1, <3>2 DEF NewestHeld, Increasing
    <3>. QED
      BY <1>3, <3>1, <3>2, <3>3 DEF After
  <2>3. IsFirst(m, lo, hi, at)
    <3>. HIDE DEF m
    <3>1. m \in lo .. hi /\ m \in Nat
      BY <1>1, <2>1 DEF IsFirst
    <3>2. \A i \in lo .. m - 1 : i \in lo .. mid \/ i \in mid + 1 .. m - 1
      BY <1>1, <3>1
    <3>. QED
      BY <2>1, <2>2, <3>1, <3>2 DEF IsFirst
  <2>4. m = First(lo, hi, at)
    BY <1>1, <2>3, FirstIs
  <2>. QED
    BY <1>1, <1>3, <2>4 DEF mid
<1>. QED
  BY <1>2, <1>3

\* What Search says of its function.
Ranges == (1 .. Len(samples)) \X (1 .. Len(samples))
Narrowed(f, at) ==
    [range \in Ranges |->
        LET lo == range[1]
            hi == range[2]
            mid == (lo + hi) \div 2
        IN  IF lo >= hi THEN lo
            ELSE IF After(samples[mid], at) THEN f[<<lo, mid>>] ELSE f[<<mid + 1, hi>>]]

\* One step of the search.
LEMMA NarrowedAt ==
    ASSUME NEW f, NEW at, NEW lo \in 1 .. Len(samples), NEW hi \in 1 .. Len(samples)
    PROVE  Narrowed(f, at)[<<lo, hi>>] =
              LET mid == (lo + hi) \div 2
              IN  IF lo >= hi THEN lo
                  ELSE IF After(samples[mid], at) THEN f[<<lo, mid>>]
                  ELSE f[<<mid + 1, hi>>]
BY DEF Narrowed, Ranges

\* There is a function like that: the one that knows the answers.
LEMMA NarrowedExists ==
    ASSUME NewestHeld, NEW at \in Int
    PROVE  \E f : f = Narrowed(f, at)
<1>. DEFINE g == [r \in Ranges |-> IF r[1] >= r[2] THEN r[1] ELSE First(r[1], r[2], at)]
<1>1. ASSUME NEW lo \in 1 .. Len(samples), NEW hi \in 1 .. Len(samples), lo <= hi
      PROVE  g[<<lo, hi>>] = First(lo, hi, at)
  <2>1. lo \in Nat /\ hi \in Nat /\ <<lo, hi>> \in Ranges
    BY DEF Ranges, NewestHeld
  <2>2. CASE lo = hi
    <3>1. IsFirst(lo, lo, hi, at)
      BY <2>1, <2>2 DEF IsFirst
    <3>. QED
      BY <1>1, <2>1, <2>2, <3>1, FirstIs
  <2>3. CASE lo # hi
    BY <1>1, <2>1, <2>3
  <2>. QED
    BY <2>2, <2>3
<1>2. ASSUME NEW r \in Ranges PROVE g[r] = Narrowed(g, at)[r]
  <2>1. PICK lo \in 1 .. Len(samples), hi \in 1 .. Len(samples) : r = <<lo, hi>>
    BY DEF Ranges
  <2>2. lo \in Nat /\ hi \in Nat
    BY DEF NewestHeld
  <2>3. CASE lo >= hi
    BY <2>1, <2>3 DEF Narrowed
  <2>4. CASE lo < hi
    <3>. DEFINE mid == (lo + hi) \div 2
    <3>1. /\ mid \in lo .. hi - 1
          /\ First(lo, hi, at) = IF After(samples[mid], at) THEN First(lo, mid, at)
                                 ELSE First(mid + 1, hi, at)
      BY <2>4, Halves
    <3>2. Narrowed(g, at)[r] = IF After(samples[mid], at) THEN g[<<lo, mid>>]
                               ELSE g[<<mid + 1, hi>>]
      <4>. HIDE DEF g
      <4>. QED
        BY <2>1, <2>2, <2>4, NarrowedAt
    <3>. HIDE DEF mid, g
    <3>3. /\ mid \in 1 .. Len(samples) /\ mid + 1 \in 1 .. Len(samples)
          /\ lo <= mid /\ mid + 1 <= hi
      BY <2>2, <3>1
    <3>4. g[<<lo, mid>>] = First(lo, mid, at)
      BY <1>1, <3>3
    <3>5. g[<<mid + 1, hi>>] = First(mid + 1, hi, at)
      BY <1>1, <3>3
    <3>6. g[r] = First(lo, hi, at)
      BY <1>1, <2>1, <2>2, <2>4
    <3>. QED
      BY <3>1, <3>2, <3>4, <3>5, <3>6
  <2>. QED
    BY <2>2, <2>3, <2>4
<1>3. g = [r \in Ranges |-> g[r]]
  OBVIOUS
<1>4. Narrowed(g, at) = [r \in Ranges |-> Narrowed(g, at)[r]]
  <2>. HIDE DEF g
  <2>. QED
    BY DEF Narrowed
<1>5. g = Narrowed(g, at)
  <2>. HIDE DEF g
  <2>. QED
    BY <1>2, <1>3, <1>4
<1>. QED
  BY <1>5

\* The binary search ends at the first sample after at: by induction over the
\* length of the range it has still to search.
LEMMA SearchFinds ==
    ASSUME NewestHeld, NEW at \in Int, samples # <<>>
    PROVE  Search(at) = First(1, Len(samples), at)
<1>. DEFINE f == CHOOSE f : f = Narrowed(f, at)
<1>1. f = Narrowed(f, at)
  <2>. HIDE DEF Narrowed
  <2>. QED
    BY NarrowedExists
<1>2. Search(at) = f[<<1, Len(samples)>>]
  BY Zenon DEF Search, Narrowed, Ranges
<1>. HIDE DEF f
<1>. DEFINE Wrong == {n \in Nat : \E lo, hi \in 1 .. Len(samples) :
                         lo <= hi /\ n = hi - lo /\ f[<<lo, hi>>] # First(lo, hi, at)}
<1>3. ASSUME NEW n \in Wrong, \A k \in Wrong : n <= k PROVE FALSE
  <2>1. PICK lo \in 1 .. Len(samples), hi \in 1 .. Len(samples) :
               lo <= hi /\ n = hi - lo /\ f[<<lo, hi>>] # First(lo, hi, at)
    OBVIOUS
  <2>2. lo \in Nat /\ hi \in Nat /\ <<lo, hi>> \in Ranges /\ Len(samples) \in Nat
    BY DEF NewestHeld, Ranges
  <2>3. f[<<lo, hi>>] = LET mid == (lo + hi) \div 2
                        IN  IF lo >= hi THEN lo
                            ELSE IF After(samples[mid], at) THEN f[<<lo, mid>>]
                            ELSE f[<<mid + 1, hi>>]
    BY <1>1, <2>2 DEF Narrowed
  <2>4. ASSUME NEW a \in 1 .. Len(samples), NEW b \in 1 .. Len(samples),
               a <= b, b - a < n
        PROVE  f[<<a, b>>] = First(a, b, at)
    <3>1. b - a \in Nat /\ n \in Nat /\ ~(n <= b - a)
      BY <2>2, <2>4
    <3>2. b - a \notin Wrong
      BY <1>3, <3>1
    <3>. QED
      BY <2>4, <3>1, <3>2
  <2>5. CASE lo = hi
    <3>1. IsFirst(lo, lo, hi, at)
      BY <2>2, <2>5 DEF IsFirst
    <3>2. lo = First(lo, hi, at)
      BY <2>1, <2>2, <3>1, FirstIs
    <3>. QED
      BY <2>1, <2>2, <2>3, <2>5, <3>2
  <2>6. CASE lo < hi
    <3>. DEFINE mid == (lo + hi) \div 2
    <3>1. /\ mid \in lo .. hi - 1
          /\ First(lo, hi, at) = IF After(samples[mid], at) THEN First(lo, mid, at)
                                 ELSE First(mid + 1, hi, at)
      BY <2>6, Halves
    <3>2. f[<<lo, hi>>] = IF After(samples[mid], at) THEN f[<<lo, mid>>]
                          ELSE f[<<mid + 1, hi>>]
      BY <2>2, <2>3, <2>6
    <3>. HIDE DEF mid, Wrong
    <3>3. /\ mid \in 1 .. Len(samples) /\ mid + 1 \in 1 .. Len(samples)
          /\ lo <= mid /\ mid + 1 <= hi /\ mid - lo < n /\ hi - (mid + 1) < n
      BY <2>1, <2>2, <3>1
    <3>4. f[<<lo, mid>>] = First(lo, mid, at)
      BY <2>4, <3>3
    <3>5. f[<<mid + 1, hi>>] = First(mid + 1, hi, at)
      BY <2>4, <3>3
    <3>. QED
      BY <2>1, <3>1, <3>2, <3>4, <3>5
  <2>. QED
    BY <2>1, <2>2, <2>5, <2>6
<1>4. Wrong = {}
  <2>1. Wrong \subseteq Nat
    OBVIOUS
  <2>. HIDE DEF Wrong
  <2>. QED
    BY <1>3, <2>1, Smallest
<1>5. Len(samples) \in Nat /\ Len(samples) >= 1
  BY DEF NewestHeld
<1>6. f[<<1, Len(samples)>>] = First(1, Len(samples), at)
  <2>1. Len(samples) - 1 \in Nat /\ 1 \in 1 .. Len(samples)
        /\ Len(samples) \in 1 .. Len(samples) /\ 1 <= Len(samples)
    BY <1>5
  <2>. QED
    BY <1>4, <2>1
<1>. QED
  BY <1>2, <1>6

\* The largest and the smallest member of a set, where there is one.
LEMMA MaxMinAre ==
    ASSUME NEW S \in SUBSET Int, NEW m \in S
    PROVE  /\ (\A y \in S : m >= y) => Max(S) = m
           /\ (\A y \in S : m <= y) => Min(S) = m
<1>1. ASSUME \A y \in S : m >= y PROVE Max(S) = m
  <2>1. Max(S) \in S /\ \A y \in S : Max(S) >= y
    BY <1>1 DEF Max
  <2>2. Max(S) >= m /\ m >= Max(S) /\ Max(S) \in Int
    BY <1>1, <2>1
  <2>. QED
    BY <2>2
<1>2. ASSUME \A y \in S : m <= y PROVE Min(S) = m
  <2>1. Min(S) \in S /\ \A y \in S : Min(S) <= y
    BY <1>2 DEF Min
  <2>2. Min(S) <= m /\ m <= Min(S) /\ Min(S) \in Int
    BY <1>2, <2>1
  <2>. QED
    BY <2>2
<1>. QED
  BY <1>1, <1>2

\* From the oldest sample held on, a look-up finds exactly the samples around
\* the time that it would find if nothing had ever been dropped, and the binary
\* search never leaves the slice.
THEOREM LookupExactAlways == Spec => []LookupExact
<1>1. Inv => LookupExact
  <2>1. SUFFICES ASSUME NewestHeld, NEW at \in Time, samples # <<>>, at >= samples[1]
                 PROVE  At(at) = Bracket(at)
    BY DEF Inv, LookupExact
  <2>. DEFINE before == {t \in added : t <= at}
              later == {t \in added : t > at}
              L == Len(samples)
  <2>2. /\ L \in Nat /\ L >= 1 /\ at \in Int
        /\ \A i \in 1 .. L : samples[i] \in Int /\ samples[i] \in added
        /\ \A t \in added : t \in Int
    <3>1. L >= 1
      BY <2>1 DEF NewestHeld
    <3>. QED
      BY <2>1, <3>1, SamplesAreTimes, HistoryAssumption DEF NewestHeld, Time
  <2>3. before \subseteq Int /\ later \subseteq Int
    BY <2>2
  <2>4. /\ \A i, j \in 1 .. L : i <= j => samples[i] <= samples[j]
        /\ \A t \in added : \/ \E i \in 1 .. L : t = samples[i]
                           \/ \A i \in 1 .. L : t < samples[i]
    BY <2>1, <2>2 DEF NewestHeld, Held, Increasing
  <2>5. 1 \in 1 .. L /\ L \in 1 .. L /\ ~(at < samples[1]) /\ Newest = samples[L]
    BY <2>1, <2>2 DEF Newest
  <2>6. Bracket(at) = <<Max(before), IF later = {} THEN Max(before) ELSE Min(later)>>
    BY DEF Bracket
  <2>. HIDE DEF L
  <2>7. CASE at >= Newest
    <3>1. At(at) = <<Newest, Newest>>
      BY <2>1, <2>5, <2>7 DEF At
    <3>2. \A t \in added : t <= Newest
      BY <2>2, <2>4, <2>5
    <3>3. Newest \in before /\ later = {}
      BY <2>2, <2>5, <2>7, <3>2
    <3>4. Max(before) = Newest
      <4>1. \A t \in before : Newest >= t
        BY <2>2, <2>5, <3>2
      <4>. HIDE DEF before
      <4>. QED
        BY <2>3, <3>3, <4>1, MaxMinAre
    <3>. QED
      BY <2>6, <3>1, <3>3, <3>4
  <2>8. CASE ~(at >= Newest)
    <3>. DEFINE b == First(1, L, at)
    <3>1. Search(at) = b
      BY <2>1, <2>2, SearchFinds DEF L
    <3>2. /\ b \in 1 .. L /\ (b = L \/ samples[b] > at)
          /\ \A i \in 1 .. b - 1 : ~(samples[i] > at)
      <4>1. IsFirst(b, 1, L, at)
        BY <2>2, FirstIs
      <4>. HIDE DEF b
      <4>. QED
        BY <4>1 DEF IsFirst, After
    <3>. HIDE DEF b
    <3>3. samples[b] > at /\ b # 1 /\ b - 1 \in 1 .. L /\ b \in Nat
      BY <2>1, <2>2, <2>5, <2>8, <3>2
    <3>4. At(at) = <<samples[b - 1], samples[b]>>
      BY <2>1, <2>5, <2>8, <3>1, <3>3 DEF At
    <3>5. samples[b - 1] \in before /\ \A t \in before : samples[b - 1] >= t
      <4>1. samples[b - 1] <= at /\ samples[b - 1] \in added
        BY <2>2, <3>2, <3>3
      <4>2. ASSUME NEW t \in added, t <= at PROVE samples[b - 1] >= t
        <5>1. CASE \A i \in 1 .. L : t < samples[i]
          BY <2>2, <3>3, <5>1
        <5>2. ASSUME NEW i \in 1 .. L, t = samples[i] PROVE samples[b - 1] >= t
          <6>1. ~(b <= i)
            BY <2>2, <2>4, <3>2, <3>3, <4>2, <5>2
          <6>2. i <= b - 1
            BY <2>2, <3>3, <6>1
          <6>. QED
            BY <2>2, <2>4, <3>3, <5>2, <6>2
        <5>. QED
          BY <2>4, <5>1, <5>2
      <4>. QED
        BY <4>1, <4>2
    <3>6. samples[b] \in later /\ \A t \in later : samples[b] <= t
      <4>1. samples[b] \in added
        BY <2>2, <3>2
      <4>2. ASSUME NEW t \in added, t > at PROVE samples[b] <= t
        <5>1. ~\A i \in 1 .. L : t < samples[i]
          BY <2>1, <2>2, <2>5, <4>2
        <5>2. PICK i \in 1 .. L : t = samples[i]
          BY <2>4, <5>1
        <5>3. b <= i
          BY <2>2, <3>2, <3>3, <4>2, <5>2
        <5>. QED
          BY <2>4, <3>2, <5>2, <5>3
      <4>. QED
        BY <3>3, <4>1, <4>2
    <3>. HIDE DEF before, later
    <3>7. Max(before) = samples[b - 1] /\ Min(later) = samples[b] /\ later # {}
      BY <2>3, <3>5, <3>6, MaxMinAre
    <3>. QED
      BY <2>6, <3>4, <3>7
  <2>. QED
    BY <2>7, <2>8
<1>. QED
  BY <1>1, Starts, StepKeeps, PTL DEF Spec
=============================================================================
