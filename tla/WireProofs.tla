----------------------------- MODULE WireProofs -----------------------------
(***************************************************************************)
(* Proofs about Wire, for any sizes of the fields, characters, samples,    *)
(* round trips and numbers of players: what the client reads is what was   *)
(* sent.  The layouts are read and written by recursion over their fields; *)
(* what that computes is shown by induction over the natural numbers.      *)
(***************************************************************************)
EXTENDS Wire, WellFoundedInduction, TLAPS

-----------------------------------------------------------------------------
(* Induction and recursion *)

\* The least-number principle.
LEMMA Smallest ==
    ASSUME NEW T \in SUBSET Nat, T # {}
    PROVE  \E m \in T : \A k \in T : m <= k
<1>. DEFINE R == {ss \in Nat \X Nat : ss[1] < ss[2]}
<1>1. IsWellFoundedOn(R, Nat)
  BY NatLessThanWellFounded DEF OpToRel
<1>. HIDE DEF R
<1>2. PICK m \in T : \A k \in T : <<k, m>> \notin R
  BY <1>1, WFMin
<1>3. \A k \in T : <<k, m>> \in Nat \X Nat
  OBVIOUS
<1>4. \A k \in T : ~(k < m)
  BY <1>2, <1>3 DEF R
<1>. QED
  BY <1>4

\* What holds at 0 and goes on holding, holds up to n.
LEMMA Induction ==
    ASSUME NEW n \in Nat, NEW A, 0 \in A, \A k \in 1 .. n : k - 1 \in A => k \in A
    PROVE  \A k \in 0 .. n : k \in A
<1>. DEFINE T == {k \in 0 .. n : k \notin A}
<1>1. SUFFICES ASSUME T # {} PROVE FALSE
  OBVIOUS
<1>2. T \subseteq Nat
  OBVIOUS
<1>3. PICK m \in T : \A k \in T : m <= k
  <2>. HIDE DEF T
  <2>. QED
    BY <1>1, <1>2, Smallest
<1>4. m \in 1 .. n
  BY <1>3
<1>5. m - 1 \in 0 .. n /\ ~(m <= m - 1)
  BY <1>4
<1>6. m - 1 \in A
  BY <1>3, <1>5
<1>. QED
  BY <1>4, <1>6

\* g begins with base and goes on by step.
Goes(g, S, base, n, step) ==
    /\ g \in [0 .. n -> S] /\ g[0] = base
    /\ \A k \in 1 .. n : g[k] = step[<<k, g[k - 1]>>]

\* A function can be defined step by step.
LEMMA Recursion ==
    ASSUME NEW S, NEW base \in S, NEW n \in Nat, NEW step \in [(1 .. n) \X S -> S]
    PROVE  \E g : Goes(g, S, base, n, step)
<1>. DEFINE Up(g, m) == Goes(g, S, base, m, step)
            A == {m \in 0 .. n : \E g : Up(g, m)}
<1>1. 0 \in A
  <2>1. Up([k \in 0 .. 0 |-> base], 0)
    BY DEF Goes
  <2>. HIDE DEF Up
  <2>. QED
    BY <2>1
<1>2. ASSUME NEW m \in 1 .. n, m - 1 \in A PROVE m \in A
  <2>1. PICK g : Up(g, m - 1)
    BY <1>2
  <2>. DEFINE h == [k \in 0 .. m |-> IF k = m THEN step[<<m, g[m - 1]>>] ELSE g[k]]
  <2>2. g[m - 1] \in S
    BY <2>1 DEF Goes
  <2>3. step[<<m, g[m - 1]>>] \in S
    BY <2>2
  <2>4. h \in [0 .. m -> S]
    BY <2>1, <2>3 DEF Goes
  <2>5. h[0] = base
    BY <2>1 DEF Goes
  <2>6. ASSUME NEW k \in 1 .. m PROVE h[k] = step[<<k, h[k - 1]>>]
    <3>1. CASE k = m
      <4>1. m \in 0 .. m /\ m - 1 \in 0 .. m /\ m - 1 # m
        OBVIOUS
      <4>2. h[m] = step[<<m, g[m - 1]>>] /\ h[m - 1] = g[m - 1]
        BY <4>1
      <4>. HIDE DEF h
      <4>. QED
        BY <3>1, <4>2
    <3>2. CASE k # m
      <4>1. k \in 1 .. m - 1 /\ k \in 0 .. m /\ k - 1 \in 0 .. m /\ k - 1 # m
        BY <3>2
      <4>2. h[k] = g[k] /\ h[k - 1] = g[k - 1]
        BY <3>2, <4>1
      <4>. HIDE DEF h
      <4>. QED
        BY <2>1, <4>1, <4>2 DEF Goes
    <3>. QED
      BY <3>1, <3>2
  <2>7. Up(h, m)
    BY <2>4, <2>5, <2>6 DEF Goes
  <2>. HIDE DEF Up
  <2>. QED
    BY <2>7
<1>3. n \in A
  <2>. HIDE DEF A
  <2>. QED
    BY <1>1, <1>2, Induction
<1>4. PICK g : Up(g, n)
  BY <1>3
<1>. QED
  BY <1>4

\* What it is to go.
LEMMA Going ==
    ASSUME NEW S, NEW base, NEW n \in Nat, NEW step, NEW g, Goes(g, S, base, n, step)
    PROVE  /\ g[0] = base /\ \A k \in 0 .. n : g[k] \in S
           /\ \A k \in 1 .. n : /\ k \in 0 .. n /\ k - 1 \in 0 .. n
                                /\ g[k - 1] \in S
                                /\ g[k] = step[<<k, g[k - 1]>>]
BY DEF Goes

-----------------------------------------------------------------------------
(* Fields and layouts *)

Kind == Text \cup Opaque
Name == {"ID", "PlayerID", "Name", "Car", "Flags", "Padding", "Text", "Token", "Reason",
         "Transform", "Telemetry", "Seq", "Count", "TickRateHz", "EchoDelayMs",
         "ServerTimeMs", "ClientTimeMs", "LastClientTimeMs", "SampleTimeMs",
         "PingMs", "SelfPingMs"}
Field == [name : Name, kind : Kind]
IsLayout(layout) == layout \in Seq(Field)

\* Every field has a size.
LEMMA Sizes ==
    /\ \A kind \in Kind : SizeOf[kind] \in Nat /\ SizeOf[kind] > 0
    /\ U16 \in Nat /\ U16 > 0 /\ MaxDatagram \in Nat /\ MaxPlayers \in Nat
    /\ HeaderSize \in Nat /\ HeaderSize > 0
BY SizeAssumption DEF Kind, Opaque, HeaderSize

\* So have those of a layout.
LEMMA FieldSizes ==
    ASSUME NEW layout, IsLayout(layout)
    PROVE  /\ Len(layout) \in Nat
           /\ \A k \in 1 .. Len(layout) :
                 /\ layout[k] \in Field
                 /\ layout[k].kind \in Kind
                 /\ SizeOf[layout[k].kind] \in Nat /\ SizeOf[layout[k].kind] > 0
<1>1. /\ Len(layout) \in Nat
      /\ \A k \in 1 .. Len(layout) : layout[k] \in Field
  BY DEF IsLayout
<1>2. \A f \in Field : f.kind \in Kind
  BY DEF Field
<1>. QED
  BY <1>1, <1>2, Sizes

\* The places of the fields, one after the other.
LEMMA EndOfIs ==
    ASSUME NEW layout, IsLayout(layout)
    PROVE  /\ EndOf(layout, 0) = 0
           /\ \A k \in 0 .. Len(layout) : EndOf(layout, k) \in Nat
           /\ \A k \in 1 .. Len(layout) :
                 EndOf(layout, k) = EndOf(layout, k - 1) + SizeOf[layout[k].kind]
<1>. DEFINE n == Len(layout)
            Def(e) == [k \in 0 .. n |-> IF k = 0 THEN 0
                                        ELSE e[k - 1] + SizeOf[layout[k].kind]]
            step == [p \in (1 .. n) \X Nat |-> p[2] + SizeOf[layout[p[1]].kind]]
            end == CHOOSE e : e = Def(e)
<1>1. n \in Nat /\ \A k \in 1 .. n : SizeOf[layout[k].kind] \in Nat
  BY FieldSizes
<1>2. step \in [(1 .. n) \X Nat -> Nat]
  BY <1>1
<1>3. PICK g : Goes(g, Nat, 0, n, step)
  <2>1. n \in Nat /\ 0 \in Nat
    BY <1>1
  <2>. HIDE DEF step, n
  <2>. QED
    BY <2>1, <1>2, Recursion
<1>4. g = Def(g)
  <2>1. ASSUME NEW k \in 1 .. n
        PROVE  step[<<k, g[k - 1]>>] = g[k - 1] + SizeOf[layout[k].kind]
    <3>1. g[k - 1] \in Nat /\ n \in Nat
      <4>. HIDE DEF n, step
      <4>. QED
        BY <1>1, <1>3, Going
    <3>2. <<k, g[k - 1]>> \in (1 .. n) \X Nat
      BY <3>1
    <3>. QED
      BY <3>2
  <2>2. \A k \in 0 .. n : k = 0 \/ k \in 1 .. n
    BY <1>1
  <2>. HIDE DEF step, n
  <2>. QED
    BY <1>3, <2>1, <2>2 DEF Goes
<1>5. end = Def(end)
  <2>. HIDE DEF Def
  <2>. QED
    BY <1>4
<1>6. \A k \in 0 .. n : EndOf(layout, k) = end[k]
  BY DEF EndOf
<1>. HIDE DEF end, step
<1>7. end[0] = 0 /\ \A k \in 1 .. n : end[k] = end[k - 1] + SizeOf[layout[k].kind]
  BY <1>1, <1>5
<1>8. \A k \in 0 .. n : end[k] \in Nat
  <2>. DEFINE A == {k \in 0 .. n : end[k] \in Nat}
  <2>1. 0 \in A
    BY <1>1, <1>7
  <2>2. \A k \in 1 .. n : k - 1 \in A => k \in A
    BY <1>1, <1>7
  <2>3. \A k \in 0 .. n : k \in A
    <3>. HIDE DEF A, n
    <3>. QED
      BY <1>1, <2>1, <2>2, Induction
  <2>. QED
    BY <2>3
<1>9. 0 \in 0 .. n /\ \A k \in 1 .. n : k \in 0 .. n /\ k - 1 \in 0 .. n
  BY <1>1
<1>. HIDE DEF Def
<1>. QED
  BY <1>1, <1>6, <1>7, <1>8, <1>9

\* A field begins after all those before it.
LEMMA EndsGrow ==
    ASSUME NEW layout, IsLayout(layout), NEW j \in 0 .. Len(layout)
    PROVE  \A k \in 0 .. Len(layout) : j <= k => EndOf(layout, j) <= EndOf(layout, k)
<1>. DEFINE n == Len(layout)
            A == {k \in 0 .. n : j <= k => EndOf(layout, j) <= EndOf(layout, k)}
<1>1. n \in Nat /\ \A k \in 1 .. n : SizeOf[layout[k].kind] \in Nat
  BY FieldSizes
<1>2. /\ \A k \in 0 .. n : EndOf(layout, k) \in Nat
      /\ \A k \in 1 .. n :
            EndOf(layout, k) = EndOf(layout, k - 1) + SizeOf[layout[k].kind]
  BY EndOfIs
<1>3. 0 \in A
  BY <1>1, <1>2
<1>4. ASSUME NEW k \in 1 .. n, k - 1 \in A PROVE k \in A
  <2>1. /\ k \in 0 .. n /\ k - 1 \in 0 .. n
        /\ j <= k => j = k \/ j <= k - 1
    BY <1>1
  <2>2. /\ EndOf(layout, k) \in Nat /\ EndOf(layout, k - 1) \in Nat
        /\ EndOf(layout, j) \in Nat /\ SizeOf[layout[k].kind] \in Nat
        /\ EndOf(layout, k) = EndOf(layout, k - 1) + SizeOf[layout[k].kind]
    BY <1>1, <1>2, <2>1
  <2>. QED
    BY <1>4, <2>1, <2>2
<1>5. \A k \in 0 .. n : k \in A
  <2>. HIDE DEF A, n
  <2>. QED
    BY <1>1, <1>3, <1>4, Induction
<1>. QED
  BY <1>5

-----------------------------------------------------------------------------
(* Sequences *)

IsSeq(s) == \E S : s \in Seq(S)

\* A sequence is its members, one after the other.
LEMMA SeqIs ==
    ASSUME NEW s, IsSeq(s)
    PROVE  /\ Len(s) \in Nat /\ s = [i \in 1 .. Len(s) |-> s[i]]
           /\ \A S : (\A i \in 1 .. Len(s) : s[i] \in S) => s \in Seq(S)
BY DEF IsSeq

\* What is listed from 1 to n is a sequence.
LEMMA Listed ==
    ASSUME NEW n \in Nat, NEW s, s = [i \in 1 .. n |-> s[i]]
    PROVE  IsSeq(s) /\ Len(s) = n
<1>. DEFINE S == {s[i] : i \in 1 .. n}
<1>1. s \in [1 .. n -> S]
  BY Zenon
<1>2. s \in Seq(S) /\ Len(s) = n
  <2>. HIDE DEF S
  <2>. QED
    BY <1>1
<1>. QED
  BY <1>2, Zenon DEF IsSeq

\* Both parts of a joined sequence are at their places.
LEMMA Join ==
    ASSUME NEW s, NEW t, IsSeq(s), IsSeq(t)
    PROVE  /\ IsSeq(s \o t)
           /\ Len(s) \in Nat /\ Len(t) \in Nat /\ Len(s \o t) = Len(s) + Len(t)
           /\ \A i \in 1 .. Len(s) : (s \o t)[i] = s[i]
           /\ \A i \in 1 .. Len(t) : (s \o t)[Len(s) + i] = t[i]
<1>1. PICK S, T : s \in Seq(S) /\ t \in Seq(T)
  BY DEF IsSeq
<1>2. s \in Seq(S \cup T) /\ t \in Seq(S \cup T)
  BY <1>1
<1>3. s \o t \in Seq(S \cup T)
  BY <1>2
<1>4. IsSeq(s \o t)
  BY <1>3, Zenon DEF IsSeq
<1>. QED
  BY <1>2, <1>4

\* p is the first n bytes of b.
Prefix(p, n, b) == n \in 0 .. Len(b) /\ p = SubSeq(b, 1, n)

\* A prefix is a sequence of its own.
LEMMA Cut ==
    ASSUME NEW s, IsSeq(s), NEW n \in 0 .. Len(s)
    PROVE  /\ IsSeq(SubSeq(s, 1, n)) /\ Len(SubSeq(s, 1, n)) = n
           /\ \A i \in 1 .. n : SubSeq(s, 1, n)[i] = s[i]
<1>1. PICK S : s \in Seq(S)
  BY DEF IsSeq
<1>2. SubSeq(s, 1, n) \in Seq(S)
  BY <1>1
<1>3. IsSeq(SubSeq(s, 1, n))
  BY <1>2, Zenon DEF IsSeq
<1>. QED
  BY <1>1, <1>3

\* g joins the pieces to base, one after the other.
Joins(g, base, n, piece) ==
    g = [k \in 0 .. n |-> IF k = 0 THEN base ELSE g[k - 1] \o piece[k]]

\* Such a g exists.
LEMMA Joinable ==
    ASSUME NEW base, IsSeq(base), NEW n \in Nat, NEW piece,
           \A k \in 1 .. n : IsSeq(piece[k])
    PROVE  \E g : Joins(g, base, n, piece)
<1>. DEFINE B == UNION {{piece[k][i] : i \in 1 .. Len(piece[k])} : k \in 1 .. n}
            C == B \cup {base[i] : i \in 1 .. Len(base)}
            step == [p \in (1 .. n) \X Seq(C) |-> p[2] \o piece[p[1]]]
<1>1. base \in Seq(C)
  BY SeqIs
<1>2. ASSUME NEW k \in 1 .. n PROVE piece[k] \in Seq(C)
  <2>1. \A i \in 1 .. Len(piece[k]) : piece[k][i] \in C
    OBVIOUS
  <2>. HIDE DEF C
  <2>. QED
    BY <2>1, SeqIs
<1>3. step \in [(1 .. n) \X Seq(C) -> Seq(C)]
  <2>. HIDE DEF C
  <2>. QED
    BY <1>2
<1>4. PICK g : Goes(g, Seq(C), base, n, step)
  <2>. HIDE DEF C, step
  <2>. QED
    BY <1>1, <1>3, Recursion
<1>5. ASSUME NEW k \in 1 .. n PROVE g[k] = g[k - 1] \o piece[k]
  <2>1. g[k - 1] \in Seq(C) /\ g[k] = step[<<k, g[k - 1]>>]
    <3>. HIDE DEF C, step
    <3>1. k - 1 \in 0 .. n
      OBVIOUS
    <3>. QED
      BY <1>4, <3>1 DEF Goes
  <2>2. <<k, g[k - 1]>> \in (1 .. n) \X Seq(C)
    BY <2>1
  <2>. HIDE DEF C
  <2>. QED
    BY <2>1, <2>2
<1>6. Joins(g, base, n, piece)
  <2>. HIDE DEF C, step
  <2>1. \A k \in 0 .. n : k = 0 \/ k \in 1 .. n
    OBVIOUS
  <2>. QED
    BY <1>4, <1>5, <2>1 DEF Goes, Joins
<1>. QED
  BY <1>6

\* s holds base and then the first m pieces, each of them at its place.
Holds(s, m, base, piece, end) ==
    /\ IsSeq(s) /\ Len(s) = end[m] /\ end[m] \in Nat /\ Len(base) <= end[m]
    /\ \A i \in 1 .. Len(base) : s[i] = base[i]
    /\ \A k \in 1 .. m : \A i \in 1 .. Len(piece[k]) :
          /\ end[k - 1] \in Nat /\ end[k - 1] + i <= end[m]
          /\ s[end[k - 1] + i] = piece[k][i]

\* Another piece goes after those there are.
LEMMA HoldsNext ==
    ASSUME NEW base, IsSeq(base), NEW piece, NEW end, NEW m \in Nat, m > 0,
           \A k \in 1 .. m : IsSeq(piece[k]),
           end[m] = end[m - 1] + Len(piece[m]),
           NEW s, Holds(s, m - 1, base, piece, end)
    PROVE  Holds(s \o piece[m], m, base, piece, end)
<1>. DEFINE t == s \o piece[m]
<1>1. /\ IsSeq(s) /\ Len(s) = end[m - 1] /\ end[m - 1] \in Nat
      /\ Len(base) <= end[m - 1] /\ Len(base) \in Nat
      /\ \A i \in 1 .. Len(base) : s[i] = base[i]
  BY SeqIs DEF Holds
<1>2. IsSeq(piece[m])
  OBVIOUS
<1>3. /\ IsSeq(t) /\ Len(piece[m]) \in Nat
      /\ Len(t) = end[m - 1] + Len(piece[m])
      /\ \A i \in 1 .. end[m - 1] : t[i] = s[i]
      /\ \A i \in 1 .. Len(piece[m]) : t[end[m - 1] + i] = piece[m][i]
  <2>1. /\ IsSeq(s \o piece[m]) /\ Len(piece[m]) \in Nat
        /\ Len(s \o piece[m]) = Len(s) + Len(piece[m])
        /\ \A i \in 1 .. Len(s) : (s \o piece[m])[i] = s[i]
        /\ \A i \in 1 .. Len(piece[m]) : (s \o piece[m])[Len(s) + i] = piece[m][i]
    <3>. DEFINE p == piece[m]
    <3>1. IsSeq(s) /\ IsSeq(p)
      BY <1>1, <1>2
    <3>. HIDE DEF p
    <3>2. /\ IsSeq(s \o p) /\ Len(p) \in Nat
          /\ Len(s \o p) = Len(s) + Len(p)
          /\ \A i \in 1 .. Len(s) : (s \o p)[i] = s[i]
          /\ \A i \in 1 .. Len(p) : (s \o p)[Len(s) + i] = p[i]
      BY <3>1, Join
    <3>. QED
      BY <3>2 DEF p
  <2>. QED
    BY <2>1, <1>1
<1>. HIDE DEF t
<1>4. \A i \in 1 .. Len(base) : t[i] = base[i]
  BY <1>1, <1>3
<1>5. ASSUME NEW k \in 1 .. m, NEW i \in 1 .. Len(piece[k])
      PROVE  /\ end[k - 1] \in Nat /\ end[k - 1] + i <= end[m]
             /\ t[end[k - 1] + i] = piece[k][i]
  <2>1. CASE k = m
    BY <2>1, <1>1, <1>3
  <2>2. CASE k # m
    <3>1. k \in 1 .. m - 1
      BY <2>2
    <3>2. /\ end[k - 1] \in Nat /\ end[k - 1] + i <= end[m - 1]
          /\ s[end[k - 1] + i] = piece[k][i]
      BY <3>1 DEF Holds
    <3>3. Len(piece[k]) \in Nat
      BY SeqIs
    <3>4. end[k - 1] + i \in 1 .. end[m - 1]
      BY <3>2, <3>3, <1>1
    <3>5. t[end[k - 1] + i] = s[end[k - 1] + i]
      BY <3>4, <1>3
    <3>. QED
      BY <3>2, <3>3, <3>5, <1>1, <1>3
  <2>. QED
    BY <2>1, <2>2
<1>6. Holds(t, m, base, piece, end)
  BY <1>1, <1>3, <1>4, <1>5 DEF Holds
<1>. QED
  BY <1>6 DEF t

\* The joined sequence holds them all.
LEMMA Joined ==
    ASSUME NEW base, IsSeq(base), NEW n \in Nat, NEW piece, NEW end,
           end[0] = Len(base),
           \A k \in 1 .. n : IsSeq(piece[k]) /\ end[k] = end[k - 1] + Len(piece[k]),
           NEW g, Joins(g, base, n, piece)
    PROVE  Holds(g[n], n, base, piece, end)
<1>. DEFINE A == {m \in 0 .. n : Holds(g[m], m, base, piece, end)}
<1>1. 0 \in A
  <2>1. g[0] = base /\ Len(base) \in Nat
    BY SeqIs DEF Joins
  <2>2. Holds(g[0], 0, base, piece, end)
    BY <2>1 DEF Holds
  <2>. QED
    BY <2>2
<1>2. ASSUME NEW m \in 1 .. n, m - 1 \in A PROVE m \in A
  <2>1. /\ Holds(g[m - 1], m - 1, base, piece, end)
        /\ m \in Nat /\ m > 0 /\ m \in 0 .. n
        /\ \A k \in 1 .. m : k \in 1 .. n
    BY <1>2
  <2>2. g[m] = g[m - 1] \o piece[m]
    <3>1. m \in 0 .. n /\ m # 0
      OBVIOUS
    <3>. QED
      BY <3>1, Zenon DEF Joins
  <2>3. Holds(g[m - 1] \o piece[m], m, base, piece, end)
    <3>1. \A k \in 1 .. m : IsSeq(piece[k])
      BY <2>1
    <3>2. end[m] = end[m - 1] + Len(piece[m])
      OBVIOUS
    <3>. QED
      BY <2>1, <3>1, <3>2, HoldsNext, Zenon
  <2>. QED
    BY <2>1, <2>2, <2>3
<1>3. \A k \in 0 .. n : k \in A
  <2>. HIDE DEF A
  <2>. QED
    BY <1>1, <1>2, Induction
<1>4. n \in 0 .. n
  OBVIOUS
<1>. QED
  BY <1>3, <1>4

-----------------------------------------------------------------------------
(* What is written *)

\* A field fills its size.
LEMMA EncodedIs ==
    ASSUME NEW m, NEW f, f.kind \in Kind
    PROVE  /\ IsSeq(Encoded(m, f)) /\ Len(Encoded(m, f)) = SizeOf[f.kind]
           /\ f.kind \in Text => Encoded(m, f) = Padded(m[f.name], SizeOf[f.kind])
           /\ f.kind \notin Text /\ f.name # "Padding"
                 => Encoded(m, f) = Bytes(m[f.name], SizeOf[f.kind])
<1>. DEFINE n == SizeOf[f.kind]
            e == Encoded(m, f)
<1>1. n \in Nat
  BY Sizes
<1>2. e = [i \in 1 .. n |-> e[i]]
  BY DEF Encoded, Padded, Bytes
<1>3. IsSeq(e) /\ Len(e) = n
  <2>. HIDE DEF e, n
  <2>. QED
    BY <1>1, <1>2, Listed
<1>. QED
  BY <1>3 DEF Encoded

\* A record is its fields, each of them at its place.
LEMMA RecordIs ==
    ASSUME NEW m, NEW layout, IsLayout(layout)
    PROVE  /\ IsSeq(Record(m, layout))
           /\ Len(Record(m, layout)) = EndOf(layout, Len(layout))
           /\ \A k \in 1 .. Len(layout) : \A i \in 1 .. SizeOf[layout[k].kind] :
                 /\ EndOf(layout, k - 1) \in Nat
                 /\ EndOf(layout, k - 1) + i <= EndOf(layout, Len(layout))
                 /\ Record(m, layout)[EndOf(layout, k - 1) + i]
                       = Encoded(m, layout[k])[i]
<1>. DEFINE n == Len(layout)
            piece == [k \in 1 .. n |-> Encoded(m, layout[k])]
            end == [k \in 0 .. n |-> EndOf(layout, k)]
            Def(h) == [k \in 0 .. n |-> IF k = 0 THEN <<>>
                                        ELSE h[k - 1] \o Encoded(m, layout[k])]
            written == CHOOSE h : h = Def(h)
<1>1. n \in Nat /\ \A k \in 1 .. n : layout[k].kind \in Kind
  BY FieldSizes
<1>2. /\ IsSeq(<<>>) /\ Len(<<>>) = 0
      /\ \A k \in 1 .. n : IsSeq(piece[k]) /\ Len(piece[k]) = SizeOf[layout[k].kind]
  <2>1. <<>> \in Seq({}) /\ Len(<<>>) = 0
    OBVIOUS
  <2>2. IsSeq(<<>>)
    BY <2>1, Zenon DEF IsSeq
  <2>. QED
    BY <1>1, <2>1, <2>2, EncodedIs
<1>3. /\ end[0] = 0
      /\ \A k \in 1 .. n : end[k] = end[k - 1] + Len(piece[k])
      /\ \A k \in 1 .. n : end[k - 1] = EndOf(layout, k - 1)
      /\ end[n] = EndOf(layout, n)
  <2>1. /\ 0 \in 0 .. n /\ n \in 0 .. n
        /\ \A k \in 1 .. n : k \in 0 .. n /\ k - 1 \in 0 .. n
    BY <1>1
  <2>2. \A k \in 0 .. n : end[k] = EndOf(layout, k)
    OBVIOUS
  <2>. HIDE DEF end, piece
  <2>. QED
    BY <2>1, <2>2, <1>2, EndOfIs
<1>4. \A h : h = Def(h) <=> Joins(h, <<>>, n, piece)
  <2>1. ASSUME NEW h
        PROVE  Def(h) = [k \in 0 .. n |-> IF k = 0 THEN <<>> ELSE h[k - 1] \o piece[k]]
    <3>1. \A k \in 0 .. n : k = 0 \/ piece[k] = Encoded(m, layout[k])
      BY <1>1
    <3>. HIDE DEF piece
    <3>. QED
      BY <3>1
  <2>. QED
    BY <2>1, Zenon DEF Joins
<1>5. Joins(written, <<>>, n, piece)
  <2>1. PICK h : h = Def(h)
    <3>. HIDE DEF piece, Def
    <3>. QED
      BY <1>1, <1>2, <1>4, Joinable
  <2>2. written = Def(written)
    <3>. HIDE DEF Def
    <3>. QED
      BY <2>1
  <2>. HIDE DEF Def, piece, written
  <2>. QED
    BY <2>2, <1>4
<1>6. Record(m, layout) = written[n]
  BY DEF Record
<1>. HIDE DEF written
<1>7. Holds(written[n], n, <<>>, piece, end)
  <2>. HIDE DEF piece, end
  <2>. QED
    BY <1>1, <1>2, <1>3, <1>5, Joined
<1>8. /\ IsSeq(written[n]) /\ Len(written[n]) = EndOf(layout, n)
      /\ \A k \in 1 .. n : \A i \in 1 .. SizeOf[layout[k].kind] :
            /\ EndOf(layout, k - 1) \in Nat
            /\ EndOf(layout, k - 1) + i <= EndOf(layout, n)
            /\ written[n][EndOf(layout, k - 1) + i] = piece[k][i]
  <2>. HIDE DEF piece, end
  <2>. QED
    BY <1>2, <1>3, <1>7 DEF Holds
<1>. QED
  BY <1>6, <1>8

\* Each byte of a value tells its place.
LEMMA BytesAre ==
    ASSUME NEW v, NEW size \in Nat
    PROVE  /\ IsSeq(Bytes(v, size)) /\ Len(Bytes(v, size)) = size
           /\ \A i \in 1 .. size : Bytes(v, size)[i] = <<v, i>>
<1>1. Bytes(v, size) = [i \in 1 .. size |-> Bytes(v, size)[i]]
  BY DEF Bytes
<1>2. IsSeq(Bytes(v, size)) /\ Len(Bytes(v, size)) = size
  BY <1>1, Listed
<1>. QED
  BY <1>2 DEF Bytes

\* A header tells the version and, in its last bytes, the type.
LEMMA HeaderIs ==
    ASSUME NEW version, NEW type
    PROVE  LET u32 == SizeOf["u32"]
               u16 == SizeOf["u16"]
               h == Header(version, type)
           IN  /\ IsSeq(h) /\ Len(h) = HeaderSize
               /\ h[u32 + 1] = <<Num("Version", version), 1>>
               /\ \A i \in 1 .. u16 : h[u32 + u16 + i] = <<Num(type, 0), i>>
<1>. DEFINE u32 == SizeOf["u32"]
            u16 == SizeOf["u16"]
            a == Bytes(Num("Magic", 0), u32)
            b == Bytes(Num("Version", version), u16)
            c == Bytes(Num(type, 0), u16)
<1>1. u32 \in Nat /\ u16 \in Nat /\ u32 > 0 /\ u16 > 0
  BY Sizes DEF Kind, Opaque
<1>2. /\ IsSeq(a) /\ IsSeq(b) /\ IsSeq(c)
      /\ Len(a) = u32 /\ Len(b) = u16 /\ Len(c) = u16
      /\ b[1] = <<Num("Version", version), 1>>
      /\ \A i \in 1 .. u16 : c[i] = <<Num(type, 0), i>>
  <2>. HIDE DEF u32, u16
  <2>. QED
    BY <1>1, BytesAre
<1>3. Header(version, type) = (a \o b) \o c
  BY DEF Header
<1>4. HeaderSize = u32 + 2 * u16
  BY DEF HeaderSize
<1>. HIDE DEF a, b, c, u32, u16
<1>5. IsSeq(a \o b) /\ Len(a \o b) = u32 + u16 /\ (a \o b)[u32 + 1] = b[1]
  <2>1. /\ IsSeq(a \o b) /\ Len(a \o b) = Len(a) + Len(b)
        /\ \A i \in 1 .. Len(b) : (a \o b)[Len(a) + i] = b[i]
    <3>1. IsSeq(a) /\ IsSeq(b)
      BY <1>2
    <3>. QED
      BY <3>1, Join
  <2>. QED
    BY <2>1, <1>1, <1>2
<1>. DEFINE h == (a \o b) \o c
<1>6. /\ IsSeq(h) /\ Len(h) = HeaderSize
      /\ h[u32 + 1] = b[1]
      /\ \A i \in 1 .. u16 : h[u32 + u16 + i] = c[i]
  <2>. DEFINE d == a \o b
  <2>1. IsSeq(d) /\ IsSeq(c) /\ Len(d) = u32 + u16
    BY <1>2, <1>5
  <2>. HIDE DEF d
  <2>2. /\ IsSeq(d \o c) /\ Len(d \o c) = Len(d) + Len(c)
        /\ \A i \in 1 .. Len(d) : (d \o c)[i] = d[i]
        /\ \A i \in 1 .. Len(c) : (d \o c)[Len(d) + i] = c[i]
    BY <2>1, Join
  <2>3. /\ IsSeq(d \o c) /\ Len(d \o c) = HeaderSize
        /\ (d \o c)[u32 + 1] = d[u32 + 1]
        /\ \A i \in 1 .. u16 : (d \o c)[u32 + u16 + i] = c[i]
    <3>1. u32 + 1 \in 1 .. Len(d) /\ Len(d) + Len(c) = HeaderSize
      BY <2>1, <1>1, <1>2, <1>4
    <3>. HIDE DEF h
    <3>. QED
      BY <2>1, <2>2, <3>1, <1>2
  <2>. QED
    BY <2>3, <1>5 DEF d
<1>. QED
  BY <1>2, <1>3, <1>6 DEF u32, u16

-----------------------------------------------------------------------------
(* What is read *)

\* What the bytes of a field are taken for, and those after the p-th byte of b.
Taken(f, raw) == IF f.kind \in Text THEN CString(raw) ELSE Value(raw)
FieldAt(b, p, f) == Taken(f, [j \in 1 .. SizeOf[f.kind] |-> b[p + j]])

\* The values, the structs and the readers of b.
Values(b) == {FieldAt(b, p, f) : p \in Nat, f \in Field}
Structs(b) == UNION {[N -> Values(b)] : N \in SUBSET Name}
Readers(b, M) == [b : {b}, i : Nat, err : BOOLEAN, m : M]

\* A field that is put is there, and nothing else is lost.
LEMMA PutIs ==
    ASSUME NEW b, NEW m \in Structs(b), NEW p \in Nat, NEW f \in Field,
           NEW v, v = FieldAt(b, p, f)
    PROVE  /\ Put(m, f.name, v) \in Structs(b)
           /\ f.name \in DOMAIN Put(m, f.name, v) /\ Put(m, f.name, v)[f.name] = v
           /\ \A x \in DOMAIN m : /\ x \in DOMAIN Put(m, f.name, v)
                                  /\ x # f.name => Put(m, f.name, v)[x] = m[x]
<1>. DEFINE q == Put(m, f.name, v)
<1>1. v \in Values(b) /\ f.name \in Name
  BY DEF Field, Values
<1>2. PICK N \in SUBSET Name : m \in [N -> Values(b)]
  BY DEF Structs
<1>3. q \in [N \cup {f.name} -> Values(b)] /\ N \cup {f.name} \in SUBSET Name
  BY <1>1, <1>2 DEF Put
<1>4. q \in Structs(b)
  BY <1>3 DEF Structs
<1>5. /\ f.name \in DOMAIN q /\ q[f.name] = v
      /\ \A x \in DOMAIN m : x \in DOMAIN q /\ (x # f.name => q[x] = m[x])
  BY DEF Put
<1>. HIDE DEF q
<1>6. q \in Structs(b) /\ f.name \in DOMAIN q /\ q[f.name] = v
      /\ \A x \in DOMAIN m : x \in DOMAIN q /\ (x # f.name => q[x] = m[x])
  BY <1>4, <1>5
<1>. QED
  BY <1>6 DEF q

\* A field that is read at all lies within the bytes there are.
LEMMA ReadFieldIs ==
    ASSUME NEW b, IsSeq(b), NEW r \in Readers(b, Structs(b)), NEW f \in Field
    PROVE  LET s == ReadField(r, f)
           IN  /\ s \in Readers(b, Structs(b))
               /\ ~s.err =>
                     /\ ~r.err
                     /\ s.i = r.i + SizeOf[f.kind] /\ s.i <= Len(b)
                     /\ s.m = Put(r.m, f.name, FieldAt(b, r.i, f))
<1>. DEFINE M == Structs(b)
            n == SizeOf[f.kind]
            s == ReadField(r, f)
            raw == [j \in 1 .. n |-> IF r.i + j <= Len(r.b) THEN r.b[r.i + j]
                                     ELSE Bytes(Num("beyond", 0), 1)[1]]
<1>1. /\ r.b = b /\ r.i \in Nat /\ r.err \in BOOLEAN /\ r.m \in M
      /\ r = [b |-> b, i |-> r.i, err |-> r.err, m |-> r.m]
  <2>1. r \in Readers(b, M)
    OBVIOUS
  <2>. HIDE DEF M
  <2>. QED
    BY <2>1 DEF Readers
<1>2. n \in Nat /\ n > 0 /\ Len(b) \in Nat
  BY Sizes, SeqIs DEF Field
<1>3. CASE r.err \/ ~Need(r, n)
  <2>1. s = [r EXCEPT !.err = TRUE]
    BY <1>3 DEF ReadField
  <2>2. s = [b |-> b, i |-> r.i, err |-> TRUE, m |-> r.m]
    BY <1>1, <2>1
  <2>. HIDE DEF M, s
  <2>. QED
    BY <1>1, <2>2 DEF Readers, M, s
<1>4. CASE ~r.err /\ Need(r, n)
  <2>. DEFINE v == FieldAt(b, r.i, f)
  <2>1. r.i + n <= Len(b)
    BY <1>1, <1>2, <1>4 DEF Need
  <2>2. raw = [j \in 1 .. n |-> b[r.i + j]]
    BY <1>1, <1>2, <2>1
  <2>3. s = [r EXCEPT !.i = @ + n, !.m = Put(@, f.name, Taken(f, raw))]
    BY <1>4 DEF ReadField, Taken
  <2>4. v = Taken(f, raw)
    BY <2>2 DEF FieldAt
  <2>. HIDE DEF v, n, raw, s
  <2>5. s = [b |-> b, i |-> r.i + n, err |-> FALSE, m |-> Put(r.m, f.name, v)]
    BY <1>1, <1>4, <2>3, <2>4
  <2>6. Put(r.m, f.name, v) \in M
    BY <1>1, PutIs DEF v
  <2>7. r.i + n \in Nat
    BY <1>1, <1>2
  <2>8. s \in Readers(b, M)
    <3>. HIDE DEF M
    <3>. QED
      BY <2>5, <2>6, <2>7 DEF Readers
  <2>9. /\ s.i = r.i + n /\ s.i <= Len(b) /\ ~r.err
        /\ s.m = Put(r.m, f.name, v)
    BY <1>4, <2>1, <2>5
  <2>. QED
    BY <2>8, <2>9 DEF s, v, n
<1>. QED
  BY <1>3, <1>4

\* s has read the first k fields of the layout, from where r is; of fields with
\* the same name it holds the last.
HasRead(s, k, b, r, layout) ==
    /\ s \in Readers(b, Structs(b))
    /\ ~s.err =>
          /\ ~r.err
          /\ s.i = r.i + EndOf(layout, k) /\ (r.i <= Len(b) => s.i <= Len(b))
          /\ \A j \in 1 .. k :
                /\ layout[j].name \in DOMAIN s.m
                /\ \/ \E l \in j + 1 .. k : layout[l].name = layout[j].name
                   \/ s.m[layout[j].name]
                         = FieldAt(b, r.i + EndOf(layout, j - 1), layout[j])

\* What a reader has.
LEMMA ReadersAre ==
    ASSUME NEW b, NEW M, NEW r \in Readers(b, M)
    PROVE  r.b = b /\ r.i \in Nat /\ r.err \in BOOLEAN /\ r.m \in M
BY DEF Readers

\* The next field is read where the ones before it end.
LEMMA HasReadNext ==
    ASSUME NEW b, IsSeq(b), NEW r \in Readers(b, Structs(b)),
           NEW layout, IsLayout(layout), NEW k \in 1 .. Len(layout),
           NEW s, HasRead(s, k - 1, b, r, layout)
    PROVE  HasRead(ReadField(s, layout[k]), k, b, r, layout)
<1>. DEFINE f == layout[k]
            t == ReadField(s, f)
            p == s.i
            v == FieldAt(b, p, f)
<1>1. s \in Readers(b, Structs(b)) /\ f \in Field
  BY FieldSizes DEF HasRead
<1>2. /\ t \in Readers(b, Structs(b))
      /\ ~t.err => /\ ~s.err
                   /\ t.i = s.i + SizeOf[f.kind] /\ t.i <= Len(b)
                   /\ t.m = Put(s.m, f.name, v)
  <2>. HIDE DEF f
  <2>. QED
    BY <1>1, ReadFieldIs
<1>3. /\ s.i \in Nat /\ s.m \in Structs(b) /\ r.i \in Nat
  BY <1>1, ReadersAre
<1>4. SUFFICES ASSUME ~t.err
               PROVE  /\ ~r.err
                      /\ t.i = r.i + EndOf(layout, k) /\ t.i <= Len(b)
                      /\ \A j \in 1 .. k :
                            /\ layout[j].name \in DOMAIN t.m
                            /\ \/ \E l \in j + 1 .. k : layout[l].name = layout[j].name
                               \/ t.m[layout[j].name]
                                     = FieldAt(b, r.i + EndOf(layout, j - 1), layout[j])
  <2>. HIDE DEF t
  <2>1. HasRead(t, k, b, r, layout)
    BY <1>2, <1>4 DEF HasRead
  <2>. QED
    BY <2>1 DEF t
<1>5. /\ ~r.err /\ s.i = r.i + EndOf(layout, k - 1)
      /\ \A j \in 1 .. k - 1 :
            /\ layout[j].name \in DOMAIN s.m
            /\ \/ \E l \in j + 1 .. k - 1 : layout[l].name = layout[j].name
               \/ s.m[layout[j].name]
                     = FieldAt(b, r.i + EndOf(layout, j - 1), layout[j])
  <2>. HIDE DEF t, f
  <2>. QED
    BY <1>2, <1>4 DEF HasRead
<1>6. /\ EndOf(layout, k) = EndOf(layout, k - 1) + SizeOf[f.kind]
      /\ EndOf(layout, k - 1) \in Nat /\ SizeOf[f.kind] \in Nat
  <2>1. k - 1 \in 0 .. Len(layout) /\ Len(layout) \in Nat
    BY FieldSizes
  <2>. QED
    BY <2>1, EndOfIs, FieldSizes
<1>7. /\ f.name \in DOMAIN t.m /\ t.m[f.name] = v
      /\ \A x \in DOMAIN s.m : x \in DOMAIN t.m /\ (x # f.name => t.m[x] = s.m[x])
  <2>. HIDE DEF f
  <2>. DEFINE m == s.m
              q == Put(m, f.name, v)
  <2>1. /\ f.name \in DOMAIN q /\ q[f.name] = v
        /\ \A x \in DOMAIN m : x \in DOMAIN q /\ (x # f.name => q[x] = m[x])
    <3>1. m \in Structs(b) /\ p \in Nat /\ f \in Field /\ v = FieldAt(b, p, f)
      BY <1>1, <1>3
    <3>. HIDE DEF v, p, m
    <3>. QED
      BY <3>1, PutIs
  <2>2. t.m = q
    BY <1>2, <1>4
  <2>. HIDE DEF t, q
  <2>. QED
    BY <2>1, <2>2
<1>. HIDE DEF t, v
<1>8. ASSUME NEW j \in 1 .. k
      PROVE  /\ layout[j].name \in DOMAIN t.m
             /\ \/ \E l \in j + 1 .. k : layout[l].name = layout[j].name
                \/ t.m[layout[j].name]
                      = FieldAt(b, r.i + EndOf(layout, j - 1), layout[j])
  <2>1. CASE j = k
    BY <2>1, <1>5, <1>7 DEF v
  <2>2. CASE j # k
    <3>1. j \in 1 .. k - 1
      BY <2>2
    <3>2. CASE f.name = layout[j].name
      BY <3>1, <3>2, <1>5, <1>7
    <3>3. CASE f.name # layout[j].name
      <4>1. \A l \in j + 1 .. k - 1 : l \in j + 1 .. k
        OBVIOUS
      <4>. HIDE DEF f
      <4>. QED
        BY <3>1, <3>3, <4>1, <1>5, <1>7
    <3>. QED
      BY <3>2, <3>3
  <2>. QED
    BY <2>1, <2>2
<1>9. t.i = r.i + EndOf(layout, k) /\ t.i <= Len(b)
  <2>. HIDE DEF f
  <2>. QED
    BY <1>2, <1>3, <1>4, <1>5, <1>6
<1>. QED
  BY <1>5, <1>8, <1>9

\* By induction over the fields, a record is read to its end.
LEMMA ReadRecordIs ==
    ASSUME NEW b, IsSeq(b), NEW r \in Readers(b, Structs(b)),
           NEW layout, IsLayout(layout)
    PROVE  HasRead(ReadRecord(r, layout), Len(layout), b, r, layout)
<1>. DEFINE n == Len(layout)
            S == Readers(b, Structs(b))
            step == [p \in (1 .. n) \X S |-> ReadField(p[2], layout[p[1]])]
            Def(h) == [k \in 0 .. n |-> IF k = 0 THEN r
                                        ELSE ReadField(h[k - 1], layout[k])]
            read == CHOOSE h : h = Def(h)
<1>1. n \in Nat /\ \A k \in 1 .. n : layout[k] \in Field
  BY FieldSizes
<1>2. step \in [(1 .. n) \X S -> S]
  <2>1. \A k \in 1 .. n, s \in S : ReadField(s, layout[k]) \in S
    BY <1>1, ReadFieldIs
  <2>. HIDE DEF S, n
  <2>. QED
    BY <2>1
<1>3. PICK g : Goes(g, S, r, n, step)
  <2>1. r \in S
    OBVIOUS
  <2>. HIDE DEF S, n, step
  <2>. QED
    BY <2>1, <1>1, <1>2, Recursion
<1>4. g = Def(g)
  <2>1. ASSUME NEW k \in 1 .. n PROVE g[k] = ReadField(g[k - 1], layout[k])
    <3>1. g[k - 1] \in S /\ g[k] = step[<<k, g[k - 1]>>]
      <4>. HIDE DEF S, n, step
      <4>1. k - 1 \in 0 .. n
        BY <1>1
      <4>. QED
        BY <1>3, <4>1 DEF Goes
    <3>2. <<k, g[k - 1]>> \in (1 .. n) \X S
      BY <3>1
    <3>. HIDE DEF S, n
    <3>. QED
      BY <3>1, <3>2
  <2>2. \A k \in 0 .. n : k = 0 \/ k \in 1 .. n
    BY <1>1
  <2>. HIDE DEF S, n, step
  <2>. QED
    BY <1>3, <2>1, <2>2 DEF Goes
<1>5. read = Def(read)
  <2>. HIDE DEF Def
  <2>. QED
    BY <1>4
<1>6. ReadRecord(r, layout) = read[n]
  BY DEF ReadRecord
<1>. HIDE DEF read, step
<1>7. /\ read[0] = r
      /\ \A k \in 1 .. n : read[k] = ReadField(read[k - 1], layout[k])
  BY <1>1, <1>5
<1>. HIDE DEF Def
<1>8. \A k \in 0 .. n : HasRead(read[k], k, b, r, layout)
  <2>. DEFINE A == {k \in 0 .. n : HasRead(read[k], k, b, r, layout)}
  <2>1. 0 \in A
    <3>1. 0 \in 0 .. n /\ r.i \in Nat
      BY <1>1, ReadersAre
    <3>2. r.i = r.i + EndOf(layout, 0)
      BY <3>1, EndOfIs
    <3>3. HasRead(r, 0, b, r, layout)
      BY <3>2 DEF HasRead
    <3>. QED
      BY <3>1, <3>3, <1>7
  <2>2. ASSUME NEW k \in 1 .. n, k - 1 \in A PROVE k \in A
    <3>1. HasRead(read[k - 1], k - 1, b, r, layout) /\ k \in 0 .. n
      BY <2>2
    <3>2. HasRead(ReadField(read[k - 1], layout[k]), k, b, r, layout)
      BY <3>1, HasReadNext
    <3>. QED
      BY <3>1, <3>2, <1>7
  <2>3. \A k \in 0 .. n : k \in A
    <3>. HIDE DEF A, n
    <3>. QED
      BY <1>1, <2>1, <2>2, Induction
  <2>. QED
    BY <2>3
<1>9. n \in 0 .. n
  BY <1>1
<1>. QED
  BY <1>6, <1>8, <1>9

-----------------------------------------------------------------------------
(* Messages *)

\* A message is read as it is written, and no two of its fields share a name.
Types == {"Hello", "Welcome", "State", "Snapshot", "Bye", "Chat", "Ping", "Pong", "Kick"}

\* What the encoders write is what the decoders read.
LEMMA Layouts ==
    /\ \A type \in Types : /\ IsLayout(Written[type])
                           /\ FieldsRead[type] = Written[type]
    /\ IsLayout(EntityWritten) /\ EntityRead = EntityWritten
<1>1. /\ FieldsRead = Written
      /\ EntityRead = EntityWritten
  BY DEF FieldsRead, Written, WelcomeRead, EntityRead, EntityWritten
<1>2. /\ Transform \in Field /\ Telemetry \in Field /\ Padding \in Field
      /\ F("ID", "u32") \in Field /\ F("PlayerID", "u32") \in Field
      /\ F("Seq", "u32") \in Field /\ F("Token", "u32") \in Field
      /\ F("Flags", "u16") \in Field /\ F("Count", "u16") \in Field
      /\ F("TickRateHz", "u16") \in Field /\ F("EchoDelayMs", "u16") \in Field
      /\ F("ServerTimeMs", "u32") \in Field /\ F("ClientTimeMs", "u32") \in Field
      /\ F("LastClientTimeMs", "u32") \in Field
      /\ F("SampleTimeMs", "u32") \in Field
      /\ F("PingMs", "u16") \in Field /\ F("SelfPingMs", "u16") \in Field
      /\ F("Name", "name") \in Field /\ F("Car", "name") \in Field
      /\ F("Text", "text") \in Field /\ F("Reason", "reason") \in Field
  BY DEF Transform, Telemetry, Padding, F, Field, Name, Kind, Text, Opaque
<1>3. EntityWritten \in Seq(Field)
  BY <1>2 DEF EntityWritten
<1>4. ASSUME NEW type \in Types PROVE Written[type] \in Seq(Field)
  <2>1. Written["Hello"] \in Seq(Field) /\ Written["Welcome"] \in Seq(Field)
    BY <1>2 DEF Written
  <2>2. Written["State"] \in Seq(Field) /\ Written["Snapshot"] \in Seq(Field)
    BY <1>2 DEF Written
  <2>3. Written["Bye"] \in Seq(Field) /\ Written["Chat"] \in Seq(Field)
    BY <1>2 DEF Written
  <2>4. /\ Written["Ping"] \in Seq(Field) /\ Written["Pong"] \in Seq(Field)
        /\ Written["Kick"] \in Seq(Field)
    BY <1>2 DEF Written
  <2>. QED
    BY <2>1, <2>2, <2>3, <2>4 DEF Types
<1>. QED
  BY <1>1, <1>3, <1>4 DEF IsLayout

\* b begins with a message of the type, the k-th field of which is field[k].
Begins(b, type, field) ==
    LET u32 == SizeOf["u32"]
        u16 == SizeOf["u16"]
        layout == Written[type]
    IN  /\ IsSeq(b) /\ HeaderSize + EndOf(layout, Len(layout)) <= Len(b)
        /\ b[u32 + 1] = <<Num("Version", 3), 1>>
        /\ b[HeaderSize] = <<Num(type, 0), u16>>
        /\ \A k \in 1 .. Len(layout) :
              /\ field[k] = [i \in 1 .. SizeOf[layout[k].kind] |-> field[k][i]]
              /\ \A i \in 1 .. SizeOf[layout[k].kind] :
                    b[HeaderSize + EndOf(layout, k - 1) + i] = field[k][i]

\* b is that message and nothing more.
Message(b, type, field) ==
    Begins(b, type, field) /\ Len(b) = HeaderSize + EndOf(Written[type], Len(Written[type]))

\* A body after its header is a message.
LEMMA BeginsWith ==
    ASSUME NEW type \in Types, NEW body, IsSeq(body), NEW field,
           EndOf(Written[type], Len(Written[type])) <= Len(body),
           \A k \in 1 .. Len(Written[type]) :
              /\ field[k] = [i \in 1 .. SizeOf[Written[type][k].kind] |-> field[k][i]]
              /\ \A i \in 1 .. SizeOf[Written[type][k].kind] :
                    /\ EndOf(Written[type], k - 1) \in Nat
                    /\ EndOf(Written[type], k - 1) + i <= Len(body)
                    /\ body[EndOf(Written[type], k - 1) + i] = field[k][i]
    PROVE  /\ Begins(Header(3, type) \o body, type, field)
           /\ Len(Header(3, type) \o body) = HeaderSize + Len(body)
<1>. DEFINE u32 == SizeOf["u32"]
            u16 == SizeOf["u16"]
            layout == Written[type]
            h == Header(3, type)
            b == h \o body
<1>1. /\ u32 \in Nat /\ u16 \in Nat /\ u32 > 0 /\ u16 > 0
      /\ HeaderSize = u32 + 2 * u16
  BY Sizes DEF Kind, Opaque, HeaderSize
<1>2. /\ IsSeq(h) /\ Len(h) = HeaderSize
      /\ h[u32 + 1] = <<Num("Version", 3), 1>>
      /\ \A i \in 1 .. u16 : h[u32 + u16 + i] = <<Num(type, 0), i>>
  BY HeaderIs
<1>3. IsLayout(layout)
  BY Layouts
<1>4. Len(layout) \in Nat /\ EndOf(layout, Len(layout)) \in Nat
  <2>1. Len(layout) \in Nat
    BY <1>3, FieldSizes
  <2>2. Len(layout) \in 0 .. Len(layout)
    BY <2>1
  <2>. QED
    BY <1>3, <2>1, <2>2, EndOfIs
<1>. HIDE DEF h
<1>5. /\ IsSeq(b) /\ Len(body) \in Nat /\ Len(b) = HeaderSize + Len(body)
      /\ \A i \in 1 .. HeaderSize : b[i] = h[i]
      /\ \A i \in 1 .. Len(body) : b[HeaderSize + i] = body[i]
  <2>1. /\ IsSeq(h \o body) /\ Len(body) \in Nat
        /\ Len(h \o body) = Len(h) + Len(body)
        /\ \A i \in 1 .. Len(h) : (h \o body)[i] = h[i]
        /\ \A i \in 1 .. Len(body) : (h \o body)[Len(h) + i] = body[i]
    <3>1. IsSeq(h) /\ IsSeq(body)
      BY <1>2
    <3>. QED
      BY <3>1, Join
  <2>. QED
    BY <2>1, <1>2
<1>. HIDE DEF b
<1>6. /\ b[u32 + 1] = <<Num("Version", 3), 1>>
      /\ b[HeaderSize] = <<Num(type, 0), u16>>
  <2>1. u32 + 1 \in 1 .. HeaderSize /\ HeaderSize \in 1 .. HeaderSize
    BY <1>1
  <2>2. h[HeaderSize] = <<Num(type, 0), u16>>
    <3>1. u16 \in 1 .. u16 /\ HeaderSize = u32 + u16 + u16
      BY <1>1
    <3>. QED
      BY <3>1, <1>2
  <2>. QED
    BY <2>1, <2>2, <1>2, <1>5
<1>7. HeaderSize + EndOf(layout, Len(layout)) <= Len(b)
  BY <1>1, <1>4, <1>5
<1>8. ASSUME NEW k \in 1 .. Len(layout), NEW i \in 1 .. SizeOf[layout[k].kind]
      PROVE  b[HeaderSize + EndOf(layout, k - 1) + i] = field[k][i]
  <2>1. /\ EndOf(layout, k - 1) \in Nat
        /\ EndOf(layout, k - 1) + i <= Len(body)
        /\ body[EndOf(layout, k - 1) + i] = field[k][i]
    OBVIOUS
  <2>2. SizeOf[layout[k].kind] \in Nat
    BY <1>3, FieldSizes
  <2>3. EndOf(layout, k - 1) + i \in 1 .. Len(body)
    BY <2>1, <2>2, <1>5
  <2>4. HeaderSize + EndOf(layout, k - 1) + i = HeaderSize + (EndOf(layout, k - 1) + i)
    BY <2>1, <2>2, <1>1
  <2>. QED
    BY <2>1, <2>3, <2>4, <1>5
<1>9. Begins(b, type, field)
  BY <1>5, <1>6, <1>7, <1>8 DEF Begins
<1>. QED
  BY <1>5, <1>9 DEF b, h

\* The k-th field of a layout is the last of its name.
LastOf(layout, k) ==
    \A l \in k + 1 .. Len(layout) : layout[l].name # layout[k].name

\* A new reader is one.
LEMMA ReaderIs ==
    ASSUME NEW b, NEW i \in Nat
    PROVE  Reader(b, i) \in Readers(b, Structs(b))
<1>1. <<>> \in [{} -> Values(b)]
  OBVIOUS
<1>2. {} \in SUBSET Name
  OBVIOUS
<1>3. <<>> \in Structs(b)
  BY <1>1, <1>2, Zenon DEF Structs
<1>. DEFINE M == Structs(b)
<1>4. <<>> \in M
  BY <1>3
<1>. HIDE DEF M
<1>5. Reader(b, i) \in Readers(b, M)
  BY <1>4 DEF Reader, Readers
<1>. QED
  BY <1>5 DEF M

\* The fields of a layout end where it ends, or before.
LEMMA FieldsEnd ==
    ASSUME NEW layout, IsLayout(layout), NEW k \in 1 .. Len(layout)
    PROVE  /\ EndOf(layout, k - 1) \in Nat /\ EndOf(layout, k) \in Nat
           /\ EndOf(layout, Len(layout)) \in Nat
           /\ EndOf(layout, k) = EndOf(layout, k - 1) + SizeOf[layout[k].kind]
           /\ EndOf(layout, k) <= EndOf(layout, Len(layout))
           /\ SizeOf[layout[k].kind] \in Nat /\ SizeOf[layout[k].kind] > 0
<1>1. Len(layout) \in Nat /\ SizeOf[layout[k].kind] \in Nat /\ SizeOf[layout[k].kind] > 0
  BY FieldSizes
<1>2. /\ k - 1 \in 0 .. Len(layout) /\ k \in 0 .. Len(layout)
      /\ Len(layout) \in 0 .. Len(layout) /\ k <= Len(layout)
  BY <1>1
<1>3. /\ EndOf(layout, k - 1) \in Nat /\ EndOf(layout, k) \in Nat
      /\ EndOf(layout, Len(layout)) \in Nat
      /\ EndOf(layout, k) = EndOf(layout, k - 1) + SizeOf[layout[k].kind]
  BY <1>2, EndOfIs
<1>4. EndOf(layout, k) <= EndOf(layout, Len(layout))
  BY <1>2, EndsGrow
<1>. QED
  BY <1>1, <1>3, <1>4

\* The end of a field, by its number.
LEMMA EndOfNext ==
    ASSUME NEW layout, IsLayout(layout), NEW k \in 1 .. Len(layout),
           NEW j \in Nat, k = j + 1
    PROVE  EndOf(layout, k) = EndOf(layout, j) + SizeOf[layout[k].kind]
<1>1. j = k - 1
  BY FieldSizes
<1>. QED
  BY <1>1, EndOfIs

\* The last field ends.
LEMMA LayoutEnds ==
    ASSUME NEW layout, IsLayout(layout)
    PROVE  Len(layout) \in Nat /\ EndOf(layout, Len(layout)) \in Nat
<1>1. Len(layout) \in Nat
  BY FieldSizes
<1>2. Len(layout) \in 0 .. Len(layout)
  BY <1>1
<1>. QED
  BY <1>1, <1>2, EndOfIs

\* A reader without an error has read all fields of n bytes.
WhollyRead(s, n, layout, field) ==
    ~s.err =>
        /\ s.i = HeaderSize + EndOf(layout, Len(layout)) /\ s.i <= n
        /\ \A k \in 1 .. Len(layout) :
              LastOf(layout, k) => s.m[layout[k].name] = Taken(layout[k], field[k])

\* The type is in the last bytes of the header.
LEMMA TypeIs ==
    ASSUME NEW b, NEW type, NEW last, b[HeaderSize] = <<Num(type, 0), last>>
    PROVE  TypeOf(b) = type
<1>1. b[HeaderSize][1] = Num(type, 0)
  OBVIOUS
<1>2. Num(type, 0)[1] = type
  BY DEF Num
<1>. QED
  BY <1>1, <1>2 DEF TypeOf

\* Of a message that is cut anywhere, what can be read at all is the whole
\* message, each field as it was written.
LEMMA BeginsRead ==
    ASSUME NEW type \in Types, NEW b, NEW field, Begins(b, type, field),
           NEW p, NEW n, Prefix(p, n, b), HeaderOK(p),
           NEW layout, layout = Written[type],
           NEW s, s = ReadRecord(Reader(p, HeaderSize), FieldsRead[type])
    PROVE  /\ TypeOf(p) = type /\ IsSeq(p) /\ Len(p) = n
           /\ s \in Readers(p, Structs(p))
           /\ WhollyRead(s, n, layout, field)
<1>. DEFINE r == Reader(p, HeaderSize)
<1>1. /\ IsLayout(layout) /\ FieldsRead[type] = layout
      /\ HeaderSize \in Nat /\ HeaderSize > 0
  BY Layouts, Sizes
<1>2. /\ IsSeq(b) /\ Len(b) \in Nat
      /\ HeaderSize + EndOf(layout, Len(layout)) <= Len(b)
      /\ b[HeaderSize] = <<Num(type, 0), SizeOf["u16"]>>
  <2>1. IsSeq(b)
    BY DEF Begins
  <2>. QED
    BY <2>1, SeqIs DEF Begins
<1>3. /\ IsSeq(p) /\ Len(p) = n /\ \A i \in 1 .. n : p[i] = b[i]
  <2>. QED
    BY <1>2, Cut DEF Prefix
<1>4. n >= HeaderSize /\ n \in Nat
  BY <1>1, <1>2, <1>3 DEF HeaderOK, Prefix
<1>5. TypeOf(p) = type
  <2>1. HeaderSize \in 1 .. n
    BY <1>1, <1>4
  <2>2. p[HeaderSize] = <<Num(type, 0), SizeOf["u16"]>>
    BY <2>1, <1>2, <1>3
  <2>. QED
    BY <2>2, TypeIs
<1>6. r \in Readers(p, Structs(p)) /\ r.i = HeaderSize
  BY <1>1, ReaderIs DEF Reader
<1>7. HasRead(s, Len(layout), p, r, layout)
  <2>0. s = ReadRecord(r, layout)
    BY <1>1
  <2>. HIDE DEF r
  <2>. QED
    BY <2>0, <1>1, <1>3, <1>6, ReadRecordIs
<1>8. ASSUME ~s.err, NEW k \in 1 .. Len(layout), LastOf(layout, k)
      PROVE  s.m[layout[k].name] = Taken(layout[k], field[k])
  <2>. DEFINE size == SizeOf[layout[k].kind]
              o == HeaderSize + EndOf(layout, k - 1)
  <2>1. /\ HeaderSize + EndOf(layout, Len(layout)) <= n
        /\ s.m[layout[k].name] = FieldAt(p, o, layout[k])
    <3>. HIDE DEF r
    <3>1. /\ s.i = HeaderSize + EndOf(layout, Len(layout)) /\ s.i <= n
          /\ \/ \E l \in k + 1 .. Len(layout) : layout[l].name = layout[k].name
             \/ s.m[layout[k].name] = FieldAt(p, o, layout[k])
      BY <1>3, <1>4, <1>6, <1>7, <1>8 DEF HasRead
    <3>. QED
      BY <3>1, <1>8 DEF LastOf
  <2>2. /\ EndOf(layout, k - 1) \in Nat /\ size \in Nat
        /\ EndOf(layout, k - 1) + size <= EndOf(layout, Len(layout))
        /\ EndOf(layout, Len(layout)) \in Nat
    <3>. QED
      BY <1>1, FieldsEnd
  <2>3. /\ field[k] = [i \in 1 .. size |-> field[k][i]]
        /\ \A i \in 1 .. size : b[o + i] = field[k][i]
    BY DEF Begins
  <2>. HIDE DEF r, size
  <2>4. \A i \in 1 .. size : o + i \in 1 .. n
    BY <2>1, <2>2, <1>1, <1>4
  <2>5. \A i \in 1 .. size : p[o + i] = field[k][i]
    BY <2>3, <2>4, <1>3
  <2>6. [i \in 1 .. size |-> p[o + i]] = [i \in 1 .. size |-> field[k][i]]
    BY <2>5
  <2>7. FieldAt(p, o, layout[k]) = Taken(layout[k], field[k])
    <3>. HIDE DEF o
    <3>. QED
      BY <2>3, <2>6 DEF FieldAt, size
  <2>. QED
    BY <2>1, <2>7
<1>9. /\ s \in Readers(p, Structs(p))
      /\ ~s.err => s.i = HeaderSize + EndOf(layout, Len(layout)) /\ s.i <= n
  <2>. HIDE DEF r
  <2>. QED
    BY <1>3, <1>4, <1>6, <1>7 DEF HasRead
<1>. QED
  BY <1>3, <1>5, <1>8, <1>9 DEF WhollyRead

\* So is it with what Decode returns.
LEMMA DecodeIs ==
    ASSUME NEW type \in Types, NEW b, NEW field, Begins(b, type, field),
           NEW p, NEW n, Prefix(p, n, b), HeaderOK(p),
           Decode(p).ok
    PROVE  LET layout == Written[type]
           IN  /\ HeaderSize + EndOf(layout, Len(layout)) <= n
               /\ Decode(p).entities = <<>>
               /\ \A k \in 1 .. Len(layout) :
                     LastOf(layout, k)
                        => Decode(p).m[layout[k].name] = Taken(layout[k], field[k])
<1>. DEFINE layout == Written[type]
            s == ReadRecord(Reader(p, HeaderSize), FieldsRead[type])
<1>1. /\ TypeOf(p) = type /\ IsSeq(p) /\ Len(p) = n
      /\ s \in Readers(p, Structs(p))
      /\ WhollyRead(s, n, layout, field)
  <2>1. layout = Written[type] /\ s = ReadRecord(Reader(p, HeaderSize), FieldsRead[type])
    OBVIOUS
  <2>. HIDE DEF s, layout
  <2>. QED
    BY <2>1, BeginsRead
<1>2. Decode(p) = Result(s, <<>>)
  BY <1>1 DEF Decode
<1>. HIDE DEF s, layout
<1>3. ~s.err /\ Decode(p).m = s.m /\ Decode(p).entities = <<>>
  BY <1>2 DEF Result, Refused
<1>4. /\ HeaderSize + EndOf(layout, Len(layout)) <= n
      /\ Decode(p).entities = <<>>
      /\ \A k \in 1 .. Len(layout) :
            LastOf(layout, k)
               => Decode(p).m[layout[k].name] = Taken(layout[k], field[k])
  BY <1>1, <1>3 DEF WhollyRead
<1>. QED
  BY <1>4 DEF layout

\* A message of another version is no message.
LEMMA OtherVersion ==
    ASSUME NEW type
    PROVE  ~HeaderOK(Header(2, type))
<1>. DEFINE u32 == SizeOf["u32"]
            o == HeaderSize - SizeOf["u16"]
            h == Header(2, type)
            g == Header(3, "Bye")
<1>1. /\ u32 \in Nat /\ u32 + 1 \in 1 .. o /\ o \in 0 .. HeaderSize
  BY Sizes DEF Kind, Opaque, HeaderSize
<1>2. /\ IsSeq(h) /\ Len(h) = HeaderSize /\ IsSeq(g) /\ Len(g) = HeaderSize
      /\ h[u32 + 1] = <<Num("Version", 2), 1>>
      /\ g[u32 + 1] = <<Num("Version", 3), 1>>
  BY HeaderIs
<1>3. SUFFICES ASSUME HeaderOK(h) PROVE FALSE
  OBVIOUS
<1>4. SubSeq(h, 1, o) = SubSeq(g, 1, o)
  BY <1>3 DEF HeaderOK
<1>. HIDE DEF h, g, o, u32
<1>5. h[u32 + 1] = g[u32 + 1]
  <2>1. o \in 0 .. Len(h) /\ o \in 0 .. Len(g)
    BY <1>1, <1>2
  <2>2. \A i \in 1 .. o : SubSeq(h, 1, o)[i] = h[i] /\ SubSeq(g, 1, o)[i] = g[i]
    BY <2>1, <1>2, Cut
  <2>. QED
    BY <2>2, <1>1, <1>4
<1>. QED
  BY <1>2, <1>5 DEF Num

-----------------------------------------------------------------------------
(* Texts *)

\* s is what is left of raw up to its first NUL.
TextOf(s, k, raw) ==
    /\ Prefix(s, k, raw)
    /\ \A i \in 1 .. k : raw[i] # NUL
    /\ k = Len(raw) \/ raw[k + 1] = NUL

\* Two sequences that agree everywhere are the same.
LEMMA SameSeq ==
    ASSUME NEW s, IsSeq(s), NEW t, IsSeq(t), Len(s) = Len(t),
           \A i \in 1 .. Len(s) : s[i] = t[i]
    PROVE  s = t
<1>1. s = [i \in 1 .. Len(s) |-> s[i]] /\ t = [i \in 1 .. Len(t) |-> t[i]]
  BY SeqIs
<1>. QED
  BY <1>1

\* A text without a NUL is the whole of it.
LEMMA WholeText ==
    ASSUME NEW s, IsSeq(s), \A i \in 1 .. Len(s) : s[i] # NUL
    PROVE  TextOf(s, Len(s), s)
<1>1. Len(s) \in 0 .. Len(s)
  BY SeqIs
<1>2. /\ IsSeq(SubSeq(s, 1, Len(s))) /\ Len(SubSeq(s, 1, Len(s))) = Len(s)
      /\ \A i \in 1 .. Len(s) : SubSeq(s, 1, Len(s))[i] = s[i]
  BY <1>1, Cut
<1>3. SubSeq(s, 1, Len(s)) = s
  <2>. DEFINE t == SubSeq(s, 1, Len(s))
  <2>1. IsSeq(t) /\ Len(t) = Len(s) /\ \A i \in 1 .. Len(t) : t[i] = s[i]
    BY <1>2
  <2>. HIDE DEF t
  <2>2. t = s
    BY <2>1, SameSeq
  <2>. QED
    BY <2>2 DEF t
<1>. QED
  BY <1>1, <1>3 DEF TextOf, Prefix

\* Where a text ends.
LEMMA CStringIs ==
    ASSUME NEW raw, IsSeq(raw)
    PROVE  \E k : TextOf(CString(raw), k, raw)
<1>. DEFINE I == {i \in 1 .. Len(raw) : raw[i] = NUL}
            n == IF I # {} THEN Min(I) ELSE 0
<1>1. CString(raw) = IF n = 0 THEN raw ELSE SubSeq(raw, 1, n - 1)
  BY DEF CString, SelectInSeq
<1>2. CASE I = {}
  <2>1. CString(raw) = raw /\ \A i \in 1 .. Len(raw) : raw[i] # NUL
    BY <1>1, <1>2
  <2>. QED
    BY <2>1, WholeText
<1>3. CASE I # {}
  <2>1. n \in I /\ \A i \in I : n <= i
    <3>1. I \in SUBSET Nat
      OBVIOUS
    <3>. HIDE DEF I
    <3>2. \E x \in I : \A y \in I : x <= y
      BY <1>3, <3>1, Smallest
    <3>. QED
      BY <1>3, <3>2 DEF Min
  <2>. DEFINE k == n - 1
  <2>. HIDE DEF n
  <2>2. /\ k \in 0 .. Len(raw) /\ n # 0 /\ raw[k + 1] = NUL
        /\ \A i \in 1 .. k : raw[i] # NUL
    <3>1. n \in 1 .. Len(raw) /\ raw[n] = NUL /\ Len(raw) \in Nat
      BY <2>1, SeqIs
    <3>2. \A i \in 1 .. k : i \in 1 .. Len(raw) /\ ~(n <= i)
      BY <3>1
    <3>. QED
      BY <2>1, <3>1, <3>2
  <2>3. TextOf(CString(raw), k, raw)
    BY <1>1, <2>2 DEF TextOf, Prefix
  <2>. QED
    BY <2>3
<1>. QED
  BY <1>2, <1>3

\* The characters of a text.
LEMMA TextIs ==
    ASSUME NEW raw, IsSeq(raw), NEW s, NEW k, TextOf(s, k, raw)
    PROVE  /\ IsSeq(s) /\ Len(s) = k /\ k \in 0 .. Len(raw) /\ Len(raw) \in Nat
           /\ \A i \in 1 .. k : s[i] = raw[i] /\ s[i] # NUL
<1>1. k \in 0 .. Len(raw) /\ s = SubSeq(raw, 1, k) /\ \A i \in 1 .. k : raw[i] # NUL
  BY DEF TextOf, Prefix
<1>. QED
  BY <1>1, Cut, SeqIs

\* A padded text fills its field and ends in it.
LEMMA PaddedIs ==
    ASSUME NEW s, NEW size \in Nat
    PROVE  /\ IsSeq(Padded(s, size)) /\ Len(Padded(s, size)) = size
           /\ \A i \in 1 .. size :
                 Padded(s, size)[i] = IF i <= Len(s) /\ i < size THEN s[i] ELSE NUL
<1>1. Padded(s, size) = [i \in 1 .. size |-> Padded(s, size)[i]]
  BY DEF Padded
<1>2. IsSeq(Padded(s, size)) /\ Len(Padded(s, size)) = size
  BY <1>1, Listed
<1>. QED
  BY <1>2 DEF Padded

\* Of a text that goes through a field there is left what fits.
LEMMA TextPadded ==
    ASSUME NEW raw, IsSeq(raw), NEW s, NEW k, TextOf(s, k, raw),
           NEW size \in Nat, size > 0
    PROVE  \E j \in 0 .. k : /\ CString(Padded(s, size)) = SubSeq(raw, 1, j)
                             /\ j < size /\ (j = k \/ j = size - 1)
<1>. DEFINE p == Padded(s, size)
            t == CString(p)
<1>1. /\ IsSeq(s) /\ Len(s) = k /\ k \in 0 .. Len(raw) /\ Len(raw) \in Nat
      /\ \A i \in 1 .. k : s[i] = raw[i] /\ s[i] # NUL
  BY TextIs
<1>2. /\ IsSeq(p) /\ Len(p) = size
      /\ \A i \in 1 .. size : p[i] = IF i <= k /\ i < size THEN s[i] ELSE NUL
  BY <1>1, PaddedIs
<1>. HIDE DEF p
<1>3. PICK j : TextOf(t, j, p)
  BY <1>2, CStringIs
<1>. HIDE DEF t
<1>4. /\ j \in 0 .. size /\ IsSeq(t) /\ Len(t) = j
      /\ \A i \in 1 .. j : t[i] = p[i] /\ p[i] # NUL
      /\ j = size \/ p[j + 1] = NUL
  <2>1. /\ IsSeq(t) /\ Len(t) = j /\ j \in 0 .. Len(p) /\ Len(p) \in Nat
        /\ \A i \in 1 .. j : t[i] = p[i] /\ t[i] # NUL
    BY <1>2, <1>3, TextIs
  <2>. QED
    BY <2>1, <1>2, <1>3 DEF TextOf
<1>5. j < size
  <2>1. p[size] = NUL /\ size \in 1 .. size
    BY <1>2
  <2>. QED
    BY <2>1, <1>4
<1>6. j <= k
  <2>1. CASE j = 0
    BY <2>1, <1>1
  <2>2. CASE j # 0
    <3>1. j \in 1 .. j /\ j \in 1 .. size
      BY <2>2, <1>4
    <3>2. p[j] # NUL
      BY <3>1, <1>4
    <3>. QED
      BY <3>1, <3>2, <1>1, <1>2
  <2>. QED
    BY <2>1, <2>2
<1>7. j = k \/ j = size - 1
  <2>1. SUFFICES ASSUME j # k, j # size - 1 PROVE FALSE
    OBVIOUS
  <2>2. j + 1 \in 1 .. k /\ j + 1 < size /\ j + 1 \in 1 .. size
    BY <2>1, <1>1, <1>4, <1>5, <1>6
  <2>3. p[j + 1] = s[j + 1] /\ s[j + 1] # NUL
    BY <2>2, <1>1, <1>2
  <2>. QED
    BY <2>3, <1>4, <1>5
<1>8. t = SubSeq(raw, 1, j)
  <2>. DEFINE u == SubSeq(raw, 1, j)
  <2>1. j \in 0 .. Len(raw)
    BY <1>1, <1>4, <1>6
  <2>2. IsSeq(u) /\ Len(u) = j /\ \A i \in 1 .. j : u[i] = raw[i]
    BY <2>1, Cut
  <2>3. \A i \in 1 .. j : t[i] = raw[i]
    <3>1. \A i \in 1 .. j : i \in 1 .. k /\ i \in 1 .. size /\ i < size
      BY <1>1, <1>4, <1>5, <1>6
    <3>. QED
      BY <3>1, <1>1, <1>2, <1>4
  <2>. HIDE DEF u
  <2>4. t = u
    BY <2>2, <2>3, <1>4, SameSeq
  <2>. QED
    BY <2>4 DEF u
<1>9. j \in 0 .. k
  BY <1>1, <1>4, <1>6
<1>. QED
  BY <1>5, <1>7, <1>8, <1>9 DEF t, p

\* In the words of the property.
LEMMA ShowsPadded ==
    ASSUME NEW raw, IsSeq(raw), NEW s, NEW k, TextOf(s, k, raw), NEW kind \in Text
    PROVE  Shows(CString(Padded(s, SizeOf[kind])), raw, kind)
<1>. DEFINE size == SizeOf[kind]
            t == CString(Padded(s, size))
<1>1. size \in Nat /\ size > 0
  BY Sizes DEF Kind
<1>. HIDE DEF size
<1>2. PICK j \in 0 .. k : t = SubSeq(raw, 1, j) /\ j < size /\ (j = k \/ j = size - 1)
  BY <1>1, TextPadded
<1>3. /\ k \in 0 .. Len(raw) /\ Len(raw) \in Nat
      /\ \A i \in 1 .. k : raw[i] # NUL
      /\ k = Len(raw) \/ raw[k + 1] = NUL
  BY TextIs DEF TextOf, Prefix
<1>4. j \in 0 .. Len(raw) /\ \A i \in 1 .. j : i \in 1 .. k
  BY <1>3
<1>5. NUL \notin Range(SubSeq(raw, 1, j))
  <2>. DEFINE u == SubSeq(raw, 1, j)
  <2>1. IsSeq(u) /\ Len(u) = j /\ \A i \in 1 .. j : u[i] = raw[i]
    BY <1>4, Cut
  <2>. HIDE DEF u
  <2>2. DOMAIN u = 1 .. j
    BY <2>1, SeqIs
  <2>. QED
    BY <2>1, <2>2, <1>3, <1>4 DEF Range, u
<1>6. /\ t = SubSeq(raw, 1, j) /\ NUL \notin Range(t) /\ j < size
      /\ j \in {Len(raw), size - 1} \/ raw[j + 1] = NUL
  BY <1>2, <1>3, <1>5
<1>. HIDE DEF t
<1>7. Shows(t, raw, kind)
  BY <1>4, <1>6 DEF Shows, size
<1>. QED
  BY <1>7 DEF t, size

\* The name of a player without one fits.
LEMMA DefaultNameShown ==
    /\ IsSeq(DefaultName)
    /\ CString(Padded(DefaultName, SizeOf["name"])) = DefaultName
<1>. DEFINE s == DefaultName
            size == SizeOf["name"]
            R == Range(s) \ {NUL}
<1>1. s \in Seq(R) /\ Len(s) \in 1 .. size - 1 /\ size \in Nat /\ size > 0
  BY SizeAssumption, Sizes DEF Kind, Text
<1>2. NUL \notin R
  OBVIOUS
<1>. HIDE DEF s, size, R
<1>3. IsSeq(s) /\ \A i \in 1 .. Len(s) : s[i] # NUL
  <2>1. IsSeq(s)
    BY <1>1, Zenon DEF IsSeq
  <2>2. \A i \in 1 .. Len(s) : s[i] \in R
    BY <1>1
  <2>. QED
    BY <2>1, <2>2, <1>2
<1>4. TextOf(s, Len(s), s)
  BY <1>3, WholeText
<1>5. PICK j \in 0 .. Len(s) : /\ CString(Padded(s, size)) = SubSeq(s, 1, j)
                               /\ j < size /\ (j = Len(s) \/ j = size - 1)
  BY <1>1, <1>3, <1>4, TextPadded
<1>6. j = Len(s)
  BY <1>1, <1>5
<1>7. SubSeq(s, 1, Len(s)) = s
  BY <1>4 DEF TextOf, Prefix
<1>. QED
  BY <1>3, <1>5, <1>6, <1>7 DEF s, size

\* A text is empty if its first byte is a NUL.
LEMMA EmptyText ==
    ASSUME NEW raw, IsSeq(raw), Len(raw) > 0
    PROVE  CString(raw) = <<>> <=> raw[1] = NUL
<1>1. PICK k : TextOf(CString(raw), k, raw)
  BY CStringIs
<1>. DEFINE s == CString(raw)
<1>. HIDE DEF s
<1>2. /\ IsSeq(s) /\ Len(s) = k /\ k \in 0 .. Len(raw) /\ Len(raw) \in Nat
      /\ \A i \in 1 .. k : s[i] = raw[i] /\ s[i] # NUL
      /\ k = Len(raw) \/ raw[k + 1] = NUL
  BY <1>1, TextIs DEF TextOf, s
<1>3. s = <<>> <=> k = 0
  <2>1. s = <<>> => k = 0
    BY <1>2
  <2>2. k = 0 => s = <<>>
    <3>1. s = [i \in 1 .. Len(s) |-> s[i]]
      BY <1>2, SeqIs
    <3>2. IsSeq(<<>>)
      <4>1. <<>> \in Seq({})
        OBVIOUS
      <4>. QED
        BY <4>1, Zenon DEF IsSeq
    <3>. QED
      BY <3>1, <3>2, <1>2, SameSeq
  <2>. QED
    BY <2>1, <2>2
<1>4. k = 0 <=> raw[1] = NUL
  BY <1>2
<1>. QED
  BY <1>3, <1>4 DEF s

-----------------------------------------------------------------------------
(* What arrives *)

\* A value is read from its bytes.
LEMMA ValueIs ==
    ASSUME NEW v, NEW size \in Nat, size > 0
    PROVE  Value(Bytes(v, size)) = v
<1>. DEFINE b == Bytes(v, size)
<1>1. Len(b) = size /\ b[1] = <<v, 1>>
  BY BytesAre
<1>2. b[1][1] = v
  BY <1>1
<1>3. b = Bytes(b[1][1], Len(b))
  BY <1>1, <1>2
<1>. HIDE DEF b
<1>4. Value(b) = v
  BY <1>2, <1>3 DEF Value
<1>. QED
  BY <1>4 DEF b

\* What arrives of a field of m.
Arrives(m, f) ==
    IF f.kind \in Text THEN CString(Padded(m[f.name], SizeOf[f.kind])) ELSE m[f.name]

\* What is taken for a field is what was put into it, as far as it fits.
LEMMA TakenIs ==
    ASSUME NEW m, NEW f \in Field, f.name # "Padding"
    PROVE  Taken(f, Encoded(m, f)) = Arrives(m, f)
<1>1. f.kind \in Kind /\ SizeOf[f.kind] \in Nat /\ SizeOf[f.kind] > 0
  BY Sizes DEF Field
<1>2. CASE f.kind \in Text
  BY <1>1, <1>2, EncodedIs DEF Taken, Arrives
<1>3. CASE f.kind \notin Text
  <2>1. Encoded(m, f) = Bytes(m[f.name], SizeOf[f.kind])
    BY <1>1, <1>3, EncodedIs
  <2>2. Value(Encoded(m, f)) = m[f.name]
    BY <2>1, <1>1, ValueIs
  <2>. QED
    BY <2>2, <1>3 DEF Taken, Arrives
<1>. QED
  BY <1>2, <1>3

\* The fields of a struct, as a message holds them.
FieldsOf(m, layout) == [k \in 1 .. Len(layout) |-> Encoded(m, layout[k])]

\* What Encode makes is a message of the type, and no more.
LEMMA EncodeIs ==
    ASSUME NEW type \in Types, NEW m
    PROVE  Message(Encode(type, m), type, FieldsOf(m, Written[type]))
<1>. DEFINE layout == Written[type]
            body == Record(m, layout)
            field == FieldsOf(m, layout)
<1>1. IsLayout(layout)
  BY Layouts
<1>. HIDE DEF layout
<1>2. /\ IsSeq(body) /\ Len(body) = EndOf(layout, Len(layout))
      /\ EndOf(layout, Len(layout)) \in Nat
      /\ \A k \in 1 .. Len(layout) : \A i \in 1 .. SizeOf[layout[k].kind] :
            /\ EndOf(layout, k - 1) \in Nat
            /\ EndOf(layout, k - 1) + i <= EndOf(layout, Len(layout))
            /\ body[EndOf(layout, k - 1) + i] = Encoded(m, layout[k])[i]
  <2>1. EndOf(layout, Len(layout)) \in Nat
    BY <1>1, LayoutEnds
  <2>2. /\ IsSeq(Record(m, layout))
        /\ Len(Record(m, layout)) = EndOf(layout, Len(layout))
        /\ \A k \in 1 .. Len(layout) : \A i \in 1 .. SizeOf[layout[k].kind] :
              /\ EndOf(layout, k - 1) \in Nat
              /\ EndOf(layout, k - 1) + i <= EndOf(layout, Len(layout))
              /\ Record(m, layout)[EndOf(layout, k - 1) + i]
                    = Encoded(m, layout[k])[i]
    BY <1>1, RecordIs
  <2>. QED
    BY <2>1, <2>2
<1>3. ASSUME NEW k \in 1 .. Len(layout)
      PROVE  /\ field[k] = Encoded(m, layout[k])
             /\ field[k] = [i \in 1 .. SizeOf[layout[k].kind] |-> field[k][i]]
  <2>1. field[k] = Encoded(m, layout[k])
    BY DEF FieldsOf
  <2>2. layout[k].kind \in Kind
    BY <1>1, FieldSizes
  <2>3. IsSeq(field[k]) /\ Len(field[k]) = SizeOf[layout[k].kind]
    BY <2>1, <2>2, EncodedIs
  <2>. HIDE DEF field
  <2>. QED
    BY <2>1, <2>3, SeqIs
<1>4. EndOf(layout, Len(layout)) <= Len(body)
  BY <1>2
<1>5. \A k \in 1 .. Len(layout) :
        /\ field[k] = [i \in 1 .. SizeOf[layout[k].kind] |-> field[k][i]]
        /\ \A i \in 1 .. SizeOf[layout[k].kind] :
              /\ EndOf(layout, k - 1) \in Nat
              /\ EndOf(layout, k - 1) + i <= Len(body)
              /\ body[EndOf(layout, k - 1) + i] = field[k][i]
  BY <1>2, <1>3
<1>. HIDE DEF body, field
<1>6. /\ Begins(Header(3, type) \o body, type, field)
      /\ Len(Header(3, type) \o body) = HeaderSize + Len(body)
  BY <1>2, <1>4, <1>5, BeginsWith DEF layout
<1>. QED
  BY <1>2, <1>6 DEF Encode, Message, body, field, layout

\* The fields of each message.
LEMMA WrittenIs ==
    /\ /\ Len(Written["Hello"]) = 2
       /\ Written["Hello"][1] = F("Name", "name") /\ Written["Hello"][2] = F("Car", "name")
    /\ /\ Len(Written["Welcome"]) = 4
       /\ Written["Welcome"][1] = F("PlayerID", "u32")
       /\ Written["Welcome"][2] = F("TickRateHz", "u16")
       /\ Written["Welcome"][3] = F("EchoDelayMs", "u16")
       /\ Written["Welcome"][4] = F("ServerTimeMs", "u32")
    /\ /\ Len(Written["State"]) = 5
       /\ Written["State"][1] = F("PlayerID", "u32")
       /\ Written["State"][2] = F("Seq", "u32")
       /\ Written["State"][3] = F("ClientTimeMs", "u32")
       /\ Written["State"][4] = Transform /\ Written["State"][5] = Telemetry
    /\ /\ Len(Written["Snapshot"]) = 4
       /\ Written["Snapshot"][1] = F("ServerTimeMs", "u32")
       /\ Written["Snapshot"][2] = F("LastClientTimeMs", "u32")
       /\ Written["Snapshot"][3] = F("Count", "u16")
       /\ Written["Snapshot"][4] = F("SelfPingMs", "u16")
    /\ Len(Written["Bye"]) = 0
    /\ /\ Len(Written["Chat"]) = 3
       /\ Written["Chat"][1] = F("PlayerID", "u32")
       /\ Written["Chat"][2] = F("Name", "name")
       /\ Written["Chat"][3] = F("Text", "text")
    /\ Len(Written["Ping"]) = 1 /\ Written["Ping"][1] = F("Token", "u32")
    /\ Len(Written["Pong"]) = 1 /\ Written["Pong"][1] = F("Token", "u32")
    /\ Len(Written["Kick"]) = 1 /\ Written["Kick"][1] = F("Reason", "reason")
BY DEF Written

\* The name and the kind of a field.
LEMMA PartsOf ==
    ASSUME NEW name, NEW kind
    PROVE  F(name, kind).name = name /\ F(name, kind).kind = kind
BY DEF F

\* No field of a message has the name of another.
LEMMA MessageNames ==
    ASSUME NEW type \in Types, NEW k \in 1 .. Len(Written[type])
    PROVE  LastOf(Written[type], k) /\ Written[type][k].name # "Padding"
<1>1. CASE type = "Hello"
  BY <1>1, WrittenIs, PartsOf DEF LastOf
<1>2. CASE type = "Welcome"
  BY <1>2, WrittenIs, PartsOf DEF LastOf
<1>3. CASE type = "State"
  BY <1>3, WrittenIs, PartsOf DEF LastOf, Transform, Telemetry
<1>4. CASE type = "Snapshot"
  BY <1>4, WrittenIs, PartsOf DEF LastOf
<1>5. CASE type = "Bye"
  BY <1>5, WrittenIs, PartsOf DEF LastOf
<1>6. CASE type = "Chat"
  BY <1>6, WrittenIs, PartsOf DEF LastOf
<1>7. CASE type \in {"Ping", "Pong", "Kick"}
  BY <1>7, WrittenIs, PartsOf DEF LastOf
<1>. QED
  BY <1>1, <1>2, <1>3, <1>4, <1>5, <1>6, <1>7 DEF Types

\* Of a message that is cut anywhere, what can be decoded is the whole of it.
LEMMA MessageArrives ==
    ASSUME NEW type \in Types, NEW b, NEW field, Message(b, type, field),
           NEW p, NEW n, Prefix(p, n, b), HeaderOK(p)
    PROVE  /\ TypeOf(p) = type
           /\ Decode(p).ok =>
                 /\ n = Len(b)
                 /\ \A k \in 1 .. Len(Written[type]) :
                       Decode(p).m[Written[type][k].name]
                          = Taken(Written[type][k], field[k])
<1>. DEFINE layout == Written[type]
<1>1. /\ Begins(b, type, field)
      /\ Len(b) = HeaderSize + EndOf(layout, Len(layout))
  BY DEF Message
<1>2. TypeOf(p) = type
  <2>. DEFINE s == ReadRecord(Reader(p, HeaderSize), FieldsRead[type])
  <2>1. layout = Written[type] /\ s = ReadRecord(Reader(p, HeaderSize), FieldsRead[type])
    OBVIOUS
  <2>. HIDE DEF s, layout
  <2>. QED
    BY <1>1, <2>1, BeginsRead
<1>3. ASSUME Decode(p).ok
      PROVE  /\ n = Len(b)
             /\ \A k \in 1 .. Len(layout) :
                   Decode(p).m[layout[k].name] = Taken(layout[k], field[k])
  <2>1. /\ HeaderSize + EndOf(layout, Len(layout)) <= n
        /\ \A k \in 1 .. Len(layout) :
              LastOf(layout, k)
                 => Decode(p).m[layout[k].name] = Taken(layout[k], field[k])
    BY <1>1, <1>3, DecodeIs
  <2>2. n \in 0 .. Len(b) /\ Len(b) \in Nat
    <3>1. IsSeq(b)
      BY <1>1 DEF Begins
    <3>. QED
      BY <3>1, SeqIs DEF Prefix
  <2>3. n = Len(b)
    BY <1>1, <2>1, <2>2
  <2>. QED
    BY <2>1, <2>3, MessageNames
<1>. QED
  BY <1>2, <1>3

\* So it is with the fields of a message.
LEMMA FieldsArrive ==
    ASSUME NEW type \in Types, NEW m, NEW k \in 1 .. Len(Written[type])
    PROVE  Taken(Written[type][k], FieldsOf(m, Written[type])[k])
              = Arrives(m, Written[type][k])
<1>1. Written[type][k] \in Field /\ Written[type][k].name # "Padding"
  BY Layouts, FieldSizes, MessageNames
<1>2. FieldsOf(m, Written[type])[k] = Encoded(m, Written[type][k])
  BY DEF FieldsOf
<1>. QED
  BY <1>1, <1>2, TakenIs

-----------------------------------------------------------------------------
(* What a client sends *)

\* Joining is associative.
LEMMA Assoc ==
    ASSUME NEW s, IsSeq(s), NEW t, IsSeq(t), NEW u, IsSeq(u)
    PROVE  (s \o t) \o u = s \o (t \o u)
<1>1. PICK S, T, U : s \in Seq(S) /\ t \in Seq(T) /\ u \in Seq(U)
  BY DEF IsSeq
<1>. DEFINE C == S \cup T \cup U
<1>2. s \in Seq(C) /\ t \in Seq(C) /\ u \in Seq(C)
  BY <1>1
<1>. HIDE DEF C
<1>. QED
  BY <1>2

\* A raw text fills its field.
LEMMA RawIs ==
    ASSUME NEW kind \in Text, NEW raw \in Raw(kind)
    PROVE  /\ IsSeq(raw) /\ Len(raw) = SizeOf[kind]
           /\ SizeOf[kind] \in Nat /\ SizeOf[kind] > 0
           /\ raw = [i \in 1 .. SizeOf[kind] |-> raw[i]]
<1>1. SizeOf[kind] \in Nat /\ SizeOf[kind] > 0
  BY Sizes DEF Kind
<1>2. raw = [i \in 1 .. SizeOf[kind] |-> raw[i]]
  BY DEF Raw
<1>. QED
  BY <1>1, <1>2, Listed

\* A Hello of a client is a message, whatever is in its texts.
LEMMA HelloIs ==
    ASSUME NEW name \in Raw("name"), NEW car \in Raw("name")
    PROVE  Message(Header(3, "Hello") \o name \o car, "Hello", <<name, car>>)
<1>. DEFINE layout == Written["Hello"]
            size == SizeOf["name"]
            field == <<name, car>>
            body == name \o car
<1>1. /\ IsLayout(layout) /\ Len(layout) = 2
      /\ layout[1].kind = "name" /\ layout[2].kind = "name"
  BY Layouts, WrittenIs, PartsOf DEF Types
<1>2. /\ IsSeq(name) /\ Len(name) = size /\ IsSeq(car) /\ Len(car) = size
      /\ size \in Nat /\ size > 0
      /\ name = [i \in 1 .. size |-> name[i]] /\ car = [i \in 1 .. size |-> car[i]]
  BY RawIs DEF Text
<1>. HIDE DEF layout, size
<1>3. EndOf(layout, 0) = 0 /\ EndOf(layout, 1) = size /\ EndOf(layout, 2) = size + size
  <2>1. EndOf(layout, 0) = 0
    BY <1>1, EndOfIs
  <2>2. EndOf(layout, 1) = EndOf(layout, 0) + SizeOf["name"]
    <3>1. 1 \in 1 .. Len(layout) /\ 0 \in Nat /\ 1 = 0 + 1
      BY <1>1
    <3>. QED
      BY <3>1, <1>1, EndOfNext
  <2>3. EndOf(layout, 2) = EndOf(layout, 1) + SizeOf["name"]
    BY <1>1, EndOfNext
  <2>. QED
    BY <2>1, <2>2, <2>3, <1>2 DEF size
<1>4. /\ IsSeq(body) /\ Len(body) = size + size
      /\ \A i \in 1 .. size : body[i] = name[i] /\ body[size + i] = car[i]
  <2>1. /\ IsSeq(name \o car) /\ Len(name \o car) = Len(name) + Len(car)
        /\ \A i \in 1 .. Len(name) : (name \o car)[i] = name[i]
        /\ \A i \in 1 .. Len(car) : (name \o car)[Len(name) + i] = car[i]
    BY <1>2, Join
  <2>. QED
    BY <2>1, <1>2
<1>. HIDE DEF body
<1>5. EndOf(layout, Len(layout)) <= Len(body)
  BY <1>1, <1>2, <1>3, <1>4
<1>6. ASSUME NEW k \in 1 .. Len(layout)
      PROVE  /\ field[k] = [i \in 1 .. SizeOf[layout[k].kind] |-> field[k][i]]
             /\ \A i \in 1 .. SizeOf[layout[k].kind] :
                   /\ EndOf(layout, k - 1) \in Nat
                   /\ EndOf(layout, k - 1) + i <= Len(body)
                   /\ body[EndOf(layout, k - 1) + i] = field[k][i]
  <2>1. CASE k = 1
    <3>1. field[k] = name /\ SizeOf[layout[k].kind] = size /\ EndOf(layout, k - 1) = 0
      BY <2>1, <1>1, <1>3 DEF size
    <3>. HIDE DEF field
    <3>. QED
      BY <3>1, <1>2, <1>4
  <2>2. CASE k = 2
    <3>1. /\ field[k] = car /\ SizeOf[layout[k].kind] = size
          /\ EndOf(layout, k - 1) = size
      BY <2>2, <1>1, <1>3 DEF size
    <3>. HIDE DEF field
    <3>. QED
      BY <3>1, <1>2, <1>4
  <2>. QED
    BY <2>1, <2>2, <1>1
<1>. HIDE DEF field
<1>7. /\ Begins(Header(3, "Hello") \o body, "Hello", field)
      /\ Len(Header(3, "Hello") \o body) = HeaderSize + Len(body)
  <2>1. "Hello" \in Types
    BY DEF Types
  <2>. QED
    BY <2>1, <1>4, <1>5, <1>6, BeginsWith DEF layout
<1>8. Header(3, "Hello") \o name \o car = Header(3, "Hello") \o body
  <2>. DEFINE h == Header(3, "Hello")
  <2>1. IsSeq(h) /\ IsSeq(name) /\ IsSeq(car)
    BY <1>2, HeaderIs
  <2>. HIDE DEF h
  <2>2. (h \o name) \o car = h \o (name \o car)
    BY <2>1, Assoc, SMTT(60)
  <2>. QED
    BY <2>2 DEF h, body
<1>9. Len(body) = EndOf(layout, Len(layout))
  BY <1>1, <1>3, <1>4
<1>. QED
  BY <1>7, <1>8, <1>9 DEF Message, layout, field

\* So is a line of chat.
LEMMA ChatIs ==
    ASSUME NEW text \in Raw("text")
    PROVE  LET id == Bytes(Num("id", 7), SizeOf["u32"])
               nuls == [i \in 1 .. SizeOf["name"] |-> NUL]
           IN  Message(Header(3, "Chat") \o id \o nuls \o text, "Chat", <<id, nuls, text>>)
<1>. DEFINE layout == Written["Chat"]
            h == Header(3, "Chat")
            a == SizeOf["u32"]
            b == SizeOf["name"]
            c == SizeOf["text"]
            id == Bytes(Num("id", 7), a)
            nuls == [i \in 1 .. b |-> NUL]
            field == <<id, nuls, text>>
            front == id \o nuls
            body == front \o text
<1>1. /\ IsLayout(layout) /\ Len(layout) = 3
      /\ layout[1].kind = "u32" /\ layout[2].kind = "name" /\ layout[3].kind = "text"
  BY Layouts, WrittenIs, PartsOf DEF Types
<1>2. a \in Nat /\ b \in Nat /\ c \in Nat
  BY Sizes DEF Kind, Text, Opaque
<1>3. IsSeq(id) /\ Len(id) = a /\ id = [i \in 1 .. a |-> id[i]]
  <2>1. IsSeq(id) /\ Len(id) = a
    BY <1>2, BytesAre
  <2>. QED
    BY <2>1, SeqIs
<1>4. IsSeq(nuls) /\ Len(nuls) = b /\ nuls = [i \in 1 .. b |-> nuls[i]]
  <2>1. nuls = [i \in 1 .. b |-> nuls[i]]
    OBVIOUS
  <2>. HIDE DEF nuls, b
  <2>. QED
    BY <2>1, <1>2, Listed
<1>5. IsSeq(text) /\ Len(text) = c /\ text = [i \in 1 .. c |-> text[i]]
  BY RawIs DEF Text
<1>6. IsSeq(h)
  BY HeaderIs
<1>. HIDE DEF layout, h, a, b, c, id, nuls
<1>7. /\ EndOf(layout, 0) = 0 /\ EndOf(layout, 1) = a
      /\ EndOf(layout, 2) = a + b /\ EndOf(layout, 3) = a + b + c
  <2>1. EndOf(layout, 0) = 0
    BY <1>1, EndOfIs
  <2>2. /\ 1 \in 1 .. Len(layout) /\ 2 \in 1 .. Len(layout) /\ 3 \in 1 .. Len(layout)
        /\ 0 \in Nat /\ 1 \in Nat /\ 2 \in Nat /\ 1 = 0 + 1 /\ 2 = 1 + 1 /\ 3 = 2 + 1
    BY <1>1
  <2>3. EndOf(layout, 1) = EndOf(layout, 0) + SizeOf["u32"]
    BY <2>2, <1>1, EndOfNext
  <2>4. EndOf(layout, 2) = EndOf(layout, 1) + SizeOf["name"]
    BY <2>2, <1>1, EndOfNext
  <2>5. EndOf(layout, 3) = EndOf(layout, 2) + SizeOf["text"]
    BY <2>2, <1>1, EndOfNext
  <2>. QED
    BY <2>1, <2>3, <2>4, <2>5, <1>2 DEF a, b, c
<1>8. /\ IsSeq(front) /\ Len(front) = a + b
      /\ \A i \in 1 .. a : front[i] = id[i]
      /\ \A i \in 1 .. b : front[a + i] = nuls[i]
  <2>1. /\ IsSeq(id \o nuls) /\ Len(id \o nuls) = Len(id) + Len(nuls)
        /\ \A i \in 1 .. Len(id) : (id \o nuls)[i] = id[i]
        /\ \A i \in 1 .. Len(nuls) : (id \o nuls)[Len(id) + i] = nuls[i]
    <3>1. IsSeq(id) /\ IsSeq(nuls)
      BY <1>3, <1>4
    <3>. QED
      BY <3>1, Join
  <2>. QED
    BY <2>1, <1>3, <1>4
<1>. HIDE DEF front
<1>9. /\ IsSeq(body) /\ Len(body) = a + b + c
      /\ \A i \in 1 .. a : body[i] = id[i]
      /\ \A i \in 1 .. b : body[a + i] = nuls[i]
      /\ \A i \in 1 .. c : body[a + b + i] = text[i]
  <2>1. /\ IsSeq(front \o text) /\ Len(front \o text) = Len(front) + Len(text)
        /\ \A i \in 1 .. Len(front) : (front \o text)[i] = front[i]
        /\ \A i \in 1 .. Len(text) : (front \o text)[Len(front) + i] = text[i]
    <3>1. IsSeq(front) /\ IsSeq(text)
      BY <1>5, <1>8
    <3>. QED
      BY <3>1, Join
  <2>2. /\ \A i \in 1 .. a : i \in 1 .. Len(front)
        /\ \A i \in 1 .. b : a + i \in 1 .. Len(front)
    BY <1>2, <1>8
  <2>. QED
    BY <2>1, <2>2, <1>2, <1>5, <1>8
<1>. HIDE DEF body
<1>10. EndOf(layout, Len(layout)) = Len(body) /\ Len(body) \in Nat
  BY <1>1, <1>2, <1>7, <1>9
<1>11. ASSUME NEW k \in 1 .. Len(layout)
       PROVE  /\ field[k] = [i \in 1 .. SizeOf[layout[k].kind] |-> field[k][i]]
              /\ \A i \in 1 .. SizeOf[layout[k].kind] :
                    /\ EndOf(layout, k - 1) \in Nat
                    /\ EndOf(layout, k - 1) + i <= Len(body)
                    /\ body[EndOf(layout, k - 1) + i] = field[k][i]
  <2>1. CASE k = 1
    <3>1. field[k] = id /\ SizeOf[layout[k].kind] = a /\ EndOf(layout, k - 1) = 0
      BY <2>1, <1>1, <1>7 DEF a
    <3>. HIDE DEF field
    <3>. QED
      BY <3>1, <1>2, <1>3, <1>9
  <2>2. CASE k = 2
    <3>1. field[k] = nuls /\ SizeOf[layout[k].kind] = b /\ EndOf(layout, k - 1) = a
      BY <2>2, <1>1, <1>7 DEF b
    <3>. HIDE DEF field
    <3>. QED
      BY <3>1, <1>2, <1>4, <1>9
  <2>3. CASE k = 3
    <3>1. /\ field[k] = text /\ SizeOf[layout[k].kind] = c
          /\ EndOf(layout, k - 1) = a + b
      BY <2>3, <1>1, <1>7 DEF c
    <3>. HIDE DEF field
    <3>. QED
      BY <3>1, <1>2, <1>5, <1>9
  <2>. QED
    BY <2>1, <2>2, <2>3, <1>1
<1>. HIDE DEF field
<1>12. Begins(h \o body, "Chat", field) /\ Len(h \o body) = HeaderSize + Len(body)
  <2>1. "Chat" \in Types /\ EndOf(layout, Len(layout)) <= Len(body)
    BY <1>10 DEF Types
  <2>. QED
    BY <2>1, <1>9, <1>11, BeginsWith DEF layout, h
<1>13. ((h \o id) \o nuls) \o text = h \o body
  <2>1. IsSeq(h) /\ IsSeq(id) /\ IsSeq(nuls)
    BY <1>3, <1>4, <1>6
  <2>2. (h \o id) \o nuls = h \o (id \o nuls)
    BY <2>1, Assoc, SMTT(60)
  <2>3. IsSeq(h) /\ IsSeq(front) /\ IsSeq(text)
    BY <1>5, <1>6, <1>8
  <2>4. (h \o front) \o text = h \o (front \o text)
    BY <2>3, Assoc, SMTT(60)
  <2>. QED
    BY <2>2, <2>4 DEF front, body
<1>14. Message(((h \o id) \o nuls) \o text, "Chat", field)
  BY <1>10, <1>12, <1>13 DEF Message, layout
<1>. QED
  BY <1>14 DEF h, id, nuls, field, a, b

\* What the client sends of its moment s.
StateOf(s) == [PlayerID |-> Num("id", 1), Seq |-> Num("seq", s),
               ClientTimeMs |-> Num("time", s), Transform |-> Num("transform", s),
               Telemetry |-> Num("telemetry", s)]

\* The fields a message of the client has.
Given(type, raw, field) ==
    /\ type = "Hello" => /\ raw.name \in Raw("name") /\ raw.car \in Raw("name")
                         /\ field = <<raw.name, raw.car>>
    /\ type = "State" => \E s \in Sample : field = FieldsOf(StateOf(s), Written["State"])
    /\ type = "Chat" => raw.text \in Raw("text") /\ field[3] = raw.text

Strays == {Header(2, "Bye"), Header(3, "Other"), Encode("Kick", [Reason |-> <<>>])}

\* What is on its way to the server was sent by the client, or by a stranger.
IsSent(u) ==
    \/ u.b \in Strays
    \/ \E type \in Handled : \E b, field, n :
          /\ Message(b, type, field) /\ Prefix(u.b, n, b) /\ (u.whole <=> n = Len(b))
          /\ Given(type, u.raw, field)

\* The server takes nothing of a stranger.
LEMMA StrayIgnored ==
    ASSUME NEW b \in Strays, NEW type \in Handled
    PROVE  ~(HeaderOK(b) /\ TypeOf(b) = type)
<1>1. CASE b = Header(2, "Bye")
  BY <1>1, OtherVersion
<1>2. CASE b = Header(3, "Other")
  <2>. DEFINE h == Header(3, "Other")
              u16 == SizeOf["u16"]
  <2>1. /\ HeaderSize = SizeOf["u32"] + u16 + u16
        /\ u16 \in 1 .. u16
        /\ \A i \in 1 .. u16 : h[SizeOf["u32"] + u16 + i] = <<Num("Other", 0), i>>
    BY Sizes, HeaderIs DEF Kind, Opaque, HeaderSize
  <2>. HIDE DEF h, u16
  <2>2. h[HeaderSize] = <<Num("Other", 0), u16>>
    BY <2>1
  <2>3. TypeOf(h) = "Other"
    BY <2>2, TypeIs
  <2>. QED
    BY <2>3, <1>2 DEF Handled, h
<1>3. CASE b = Encode("Kick", [Reason |-> <<>>])
  <2>. DEFINE e == Encode("Kick", [Reason |-> <<>>])
              field == FieldsOf([Reason |-> <<>>], Written["Kick"])
  <2>1. "Kick" \in Types
    BY DEF Types
  <2>2. Message(e, "Kick", field)
    BY <2>1, EncodeIs
  <2>. HIDE DEF e, field
  <2>3. e[HeaderSize] = <<Num("Kick", 0), SizeOf["u16"]>>
    BY <2>2 DEF Message, Begins
  <2>4. TypeOf(e) = "Kick"
    BY <2>3, TypeIs
  <2>. QED
    BY <2>4, <1>3 DEF Handled, e
<1>. QED
  BY <1>1, <1>2, <1>3 DEF Strays

\* What the server accepts is whole, and as the client sent it.
LEMMA AcceptedIs ==
    ASSUME IsSent(up), NEW type \in Handled, Accepts(type)
    PROVE  /\ up.whole
           /\ \E field :
                 /\ Given(type, up.raw, field)
                 /\ \A k \in 1 .. Len(Written[type]) :
                       Got[Written[type][k].name] = Taken(Written[type][k], field[k])
<1>1. up.on /\ HeaderOK(up.b) /\ TypeOf(up.b) = type /\ Decode(up.b).ok
  BY DEF Accepts
<1>2. PICK sent \in Handled : \E b, field, n :
        /\ Message(b, sent, field) /\ Prefix(up.b, n, b) /\ (up.whole <=> n = Len(b))
        /\ Given(sent, up.raw, field)
  <2>1. up.b \notin Strays
    BY <1>1, StrayIgnored
  <2>. QED
    BY <2>1 DEF IsSent
<1>3. PICK b, field, n :
        /\ Message(b, sent, field) /\ Prefix(up.b, n, b) /\ (up.whole <=> n = Len(b))
        /\ Given(sent, up.raw, field)
  BY <1>2
<1>4. sent \in Types
  BY DEF Handled, Types
<1>5. /\ TypeOf(up.b) = sent
      /\ Decode(up.b).ok =>
            /\ n = Len(b)
            /\ \A k \in 1 .. Len(Written[sent]) :
                  Decode(up.b).m[Written[sent][k].name]
                     = Taken(Written[sent][k], field[k])
  BY <1>1, <1>3, <1>4, MessageArrives
<1>6. type = sent
  BY <1>1, <1>5
<1>. QED
  BY <1>1, <1>3, <1>5, <1>6 DEF Got

\* The name and the car, up to their first NUL.
LEMMA HelloGot ==
    ASSUME IsSent(up), Accepts("Hello")
    PROVE  /\ up.whole /\ up.raw.name \in Raw("name") /\ up.raw.car \in Raw("name")
           /\ Got.Name = CString(up.raw.name) /\ Got.Car = CString(up.raw.car)
<1>. DEFINE layout == Written["Hello"]
<1>1. "Hello" \in Handled
  BY DEF Handled
<1>2. up.whole
  BY <1>1, AcceptedIs
<1>3. PICK field :
        /\ Given("Hello", up.raw, field)
        /\ \A k \in 1 .. Len(layout) : Got[layout[k].name] = Taken(layout[k], field[k])
  BY <1>1, AcceptedIs
<1>4. /\ Len(layout) = 2 /\ layout[1].name = "Name" /\ layout[2].name = "Car"
      /\ layout[1].kind \in Text /\ layout[2].kind \in Text
  BY WrittenIs, PartsOf DEF Text
<1>5. /\ up.raw.name \in Raw("name") /\ up.raw.car \in Raw("name")
      /\ field[1] = up.raw.name /\ field[2] = up.raw.car
  BY <1>3 DEF Given
<1>. HIDE DEF layout
<1>6. Got["Name"] = Taken(layout[1], field[1]) /\ Got["Car"] = Taken(layout[2], field[2])
  BY <1>3, <1>4
<1>. QED
  BY <1>2, <1>4, <1>5, <1>6 DEF Taken

\* The pose, the telemetry and the time of one sample.
LEMMA StateGot ==
    ASSUME IsSent(up), Accepts("State")
    PROVE  /\ up.whole
           /\ \E s \in Sample : /\ Got.ClientTimeMs = Num("time", s)
                                /\ Got.Transform = Num("transform", s)
                                /\ Got.Telemetry = Num("telemetry", s)
<1>. DEFINE layout == Written["State"]
<1>1. "State" \in Handled /\ "State" \in Types
  BY DEF Handled, Types
<1>2. up.whole
  BY <1>1, AcceptedIs
<1>3. PICK field :
        /\ Given("State", up.raw, field)
        /\ \A k \in 1 .. Len(layout) : Got[layout[k].name] = Taken(layout[k], field[k])
  BY <1>1, AcceptedIs
<1>4. PICK s \in Sample : field = FieldsOf(StateOf(s), layout)
  BY <1>3 DEF Given
<1>5. \A k \in 1 .. Len(layout) : Got[layout[k].name] = Arrives(StateOf(s), layout[k])
  BY <1>1, <1>3, <1>4, FieldsArrive
<1>6. /\ Len(layout) = 5 /\ layout[3].name = "ClientTimeMs"
      /\ layout[4].name = "Transform" /\ layout[5].name = "Telemetry"
      /\ layout[3].kind \notin Text /\ layout[4].kind \notin Text
      /\ layout[5].kind \notin Text
  BY WrittenIs, PartsOf DEF Text, Transform, Telemetry
<1>. HIDE DEF layout
<1>7. /\ Got["ClientTimeMs"] = StateOf(s)["ClientTimeMs"]
      /\ Got["Transform"] = StateOf(s)["Transform"]
      /\ Got["Telemetry"] = StateOf(s)["Telemetry"]
  BY <1>5, <1>6 DEF Arrives
<1>8. /\ Got.ClientTimeMs = Num("time", s) /\ Got.Transform = Num("transform", s)
      /\ Got.Telemetry = Num("telemetry", s)
  BY <1>7 DEF StateOf
<1>. QED
  BY <1>2, <1>8

\* The line, up to its first NUL.
LEMMA ChatGot ==
    ASSUME IsSent(up), Accepts("Chat")
    PROVE  up.whole /\ up.raw.text \in Raw("text") /\ Got.Text = CString(up.raw.text)
<1>. DEFINE layout == Written["Chat"]
<1>1. "Chat" \in Handled
  BY DEF Handled
<1>2. up.whole
  BY <1>1, AcceptedIs
<1>3. PICK field :
        /\ Given("Chat", up.raw, field)
        /\ \A k \in 1 .. Len(layout) : Got[layout[k].name] = Taken(layout[k], field[k])
  BY <1>1, AcceptedIs
<1>4. Len(layout) = 3 /\ layout[3].name = "Text" /\ layout[3].kind \in Text
  BY WrittenIs, PartsOf DEF Text
<1>5. up.raw.text \in Raw("text") /\ field[3] = up.raw.text
  BY <1>3 DEF Given
<1>. HIDE DEF layout
<1>6. Got["Text"] = Taken(layout[3], field[3])
  BY <1>3, <1>4
<1>. QED
  BY <1>2, <1>4, <1>5, <1>6 DEF Taken

\* What the client sends is a message, up to where it is cut.
LEMMA SentIs ==
    ASSUME NEW type \in Handled, NEW b, NEW field, NEW raw, Message(b, type, field),
           Given(type, raw, field), Sent(b, raw)
    PROVE  up'.on /\ IsSent(up)'
<1>1. PICK n \in 0 .. Len(b) :
        up' = [on |-> TRUE, b |-> SubSeq(b, 1, n), whole |-> n = Len(b), raw |-> raw]
  BY DEF Sent
<1>2. /\ up'.on /\ up'.raw = raw /\ up'.b = SubSeq(b, 1, n)
      /\ (up'.whole <=> n = Len(b))
  BY <1>1
<1>3. Prefix(up'.b, n, b)
  BY <1>2 DEF Prefix
<1>4. \E c, f, k : /\ Message(c, type, f) /\ Prefix(up'.b, k, c)
                   /\ (up'.whole <=> k = Len(c)) /\ Given(type, up'.raw, f)
  BY <1>2, <1>3
<1>. QED
  BY <1>2, <1>4 DEF IsSent

-----------------------------------------------------------------------------
(* Snapshots *)

\* The fields of an entity.
LEMMA EntityIs ==
    /\ IsLayout(EntityWritten) /\ Len(EntityWritten) = 10
    /\ EntityWritten[1] = F("ID", "u32") /\ EntityWritten[2] = F("Flags", "u16")
    /\ EntityWritten[3] = Padding /\ EntityWritten[4] = F("Name", "name")
    /\ EntityWritten[5] = F("Car", "name") /\ EntityWritten[6] = Transform
    /\ EntityWritten[7] = Telemetry /\ EntityWritten[8] = F("SampleTimeMs", "u32")
    /\ EntityWritten[9] = F("PingMs", "u16") /\ EntityWritten[10] = Padding
<1>1. /\ Len(EntityWritten) = 10
      /\ EntityWritten[1] = F("ID", "u32") /\ EntityWritten[2] = F("Flags", "u16")
      /\ EntityWritten[3] = Padding /\ EntityWritten[4] = F("Name", "name")
      /\ EntityWritten[5] = F("Car", "name") /\ EntityWritten[6] = Transform
      /\ EntityWritten[7] = Telemetry /\ EntityWritten[8] = F("SampleTimeMs", "u32")
      /\ EntityWritten[9] = F("PingMs", "u16") /\ EntityWritten[10] = Padding
  BY DEF EntityWritten
<1>. QED
  BY <1>1, Layouts

\* The fields of an entity that are told: all but the padding.
Told == {1, 2, 4, 5, 6, 7, 8, 9}

\* No two of them share a name.
LEMMA EntityNames ==
    ASSUME NEW k \in Told
    PROVE  /\ k \in 1 .. Len(EntityWritten) /\ EntityWritten[k] \in Field
           /\ LastOf(EntityWritten, k) /\ EntityWritten[k].name # "Padding"
<1>. DEFINE layout == EntityWritten
<1>1. /\ Len(layout) = 10 /\ \A j \in 1 .. 10 : layout[j] \in Field
      /\ layout[1].name = "ID" /\ layout[2].name = "Flags" /\ layout[3].name = "Padding"
      /\ layout[4].name = "Name" /\ layout[5].name = "Car"
      /\ layout[6].name = "Transform" /\ layout[7].name = "Telemetry"
      /\ layout[8].name = "SampleTimeMs" /\ layout[9].name = "PingMs"
      /\ layout[10].name = "Padding"
  BY EntityIs, PartsOf, FieldSizes DEF Transform, Telemetry, Padding
<1>. HIDE DEF layout
<1>2. k \in 1 .. Len(layout) /\ layout[k] \in Field
  BY <1>1 DEF Told
<1>3. layout[k].name # "Padding"
  BY <1>1 DEF Told
<1>4. LastOf(layout, k)
  BY <1>1 DEF Told, LastOf
<1>. QED
  BY <1>2, <1>3, <1>4 DEF layout

\* The size of a snapshot, an entity after the other.
LEMMA SnapshotSizes ==
    /\ EntitySize \in Nat /\ EntitySize > 0
    /\ EndOf(EntityWritten, 10) = EntitySize
    /\ SnapshotSize(0) \in Nat /\ HeaderSize <= SnapshotSize(0)
    /\ SnapshotSize(0) = HeaderSize + EndOf(Written["Snapshot"], 4)
    /\ \A n \in Nat : /\ SnapshotSize(n) \in Nat
                      /\ SnapshotSize(n + 1) = SnapshotSize(n) + EntitySize
<1>. DEFINE u32 == SizeOf["u32"]
            u16 == SizeOf["u16"]
            name == SizeOf["name"]
            tr == SizeOf["transform"]
            tel == SizeOf["telemetry"]
            E == EntityWritten
            W == Written["Snapshot"]
<1>1. /\ u32 \in Nat /\ u16 \in Nat /\ name \in Nat /\ tr \in Nat /\ tel \in Nat
      /\ u32 > 0 /\ HeaderSize \in Nat
  BY Sizes DEF Kind, Text, Opaque
<1>2. /\ EntitySize = 2 * u32 + 4 * u16 + 2 * name + tr + tel
      /\ \A n : SnapshotSize(n) = HeaderSize + 2 * u32 + 2 * u16 + n * EntitySize
  BY DEF EntitySize, SnapshotSize
<1>3. /\ IsLayout(E) /\ Len(E) = 10
      /\ SizeOf[E[1].kind] = u32 /\ SizeOf[E[2].kind] = u16
      /\ SizeOf[E[3].kind] = u16 /\ SizeOf[E[4].kind] = name
      /\ SizeOf[E[5].kind] = name /\ SizeOf[E[6].kind] = tr
      /\ SizeOf[E[7].kind] = tel /\ SizeOf[E[8].kind] = u32
      /\ SizeOf[E[9].kind] = u16 /\ SizeOf[E[10].kind] = u16
  BY EntityIs, PartsOf DEF Transform, Telemetry, Padding
<1>4. /\ IsLayout(W) /\ Len(W) = 4
      /\ SizeOf[W[1].kind] = u32 /\ SizeOf[W[2].kind] = u32
      /\ SizeOf[W[3].kind] = u16 /\ SizeOf[W[4].kind] = u16
  BY WrittenIs, PartsOf, Layouts DEF Types
<1>. HIDE DEF u32, u16, name, tr, tel, E, W
<1>5. EndOf(E, 10) = 2 * u32 + 4 * u16 + 2 * name + tr + tel
  <2>1. EndOf(E, 0) = 0
    BY <1>3, EndOfIs
  <2>2. ASSUME NEW k \in 1 .. 10, NEW j \in Nat, k = j + 1
        PROVE  EndOf(E, k) = EndOf(E, j) + SizeOf[E[k].kind]
    <3>1. IsLayout(E) /\ k \in 1 .. Len(E)
      BY <1>3
    <3>. QED
      BY <3>1, <2>2, EndOfNext
  <2>3. EndOf(E, 1) = u32 /\ EndOf(E, 2) = EndOf(E, 1) + u16
    BY <2>1, <2>2, <1>1, <1>3
  <2>4. EndOf(E, 3) = EndOf(E, 2) + u16 /\ EndOf(E, 4) = EndOf(E, 3) + name
    BY <2>2, <1>3
  <2>5. EndOf(E, 5) = EndOf(E, 4) + name /\ EndOf(E, 6) = EndOf(E, 5) + tr
    BY <2>2, <1>3
  <2>6. EndOf(E, 7) = EndOf(E, 6) + tel /\ EndOf(E, 8) = EndOf(E, 7) + u32
    BY <2>2, <1>3
  <2>7. EndOf(E, 9) = EndOf(E, 8) + u16 /\ EndOf(E, 10) = EndOf(E, 9) + u16
    BY <2>2, <1>3
  <2>. QED
    BY <2>3, <2>4, <2>5, <2>6, <2>7, <1>1
<1>6. EndOf(W, 4) = 2 * u32 + 2 * u16
  <2>1. EndOf(W, 0) = 0
    BY <1>4, EndOfIs
  <2>2. ASSUME NEW k \in 1 .. 4, NEW j \in Nat, k = j + 1
        PROVE  EndOf(W, k) = EndOf(W, j) + SizeOf[W[k].kind]
    <3>1. IsLayout(W) /\ k \in 1 .. Len(W)
      BY <1>4
    <3>. QED
      BY <3>1, <2>2, EndOfNext
  <2>3. EndOf(W, 1) = u32 /\ EndOf(W, 2) = EndOf(W, 1) + u32
    BY <2>1, <2>2, <1>1, <1>4
  <2>4. EndOf(W, 3) = EndOf(W, 2) + u16 /\ EndOf(W, 4) = EndOf(W, 3) + u16
    BY <2>2, <1>4
  <2>. QED
    BY <2>3, <2>4, <1>1
<1>7. EntitySize \in Nat /\ EntitySize > 0
  BY <1>1, <1>2
<1>8. \A n \in Nat : /\ n * EntitySize \in Nat
                     /\ (n + 1) * EntitySize = n * EntitySize + EntitySize
  <2>. DEFINE e == EntitySize
  <2>1. e \in Nat
    BY <1>7
  <2>. HIDE DEF e
  <2>2. \A n \in Nat : n * e \in Nat /\ (n + 1) * e = n * e + e
    BY <2>1
  <2>. QED
    BY <2>2 DEF e
<1>9. /\ SnapshotSize(0) \in Nat /\ HeaderSize <= SnapshotSize(0)
      /\ SnapshotSize(0) = HeaderSize + EndOf(W, 4)
  <2>1. SnapshotSize(0) = HeaderSize + 2 * u32 + 2 * u16 + 0 * EntitySize
    BY <1>2
  <2>2. 0 * EntitySize = 0
    BY <1>7
  <2>. QED
    BY <2>1, <2>2, <1>1, <1>6
<1>10. \A n \in Nat : /\ SnapshotSize(n) \in Nat
                      /\ SnapshotSize(n + 1) = SnapshotSize(n) + EntitySize
  <2>. TAKE n \in Nat
  <2>. DEFINE a == n * EntitySize
              b == (n + 1) * EntitySize
  <2>1. a \in Nat /\ b = a + EntitySize
    BY <1>8
  <2>2. /\ SnapshotSize(n) = HeaderSize + 2 * u32 + 2 * u16 + a
        /\ SnapshotSize(n + 1) = HeaderSize + 2 * u32 + 2 * u16 + b
    BY <1>2
  <2>. HIDE DEF a, b
  <2>. QED
    BY <2>1, <2>2, <1>1, <1>7
<1>. QED
  BY <1>2, <1>5, <1>7, <1>9, <1>10 DEF E, W

\* More entities need no fewer bytes.
LEMMA SnapshotsGrow ==
    ASSUME NEW n \in Nat, NEW l \in Nat, l <= n
    PROVE  SnapshotSize(l) <= SnapshotSize(n)
<1>. DEFINE e == EntitySize
            d == n - l
            A == {k \in 0 .. d : SnapshotSize(l) <= SnapshotSize(l + k)}
<1>1. d \in Nat /\ l + d = n
  OBVIOUS
<1>. HIDE DEF d
<1>2. 0 \in A
  BY <1>1, SnapshotSizes
<1>3. ASSUME NEW k \in 1 .. d, k - 1 \in A PROVE k \in A
  <2>1. /\ SnapshotSize(l) <= SnapshotSize(l + (k - 1)) /\ k \in 0 .. d
        /\ l + (k - 1) \in Nat /\ l + (k - 1) + 1 = l + k
    BY <1>1, <1>3
  <2>2. /\ SnapshotSize(l + (k - 1)) \in Nat /\ SnapshotSize(l) \in Nat
        /\ SnapshotSize(l + (k - 1) + 1) = SnapshotSize(l + (k - 1)) + EntitySize
    BY <2>1, SnapshotSizes
  <2>3. SnapshotSize(l) <= SnapshotSize(l + k)
    BY <2>1, <2>2, SnapshotSizes
  <2>. QED
    BY <2>1, <2>3
<1>4. \A k \in 0 .. d : k \in A
  <2>. HIDE DEF A
  <2>. QED
    BY <1>1, <1>2, <1>3, Induction
<1>5. d \in 0 .. d
  BY <1>1
<1>. QED
  BY <1>1, <1>4, <1>5

\* What goes on after a message begins with it.
LEMMA BeginsLonger ==
    ASSUME NEW type \in Types, NEW field, NEW head, Message(head, type, field),
           NEW b, IsSeq(b), Len(head) <= Len(b),
           \A i \in 1 .. Len(head) : b[i] = head[i]
    PROVE  Begins(b, type, field)
<1>. DEFINE u32 == SizeOf["u32"]
            u16 == SizeOf["u16"]
            layout == Written[type]
<1>1. /\ u32 \in Nat /\ u16 \in Nat /\ u32 > 0 /\ u16 > 0
      /\ HeaderSize = u32 + 2 * u16
  BY Sizes DEF Kind, Opaque, HeaderSize
<1>2. IsLayout(layout) /\ EndOf(layout, Len(layout)) \in Nat
  BY Layouts, LayoutEnds
<1>3. /\ Len(head) = HeaderSize + EndOf(layout, Len(layout))
      /\ head[u32 + 1] = <<Num("Version", 3), 1>>
      /\ head[HeaderSize] = <<Num(type, 0), u16>>
      /\ \A k \in 1 .. Len(layout) :
            /\ field[k] = [i \in 1 .. SizeOf[layout[k].kind] |-> field[k][i]]
            /\ \A i \in 1 .. SizeOf[layout[k].kind] :
                  head[HeaderSize + EndOf(layout, k - 1) + i] = field[k][i]
  BY DEF Message, Begins
<1>. HIDE DEF layout, u32, u16
<1>4. /\ b[u32 + 1] = <<Num("Version", 3), 1>>
      /\ b[HeaderSize] = <<Num(type, 0), u16>>
  <2>1. u32 + 1 \in 1 .. Len(head) /\ HeaderSize \in 1 .. Len(head)
    BY <1>1, <1>2, <1>3
  <2>. QED
    BY <2>1, <1>3
<1>5. ASSUME NEW k \in 1 .. Len(layout), NEW i \in 1 .. SizeOf[layout[k].kind]
      PROVE  b[HeaderSize + EndOf(layout, k - 1) + i] = field[k][i]
  <2>1. /\ EndOf(layout, k - 1) \in Nat /\ SizeOf[layout[k].kind] \in Nat
        /\ EndOf(layout, k - 1) + SizeOf[layout[k].kind] <= EndOf(layout, Len(layout))
    BY <1>2, FieldsEnd
  <2>. DEFINE end == EndOf(layout, k - 1)
              all == EndOf(layout, Len(layout))
              size == SizeOf[layout[k].kind]
  <2>2. HeaderSize + EndOf(layout, k - 1) + i \in 1 .. Len(head)
    <3>1. /\ HeaderSize \in Nat /\ end \in Nat /\ size \in Nat /\ all \in Nat
          /\ end + size <= all /\ Len(head) = HeaderSize + all /\ i \in 1 .. size
      BY <2>1, <1>1, <1>2, <1>3, Sizes
    <3>. HIDE DEF end, all, size
    <3>2. HeaderSize + end + i \in 1 .. Len(head)
      BY <3>1
    <3>. QED
      BY <3>2 DEF end
  <2>. QED
    BY <2>2, <1>3
<1>. QED
  BY <1>3, <1>4, <1>5 DEF Begins, layout, u32, u16

\* The head of a snapshot of n entities.
Headed(m, n) == FieldsOf(Put(m, "Count", Num("Count", n % U16)), Written["Snapshot"])

\* The j-th entity is after those before it.
IsSnapshot(b, m, entities) ==
    /\ Begins(b, "Snapshot", Headed(m, Len(entities)))
    /\ Len(entities) \in Nat /\ Len(b) = SnapshotSize(Len(entities))
    /\ \A j \in 1 .. Len(entities) : \A k \in 1 .. Len(EntityWritten) :
          \A i \in 1 .. SizeOf[EntityWritten[k].kind] :
             b[SnapshotSize(j - 1) + EndOf(EntityWritten, k - 1) + i]
                = Encoded(entities[j], EntityWritten[k])[i]

\* EncodeSnapshot makes a snapshot.
LEMMA EncodedSnapshot ==
    ASSUME NEW m, NEW entities, IsSeq(entities)
    PROVE  IsSnapshot(EncodeSnapshot(m, entities), m, entities)
<1>. DEFINE n == Len(entities)
            E == EntityWritten
            head == Encode("Snapshot", Put(m, "Count", Num("Count", n % U16)))
            piece == [k \in 1 .. n |-> Record(entities[k], E)]
            end == [k \in 0 .. n |-> SnapshotSize(k)]
            Def(h) == [k \in 0 .. n |-> IF k = 0 THEN head
                                        ELSE h[k - 1] \o Record(entities[k], E)]
            written == CHOOSE h : h = Def(h)
<1>1. n \in Nat
  BY SeqIs
<1>2. IsLayout(E) /\ Len(E) = 10 /\ EndOf(E, 10) = EntitySize /\ EntitySize \in Nat
  BY EntityIs, SnapshotSizes
<1>3. Message(head, "Snapshot", Headed(m, n))
  <2>1. "Snapshot" \in Types
    BY DEF Types
  <2>. HIDE DEF n
  <2>. QED
    BY <2>1, EncodeIs DEF Headed
<1>. HIDE DEF E, head
<1>4. IsSeq(head) /\ Len(head) = SnapshotSize(0) /\ SnapshotSize(0) \in Nat
  <2>1. Len(Written["Snapshot"]) = 4
    BY WrittenIs
  <2>. QED
    BY <2>1, <1>3, SnapshotSizes DEF Message, Begins
<1>5. ASSUME NEW k \in 1 .. n
      PROVE  /\ piece[k] = Record(entities[k], E)
             /\ IsSeq(piece[k]) /\ Len(piece[k]) = EntitySize
             /\ \A l \in 1 .. Len(E) : \A i \in 1 .. SizeOf[E[l].kind] :
                   /\ EndOf(E, l - 1) \in Nat /\ EndOf(E, l - 1) + i <= EntitySize
                   /\ piece[k][EndOf(E, l - 1) + i] = Encoded(entities[k], E[l])[i]
  <2>1. piece[k] = Record(entities[k], E)
    OBVIOUS
  <2>. DEFINE of == entities[k]
              rec == Record(of, E)
  <2>2. /\ IsSeq(rec) /\ Len(rec) = EndOf(E, Len(E))
        /\ \A l \in 1 .. Len(E) : \A i \in 1 .. SizeOf[E[l].kind] :
              /\ EndOf(E, l - 1) \in Nat /\ EndOf(E, l - 1) + i <= EndOf(E, Len(E))
              /\ rec[EndOf(E, l - 1) + i] = Encoded(of, E[l])[i]
    <3>1. IsLayout(E)
      BY <1>2
    <3>. HIDE DEF of, n, piece, end, Def, written, rec
    <3>2. /\ IsSeq(Record(of, E)) /\ Len(Record(of, E)) = EndOf(E, Len(E))
          /\ \A l \in 1 .. Len(E) : \A i \in 1 .. SizeOf[E[l].kind] :
                /\ EndOf(E, l - 1) \in Nat /\ EndOf(E, l - 1) + i <= EndOf(E, Len(E))
                /\ Record(of, E)[EndOf(E, l - 1) + i] = Encoded(of, E[l])[i]
      BY <3>1, RecordIs
    <3>. QED
      BY <3>2 DEF rec
  <2>. HIDE DEF piece, rec
  <2>. QED
    BY <2>1, <2>2, <1>2 DEF rec
<1>6. /\ end[0] = Len(head)
      /\ \A k \in 1 .. n : /\ end[k] = end[k - 1] + Len(piece[k])
                           /\ end[k - 1] = SnapshotSize(k - 1)
                           /\ SnapshotSize(k - 1) \in Nat
      /\ end[n] = SnapshotSize(n)
  <2>1. /\ 0 \in 0 .. n /\ n \in 0 .. n
        /\ \A k \in 1 .. n : k \in 0 .. n /\ k - 1 \in 0 .. n
        /\ \A k \in 1 .. n : k - 1 \in Nat /\ (k - 1) + 1 = k
    BY <1>1
  <2>2. \A k \in 0 .. n : end[k] = SnapshotSize(k)
    OBVIOUS
  <2>3. \A k \in 1 .. n : /\ SnapshotSize(k) = SnapshotSize(k - 1) + EntitySize
                          /\ SnapshotSize(k - 1) \in Nat
    <3>1. TAKE k \in 1 .. n
    <3>2. /\ SnapshotSize(k - 1) \in Nat
          /\ SnapshotSize((k - 1) + 1) = SnapshotSize(k - 1) + EntitySize
      BY <2>1, SnapshotSizes
    <3>. QED
      BY <3>2, <2>1
  <2>. HIDE DEF end, piece, n
  <2>. QED
    BY <2>1, <2>2, <2>3, <1>4, <1>5
<1>7. \A h : h = Def(h) <=> Joins(h, head, n, piece)
  <2>1. ASSUME NEW h
        PROVE  Def(h) = [k \in 0 .. n |-> IF k = 0 THEN head ELSE h[k - 1] \o piece[k]]
    <3>1. \A k \in 0 .. n : k = 0 \/ piece[k] = Record(entities[k], E)
      BY <1>1
    <3>. HIDE DEF piece
    <3>. QED
      BY <3>1
  <2>. QED
    BY <2>1, Zenon DEF Joins
<1>8. Joins(written, head, n, piece)
  <2>0. \A k \in 1 .. n : IsSeq(piece[k])
    BY <1>5
  <2>1. PICK h : h = Def(h)
    <3>. HIDE DEF piece, Def, n
    <3>. QED
      BY <2>0, <1>1, <1>4, <1>7, Joinable
  <2>2. written = Def(written)
    <3>. HIDE DEF Def
    <3>. QED
      BY <2>1
  <2>. HIDE DEF Def, piece, written
  <2>. QED
    BY <2>2, <1>7
<1>9. EncodeSnapshot(m, entities) = written[n]
  BY DEF EncodeSnapshot, head, E
<1>. HIDE DEF written
<1>. DEFINE b == written[n]
<1>10. Holds(b, n, head, piece, end)
  <2>1. \A k \in 1 .. n : IsSeq(piece[k]) /\ end[k] = end[k - 1] + Len(piece[k])
    BY <1>5, <1>6
  <2>. HIDE DEF piece, end, n
  <2>. QED
    BY <2>1, <1>1, <1>4, <1>6, <1>8, Joined DEF b
<1>11. /\ IsSeq(b) /\ Len(b) = SnapshotSize(n) /\ Len(head) <= Len(b)
       /\ \A i \in 1 .. Len(head) : b[i] = head[i]
       /\ \A k \in 1 .. n : \A i \in 1 .. EntitySize :
             b[SnapshotSize(k - 1) + i] = piece[k][i]
  <2>. HIDE DEF b, piece, end, n
  <2>. QED
    BY <1>5, <1>6, <1>10 DEF Holds
<1>. HIDE DEF b, piece, end
<1>12. Begins(b, "Snapshot", Headed(m, n))
  <2>1. "Snapshot" \in Types
    BY DEF Types
  <2>. HIDE DEF n
  <2>. QED
    BY <2>1, <1>3, <1>11, BeginsLonger
<1>13. ASSUME NEW j \in 1 .. n, NEW k \in 1 .. Len(E), NEW i \in 1 .. SizeOf[E[k].kind]
       PROVE  b[SnapshotSize(j - 1) + EndOf(E, k - 1) + i] = Encoded(entities[j], E[k])[i]
  <2>1. /\ EndOf(E, k - 1) \in Nat /\ EndOf(E, k - 1) + i <= EntitySize
        /\ piece[j][EndOf(E, k - 1) + i] = Encoded(entities[j], E[k])[i]
    BY <1>5
  <2>2. SizeOf[E[k].kind] \in Nat /\ SnapshotSize(j - 1) \in Nat
    BY <1>2, <1>6, FieldSizes
  <2>3. EndOf(E, k - 1) + i \in 1 .. EntitySize
    BY <2>1, <2>2, <1>2
  <2>4. b[SnapshotSize(j - 1) + (EndOf(E, k - 1) + i)] = piece[j][EndOf(E, k - 1) + i]
    BY <2>3, <1>11
  <2>5. SnapshotSize(j - 1) + (EndOf(E, k - 1) + i)
           = SnapshotSize(j - 1) + EndOf(E, k - 1) + i
    BY <2>1, <2>2
  <2>. QED
    BY <2>1, <2>4, <2>5
<1>14. IsSnapshot(b, m, entities)
  BY <1>1, <1>11, <1>12, <1>13 DEF IsSnapshot, E
<1>. QED
  BY <1>9, <1>14 DEF b

\* s has read one more entity than r, from where r is.
HasReadEntity(s, b, r) ==
    /\ s \in Readers(b, Seq(Structs(b)))
    /\ ~s.err =>
          /\ ~r.err
          /\ s.i = r.i + EntitySize /\ (r.i <= Len(b) => s.i <= Len(b))
          /\ \E e \in Structs(b) :
                /\ s.m = Append(r.m, e)
                /\ \A k \in Told : e[EntityWritten[k].name]
                       = FieldAt(b, r.i + EndOf(EntityWritten, k - 1), EntityWritten[k])

\* An entity is read by reading its record.
LEMMA ReadEntityIs ==
    ASSUME NEW b, IsSeq(b), NEW r \in Readers(b, Seq(Structs(b)))
    PROVE  HasReadEntity(ReadEntity(r), b, r)
<1>. DEFINE E == EntityWritten
            r0 == [r EXCEPT !.m = <<>>]
            e == ReadRecord(r0, E)
            s == [e EXCEPT !.m = Append(r.m, e.m)]
            M == Structs(b)
<1>1. IsLayout(E) /\ Len(E) = 10 /\ EndOf(E, 10) = EntitySize
  BY EntityIs, SnapshotSizes
<1>2. ReadEntity(r) = s
  BY Layouts DEF ReadEntity
<1>3. r0 \in Readers(b, M) /\ r0.i = r.i /\ r0.err = r.err
  <2>1. <<>> \in M
    <3>1. Reader(b, 0) \in Readers(b, M) /\ Reader(b, 0).m = <<>>
      BY ReaderIs DEF Reader
    <3>. QED
      BY <3>1 DEF Readers
  <2>. HIDE DEF M
  <2>. QED
    BY <2>1 DEF Readers
<1>. HIDE DEF E, r0
<1>4. HasRead(e, 10, b, r0, E)
  <2>1. HasRead(ReadRecord(r0, E), Len(E), b, r0, E)
    BY <1>1, <1>3, ReadRecordIs
  <2>. QED
    BY <2>1, <1>1
<1>. HIDE DEF e
<1>5. e \in Readers(b, M)
  BY <1>4 DEF HasRead
<1>6. /\ s \in Readers(b, Seq(M)) /\ s.err = e.err /\ s.i = e.i /\ e.m \in M
      /\ s.m = Append(r.m, e.m)
  <2>1. r.m \in Seq(M) /\ e.m \in M
    BY <1>5 DEF Readers
  <2>. HIDE DEF M
  <2>2. Append(r.m, e.m) \in Seq(M)
    BY <2>1
  <2>. QED
    BY <2>1, <2>2, <1>5 DEF Readers
<1>. HIDE DEF s
<1>7. ASSUME ~s.err
      PROVE  /\ ~r.err
             /\ s.i = r.i + EntitySize /\ (r.i <= Len(b) => s.i <= Len(b))
             /\ \A k \in Told : e.m[E[k].name]
                    = FieldAt(b, r.i + EndOf(E, k - 1), E[k])
  <2>1. ~e.err
    BY <1>6, <1>7
  <2>2. /\ ~r0.err
        /\ e.i = r0.i + EndOf(E, 10) /\ (r0.i <= Len(b) => e.i <= Len(b))
        /\ \A j \in 1 .. 10 :
              \/ \E l \in j + 1 .. 10 : E[l].name = E[j].name
              \/ e.m[E[j].name] = FieldAt(b, r0.i + EndOf(E, j - 1), E[j])
    BY <2>1, <1>4 DEF HasRead
  <2>3. ASSUME NEW k \in Told
        PROVE  e.m[E[k].name] = FieldAt(b, r.i + EndOf(E, k - 1), E[k])
    <3>1. k \in 1 .. 10 /\ \A l \in k + 1 .. 10 : E[l].name # E[k].name
      BY <1>1, EntityNames DEF LastOf, E
    <3>. QED
      BY <3>1, <2>2, <1>3
  <2>. QED
    BY <2>2, <2>3, <1>1, <1>3, <1>6
<1>. HIDE DEF M
<1>. QED
  BY <1>2, <1>6, <1>7 DEF HasReadEntity, E, M

\* What is told of an entity arrives.
IsTold(e, entity) ==
    \A k \in Told : e[EntityWritten[k].name] = Arrives(entity, EntityWritten[k])

\* s has read the first k entities of the n bytes of p.
HasEntities(s, k, p, n, entities) ==
    /\ s \in Readers(p, Seq(Structs(p)))
    /\ ~s.err => /\ s.i = SnapshotSize(k) /\ s.i <= n /\ Len(s.m) = k
                 /\ \A j \in 1 .. k : IsTold(s.m[j], entities[j])

\* Where an entity is written, it is read.
LEMMA EntityAt ==
    ASSUME NEW b, NEW m, NEW entities, IsSnapshot(b, m, entities), IsSeq(b),
           NEW p, NEW n, Prefix(p, n, b),
           NEW j \in 1 .. Len(entities), SnapshotSize(j) <= n, NEW k \in Told
    PROVE  FieldAt(p, SnapshotSize(j - 1) + EndOf(EntityWritten, k - 1), EntityWritten[k])
              = Arrives(entities[j], EntityWritten[k])
<1>. DEFINE E == EntityWritten
            f == E[k]
            size == SizeOf[f.kind]
            o == SnapshotSize(j - 1) + EndOf(E, k - 1)
            of == entities[j]
<1>1. IsLayout(E) /\ Len(E) = 10 /\ EndOf(E, 10) = EntitySize /\ EntitySize \in Nat
  BY EntityIs, SnapshotSizes
<1>2. k \in 1 .. Len(E) /\ f \in Field /\ f.name # "Padding"
  BY EntityNames
<1>3. /\ Len(p) = n /\ n \in Nat /\ \A i \in 1 .. n : p[i] = b[i]
  <2>1. Len(b) \in Nat /\ n \in 0 .. Len(b)
    BY SeqIs DEF Prefix
  <2>. QED
    BY <2>1, Cut DEF Prefix
<1>4. /\ j - 1 \in Nat /\ SnapshotSize(j - 1) \in Nat
      /\ SnapshotSize(j) = SnapshotSize(j - 1) + EntitySize
  <2>1. Len(entities) \in Nat
    BY DEF IsSnapshot
  <2>2. j - 1 \in Nat /\ (j - 1) + 1 = j
    BY <2>1
  <2>3. /\ SnapshotSize(j - 1) \in Nat
        /\ SnapshotSize((j - 1) + 1) = SnapshotSize(j - 1) + EntitySize
    BY <2>2, SnapshotSizes
  <2>. QED
    BY <2>2, <2>3
<1>5. /\ EndOf(E, k - 1) \in Nat /\ size \in Nat
      /\ EndOf(E, k - 1) + size <= EntitySize
  <2>1. /\ EndOf(E, k - 1) \in Nat /\ size \in Nat
        /\ EndOf(E, k) = EndOf(E, k - 1) + size /\ EndOf(E, k) <= EndOf(E, Len(E))
    BY <1>1, <1>2, FieldsEnd
  <2>. QED
    BY <2>1, <1>1
<1>6. \A i \in 1 .. size : b[o + i] = Encoded(of, f)[i]
  BY <1>2 DEF IsSnapshot
<1>7. /\ Encoded(of, f) = [i \in 1 .. size |-> Encoded(of, f)[i]]
      /\ Taken(f, Encoded(of, f)) = Arrives(of, f)
  <2>1. f.kind \in Kind
    BY <1>2 DEF Field
  <2>. HIDE DEF f, of, E
  <2>2. IsSeq(Encoded(of, f)) /\ Len(Encoded(of, f)) = size
    BY <2>1, EncodedIs
  <2>. QED
    BY <2>2, <1>2, SeqIs, TakenIs
<1>. HIDE DEF E, f, size, of
<1>8. \A i \in 1 .. size : p[o + i] = Encoded(of, f)[i]
  <2>1. ASSUME NEW i \in 1 .. size
        PROVE  o + i \in 1 .. n
    <3>1. EndOf(E, k - 1) + i \in 1 .. EntitySize
      BY <1>1, <1>5
    <3>2. SnapshotSize(j - 1) + (EndOf(E, k - 1) + i) \in 1 .. n
      BY <3>1, <1>1, <1>3, <1>4
    <3>3. o + i = SnapshotSize(j - 1) + (EndOf(E, k - 1) + i)
      BY <1>4, <1>5
    <3>. QED
      BY <3>2, <3>3
  <2>. HIDE DEF o
  <2>. QED
    BY <2>1, <1>3, <1>6
<1>. HIDE DEF o
<1>9. [i \in 1 .. size |-> p[o + i]] = Encoded(of, f)
  BY <1>7, <1>8
<1>10. FieldAt(p, o, f) = Arrives(of, f)
  BY <1>7, <1>9 DEF FieldAt, size
<1>. QED
  BY <1>10 DEF o, E, f, of

\* One entity more.
LEMMA HasEntitiesNext ==
    ASSUME NEW b, NEW m, NEW entities, IsSnapshot(b, m, entities), IsSeq(b),
           NEW p, NEW n, Prefix(p, n, b),
           NEW k \in 1 .. Len(entities), NEW s, HasEntities(s, k - 1, p, n, entities)
    PROVE  HasEntities(ReadEntity(s), k, p, n, entities)
<1>. DEFINE t == ReadEntity(s)
            M == Structs(p)
<1>1. IsSeq(p) /\ Len(p) = n /\ n \in Nat
  <2>1. Len(b) \in Nat /\ n \in 0 .. Len(b)
    BY SeqIs DEF Prefix
  <2>. QED
    BY <2>1, Cut DEF Prefix
<1>2. s \in Readers(p, Seq(M))
  BY DEF HasEntities
<1>3. HasReadEntity(t, p, s)
  BY <1>1, <1>2, ReadEntityIs
<1>4. /\ k \in Nat /\ k - 1 \in Nat
      /\ SnapshotSize(k) = SnapshotSize(k - 1) + EntitySize
      /\ \A j \in 1 .. k : /\ j \in 1 .. Len(entities) /\ SnapshotSize(j) <= SnapshotSize(k)
                           /\ SnapshotSize(j) \in Nat
  <2>1. Len(entities) \in Nat
    BY DEF IsSnapshot
  <2>2. k \in Nat /\ k - 1 \in Nat /\ (k - 1) + 1 = k
    BY <2>1
  <2>3. SnapshotSize((k - 1) + 1) = SnapshotSize(k - 1) + EntitySize
    BY <2>2, SnapshotSizes
  <2>4. ASSUME NEW j \in 1 .. k
        PROVE  /\ j \in 1 .. Len(entities) /\ SnapshotSize(j) <= SnapshotSize(k)
               /\ SnapshotSize(j) \in Nat
    <3>1. j \in Nat /\ j <= k /\ j \in 1 .. Len(entities)
      BY <2>1, <2>2
    <3>. QED
      BY <3>1, <2>2, SnapshotsGrow, SnapshotSizes
  <2>. QED
    BY <2>2, <2>3, <2>4
<1>. HIDE DEF t
<1>5. ASSUME ~t.err
      PROVE  /\ t.i = SnapshotSize(k) /\ t.i <= n /\ Len(t.m) = k
             /\ \A j \in 1 .. k : IsTold(t.m[j], entities[j])
  <2>1. /\ ~s.err /\ t.i = s.i + EntitySize /\ (s.i <= Len(p) => t.i <= Len(p))
        /\ \E e \in M :
              /\ t.m = Append(s.m, e)
              /\ \A l \in Told : e[EntityWritten[l].name]
                     = FieldAt(p, s.i + EndOf(EntityWritten, l - 1), EntityWritten[l])
    BY <1>3, <1>5 DEF HasReadEntity
  <2>2. /\ s.i = SnapshotSize(k - 1) /\ s.i <= n /\ Len(s.m) = k - 1
        /\ \A j \in 1 .. k - 1 : IsTold(s.m[j], entities[j])
    BY <2>1 DEF HasEntities
  <2>3. PICK e \in M :
              /\ t.m = Append(s.m, e)
              /\ \A l \in Told : e[EntityWritten[l].name]
                     = FieldAt(p, s.i + EndOf(EntityWritten, l - 1), EntityWritten[l])
    BY <2>1
  <2>4. t.i = SnapshotSize(k) /\ t.i <= n
    BY <2>1, <2>2, <1>1, <1>4
  <2>5. IsTold(e, entities[k])
    <3>1. SnapshotSize(k) <= n
      BY <2>4
    <3>2. ASSUME NEW l \in Told
          PROVE  e[EntityWritten[l].name] = Arrives(entities[k], EntityWritten[l])
      <4>1. e[EntityWritten[l].name]
              = FieldAt(p, SnapshotSize(k - 1) + EndOf(EntityWritten, l - 1),
                        EntityWritten[l])
        BY <2>2, <2>3
      <4>2. FieldAt(p, SnapshotSize(k - 1) + EndOf(EntityWritten, l - 1), EntityWritten[l])
              = Arrives(entities[k], EntityWritten[l])
        BY <3>1, EntityAt
      <4>. QED
        BY <4>1, <4>2
    <3>. QED
      BY <3>2 DEF IsTold
  <2>6. s.m \in Seq(M)
    <3>. HIDE DEF M
    <3>. QED
      BY <1>2 DEF Readers
  <2>. HIDE DEF M
  <2>7. /\ Len(t.m) = k /\ t.m[k] = e
        /\ \A j \in 1 .. k - 1 : t.m[j] = s.m[j]
    BY <2>2, <2>3, <2>6, <1>4
  <2>8. ASSUME NEW j \in 1 .. k
        PROVE  IsTold(t.m[j], entities[j])
    <3>1. j = k \/ j \in 1 .. k - 1
      BY <1>4
    <3>. QED
      BY <3>1, <2>2, <2>5, <2>7
  <2>. QED
    BY <2>4, <2>7, <2>8
<1>6. t \in Readers(p, Seq(M))
  BY <1>3 DEF HasReadEntity
<1>7. HasEntities(t, k, p, n, entities)
  BY <1>5, <1>6 DEF HasEntities
<1>. QED
  BY <1>7 DEF t

\* The reader that has read n entities more.
After(base, n) ==
    LET read[k \in 0 .. n] == IF k = 0 THEN base ELSE ReadEntity(read[k - 1])
    IN  read[n]

\* By induction over the entities, all of them are read.
LEMMA EntitiesRead ==
    ASSUME NEW b, NEW m, NEW entities, IsSnapshot(b, m, entities), IsSeq(b),
           NEW p, NEW n, Prefix(p, n, b), NEW base, HasEntities(base, 0, p, n, entities)
    PROVE  HasEntities(After(base, Len(entities)), Len(entities), p, n, entities)
<1>. DEFINE c == Len(entities)
            S == Readers(p, Seq(Structs(p)))
            step == [q \in (1 .. c) \X S |-> ReadEntity(q[2])]
            Def(h) == [k \in 0 .. c |-> IF k = 0 THEN base ELSE ReadEntity(h[k - 1])]
            read == CHOOSE h : h = Def(h)
<1>1. c \in Nat
  BY DEF IsSnapshot
<1>2. IsSeq(p)
  <2>1. n \in 0 .. Len(b)
    BY DEF Prefix
  <2>. QED
    BY <2>1, Cut DEF Prefix
<1>3. step \in [(1 .. c) \X S -> S]
  <2>1. ASSUME NEW s \in S PROVE ReadEntity(s) \in S
    <3>1. HasReadEntity(ReadEntity(s), p, s)
      BY <1>2, ReadEntityIs
    <3>. QED
      BY <3>1 DEF HasReadEntity
  <2>. HIDE DEF S, c
  <2>. QED
    BY <2>1
<1>4. PICK g : Goes(g, S, base, c, step)
  <2>1. base \in S
    BY DEF HasEntities
  <2>. HIDE DEF S, c, step
  <2>. QED
    BY <2>1, <1>1, <1>3, Recursion
<1>5. g = Def(g)
  <2>1. ASSUME NEW k \in 1 .. c PROVE g[k] = ReadEntity(g[k - 1])
    <3>1. g[k - 1] \in S /\ g[k] = step[<<k, g[k - 1]>>]
      <4>. HIDE DEF S, c, step
      <4>1. k - 1 \in 0 .. c
        BY <1>1
      <4>. QED
        BY <1>4, <4>1 DEF Goes
    <3>2. <<k, g[k - 1]>> \in (1 .. c) \X S
      BY <3>1
    <3>. HIDE DEF S, c
    <3>. QED
      BY <3>1, <3>2
  <2>2. \A k \in 0 .. c : k = 0 \/ k \in 1 .. c
    BY <1>1
  <2>. HIDE DEF S, c, step
  <2>. QED
    BY <1>4, <2>1, <2>2 DEF Goes
<1>6. read = Def(read)
  <2>. HIDE DEF Def
  <2>. QED
    BY <1>5
<1>7. After(base, c) = read[c]
  BY DEF After
<1>. HIDE DEF read, step
<1>8. /\ read[0] = base
      /\ \A k \in 1 .. c : read[k] = ReadEntity(read[k - 1])
  BY <1>1, <1>6
<1>. HIDE DEF Def
<1>9. \A k \in 0 .. c : HasEntities(read[k], k, p, n, entities)
  <2>. DEFINE A == {k \in 0 .. c : HasEntities(read[k], k, p, n, entities)}
  <2>1. 0 \in A
    BY <1>1, <1>8
  <2>2. ASSUME NEW k \in 1 .. c, k - 1 \in A PROVE k \in A
    <3>1. HasEntities(read[k - 1], k - 1, p, n, entities) /\ k \in 0 .. c
      BY <2>2
    <3>2. HasEntities(ReadEntity(read[k - 1]), k, p, n, entities)
      BY <3>1, HasEntitiesNext
    <3>. QED
      BY <3>1, <3>2, <1>8
  <2>3. \A k \in 0 .. c : k \in A
    <3>. HIDE DEF A, c
    <3>. QED
      BY <1>1, <2>1, <2>2, Induction
  <2>. QED
    BY <2>3
<1>10. c \in 0 .. c
  BY <1>1
<1>. QED
  BY <1>7, <1>9, <1>10

\* The count of a snapshot that fits into a datagram does not wrap.
LEMMA CountFits ==
    ASSUME NEW b, NEW m, NEW entities, IsSnapshot(b, m, entities), Len(b) <= MaxDatagram
    PROVE  Len(entities) \in Nat /\ Len(entities) % U16 = Len(entities)
<1>1. /\ Len(entities) \in Nat /\ Len(b) = SnapshotSize(Len(entities))
      /\ U16 \in Nat /\ U16 > 0 /\ MaxDatagram \in Nat
      /\ SnapshotSize(U16) > MaxDatagram
  BY Sizes, CountAssumption DEF IsSnapshot
<1>2. /\ SnapshotSize(Len(entities)) \in Nat /\ SnapshotSize(U16) \in Nat
  BY <1>1, SnapshotSizes
<1>3. Len(entities) < U16
  <2>1. SUFFICES ASSUME U16 <= Len(entities) PROVE FALSE
    BY <1>1
  <2>2. SnapshotSize(U16) <= SnapshotSize(Len(entities))
    BY <2>1, <1>1, SnapshotsGrow
  <2>. QED
    BY <2>2, <1>1, <1>2
<1>. QED
  BY <1>1, <1>3

\* Of a snapshot that is cut anywhere, what can be decoded is the whole of it.
LEMMA SnapshotGot ==
    ASSUME NEW b, NEW m, NEW entities, IsSnapshot(b, m, entities), IsSeq(b),
           Len(b) <= MaxDatagram, NEW p, NEW n, Prefix(p, n, b), HeaderOK(p)
    PROVE  /\ TypeOf(p) = "Snapshot"
           /\ DecodeSnapshot(p).ok =>
                 /\ n = Len(b)
                 /\ Len(DecodeSnapshot(p).entities) = Len(entities)
                 /\ IsSeq(DecodeSnapshot(p).entities)
                 /\ \A j \in 1 .. Len(entities) :
                       IsTold(DecodeSnapshot(p).entities[j], entities[j])
<1>. DEFINE c == Len(entities)
            type == "Snapshot"
            layout == Written[type]
            field == Headed(m, c)
            head == ReadRecord(Reader(p, HeaderSize), FieldsRead[type])
            base == [head EXCEPT !.m = <<>>]
            M == Structs(p)
<1>1. c \in Nat /\ c % U16 = c
  BY CountFits
<1>2. /\ TypeOf(p) = type /\ IsSeq(p) /\ Len(p) = n
      /\ head \in Readers(p, M)
      /\ WhollyRead(head, n, layout, field)
  <2>1. type \in Types
    BY DEF Types
  <2>2. Begins(b, type, field)
    BY DEF IsSnapshot
  <2>3. layout = Written[type] /\ head = ReadRecord(Reader(p, HeaderSize), FieldsRead[type])
    OBVIOUS
  <2>. HIDE DEF type, layout, head, field
  <2>. QED
    BY <2>1, <2>2, <2>3, BeginsRead
<1>3. DecodeSnapshot(p)
        = IF head.err THEN Refused
          ELSE Result([After(base, head.m.Count[2]) EXCEPT !.m = head.m],
                      After(base, head.m.Count[2]).m)
  BY DEF DecodeSnapshot, After
<1>4. Len(layout) = 4 /\ layout[3] = F("Count", "u16") /\ IsLayout(layout)
  <2>1. "Snapshot" \in Types
    BY DEF Types
  <2>. QED
    BY <2>1, WrittenIs, Layouts
<1>5. ~head.err => /\ head.i = SnapshotSize(0) /\ head.i <= n
                   /\ head.m.Count[2] = c
  <2>1. SUFFICES ASSUME ~head.err
                 PROVE  /\ head.i = SnapshotSize(0) /\ head.i <= n
                        /\ head.m.Count[2] = c
    OBVIOUS
  <2>2. /\ head.i = HeaderSize + EndOf(layout, 4) /\ head.i <= n
        /\ LastOf(layout, 3) => head.m[layout[3].name] = Taken(layout[3], field[3])
    <3>. HIDE DEF head, layout, field
    <3>. QED
      BY <2>1, <1>2, <1>4 DEF WhollyRead
  <2>3. LastOf(layout, 3) /\ layout[3].name = "Count" /\ layout[3].kind = "u16"
    <3>1. "Snapshot" \in Types /\ 3 \in 1 .. Len(layout)
      BY <1>4 DEF Types
    <3>. QED
      BY <3>1, <1>4, MessageNames, PartsOf
  <2>4. Taken(layout[3], field[3]) = Put(m, "Count", Num("Count", c % U16))["Count"]
    <3>. DEFINE put == Put(m, "Count", Num("Count", c % U16))
    <3>1. "Snapshot" \in Types /\ 3 \in 1 .. Len(Written["Snapshot"])
      BY <1>4 DEF Types
    <3>. HIDE DEF put
    <3>2. Taken(Written["Snapshot"][3], FieldsOf(put, Written["Snapshot"])[3])
             = Arrives(put, Written["Snapshot"][3])
      BY <3>1, FieldsArrive
    <3>3. Arrives(put, layout[3]) = put["Count"]
      <4>. HIDE DEF layout
      <4>. QED
        BY <2>3 DEF Arrives, Text
    <3>4. field = FieldsOf(put, Written["Snapshot"])
      BY DEF Headed, put
    <3>. QED
      BY <3>2, <3>3, <3>4 DEF put
  <2>5. Put(m, "Count", Num("Count", c % U16))["Count"] = Num("Count", c)
    BY <1>1 DEF Put
  <2>6. Num("Count", c)[2] = c
    BY DEF Num
  <2>7. head.i = SnapshotSize(0)
    BY <2>2, SnapshotSizes
  <2>. HIDE DEF head, layout, field, c
  <2>. QED
    BY <2>2, <2>3, <2>4, <2>5, <2>6, <2>7
<1>. HIDE DEF head, layout, field
<1>6. ASSUME DecodeSnapshot(p).ok
      PROVE  /\ n = Len(b)
             /\ Len(DecodeSnapshot(p).entities) = c
             /\ IsSeq(DecodeSnapshot(p).entities)
             /\ \A j \in 1 .. c :
                   IsTold(DecodeSnapshot(p).entities[j], entities[j])
  <2>1. ~head.err
    BY <1>3, <1>6 DEF Refused
  <2>2. HasEntities(base, 0, p, n, entities)
    <3>1. <<>> \in Seq(M) /\ Len(<<>>) = 0
      OBVIOUS
    <3>2. /\ base \in Readers(p, Seq(M)) /\ base.i = head.i
          /\ base.m = <<>>
      <4>. HIDE DEF M
      <4>. QED
        BY <3>1, <1>2 DEF Readers
    <3>3. \A j \in 1 .. 0 : FALSE
      OBVIOUS
    <3>. HIDE DEF base
    <3>. QED
      BY <2>1, <3>1, <3>2, <3>3, <1>5 DEF HasEntities
  <2>. DEFINE r == After(base, c)
  <2>3. HasEntities(r, c, p, n, entities)
    <3>. HIDE DEF base
    <3>. QED
      BY <2>2, EntitiesRead
  <2>4. DecodeSnapshot(p) = Result([r EXCEPT !.m = head.m], r.m)
    BY <2>1, <1>3, <1>5
  <2>5. r \in Readers(p, Seq(M))
    BY <2>3 DEF HasEntities
  <2>. HIDE DEF r
  <2>6. ~r.err /\ DecodeSnapshot(p).entities = r.m
    <3>1. [r EXCEPT !.m = head.m].err = r.err
      <4>. HIDE DEF M
      <4>. QED
        BY <2>5 DEF Readers
    <3>. DEFINE e == [r EXCEPT !.m = head.m]
    <3>. HIDE DEF e
    <3>2. DecodeSnapshot(p) = Result(e, r.m) /\ e.err = r.err
      BY <2>4, <3>1 DEF e
    <3>. QED
      BY <3>2, <1>6 DEF Result, Refused
  <2>7. /\ r.i = SnapshotSize(c) /\ r.i <= n /\ Len(r.m) = c
        /\ \A j \in 1 .. c : IsTold(r.m[j], entities[j])
    BY <2>3, <2>6 DEF HasEntities
  <2>8. n = Len(b)
    <3>1. Len(b) = SnapshotSize(c) /\ Len(b) \in Nat /\ n \in 0 .. Len(b)
      BY SeqIs DEF IsSnapshot, Prefix
    <3>. QED
      BY <2>7, <3>1
  <2>9. IsSeq(r.m)
    <3>1. r.m \in Seq(M)
      <4>. HIDE DEF M
      <4>. QED
        BY <2>5 DEF Readers
    <3>. QED
      BY <3>1 DEF IsSeq
  <2>. QED
    BY <2>6, <2>7, <2>8, <2>9
<1>. QED
  BY <1>2, <1>6

-----------------------------------------------------------------------------
(* The inductive invariant *)

\* What the player p asked for is a.
IsName(name, a) == IF a.name = <<>> THEN name = DefaultName
                   ELSE a.name \in Raw("name") /\ name = CString(a.name)

SampleOf(s) == [time |-> Num("time", s), transform |-> Num("transform", s),
                telemetry |-> Num("telemetry", s)]

\* The session with these fields, and what was asked for.
Player(name, car, sample, rtt) ==
    [on : {TRUE}, name : {name}, car : {car}, sample : {sample}, rtt : {rtt}]
Asked(name, car) == [name : {name}, car : {car}, text : {<<>>}]

IsPlayer(p, a) ==
    /\ p \in Player(p.name, p.car, p.sample, p.rtt)
    /\ a \in Asked(a.name, a.car)
    /\ IsName(p.name, a)
    /\ a.car # <<>> => a.car \in Raw("name") /\ p.car = CString(a.car)
    /\ p.sample = NoSample \/ \E s \in Sample : p.sample = SampleOf(s)
    /\ p.rtt \in Nat

\* What the server sends.
IsPlain(d) == \E type \in {"Welcome", "Ping"} : \E m : d.b = Encode(type, m)
IsChat(d, p) == \E m : /\ d.b = Encode("Chat", m) /\ p.on
                       /\ m.PlayerID = Num("id", 1) /\ m.Name = p.name
                       /\ d.of \in Raw("text") /\ m.Text = CString(d.of)
IsKick(d) == \E m : /\ d.b = Encode("Kick", m) /\ m.Reason = d.of
                    /\ IsSeq(d.of) /\ \A i \in 1 .. Len(d.of) : d.of[i] # NUL
EntityOf(p, k) ==
    [ID |-> Num("id", k), Flags |-> Num("flags", 0), Name |-> p.name, Car |-> p.car,
     Transform |-> p.sample.transform, Telemetry |-> p.sample.telemetry,
     SampleTimeMs |-> p.sample.time, PingMs |-> Num("ping", ClampPing(p.rtt))]
IsShowing(d, p) ==
    \E m, entities :
        /\ d.b = EncodeSnapshot(m, entities) /\ IsSeq(entities)
        /\ d.of \in Nat /\ Len(entities) = d.of
        /\ d.of > 0 => p.on /\ p.sample # NoSample
        /\ \A j \in 1 .. d.of : entities[j] = EntityOf(p, j)
IsSending(d, p) ==
    Len(d.b) <= MaxDatagram /\ (IsPlain(d) \/ IsChat(d, p) \/ IsKick(d) \/ IsShowing(d, p))

\* What the client saw is whole, and says what the player p asked for and sent.
IsShown(name, a) == IF a.name = <<>> THEN name = DefaultName
                    ELSE Shows(name, a.name, "name")
EntityRight(e, k, p, a) ==
    /\ IsShown(e.Name, a) /\ (a.car # <<>> => Shows(e.Car, a.car, "name"))
    /\ e.ID = Num("id", k)
    /\ \E s \in Sample : /\ e.Transform = Num("transform", s)
                         /\ e.Telemetry = Num("telemetry", s)
                         /\ e.SampleTimeMs = Num("time", s)
    /\ e.PingMs[1] = "ping"
    /\ \/ e.PingMs[2] = p.rtt
       \/ (e.PingMs[2] = U16 - 1 /\ e.PingMs[2] < p.rtt)
Right(s, p, a) ==
    /\ s.whole
    /\ s.type = "Snapshot" =>
          /\ IsSeq(s.entities) /\ Len(s.entities) = s.of
          /\ \A k \in 1 .. Len(s.entities) : EntityRight(s.entities[k], k, p, a)
    /\ s.type = "Chat" => /\ s.m.PlayerID = Num("id", 1) /\ IsShown(s.m.Name, a)
                          /\ Shows(s.m.Text, s.of, "text")
    /\ s.type = "Kick" => Shows(s.m.Reason, s.of, "reason")

\* Of the datagrams on their way and what was seen there is one at a time.
Inv ==
    /\ up.on => ~down.on /\ ~seen.on /\ IsSent(up)
    /\ down.on => ~seen.on /\ IsSending(down, player)
    /\ player.on => IsPlayer(player, asked)
    /\ ~player.on => player = None
    /\ seen.on => Right(seen, player, asked)

\* The invariant says what the properties say.
LEMMA InvSays ==
    ASSUME Inv
    PROVE  TextsAsGiven /\ SnapshotIsWhole /\ PingNotBelow
<1>1. CASE ~seen.on
  BY <1>1 DEF TextsAsGiven, SnapshotIsWhole, PingNotBelow
<1>2. CASE seen.on
  <2>1. Right(seen, player, asked)
    BY <1>2 DEF Inv
  <2>2. ASSUME seen.type = "Snapshot"
        PROVE  /\ Len(seen.entities) = seen.of
               /\ \A k \in 1 .. Len(seen.entities) :
                     EntityRight(seen.entities[k], k, player, asked)
               /\ \A e \in Range(seen.entities) :
                     \E k \in 1 .. Len(seen.entities) : EntityRight(e, k, player, asked)
    <3>1. /\ IsSeq(seen.entities) /\ Len(seen.entities) = seen.of
          /\ \A k \in 1 .. Len(seen.entities) :
                EntityRight(seen.entities[k], k, player, asked)
      BY <2>1, <2>2 DEF Right
    <3>2. DOMAIN seen.entities = 1 .. Len(seen.entities)
      BY <3>1 DEF IsSeq
    <3>. QED
      BY <3>1, <3>2 DEF Range
  <2>3. TextsAsGiven
    <3>1. seen.type = "Snapshot" =>
            \A e \in Range(seen.entities) :
               /\ IsShown(e.Name, asked)
               /\ asked.car # <<>> => Shows(e.Car, asked.car, "name")
      BY <2>2 DEF EntityRight
    <3>2. /\ seen.type = "Chat" =>
                /\ seen.m.PlayerID = Num("id", 1) /\ IsShown(seen.m.Name, asked)
                /\ Shows(seen.m.Text, seen.of, "text")
          /\ seen.type = "Kick" => Shows(seen.m.Reason, seen.of, "reason")
      BY <2>1 DEF Right
    <3>. QED
      BY <3>1, <3>2 DEF TextsAsGiven, IsShown
  <2>4. SnapshotIsWhole
    BY <2>2 DEF SnapshotIsWhole, EntityRight
  <2>5. PingNotBelow
    BY <2>2 DEF PingNotBelow, EntityRight
  <2>. QED
    BY <2>3, <2>4, <2>5
<1>. QED
  BY <1>1, <1>2

-----------------------------------------------------------------------------
(* What the client sees *)

\* A text a client sent is shown as it is, as far as it fits.
LEMMA RawShown ==
    ASSUME NEW kind \in Text, NEW raw \in Raw(kind)
    PROVE  Shows(CString(Padded(CString(raw), SizeOf[kind])), raw, kind)
<1>1. IsSeq(raw)
  BY RawIs
<1>2. PICK k : TextOf(CString(raw), k, raw)
  BY <1>1, CStringIs
<1>. QED
  BY <1>1, <1>2, ShowsPadded

\* So is a name, whether it was asked for or not.
LEMMA NameShown ==
    ASSUME NEW name, NEW a, IsName(name, a)
    PROVE  IsShown(CString(Padded(name, SizeOf["name"])), a)
<1>1. CASE a.name = <<>>
  BY <1>1, DefaultNameShown DEF IsName, IsShown
<1>2. CASE a.name # <<>>
  <2>1. a.name \in Raw("name") /\ name = CString(a.name)
    BY <1>2 DEF IsName
  <2>2. "name" \in Text
    BY DEF Text
  <2>3. Shows(CString(Padded(CString(a.name), SizeOf["name"])), a.name, "name")
    BY <2>1, <2>2, RawShown
  <2>. QED
    BY <1>2, <2>1, <2>3 DEF IsShown
<1>. QED
  BY <1>1, <1>2

\* A round trip is shown, or the longest there is.
LEMMA ClampIs ==
    ASSUME NEW ms \in Nat
    PROVE  ClampPing(ms) = ms \/ (ClampPing(ms) = U16 - 1 /\ ClampPing(ms) < ms)
BY Sizes DEF ClampPing

\* An entity of a snapshot tells what the player is.
LEMMA EntityIsRight ==
    ASSUME NEW p, NEW a, IsPlayer(p, a), p.sample # NoSample,
           NEW e, NEW k, IsTold(e, EntityOf(p, k))
    PROVE  EntityRight(e, k, p, a)
<1>. DEFINE E == EntityWritten
            of == EntityOf(p, k)
<1>1. /\ of.ID = Num("id", k) /\ of.Name = p.name /\ of.Car = p.car
      /\ of.Transform = p.sample.transform /\ of.Telemetry = p.sample.telemetry
      /\ of.SampleTimeMs = p.sample.time /\ of.PingMs = Num("ping", ClampPing(p.rtt))
  BY DEF EntityOf
<1>. HIDE DEF of
<1>2. \A l \in Told : e[E[l].name] = Arrives(of, E[l])
  BY DEF IsTold, of
<1>3. /\ E[1] = F("ID", "u32") /\ E[4] = F("Name", "name") /\ E[5] = F("Car", "name")
      /\ E[6] = Transform /\ E[7] = Telemetry /\ E[8] = F("SampleTimeMs", "u32")
      /\ E[9] = F("PingMs", "u16")
  BY EntityIs
<1>. HIDE DEF E
<1>4. e.Name = CString(Padded(p.name, SizeOf["name"]))
  <2>1. 4 \in Told /\ E[4].name = "Name" /\ E[4].kind = "name" /\ "name" \in Text
    BY <1>3, PartsOf DEF Told, Text
  <2>2. e["Name"] = Arrives(of, E[4])
    BY <2>1, <1>2
  <2>. QED
    BY <2>1, <2>2, <1>1 DEF Arrives
<1>5. e.Car = CString(Padded(p.car, SizeOf["name"]))
  <2>1. 5 \in Told /\ E[5].name = "Car" /\ E[5].kind = "name" /\ "name" \in Text
    BY <1>3, PartsOf DEF Told, Text
  <2>2. e["Car"] = Arrives(of, E[5])
    BY <2>1, <1>2
  <2>. QED
    BY <2>1, <2>2, <1>1 DEF Arrives
<1>6. ASSUME NEW l \in Told, E[l].kind \notin Text
      PROVE  e[E[l].name] = of[E[l].name]
  BY <1>2, <1>6 DEF Arrives
<1>7. /\ e.ID = Num("id", k) /\ e.Transform = p.sample.transform
      /\ e.Telemetry = p.sample.telemetry /\ e.SampleTimeMs = p.sample.time
      /\ e.PingMs = Num("ping", ClampPing(p.rtt))
  <2>1. /\ E[1].name = "ID" /\ E[6].name = "Transform" /\ E[7].name = "Telemetry"
        /\ E[8].name = "SampleTimeMs" /\ E[9].name = "PingMs"
        /\ \A l \in {1, 6, 7, 8, 9} : l \in Told /\ E[l].kind \notin Text
    BY <1>3, PartsOf DEF Told, Text, Transform, Telemetry
  <2>. QED
    BY <2>1, <1>1, <1>6
<1>8. IsShown(e.Name, a)
  BY <1>4, NameShown DEF IsPlayer
<1>9. a.car # <<>> => Shows(e.Car, a.car, "name")
  <2>1. "name" \in Text
    BY DEF Text
  <2>. QED
    BY <2>1, <1>5, RawShown DEF IsPlayer
<1>10. \E s \in Sample : /\ e.Transform = Num("transform", s)
                         /\ e.Telemetry = Num("telemetry", s)
                         /\ e.SampleTimeMs = Num("time", s)
  <2>1. PICK s \in Sample : p.sample = SampleOf(s)
    BY DEF IsPlayer
  <2>. QED
    BY <2>1, <1>7 DEF SampleOf
<1>11. /\ e.PingMs[1] = "ping"
       /\ \/ e.PingMs[2] = p.rtt
          \/ (e.PingMs[2] = U16 - 1 /\ e.PingMs[2] < p.rtt)
  <2>1. p.rtt \in Nat
    BY DEF IsPlayer
  <2>2. e.PingMs[1] = "ping" /\ e.PingMs[2] = ClampPing(p.rtt)
    BY <1>7 DEF Num
  <2>. QED
    BY <2>1, <2>2, ClampIs
<1>. QED
  BY <1>7, <1>8, <1>9, <1>10, <1>11 DEF EntityRight

\* What a client decodes of the first n bytes of a datagram.
Decoded(b) == IF ~HeaderOK(b) THEN Refused
              ELSE IF TypeOf(b) = "Snapshot" THEN DecodeSnapshot(b) ELSE Decode(b)
Noticed(b, d, n) == [on |-> TRUE, type |-> TypeOf(b), m |-> Decoded(b).m,
                     entities |-> Decoded(b).entities, whole |-> n = Len(d.b), of |-> d.of]

\* got has what arrives of every field of m.
AllArrive(got, m, type) ==
    \A k \in 1 .. Len(Written[type]) :
        got[Written[type][k].name] = Arrives(m, Written[type][k])

\* A message of one record, as the client takes notice of it.
LEMMA MessageNoticed ==
    ASSUME NEW d, NEW type \in Types, type # "Snapshot", NEW m, d.b = Encode(type, m),
           NEW p, NEW n, Prefix(p, n, d.b), Decoded(p).ok
    PROVE  n = Len(d.b) /\ TypeOf(p) = type /\ AllArrive(Decoded(p).m, m, type)
<1>. DEFINE b == d.b
            field == FieldsOf(m, Written[type])
<1>1. HeaderOK(p)
  BY DEF Decoded, Refused
<1>2. Message(b, type, field)
  BY EncodeIs
<1>3. \A k \in 1 .. Len(Written[type]) :
        Taken(Written[type][k], field[k]) = Arrives(m, Written[type][k])
  BY FieldsArrive
<1>4. Prefix(p, n, b)
  OBVIOUS
<1>. HIDE DEF b, field
<1>5. /\ TypeOf(p) = type
      /\ Decode(p).ok =>
            /\ n = Len(b)
            /\ \A k \in 1 .. Len(Written[type]) :
                  Decode(p).m[Written[type][k].name] = Taken(Written[type][k], field[k])
  BY <1>1, <1>2, <1>4, MessageArrives
<1>6. Decoded(p) = Decode(p)
  BY <1>1, <1>5 DEF Decoded
<1>. QED
  BY <1>3, <1>5, <1>6 DEF b, AllArrive

\* A line of chat is of its author, under the name asked for, and as typed.
LEMMA ChatNoticed ==
    ASSUME NEW d, NEW q, NEW a, IsPlayer(q, a), NEW m, d.b = Encode("Chat", m),
           m.PlayerID = Num("id", 1), m.Name = q.name,
           d.of \in Raw("text"), m.Text = CString(d.of),
           NEW p, NEW n, Prefix(p, n, d.b), Decoded(p).ok
    PROVE  /\ n = Len(d.b) /\ TypeOf(p) = "Chat"
           /\ Decoded(p).m.PlayerID = Num("id", 1)
           /\ IsShown(Decoded(p).m.Name, a)
           /\ Shows(Decoded(p).m.Text, d.of, "text")
<1>. DEFINE W == Written["Chat"]
<1>1. /\ n = Len(d.b) /\ TypeOf(p) = "Chat"
      /\ \A k \in 1 .. Len(W) : Decoded(p).m[W[k].name] = Arrives(m, W[k])
  <2>. DEFINE type == "Chat"
  <2>1. type \in Types /\ type # "Snapshot" /\ d.b = Encode(type, m)
    BY DEF Types
  <2>. HIDE DEF type
  <2>2. n = Len(d.b) /\ TypeOf(p) = type /\ AllArrive(Decoded(p).m, m, type)
    BY <2>1, MessageNoticed
  <2>. QED
    BY <2>2 DEF type, AllArrive
<1>2. /\ Len(W) = 3 /\ W[1] = F("PlayerID", "u32") /\ W[2] = F("Name", "name")
      /\ W[3] = F("Text", "text")
  BY WrittenIs
<1>. HIDE DEF W
<1>3. /\ W[1].name = "PlayerID" /\ W[1].kind \notin Text
      /\ W[2].name = "Name" /\ W[2].kind = "name"
      /\ W[3].name = "Text" /\ W[3].kind = "text"
      /\ "name" \in Text /\ "text" \in Text
      /\ 1 \in 1 .. Len(W) /\ 2 \in 1 .. Len(W) /\ 3 \in 1 .. Len(W)
  BY <1>2, PartsOf DEF Text
<1>4. /\ Decoded(p).m["PlayerID"] = Arrives(m, W[1])
      /\ Decoded(p).m["Name"] = Arrives(m, W[2])
      /\ Decoded(p).m["Text"] = Arrives(m, W[3])
  BY <1>1, <1>3
<1>5. /\ Arrives(m, W[1]) = m.PlayerID
      /\ Arrives(m, W[2]) = CString(Padded(m.Name, SizeOf["name"]))
      /\ Arrives(m, W[3]) = CString(Padded(m.Text, SizeOf["text"]))
  BY <1>3 DEF Arrives
<1>6. IsShown(CString(Padded(q.name, SizeOf["name"])), a)
  BY NameShown DEF IsPlayer
<1>7. Shows(CString(Padded(CString(d.of), SizeOf["text"])), d.of, "text")
  BY <1>3, RawShown
<1>. QED
  BY <1>1, <1>4, <1>5, <1>6, <1>7

\* A reason is as it was given.
LEMMA KickNoticed ==
    ASSUME NEW d, NEW m, d.b = Encode("Kick", m), m.Reason = d.of,
           IsSeq(d.of), \A i \in 1 .. Len(d.of) : d.of[i] # NUL,
           NEW p, NEW n, Prefix(p, n, d.b), Decoded(p).ok
    PROVE  /\ n = Len(d.b) /\ TypeOf(p) = "Kick"
           /\ Shows(Decoded(p).m.Reason, d.of, "reason")
<1>. DEFINE W == Written["Kick"]
            of == d.of
<1>1. /\ n = Len(d.b) /\ TypeOf(p) = "Kick"
      /\ \A k \in 1 .. Len(W) : Decoded(p).m[W[k].name] = Arrives(m, W[k])
  <2>. DEFINE type == "Kick"
  <2>1. type \in Types /\ type # "Snapshot" /\ d.b = Encode(type, m)
    BY DEF Types
  <2>. HIDE DEF type
  <2>2. n = Len(d.b) /\ TypeOf(p) = type /\ AllArrive(Decoded(p).m, m, type)
    BY <2>1, MessageNoticed
  <2>. QED
    BY <2>2 DEF type, AllArrive
<1>2. Len(W) = 1 /\ W[1] = F("Reason", "reason")
  BY WrittenIs
<1>. HIDE DEF W
<1>3. /\ W[1].name = "Reason" /\ W[1].kind = "reason" /\ "reason" \in Text
      /\ 1 \in 1 .. Len(W)
  BY <1>2, PartsOf DEF Text
<1>4. Decoded(p).m["Reason"] = CString(Padded(of, SizeOf["reason"]))
  BY <1>1, <1>3 DEF Arrives
<1>5. IsSeq(of) /\ \A i \in 1 .. Len(of) : of[i] # NUL
  OBVIOUS
<1>. HIDE DEF of
<1>6. TextOf(of, Len(of), of)
  BY <1>5, WholeText
<1>7. Shows(CString(Padded(of, SizeOf["reason"])), of, "reason")
  BY <1>3, <1>5, <1>6, ShowsPadded
<1>. QED
  BY <1>1, <1>4, <1>7 DEF of

\* A snapshot tells of everybody, and right.
LEMMA SnapshotNoticed ==
    ASSUME NEW d, NEW q, NEW a, q.on => IsPlayer(q, a), Len(d.b) <= MaxDatagram,
           NEW m, NEW entities, d.b = EncodeSnapshot(m, entities), IsSeq(entities),
           d.of \in Nat, Len(entities) = d.of,
           d.of > 0 => q.on /\ q.sample # NoSample,
           \A j \in 1 .. d.of : entities[j] = EntityOf(q, j),
           NEW p, NEW n, Prefix(p, n, d.b), Decoded(p).ok
    PROVE  /\ n = Len(d.b) /\ TypeOf(p) = "Snapshot"
           /\ IsSeq(Decoded(p).entities) /\ Len(Decoded(p).entities) = d.of
           /\ \A k \in 1 .. d.of : EntityRight(Decoded(p).entities[k], k, q, a)
<1>. DEFINE b == d.b
            of == d.of
<1>1. HeaderOK(p)
  BY DEF Decoded, Refused
<1>2. IsSnapshot(b, m, entities)
  BY EncodedSnapshot
<1>3. IsSeq(b) /\ Len(b) <= MaxDatagram /\ Prefix(p, n, b)
  <2>1. Begins(b, "Snapshot", Headed(m, Len(entities)))
    BY <1>2 DEF IsSnapshot
  <2>. QED
    BY <2>1 DEF Begins
<1>4. /\ of \in Nat /\ Len(entities) = of /\ (of > 0 => q.on /\ q.sample # NoSample)
      /\ \A j \in 1 .. of : entities[j] = EntityOf(q, j)
  OBVIOUS
<1>. HIDE DEF b, of
<1>5. /\ TypeOf(p) = "Snapshot"
      /\ DecodeSnapshot(p).ok =>
            /\ n = Len(b)
            /\ Len(DecodeSnapshot(p).entities) = Len(entities)
            /\ IsSeq(DecodeSnapshot(p).entities)
            /\ \A j \in 1 .. Len(entities) :
                  IsTold(DecodeSnapshot(p).entities[j], entities[j])
  BY <1>1, <1>2, <1>3, SnapshotGot
<1>6. Decoded(p) = DecodeSnapshot(p)
  BY <1>1, <1>5 DEF Decoded
<1>7. ASSUME NEW k \in 1 .. of
      PROVE  EntityRight(Decoded(p).entities[k], k, q, a)
  <2>1. IsTold(Decoded(p).entities[k], EntityOf(q, k))
    BY <1>4, <1>5, <1>6
  <2>2. of > 0
    BY <1>4
  <2>3. IsPlayer(q, a) /\ q.sample # NoSample
    BY <2>2, <1>4
  <2>. QED
    BY <2>1, <2>3, EntityIsRight
<1>. QED
  BY <1>4, <1>5, <1>6, <1>7 DEF b, of

\* What can be decoded of what the server sends is right.
LEMMA NoticedIs ==
    ASSUME NEW d, NEW q, NEW a, q.on => IsPlayer(q, a), IsSending(d, q),
           NEW p, NEW n, Prefix(p, n, d.b), Decoded(p).ok
    PROVE  Right(Noticed(p, d, n), q, a)
<1>. DEFINE s == Noticed(p, d, n)
<1>1. /\ s.type = TypeOf(p) /\ s.m = Decoded(p).m /\ s.entities = Decoded(p).entities
      /\ s.whole = (n = Len(d.b)) /\ s.of = d.of
  BY DEF Noticed
<1>. HIDE DEF s
<1>2. CASE IsPlain(d)
  <2>0. PICK type \in {"Welcome", "Ping"} : \E m : d.b = Encode(type, m)
    BY <1>2 DEF IsPlain
  <2>1. PICK m : d.b = Encode(type, m)
    BY <2>0
  <2>2. type \in Types /\ type \notin {"Snapshot", "Chat", "Kick"}
    BY DEF Types
  <2>3. n = Len(d.b) /\ TypeOf(p) = type
    BY <2>1, <2>2, MessageNoticed
  <2>. QED
    BY <2>2, <2>3, <1>1 DEF Right, s
<1>3. CASE IsChat(d, q)
  <2>1. PICK m : /\ d.b = Encode("Chat", m) /\ q.on
                 /\ m.PlayerID = Num("id", 1) /\ m.Name = q.name
                 /\ d.of \in Raw("text") /\ m.Text = CString(d.of)
    BY <1>3 DEF IsChat
  <2>2. IsPlayer(q, a)
    BY <2>1
  <2>3. /\ n = Len(d.b) /\ TypeOf(p) = "Chat"
        /\ Decoded(p).m.PlayerID = Num("id", 1)
        /\ IsShown(Decoded(p).m.Name, a)
        /\ Shows(Decoded(p).m.Text, d.of, "text")
    BY <2>1, <2>2, ChatNoticed
  <2>. QED
    BY <2>3, <1>1 DEF Right, s
<1>4. CASE IsKick(d)
  <2>1. PICK m : /\ d.b = Encode("Kick", m) /\ m.Reason = d.of
                 /\ IsSeq(d.of) /\ \A i \in 1 .. Len(d.of) : d.of[i] # NUL
    BY <1>4 DEF IsKick
  <2>2. /\ n = Len(d.b) /\ TypeOf(p) = "Kick"
        /\ Shows(Decoded(p).m.Reason, d.of, "reason")
    BY <2>1, KickNoticed
  <2>. QED
    BY <2>2, <1>1 DEF Right, s
<1>5. CASE IsShowing(d, q)
  <2>1. PICK m, entities :
           /\ d.b = EncodeSnapshot(m, entities) /\ IsSeq(entities)
           /\ d.of \in Nat /\ Len(entities) = d.of
           /\ d.of > 0 => q.on /\ q.sample # NoSample
           /\ \A j \in 1 .. d.of : entities[j] = EntityOf(q, j)
    BY <1>5 DEF IsShowing
  <2>2. Len(d.b) <= MaxDatagram
    BY DEF IsSending
  <2>3. /\ n = Len(d.b) /\ TypeOf(p) = "Snapshot"
        /\ IsSeq(Decoded(p).entities) /\ Len(Decoded(p).entities) = d.of
        /\ \A k \in 1 .. d.of : EntityRight(Decoded(p).entities[k], k, q, a)
    BY <2>1, <2>2, SnapshotNoticed
  <2>. QED
    BY <2>3, <1>1 DEF Right, s
<1>. QED
  BY <1>2, <1>3, <1>4, <1>5 DEF IsSending

-----------------------------------------------------------------------------
(* Every action keeps the invariant *)

\* What a client sends is a message, or a stray.
LEMMA ClientSendsInv ==
    ASSUME Inv, ClientSends
    PROVE  Inv'
<1>1. /\ ~up.on /\ ~down.on /\ seen' = None
      /\ player' = player /\ down' = down /\ asked' = asked
  BY DEF ClientSends
<1>2. up'.on => IsSent(up')
  <2>1. CASE SendHello
    <3>1. PICK name \in Raw("name"), car \in Raw("name") :
             Sent(Header(3, "Hello") \o name \o car,
                  [NoText EXCEPT !.name = name, !.car = car])
      BY <2>1 DEF SendHello
    <3>. DEFINE raw == [NoText EXCEPT !.name = name, !.car = car]
                b == Header(3, "Hello") \o name \o car
    <3>2. Message(b, "Hello", <<name, car>>) /\ "Hello" \in Handled
      BY HelloIs DEF Handled
    <3>3. Given("Hello", raw, <<name, car>>)
      BY DEF Given, NoText
    <3>. HIDE DEF raw, b
    <3>4. Sent(b, raw)
      BY <3>1 DEF raw, b
    <3>. QED
      BY <3>2, <3>3, <3>4, SentIs
  <2>2. CASE SendState
    <3>1. PICK s \in Sample : Sent(Encode("State", StateOf(s)), NoText)
      BY <2>2 DEF SendState, StateOf
    <3>. DEFINE b == Encode("State", StateOf(s))
                field == FieldsOf(StateOf(s), Written["State"])
    <3>2. Message(b, "State", field) /\ "State" \in Handled
      BY EncodeIs DEF Handled, Types
    <3>3. Given("State", NoText, field)
      BY DEF Given
    <3>. HIDE DEF b, field
    <3>4. Sent(b, NoText)
      BY <3>1 DEF b
    <3>. QED
      BY <3>2, <3>3, <3>4, SentIs
  <2>3. CASE SendChat
    <3>1. PICK text \in Raw("text") :
             Sent(Header(3, "Chat") \o Bytes(Num("id", 7), SizeOf["u32"])
                     \o [i \in 1 .. SizeOf["name"] |-> NUL] \o text,
                  [NoText EXCEPT !.text = text])
      BY <2>3 DEF SendChat
    <3>. DEFINE raw == [NoText EXCEPT !.text = text]
                id == Bytes(Num("id", 7), SizeOf["u32"])
                nuls == [i \in 1 .. SizeOf["name"] |-> NUL]
                b == Header(3, "Chat") \o id \o nuls \o text
    <3>2. Message(b, "Chat", <<id, nuls, text>>) /\ "Chat" \in Handled
      BY ChatIs DEF Handled
    <3>3. Given("Chat", raw, <<id, nuls, text>>)
      <4>. HIDE DEF id, nuls
      <4>. QED
        BY DEF Given, NoText
    <3>4. Sent(b, raw)
      BY <3>1
    <3>. HIDE DEF raw, b, id, nuls
    <3>. QED
      BY <3>2, <3>3, <3>4, SentIs
  <2>4. ASSUME NEW type \in {"Pong", "Bye"}, NEW m, Sent(Encode(type, m), NoText)
        PROVE  IsSent(up')
    <3>. DEFINE b == Encode(type, m)
                field == FieldsOf(m, Written[type])
    <3>1. type \in Types /\ type \in Handled
      BY DEF Handled, Types
    <3>2. Message(b, type, field)
      BY <3>1, EncodeIs
    <3>3. Given(type, NoText, field)
      BY DEF Given
    <3>4. Sent(b, NoText)
      BY <2>4
    <3>. HIDE DEF b, field
    <3>. QED
      BY <3>1, <3>2, <3>3, <3>4, SentIs
  <2>5. CASE SendPong
    BY <2>4, <2>5 DEF SendPong
  <2>6. CASE SendBye
    BY <2>4, <2>6 DEF SendBye
  <2>7. CASE SendStray
    BY <2>7 DEF SendStray, IsSent, Strays
  <2>. QED
    BY <2>1, <2>2, <2>3, <2>5, <2>6, <2>7 DEF ClientSends
<1>3. ~seen'.on
  BY <1>1 DEF None
<1>. QED
  BY <1>1, <1>2, <1>3 DEF Inv

\* What becomes of the sessions and the datagrams when one is handled.
LEMMA HandledInv ==
    ASSUME Inv, up.on, up' = None, seen' = seen,
           player'.on => IsPlayer(player', asked'),
           player'.on \/ player' = None,
           down' = None \/ down' = down \/ IsSending(down', player')
    PROVE  Inv'
<1>1. ~up'.on /\ ~seen'.on /\ ~None.on /\ ~down.on
  BY DEF Inv, None
<1>. QED
  BY <1>1 DEF Inv

\* What is sent fits.
LEMMA OutIs ==
    ASSUME NEW b, NEW of, Out(b, of), Len(b) \in Nat
    PROVE  \/ down' = None
           \/ down' = [on |-> TRUE, b |-> b, of |-> of] /\ Len(b) <= MaxDatagram
BY Sizes DEF Out

\* A message has a length.
LEMMA EncodeLen ==
    ASSUME NEW type \in Types, NEW m
    PROVE  Len(Encode(type, m)) \in Nat
<1>1. Message(Encode(type, m), type, FieldsOf(m, Written[type]))
  BY EncodeIs
<1>2. IsSeq(Encode(type, m))
  BY <1>1 DEF Message, Begins
<1>. QED
  BY <1>2, SeqIs

\* A Welcome or a Ping has nothing to be wrong about.
LEMMA PlainOut ==
    ASSUME NEW type \in {"Welcome", "Ping"}, NEW m, NEW of, Out(Encode(type, m), of)
    PROVE  down' = None \/ \A p : IsSending(down', p)
<1>1. Len(Encode(type, m)) \in Nat
  BY EncodeLen DEF Types
<1>2. CASE down' = None
  BY <1>2
<1>3. CASE /\ down' = [on |-> TRUE, b |-> Encode(type, m), of |-> of]
           /\ Len(Encode(type, m)) <= MaxDatagram
  <2>1. down'.b = Encode(type, m)
    BY <1>3
  <2>2. IsPlain(down')
    BY <2>1 DEF IsPlain
  <2>. QED
    BY <1>3, <2>1, <2>2 DEF IsSending
<1>. QED
  BY <1>1, <1>2, <1>3, OutIs

\* A session with other fields, the ways it changes.
LEMMA Updates ==
    ASSUME NEW name, NEW car, NEW sample, NEW rtt, NEW p \in Player(name, car, sample, rtt),
           NEW x, NEW y
    PROVE  /\ [p EXCEPT !.name = x, !.car = y] \in Player(x, y, sample, rtt)
           /\ [p EXCEPT !.sample = x] \in Player(name, car, x, rtt)
           /\ [p EXCEPT !.rtt = x] \in Player(name, car, sample, x)
BY DEF Player

\* The fields of a session.
LEMMA PlayerParts ==
    ASSUME NEW name, NEW car, NEW sample, NEW rtt, NEW p \in Player(name, car, sample, rtt)
    PROVE  p.on /\ p.name = name /\ p.car = car /\ p.sample = sample /\ p.rtt = rtt
BY DEF Player

\* Likewise for what was asked for.
LEMMA Asks ==
    ASSUME NEW name, NEW car, NEW a \in Asked(name, car), NEW x, NEW y
    PROVE  [a EXCEPT !.name = x, !.car = y] \in Asked(x, y)
BY DEF Asked

\* The fields of that.
LEMMA AskedParts ==
    ASSUME NEW name, NEW car, NEW a \in Asked(name, car)
    PROVE  a.name = name /\ a.car = car
BY DEF Asked

\* When a session is as was asked for.
LEMMA PlayerIs ==
    ASSUME NEW p, NEW a, NEW name, NEW car, NEW sample, NEW rtt \in Nat,
           NEW asks, NEW asksCar,
           p \in Player(name, car, sample, rtt), a \in Asked(asks, asksCar),
           IsName(name, a),
           asksCar # <<>> => asksCar \in Raw("name") /\ car = CString(asksCar),
           sample = NoSample \/ \E s \in Sample : sample = SampleOf(s)
    PROVE  IsPlayer(p, a) /\ p.on
<1>1. /\ p.on /\ p.name = name /\ p.car = car /\ p.sample = sample /\ p.rtt = rtt
      /\ a.name = asks /\ a.car = asksCar
  BY PlayerParts, AskedParts
<1>. QED
  BY <1>1 DEF IsPlayer

\* Who has a session is as the invariant says, and who gets one.
LEMMA ClientIs ==
    ASSUME Inv
    PROVE  IsPlayer(Client(<<>>), NewlyAsked)
<1>1. CASE player.on
  BY <1>1 DEF Inv, Client, NewlyAsked
<1>2. CASE ~player.on
  <2>1. /\ Client(<<>>) \in Player(DefaultName, <<>>, NoSample, 0)
        /\ NewlyAsked \in Asked(<<>>, <<>>)
    BY <1>2 DEF Client, NewlyAsked, NoText, Player, Asked
  <2>2. NewlyAsked.name = <<>>
    BY <2>1, AskedParts
  <2>3. IsName(DefaultName, NewlyAsked) /\ 0 \in Nat
    BY <2>2 DEF IsName
  <2>. QED
    BY <2>1, <2>3, PlayerIs
<1>. QED
  BY <1>1, <1>2

\* A Hello makes name and car what it asks for.
LEMMA HelloInv ==
    ASSUME Inv, Hello
    PROVE  Inv' /\ up.whole
<1>. DEFINE c == Client(<<>>)
            a == NewlyAsked
            raw == up.raw
            got == Got
            name == IF got.Name = <<>> THEN c.name ELSE got.Name
            asks == IF raw.name[1] = NUL THEN a.name ELSE raw.name
<1>1. /\ Accepts("Hello") /\ up' = None /\ seen' = seen
      /\ player' = [Client(Got.Name) EXCEPT
                       !.name = IF Got.Name = <<>> THEN Client(Got.Name).name
                                ELSE Got.Name,
                       !.car = Got.Car]
      /\ asked' = [a EXCEPT !.name = asks, !.car = raw.car]
      /\ Out(Welcome, <<>>)
  BY DEF Hello
<1>2. up.on /\ IsSent(up)
  BY <1>1 DEF Accepts, Inv
<1>3. /\ up.whole /\ raw.name \in Raw("name") /\ raw.car \in Raw("name")
      /\ got.Name = CString(raw.name) /\ got.Car = CString(raw.car)
  BY <1>1, <1>2, HelloGot
<1>4. /\ IsPlayer(c, a)
      /\ c \in Player(c.name, c.car, c.sample, c.rtt) /\ a \in Asked(a.name, a.car)
      /\ c.sample = NoSample \/ \E s \in Sample : c.sample = SampleOf(s)
      /\ c.rtt \in Nat
  <2>1. IsPlayer(c, a)
    BY ClientIs
  <2>. HIDE DEF c, a
  <2>. QED
    BY <2>1 DEF IsPlayer
<1>5. player' \in Player(name, got.Car, c.sample, c.rtt)
  <2>1. \E x : Client(got.Name) \in Player(x, c.car, c.sample, c.rtt)
               /\ (got.Name = <<>> => x = c.name)
    <3>1. CASE player.on
      <4>1. Client(got.Name) = c
        BY <3>1 DEF Client
      <4>. HIDE DEF c, got
      <4>. QED
        BY <4>1, <1>4
    <3>2. CASE ~player.on
      <4>. HIDE DEF got
      <4>1. Client(got.Name)
              \in Player(IF got.Name = <<>> THEN DefaultName ELSE got.Name, <<>>, NoSample, 0)
        BY <3>2 DEF Client, Player
      <4>2. c \in Player(DefaultName, <<>>, NoSample, 0)
        BY <3>2 DEF Client, Player
      <4>. HIDE DEF c
      <4>3. c.name = DefaultName /\ c.car = <<>> /\ c.sample = NoSample /\ c.rtt = 0
        BY <4>2, PlayerParts
      <4>. QED
        BY <4>1, <4>3
    <3>. QED
      BY <3>1, <3>2
  <2>2. PICK x : /\ Client(got.Name) \in Player(x, c.car, c.sample, c.rtt)
                 /\ (got.Name = <<>> => x = c.name)
    BY <2>1
  <2>. HIDE DEF c
  <2>3. Client(got.Name).name = x
    BY <2>2, PlayerParts
  <2>4. player' = [Client(got.Name) EXCEPT
                       !.name = IF got.Name = <<>> THEN Client(got.Name).name
                                ELSE got.Name,
                       !.car = got.Car]
    BY <1>1
  <2>. HIDE DEF got
  <2>5. player' = [Client(got.Name) EXCEPT !.name = name, !.car = got.Car]
    BY <2>2, <2>3, <2>4
  <2>. HIDE DEF name
  <2>. QED
    BY <2>2, <2>5, Updates
<1>6. asked' \in Asked(asks, raw.car)
  <2>. HIDE DEF a, asks, raw, c
  <2>. QED
    BY <1>1, <1>4, Asks
<1>7. /\ (CString(raw.name) = <<>> <=> raw.name[1] = NUL)
      /\ raw.name # <<>>
  <2>1. "name" \in Text
    BY DEF Text
  <2>2. /\ IsSeq(raw.name) /\ Len(raw.name) = SizeOf["name"]
        /\ SizeOf["name"] \in Nat /\ SizeOf["name"] > 0
    BY <2>1, <1>3, RawIs
  <2>. DEFINE given == raw.name
  <2>3. IsSeq(given) /\ Len(given) > 0
    BY <2>2
  <2>. HIDE DEF given
  <2>4. (CString(given) = <<>> <=> given[1] = NUL) /\ given # <<>>
    BY <2>3, EmptyText
  <2>. QED
    BY <2>4 DEF given
<1>. HIDE DEF c, a, raw, got
<1>8. asked'.name = asks
  BY <1>6, AskedParts
<1>9. IsName(name, asked')
  <2>1. CASE raw.name[1] = NUL
    BY <2>1, <1>3, <1>4, <1>7, <1>8 DEF IsName, IsPlayer
  <2>2. CASE raw.name[1] # NUL
    BY <2>2, <1>3, <1>7, <1>8 DEF IsName
  <2>. QED
    BY <2>1, <2>2
<1>. HIDE DEF name, asks
<1>10. IsPlayer(player', asked') /\ player'.on
  <2>1. /\ raw.car # <<>> => raw.car \in Raw("name") /\ got.Car = CString(raw.car)
        /\ c.rtt \in Nat
        /\ c.sample = NoSample \/ \E s \in Sample : c.sample = SampleOf(s)
    BY <1>3, <1>4
  <2>. QED
    BY <2>1, <1>5, <1>6, <1>9, PlayerIs
<1>11. down' = None \/ IsSending(down', player')
  BY <1>1, PlainOut DEF Welcome
<1>. QED
  BY <1>1, <1>2, <1>3, <1>10, <1>11, HandledInv

\* A State is one sample.
LEMMA StateInv ==
    ASSUME Inv, State
    PROVE  Inv' /\ up.whole
<1>. DEFINE c == Client(<<>>)
            a == NewlyAsked
<1>1. /\ Accepts("State") /\ up' = None /\ seen' = seen
      /\ player' = [c EXCEPT !.sample =
                       [time |-> Got.ClientTimeMs, transform |-> Got.Transform,
                        telemetry |-> Got.Telemetry]]
      /\ asked' = a
      /\ down' = down \/ Out(Welcome, <<>>)
  BY DEF State
<1>2. up.on /\ IsSent(up)
  BY <1>1 DEF Accepts, Inv
<1>3. up.whole
  BY <1>1, <1>2, StateGot
<1>4. PICK s \in Sample : /\ Got.ClientTimeMs = Num("time", s)
                          /\ Got.Transform = Num("transform", s)
                          /\ Got.Telemetry = Num("telemetry", s)
  BY <1>1, <1>2, StateGot
<1>5. IsPlayer(c, a)
  BY ClientIs
<1>. HIDE DEF c, a
<1>6. /\ c \in Player(c.name, c.car, c.sample, c.rtt) /\ a \in Asked(a.name, a.car)
      /\ IsName(c.name, a) /\ c.rtt \in Nat
      /\ a.car # <<>> => a.car \in Raw("name") /\ c.car = CString(a.car)
  BY <1>5 DEF IsPlayer
<1>7. player' \in Player(c.name, c.car, SampleOf(s), c.rtt)
  <2>1. player' = [c EXCEPT !.sample = SampleOf(s)]
    BY <1>1, <1>4 DEF SampleOf
  <2>. QED
    BY <2>1, <1>6, Updates
<1>8. IsPlayer(player', asked') /\ player'.on
  <2>1. IsName(c.name, asked') /\ asked' \in Asked(a.name, a.car)
    BY <1>1, <1>6
  <2>2. SampleOf(s) = NoSample \/ \E t \in Sample : SampleOf(s) = SampleOf(t)
    OBVIOUS
  <2>. QED
    BY <2>1, <2>2, <1>6, <1>7, PlayerIs
<1>9. down' = None \/ down' = down \/ IsSending(down', player')
  BY <1>1, PlainOut DEF Welcome
<1>. QED
  BY <1>1, <1>2, <1>3, <1>8, <1>9, HandledInv

\* A Pong changes nothing but the round trip.
LEMMA PongInv ==
    ASSUME Inv, Pong
    PROVE  Inv' /\ (player' # player => up.whole)
<1>1. PICK rtt \in Rtt :
         player' = IF player.on /\ Got.Token = Num("token", 0)
                   THEN [player EXCEPT !.rtt = rtt] ELSE player
  BY DEF Pong
<1>2. /\ Accepts("Pong") /\ up' = None /\ down' = down /\ seen' = seen /\ asked' = asked
  BY DEF Pong
<1>3. up.on /\ IsSent(up)
  BY <1>2 DEF Accepts, Inv
<1>4. up.whole
  <2>1. "Pong" \in Handled
    BY DEF Handled
  <2>. QED
    BY <2>1, <1>2, <1>3, AcceptedIs
<1>5. rtt \in Nat
  BY SizeAssumption
<1>6. CASE player' = player
  BY <1>2, <1>3, <1>4, <1>6, HandledInv DEF Inv
<1>7. CASE player.on /\ player' = [player EXCEPT !.rtt = rtt]
  <2>1. /\ player \in Player(player.name, player.car, player.sample, player.rtt)
        /\ asked \in Asked(asked.name, asked.car)
        /\ IsName(player.name, asked)
        /\ asked.car # <<>> => asked.car \in Raw("name") /\ player.car = CString(asked.car)
        /\ player.sample = NoSample \/ \E s \in Sample : player.sample = SampleOf(s)
    BY <1>7 DEF Inv, IsPlayer
  <2>2. player' \in Player(player.name, player.car, player.sample, rtt)
    BY <1>7, <2>1, Updates
  <2>3. IsPlayer(player', asked') /\ player'.on
    <3>1. IsName(player.name, asked') /\ asked' \in Asked(asked.name, asked.car)
      BY <2>1, <1>2
    <3>. QED
      BY <3>1, <2>1, <2>2, <1>5, PlayerIs
  <2>. QED
    BY <2>3, <1>2, <1>3, <1>4, HandledInv
<1>. QED
  BY <1>1, <1>6, <1>7

\* A line goes out under the name of the session.
LEMMA ChatInv ==
    ASSUME Inv, Chat
    PROVE  Inv'
<1>1. /\ Accepts("Chat") /\ up' = None /\ seen' = seen
      /\ player' = player /\ asked' = asked
      /\ \/ down' = down
         \/ /\ player.on
            /\ Out(Encode("Chat", [PlayerID |-> Author(Got), Name |-> player.name,
                                   Text |-> Got.Text]), up.raw.text)
  BY DEF Chat
<1>2. up.on /\ IsSent(up)
  BY <1>1 DEF Accepts, Inv
<1>3. up.raw.text \in Raw("text") /\ Got.Text = CString(up.raw.text)
  BY <1>1, <1>2, ChatGot
<1>4. down' = None \/ down' = down \/ IsSending(down', player')
  <2>. DEFINE m == [PlayerID |-> Author(Got), Name |-> player.name, Text |-> Got.Text]
              text == up.raw.text
  <2>1. CASE down' = down
    BY <2>1
  <2>2. CASE player.on /\ Out(Encode("Chat", m), text)
    <3>1. m.PlayerID = Num("id", 1) /\ m.Name = player.name /\ m.Text = CString(text)
      BY <1>3 DEF Author
    <3>2. "Chat" \in Types /\ text \in Raw("text")
      BY <1>3 DEF Types
    <3>. HIDE DEF m, text
    <3>3. Len(Encode("Chat", m)) \in Nat
      BY <3>2, EncodeLen
    <3>4. \/ down' = None
          \/ /\ down' = [on |-> TRUE, b |-> Encode("Chat", m), of |-> text]
             /\ Len(Encode("Chat", m)) <= MaxDatagram
      BY <2>2, <3>3, OutIs
    <3>5. CASE /\ down' = [on |-> TRUE, b |-> Encode("Chat", m), of |-> text]
               /\ Len(Encode("Chat", m)) <= MaxDatagram
      <4>1. down'.b = Encode("Chat", m) /\ down'.of = text
        BY <3>5
      <4>2. IsChat(down', player)
        BY <4>1, <2>2, <3>1, <3>2 DEF IsChat
      <4>. QED
        BY <4>1, <4>2, <3>5, <1>1 DEF IsSending
    <3>. QED
      BY <3>4, <3>5
  <2>. QED
    BY <1>1, <2>1, <2>2
<1>5. (player'.on => IsPlayer(player', asked')) /\ (player'.on \/ player' = None)
  BY <1>1 DEF Inv
<1>. QED
  BY <1>1, <1>2, <1>4, <1>5, HandledInv

\* After a Bye there is no session.
LEMMA ByeInv ==
    ASSUME Inv, Bye
    PROVE  Inv' /\ up.whole
<1>1. /\ Accepts("Bye") /\ up' = None /\ down' = down /\ seen' = seen /\ player' = None
  BY DEF Bye
<1>2. up.on /\ IsSent(up)
  BY <1>1 DEF Accepts, Inv
<1>3. up.whole
  <2>1. "Bye" \in Handled
    BY DEF Handled
  <2>. QED
    BY <2>1, <1>1, <1>2, AcceptedIs
<1>4. ~player'.on
  BY <1>1 DEF None
<1>. QED
  BY <1>1, <1>2, <1>3, <1>4, HandledInv

\* What is dropped changes nothing.
LEMMA DropInv ==
    ASSUME Inv, Drop
    PROVE  Inv' /\ player' = player
<1>1. /\ up.on /\ up' = None /\ down' = down /\ seen' = seen
      /\ player' = player /\ asked' = asked
  BY DEF Drop
<1>2. (player'.on => IsPlayer(player', asked')) /\ (player'.on \/ player' = None)
  BY <1>1 DEF Inv
<1>. QED
  BY <1>1, <1>2, HandledInv

\* A snapshot is made of the session as it is.
LEMMA TickInv ==
    ASSUME Inv, Tick
    PROVE  Inv'
<1>1. /\ ~up.on /\ ~down.on /\ seen' = None /\ up' = up
      /\ player' = player /\ asked' = asked
  BY DEF Tick
<1>2. down' = None \/ IsSending(down', player)
  <2>1. CASE SendPing
    BY <2>1, PlainOut DEF SendPing
  <2>2. CASE SendSnapshot
    <3>1. PICK n \in 0 .. MaxPlayers :
             /\ n > 0 => player.on /\ player.sample # NoSample
             /\ Out(EncodeSnapshot([ServerTimeMs |-> Num("uptime", 0),
                                    LastClientTimeMs |-> Num("time", 0),
                                    SelfPingMs |-> Num("ping", 0)],
                                   [k \in 1 .. n |-> Entity(k)]), n)
      BY <2>2 DEF SendSnapshot
    <3>. DEFINE m == [ServerTimeMs |-> Num("uptime", 0), LastClientTimeMs |-> Num("time", 0),
                      SelfPingMs |-> Num("ping", 0)]
                entities == [k \in 1 .. n |-> Entity(k)]
                b == EncodeSnapshot(m, entities)
    <3>2. Out(b, n) /\ n \in Nat /\ b = EncodeSnapshot(m, entities)
      BY <3>1
    <3>3. \A j \in 1 .. n : entities[j] = EntityOf(player, j)
      BY DEF Entity, EntityOf
    <3>4. entities = [k \in 1 .. n |-> entities[k]]
      OBVIOUS
    <3>. HIDE DEF m, entities, b
    <3>5. IsSeq(entities) /\ Len(entities) = n
      BY <3>2, <3>4, Listed
    <3>6. Len(b) \in Nat
      <4>1. IsSnapshot(b, m, entities)
        BY <3>2, <3>5, EncodedSnapshot
      <4>2. Len(entities) \in Nat /\ Len(b) = SnapshotSize(Len(entities))
        BY <4>1 DEF IsSnapshot
      <4>. QED
        BY <4>2, SnapshotSizes
    <3>7. \/ down' = None
          \/ down' = [on |-> TRUE, b |-> b, of |-> n] /\ Len(b) <= MaxDatagram
      BY <3>2, <3>6, OutIs
    <3>8. CASE down' = [on |-> TRUE, b |-> b, of |-> n] /\ Len(b) <= MaxDatagram
      <4>1. down'.b = b /\ down'.of = n
        BY <3>8
      <4>2. IsShowing(down', player)
        BY <4>1, <3>1, <3>2, <3>3, <3>5 DEF IsShowing
      <4>. QED
        BY <4>1, <4>2, <3>8 DEF IsSending
    <3>. QED
      BY <3>7, <3>8
  <2>. QED
    BY <2>1, <2>2 DEF Tick
<1>. QED
  BY <1>1, <1>2 DEF Inv, None

\* A reason has no NUL.
LEMMA KickInv ==
    ASSUME Inv, Kick
    PROVE  Inv'
<1>1. /\ ~up.on /\ ~down.on /\ seen' = None /\ up' = up /\ player' = None
  BY DEF Kick
<1>2. down' = None \/ IsSending(down', player')
  <2>0. PICK n \in 1 .. SizeOf["reason"] + 1 : \E reason \in [1 .. n -> Letter] :
           Out(Encode("Kick", [Reason |-> reason]), reason)
    BY DEF Kick
  <2>1. PICK reason \in [1 .. n -> Letter] :
           Out(Encode("Kick", [Reason |-> reason]), reason)
    BY <2>0
  <2>. DEFINE m == [Reason |-> reason]
  <2>2. m.Reason = reason /\ Out(Encode("Kick", m), reason) /\ "Kick" \in Types
    BY <2>1 DEF Types
  <2>3. /\ n \in Nat /\ reason = [i \in 1 .. n |-> reason[i]]
        /\ \A i \in 1 .. n : reason[i] \in Letter
    <3>1. SizeOf["reason"] \in Nat
      BY Sizes DEF Kind, Text
    <3>. QED
      BY <3>1
  <2>. HIDE DEF m
  <2>4. IsSeq(reason) /\ Len(reason) = n
    BY <2>3, Listed
  <2>5. \A i \in 1 .. Len(reason) : reason[i] # NUL
    BY <2>3, <2>4, SizeAssumption
  <2>6. Len(Encode("Kick", m)) \in Nat
    BY <2>2, EncodeLen
  <2>7. \/ down' = None
        \/ /\ down' = [on |-> TRUE, b |-> Encode("Kick", m), of |-> reason]
           /\ Len(Encode("Kick", m)) <= MaxDatagram
    BY <2>2, <2>6, OutIs
  <2>8. CASE /\ down' = [on |-> TRUE, b |-> Encode("Kick", m), of |-> reason]
             /\ Len(Encode("Kick", m)) <= MaxDatagram
    <3>1. down'.b = Encode("Kick", m) /\ down'.of = reason
      BY <2>8
    <3>2. IsKick(down')
      BY <3>1, <2>2, <2>4, <2>5 DEF IsKick
    <3>. QED
      BY <3>1, <3>2, <2>8 DEF IsSending
  <2>. QED
    BY <2>7, <2>8
<1>3. ~player'.on /\ ~seen'.on /\ ~None.on
  BY <1>1 DEF None
<1>. QED
  BY <1>1, <1>2, <1>3 DEF Inv

\* What is received was sent, and is right.
LEMMA ReceiveInv ==
    ASSUME Inv, Receive
    PROVE  Inv' /\ (seen'.on => seen'.whole)
<1>1. /\ down.on /\ down' = None /\ up' = up /\ player' = player /\ asked' = asked
  BY DEF Receive
<1>2. ~up.on /\ IsSending(down, player) /\ (player.on => IsPlayer(player, asked))
  BY <1>1 DEF Inv
<1>3. PICK n \in 0 .. Len(down.b) :
         seen' = IF Decoded(SubSeq(down.b, 1, n)).ok
                 THEN Noticed(SubSeq(down.b, 1, n), down, n) ELSE None
  BY DEF Receive, Decoded, Noticed
<1>. DEFINE p == SubSeq(down.b, 1, n)
<1>4. Prefix(p, n, down.b)
  BY DEF Prefix
<1>5. seen' = IF Decoded(p).ok THEN Noticed(p, down, n) ELSE None
  BY <1>3
<1>. HIDE DEF p
<1>6. seen'.on => Right(seen', player, asked)
  <2>1. CASE Decoded(p).ok
    BY <2>1, <1>2, <1>4, <1>5, NoticedIs
  <2>2. CASE ~Decoded(p).ok
    BY <2>2, <1>5 DEF None
  <2>. QED
    BY <2>1, <2>2
<1>7. ~down'.on
  BY <1>1 DEF None
<1>. QED
  BY <1>1, <1>2, <1>6, <1>7 DEF Inv, Right

-----------------------------------------------------------------------------
(* Texts end *)

\* The last byte of a text that is written is a NUL.
LEMMA LastByte ==
    ASSUME NEW m, NEW f \in Field, f.kind \in Text
    PROVE  /\ SizeOf[f.kind] \in Nat /\ SizeOf[f.kind] > 0
           /\ Encoded(m, f)[SizeOf[f.kind]] = NUL
<1>1. f.kind \in Kind /\ SizeOf[f.kind] \in Nat /\ SizeOf[f.kind] > 0
  BY Sizes DEF Kind
<1>. DEFINE s == m[f.name]
            size == SizeOf[f.kind]
<1>2. Encoded(m, f) = Padded(s, size) /\ size \in Nat /\ size > 0
  BY <1>1, EncodedIs
<1>. HIDE DEF s, size
<1>3. \A i \in 1 .. size : Padded(s, size)[i] = IF i <= Len(s) /\ i < size THEN s[i] ELSE NUL
  BY <1>2, PaddedIs
<1>4. size \in 1 .. size /\ ~(size < size)
  BY <1>2
<1>5. Padded(s, size)[size] = NUL
  BY <1>3, <1>4
<1>. QED
  BY <1>1, <1>2, <1>5 DEF size

\* The texts of a message end.
MessageEnds(b) ==
    \A k \in 1 .. Len(Written[TypeOf(b)]) :
        Written[TypeOf(b)][k].kind \in Text
            => b[HeaderSize + EndOf(Written[TypeOf(b)], k)] = NUL

\* Each of them at the last byte of its field.
LEMMA MessagesEnd ==
    ASSUME NEW type \in Types, NEW m, NEW b, Begins(b, type, FieldsOf(m, Written[type]))
    PROVE  TypeOf(b) = type /\ MessageEnds(b)
<1>. DEFINE W == Written[type]
            field == FieldsOf(m, W)
<1>1. TypeOf(b) = type
  <2>1. b[HeaderSize] = <<Num(type, 0), SizeOf["u16"]>>
    BY DEF Begins
  <2>. QED
    BY <2>1, TypeIs
<1>2. IsLayout(W) /\ HeaderSize \in Nat
  BY Layouts, Sizes
<1>3. \A k \in 1 .. Len(W) : \A i \in 1 .. SizeOf[W[k].kind] :
        b[HeaderSize + EndOf(W, k - 1) + i] = field[k][i]
  BY DEF Begins
<1>4. \A k \in 1 .. Len(W) : field[k] = Encoded(m, W[k])
  BY DEF FieldsOf
<1>. HIDE DEF W, field
<1>5. ASSUME NEW k \in 1 .. Len(W), W[k].kind \in Text
      PROVE  b[HeaderSize + EndOf(W, k)] = NUL
  <2>. DEFINE f == W[k]
              size == SizeOf[f.kind]
  <2>1. f \in Field
    BY <1>2, FieldSizes
  <2>2. f.kind \in Text
    BY <1>5
  <2>. HIDE DEF f
  <2>3. size \in Nat /\ size > 0 /\ Encoded(m, f)[size] = NUL
    BY <2>1, <2>2, LastByte
  <2>4. EndOf(W, k - 1) \in Nat /\ EndOf(W, k) = EndOf(W, k - 1) + size
    BY <1>2, FieldsEnd DEF f
  <2>. HIDE DEF size
  <2>5. size \in 1 .. size
    BY <2>3
  <2>6. b[HeaderSize + EndOf(W, k - 1) + size] = Encoded(m, f)[size]
    BY <2>5, <1>3, <1>4 DEF f, size
  <2>7. HeaderSize + EndOf(W, k - 1) + size = HeaderSize + EndOf(W, k)
    BY <2>3, <2>4, <1>2
  <2>. QED
    BY <2>3, <2>6, <2>7
<1>. QED
  BY <1>1, <1>5 DEF MessageEnds, W

\* So do those of the entities of a snapshot.
LEMMA EntitiesEnd ==
    ASSUME NEW b, NEW m, NEW entities, IsSnapshot(b, m, entities),
           NEW j \in 1 .. Len(entities), NEW k \in 1 .. Len(EntityWritten),
           EntityWritten[k].kind \in Text
    PROVE  b[SnapshotSize(j - 1) + EndOf(EntityWritten, k)] = NUL
<1>. DEFINE E == EntityWritten
            f == E[k]
            size == SizeOf[f.kind]
            of == entities[j]
<1>1. IsLayout(E)
  BY EntityIs
<1>2. \A i \in 1 .. size : b[SnapshotSize(j - 1) + EndOf(E, k - 1) + i] = Encoded(of, f)[i]
  BY DEF IsSnapshot
<1>3. f.kind \in Text
  OBVIOUS
<1>. HIDE DEF E
<1>4. f \in Field
  BY <1>1, FieldSizes DEF E
<1>5. EndOf(E, k - 1) \in Nat /\ EndOf(E, k) = EndOf(E, k - 1) + size
  BY <1>1, FieldsEnd DEF E
<1>. HIDE DEF f, of
<1>6. size \in Nat /\ size > 0 /\ Encoded(of, f)[size] = NUL
  BY <1>3, <1>4, LastByte
<1>7. SnapshotSize(j - 1) \in Nat
  <2>1. j - 1 \in Nat
    BY DEF IsSnapshot
  <2>. QED
    BY <2>1, SnapshotSizes
<1>. HIDE DEF size
<1>8. size \in 1 .. size
  BY <1>6
<1>9. b[SnapshotSize(j - 1) + EndOf(E, k - 1) + size] = NUL
  BY <1>2, <1>6, <1>8
<1>10. SnapshotSize(j - 1) + EndOf(E, k - 1) + size = SnapshotSize(j - 1) + EndOf(E, k)
  BY <1>5, <1>6, <1>7
<1>. QED
  BY <1>9, <1>10 DEF E

\* So does every text of what the server sends.
LEMMA SendingEnds ==
    ASSUME Inv
    PROVE  TextsEnd
<1>1. SUFFICES ASSUME down.on
               PROVE  /\ MessageEnds(down.b)
                      /\ TypeOf(down.b) = "Snapshot" =>
                            \A j \in 1 .. down.of : \A k \in 1 .. Len(EntityWritten) :
                               EntityWritten[k].kind \in Text =>
                                  down.b[SnapshotSize(j - 1) + EndOf(EntityWritten, k)]
                                     = NUL
  BY DEF TextsEnd, MessageEnds
<1>2. IsSending(down, player)
  BY <1>1 DEF Inv
<1>3. ASSUME NEW type \in Types, type # "Snapshot", NEW m, down.b = Encode(type, m)
      PROVE  TypeOf(down.b) # "Snapshot" /\ MessageEnds(down.b)
  <2>. DEFINE b == down.b
  <2>1. Begins(b, type, FieldsOf(m, Written[type]))
    BY <1>3, EncodeIs DEF Message
  <2>. HIDE DEF b
  <2>2. TypeOf(b) = type /\ MessageEnds(b)
    BY <2>1, MessagesEnd
  <2>. QED
    BY <1>3, <2>2 DEF b
<1>4. CASE IsPlain(down)
  <2>0. PICK type \in {"Welcome", "Ping"} : \E m : down.b = Encode(type, m)
    BY <1>4 DEF IsPlain
  <2>1. PICK m : down.b = Encode(type, m)
    BY <2>0
  <2>2. type \in Types /\ type # "Snapshot"
    BY DEF Types
  <2>. QED
    BY <2>1, <2>2, <1>3
<1>5. CASE IsChat(down, player) \/ IsKick(down)
  <2>0. PICK type \in {"Chat", "Kick"} : \E m : down.b = Encode(type, m)
    BY <1>5 DEF IsChat, IsKick
  <2>1. PICK m : down.b = Encode(type, m)
    BY <2>0
  <2>2. type \in Types /\ type # "Snapshot"
    BY DEF Types
  <2>. QED
    BY <2>1, <2>2, <1>3
<1>6. CASE IsShowing(down, player)
  <2>1. PICK m, entities : /\ down.b = EncodeSnapshot(m, entities) /\ IsSeq(entities)
                           /\ Len(entities) = down.of
    BY <1>6 DEF IsShowing
  <2>. DEFINE b == down.b
              n == down.of
  <2>2. IsSnapshot(b, m, entities) /\ Len(entities) = n
    BY <2>1, EncodedSnapshot
  <2>. HIDE DEF b, n
  <2>3. MessageEnds(b)
    <3>. DEFINE put == Put(m, "Count", Num("Count", Len(entities) % U16))
                type == "Snapshot"
    <3>1. Begins(b, type, FieldsOf(put, Written[type])) /\ type \in Types
      BY <2>2 DEF IsSnapshot, Headed, Types
    <3>. HIDE DEF put, type
    <3>. QED
      BY <3>1, MessagesEnd
  <2>4. \A j \in 1 .. n : \A k \in 1 .. Len(EntityWritten) :
           EntityWritten[k].kind \in Text =>
              b[SnapshotSize(j - 1) + EndOf(EntityWritten, k)] = NUL
    BY <2>2, EntitiesEnd
  <2>. QED
    BY <2>3, <2>4 DEF b, n
<1>. QED
  BY <1>2, <1>4, <1>5, <1>6 DEF IsSending

-----------------------------------------------------------------------------
(* The theorems *)

\* Nothing is on its way at first.
LEMMA InitInv == Init => Inv
BY DEF Init, Inv, None

\* One step per action.
LEMMA NextInv ==
    ASSUME Inv, [Next]_vars
    PROVE  Inv'
<1>1. CASE ClientSends
  BY <1>1, ClientSendsInv
<1>2. CASE Handle
  BY <1>2, DropInv, HelloInv, StateInv, PongInv, ChatInv, ByeInv DEF Handle
<1>3. CASE Tick
  BY <1>3, TickInv
<1>4. CASE Kick
  BY <1>4, KickInv
<1>5. CASE Receive
  BY <1>5, ReceiveInv
<1>6. CASE UNCHANGED vars
  BY <1>6 DEF vars, Inv, IsSent, IsSending, IsPlayer, Right
<1>. QED
  BY <1>1, <1>2, <1>3, <1>4, <1>5, <1>6 DEF Next

\* Of the datagrams one is on its way at a time, as it was sent, and what a
\* client has seen is right.
THEOREM Invariance == Spec => []Inv
<1>1. Inv /\ [Next]_vars => Inv'
  BY NextInv
<1>. QED
  BY InitInv, <1>1, PTL DEF Spec

\* Everybody sees the name, the car, the chat and the reasons that were asked
\* for, as far as they fit, of any length and with any bytes after them.
THEOREM TextsAsGivenAlways == Spec => []TextsAsGiven
<1>1. Inv => TextsAsGiven
  BY InvSays
<1>. QED
  BY Invariance, <1>1, PTL

\* A snapshot that can be read tells of everybody it was made of, each with one
\* of the samples that were sent.
THEOREM SnapshotIsWholeAlways == Spec => []SnapshotIsWhole
<1>1. Inv => SnapshotIsWhole
  BY InvSays
<1>. QED
  BY Invariance, <1>1, PTL

\* No round trip is shown as a shorter one, unless it is the longest there is.
THEOREM PingNotBelowAlways == Spec => []PingNotBelow
<1>1. Inv => PingNotBelow
  BY InvSays
<1>. QED
  BY Invariance, <1>1, PTL

\* Every text the server sends ends inside its field.
THEOREM TextsEndAlways == Spec => []TextsEnd
<1>1. Inv => TextsEnd
  BY SendingEnds
<1>. QED
  BY Invariance, <1>1, PTL

\* No datagram that is cut short changes a session or is taken notice of.
THEOREM OnlyWholeAlways == Spec => OnlyWhole
<1>1. ASSUME Inv, [Next]_vars
      PROVE  [/\ player' # player /\ up.on => up.whole
              /\ seen' # seen /\ seen'.on => seen'.whole]_vars
  <2>1. CASE ClientSends \/ Tick
    BY <2>1 DEF ClientSends, Tick, None
  <2>2. CASE Drop
    BY <2>2, DropInv DEF Drop
  <2>3. CASE Hello
    BY <2>3, <1>1, HelloInv DEF Hello
  <2>4. CASE State
    BY <2>4, <1>1, StateInv DEF State
  <2>5. CASE Pong
    BY <2>5, <1>1, PongInv DEF Pong
  <2>6. CASE Chat
    BY <2>6 DEF Chat
  <2>7. CASE Bye
    BY <2>7, <1>1, ByeInv DEF Bye
  <2>8. CASE Kick
    BY <2>8 DEF Kick, None
  <2>9. CASE Receive
    BY <2>9, <1>1, ReceiveInv DEF Receive
  <2>10. CASE UNCHANGED vars
    BY <2>10
  <2>. QED
    BY <1>1, <2>1, <2>2, <2>3, <2>4, <2>5, <2>6, <2>7, <2>8, <2>9, <2>10 DEF Next, Handle
<1>. QED
  BY Invariance, <1>1, PTL DEF Spec, OnlyWhole
=============================================================================
