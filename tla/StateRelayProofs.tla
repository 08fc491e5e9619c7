-------------------------- MODULE StateRelayProofs --------------------------
(***************************************************************************)
(* Proofs about StateRelay, for any width of the sequence number, any gap  *)
(* that takes less than half its range, and any number of States and       *)
(* restarts: the state is well formed, nobody is seen to jump back, and a  *)
(* game that restarts is not shut out for long.                            *)
(***************************************************************************)
EXTENDS StateRelay, FiniteSetTheorems, TLAPS

-----------------------------------------------------------------------------
(* Sequence numbers *)

\* Adding one to a sequence number, with the wrap.
LEMMA Successor ==
    ASSUME NEW s \in 0 .. SeqMod - 1
    PROVE  /\ (s + 1) % SeqMod \in 0 .. SeqMod - 1
           /\ (s + 1) % SeqMod = IF s + 1 = SeqMod THEN 0 ELSE s + 1
<1>1. SeqMod \in Nat /\ SeqMod > 0
  BY SeqAssumption
<1>2. CASE s + 1 = SeqMod
  BY <1>1, <1>2
<1>3. CASE s + 1 # SeqMod
  <2>1. s + 1 \in 0 .. SeqMod - 1
    BY <1>1, <1>3
  <2>. QED
    BY <1>1, <1>3, <2>1
<1>. QED
  BY <1>2, <1>3

\* s is n States before t, if n is below the range: t is s + n, or that after
\* one wrap.
Before(s, t, n) == t = s + n \/ t = s + n - SeqMod

\* What state() makes of a State sent at most RestartGap before the newest: it
\* is neither newer nor a restart.
LEMMA OlderIsDropped ==
    ASSUME NEW s \in 0 .. SeqMod - 1, NEW t \in 0 .. SeqMod - 1,
           NEW n \in 0 .. RestartGap, Before(s, t, n)
    PROVE  ~Newer(Delta(s, t)) /\ ~Restarted(Delta(s, t))
<1>1. SeqMod \in Nat /\ RestartGap \in Nat /\ n \in Nat /\ 2 * n < SeqMod
  BY SeqAssumption
<1>2. (s - t) % SeqMod = IF n = 0 THEN 0 ELSE SeqMod - n
  <2>1. CASE t = s + n
    <3>1. CASE n = 0
      BY <1>1, <2>1, <3>1
    <3>2. CASE n # 0
      <4>1. s - t = -n
        BY <1>1, <2>1
      <4>2. (-n) % SeqMod = SeqMod - n
        BY <1>1, <3>2
      <4>. QED
        BY <3>2, <4>1, <4>2
    <3>. QED
      BY <3>1, <3>2
  <2>2. CASE t = s + n - SeqMod
    <3>1. n # 0 /\ s - t = SeqMod - n
      BY <1>1, <2>2
    <3>2. SeqMod - n \in 0 .. SeqMod - 1
      BY <1>1, <3>1
    <3>3. (SeqMod - n) % SeqMod = SeqMod - n
      BY <1>1, <3>2
    <3>. QED
      BY <3>1, <3>3
  <2>. QED
    BY <2>1, <2>2 DEF Before
<1>3. Delta(s, t) = -n
  BY <1>1, <1>2 DEF Delta
<1>. QED
  BY <1>1, <1>3 DEF Newer, Restarted

\* One more State between: s is n + 1 before the successor of t.
LEMMA BeforeSuccessor ==
    ASSUME NEW s \in 0 .. SeqMod - 1, NEW t \in 0 .. SeqMod - 1,
           NEW n \in Nat, Before(s, t, n), n + 1 < SeqMod
    PROVE  Before(s, (t + 1) % SeqMod, n + 1)
<1>1. SeqMod \in Nat
  BY SeqAssumption
<1>2. (t + 1) % SeqMod = IF t + 1 = SeqMod THEN 0 ELSE t + 1
  BY Successor
<1>. QED
  BY <1>1, <1>2 DEF Before

-----------------------------------------------------------------------------
(* The state is well formed *)

\* The values of session, newest and shown, as TypeOK has them.
Sessions == [lastSeq : 0 .. SeqMod - 1, lastSeen : 0 .. clock]
Samples == [k : 1 .. Len(sent), recvAt : 0 .. clock]
Entities == [k : 1 .. Len(sent), age : 0 .. clock]
Sent == [seq : 0 .. SeqMod - 1, run : 0 .. MaxRestarts]

\* No session and no sample is Nothing.
LEMMA NothingIsNone == Nothing \notin Sessions
BY DEF Nothing, Sessions

\* What holds initially.
LEMMA TypeInit == Init => TypeOK
<1>. SUFFICES ASSUME Init PROVE TypeOK
  OBVIOUS
<1>1. player \in [seq : 0 .. SeqMod - 1, restarts : 0 .. MaxRestarts]
  <2>1. FirstSeq \subseteq 0 .. SeqMod - 1 /\ 0 \in 0 .. MaxRestarts
    BY SeqAssumption, TimeAssumption
  <2>2. player \in [seq : FirstSeq, restarts : {0}]
    BY DEF Init
  <2>. QED
    BY <2>1, <2>2
<1>2. clock \in 0 .. MaxClock
  BY TimeAssumption DEF Init
<1>. QED
  BY <1>1, <1>2 DEF Init, TypeOK

\* Every step keeps the state well formed.
LEMMA TypeStep == TypeOK /\ [Next]_vars => TypeOK'
<1>. SUFFICES ASSUME TypeOK, [Next]_vars PROVE TypeOK'
  OBVIOUS
<1>0. /\ clock \in Nat /\ clock \in 0 .. MaxClock
      /\ player \in [seq : 0 .. SeqMod - 1, restarts : 0 .. MaxRestarts]
      /\ sent \in Seq(Sent) /\ Len(sent) \in Nat
      /\ session \in {Nothing} \cup Sessions
      /\ newest \in {Nothing} \cup Samples
      /\ shown \in {Nothing} \cup Entities
      /\ newest # Nothing => session # Nothing /\ session.lastSeen >= newest.recvAt
      /\ frozen \subseteq 1 .. Len(sent)
  BY TimeAssumption DEF TypeOK, Sessions, Samples, Entities, Sent
<1>. SUFFICES
      /\ clock' \in 0 .. MaxClock
      /\ player' \in [seq : 0 .. SeqMod - 1, restarts : 0 .. MaxRestarts]
      /\ sent' \in Seq(Sent)
      /\ session' \in {Nothing} \cup Sessions'
      /\ newest' \in {Nothing} \cup Samples'
      /\ shown' \in {Nothing} \cup Entities'
      /\ newest' # Nothing =>
            session' # Nothing /\ session'.lastSeen >= newest'.recvAt
      /\ frozen' \subseteq 1 .. Len(sent')
  BY DEF TypeOK, Sessions, Samples, Entities, Sent
<1>1. CASE Advance
  <2>1. clock' \in 0 .. MaxClock /\ 0 .. clock \subseteq 0 .. clock'
    BY <1>0, <1>1, TimeAssumption DEF Advance
  <2>2. UNCHANGED <<player, sent, session, newest, shown, frozen>>
    BY <1>1 DEF Advance
  <2>3. /\ Sessions \subseteq Sessions' /\ Samples \subseteq Samples'
        /\ Entities \subseteq Entities'
    BY <2>1, <2>2 DEF Sessions, Samples, Entities
  <2>. QED
    BY <1>0, <2>1, <2>2, <2>3
<1>2. CASE Send
  <2>1. sent' = Append(sent, [seq |-> player.seq, run |-> player.restarts])
    BY <1>2 DEF Send
  <2>2. [seq |-> player.seq, run |-> player.restarts] \in Sent
    BY <1>0 DEF Sent
  <2>3. sent' \in Seq(Sent) /\ Len(sent') = Len(sent) + 1
    BY <1>0, <2>1, <2>2
  <2>4. 1 .. Len(sent) \subseteq 1 .. Len(sent')
    BY <1>0, <2>3
  <2>5. UNCHANGED <<clock, session, newest, shown, frozen>>
    BY <1>2 DEF Send
  <2>6. /\ Sessions \subseteq Sessions' /\ Samples \subseteq Samples'
        /\ Entities \subseteq Entities'
    BY <2>4, <2>5 DEF Sessions, Samples, Entities
  <2>7. (player.seq + 1) % SeqMod \in 0 .. SeqMod - 1
    BY <1>0, Successor
  <2>8. player' \in [seq : 0 .. SeqMod - 1, restarts : 0 .. MaxRestarts]
    BY <1>0, <1>2, <2>7 DEF Send
  <2>. QED
    BY <1>0, <2>3, <2>4, <2>5, <2>6, <2>8
<1>3. CASE Restart
  <2>1. 0 \in 0 .. SeqMod - 1 /\ player.restarts + 1 \in 0 .. MaxRestarts
    BY <1>0, <1>3, SeqAssumption, TimeAssumption DEF Restart
  <2>2. player' \in [seq : 0 .. SeqMod - 1, restarts : 0 .. MaxRestarts]
    BY <1>3, <2>1 DEF Restart
  <2>3. UNCHANGED <<clock, sent, session, newest, shown, frozen>>
    BY <1>3 DEF Restart
  <2>. QED
    BY <1>0, <2>2, <2>3 DEF Sessions, Samples, Entities
<1>4. CASE State
  <2>1. PICK k \in 1 .. Len(sent) : StateOf(k)
    BY <1>4 DEF State, StateOf
  <2>2. UNCHANGED <<clock, player, sent, shown>>
    BY <2>1 DEF StateOf
  <2>3. sent[k].seq \in 0 .. SeqMod - 1 /\ clock \in 0 .. clock
    <3>1. sent[k] \in Sent
      BY <1>0
    <3>. QED
      BY <1>0, <3>1 DEF Sent
  <2>4. CASE Accept(sent[k].seq)
    <3>1. /\ session' = [lastSeq |-> sent[k].seq, lastSeen |-> clock]
          /\ newest' = Latest(k, sent[k].seq, clock)
          /\ frozen' = {}
      BY <2>1, <2>4 DEF StateOf
    <3>2. session' \in Sessions' /\ session' # Nothing /\ session'.lastSeen = clock
      BY <2>2, <2>3, <3>1 DEF Sessions, Nothing
    <3>3. newest' \in Samples
      BY <1>0, <2>3, <3>1 DEF Latest, Samples
    <3>4. newest'.recvAt <= clock
      BY <1>0, <3>3 DEF Samples
    <3>. QED
      BY <1>0, <2>2, <3>1, <3>2, <3>3, <3>4 DEF Sessions, Samples, Entities
  <2>5. CASE ~Accept(sent[k].seq)
    <3>1. /\ session' = [session EXCEPT !.lastSeen = clock]
          /\ newest' = newest
          /\ frozen' \subseteq frozen \cup {k}
      BY <2>1, <2>5 DEF StateOf
    <3>2. newest # Nothing /\ session \in Sessions
      BY <1>0, <2>5 DEF Accept
    <3>3. session' \in Sessions' /\ session' # Nothing /\ session'.lastSeen = clock
      BY <2>2, <2>3, <3>1, <3>2 DEF Sessions, Nothing
    <3>4. newest'.recvAt <= clock
      BY <1>0, <3>1, <3>2 DEF Samples
    <3>. QED
      BY <1>0, <2>2, <3>1, <3>3, <3>4 DEF Samples, Entities
  <2>. QED
    BY <2>4, <2>5
<1>5. CASE Hello
  <2>1. UNCHANGED <<clock, player, sent, newest, shown, frozen>>
    BY <1>5 DEF Hello
  <2>2. session' \in Sessions' /\ session' # Nothing /\ session'.lastSeen = clock
    BY <1>0, <1>5, <2>1, SeqAssumption DEF Hello, Sessions, Nothing
  <2>3. newest # Nothing => newest.recvAt <= clock
    BY <1>0 DEF Samples
  <2>. QED
    BY <1>0, <2>1, <2>2, <2>3 DEF Samples, Entities
<1>6. CASE Tick
  <2>1. UNCHANGED <<clock, player, sent>>
    BY <1>6 DEF Tick
  <2>2. CASE Silent
    BY <1>0, <1>6, <2>1, <2>2 DEF Tick
  <2>3. CASE ~Silent
    <3>1. UNCHANGED <<session, newest, frozen>>
      BY <1>6, <2>3 DEF Tick
    <3>2. shown' \in {Nothing} \cup Entities
      <4>1. CASE IsStale \/ newest = Nothing
        BY <1>6, <2>3, <4>1 DEF Tick
      <4>2. CASE ~(IsStale \/ newest = Nothing)
        <5>1. newest.k \in 1 .. Len(sent) /\ clock - newest.recvAt \in 0 .. clock
          BY <1>0, <4>2 DEF Samples
        <5>2. shown' = [k |-> newest.k, age |-> clock - newest.recvAt]
          BY <1>6, <2>3, <4>2 DEF Tick
        <5>. QED
          BY <5>1, <5>2 DEF Entities
      <4>. QED
        BY <4>1, <4>2
    <3>. QED
      BY <1>0, <2>1, <3>1, <3>2 DEF Sessions, Samples, Entities
  <2>. QED
    BY <2>2, <2>3
<1>7. CASE UNCHANGED vars
  BY <1>0, <1>7 DEF vars, Sessions, Samples, Entities
<1>. QED
  BY <1>1, <1>2, <1>3, <1>4, <1>5, <1>6, <1>7 DEF Next

\* The stream, the session and what is shown stay well formed.
THEOREM TypeCorrect == Spec => []TypeOK
BY TypeInit, TypeStep, PTL DEF Spec

-----------------------------------------------------------------------------
(* Nobody is seen to jump back *)

\* No State is of a run that has not begun.
RunsBegun == \A i \in 1 .. Len(sent) : sent[i].run <= player.restarts

\* Two States of one run, less than the range apart, have numbers that far apart.
SeqsInOrder ==
    \A i, j \in 1 .. Len(sent) :
        (i <= j /\ sent[i].run = sent[j].run /\ j - i < SeqMod)
        => Before(sent[i].seq, sent[j].seq, j - i)

\* So has the State the player sends next.
NextInOrder ==
    \A i \in 1 .. Len(sent) :
        (sent[i].run = player.restarts /\ Len(sent) + 1 - i < SeqMod)
        => Before(sent[i].seq, player.seq, Len(sent) + 1 - i)

\* lastSeq is the number of the sample held.
Held == newest # Nothing => session.lastSeq = sent[newest.k].seq

RelayInv == RunsBegun /\ SeqsInOrder /\ NextInOrder /\ Held

\* What TypeOK says of the numbers and the stream, at hand.
LEMMA Numbers ==
    ASSUME TypeOK
    PROVE  /\ SeqMod \in Nat /\ RestartGap \in Nat /\ Delay \in Nat
           /\ Delay <= RestartGap /\ Len(sent) \in Nat /\ sent \in Seq(Sent)
           /\ player.seq \in 0 .. SeqMod - 1 /\ player.restarts \in Nat
           /\ \A i \in 1 .. Len(sent) :
                 sent[i].seq \in 0 .. SeqMod - 1 /\ sent[i].run \in Nat
           /\ newest # Nothing =>
                 /\ newest.k \in 1 .. Len(sent) /\ newest.recvAt \in Nat
                 /\ session \in Sessions
           /\ clock \in Nat
<1>1. sent \in Seq(Sent) /\ Len(sent) \in Nat
  BY DEF TypeOK, Sent
<1>2. ASSUME NEW i \in 1 .. Len(sent)
      PROVE  sent[i].seq \in 0 .. SeqMod - 1 /\ sent[i].run \in Nat
  <2>1. sent[i] \in Sent
    BY <1>1
  <2>. QED
    BY <2>1, TimeAssumption DEF Sent
<1>3. player.seq \in 0 .. SeqMod - 1 /\ player.restarts \in Nat
  BY TimeAssumption DEF TypeOK
<1>4. clock \in Nat
  BY TimeAssumption DEF TypeOK
<1>5. ASSUME newest # Nothing
      PROVE  /\ newest.k \in 1 .. Len(sent) /\ newest.recvAt \in Nat
             /\ session \in Sessions
  BY <1>4, <1>5 DEF TypeOK, Sessions
<1>. QED
  BY <1>1, <1>2, <1>3, <1>4, <1>5, SeqAssumption, DelayAssumption

\* What a State that arrives does to the sample held: it takes its place, or
\* the sample and lastSeq stay.  The clock has moved on, so history.Add never
\* refuses what state() accepted.
LEMMA Arrival ==
    ASSUME TypeOK, NEW k \in 1 .. Len(sent), StateOf(k)
    PROVE  \/ /\ Accept(sent[k].seq)
              /\ newest' = [k |-> k, recvAt |-> clock]
              /\ session'.lastSeq = sent[k].seq
           \/ newest' = newest /\ newest # Nothing
              /\ session'.lastSeq = session.lastSeq
<1>1. CASE Accept(sent[k].seq)
  <2>1. newest' = Latest(k, sent[k].seq, clock)
    BY <1>1 DEF StateOf
  <2>2. newest # Nothing => ~(clock <= newest.recvAt)
    BY Numbers DEF StateOf
  <2>3. newest' = [k |-> k, recvAt |-> clock]
    BY <2>1, <2>2 DEF Latest
  <2>4. session' = [lastSeq |-> sent[k].seq, lastSeen |-> clock]
    BY <1>1 DEF StateOf
  <2>. QED
    BY <1>1, <2>3, <2>4
<1>2. CASE ~Accept(sent[k].seq)
  <2>1. newest # Nothing /\ session \in Sessions
    BY <1>2, Numbers DEF Accept
  <2>2. newest' = newest /\ session' = [session EXCEPT !.lastSeen = clock]
    BY <1>2 DEF StateOf
  <2>3. session'.lastSeq = session.lastSeq
    BY <2>1, <2>2 DEF Sessions
  <2>. QED
    BY <2>1, <2>2, <2>3
<1>. QED
  BY <1>1, <1>2

\* What holds initially.
LEMMA RelayInit == Init => RelayInv
BY DEF Init, RelayInv, RunsBegun, SeqsInOrder, NextInOrder, Held

\* Every step keeps the invariant.
LEMMA RelayStep == TypeOK /\ RelayInv /\ [Next]_vars => RelayInv'
<1>. SUFFICES ASSUME TypeOK, RelayInv, [Next]_vars PROVE RelayInv'
  OBVIOUS
<1>0. RunsBegun /\ SeqsInOrder /\ NextInOrder /\ Held
  BY DEF RelayInv
<1>. DEFINE L == Len(sent)
<1>1. CASE Send
  <2>1. sent' = Append(sent, [seq |-> player.seq, run |-> player.restarts])
    BY <1>1 DEF Send
  <2>2. /\ Len(sent') = L + 1
        /\ \A i \in 1 .. L : sent'[i] = sent[i]
        /\ sent'[L + 1] = [seq |-> player.seq, run |-> player.restarts]
    BY <2>1, Numbers
  <2>3. /\ player'.seq = (player.seq + 1) % SeqMod
        /\ player'.restarts = player.restarts
        /\ UNCHANGED <<session, newest>>
    <3>1. player \in [seq : 0 .. SeqMod - 1, restarts : 0 .. MaxRestarts]
      BY DEF TypeOK
    <3>2. /\ player' = [player EXCEPT !.seq = (player.seq + 1) % SeqMod]
          /\ UNCHANGED <<session, newest>>
      BY <1>1 DEF Send
    <3>. QED
      BY <3>1, <3>2
  <2>4. RunsBegun'
    <3>. SUFFICES ASSUME NEW i \in 1 .. L + 1
                  PROVE  sent'[i].run <= player.restarts
      BY <2>2, <2>3 DEF RunsBegun
    <3>1. CASE i \in 1 .. L
      BY <1>0, <2>2, <3>1 DEF RunsBegun
    <3>2. CASE i = L + 1
      BY <2>2, <3>2, Numbers
    <3>3. i \in 1 .. L \/ i = L + 1
      BY Numbers
    <3>. QED
      BY <3>1, <3>2, <3>3
  <2>5. SeqsInOrder'
    <3>. SUFFICES ASSUME NEW i \in 1 .. L + 1, NEW j \in 1 .. L + 1, i <= j,
                         sent'[i].run = sent'[j].run, j - i < SeqMod
                  PROVE  Before(sent'[i].seq, sent'[j].seq, j - i)
      BY <2>2 DEF SeqsInOrder, Before
    <3>1. CASE j \in 1 .. L
      <4>1. i \in 1 .. L
        BY <3>1, Numbers
      <4>2. sent'[i] = sent[i] /\ sent'[j] = sent[j]
        BY <2>2, <3>1, <4>1
      <4>. QED
        BY <1>0, <3>1, <4>1, <4>2 DEF SeqsInOrder
    <3>2. CASE j = L + 1 /\ i \in 1 .. L
      BY <1>0, <2>2, <3>2 DEF NextInOrder
    <3>3. CASE j = L + 1 /\ i = L + 1
      BY <2>2, <3>3, Numbers DEF Before
    <3>. QED
      BY <3>1, <3>2, <3>3, Numbers
  <2>6. NextInOrder'
    <3>. SUFFICES ASSUME NEW i \in 1 .. L + 1, sent'[i].run = player.restarts,
                         L + 2 - i < SeqMod
                  PROVE  Before(sent'[i].seq, (player.seq + 1) % SeqMod, L + 2 - i)
      BY <2>2, <2>3, Numbers DEF NextInOrder, Before
    <3>1. CASE i \in 1 .. L
      <4>1. sent'[i] = sent[i] /\ sent[i].seq \in 0 .. SeqMod - 1
        BY <2>2, <3>1, Numbers
      <4>2. /\ L + 1 - i \in Nat /\ L + 1 - i < SeqMod
            /\ (L + 1 - i) + 1 < SeqMod
        BY <3>1, Numbers
      <4>3. Before(sent[i].seq, player.seq, L + 1 - i)
        BY <1>0, <3>1, <4>1, <4>2 DEF NextInOrder
      <4>4. Before(sent[i].seq, (player.seq + 1) % SeqMod, (L + 1 - i) + 1)
        BY <4>1, <4>2, <4>3, Numbers, BeforeSuccessor
      <4>5. (L + 1 - i) + 1 = L + 2 - i
        BY Numbers
      <4>. QED
        BY <4>1, <4>4, <4>5
    <3>2. CASE i = L + 1
      <4>1. sent'[i].seq = player.seq /\ L + 2 - i = 1 /\ 0 + 1 < SeqMod
        BY <2>2, <3>2, Numbers
      <4>2. Before(player.seq, player.seq, 0) /\ 0 \in Nat
        BY Numbers DEF Before
      <4>3. Before(player.seq, (player.seq + 1) % SeqMod, 0 + 1)
        BY <4>1, <4>2, Numbers, BeforeSuccessor
      <4>. QED
        BY <4>1, <4>3
    <3>3. i \in 1 .. L \/ i = L + 1
      BY Numbers
    <3>. QED
      BY <3>1, <3>2, <3>3
  <2>7. Held'
    BY <1>0, <2>2, <2>3, Numbers DEF Held, Nothing
  <2>. QED
    BY <2>4, <2>5, <2>6, <2>7 DEF RelayInv
<1>2. CASE Restart
  <2>1. /\ player'.restarts = player.restarts + 1
        /\ UNCHANGED <<sent, session, newest>>
    BY <1>2 DEF Restart
  <2>2. RunsBegun' /\ NextInOrder'
    <3>1. \A i \in 1 .. Len(sent) : sent[i].run \in Nat /\ sent[i].run <= player.restarts
      BY <1>0, Numbers DEF RunsBegun
    <3>2. \A i \in 1 .. Len(sent) :
             sent[i].run <= player.restarts + 1 /\ sent[i].run # player.restarts + 1
      <4>. SUFFICES ASSUME NEW i \in 1 .. Len(sent)
                    PROVE  sent[i].run <= player.restarts + 1
                           /\ sent[i].run # player.restarts + 1
        OBVIOUS
      <4>1. \A m, n \in Nat : m <= n => m <= n + 1 /\ m # n + 1
        OBVIOUS
      <4>. QED
        BY <3>1, <4>1, Numbers
    <3>. QED
      BY <2>1, <3>2 DEF RunsBegun, NextInOrder
  <2>3. SeqsInOrder' /\ Held'
    BY <1>0, <2>1 DEF SeqsInOrder, Held, Before, Nothing
  <2>. QED
    BY <2>2, <2>3 DEF RelayInv
<1>3. CASE State
  <2>1. PICK k \in 1 .. Len(sent) : StateOf(k)
    BY <1>3 DEF State
  <2>2. UNCHANGED <<player, sent>>
    BY <2>1 DEF StateOf
  <2>3. Held'
    BY <1>0, <2>1, <2>2, Arrival DEF Held, Nothing
  <2>. QED
    BY <1>0, <2>2, <2>3
       DEF RelayInv, RunsBegun, SeqsInOrder, NextInOrder, Before
<1>4. CASE Hello
  <2>1. UNCHANGED <<player, sent, newest>>
    BY <1>4 DEF Hello
  <2>2. Held'
    <3>1. CASE newest # Nothing
      <4>1. session \in Sessions /\ session # Nothing
        BY <3>1, Numbers, NothingIsNone
      <4>2. session' = [session EXCEPT !.lastSeen = clock]
        BY <1>4, <4>1 DEF Hello
      <4>3. session'.lastSeq = session.lastSeq
        BY <4>1, <4>2 DEF Sessions
      <4>. QED
        BY <1>0, <2>1, <3>1, <4>3 DEF Held, Nothing
    <3>2. CASE newest = Nothing
      BY <2>1, <3>2 DEF Held, Nothing
    <3>. QED
      BY <3>1, <3>2
  <2>. QED
    BY <1>0, <2>1, <2>2
       DEF RelayInv, RunsBegun, SeqsInOrder, NextInOrder, Before
<1>5. CASE Tick
  <2>1. UNCHANGED <<player, sent>>
    BY <1>5 DEF Tick
  <2>2. newest' = Nothing \/ UNCHANGED <<session, newest>>
    BY <1>5 DEF Tick
  <2>3. Held'
    BY <1>0, <2>1, <2>2 DEF Held, Nothing
  <2>. QED
    BY <1>0, <2>1, <2>3
       DEF RelayInv, RunsBegun, SeqsInOrder, NextInOrder, Before
<1>6. CASE Advance \/ UNCHANGED vars
  <2>1. UNCHANGED <<player, sent, session, newest>>
    BY <1>6 DEF Advance, vars
  <2>. QED
    BY <1>0, <2>1
       DEF RelayInv, RunsBegun, SeqsInOrder, NextInOrder, Held, Before, Nothing
<1>. QED
  BY <1>1, <1>2, <1>3, <1>4, <1>5, <1>6 DEF Next

\* Only a State replaces a sample, and none that was sent before it in the same
\* run: it arrives before RestartGap others have been sent, so its number is
\* at most that far behind lastSeq and is dropped.
LEMMA NoStepBackStep ==
    TypeOK /\ RelayInv /\ [Next]_vars
    => [(/\ newest # Nothing /\ newest' # Nothing /\ newest'.k # newest.k
         /\ sent[newest'.k].run = sent[newest.k].run)
        => newest'.k > newest.k]_vars
<1>. SUFFICES ASSUME TypeOK, RelayInv, [Next]_vars,
                     newest # Nothing, newest' # Nothing, newest'.k # newest.k,
                     sent[newest'.k].run = sent[newest.k].run
              PROVE  newest'.k > newest.k
  OBVIOUS
<1>1. CASE ~State
  <2>1. newest' = newest \/ newest' = Nothing
    BY <1>1 DEF Next, Advance, Send, Restart, Hello, Tick, vars
  <2>. QED
    BY <2>1
<1>2. CASE State
  <2>1. PICK k \in 1 .. Len(sent) : StateOf(k)
    BY <1>2 DEF State
  <2>2. newest'.k = k /\ Accept(sent[k].seq)
    BY <2>1, Arrival
  <2>. DEFINE m == newest.k
  <2>3. m \in 1 .. Len(sent) /\ k # m /\ sent[k].run = sent[m].run
    BY <2>2, Numbers
  <2>4. CASE k < m
    <3>1. m - k \in 0 .. RestartGap
      <4>1. Len(sent) - k <= Delay
        BY <2>1 DEF StateOf
      <4>. QED
        BY <2>3, <2>4, <4>1, Numbers
    <3>2. Before(sent[k].seq, sent[m].seq, m - k)
      BY <2>3, <2>4, <3>1, Numbers, SeqAssumption DEF RelayInv, SeqsInOrder
    <3>3. session.lastSeq = sent[m].seq
      BY DEF RelayInv, Held
    <3>4. sent[k].seq \in 0 .. SeqMod - 1 /\ sent[m].seq \in 0 .. SeqMod - 1
      BY <2>3, Numbers
    <3>5. /\ ~Newer(Delta(sent[k].seq, sent[m].seq))
          /\ ~Restarted(Delta(sent[k].seq, sent[m].seq))
      BY <3>1, <3>2, <3>4, OlderIsDropped
    <3>. QED
      BY <2>2, <3>3, <3>5 DEF Accept
  <2>. QED
    BY <2>2, <2>3, <2>4, Numbers
<1>. QED
  BY <1>1, <1>2

\* Nobody is seen to jump back, for any width of the sequence number, any gap
\* below half its range, and any delay of at most the gap.
THEOREM NoStepBackAlways == Spec => NoStepBack
<1>1. Spec => [](TypeOK /\ RelayInv)
  BY TypeInit, TypeStep, RelayInit, RelayStep, PTL DEF Spec
<1>. QED
  BY <1>1, NoStepBackStep, PTL DEF Spec, NoStepBack

-----------------------------------------------------------------------------
(* Nobody is shut out for long *)

\* What state() drops: neither newer than the sample held nor a restart.
IsDropped(seq) ==
    LET delta == Delta(seq, session.lastSeq)
    IN  newest # Nothing /\ ~Newer(delta) /\ ~Restarted(delta)

\* The States dropped since the last one was accepted would be dropped again.
FrozenDropped == \A k \in frozen : IsDropped(sent[k].seq)

\* What holds initially.
LEMMA FrozenInit == Init => FrozenDropped
BY DEF Init, FrozenDropped

\* Every step keeps it: what changes lastSeq forgets what was dropped.
LEMMA FrozenStep == TypeOK /\ FrozenDropped /\ [Next]_vars => FrozenDropped'
<1>. SUFFICES ASSUME TypeOK, FrozenDropped, [Next]_vars PROVE FrozenDropped'
  OBVIOUS
<1>1. frozen \subseteq 1 .. Len(sent) /\ sent \in Seq(Sent) /\ Len(sent) \in Nat
  BY DEF TypeOK, Sent
<1>2. ASSUME frozen' \subseteq frozen, newest' = newest,
             newest # Nothing => session'.lastSeq = session.lastSeq,
             \A k \in frozen : sent'[k] = sent[k]
      PROVE  FrozenDropped'
  <2>1. SUFFICES ASSUME NEW k \in frozen PROVE IsDropped(sent[k].seq)'
    BY <1>2 DEF FrozenDropped
  <2>2. IsDropped(sent[k].seq)
    BY <2>1 DEF FrozenDropped
  <2>3. newest' # Nothing' /\ session'.lastSeq = session.lastSeq /\ sent'[k] = sent[k]
    BY <1>2, <2>1, <2>2 DEF IsDropped, Nothing
  <2>. QED
    BY <2>2, <2>3 DEF IsDropped, Delta, Newer, Restarted
<1>3. CASE Send
  <2>1. UNCHANGED <<session, newest, frozen>> /\ \A k \in 1 .. Len(sent) : sent'[k] = sent[k]
    BY <1>1, <1>3 DEF Send
  <2>. QED
    BY <1>1, <1>2, <2>1
<1>4. CASE State
  <2>1. PICK k \in 1 .. Len(sent) : StateOf(k)
    BY <1>4 DEF State
  <2>2. CASE Accept(sent[k].seq)
    BY <2>1, <2>2 DEF StateOf, FrozenDropped
  <2>3. CASE ~Accept(sent[k].seq)
    <3>1. newest # Nothing /\ session \in Sessions /\ IsDropped(sent[k].seq)
      BY <2>3, Numbers DEF Accept, IsDropped
    <3>2. /\ session' = [session EXCEPT !.lastSeen = clock] /\ UNCHANGED <<sent, newest>>
          /\ frozen' \subseteq frozen \cup {k}
      BY <2>1, <2>3 DEF StateOf
    <3>3. session'.lastSeq = session.lastSeq /\ newest' # Nothing'
      BY <3>1, <3>2 DEF Sessions, Nothing
    <3>4. \A i \in frozen' : IsDropped(sent[i].seq)
      BY <3>1, <3>2 DEF FrozenDropped
    <3>. QED
      BY <3>2, <3>3, <3>4 DEF FrozenDropped, IsDropped, Delta, Newer, Restarted, Nothing
  <2>. QED
    BY <2>2, <2>3
<1>5. CASE Hello
  <2>1. UNCHANGED <<sent, newest, frozen>>
    BY <1>5 DEF Hello
  <2>2. newest # Nothing => session'.lastSeq = session.lastSeq
    <3>1. SUFFICES ASSUME newest # Nothing PROVE session'.lastSeq = session.lastSeq
      OBVIOUS
    <3>2. session \in Sessions /\ session # Nothing
      BY <3>1, Numbers, NothingIsNone
    <3>3. session' = [session EXCEPT !.lastSeen = clock]
      BY <1>5, <3>2 DEF Hello
    <3>. QED
      BY <3>2, <3>3 DEF Sessions
  <2>. QED
    BY <1>2, <2>1, <2>2
<1>6. CASE Tick
  <2>1. UNCHANGED sent /\ (frozen' = {} \/ UNCHANGED <<session, newest, frozen>>)
    BY <1>6 DEF Tick
  <2>. QED
    BY <1>2, <2>1 DEF FrozenDropped
<1>7. CASE Advance \/ Restart \/ UNCHANGED vars
  <2>1. UNCHANGED <<sent, session, newest, frozen>>
    BY <1>7 DEF Advance, Restart, vars
  <2>. QED
    BY <1>2, <2>1
<1>. QED
  BY <1>3, <1>4, <1>5, <1>6, <1>7 DEF Next

\* How far a number is from lastSeq, as a difference that may have wrapped.
LEMMA DeltaIs ==
    ASSUME NEW s \in 0 .. SeqMod - 1, NEW t \in 0 .. SeqMod - 1
    PROVE  /\ Delta(s, t) \in Int
           /\ Delta(s, t) \in {s - t, s - t + SeqMod, s - t - SeqMod}
<1>1. SeqMod \in Nat /\ s \in Int /\ t \in Int
  BY SeqAssumption
<1>2. (s - t) % SeqMod = IF s >= t THEN s - t ELSE s - t + SeqMod
  <2>1. CASE s >= t
    <3>1. s - t \in 0 .. SeqMod - 1
      BY <1>1, <2>1
    <3>. QED
      BY <1>1, <2>1, <3>1
  <2>2. CASE ~(s >= t)
    <3>1. s - t + SeqMod \in 0 .. SeqMod - 1
      BY <1>1, <2>2
    <3>2. (s - t) % SeqMod = (s - t + SeqMod) % SeqMod
      BY <1>1, <2>2
    <3>3. (s - t + SeqMod) % SeqMod = s - t + SeqMod
      BY <1>1, <3>1
    <3>. QED
      BY <2>2, <3>2, <3>3
  <2>. QED
    BY <2>1, <2>2
<1>3. CASE s >= t
  BY <1>1, <1>2, <1>3 DEF Delta
<1>4. CASE ~(s >= t)
  BY <1>1, <1>2, <1>4 DEF Delta
<1>. QED
  BY <1>3, <1>4

\* Of one run, two of the last SeqMod States have numbers of their own.
LEMMA OwnNumbers ==
    ASSUME TypeOK, RelayInv, NEW i \in 1 .. Len(sent), NEW j \in 1 .. Len(sent),
           sent[i].run = sent[j].run, Len(sent) - i < SeqMod, i < j
    PROVE  sent[i].seq # sent[j].seq
<1>1. /\ SeqMod \in Nat /\ j - i \in Nat /\ j - i > 0 /\ j - i < SeqMod
      /\ sent[i].seq \in Nat /\ sent[j].seq \in Nat
  BY Numbers
<1>2. Before(sent[i].seq, sent[j].seq, j - i)
  BY <1>1 DEF RelayInv, SeqsInOrder
<1>. QED
  BY <1>1, <1>2 DEF Before

\* The numbers that are dropped are those from lastSeq back to RestartGap before
\* it: more States than these are not dropped.
LEMMA FewAreDropped ==
    TypeOK /\ RelayInv /\ FrozenDropped => FreezeBounded
<1>. SUFFICES ASSUME TypeOK, RelayInv, FrozenDropped, NEW r \in 0 .. player.restarts
              PROVE  Cardinality({k \in frozen : /\ sent[k].run = r
                                                 /\ Len(sent) - k < SeqMod})
                         <= RestartGap + 1
  BY DEF FreezeBounded
<1>. DEFINE S == {k \in frozen : sent[k].run = r /\ Len(sent) - k < SeqMod}
            T == 0 .. RestartGap
            f == [k \in S |-> -Delta(sent[k].seq, session.lastSeq)]
<1>1. /\ SeqMod \in Nat /\ RestartGap \in Nat /\ 2 * RestartGap < SeqMod
      /\ Len(sent) \in Nat
      /\ \A k \in 1 .. Len(sent) : sent[k].seq \in 0 .. SeqMod - 1
  BY Numbers, SeqAssumption
<1>2. S \subseteq 1 .. Len(sent) /\ IsFiniteSet(S) /\ Cardinality(S) \in Nat
  <2>1. S \subseteq 1 .. Len(sent)
    BY DEF TypeOK
  <2>2. IsFiniteSet(1 .. Len(sent))
    BY <1>1, FS_Interval
  <2>. QED
    BY <2>1, <2>2, FS_Subset, FS_CardinalityType
<1>3. IsFiniteSet(T) /\ Cardinality(T) = RestartGap + 1
  <2>1. 0 \in Int /\ RestartGap \in Int /\ ~(0 > RestartGap)
    BY <1>1
  <2>2. /\ IsFiniteSet(0 .. RestartGap)
        /\ Cardinality(0 .. RestartGap)
              = IF 0 > RestartGap THEN 0 ELSE RestartGap - 0 + 1
    BY <2>1, FS_Interval
  <2>. QED
    BY <1>1, <2>1, <2>2
<1>4. ASSUME NEW k \in S
      PROVE  /\ sent[k].seq \in 0 .. SeqMod - 1 /\ session.lastSeq \in 0 .. SeqMod - 1
             /\ Delta(sent[k].seq, session.lastSeq) \in Int
             /\ -Delta(sent[k].seq, session.lastSeq) \in T
  <2>1. IsDropped(sent[k].seq)
    BY DEF FrozenDropped
  <2>2. newest # Nothing /\ session \in Sessions
    BY <2>1, Numbers DEF IsDropped
  <2>3. session.lastSeq \in 0 .. SeqMod - 1 /\ sent[k].seq \in 0 .. SeqMod - 1
    BY <1>1, <1>2, <2>2 DEF Sessions
  <2>4. Delta(sent[k].seq, session.lastSeq) \in Int
    BY <2>3, DeltaIs
  <2>5. -Delta(sent[k].seq, session.lastSeq) \in 0 .. RestartGap
    <3>. DEFINE d == Delta(sent[k].seq, session.lastSeq)
    <3>1. ~(d > 0) /\ ~(d < -RestartGap) /\ d \in Int
      BY <2>1, <2>4 DEF IsDropped, Newer, Restarted
    <3>. HIDE DEF d
    <3>2. -d \in 0 .. RestartGap
      BY <1>1, <3>1
    <3>. QED
      BY <3>2 DEF d
  <2>. QED
    BY <2>3, <2>4, <2>5
<1>5. f \in [S -> T]
  BY <1>4
<1>6. ASSUME NEW i \in S, NEW j \in S, i < j PROVE f[i] # f[j]
  <2>1. /\ i \in 1 .. Len(sent) /\ j \in 1 .. Len(sent)
        /\ sent[i].run = sent[j].run /\ Len(sent) - i < SeqMod
    BY <1>2
  <2>2. sent[i].seq # sent[j].seq
    BY <1>6, <2>1, OwnNumbers
  <2>. DEFINE si == sent[i].seq
              sj == sent[j].seq
              t == session.lastSeq
  <2>3. /\ si \in 0 .. SeqMod - 1 /\ sj \in 0 .. SeqMod - 1 /\ t \in 0 .. SeqMod - 1
    BY <1>4
  <2>4. /\ Delta(si, t) \in Int /\ Delta(sj, t) \in Int
        /\ Delta(si, t) \in {si - t, si - t + SeqMod, si - t - SeqMod}
        /\ Delta(sj, t) \in {sj - t, sj - t + SeqMod, sj - t - SeqMod}
        /\ Delta(si, t) <= 0 /\ Delta(si, t) >= -RestartGap
        /\ Delta(sj, t) <= 0 /\ Delta(sj, t) >= -RestartGap
    <3>. HIDE DEF si, sj, t
    <3>1. /\ Delta(si, t) \in Int /\ Delta(sj, t) \in Int
          /\ Delta(si, t) \in {si - t, si - t + SeqMod, si - t - SeqMod}
          /\ Delta(sj, t) \in {sj - t, sj - t + SeqMod, sj - t - SeqMod}
      BY <2>3, DeltaIs
    <3>2. -Delta(si, t) \in T /\ -Delta(sj, t) \in T
      BY <1>4 DEF si, sj, t
    <3>. QED
      BY <1>1, <3>1, <3>2
  <2>5. f[i] = -Delta(si, t) /\ f[j] = -Delta(sj, t)
    OBVIOUS
  <2>. HIDE DEF si, sj, t, f
  <2>6. si # sj
    BY <2>2 DEF si, sj
  <2>7. Delta(si, t) # Delta(sj, t)
    BY <1>1, <2>3, <2>4, <2>6
  <2>. QED
    BY <2>4, <2>5, <2>7
<1>7. ~(Cardinality(T) < Cardinality(S))
  <2>1. SUFFICES ASSUME Cardinality(T) < Cardinality(S) PROVE FALSE
    OBVIOUS
  <2>. HIDE DEF S, T, f
  <2>2. PICK i \in S, j \in S : i # j /\ f[i] = f[j]
    BY <1>2, <1>3, <1>5, <2>1, FS_PigeonHole
  <2>3. i < j \/ j < i
    BY <1>1, <1>2, <2>2
  <2>. QED
    BY <1>6, <2>2, <2>3
<1>. QED
  BY <1>1, <1>2, <1>3, <1>7

\* Of the last SeqMod States of one run, at most RestartGap + 1 that arrive in
\* order are dropped before one is accepted, for any width of the number.
THEOREM FreezeBoundedAlways == Spec => []FreezeBounded
BY TypeInit, TypeStep, RelayInit, RelayStep, FrozenInit, FrozenStep, FewAreDropped,
   PTL DEF Spec
=============================================================================
