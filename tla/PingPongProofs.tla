--------------------------- MODULE PingPongProofs ---------------------------
(***************************************************************************)
(* A proof about PingPong, for any interval, lag and length of run: no     *)
(* measured round trip is shorter than the one of the Ping it answers.     *)
(***************************************************************************)
EXTENDS PingPong, TLAPS

\* Until the uptime wraps, the token is the time of the tick.
LEMMA TokenIsTime == \A t \in Time : UptimeMs(t) = t /\ t \in Token
BY ClockAssumption DEF Time, UptimeMs, Token

\* A difference of two readings of the clock fits rttMs.
LEMMA DifferenceFits == \A d \in Time : d % Wrap = d
BY ClockAssumption DEF Time

\* The token of a Ping is the time of its tick, the Ping left at that time or
\* later, and what is outstanding is the ping of pingToken.
TokenInv ==
    /\ sending # NoTime => sending <= clock
    /\ \A t \in Token : sentAt[t] # NoTime => t <= sentAt[t]
    /\ (client # NoClient /\ client.pingSentAt # ZeroTime) =>
          client.pingToken = client.pingSentAt
    /\ tick <= clock

Inv == TypeOK /\ TokenInv

\* No session, no ping, no Pong at the start.
LEMMA InvInit == Init => Inv
<1>. SUFFICES ASSUME Init PROVE Inv
  OBVIOUS
<1>1. clock \in Time /\ tick <= clock
  BY ClockAssumption DEF Init, Time, NoTime
<1>2. sentAt \in [Token -> Time \cup {NoTime}] /\ \A t \in Token : sentAt[t] = NoTime
  BY DEF Init
<1>. QED
  BY <1>1, <1>2 DEF Init, Inv, TypeOK, TokenInv

\* A session and a Pong that arrived are never the absent ones.
LEMMA Present == NoClient \notin Session /\ NoPong \notin Arrived
<1>1. ASSUME NEW c \in Session PROVE c.on = TRUE
  BY DEF Session
<1>2. ASSUME NEW p \in Arrived PROVE p.on = TRUE
  BY DEF Arrived
<1>3. NoClient.on = FALSE /\ NoPong.on = FALSE
  BY DEF NoClient, NoPong
<1>. QED
  BY <1>1, <1>2, <1>3

\* Every step preserves Inv.
LEMMA InvStep == Inv /\ [Next]_vars => Inv'
<1>. SUFFICES ASSUME Inv, [Next]_vars PROVE Inv'
  OBVIOUS
<1>. USE DEF Inv, TypeOK, TokenInv
<1>1. CASE Advance
  <2>1. clock' \in Time /\ clock' > clock /\ clock \in Int
    BY <1>1, ClockAssumption DEF Advance, Time
  <2>2. UNCHANGED <<client, tick, sending, sentAt, pongs, pong>>
    BY <1>1 DEF Advance
  <2>3. tick' <= clock'
    BY <2>1, <2>2 DEF Time, NoTime
  <2>4. sending' # NoTime => sending' <= clock'
    BY <2>1, <2>2 DEF Token, NoTime
  <2>. QED
    BY <2>1, <2>2, <2>3, <2>4
<1>2. CASE TickFire
  <2>1. tick' = clock /\ UNCHANGED <<clock, client, sending, sentAt, pongs, pong>>
    BY <1>2 DEF TickFire
  <2>2. tick' <= clock' /\ tick' \in Time
    BY <2>1 DEF Time
  <2>. QED
    BY <2>1, <2>2
<1>3. CASE Tick
  <2>1. /\ tick \in Time /\ tick' = NoTime
        /\ UNCHANGED <<clock, sentAt, pongs, pong>>
    BY <1>3 DEF Tick
  <2>2. tick' <= clock'
    BY <2>1, ClockAssumption DEF Time, NoTime
  <2>3. CASE client # NoClient /\ PingDue(client, tick)
    <3>1. UptimeMs(tick) = tick /\ tick \in Token
      BY <2>1, TokenIsTime
    <3>2. /\ client' = [client EXCEPT !.pingToken = tick, !.pingSentAt = tick,
                                      !.lastPingAt = tick]
          /\ sending' = tick
      BY <1>3, <2>3, <3>1 DEF Tick
    <3>3. client' \in Session /\ client'.pingSentAt = tick
          /\ client'.lastPingAt = tick /\ client'.pingToken = tick
      BY <2>1, <2>3, <3>1, <3>2 DEF Session
    <3>. QED
      BY <2>1, <2>2, <3>1, <3>2, <3>3
  <2>4. CASE ~(client # NoClient /\ PingDue(client, tick))
    <3>1. UNCHANGED <<client, sending>>
      BY <1>3, <2>4 DEF Tick
    <3>. QED
      BY <2>1, <2>2, <3>1
  <2>. QED
    BY <2>3, <2>4
<1>4. CASE Send
  <2>1. /\ sending \in Token /\ sending' = NoTime
        /\ sentAt' = [sentAt EXCEPT ![sending] = clock]
        /\ UNCHANGED <<clock, client, tick, pongs, pong>>
    BY <1>4 DEF Send
  <2>2. sentAt' \in [Token -> Time \cup {NoTime}]
    BY <2>1
  <2>3. \A t \in Token : sentAt'[t] = IF t = sending THEN clock ELSE sentAt[t]
    BY <2>1
  <2>4. clock # NoTime /\ sending <= clock
    BY <1>4 DEF Send, Time, NoTime
  <2>5. pongs' \subseteq {t \in Token : sentAt'[t] # NoTime}
    BY <2>1, <2>3, <2>4
  <2>6. \A t \in Token : sentAt'[t] # NoTime => t <= sentAt'[t]
    BY <2>3, <2>4
  <2>. QED
    BY <2>1, <2>2, <2>5, <2>6
<1>5. CASE ClientPong
  BY <1>5 DEF ClientPong
<1>6. CASE Receive
  <2>1. PICK token \in pongs : pong' = [on |-> TRUE, token |-> token, now |-> clock]
    BY <1>6 DEF Receive
  <2>2. pong' \in Arrived /\ pong'.token \in pongs
    BY <2>1 DEF Arrived
  <2>. QED
    BY <1>6, <2>2 DEF Receive
<1>7. CASE Pong
  <2>1. /\ pong' = NoPong /\ clock' = clock /\ tick' = tick
        /\ sending' = sending /\ sentAt' = sentAt /\ pongs' = pongs
    BY <1>7 DEF Pong
  <2>2. CASE client = NoClient \/ ~Answers(client, pong.token)
    <3>1. client' = client
      BY <1>7, <2>2 DEF Pong
    <3>. QED
      BY <2>1, <3>1
  <2>3. CASE client # NoClient /\ Answers(client, pong.token)
    <3>1. pong.now \in Time
      BY <1>7 DEF Pong, Arrived
    <3>2. client.pingSentAt \in Time
      BY <2>3 DEF Answers, Session
    <3>3. RoundTrip(client, pong.now) \in Token
      <4>1. CASE pong.now < client.pingSentAt
        BY <4>1, ClockAssumption DEF RoundTrip, Token
      <4>2. CASE ~(pong.now < client.pingSentAt)
        <5>1. pong.now - client.pingSentAt \in Time
          <6>1. pong.now \in Int /\ client.pingSentAt \in Int
                /\ 0 <= client.pingSentAt /\ pong.now <= MaxClock
                /\ client.pingSentAt <= pong.now
            BY <3>1, <3>2, <4>2, ClockAssumption DEF Time
          <6>. HIDE DEF Inv, TypeOK, TokenInv
          <6>. QED
            BY <6>1, ClockAssumption DEF Time
        <5>2. pong.now - client.pingSentAt \in Token
          BY <5>1, ClockAssumption DEF Time, Token
        <5>. QED
          BY <4>2, <5>1, <5>2, DifferenceFits DEF RoundTrip
      <4>. QED
        BY <4>1, <4>2
    <3>4. client' = [client EXCEPT !.rttMs = RoundTrip(client, pong.now),
                                   !.pingSentAt = ZeroTime]
      BY <1>7, <2>3 DEF Pong
    <3>5. client' \in Session /\ client'.pingSentAt = ZeroTime
      BY <2>3, <3>3, <3>4 DEF Session
    <3>. QED
      BY <2>1, <3>5
  <2>. QED
    BY <2>2, <2>3
<1>8. CASE Join
  <2>1. client' = NewClient /\ UNCHANGED <<clock, tick, sending, sentAt, pongs, pong>>
    BY <1>8 DEF Join
  <2>2. 0 \in Token
    BY ClockAssumption DEF Token
  <2>3. NewClient \in Session /\ NewClient.pingSentAt = ZeroTime
    BY <2>2 DEF NewClient, Session
  <2>. QED
    BY <2>1, <2>3
<1>9. CASE Leave
  BY <1>9 DEF Leave
<1>10. CASE UNCHANGED vars
  BY <1>10 DEF vars
<1>. QED
  BY <1>1, <1>2, <1>3, <1>4, <1>5, <1>6, <1>7, <1>8, <1>9, <1>10 DEF Next

\* A measured round trip covers the whole way of the Ping it answers: a Pong
\* of an earlier ping, or of an earlier session, never shortens it.
THEOREM NeverTooShortAlways == Spec => NeverTooShort
<1>1. ASSUME Inv, [Next]_vars, Measures
      PROVE  client'.rttMs >= pong.now - sentAt[pong.token]
  <2>1. Pong
    BY <1>1 DEF Next, Measures, Advance, TickFire, Tick, Send, ClientPong,
                Receive, Join, Leave, vars
  <2>2. client # NoClient /\ Answers(client, pong.token)
    BY <1>1, <2>1 DEF Pong, Measures
  <2>3. client'.rttMs = RoundTrip(client, pong.now)
    BY <1>1, <2>1, <2>2 DEF Pong, Inv, TypeOK, Session
  <2>4. /\ pong.now \in Time /\ client.pingSentAt \in Time
        /\ pong.token = client.pingSentAt
        /\ sentAt[pong.token] \in Time /\ pong.token <= sentAt[pong.token]
    BY <1>1, <2>1, <2>2 DEF Inv, TypeOK, TokenInv, Pong, Answers, Session, Arrived
  <2>. QED
    BY <2>3, <2>4, DifferenceFits, ClockAssumption DEF RoundTrip, Time
<1>2. Inv /\ [Next]_vars =>
        [Measures => client'.rttMs >= pong.now - sentAt[pong.token]]_vars
  BY <1>1
<1>. QED
  BY <1>2, InvInit, InvStep, PTL DEF Spec, NeverTooShort

\* The ping state of a session is well formed.
THEOREM TypeCorrect == Spec => []TypeOK
BY InvInit, InvStep, PTL DEF Spec, Inv
=============================================================================
