------------------------------ MODULE PingPong ------------------------------
(***************************************************************************)
(* The measurement of one address's round trip (tick and pong of           *)
(* internal/server/server.go).  A tick sends a Ping whose token is the     *)
(* uptime in milliseconds; the client answers each Ping with a Pong of the *)
(* same token; both may be lost, repeated, delayed and overtaken.  A Ping  *)
(* without a Pong is written off after PingEvery and sent again.           *)
(*                                                                         *)
(* The tick's now is the time it fired, the Ping leaves later, when the    *)
(* lock was had and released: "sending".  A Pong's time is taken when it   *)
(* arrives and used when it gets the lock: "pong".  The session may end    *)
(* and be opened again in between (leave, reap, kick and join: Sessions).  *)
(***************************************************************************)
EXTENDS Integers

CONSTANTS
    PingEvery,      \* const pingEvery
    Wrap,           \* 2^32: tokens and rttMs are uint32 of milliseconds
    Lag,            \* bound: how late a tick gets the lock
    MaxClock        \* bound: the clock stops here

\* The server has been up for less than 2^32 ms (49 days), so that no two
\* readings of the clock make the same token.
ASSUME ClockAssumption ==
    /\ PingEvery \in Nat /\ Lag \in Nat /\ MaxClock \in Nat
    /\ Wrap \in Nat /\ MaxClock < Wrap

VARIABLES
    clock,
    client,     \* the session: the ping fields of client, or NoClient
    tick,       \* the time of the tick that waits for the lock, or none
    sending,    \* the token of the Ping between unlock and WriteToUDP, or none
    sentAt,     \* history variable: when the Ping of each token left
    pongs,      \* the tokens of the Pongs that may arrive, once or more
    pong        \* the Pong between its arrival and the lock, or none

vars == <<clock, client, tick, sending, sentAt, pongs, pong>>

ZeroTime == -1
NoTime == -1                            \* no tick, no token
Time == 0 .. MaxClock
Token == 0 .. Wrap - 1
NoClient == [on |-> FALSE]
NoPong == [on |-> FALSE]

Session == [on : {TRUE}, rttMs : Token, pingToken : Token,
            pingSentAt : Time \cup {ZeroTime}, lastPingAt : Time \cup {ZeroTime}]
Arrived == [on : {TRUE}, token : Token, now : Time]

NewClient == [on |-> TRUE, rttMs |-> 0, pingToken |-> 0,
              pingSentAt |-> ZeroTime, lastPingAt |-> ZeroTime]

UptimeMs(now) == now % Wrap

-----------------------------------------------------------------------------
(* Conditions of the code *)

\* A ping is due PingEvery after the last; one that is outstanding is given
\* more than PingEvery before it is written off.
BugNeverResent(c, now) ==
    /\ c.lastPingAt = ZeroTime \/ now - c.lastPingAt >= PingEvery
    /\ c.pingSentAt = ZeroTime
PingDue(c, now) ==
    /\ c.lastPingAt = ZeroTime \/ now - c.lastPingAt >= PingEvery
    /\ c.pingSentAt = ZeroTime \/ now - c.pingSentAt > PingEvery

BugAnyToken(c, token) == c.pingSentAt # ZeroTime
Answers(c, token) == c.pingSentAt # ZeroTime /\ token = c.pingToken

RoundTrip(c, now) ==
    IF now < c.pingSentAt THEN 0 ELSE (now - c.pingSentAt) % Wrap

-----------------------------------------------------------------------------
(* Actions *)

\* A tick gets the lock, and its pings are on their way, at most Lag after it
\* fired.
Advance ==
    /\ clock < MaxClock
    /\ tick # NoTime => clock < tick + Lag
    /\ clock' = clock + 1
    /\ UNCHANGED <<client, tick, sending, sentAt, pongs, pong>>

TickFire ==
    /\ tick = NoTime
    /\ tick' = clock
    /\ UNCHANGED <<clock, client, sending, sentAt, pongs, pong>>

Tick ==
    /\ tick # NoTime /\ sending = NoTime
    /\ IF client # NoClient /\ PingDue(client, tick)
       THEN /\ client' = [client EXCEPT !.pingToken = UptimeMs(tick),
                                        !.pingSentAt = tick, !.lastPingAt = tick]
            /\ sending' = UptimeMs(tick)
       ELSE UNCHANGED <<client, sending>>
    /\ tick' = NoTime
    /\ UNCHANGED <<clock, sentAt, pongs, pong>>

Send ==
    /\ sending # NoTime
    /\ sentAt' = [sentAt EXCEPT ![sending] = clock]
    /\ sending' = NoTime
    /\ UNCHANGED <<clock, client, tick, pongs, pong>>

\* The client answers a Ping that was sent to it; one never answered is lost.
ClientPong ==
    /\ \E token \in Token :
         sentAt[token] # NoTime /\ pongs' = pongs \cup {token}
    /\ UNCHANGED <<clock, client, tick, sending, sentAt, pong>>

Receive ==
    /\ pong = NoPong
    /\ \E token \in pongs : pong' = [on |-> TRUE, token |-> token, now |-> clock]
    /\ UNCHANGED <<clock, client, tick, sending, sentAt, pongs>>

Pong ==
    /\ pong # NoPong
    /\ client' = IF client = NoClient \/ ~Answers(client, pong.token) THEN client
                 ELSE [client EXCEPT !.rttMs = RoundTrip(client, pong.now),
                                     !.pingSentAt = ZeroTime]
    /\ pong' = NoPong
    /\ UNCHANGED <<clock, tick, sending, sentAt, pongs>>

Join ==
    /\ client = NoClient
    /\ client' = NewClient
    /\ UNCHANGED <<clock, tick, sending, sentAt, pongs, pong>>

Leave ==
    /\ client # NoClient
    /\ client' = NoClient
    /\ UNCHANGED <<clock, tick, sending, sentAt, pongs, pong>>

-----------------------------------------------------------------------------
(* The specification *)

Init ==
    /\ clock = 0 /\ client = NoClient /\ tick = NoTime /\ sending = NoTime
    /\ sentAt = [t \in Token |-> NoTime] /\ pongs = {} /\ pong = NoPong

Next ==
    \/ Advance \/ TickFire \/ Tick \/ Send
    \/ ClientPong \/ Receive \/ Pong \/ Join \/ Leave

Spec == Init /\ [][Next]_vars

\* The clock and the ticker's goroutine run; no Pong need ever arrive.
FairSpec ==
    Spec /\ WF_vars(Advance) /\ WF_vars(TickFire) /\ WF_vars(Tick) /\ WF_vars(Send)

-----------------------------------------------------------------------------
(* Properties *)

\* The state is well formed, and a ping is outstanding only as the last ping.
TypeOK ==
    /\ clock \in Time
    /\ client = NoClient \/
         /\ client \in Session
         /\ client.pingSentAt \in {ZeroTime, client.lastPingAt}
    /\ tick \in Time \cup {NoTime}
    /\ sending \in Token \cup {NoTime}
    /\ sentAt \in [Token -> Time \cup {NoTime}]
    /\ pongs \subseteq {t \in Token : sentAt[t] # NoTime}
    /\ pong # NoPong => pong \in Arrived /\ pong.token \in pongs

Measures == client # NoClient /\ client' # NoClient /\ pong # NoPong
            /\ pong' = NoPong /\ client'.pingSentAt # client.pingSentAt

\* A measurement is never too short: it covers at least the time from when
\* the Ping that this Pong answers left to when the Pong arrived, whichever
\* older Pongs are still under way and however the session was replaced.
NeverTooShort ==
    [][Measures => client'.rttMs >= pong.now - sentAt[pong.token]]_vars

\* A ping that got no answer does not end the measurement: another one follows.
Resent ==
    \A t \in Time :
        (/\ client # NoClient /\ client.pingSentAt = t
         /\ t + PingEvery + Lag < MaxClock)
        ~> (client = NoClient \/ client.pingSentAt # t)
=============================================================================
