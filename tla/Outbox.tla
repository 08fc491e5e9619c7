------------------------------- MODULE Outbox -------------------------------
(***************************************************************************)
(* What the goroutines of the server send, composed with what they do to   *)
(* the session table (Sessions): Welcome, chat, Say, Kick and snapshots    *)
(* (internal/server/server.go).                                            *)
(*                                                                         *)
(* A goroutine prepares its datagrams while it holds s.mu and writes them  *)
(* one by one after it has let go; it takes up nothing else before they    *)
(* are all written.  In between the other goroutines change the table and  *)
(* write theirs.  Every step is a step of Sessions with what it sends, or  *)
(* Say, or the writing of one datagram.  Pings are PingPong's; what is in  *)
(* a datagram is Wire's, what UDP does to it is nobody's.                  *)
(***************************************************************************)
EXTENDS Sessions, Sequences, SequencesExt

CONSTANTS
    Stale,          \* cfg.Stale
    Copies          \* of a Kick

ASSUME OutboxAssumption ==
    /\ Stale \in Nat /\ Copies \in Nat
    /\ IsFiniteSet(Addr) /\ Admin \cap {"reader", "ticker"} = {}

VARIABLES
    out,            \* what each goroutine has still to write
    posed,          \* ids of the sessions whose history holds a sample
    welcomed,       \* history variable: the id in the last Welcome to an address
    shown           \* history variable: the ids in the last snapshot to it

outVars == <<out, posed, welcomed, shown>>
allVars == <<vars, outVars>>

Goroutine == {"reader", "ticker"} \cup Admin
Speaker == {"reader"} \cup Admin

-----------------------------------------------------------------------------
(* Datagrams *)

Welcome(a, id) == [what |-> "Welcome", to |-> a, id |-> id]
KickNotice(a) == [what |-> "Kick", to |-> a]
Line(a) == [what |-> "Chat", to |-> a]
Snapshot(a, ids) == [what |-> "Snapshot", to |-> a, ids |-> ids]

\* for range s.clients: once each, in any order.
InAnyOrder(S) == SetToSeqs(S)

Silenced(g) == out[g] = <<>>
Queue(g, datagrams) == out' = [out EXCEPT ![g] = datagrams]

-----------------------------------------------------------------------------
(* The reader *)

Quiet == UNCHANGED outVars

BanNotice ==
    /\ DropBanned
    /\ IF NoticeDue(rx.addr, rx.now)
       THEN Queue("reader", <<KickNotice(rx.addr)>>) ELSE UNCHANGED out
    /\ UNCHANGED <<posed, welcomed, shown>>

JoinAndWelcome ==
    /\ Join
    /\ Queue("reader", <<Welcome(rx.addr, clients'[rx.addr].id)>>)
    /\ UNCHANGED <<posed, welcomed, shown>>

\* A State without a Hello is welcomed too.
BugOnlyHello(a) == FALSE
Created(a) == a \notin DOMAIN clients

StateAndWelcome ==
    /\ State
    /\ IF Created(rx.addr)
       THEN Queue("reader", <<Welcome(rx.addr, clients'[rx.addr].id)>>)
       ELSE UNCHANGED out
    /\ posed' = posed \cup {clients'[rx.addr].id}
    /\ UNCHANGED <<welcomed, shown>>

BugOthers(s) == DOMAIN clients \ (IF s = "reader" THEN {rx.addr} ELSE {})
Audience(s) == DOMAIN clients

\* The loop over s.clients: a copy for everybody who has a session now.
Speak(s) ==
    /\ \E order \in InAnyOrder(Audience(s)) :
        Queue(s, [i \in DOMAIN order |-> Line(order[i])])
    /\ UNCHANGED <<posed, welcomed, shown>>

ChatLine ==
    /\ Chat
    /\ IF rx.addr \in DOMAIN clients /\ ~ChatTooSoon(clients[rx.addr], rx.now)
       THEN Speak("reader") ELSE Quiet

ReadNext == Silenced("reader") /\ ReadFromUDP /\ Quiet

ReaderSends ==
    \/ BanNotice \/ JoinAndWelcome \/ StateAndWelcome \/ ChatLine
    \/ (PassBanCheck \/ DropKicked \/ PassKickCheck \/ Bye) /\ Quiet

-----------------------------------------------------------------------------
(* The ticker *)

BugKeepsSelf(me, other) == FALSE
IsMe(me, other) == other = me

\* Everybody else who was seen lately and has sent a State, in what the tick
\* prepares for me; live are the sessions it did not reap.
Entities(me, live, now) ==
    {live[a].id : a \in {b \in DOMAIN live :
        /\ ~IsMe(me, b) /\ now - live[b].lastSeen <= Stale
        /\ live[b].id \in posed}}

BugBeforeReaping == clients
Live == clients'

BugSkipsEmpty(a) == Entities(a, Live, ticker.hand) # {}
IsSent(a) == TRUE

TickAndSend ==
    /\ Tick
    /\ \E order \in InAnyOrder({a \in DOMAIN clients' : IsSent(a)}) :
        /\ \A i, j \in DOMAIN order : i < j => clients[order[i]].id < clients[order[j]].id
        /\ Queue("ticker", [i \in DOMAIN order |->
               Snapshot(order[i], Entities(order[i], Live, ticker.hand))])
    /\ UNCHANGED <<posed, welcomed, shown>>

TickNext == Silenced("ticker") /\ TickReceive /\ Quiet

-----------------------------------------------------------------------------
(* RCON *)

\* The session that this step removes, if any, is told so.
KickTold(r) ==
    /\ IF DOMAIN clients' = DOMAIN clients THEN UNCHANGED out
       ELSE LET a == CHOOSE b \in DOMAIN clients : b \notin DOMAIN clients'
            IN  Queue(r, [i \in 1 .. Copies |-> KickNotice(a)])
    /\ UNCHANGED <<posed, welcomed, shown>>

Say(r) ==
    /\ rcon[r].pc = "ready" /\ Silenced(r)
    /\ Speak(r)
    /\ UNCHANGED vars

\* A command, or the next step of a Ban; only a Kick, by itself or as the last
\* step of Ban, has something to send.
Obey(r) == Silenced(r) /\ (Command(r) \/ BanStep(r)) /\ KickTold(r)

-----------------------------------------------------------------------------
(* Sending *)

\* send, of the first datagram g has still to write.
Send(g) ==
    /\ ~Silenced(g)
    /\ LET d == Head(out[g])
       IN  /\ welcomed' = IF d.what = "Welcome"
                          THEN [welcomed EXCEPT ![d.to] = d.id] ELSE welcomed
           /\ shown' = IF d.what = "Snapshot"
                       THEN [shown EXCEPT ![d.to] = d.ids] ELSE shown
    /\ out' = [out EXCEPT ![g] = Tail(@)]
    /\ UNCHANGED <<vars, posed>>

-----------------------------------------------------------------------------
(* The specification *)

OutInit ==
    /\ Init
    /\ out = [g \in Goroutine |-> <<>>]
    /\ posed = {}
    /\ welcomed = [a \in Addr |-> 0]
    /\ shown = [a \in Addr |-> {}]

OutNext ==
    \/ (Advance \/ TickFire) /\ Quiet
    \/ ReadNext \/ ReaderSends
    \/ TickNext \/ TickAndSend
    \/ \E r \in Admin : Obey(r) \/ Say(r)
    \/ \E g \in Goroutine : Send(g)

OutSpec == OutInit /\ [][OutNext]_allVars

\* As in Sessions; what is prepared is written.
OutFairness ==
    /\ WF_allVars(Advance /\ Quiet)
    /\ WF_allVars(ReaderSends)
    /\ WF_allVars(TickFire /\ Quiet) /\ WF_allVars(TickNext)
    /\ WF_allVars(TickAndSend)
    /\ \A r \in Admin : WF_allVars(BanStep(r) /\ KickTold(r))
    /\ \A g \in Goroutine : WF_allVars(Send(g))

OutFairSpec == OutSpec /\ OutFairness

-----------------------------------------------------------------------------
(* Properties *)

\* How many copies of its line a goroutine has still to write to an address.
Count(datagrams, a) ==
    Cardinality({i \in DOMAIN datagrams : datagrams[i] = Line(a)})
Copy(s, a) == Count(out[s], a)
Lines(s) ==
    IF \A a \in Addr : Copy(s, a) = 0 THEN <<>> ELSE <<[a \in Addr |-> Copy(s, a)]>>

Room == INSTANCE ChatRoom WITH
            Listener <- Addr, present <- DOMAIN clients,
            due <- [s \in Speaker |-> Lines(s)]

\* The chat keeps the promises of ChatRoom: everybody who has a session when a
\* line is said gets it, the speaker included, and the lines of one goroutine
\* (all players' lines are the reader's) in the order they were said.
ImplementsRoom == Room!Spec

Under(g) == Range(out[g])

\* A player never takes itself for somebody else: the id in the last Welcome to
\* an address that has a session is the id of that session, or the Welcome with
\* that id is what the reader writes next.
KnowsItsId ==
    \A a \in DOMAIN clients :
        welcomed[a] = clients[a].id \/ Welcome(a, clients[a].id) \in Under("reader")

\* The ids of players that are gone.
Ended(i) == i < nextID /\ \A a \in DOMAIN clients : clients[a].id # i

\* Snapshots with this player are still to be written.
Prepared(i) == \E d \in Range(out["ticker"]) : i \in d.ids

\* Nobody is told about a player that left: no tick prepares a snapshot with a
\* player whose session is over, be it since long or by this very tick.
NoGhost ==
    [][\A i \in SessionId :
          Ended(i)' /\ Prepared(i)' => Prepared(i)]_allVars

\* Nobody is shown its own car while it is in a session: the car the game
\* would draw on top of the player's own.
NotMyself ==
    \A a \in DOMAIN clients : clients[a].id \notin shown[a]

\* A player that is gone disappears from everybody's snapshots.
LeftVanishes ==
    \A a \in Addr, i \in SessionId :
        (Ended(i) /\ i \in shown[a] /\ a \in DOMAIN clients)
        ~> (i \notin shown[a] \/ a \notin DOMAIN clients)
=============================================================================
