------------------------------ MODULE Sessions ------------------------------
(***************************************************************************)
(* The session table of rbrmp-server: who is connected, who was kicked a   *)
(* moment ago and who is banned, under every goroutine that touches it     *)
(* (internal/server/server.go):                                            *)
(*                                                                         *)
(*   - the reader, the only one that handles datagrams.  It captures the   *)
(*     arrival time, then enters up to three critical sections of s.mu for *)
(*     one datagram: the ban check, the kick check and the message itself; *)
(*   - the ticker, which reaps the silent sessions.  Its "now" is the time *)
(*     the tick fired, which may be well before it gets the lock;          *)
(*   - one goroutine per RCON connection.  Kick and Unban are one critical *)
(*     section each, Ban is three with unlocked code in between.           *)
(*                                                                         *)
(* One action is one critical section together with the thread-local code  *)
(* around it.  Time is an integer clock; a goroutine that has read the     *)
(* clock keeps the value it read.  Left to other modules: the content of   *)
(* States (StateRelay), pings (PingPong), the bans file (BanList).  Left   *)
(* out: what is sent, the car a player drives, counters and logging.       *)
(***************************************************************************)
EXTENDS Integers, FiniteSets, Functions

CONSTANTS
    Addr,           \* UDP source addresses, addr.String()
    IP,             \* their IPs, addr.IP.String()
    IPOf,           \* the IP of each address; several may share one
    Name,           \* names players choose, up to case (strings.EqualFold); a
                    \* name that is a number models one that parses as an id
    NoName,         \* the empty name
    PlayerName,     \* PlayerName[i]: the default name "Player i"
    Admin,          \* RCON connections
    Traffic,        \* bound: the kinds of datagram that arrive
    Commands,       \* bound: the commands the admins give
    Timeout,        \* cfg.Timeout
    KickWindow,     \* const kickWindow
    BanNoticeEvery, \* const banNoticeEvery
    ChatGap,        \* the 300 ms of chat's flood guard
    MaxClock,       \* bound: the clock stops here
    MaxSessions     \* bound: no datagram that registers is read once this
                    \* many sessions have been created

SessionId == 1 .. MaxSessions

ASSUME IPOfAssumption == IPOf \in [Addr -> IP]

\* The datagrams that pass DecodeHello, DecodeState and so on.  "Junk" is one
\* ParseHeader or a decoder refuses; Pong touches no variable of this module.
MsgType == {"Hello", "State", "Chat", "Bye", "Junk"}
Registering == {"Hello", "State"}

ASSUME TrafficAssumption ==
    Traffic \subseteq MsgType /\ Commands \subseteq {"kick", "ban", "unban"}

ASSUME TimeAssumption ==
    /\ Timeout \in Nat /\ KickWindow \in Nat /\ BanNoticeEvery \in Nat
    /\ ChatGap \in Nat /\ MaxClock \in Nat /\ MaxSessions \in Nat

\* A default name holds a space, so no name a command can target (strings.Fields
\* splits the command line) and no id or IP equals one.
ASSUME NameAssumption ==
    /\ PlayerName \in [SessionId -> {PlayerName[i] : i \in SessionId}]
    /\ \A i \in SessionId : PlayerName[i] \notin SessionId \cup Name \cup IP
    /\ NoName \notin Name

VARIABLES
    clock,          \* real time
    nextID,         \* Server.nextID
    clients,        \* Server.clients: address -> session
    recentlyKicked, \* Server.recentlyKicked: address -> time of the kick
    lastBanNotice,  \* Server.lastBanNotice: address -> time of the last notice
    bans,           \* Server.bans.entries: IP -> BannedAt
    rx,             \* the reader: where it is and the datagram it handles
    ticker,         \* the tick in the ticker's channel and the one in tick()
    rcon,           \* each RCON connection: where it is in Ban
    noticed         \* history variable: the last ban notice each address ever
                    \* got; unlike lastBanNotice nothing removes it

vars == <<clock, nextID, clients, recentlyKicked, lastBanNotice, bans,
          rx, ticker, rcon, noticed>>
admission == <<recentlyKicked, lastBanNotice, bans, noticed>>

-----------------------------------------------------------------------------
(* Values *)

ZeroTime == -1                          \* time.Time{}: before every reading
Time == 0 .. MaxClock

PlayerNames == {PlayerName[i] : i \in SessionId}
Session == [id : SessionId, name : Name \cup PlayerNames, joinedAt : Time,
            lastSeen : Time, lastChat : Time \cup {ZeroTime}]

\* What a command may name: an id, a name or an IP.
Target == SessionId \cup Name \cup IP

\* A partial function with one more, or another, entry.
Put(m, k, v) == [x \in DOMAIN m \cup {k} |-> IF x = k THEN v ELSE m[x]]
\* A partial function without the entries of S.
Without(m, S) == Restrict(m, DOMAIN m \ S)

-----------------------------------------------------------------------------
(* Conditions of the code *)

Banned(a) == IPOf[a] \in DOMAIN bans

\* handle asks for the ban of every datagram, whatever its type.
BugOnlyRegistering == rx.type \notin Registering \/ ~Banned(rx.addr)
Admitted == ~Banned(rx.addr)

\* A missing entry of lastBanNotice reads as the zero time, which is longer
\* ago than any interval.
NoticeDue(a, now) ==
    a \in DOMAIN lastBanNotice => now - lastBanNotice[a] >= BanNoticeEvery

BugTimeoutForWindow(a, now) ==
    a \in DOMAIN recentlyKicked /\ now - recentlyKicked[a] < Timeout
KickedRecently(a, now) ==
    a \in DOMAIN recentlyKicked /\ now - recentlyKicked[a] < KickWindow

ChatTooSoon(c, now) == c.lastChat # ZeroTime /\ now - c.lastChat < ChatGap

BugSilentTooSoon(c, now) == now - c.lastSeen >= Timeout
Silent(c, now) == now - c.lastSeen > Timeout

KickExpired(a, now) == now - recentlyKicked[a] >= KickWindow
BugTimeoutForNotice(a, now) == now - lastBanNotice[a] >= Timeout
NoticeExpired(a, now) == now - lastBanNotice[a] >= BanNoticeEvery

\* The addresses findClientLocked may return: the session with that id, or
\* else, in whatever order the map yields, any session with that name.
ById(arg) == {a \in DOMAIN clients : clients[a].id = arg}
ByName(arg) == {a \in DOMAIN clients : clients[a].name = arg}
Found(arg) == IF ById(arg) # {} THEN ById(arg) ELSE ByName(arg)

\* clientLocked: the session of an address, or a new one.
FirstID == 1
BugIDByCount(id) == Cardinality(DOMAIN clients) + 2
IDAfter(id) == id + 1
ClientLocked(a, name, now) ==
    IF a \in DOMAIN clients THEN clients[a]
    ELSE [id |-> nextID,
          name |-> IF name = NoName THEN PlayerName[nextID] ELSE name,
          joinedAt |-> now, lastSeen |-> now, lastChat |-> ZeroTime]
NextIDAfter(a) == IF a \in DOMAIN clients THEN nextID ELSE IDAfter(nextID)

-----------------------------------------------------------------------------
(* Time *)

Advance ==
    /\ clock < MaxClock
    /\ clock' = clock + 1
    /\ UNCHANGED <<nextID, clients, admission, rx, ticker, rcon>>

-----------------------------------------------------------------------------
(* The reader *)

Idle == [pc |-> "read"]

\* A datagram arrives and its arrival time is taken, before any check.
ReadFromUDP ==
    /\ rx.pc = "read"
    /\ \E a \in Addr, type \in Traffic, name \in Name \cup {NoName} :
        /\ type \in Registering => nextID <= MaxSessions
        /\ type # "Hello" => name = NoName
        /\ rx' = [pc |-> "ban", addr |-> a, type |-> type, name |-> name,
                  now |-> clock]
    /\ UNCHANGED <<clock, nextID, clients, admission, ticker, rcon>>

\* Everything from a banned IP is dropped; now and then the address is told.
DropBanned ==
    /\ rx.pc = "ban" /\ ~Admitted
    /\ IF NoticeDue(rx.addr, rx.now)
       THEN /\ lastBanNotice' = Put(lastBanNotice, rx.addr, rx.now)
            /\ noticed' = [noticed EXCEPT ![rx.addr] = rx.now]
       ELSE UNCHANGED <<lastBanNotice, noticed>>
    /\ rx' = Idle
    /\ UNCHANGED <<clock, nextID, clients, recentlyKicked, bans, ticker, rcon>>

\* The lock is released here: what follows may find the address banned.
PassBanCheck ==
    /\ rx.pc = "ban" /\ Admitted
    /\ rx' = IF rx.type = "Junk" THEN Idle
             ELSE [rx EXCEPT !.pc = IF rx.type \in Registering THEN "kick"
                                    ELSE "apply"]
    /\ UNCHANGED <<clock, nextID, clients, admission, ticker, rcon>>

DropKicked ==
    /\ rx.pc = "kick" /\ KickedRecently(rx.addr, rx.now)
    /\ rx' = Idle
    /\ UNCHANGED <<clock, nextID, clients, admission, ticker, rcon>>

\* The lock is released here too: the address may be kicked before "apply".
PassKickCheck ==
    /\ rx.pc = "kick" /\ ~KickedRecently(rx.addr, rx.now)
    /\ rx' = [rx EXCEPT !.pc = "apply"]
    /\ UNCHANGED <<clock, nextID, clients, admission, ticker, rcon>>

Applies(type) == rx.pc = "apply" /\ rx.type = type

Join ==
    /\ Applies("Hello")
    /\ LET c == ClientLocked(rx.addr, rx.name, rx.now)
       IN  clients' = Put(clients, rx.addr,
               [c EXCEPT !.lastSeen = rx.now,
                         !.name = IF rx.name = NoName THEN @ ELSE rx.name])
    /\ nextID' = NextIDAfter(rx.addr)
    /\ rx' = Idle
    /\ UNCHANGED <<clock, admission, ticker, rcon>>

\* Accepted or not by the sequence filter, a State counts as seen.
State ==
    /\ Applies("State")
    /\ clients' = Put(clients, rx.addr,
           [ClientLocked(rx.addr, NoName, rx.now) EXCEPT !.lastSeen = rx.now])
    /\ nextID' = NextIDAfter(rx.addr)
    /\ rx' = Idle
    /\ UNCHANGED <<clock, admission, ticker, rcon>>

\* A line of chat keeps a session alive but never opens one.
Chat ==
    /\ Applies("Chat")
    /\ clients' = IF \/ rx.addr \notin DOMAIN clients
                     \/ ChatTooSoon(clients[rx.addr], rx.now)
                  THEN clients
                  ELSE [clients EXCEPT ![rx.addr].lastChat = rx.now,
                                       ![rx.addr].lastSeen = rx.now]
    /\ rx' = Idle
    /\ UNCHANGED <<clock, nextID, admission, ticker, rcon>>

Bye ==
    /\ Applies("Bye")
    /\ clients' = Without(clients, {rx.addr})
    /\ rx' = Idle
    /\ UNCHANGED <<clock, nextID, admission, ticker, rcon>>

Reader == \/ DropBanned \/ PassBanCheck \/ DropKicked \/ PassKickCheck
          \/ Join \/ State \/ Chat \/ Bye

-----------------------------------------------------------------------------
(* The ticker *)

\* time.Ticker holds one tick and drops those that find it full.
TickFire ==
    /\ ticker.chan = ZeroTime
    /\ ticker' = [ticker EXCEPT !.chan = clock]
    /\ UNCHANGED <<clock, nextID, clients, admission, rx, rcon>>

\* tickLoop takes the tick; tick() may still have to wait for the lock.
TickReceive ==
    /\ ticker.hand = ZeroTime /\ ticker.chan # ZeroTime
    /\ ticker' = [chan |-> ZeroTime, hand |-> ticker.chan]
    /\ UNCHANGED <<clock, nextID, clients, admission, rx, rcon>>

Tick ==
    /\ ticker.hand # ZeroTime
    /\ LET now == ticker.hand
       IN  /\ clients' = Without(clients,
                  {a \in DOMAIN clients : Silent(clients[a], now)})
           /\ recentlyKicked' = Without(recentlyKicked,
                  {a \in DOMAIN recentlyKicked : KickExpired(a, now)})
           /\ lastBanNotice' = Without(lastBanNotice,
                  {a \in DOMAIN lastBanNotice : NoticeExpired(a, now)})
    /\ ticker' = [ticker EXCEPT !.hand = ZeroTime]
    /\ UNCHANGED <<clock, nextID, bans, rx, rcon, noticed>>

-----------------------------------------------------------------------------
(* RCON *)

Ready == [pc |-> "ready"]

\* What Kick does once findClientLocked has returned the session of address a.
KickOut(a) ==
    /\ clients' = Without(clients, {a})
    /\ recentlyKicked' = Put(recentlyKicked, a, clock)

Kick(r) ==
    /\ rcon[r].pc = "ready" /\ "kick" \in Commands
    /\ \E arg \in Target : \E a \in Found(arg) : KickOut(a)
    /\ UNCHANGED <<clock, nextID, lastBanNotice, bans, rx, ticker, rcon, noticed>>

\* Ban, first critical section: whom does the argument name?  No match and not
\* an IP is an error that changes nothing.
BanLookup(r) ==
    /\ rcon[r].pc = "ready" /\ "ban" \in Commands
    /\ \E arg \in Target :
        \/ \E a \in Found(arg) :
             rcon' = [rcon EXCEPT ![r] =
                 [pc |-> "name", arg |-> arg, ip |-> IPOf[a],
                  addrKey |-> a, id |-> clients[a].id]]
        \/ /\ Found(arg) = {} /\ arg \in IP
           /\ rcon' = [rcon EXCEPT ![r] = [pc |-> "addIP", ip |-> arg]]
    /\ UNCHANGED <<clock, nextID, clients, admission, rx, ticker>>

\* Ban reads c.name for the ban entry without the lock.
BanReadName(r) ==
    /\ rcon[r].pc = "name"
    /\ rcon' = [rcon EXCEPT ![r].pc = "add"]
    /\ UNCHANGED <<clock, nextID, clients, admission, rx, ticker>>

\* Ban, second critical section.  A ban by IP ends here and kicks nobody.
BanAdd(r) ==
    /\ rcon[r].pc \in {"add", "addIP"}
    /\ bans' = Put(bans, rcon[r].ip, clock)
    /\ rcon' = [rcon EXCEPT ![r] =
                   IF @.pc = "addIP" THEN Ready ELSE [@ EXCEPT !.pc = "kick"]]
    /\ UNCHANGED <<clock, nextID, clients, recentlyKicked, lastBanNotice,
                   rx, ticker, noticed>>

\* The sessions Ban kicks: Kick resolves the argument a second time.
BanVictims(r) == Found(rcon[r].arg)

\* Ban, third critical section: Kick, which may find somebody else or nobody.
BanKick(r) ==
    /\ rcon[r].pc = "kick"
    /\ \/ \E a \in BanVictims(r) : KickOut(a)
       \/ BanVictims(r) = {} /\ UNCHANGED <<clients, recentlyKicked>>
    /\ rcon' = [rcon EXCEPT ![r] = Ready]
    /\ UNCHANGED <<clock, nextID, lastBanNotice, bans, rx, ticker, noticed>>

Unban(r) ==
    /\ rcon[r].pc = "ready" /\ "unban" \in Commands
    /\ \E ip \in DOMAIN bans : bans' = Without(bans, {ip})
    /\ UNCHANGED <<clock, nextID, clients, recentlyKicked, lastBanNotice,
                   rx, ticker, rcon, noticed>>

Command(r) == Kick(r) \/ BanLookup(r) \/ Unban(r)
BanStep(r) == BanReadName(r) \/ BanAdd(r) \/ BanKick(r)

-----------------------------------------------------------------------------
(* The specification *)

Empty == [x \in {} |-> 0]

Init ==
    /\ clock = 0
    /\ nextID = FirstID
    /\ clients = Empty
    /\ recentlyKicked = Empty
    /\ lastBanNotice = Empty
    /\ bans \in {[x \in S |-> 0] : S \in SUBSET IP}     \* the bans file
    /\ rx = Idle
    /\ ticker = [chan |-> ZeroTime, hand |-> ZeroTime]
    /\ rcon = [r \in Admin |-> Ready]
    /\ noticed = [a \in Addr |-> ZeroTime]

Next ==
    \/ Advance
    \/ ReadFromUDP \/ Reader
    \/ TickFire \/ TickReceive \/ Tick
    \/ \E r \in Admin : Command(r) \/ BanStep(r)

Spec == Init /\ [][Next]_vars

\* Time passes, the runtime's ticker fires, and every goroutine that can run
\* is run (the Go scheduler is preemptive and s.mu is starvation free).  No
\* datagram needs to arrive and no admin needs to type.
Fairness ==
    /\ WF_vars(Advance)
    /\ WF_vars(Reader)
    /\ WF_vars(TickFire) /\ WF_vars(TickReceive) /\ WF_vars(Tick)
    /\ \A r \in Admin : WF_vars(BanStep(r))

FairSpec == Spec /\ Fairness

-----------------------------------------------------------------------------
(* Properties *)

ClientsOK ==
    /\ nextID \in 1 .. MaxSessions + 1
    /\ DOMAIN clients \subseteq Addr
    /\ \A a \in DOMAIN clients : clients[a] \in Session /\ clients[a].id < nextID

AdmissionOK ==
    /\ DOMAIN recentlyKicked \subseteq Addr
    /\ \A a \in DOMAIN recentlyKicked : recentlyKicked[a] \in Time
    /\ DOMAIN lastBanNotice \subseteq Addr
    /\ \A a \in DOMAIN lastBanNotice : lastBanNotice[a] \in Time
    /\ DOMAIN bans \subseteq IP
    /\ \A ip \in DOMAIN bans : bans[ip] \in Time
    /\ noticed \in [Addr -> Time \cup {ZeroTime}]

Datagram == [pc : {"ban", "kick", "apply"}, addr : Addr, type : MsgType,
             name : Name \cup {NoName}, now : Time]
Banning == [pc : {"name", "add", "kick"}, arg : Target, ip : IP,
            addrKey : Addr, id : SessionId]
BanningIP == [pc : {"addIP"}, ip : IP]

GoroutinesOK ==
    /\ rx \in {Idle} \cup Datagram
    /\ ticker \in [chan : Time \cup {ZeroTime}, hand : Time \cup {ZeroTime}]
    /\ rcon \in [Admin -> {Ready} \cup Banning \cup BanningIP]

\* The state is well formed: every session has an id already handed out, no
\* default name has been asked for beyond those there are, and no goroutine
\* holds a datagram, a tick or a ban it could not have got.
TypeOK == clock \in Time /\ ClientsOK /\ AdmissionOK /\ GoroutinesOK

\* No two sessions share an id, whatever joins, leaves and is reaped in
\* between (snapshots, chat and commands all name players by id).
IdsUnique ==
    \A a, b \in DOMAIN clients : clients[a].id = clients[b].id => a = b

\* Every session of a kicked address was opened by a datagram that arrived
\* before the kick or after the whole window: Hello and State that arrive
\* inside kickWindow never register, however kick, tick and reader interleave.
KickedStaysOut ==
    \A a \in DOMAIN clients \cap DOMAIN recentlyKicked :
        \/ clients[a].joinedAt <= recentlyKicked[a]
        \/ clients[a].joinedAt - recentlyKicked[a] >= KickWindow

\* A session at a banned IP (kicking it is a later step of Ban, and a ban by
\* IP kicks nobody) is never kept alive by what arrives after the ban.
BannedStaysOut ==
    \A a \in DOMAIN clients :
        Banned(a) => clients[a].lastSeen <= bans[IPOf[a]]

\* The address whose session leaves in this step, other than by a renewal.
Leaves(a) == a \in DOMAIN clients /\ a \notin DOMAIN clients'

\* A session ends only by its own Bye, by a kick, or because nothing that
\* counts as a sign of life arrived for longer than Timeout of real time; a
\* tick that fired long ago must not reap a session seen since.
NoEarlyDrop ==
    [][\A a \in Addr : Leaves(a) =>
          \/ Applies("Bye") /\ rx.addr = a
          \/ a \in DOMAIN recentlyKicked' /\ recentlyKicked'[a] = clock
          \/ clock - clients[a].lastSeen > Timeout]_vars

\* A banned address gets at most one notice per banNoticeEvery: when a notice
\* goes out, that much time has passed since the datagram the last one
\* answered, even if a tick forgot the last one in between.
NoticeSpaced ==
    [][\A a \in Addr : noticed'[a] # noticed[a] =>
          noticed[a] = ZeroTime \/ clock - noticed[a] >= BanNoticeEvery]_vars

\* A ban by id never kicks anybody but the player it looked up: an id whose
\* player leaves between the two lookups of Ban is not given to another one.
\* (Where some player's name is a number this is not so: see BanKicksItsTarget.)
BanByIdKicksItsTarget ==
    [][\A r \in Admin, a \in Addr :
          (Leaves(a) /\ rcon[r].pc = "kick" /\ rcon'[r].pc = "ready"
             /\ rcon[r].arg \in SessionId) => a = rcon[r].addrKey]_vars

\* With time left on the clock, a session at a banned IP ends or the ban is
\* lifted: nothing from the IP can keep it alive and the reaper gets to it.
BannedDrains ==
    \A a \in Addr :
        (/\ a \in DOMAIN clients /\ Banned(a)
         /\ bans[IPOf[a]] + Timeout < MaxClock)
        ~> (a \notin DOMAIN clients \/ ~Banned(a))

-----------------------------------------------------------------------------
(* What the documentation says and the code does not do *)

\* The comment of Ban: the player whose IP is banned is the one kicked too.
BanKicksItsTarget ==
    [][\A r \in Admin, a \in Addr :
          (Leaves(a) /\ rcon[r].pc = "kick" /\ rcon'[r].pc = "ready")
             => a = rcon[r].addrKey]_vars
=============================================================================
