--------------------------- MODULE SessionsProofs ---------------------------
(***************************************************************************)
(* Proofs about Sessions, for any addresses, IPs, names, admins and time   *)
(* constants.  Each part of the inductive invariant is preserved given the *)
(* parts before it; the parts are put together at the end.                 *)
(***************************************************************************)
EXTENDS Sessions, TLAPS

-----------------------------------------------------------------------------
(* Type correctness *)

\* ReadFromUDP lets in a datagram that may open a session only while there is
\* an id left, and no other datagram is handled before it.
IdsLeft == (rx # Idle /\ rx.type \in Registering) => nextID <= MaxSessions

\* The sessions clientLocked hands out are well formed.
LEMMA ClientLockedType ==
    ASSUME TypeOK, NEW a \in Addr, NEW name \in Name \cup {NoName},
           NEW now \in Time, nextID <= MaxSessions
    PROVE  /\ ClientLocked(a, name, now) \in Session
           /\ ClientLocked(a, name, now).id < NextIDAfter(a)
           /\ NextIDAfter(a) \in 1 .. MaxSessions + 1
           /\ nextID <= NextIDAfter(a)
<1>1. nextID \in SessionId
  BY TimeAssumption DEF TypeOK, ClientsOK, SessionId
<1>2. CASE a \in DOMAIN clients
  BY <1>2 DEF TypeOK, ClientsOK, ClientLocked, NextIDAfter
<1>3. CASE a \notin DOMAIN clients
  <2>1. NextIDAfter(a) = nextID + 1
    BY <1>3 DEF NextIDAfter, IDAfter
  <2>2. (IF name = NoName THEN PlayerName[nextID] ELSE name)
            \in Name \cup PlayerNames
    BY <1>1 DEF PlayerNames
  <2>3. ClientLocked(a, name, now) \in Session
    BY <1>1, <1>3, <2>2 DEF ClientLocked, Session
  <2>4. ClientLocked(a, name, now).id = nextID
    BY <1>3 DEF ClientLocked
  <2>. QED
    BY <1>1, <2>1, <2>3, <2>4, TimeAssumption DEF SessionId
<1>. QED
  BY <1>2, <1>3

\* What Join and State leave at the datagram's address: the session there was,
\* or a new one with the next id, seen when the datagram arrived.
Registered(d) ==
    /\ clients' = Put(clients, rx.addr, d)
    /\ d.lastSeen = rx.now
    /\ rx.addr \in DOMAIN clients =>
          /\ d.id = clients[rx.addr].id /\ d.joinedAt = clients[rx.addr].joinedAt
          /\ nextID' = nextID
    /\ rx.addr \notin DOMAIN clients =>
          /\ d.id = nextID /\ d.joinedAt = rx.now
          /\ nextID' = nextID + 1
    /\ nextID <= MaxSessions

\* Join and State do to the session table what Registered says.
LEMMA Registration ==
    ASSUME TypeOK, IdsLeft, Join \/ State
    PROVE  \E d \in Session : Registered(d)
<1>1. rx \in Datagram /\ rx # Idle
  BY DEF Join, State, Applies, TypeOK, GoroutinesOK, Idle
<1>2. nextID <= MaxSessions
  BY <1>1 DEF Join, State, Applies, IdsLeft, Registering
<1>. DEFINE c(name) == ClientLocked(rx.addr, name, rx.now)
            d(name, n) == [c(name) EXCEPT !.lastSeen = rx.now, !.name = n]
<1>3. \A name \in Name \cup {NoName} : c(name) \in Session
  BY <1>1, <1>2, ClientLockedType DEF Datagram
<1>4. \E name \in Name \cup {NoName} : \E n \in {c(name).name} \cup Name :
          clients' = Put(clients, rx.addr, d(name, n))
  <2>1. CASE Join
    BY <2>1, <1>1 DEF Join, Datagram
  <2>2. CASE State
    <3>1. [c(NoName) EXCEPT !.lastSeen = rx.now] = d(NoName, c(NoName).name)
      BY <1>3 DEF Session
    <3>. QED
      BY <2>2, <3>1 DEF State
  <2>. QED
    BY <2>1, <2>2
<1>5. PICK name \in Name \cup {NoName} : \E n \in {c(name).name} \cup Name :
          clients' = Put(clients, rx.addr, d(name, n))
  BY <1>4
<1>. PICK n \in {c(name).name} \cup Name :
          clients' = Put(clients, rx.addr, d(name, n))
  BY <1>5
<1>6. /\ d(name, n) \in Session
      /\ d(name, n).lastSeen = rx.now
      /\ d(name, n).id = c(name).id
      /\ d(name, n).joinedAt = c(name).joinedAt
  BY <1>1, <1>3 DEF Session, Datagram
<1>7. IF rx.addr \in DOMAIN clients
      THEN c(name) = clients[rx.addr] /\ nextID' = nextID
      ELSE c(name).id = nextID /\ c(name).joinedAt = rx.now /\ nextID' = nextID + 1
  BY DEF Join, State, ClientLocked, NextIDAfter, IDAfter
<1>. QED
  BY <1>2, <1>5, <1>6, <1>7 DEF Registered

\* The server starts in a well formed state.
LEMMA TypeInit == Init => TypeOK /\ IdsLeft
<1>. SUFFICES ASSUME Init PROVE TypeOK /\ IdsLeft
  OBVIOUS
<1>1. clock \in Time /\ ClientsOK
  BY TimeAssumption DEF Init, Time, ClientsOK, FirstID, Empty
<1>2. AdmissionOK
  BY TimeAssumption DEF Init, AdmissionOK, Time, Empty, ZeroTime
<1>3. GoroutinesOK
  BY DEF Init, GoroutinesOK, Ready, ZeroTime
<1>. QED
  BY <1>1, <1>2, <1>3 DEF TypeOK, IdsLeft, Init

\* Every step keeps the state well formed.
LEMMA TypeStep == TypeOK /\ IdsLeft /\ [Next]_vars => TypeOK' /\ IdsLeft'
<1>. SUFFICES ASSUME TypeOK, IdsLeft, [Next]_vars PROVE TypeOK' /\ IdsLeft'
  OBVIOUS
<1>. USE TimeAssumption, IPOfAssumption, TrafficAssumption
<1>1. CASE Advance
  BY <1>1 DEF Advance, TypeOK, IdsLeft, ClientsOK, AdmissionOK, GoroutinesOK,
              Time, admission, Datagram
<1>2. CASE ReadFromUDP
  <2>1. PICK a \in Addr, type \in Traffic, name \in Name \cup {NoName} :
          /\ type \in Registering => nextID <= MaxSessions
          /\ rx' = [pc |-> "ban", addr |-> a, type |-> type, name |-> name,
                    now |-> clock]
    BY <1>2 DEF ReadFromUDP
  <2>2. rx' \in Datagram
    BY <2>1 DEF TypeOK, Datagram
  <2>. QED
    BY <1>2, <2>1, <2>2 DEF ReadFromUDP, TypeOK, IdsLeft, ClientsOK, AdmissionOK,
                            GoroutinesOK, admission
<1>3. CASE DropBanned
  <2>1. rx \in Datagram /\ rx' = Idle
    BY <1>3 DEF DropBanned, TypeOK, GoroutinesOK, Idle
  <2>2. AdmissionOK'
    BY <1>3, <2>1 DEF DropBanned, TypeOK, AdmissionOK, Datagram, Put
  <2>. QED
    BY <1>3, <2>1, <2>2 DEF DropBanned, TypeOK, IdsLeft, ClientsOK, GoroutinesOK
<1>4. CASE PassBanCheck \/ DropKicked \/ PassKickCheck
  <2>1. rx \in Datagram
    BY <1>4 DEF PassBanCheck, DropKicked, PassKickCheck, TypeOK, GoroutinesOK, Idle
  <2>2. rx' = Idle \/ (rx' \in Datagram /\ rx'.type = rx.type)
    BY <1>4, <2>1 DEF PassBanCheck, DropKicked, PassKickCheck, Datagram
  <2>3. UNCHANGED <<clock, nextID, clients, admission, ticker, rcon>>
    BY <1>4 DEF PassBanCheck, DropKicked, PassKickCheck
  <2>4. rx # Idle
    BY <2>1, <1>4 DEF PassBanCheck, DropKicked, PassKickCheck, Idle
  <2>. QED
    BY <2>2, <2>3, <2>4 DEF TypeOK, IdsLeft, ClientsOK, AdmissionOK,
                            GoroutinesOK, admission
<1>5. CASE Join \/ State
  <2>1. rx \in Datagram /\ rx # Idle
    BY <1>5 DEF Join, State, Applies, TypeOK, GoroutinesOK, Idle
  <2>2. PICK d \in Session : Registered(d)
    BY <1>5, Registration
  <2>3. ClientsOK'
    BY <2>1, <2>2 DEF Registered, Put, TypeOK, ClientsOK, Datagram, Session, SessionId
  <2>. QED
    BY <1>5, <2>3 DEF Join, State, TypeOK, IdsLeft, AdmissionOK, GoroutinesOK, admission
<1>6. CASE Chat
  <2>1. rx \in Datagram
    BY <1>6 DEF Chat, Applies, TypeOK, GoroutinesOK, Idle
  <2>2. ClientsOK'
    BY <1>6, <2>1 DEF Chat, TypeOK, ClientsOK, Datagram, Session
  <2>. QED
    BY <1>6, <2>2 DEF Chat, TypeOK, IdsLeft, AdmissionOK, GoroutinesOK, admission
<1>7. CASE Bye
  BY <1>7 DEF Without, Restrict, Bye, TypeOK, IdsLeft, ClientsOK, AdmissionOK,
                            GoroutinesOK, admission
<1>8. CASE TickFire \/ TickReceive
  BY <1>8 DEF TickFire, TickReceive, TypeOK, IdsLeft, ClientsOK, AdmissionOK,
              GoroutinesOK, admission
<1>9. CASE Tick
  <2>1. ClientsOK' /\ AdmissionOK'
    BY <1>9 DEF Without, Restrict, Tick, TypeOK, ClientsOK, AdmissionOK
  <2>. QED
    BY <1>9, <2>1 DEF Tick, TypeOK, IdsLeft, GoroutinesOK
<1>10. ASSUME NEW r \in Admin, Command(r) \/ BanStep(r)
       PROVE  TypeOK' /\ IdsLeft'
  <2>1. CASE Kick(r)
    <3>1. PICK arg \in Target : \E a \in Found(arg) : KickOut(a)
      BY <2>1 DEF Kick
    <3>2. \E a \in DOMAIN clients : KickOut(a)
      BY <3>1 DEF Found, ById, ByName
    <3>3. ClientsOK' /\ AdmissionOK'
      BY <2>1, <3>2 DEF Put, Without, Restrict, Kick, KickOut,
                        TypeOK, ClientsOK, AdmissionOK
    <3>. QED
      BY <2>1, <3>3 DEF Kick, TypeOK, IdsLeft, GoroutinesOK
  <2>2. CASE BanLookup(r)
    <3>1. rcon' \in [Admin -> {Ready} \cup Banning \cup BanningIP]
      <4>1. ASSUME NEW arg \in Target, NEW a \in Found(arg)
            PROVE  [pc |-> "name", arg |-> arg, ip |-> IPOf[a],
                    addrKey |-> a, id |-> clients[a].id] \in Banning
        <5>1. a \in DOMAIN clients
          BY DEF Found, ById, ByName
        <5>. QED
          BY <5>1 DEF TypeOK, ClientsOK, Session, Banning
      <4>2. ASSUME NEW arg \in IP PROVE [pc |-> "addIP", ip |-> arg] \in BanningIP
        BY DEF BanningIP
      <4>3. \E x \in Banning \cup BanningIP : rcon' = [rcon EXCEPT ![r] = x]
        BY <2>2, <4>1, <4>2 DEF BanLookup
      <4>. QED
        BY <4>3 DEF TypeOK, GoroutinesOK
    <3>. QED
      BY <2>2, <3>1 DEF BanLookup, TypeOK, IdsLeft, ClientsOK, AdmissionOK,
                        GoroutinesOK, admission
  <2>3. CASE BanReadName(r)
    <3>1. rcon[r] \in Banning
      BY <2>3 DEF BanReadName, TypeOK, GoroutinesOK, Ready, BanningIP
    <3>2. [rcon[r] EXCEPT !.pc = "add"] \in Banning
      BY <3>1 DEF Banning
    <3>. QED
      BY <2>3, <3>2 DEF BanReadName, TypeOK, IdsLeft, ClientsOK, AdmissionOK,
                        GoroutinesOK, admission
  <2>4. CASE BanAdd(r)
    <3>1. rcon[r] \in Banning \cup BanningIP
      BY <2>4 DEF BanAdd, TypeOK, GoroutinesOK, Ready
    <3>2. rcon[r].ip \in IP
      BY <3>1 DEF Banning, BanningIP
    <3>3. rcon[r].pc # "addIP" => [rcon[r] EXCEPT !.pc = "kick"] \in Banning
      BY <3>1 DEF Banning, BanningIP
    <3>4. rcon' \in [Admin -> {Ready} \cup Banning \cup BanningIP]
      BY <2>4, <3>3 DEF BanAdd, TypeOK, GoroutinesOK
    <3>5. AdmissionOK'
      BY <2>4, <3>2 DEF BanAdd, TypeOK, AdmissionOK, Put
    <3>. QED
      BY <2>4, <3>4, <3>5 DEF BanAdd, TypeOK, IdsLeft, ClientsOK, GoroutinesOK
  <2>5. CASE BanKick(r)
    <3>1. \/ \E a \in DOMAIN clients : KickOut(a)
          \/ UNCHANGED <<clients, recentlyKicked>>
      BY <2>5 DEF BanKick, BanVictims, Found, ById, ByName
    <3>2. ClientsOK' /\ AdmissionOK'
      BY <2>5, <3>1 DEF Put, Without, Restrict, BanKick, KickOut, TypeOK,
                        ClientsOK, AdmissionOK
    <3>. QED
      BY <2>5, <3>2 DEF BanKick, TypeOK, IdsLeft, GoroutinesOK
  <2>6. CASE Unban(r)
    BY <2>6 DEF Without, Restrict, Unban, TypeOK, IdsLeft, ClientsOK, AdmissionOK,
                              GoroutinesOK
  <2>. QED
    BY <1>10, <2>1, <2>2, <2>3, <2>4, <2>5, <2>6 DEF Command, BanStep
<1>11. CASE UNCHANGED vars
  BY <1>11 DEF vars, admission, TypeOK, IdsLeft, ClientsOK, AdmissionOK, GoroutinesOK
<1>. QED
  BY <1>1, <1>2, <1>3, <1>4, <1>5, <1>6, <1>7, <1>8, <1>9, <1>10, <1>11
  DEF Next, Reader

\* Whatever the goroutines do, in whatever order, the state stays well formed.
THEOREM TypeCorrect == Spec => []TypeOK
<1>1. Spec => [](TypeOK /\ IdsLeft)
  BY TypeInit, TypeStep, PTL DEF Spec
<1>. QED
  BY <1>1, PTL

-----------------------------------------------------------------------------
(* Readings of the clock *)

\* No goroutine and no table holds a time that has not come yet.
TimesPast ==
    /\ \A a \in DOMAIN clients :
          clients[a].joinedAt <= clock /\ clients[a].lastSeen <= clock
    /\ \A a \in DOMAIN recentlyKicked : recentlyKicked[a] <= clock
    /\ \A ip \in DOMAIN bans : bans[ip] <= clock
    /\ rx # Idle => rx.now <= clock
    /\ ticker.chan <= clock /\ ticker.hand <= clock

\* Type correctness with the room ReadFromUDP leaves.
Typed == TypeOK /\ IdsLeft

\* Kick and the third step of Ban remove one session and record the kick, or
\* find nobody.
LEMMA KickShape ==
    ASSUME NEW r \in Admin, Kick(r) \/ BanKick(r)
    PROVE  \/ \E a \in DOMAIN clients : KickOut(a)
           \/ UNCHANGED <<clients, recentlyKicked>>
BY DEF Kick, BanKick, BanVictims, Found, ById, ByName

\* Time only goes forward, and what is written is the current time or a time
\* a goroutine read before.
LEMMA TimesStep == Typed /\ TimesPast /\ [Next]_vars => TimesPast'
<1>. SUFFICES ASSUME Typed, TimesPast, [Next]_vars PROVE TimesPast'
  OBVIOUS
<1>. USE DEF Typed
<1>1. CASE Advance
  BY <1>1 DEF Advance, TimesPast, admission, TypeOK, ClientsOK, AdmissionOK,
              GoroutinesOK, Time, Session, Datagram, ZeroTime
<1>2. CASE ReadFromUDP
  BY <1>2 DEF ReadFromUDP, TimesPast, admission, TypeOK, Time
<1>3. CASE DropBanned \/ PassBanCheck \/ DropKicked \/ PassKickCheck
  <2>1. rx \in Datagram /\ rx # Idle
    BY <1>3 DEF DropBanned, PassBanCheck, DropKicked, PassKickCheck,
                TypeOK, GoroutinesOK, Idle
  <2>2. rx' = Idle \/ rx'.now = rx.now
    BY <1>3, <2>1 DEF DropBanned, PassBanCheck, DropKicked, PassKickCheck, Datagram
  <2>. QED
    BY <1>3, <2>1, <2>2 DEF DropBanned, PassBanCheck, DropKicked, PassKickCheck,
                            TimesPast, admission
<1>4. CASE Join \/ State
  <2>1. rx # Idle
    BY <1>4 DEF Join, State, Applies, Idle
  <2>2. PICK d \in Session : Registered(d)
    BY <1>4, Registration
  <2>. QED
    BY <1>4, <2>1, <2>2 DEF Join, State, Registered, Put, TimesPast, admission
<1>5. CASE Chat \/ Bye
  <2>1. rx # Idle
    BY <1>5 DEF Chat, Bye, Applies, Idle
  <2>2. \A a \in DOMAIN clients : clients[a] \in Session
    BY DEF TypeOK, ClientsOK
  <2>3. \A a \in DOMAIN clients' :
           /\ a \in DOMAIN clients
           /\ clients'[a].joinedAt = clients[a].joinedAt
           /\ clients'[a].lastSeen \in {rx.now, clients[a].lastSeen}
    BY <1>5, <2>2 DEF Chat, Bye, Without, Restrict, Session
  <2>. QED
    BY <1>5, <2>1, <2>3 DEF Chat, Bye, TimesPast, admission
<1>6. CASE TickFire \/ TickReceive
  BY <1>6 DEF TickFire, TickReceive, TimesPast, TypeOK, GoroutinesOK, Time,
              ZeroTime, admission
<1>7. CASE Tick
  BY <1>7 DEF Tick, Without, Restrict, TimesPast, TypeOK, GoroutinesOK, Time, ZeroTime
<1>8. ASSUME NEW r \in Admin, Command(r) \/ BanStep(r)
      PROVE  TimesPast'
  <2>1. CASE Kick(r) \/ BanKick(r)
    <3>1. UNCHANGED <<clock, bans, rx, ticker>>
      BY <2>1 DEF Kick, BanKick
    <3>2. CASE UNCHANGED <<clients, recentlyKicked>>
      BY <3>1, <3>2 DEF TimesPast
    <3>3. ASSUME NEW a \in DOMAIN clients, KickOut(a)
          PROVE  TimesPast'
      BY <3>1, <3>3 DEF KickOut, Put, Without, Restrict, TimesPast, TypeOK, Time
    <3>. QED
      BY <2>1, <3>2, <3>3, KickShape
  <2>2. CASE BanLookup(r) \/ BanReadName(r)
    BY <2>2 DEF BanLookup, BanReadName, TimesPast, admission
  <2>3. CASE BanAdd(r)
    BY <2>3 DEF BanAdd, Put, TimesPast, TypeOK, Time
  <2>4. CASE Unban(r)
    BY <2>4 DEF Unban, Without, Restrict, TimesPast
  <2>. QED
    BY <1>8, <2>1, <2>2, <2>3, <2>4 DEF Command, BanStep
<1>9. CASE UNCHANGED vars
  BY <1>9 DEF vars, admission, TimesPast
<1>. QED
  BY <1>1, <1>2, <1>3, <1>4, <1>5, <1>6, <1>7, <1>8, <1>9 DEF Next, Reader

\* What the later invariants rest on.
Base == Typed /\ TimesPast

\* Base holds in every reachable state.
LEMMA BaseInvariant == Spec => []Base
<1>1. Init => Base
  <2>. SUFFICES ASSUME Init PROVE TimesPast
    BY TypeInit DEF Base, Typed
  <2>. QED
    BY DEF Init, TimesPast, Empty, ZeroTime
<1>2. Base /\ [Next]_vars => Base'
  BY TypeStep, TimesStep DEF Base, Typed
<1>. QED
  BY <1>1, <1>2, PTL DEF Spec

-----------------------------------------------------------------------------
(* Kicked players *)

\* A datagram past the kick check, whose address has been kicked since or
\* before, arrived outside the window of that kick.
PastKickCheck ==
    (/\ rx # Idle /\ rx.pc = "apply" /\ rx.type \in Registering
     /\ rx.addr \in DOMAIN recentlyKicked)
    => \/ rx.now <= recentlyKicked[rx.addr]
       \/ rx.now - recentlyKicked[rx.addr] >= KickWindow

\* KickedStaysOut is not inductive alone: Join needs PastKickCheck.
KickInv == KickedStaysOut /\ PastKickCheck

\* Every step preserves KickInv.
LEMMA KickStep == Base /\ KickInv /\ [Next]_vars => KickInv'
<1>. SUFFICES ASSUME Base, KickInv, [Next]_vars PROVE KickInv'
  OBVIOUS
<1>. USE DEF Base, Typed
<1>1. CASE Advance \/ TickFire \/ TickReceive \/ UNCHANGED vars
  BY <1>1 DEF Advance, TickFire, TickReceive, vars, admission, KickInv,
              KickedStaysOut, PastKickCheck
<1>2. CASE ReadFromUDP
  BY <1>2 DEF ReadFromUDP, admission, KickInv, KickedStaysOut, PastKickCheck
<1>3. CASE DropBanned \/ PassBanCheck \/ DropKicked \/ PassKickCheck
  <2>1. rx \in Datagram
    BY <1>3 DEF DropBanned, PassBanCheck, DropKicked, PassKickCheck,
                TypeOK, GoroutinesOK, Idle
  <2>2. UNCHANGED <<clients, recentlyKicked>>
    BY <1>3 DEF DropBanned, PassBanCheck, DropKicked, PassKickCheck, admission
  <2>3. CASE DropBanned \/ PassBanCheck \/ DropKicked
    BY <2>1, <2>2, <2>3 DEF DropBanned, PassBanCheck, DropKicked, Datagram,
                            KickInv, KickedStaysOut, PastKickCheck
  <2>4. CASE PassKickCheck
    <3>1. rx' = [rx EXCEPT !.pc = "apply"] /\ ~KickedRecently(rx.addr, rx.now)
      BY <2>4 DEF PassKickCheck
    <3>2. rx'.addr = rx.addr /\ rx'.now = rx.now
      BY <2>1, <3>1 DEF Datagram
    <3>3. rx.addr \in DOMAIN recentlyKicked
            => rx.now - recentlyKicked[rx.addr] >= KickWindow
      BY <2>1, <3>1, TimeAssumption
      DEF KickedRecently, Datagram, Time, TypeOK, AdmissionOK
    <3>. QED
      BY <2>2, <3>2, <3>3 DEF KickInv, KickedStaysOut, PastKickCheck
  <2>. QED
    BY <1>3, <2>3, <2>4
<1>4. CASE Join \/ State
  <2>1. rx # Idle /\ rx.pc = "apply" /\ rx.type \in Registering
    BY <1>4 DEF Join, State, Applies, Idle, Registering
  <2>2. PICK d \in Session : Registered(d)
    BY <1>4, Registration
  <2>3. rx' = Idle /\ recentlyKicked' = recentlyKicked
    BY <1>4 DEF Join, State, admission
  <2>. QED
    BY <2>1, <2>2, <2>3 DEF Registered, Put, KickInv, KickedStaysOut, PastKickCheck
<1>5. CASE Chat \/ Bye
  <2>1. \A a \in DOMAIN clients : clients[a] \in Session
    BY DEF TypeOK, ClientsOK
  <2>2. \A a \in DOMAIN clients' :
           a \in DOMAIN clients /\ clients'[a].joinedAt = clients[a].joinedAt
    BY <1>5, <2>1 DEF Chat, Bye, Without, Restrict, Session
  <2>. QED
    BY <1>5, <2>2 DEF Chat, Bye, admission, KickInv, KickedStaysOut, PastKickCheck
<1>6. CASE Tick
  BY <1>6 DEF Tick, Without, Restrict, KickInv, KickedStaysOut, PastKickCheck
<1>7. ASSUME NEW r \in Admin, Kick(r) \/ BanKick(r)
      PROVE  KickInv'
  <2>1. CASE UNCHANGED <<clients, recentlyKicked>>
    BY <1>7, <2>1 DEF Kick, BanKick, KickInv, KickedStaysOut, PastKickCheck
  <2>2. ASSUME NEW a \in DOMAIN clients, KickOut(a)
        PROVE  KickInv'
    BY <1>7, <2>2 DEF Kick, BanKick, KickOut, Put, Without, Restrict, TimesPast,
                      KickInv, KickedStaysOut, PastKickCheck
  <2>. QED
    BY <1>7, <2>1, <2>2, KickShape
<1>8. ASSUME NEW r \in Admin,
             BanLookup(r) \/ BanReadName(r) \/ BanAdd(r) \/ Unban(r)
      PROVE  KickInv'
  BY <1>8 DEF BanLookup, BanReadName, BanAdd, Unban, admission, KickInv,
              KickedStaysOut, PastKickCheck
<1>. QED
  BY <1>1, <1>2, <1>3, <1>4, <1>5, <1>6, <1>7, <1>8
  DEF Next, Reader, Command, BanStep

\* No Hello or State that arrived inside the window of a kick ever opened a
\* session the kicked address still has.
THEOREM KickedStaysOutAlways == Spec => []KickedStaysOut
<1>1. Init => KickInv
  BY DEF Init, KickInv, KickedStaysOut, PastKickCheck, Empty
<1>2. Base /\ KickInv /\ [Next]_vars => KickInv'
  BY KickStep
<1>3. KickInv => KickedStaysOut
  BY DEF KickInv
<1>. QED
  BY <1>1, <1>2, <1>3, BaseInvariant, PTL DEF Spec

-----------------------------------------------------------------------------
(* Banned players *)

\* A datagram past the ban check, whose IP has been banned since, arrived
\* before the ban.
PastBanCheck ==
    (rx # Idle /\ rx.pc \in {"kick", "apply"} /\ Banned(rx.addr))
    => rx.now <= bans[IPOf[rx.addr]]

\* BannedStaysOut is not inductive alone: what is applied after the ban is
\* stamped with its time of arrival.
BanInv == BannedStaysOut /\ PastBanCheck

\* Every step preserves BanInv.
LEMMA BanInvStep == Base /\ BanInv /\ [Next]_vars => BanInv'
<1>. SUFFICES ASSUME Base, BanInv, [Next]_vars PROVE BanInv'
  OBVIOUS
<1>. USE DEF Base, Typed
<1>1. CASE Advance \/ TickFire \/ TickReceive \/ UNCHANGED vars
  BY <1>1 DEF Advance, TickFire, TickReceive, vars, admission, BanInv,
              BannedStaysOut, PastBanCheck, Banned
<1>2. CASE ReadFromUDP
  BY <1>2 DEF ReadFromUDP, admission, BanInv, BannedStaysOut, PastBanCheck, Banned
<1>3. CASE DropBanned \/ PassBanCheck \/ DropKicked \/ PassKickCheck
  <2>1. rx \in Datagram
    BY <1>3 DEF DropBanned, PassBanCheck, DropKicked, PassKickCheck,
                TypeOK, GoroutinesOK, Idle
  <2>2. UNCHANGED <<clients, bans>>
    BY <1>3 DEF DropBanned, PassBanCheck, DropKicked, PassKickCheck, admission
  <2>3. CASE DropBanned \/ DropKicked
    BY <2>2, <2>3 DEF DropBanned, DropKicked, BanInv, BannedStaysOut,
                      PastBanCheck, Banned
  <2>4. CASE PassBanCheck
    <3>1. ~Banned(rx.addr) /\ (rx' = Idle \/ rx'.addr = rx.addr)
      BY <2>1, <2>4 DEF PassBanCheck, Admitted, Datagram
    <3>. QED
      BY <2>2, <3>1 DEF BanInv, BannedStaysOut, PastBanCheck, Banned
  <2>5. CASE PassKickCheck
    <3>1. /\ rx'.addr = rx.addr /\ rx'.now = rx.now
          /\ rx # Idle /\ rx.pc = "kick"
      BY <2>1, <2>5 DEF PassKickCheck, Datagram, Idle
    <3>. QED
      BY <2>2, <3>1 DEF BanInv, BannedStaysOut, PastBanCheck, Banned
  <2>. QED
    BY <1>3, <2>3, <2>4, <2>5
<1>4. CASE Join \/ State
  <2>1. rx # Idle /\ rx.pc = "apply"
    BY <1>4 DEF Join, State, Applies, Idle
  <2>2. PICK d \in Session : Registered(d)
    BY <1>4, Registration
  <2>3. rx' = Idle /\ bans' = bans
    BY <1>4 DEF Join, State, admission
  <2>. QED
    BY <2>1, <2>2, <2>3 DEF Registered, Put, BanInv, BannedStaysOut,
                            PastBanCheck, Banned
<1>5. CASE Chat \/ Bye
  <2>1. rx # Idle /\ rx.pc = "apply"
    BY <1>5 DEF Chat, Bye, Applies, Idle
  <2>2. \A a \in DOMAIN clients : clients[a] \in Session
    BY DEF TypeOK, ClientsOK
  <2>3. \A a \in DOMAIN clients' :
           /\ a \in DOMAIN clients
           /\ \/ clients'[a].lastSeen = clients[a].lastSeen
              \/ a = rx.addr /\ clients'[a].lastSeen = rx.now
    BY <1>5, <2>2 DEF Chat, Bye, Without, Restrict, Session
  <2>4. rx' = Idle /\ bans' = bans
    BY <1>5 DEF Chat, Bye, admission
  <2>. QED
    BY <2>1, <2>3, <2>4 DEF BanInv, BannedStaysOut, PastBanCheck, Banned
<1>6. CASE Tick
  BY <1>6 DEF Tick, Without, Restrict, BanInv, BannedStaysOut, PastBanCheck, Banned
<1>7. ASSUME NEW r \in Admin, Kick(r) \/ BanKick(r)
      PROVE  BanInv'
  <2>1. UNCHANGED <<bans, rx>>
    BY <1>7 DEF Kick, BanKick
  <2>2. \A a \in DOMAIN clients' : a \in DOMAIN clients /\ clients'[a] = clients[a]
    BY <1>7, KickShape DEF KickOut, Without, Restrict
  <2>. QED
    BY <2>1, <2>2 DEF BanInv, BannedStaysOut, PastBanCheck, Banned
<1>8. ASSUME NEW r \in Admin, BanAdd(r)
      PROVE  BanInv'
  BY <1>8 DEF BanAdd, Put, TimesPast, BanInv, BannedStaysOut, PastBanCheck, Banned
<1>9. ASSUME NEW r \in Admin, BanLookup(r) \/ BanReadName(r) \/ Unban(r)
      PROVE  BanInv'
  BY <1>9 DEF BanLookup, BanReadName, Unban, Without, Restrict, admission,
              BanInv, BannedStaysOut, PastBanCheck, Banned
<1>. QED
  BY <1>1, <1>2, <1>3, <1>4, <1>5, <1>6, <1>7, <1>8, <1>9
  DEF Next, Reader, Command, BanStep

\* Nothing that arrives after a ban keeps a session at the banned IP alive.
THEOREM BannedStaysOutAlways == Spec => []BannedStaysOut
<1>1. Init => BanInv
  BY DEF Init, BanInv, BannedStaysOut, PastBanCheck, Empty
<1>2. Base /\ BanInv /\ [Next]_vars => BanInv'
  BY BanInvStep
<1>3. BanInv => BannedStaysOut
  BY DEF BanInv
<1>. QED
  BY <1>1, <1>2, <1>3, BaseInvariant, PTL DEF Spec

-----------------------------------------------------------------------------
(* Identities *)

\* Only Join and State open sessions and give out ids.
LEMMA SameIds ==
    ASSUME Base, [Next]_vars, ~(Join \/ State)
    PROVE  /\ nextID' = nextID
           /\ \A a \in DOMAIN clients' :
                a \in DOMAIN clients /\ clients'[a].id = clients[a].id
<1>1. \A a \in DOMAIN clients : clients[a] \in Session
  BY DEF Base, Typed, TypeOK, ClientsOK
<1>2. CASE Chat \/ Bye \/ Tick
  BY <1>1, <1>2 DEF Chat, Bye, Tick, Without, Restrict, Session
<1>3. ASSUME NEW r \in Admin, Kick(r) \/ BanKick(r)
      PROVE  nextID' = nextID /\ \A a \in DOMAIN clients' :
                a \in DOMAIN clients /\ clients'[a].id = clients[a].id
  <2>1. nextID' = nextID
    BY <1>3 DEF Kick, BanKick
  <2>. QED
    BY <1>3, <2>1, KickShape DEF KickOut, Without, Restrict
<1>4. CASE UNCHANGED <<nextID, clients>>
  BY <1>4
<1>. QED
  BY <1>2, <1>3, <1>4 DEF Next, Reader, Command, BanStep, Advance,
     ReadFromUDP, DropBanned, PassBanCheck, DropKicked, PassKickCheck,
     TickFire, TickReceive, BanLookup, BanReadName, BanAdd, Unban, vars

\* Sessions come and go; what Join and State add has an id never used before.
LEMMA NewIds ==
    ASSUME Base, [Next]_vars
    PROVE  /\ nextID <= nextID'
           /\ \A a \in DOMAIN clients' :
                \/ a \in DOMAIN clients /\ clients'[a].id = clients[a].id
                \/ clients'[a].id = nextID /\ nextID' = nextID + 1
           /\ \A a, b \in DOMAIN clients' :
                (clients'[a].id = clients'[b].id /\ a # b)
                => \E x, y \in DOMAIN clients :
                     x # y /\ clients[x].id = clients[y].id
<1>1. nextID \in Nat /\ \A a \in DOMAIN clients :
          clients[a] \in Session /\ clients[a].id < nextID /\ clients[a].id \in Nat
  BY TimeAssumption DEF Base, Typed, TypeOK, ClientsOK, Session, SessionId
<1>2. CASE Join \/ State
  <2>1. PICK d \in Session : Registered(d)
    BY <1>2, Registration DEF Base, Typed
  <2>. QED
    BY <1>1, <2>1 DEF Registered, Put
<1>3. CASE ~(Join \/ State)
  BY <1>1, <1>3, SameIds
<1>. QED
  BY <1>2, <1>3

\* No two sessions ever share an id.
THEOREM IdsUniqueAlways == Spec => []IdsUnique
<1>1. Init => IdsUnique
  BY DEF Init, IdsUnique, Empty
<1>2. Base /\ IdsUnique /\ [Next]_vars => IdsUnique'
  BY NewIds DEF IdsUnique
<1>. QED
  BY <1>1, <1>2, BaseInvariant, PTL DEF Spec

\* Where no name is a number, the session a ban by id looked up is the only
\* one that ever has that id.
BanRemembers ==
    \A r \in Admin :
        (rcon[r] \in Banning /\ rcon[r].arg \in SessionId) =>
            /\ rcon[r].arg < nextID
            /\ \A a \in DOMAIN clients :
                  clients[a].id = rcon[r].arg => a = rcon[r].addrKey

\* Where no name is a number, a number can only match by id.
LEMMA FoundById ==
    ASSUME Base, Name \cap SessionId = {}, NEW arg \in SessionId,
           NEW a \in Found(arg)
    PROVE  a \in DOMAIN clients /\ clients[a].id = arg
<1>1. \A x \in DOMAIN clients : clients[x].name \in Name \cup PlayerNames
  BY DEF Base, Typed, TypeOK, ClientsOK, Session
<1>2. arg \notin Name \cup PlayerNames
  BY NameAssumption DEF PlayerNames
<1>. QED
  BY <1>1, <1>2 DEF Found, ById, ByName

\* Every step preserves BanRemembers: an id that is given out is a new one.
LEMMA BanRemembersStep ==
    ASSUME Base, IdsUnique, BanRemembers, [Next]_vars, Name \cap SessionId = {}
    PROVE  BanRemembers'
<1>. SUFFICES ASSUME NEW r \in Admin, rcon'[r] \in Banning,
                     rcon'[r].arg \in SessionId
              PROVE  /\ rcon'[r].arg < nextID'
                     /\ \A a \in DOMAIN clients' :
                          clients'[a].id = rcon'[r].arg => a = rcon'[r].addrKey
  BY DEF BanRemembers
<1>1. /\ nextID \in Nat /\ nextID' \in Nat
      /\ \A a \in DOMAIN clients : clients[a].id < nextID
      /\ rcon \in [Admin -> {Ready} \cup Banning \cup BanningIP]
  BY TypeStep, TimeAssumption
  DEF Base, Typed, TypeOK, ClientsOK, GoroutinesOK
<1>2. CASE /\ rcon[r] \in Banning
           /\ rcon'[r].arg = rcon[r].arg /\ rcon'[r].addrKey = rcon[r].addrKey
  BY <1>1, <1>2, NewIds DEF BanRemembers, SessionId
<1>3. CASE BanLookup(r)
  <2>1. PICK arg \in Target :
          \/ \E a \in Found(arg) :
               rcon' = [rcon EXCEPT ![r] =
                   [pc |-> "name", arg |-> arg, ip |-> IPOf[a],
                    addrKey |-> a, id |-> clients[a].id]]
          \/ /\ Found(arg) = {} /\ arg \in IP
             /\ rcon' = [rcon EXCEPT ![r] = [pc |-> "addIP", ip |-> arg]]
    BY <1>3 DEF BanLookup
  <2>2. [pc |-> "addIP", ip |-> arg] \notin Banning
    BY DEF Banning
  <2>3. PICK a \in Found(arg) :
          rcon'[r] = [pc |-> "name", arg |-> arg, ip |-> IPOf[a],
                      addrKey |-> a, id |-> clients[a].id]
    BY <1>1, <2>1, <2>2
  <2>4. a \in DOMAIN clients /\ clients[a].id = arg
    BY <2>3, FoundById
  <2>5. UNCHANGED <<clients, nextID>>
    BY <1>3 DEF BanLookup
  <2>. QED
    BY <1>1, <2>3, <2>4, <2>5 DEF IdsUnique
<1>4. CASE BanReadName(r) \/ BanAdd(r)
  <2>1. rcon[r] \in Banning
    BY <1>1, <1>4 DEF BanReadName, BanAdd, Ready, Banning, BanningIP
  <2>. QED
    BY <1>1, <1>2, <1>4, <2>1 DEF BanReadName, BanAdd, Banning
<1>5. CASE BanKick(r)
  BY <1>1, <1>5 DEF BanKick, Ready, Banning
<1>6. ASSUME NEW s \in Admin, s # r, BanStep(s) \/ Command(s)
      PROVE  rcon'[r] = rcon[r]
  BY <1>1, <1>6 DEF BanStep, Command, Kick, BanLookup, BanReadName, BanAdd,
                    BanKick, Unban
<1>7. CASE rcon'[r] = rcon[r]
  BY <1>2, <1>7
<1>. QED
  BY <1>3, <1>4, <1>5, <1>6, <1>7
  DEF Next, Reader, Command, BanStep, Kick, Unban, Advance, ReadFromUDP,
      DropBanned, PassBanCheck, DropKicked, PassKickCheck, Join, State, Chat,
      Bye, TickFire, TickReceive, Tick, vars

\* Where no name is a number, a ban by id kicks the player it looked up or
\* nobody, whatever happens between the two lookups.
THEOREM BanByIdKicksItsTargetAlways ==
    ASSUME Name \cap SessionId = {}
    PROVE  Spec => BanByIdKicksItsTarget
<1>1. Init => BanRemembers
  BY DEF Init, BanRemembers, Empty, Ready, Banning
<1>2. Base /\ IdsUnique /\ BanRemembers /\ [Next]_vars => BanRemembers'
  BY BanRemembersStep
<1>3. Base /\ IdsUnique /\ BanRemembers /\ [Next]_vars =>
        [\A r \in Admin, a \in Addr :
          (Leaves(a) /\ rcon[r].pc = "kick" /\ rcon'[r].pc = "ready"
             /\ rcon[r].arg \in SessionId) => a = rcon[r].addrKey]_vars
  <2>. SUFFICES ASSUME Base, BanRemembers, [Next]_vars, NEW r \in Admin,
                       NEW a \in Addr, Leaves(a), rcon[r].pc = "kick",
                       rcon'[r].pc = "ready", rcon[r].arg \in SessionId
                PROVE  a = rcon[r].addrKey
    OBVIOUS
  <2>1. rcon \in [Admin -> {Ready} \cup Banning \cup BanningIP]
    BY DEF Base, Typed, TypeOK, GoroutinesOK
  <2>2. rcon[r] \in Banning
    BY <2>1 DEF Ready, Banning, BanningIP
  <2>3. BanKick(r)
    <3>1. rcon'[r] # rcon[r]
      OBVIOUS
    <3>2. ASSUME NEW s \in Admin, s # r, BanStep(s) \/ Command(s)
          PROVE  FALSE
      BY <2>1, <3>1, <3>2 DEF BanStep, Command, Kick, BanLookup, BanReadName,
                              BanAdd, BanKick, Unban
    <3>. QED
      BY <2>1, <3>1, <3>2
      DEF Next, Reader, Command, BanStep, Kick, BanLookup, BanReadName, BanAdd,
          Unban, Advance, ReadFromUDP, DropBanned, PassBanCheck, DropKicked,
          PassKickCheck, Join, State, Chat, Bye, TickFire, TickReceive, Tick, vars
  <2>4. a \in Found(rcon[r].arg)
    BY <2>3 DEF BanKick, BanVictims, KickOut, Leaves, Without, Restrict
  <2>5. a \in DOMAIN clients /\ clients[a].id = rcon[r].arg
    BY <2>4, FoundById
  <2>. QED
    BY <2>2, <2>5 DEF BanRemembers
<1>. QED
  BY <1>1, <1>2, <1>3, BaseInvariant, IdsUniqueAlways, PTL
  DEF Spec, BanByIdKicksItsTarget

-----------------------------------------------------------------------------
(* Steps *)

\* Nobody is dropped before Timeout without a Bye or a kick: the tick that
\* reaps may be late, but its time is never ahead of the clock.
THEOREM NoEarlyDropAlways == Spec => NoEarlyDrop
<1>1. ASSUME Base, [Next]_vars, NEW a \in Addr, Leaves(a)
      PROVE  \/ Applies("Bye") /\ rx.addr = a
             \/ a \in DOMAIN recentlyKicked' /\ recentlyKicked'[a] = clock
             \/ clock - clients[a].lastSeen > Timeout
  <2>1. CASE Join \/ State
    <3>1. PICK d \in Session : Registered(d)
      BY <1>1, <2>1, Registration DEF Base, Typed
    <3>. QED
      BY <1>1, <3>1 DEF Registered, Put, Leaves
  <2>2. CASE Chat \/ Bye
    BY <1>1, <2>2 DEF Chat, Bye, Without, Restrict, Leaves
  <2>3. CASE Tick
    <3>1. ticker.hand <= clock /\ Silent(clients[a], ticker.hand)
      BY <1>1, <2>3 DEF Tick, Without, Restrict, Leaves, Base, TimesPast
    <3>. QED
      BY <1>1, <3>1, TimeAssumption
      DEF Silent, Leaves, Base, Typed, TypeOK, ClientsOK, GoroutinesOK, Session,
          Time, ZeroTime
  <2>4. ASSUME NEW r \in Admin, Kick(r) \/ BanKick(r)
        PROVE  a \in DOMAIN recentlyKicked' /\ recentlyKicked'[a] = clock
    BY <1>1, <2>4, KickShape DEF KickOut, Put, Without, Restrict, Leaves
  <2>5. CASE UNCHANGED clients
    BY <1>1, <2>5 DEF Leaves
  <2>. QED
    BY <1>1, <2>1, <2>2, <2>3, <2>4, <2>5
    DEF Next, Reader, Command, BanStep, Advance, ReadFromUDP, DropBanned,
        PassBanCheck, DropKicked, PassKickCheck, TickFire, TickReceive,
        BanLookup, BanReadName, BanAdd, Unban, vars
<1>2. Base /\ [Next]_vars =>
        [\A a \in Addr : Leaves(a) =>
          \/ Applies("Bye") /\ rx.addr = a
          \/ a \in DOMAIN recentlyKicked' /\ recentlyKicked'[a] = clock
          \/ clock - clients[a].lastSeen > Timeout]_vars
  BY <1>1
<1>. QED
  BY <1>2, BaseInvariant, PTL DEF Spec, NoEarlyDrop

\* The table still holds the last notice of an address, or that notice is too
\* long ago to matter.
NoticeInv ==
    \A a \in Addr :
        IF a \in DOMAIN lastBanNotice THEN noticed[a] = lastBanNotice[a]
        ELSE noticed[a] = ZeroTime \/ clock - noticed[a] >= BanNoticeEvery

\* Every step preserves NoticeInv; in particular a tick forgets no notice
\* younger than BanNoticeEvery.
LEMMA NoticeStep == Base /\ NoticeInv /\ [Next]_vars => NoticeInv'
<1>. SUFFICES ASSUME Base, NoticeInv, [Next]_vars PROVE NoticeInv'
  OBVIOUS
<1>1. AdmissionOK /\ clock \in Nat /\ BanNoticeEvery \in Nat
  BY TimeAssumption DEF Base, Typed, TypeOK, Time
<1>2. CASE Advance
  BY <1>1, <1>2 DEF Advance, NoticeInv, admission, AdmissionOK, Time, ZeroTime
<1>3. CASE DropBanned
  <2>1. rx \in Datagram
    BY <1>3 DEF DropBanned, Base, Typed, TypeOK, GoroutinesOK, Idle
  <2>. QED
    BY <1>1, <1>3, <2>1 DEF DropBanned, Put, NoticeInv, AdmissionOK, Datagram
<1>4. CASE Tick
  <2>1. ticker.hand <= clock /\ ticker.hand \in Int
    BY DEF Base, TimesPast, Typed, TypeOK, GoroutinesOK, Time, ZeroTime
  <2>2. \A a \in DOMAIN lastBanNotice :
           /\ a \notin DOMAIN lastBanNotice'
              => ticker.hand - lastBanNotice[a] >= BanNoticeEvery
           /\ a \in DOMAIN lastBanNotice' => lastBanNotice'[a] = lastBanNotice[a]
    BY <1>4 DEF Tick, Without, Restrict, NoticeExpired
  <2>3. DOMAIN lastBanNotice' \subseteq DOMAIN lastBanNotice
        /\ UNCHANGED <<clock, noticed>>
    BY <1>4 DEF Tick, Without, Restrict
  <2>. QED
    BY <1>1, <2>1, <2>2, <2>3 DEF NoticeInv, AdmissionOK, Time
<1>5. CASE UNCHANGED <<clock, lastBanNotice, noticed>>
  BY <1>5 DEF NoticeInv
<1>. QED
  BY <1>2, <1>3, <1>4, <1>5
  DEF Next, Reader, Command, BanStep, ReadFromUDP, PassBanCheck, DropKicked,
      PassKickCheck, Join, State, Chat, Bye, TickFire, TickReceive, Kick,
      BanLookup, BanReadName, BanAdd, BanKick, Unban, vars, admission

\* Two ban notices to an address are never closer than banNoticeEvery.
THEOREM NoticeSpacedAlways == Spec => NoticeSpaced
<1>1. Init => NoticeInv
  BY DEF Init, NoticeInv, Empty
<1>2. Base /\ NoticeInv /\ [Next]_vars => NoticeInv'
  BY NoticeStep
<1>3. ASSUME Base, NoticeInv, [Next]_vars, NEW a \in Addr, noticed'[a] # noticed[a]
      PROVE  noticed[a] = ZeroTime \/ clock - noticed[a] >= BanNoticeEvery
  <2>1. DropBanned
    BY <1>3
    DEF Next, Reader, Command, BanStep, Advance, ReadFromUDP, PassBanCheck,
        DropKicked, PassKickCheck, Join, State, Chat, Bye, TickFire,
        TickReceive, Tick, Kick, BanLookup, BanReadName, BanAdd, BanKick,
        Unban, vars, admission
  <2>2. rx \in Datagram /\ rx # Idle
    BY <1>3, <2>1 DEF DropBanned, Base, Typed, TypeOK, GoroutinesOK, Idle
  <2>3. /\ noticed \in [Addr -> Time \cup {ZeroTime}]
        /\ DOMAIN lastBanNotice \subseteq Addr
        /\ \A x \in DOMAIN lastBanNotice : lastBanNotice[x] \in Int
        /\ clock \in Int /\ rx.now \in Int /\ rx.now <= clock
    BY <1>3, <2>2 DEF Base, Typed, TypeOK, AdmissionOK, TimesPast, Datagram, Time
  <2>4. a = rx.addr /\ NoticeDue(rx.addr, rx.now)
    BY <1>3, <2>1, <2>3 DEF DropBanned
  <2>. QED
    BY <1>3, <2>3, <2>4, TimeAssumption DEF NoticeDue, NoticeInv
<1>4. Base /\ NoticeInv /\ [Next]_vars =>
        [\A a \in Addr : noticed'[a] # noticed[a] =>
          noticed[a] = ZeroTime \/ clock - noticed[a] >= BanNoticeEvery]_vars
  BY <1>3
<1>. QED
  BY <1>1, <1>2, <1>4, BaseInvariant, PTL DEF Spec, NoticeSpaced
=============================================================================
