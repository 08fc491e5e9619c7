---------------------------- MODULE OutboxProofs ----------------------------
(***************************************************************************)
(* Proofs about Outbox: it only adds what is sent to Sessions, and what it *)
(* sends names the right players, for any addresses, names, admins, limits *)
(* and times.                                                              *)
(***************************************************************************)
EXTENDS Outbox, SessionsProofs, FiniteSetTheorems

-----------------------------------------------------------------------------
(* Outbox and Sessions *)

\* Whatever else a step does, to the session table it does what a step of
\* Sessions does, or nothing.
LEMMA SessionsStep == [OutNext]_allVars => [Next]_vars
<1>. SUFFICES ASSUME [OutNext]_allVars PROVE [Next]_vars
  OBVIOUS
<1>1. ReaderSends => Reader
  BY DEF ReaderSends, BanNotice, JoinAndWelcome, StateAndWelcome, ChatLine, Reader
<1>2. TickAndSend => Tick
  BY DEF TickAndSend
<1>3. \A r \in Admin : Obey(r) => Command(r) \/ BanStep(r)
  BY DEF Obey
<1>4. \A r \in Admin : Say(r) => UNCHANGED vars
  BY DEF Say
<1>5. \A g \in Goroutine : Send(g) => UNCHANGED vars
  BY DEF Send
<1>6. UNCHANGED allVars => UNCHANGED vars
  BY DEF allVars
<1>. QED
  BY <1>1, <1>2, <1>3, <1>4, <1>5, <1>6
  DEF OutNext, Next, ReadNext, TickNext

\* The server that sends is the server of Sessions: every theorem about Spec is
\* one about OutSpec.
THEOREM ImplementsSessions == OutSpec => Spec
<1>1. OutInit => Init
  BY DEF OutInit
<1>. QED
  BY <1>1, SessionsStep, PTL DEF OutSpec, Spec

-----------------------------------------------------------------------------
(* What waits to be written *)

Welcomes == [what : {"Welcome"}, to : Addr, id : SessionId]
Notices == [what : {"Kick", "Chat"}, to : Addr]
Snapshots == [what : {"Snapshot"}, to : Addr, ids : SUBSET SessionId]

\* Each goroutine writes datagrams of its own kinds, a Welcome alone, and the
\* reader takes up no datagram before it has written what it prepared.
QueuesOK ==
    /\ out = [g \in Goroutine |-> out[g]]
    /\ out["ticker"] \in Seq(Snapshots)
    /\ \A r \in Admin : out[r] \in Seq(Notices)
    /\ out["reader"] \in Seq(Notices) \cup {<<w>> : w \in Welcomes}
    /\ out["reader"] # <<>> => rx.pc = "read"
    /\ welcomed = [a \in Addr |-> welcomed[a]]
    /\ shown = [a \in Addr |-> shown[a]]

\* An order of a set of addresses is a sequence.
LEMMA Orders ==
    ASSUME NEW S \in SUBSET Addr, NEW order \in InAnyOrder(S)
    PROVE  \E n \in Nat : order \in [1 .. n -> S]
<1>1. Cardinality(S) \in Nat
  BY OutboxAssumption, FS_Subset, FS_CardinalityType
<1>. QED
  BY <1>1 DEF InAnyOrder, SetToSeqs

\* What Speak queues are notices.
LEMMA SpeakQueues ==
    ASSUME TypeOK, NEW s \in Speaker, Speak(s)
    PROVE  /\ \E q \in Seq(Notices) : out' = [out EXCEPT ![s] = q]
           /\ UNCHANGED <<posed, welcomed, shown>>
<1>1. PICK order \in InAnyOrder(DOMAIN clients) :
        Queue(s, [i \in DOMAIN order |-> Line(order[i])])
  BY DEF Speak, Audience
<1>2. PICK n \in Nat : order \in [1 .. n -> Addr]
  BY Orders DEF TypeOK, ClientsOK
<1>3. [i \in DOMAIN order |-> Line(order[i])] \in Seq(Notices)
  BY <1>2 DEF Line, Notices
<1>. QED
  BY <1>1, <1>3 DEF Speak, Queue

\* What KickTold queues, if anything, are notices.
LEMMA KickQueues ==
    ASSUME TypeOK, NEW r \in Admin, Kick(r) \/ BanKick(r), KickTold(r)
    PROVE  /\ \/ out' = out
              \/ \E q \in Seq(Notices) : out' = [out EXCEPT ![r] = q]
           /\ UNCHANGED <<posed, welcomed, shown>>
<1>1. CASE DOMAIN clients' = DOMAIN clients
  BY <1>1 DEF KickTold
<1>2. CASE DOMAIN clients' # DOMAIN clients
  <2>. DEFINE a == CHOOSE b \in DOMAIN clients : b \notin DOMAIN clients'
  <2>1. \E b \in DOMAIN clients : b \notin DOMAIN clients'
    BY <1>2, KickShape DEF KickOut, Without, Restrict
  <2>2. a \in Addr
    BY <2>1 DEF TypeOK, ClientsOK
  <2>3. [i \in 1 .. Copies |-> KickNotice(a)] \in Seq(Notices)
    <3>1. KickNotice(a) \in Notices
      BY <2>2 DEF KickNotice, Notices
    <3>. HIDE DEF a
    <3>. QED
      BY <3>1, OutboxAssumption
  <2>. QED
    BY <1>2, <2>3 DEF KickTold, Queue
<1>. QED
  BY <1>1, <1>2

\* What a tick queues is a snapshot for each of a set of the sessions it leaves,
\* with ids of others of those sessions.
LEMMA TickQueues ==
    ASSUME TypeOK, TypeOK', TickAndSend
    PROVE  \E q \in Seq(Snapshots) :
              /\ out' = [out EXCEPT !["ticker"] = q]
              /\ \A k \in DOMAIN q :
                    /\ q[k].to \in DOMAIN clients'
                    /\ \A i \in q[k].ids : \E b \in DOMAIN clients' :
                          b # q[k].to /\ clients'[b].id = i
<1>. DEFINE live == {a \in DOMAIN clients' : IsSent(a)}
            ids(a) == Entities(a, Live, ticker.hand)
<1>1. PICK order \in InAnyOrder(live) :
        Queue("ticker", [i \in DOMAIN order |-> Snapshot(order[i], ids(order[i]))])
  BY DEF TickAndSend
<1>2. PICK n \in Nat : order \in [1 .. n -> live]
  BY Orders DEF TypeOK, ClientsOK
<1>3. \A a \in live : /\ ids(a) \subseteq SessionId
                      /\ \A i \in ids(a) : \E b \in DOMAIN clients' :
                            b # a /\ clients'[b].id = i
  <2>. SUFFICES ASSUME NEW a \in live, NEW i \in ids(a)
                PROVE  i \in SessionId /\ \E b \in DOMAIN clients' :
                          b # a /\ clients'[b].id = i
    OBVIOUS
  <2>1. PICK b \in DOMAIN clients' : b # a /\ clients'[b].id = i
    BY DEF Entities, IsMe, Live
  <2>. QED
    BY <2>1 DEF TypeOK, ClientsOK, Session
<1>. DEFINE q == [i \in DOMAIN order |-> Snapshot(order[i], ids(order[i]))]
<1>4. live \subseteq Addr
  BY DEF TypeOK, ClientsOK
<1>5. \A a \in live : Snapshot(a, ids(a)) \in Snapshots
  BY <1>3, <1>4 DEF Snapshot, Snapshots
<1>6. q \in Seq(Snapshots)
  <2>. HIDE DEF ids, live
  <2>. QED
    BY <1>2, <1>5
<1>7. \A k \in DOMAIN q : /\ order[k] \in live
                          /\ q[k].to = order[k] /\ q[k].ids = ids(order[k])
  BY <1>2 DEF Snapshot
<1>8. \A k \in DOMAIN q :
        /\ q[k].to \in DOMAIN clients'
        /\ \A i \in q[k].ids : \E b \in DOMAIN clients' :
              b # q[k].to /\ clients'[b].id = i
  <2>. HIDE DEF ids, q
  <2>. QED
    BY <1>3, <1>7
<1>9. out' = [out EXCEPT !["ticker"] = q]
  BY <1>1 DEF Queue
<1>. HIDE DEF q
<1>. QED
  BY <1>6, <1>8, <1>9

-----------------------------------------------------------------------------
(* The steps, as the queues see them *)

\* The reader opens or renews a session and prepares its Welcome.
Greets ==
    /\ Join \/ State
    /\ rx.pc = "apply" /\ rx'.pc = "read"
    /\ \E w \in Welcomes :
        /\ w.to = rx.addr /\ w.id = clients'[rx.addr].id
        /\ out' = [out EXCEPT !["reader"] = <<w>>]
    /\ UNCHANGED <<welcomed, shown>>

\* A goroutine prepares notices: the reader at the end of a datagram.
Notifies ==
    /\ ~(Join \/ State)
    /\ \E g \in Speaker, q \in Seq(Notices) :
        /\ out' = [out EXCEPT ![g] = q]
        /\ IF g = "reader" THEN rx.pc # "read" /\ rx'.pc = "read" ELSE UNCHANGED rx
    /\ UNCHANGED <<welcomed, shown>>

\* Nothing is prepared; a State that opens no session is one such step.
Keeps ==
    /\ Join \/ State => rx.addr \in DOMAIN clients
    /\ rx.pc = "read" /\ out["reader"] # <<>> => UNCHANGED rx
    /\ UNCHANGED <<out, welcomed, shown>>

\* Every step writes a datagram, or is one of these, or is a tick.
LEMMA Shapes ==
    ASSUME Base, Base', [OutNext]_allVars
    PROVE  \/ \E g \in Goroutine : Send(g)
           \/ TickAndSend \/ Greets \/ Notifies \/ Keeps
<1>. USE DEF Base, Typed
<1>1. UNCHANGED rx => ~(Join \/ State)
  BY DEF Join, State, Applies, Idle
<1>2. CASE (Advance \/ TickFire) /\ Quiet
  BY <1>1, <1>2 DEF Advance, TickFire, Quiet, outVars, Keeps
<1>3. CASE ReadNext
  <2>1. ~(Join \/ State) /\ out["reader"] = <<>>
    BY <1>3 DEF ReadNext, ReadFromUDP, Silenced, Join, State, Applies
  <2>. QED
    BY <1>3, <2>1 DEF ReadNext, Quiet, outVars, Keeps
<1>4. CASE BanNotice
  <2>1. rx \in Datagram /\ rx.pc = "ban" /\ rx'.pc = "read"
    BY <1>4 DEF BanNotice, DropBanned, TypeOK, GoroutinesOK, Idle
  <2>2. ~(Join \/ State)
    BY <2>1 DEF Join, State, Applies
  <2>3. <<KickNotice(rx.addr)>> \in Seq(Notices)
    BY <2>1 DEF KickNotice, Notices, Datagram
  <2>. QED
    BY <1>4, <2>1, <2>2, <2>3 DEF BanNotice, Queue, Notifies, Keeps, Speaker
<1>5. ASSUME Join \/ State, Queue("reader", <<Welcome(rx.addr, clients'[rx.addr].id)>>),
             UNCHANGED <<welcomed, shown>>
      PROVE  Greets
  <2>1. rx \in Datagram /\ rx.pc = "apply" /\ rx'.pc = "read"
    BY <1>5 DEF Join, State, Applies, TypeOK, GoroutinesOK, Idle
  <2>2. rx.addr \in DOMAIN clients'
    BY <1>5 DEF Join, State, Put
  <2>3. Welcome(rx.addr, clients'[rx.addr].id) \in Welcomes
    BY <2>1, <2>2 DEF Welcome, Welcomes, Datagram, TypeOK, ClientsOK, Session
  <2>. QED
    BY <1>5, <2>1, <2>3 DEF Greets, Queue, Welcome
<1>6. CASE JoinAndWelcome
  BY <1>5, <1>6 DEF JoinAndWelcome
<1>7. CASE StateAndWelcome
  <2>1. rx.pc = "apply"
    BY <1>7 DEF StateAndWelcome, State, Applies
  <2>. QED
    BY <1>5, <1>7, <2>1 DEF StateAndWelcome, Created, Keeps
<1>8. CASE ChatLine
  <2>1. rx.pc = "apply" /\ rx'.pc = "read" /\ ~(Join \/ State)
    BY <1>8 DEF ChatLine, Chat, Join, State, Applies, Idle
  <2>2. CASE Speak("reader")
    BY <2>1, <2>2, SpeakQueues DEF Notifies, Speaker
  <2>3. CASE Quiet
    BY <2>1, <2>3 DEF Quiet, outVars, Keeps
  <2>. QED
    BY <1>8, <2>2, <2>3 DEF ChatLine
<1>9. CASE (PassBanCheck \/ DropKicked \/ PassKickCheck \/ Bye) /\ Quiet
  <2>1. rx.pc # "read" /\ ~(Join \/ State)
    BY <1>9 DEF PassBanCheck, DropKicked, PassKickCheck, Bye, Join, State, Applies
  <2>. QED
    BY <1>9, <2>1 DEF Quiet, outVars, Keeps
<1>10. CASE TickNext
  BY <1>1, <1>10 DEF TickNext, TickReceive, Quiet, outVars, Keeps
<1>11. ASSUME NEW r \in Admin, Obey(r), Kick(r) \/ BanKick(r) PROVE Notifies \/ Keeps
  <2>1. UNCHANGED rx /\ ~(Join \/ State)
    BY <1>1, <1>11 DEF Kick, BanKick
  <2>. QED
    BY <1>11, <2>1, KickQueues, OutboxAssumption DEF Obey, Notifies, Keeps, Speaker
<1>12. ASSUME NEW r \in Admin, Obey(r), ~(Kick(r) \/ BanKick(r)) PROVE Keeps
  <2>1. UNCHANGED <<clients, rx>>
    BY <1>12 DEF Obey, Command, BanStep, BanLookup, BanReadName, BanAdd, Unban
  <2>. QED
    BY <1>1, <1>12, <2>1 DEF Obey, KickTold, Keeps
<1>13. ASSUME NEW r \in Admin, Say(r) PROVE Notifies
  <2>1. UNCHANGED rx /\ r \in Speaker /\ r # "reader"
    BY <1>13, OutboxAssumption DEF Say, vars, Speaker
  <2>. QED
    BY <1>1, <1>13, <2>1, SpeakQueues DEF Say, Notifies
<1>14. CASE UNCHANGED allVars
  BY <1>1, <1>14 DEF allVars, vars, outVars, Keeps
<1>. QED
  BY <1>2, <1>3, <1>4, <1>6, <1>7, <1>8, <1>9, <1>10, <1>11, <1>12, <1>13, <1>14
  DEF OutNext, ReaderSends

-----------------------------------------------------------------------------
(* The queues stay as they should *)

\* Nothing waits at first.
LEMMA QueuesInit == OutInit => QueuesOK
BY OutboxAssumption DEF OutInit, QueuesOK, Goroutine

\* Writing takes the first datagram off a queue, and only a Welcome or a
\* Snapshot tells an address something.
LEMMA SendShape ==
    ASSUME QueuesOK, NEW g \in Goroutine, Send(g)
    PROVE  /\ out' = [out EXCEPT ![g] = Tail(@)]
           /\ UNCHANGED vars
           /\ IF g = "ticker"
              THEN LET d == Head(out["ticker"])
                   IN  /\ d \in Snapshots /\ out["ticker"] # <<>>
                       /\ shown' = [shown EXCEPT ![d.to] = d.ids]
                       /\ welcomed' = welcomed
              ELSE /\ shown' = shown
                   /\ \/ welcomed' = welcomed /\ (g = "reader" =>
                                                    out["reader"] \in Seq(Notices))
                      \/ \E w \in Welcomes :
                            /\ g = "reader" /\ out["reader"] = <<w>>
                            /\ welcomed' = [welcomed EXCEPT ![w.to] = w.id]
<1>. DEFINE d == Head(out[g])
<1>1. /\ out[g] # <<>> /\ out' = [out EXCEPT ![g] = Tail(@)] /\ UNCHANGED vars
      /\ welcomed' = IF d.what = "Welcome"
                     THEN [welcomed EXCEPT ![d.to] = d.id] ELSE welcomed
      /\ shown' = IF d.what = "Snapshot"
                  THEN [shown EXCEPT ![d.to] = d.ids] ELSE shown
  BY DEF Send, Silenced
<1>2. CASE g = "ticker"
  <2>1. d \in Snapshots
    BY <1>1, <1>2 DEF QueuesOK
  <2>2. d.what = "Snapshot"
    BY <2>1 DEF Snapshots
  <2>. QED
    BY <1>1, <1>2, <2>1, <2>2
<1>3. CASE g # "ticker" /\ out[g] \in Seq(Notices)
  <2>1. d \in Notices
    BY <1>1, <1>3
  <2>2. d.what \in {"Kick", "Chat"}
    BY <2>1 DEF Notices
  <2>. QED
    BY <1>1, <1>3, <2>2
<1>4. CASE g = "reader" /\ \E w \in Welcomes : out[g] = <<w>>
  <2>1. PICK w \in Welcomes : out["reader"] = <<w>>
    BY <1>4
  <2>2. d = w /\ d.what = "Welcome"
    BY <1>4, <2>1 DEF Welcomes
  <2>. QED
    BY <1>1, <1>4, <2>1, <2>2
<1>. QED
  BY <1>2, <1>3, <1>4 DEF QueuesOK, Goroutine

\* Every step leaves the queues as they should be.
LEMMA QueuesStep ==
    ASSUME Base, Base', QueuesOK, [OutNext]_allVars
    PROVE  QueuesOK'
<1>1. "reader" \in Goroutine /\ "ticker" \in Goroutine /\ "reader" # "ticker"
      /\ \A r \in Admin : r \in Goroutine /\ r # "reader" /\ r # "ticker"
  BY OutboxAssumption DEF Goroutine
<1>2. ASSUME NEW g \in Goroutine, Send(g) PROVE QueuesOK'
  <2>1. /\ out' = [out EXCEPT ![g] = Tail(@)] /\ UNCHANGED rx
        /\ welcomed' = [a \in Addr |-> welcomed'[a]]
        /\ shown' = [a \in Addr |-> shown'[a]]
    BY <1>2, SendShape DEF vars, QueuesOK
  <2>2. out[g] # <<>>
    BY <1>2 DEF Send, Silenced
  <2>3. \A S : out[g] \in Seq(S) => Tail(out[g]) \in Seq(S)
    BY <2>2
  <2>4. (\E w \in Welcomes : out[g] = <<w>>) => Tail(out[g]) \in Seq(Notices)
    OBVIOUS
  <2>5. /\ out'["ticker"] \in Seq(Snapshots)
        /\ \A r \in Admin : out'[r] \in Seq(Notices)
        /\ out'["reader"] \in Seq(Notices) \cup {<<w>> : w \in Welcomes}
    BY <1>1, <2>1, <2>3, <2>4 DEF QueuesOK
  <2>6. out'["reader"] # <<>> => out["reader"] # <<>>
    BY <1>1, <2>1, <2>2 DEF QueuesOK
  <2>7. out' = [h \in Goroutine |-> out'[h]]
    BY <2>1 DEF QueuesOK
  <2>. QED
    BY <2>1, <2>5, <2>6, <2>7 DEF QueuesOK
<1>3. CASE TickAndSend
  <2>1. PICK q \in Seq(Snapshots) : out' = [out EXCEPT !["ticker"] = q]
    BY <1>3, TickQueues DEF Base, Typed
  <2>2. UNCHANGED <<rx, welcomed, shown>>
    BY <1>3 DEF TickAndSend, Tick
  <2>. QED
    BY <1>1, <2>1, <2>2 DEF QueuesOK
<1>4. CASE Greets
  <2>1. PICK w \in Welcomes : out' = [out EXCEPT !["reader"] = <<w>>]
    BY <1>4 DEF Greets
  <2>. QED
    BY <1>1, <1>4, <2>1 DEF Greets, QueuesOK
<1>5. CASE Notifies
  <2>1. PICK g \in Speaker, q \in Seq(Notices) :
          /\ out' = [out EXCEPT ![g] = q]
          /\ IF g = "reader" THEN rx.pc # "read" /\ rx'.pc = "read" ELSE UNCHANGED rx
    BY <1>5 DEF Notifies
  <2>2. g = "reader" \/ g \in Admin
    BY DEF Speaker
  <2>. QED
    BY <1>1, <1>5, <2>1, <2>2 DEF Notifies, QueuesOK
<1>6. CASE Keeps
  BY <1>6 DEF Keeps, QueuesOK
<1>. QED
  BY <1>2, <1>3, <1>4, <1>5, <1>6, Shapes

\* What later proofs rest on, and that it holds in every reachable state.
OutBase == Base /\ IdsUnique /\ QueuesOK

LEMMA OutBaseInvariant == OutSpec => []OutBase
<1>1. QueuesOK /\ Base /\ Base' /\ [OutNext]_allVars => QueuesOK'
  BY QueuesStep
<1>. QED
  BY <1>1, QueuesInit, ImplementsSessions, BaseInvariant, IdsUniqueAlways, PTL
  DEF OutSpec, OutBase

-----------------------------------------------------------------------------
(* Nobody is shown itself *)

\* What an address may be told of the others: ids given out, its own not.
Fit(a, ids) ==
    /\ \A i \in ids : i < nextID
    /\ a \in DOMAIN clients => clients[a].id \notin ids

\* NotMyself needs the same of the snapshots that wait.
ShownInv ==
    /\ \A a \in Addr : shown[a] \subseteq SessionId /\ Fit(a, shown[a])
    /\ \A k \in DOMAIN out["ticker"] : Fit(out["ticker"][k].to, out["ticker"][k].ids)

\* What fits goes on fitting: who comes in has an id of its own.
LEMMA FitStays ==
    ASSUME Base, [Next]_vars, NEW a, NEW ids \in SUBSET SessionId, Fit(a, ids)
    PROVE  Fit(a, ids)'
<1>1. nextID \in Nat /\ nextID' \in Nat /\ nextID <= nextID'
      /\ SessionId \subseteq Nat
  BY NewIds, TypeStep, TimeAssumption
  DEF Base, Typed, TypeOK, ClientsOK, SessionId
<1>2. ASSUME NEW i \in ids PROVE i < nextID /\ i < nextID'
  <2>1. i \in Nat /\ i < nextID
    BY <1>1 DEF Fit
  <2>. HIDE DEF Fit
  <2>2. \A m, n \in Nat : i < m /\ m <= n => i < n
    BY <2>1
  <2>. QED
    BY <1>1, <2>1, <2>2
<1>3. ASSUME a \in DOMAIN clients' PROVE clients'[a].id \notin ids
  <2>1. \/ a \in DOMAIN clients /\ clients'[a].id = clients[a].id
        \/ clients'[a].id = nextID
    BY <1>3, NewIds
  <2>2. nextID \notin ids
    BY <1>1, <1>2
  <2>. QED
    BY <2>1, <2>2 DEF Fit
<1>. QED
  BY <1>2, <1>3 DEF Fit

\* Every step preserves ShownInv.
LEMMA ShownStep ==
    ASSUME OutBase, OutBase', ShownInv, [OutNext]_allVars
    PROVE  ShownInv'
<1>. USE DEF OutBase
<1>1. [Next]_vars
  BY SessionsStep
<1>2. \A k \in DOMAIN out["ticker"] : out["ticker"][k] \in Snapshots
  BY DEF QueuesOK
<1>3. /\ \A a \in Addr : Fit(a, shown[a])'
         \/ shown'[a] # shown[a]
      /\ \A k \in DOMAIN out["ticker"] :
            LET d == out["ticker"][k]
            IN  \A a \in Addr : a = d.to => d.ids \subseteq SessionId
  BY <1>1, <1>2, FitStays DEF ShownInv, Snapshots, Fit
<1>4. \A a \in Addr, ids \in SUBSET SessionId : Fit(a, ids) =>
          (\A i \in ids : i < nextID') /\ (a \in DOMAIN clients' => clients'[a].id \notin ids)
  BY <1>1, FitStays DEF Fit
<1>5. CASE UNCHANGED <<shown>> /\ out'["ticker"] = out["ticker"]
  BY <1>2, <1>4, <1>5 DEF ShownInv, Fit, Snapshots
<1>6. ASSUME NEW g \in Goroutine, Send(g), g # "ticker" PROVE ShownInv'
  <2>1. shown' = shown /\ out' = [out EXCEPT ![g] = Tail(@)]
    BY <1>6, SendShape
  <2>2. out'["ticker"] = out["ticker"]
    BY <1>6, <2>1 DEF QueuesOK, Goroutine
  <2>. QED
    BY <1>5, <2>1, <2>2
<1>7. CASE Send("ticker")
  <2>. DEFINE d == Head(out["ticker"])
  <2>1. /\ d \in Snapshots /\ out["ticker"] # <<>>
        /\ shown' = [shown EXCEPT ![d.to] = d.ids]
        /\ out' = [out EXCEPT !["ticker"] = Tail(@)] /\ UNCHANGED vars
    BY <1>7, SendShape DEF Goroutine
  <2>2. 1 \in DOMAIN out["ticker"] /\ d = out["ticker"][1]
    BY <2>1 DEF QueuesOK
  <2>3. out'["ticker"] = Tail(out["ticker"])
    BY <2>1 DEF QueuesOK, Goroutine
  <2>4. \A k \in DOMAIN out'["ticker"] :
            /\ k + 1 \in DOMAIN out["ticker"]
            /\ out'["ticker"][k] = out["ticker"][k + 1]
    <3>1. out["ticker"] \in Seq(Snapshots)
      BY DEF QueuesOK
    <3>2. \A q \in Seq(Snapshots) : q # <<>> =>
            \A k \in DOMAIN Tail(q) : k + 1 \in DOMAIN q /\ Tail(q)[k] = q[k + 1]
      OBVIOUS
    <3>. QED
      BY <2>1, <2>3, <3>1, <3>2
  <2>5. \A a, ids : Fit(a, ids) =>
          (\A i \in ids : i < nextID') /\ (a \in DOMAIN clients' => clients'[a].id \notin ids)
    BY <2>1 DEF vars, Fit
  <2>6. \A a \in Addr : shown'[a] \subseteq SessionId /\ Fit(a, shown'[a])
    <3>1. d.to \in Addr /\ d.ids \subseteq SessionId /\ Fit(d.to, d.ids)
      BY <2>1, <2>2 DEF ShownInv, Snapshots
    <3>2. \A a \in Addr : shown'[a] = IF a = d.to THEN d.ids ELSE shown[a]
      BY <2>1 DEF QueuesOK
    <3>. HIDE DEF d
    <3>. QED
      BY <3>1, <3>2 DEF ShownInv
  <2>. QED
    BY <2>4, <2>5, <2>6 DEF ShownInv, Fit
<1>8. CASE TickAndSend
  <2>1. PICK q \in Seq(Snapshots) :
          /\ out' = [out EXCEPT !["ticker"] = q]
          /\ \A k \in DOMAIN q :
                /\ q[k].to \in DOMAIN clients'
                /\ \A i \in q[k].ids : \E b \in DOMAIN clients' :
                      b # q[k].to /\ clients'[b].id = i
    BY <1>8, TickQueues DEF Base, Typed
  <2>2. shown' = shown /\ out'["ticker"] = q
    BY <1>8, <2>1 DEF TickAndSend, QueuesOK, Goroutine
  <2>3. \A k \in DOMAIN q : Fit(q[k].to, q[k].ids)'
    BY <2>1 DEF Fit, IdsUnique, Base, Typed, TypeOK, ClientsOK
  <2>. QED
    BY <1>4, <2>2, <2>3 DEF ShownInv, Fit
<1>9. CASE Greets \/ Notifies \/ Keeps
  <2>1. shown' = shown /\ out'["ticker"] = out["ticker"]
    BY <1>9, OutboxAssumption DEF Greets, Notifies, Keeps, QueuesOK, Goroutine, Speaker
  <2>. QED
    BY <1>5, <2>1
<1>. QED
  BY <1>6, <1>7, <1>8, <1>9, Shapes

\* Nobody is ever shown its own car, whatever reader, ticker and admins do
\* between the preparation of a snapshot and its sending.
THEOREM NotMyselfAlways == OutSpec => []NotMyself
<1>1. OutInit => ShownInv
  BY OutboxAssumption DEF OutInit, Init, ShownInv, Fit, Empty, Goroutine
<1>2. OutBase /\ OutBase' /\ ShownInv /\ [OutNext]_allVars => ShownInv'
  BY ShownStep
<1>3. OutBase /\ ShownInv => NotMyself
  BY DEF OutBase, Base, Typed, TypeOK, ClientsOK, ShownInv, Fit, NotMyself
<1>. QED
  BY <1>1, <1>2, <1>3, OutBaseInvariant, PTL DEF OutSpec

-----------------------------------------------------------------------------
(* Everybody knows its own id *)

\* The id of each session is in the last Welcome, or in the one that the reader
\* writes next; and that one is not about a session that is over.
WelcomeInv ==
    /\ \A a \in DOMAIN clients :
          \/ welcomed[a] = clients[a].id
          \/ out["reader"] = <<Welcome(a, clients[a].id)>>
    /\ \A w \in Welcomes : out["reader"] = <<w>> /\ w.to \in DOMAIN clients =>
          clients[w.to].id = w.id

\* A queue of notices is not a Welcome.
LEMMA WelcomeIsNoNotice ==
    ASSUME NEW w \in Welcomes
    PROVE  <<w>> \notin Seq(Notices)
<1>1. w \notin Notices
  BY DEF Welcomes, Notices
<1>2. 1 \in DOMAIN <<w>> /\ <<w>>[1] = w
  OBVIOUS
<1>. QED
  BY <1>1, <1>2

\* Every step preserves WelcomeInv: while a Welcome waits, the reader, who
\* alone opens sessions, takes up nothing else.
LEMMA WelcomeStep ==
    ASSUME OutBase, OutBase', WelcomeInv, [OutNext]_allVars
    PROVE  WelcomeInv'
<1>. USE DEF OutBase
<1>1. [Next]_vars /\ DOMAIN clients \subseteq Addr
  BY SessionsStep DEF Base, Typed, TypeOK, ClientsOK
<1>2. \A w \in Welcomes : w = Welcome(w.to, w.id)
  BY DEF Welcomes, Welcome
<1>3. \A a \in DOMAIN clients' :
          a \in Addr /\ Welcome(a, clients'[a].id) \in Welcomes
  BY DEF Base, Typed, TypeOK, ClientsOK, Session, Welcome, Welcomes
<1>4. ASSUME ~(Join \/ State), UNCHANGED <<welcomed>>, out'["reader"] = out["reader"]
      PROVE  WelcomeInv'
  BY <1>1, <1>4, SameIds DEF WelcomeInv
<1>5. CASE TickAndSend
  <2>1. out'["reader"] = out["reader"] /\ UNCHANGED <<rx, welcomed>>
    BY <1>5, TickQueues DEF TickAndSend, Tick, QueuesOK, Goroutine, Base, Typed
  <2>2. ~(Join \/ State)
    BY <2>1 DEF Join, State, Applies, Idle
  <2>. QED
    BY <1>4, <2>1, <2>2
<1>6. ASSUME NEW g \in Goroutine, Send(g) PROVE WelcomeInv'
  <2>1. UNCHANGED vars /\ out' = [out EXCEPT ![g] = Tail(@)]
    BY <1>6, SendShape
  <2>2. ~(Join \/ State)
    BY <2>1 DEF vars, Join, State, Applies, Idle
  <2>3. CASE g # "reader"
    <3>1. welcomed' = welcomed
      BY <1>6, <2>3, SendShape
    <3>2. out'["reader"] = out["reader"]
      BY <2>1, <2>3 DEF QueuesOK, Goroutine
    <3>. QED
      BY <1>4, <2>2, <3>1, <3>2
  <2>4. CASE g = "reader" /\ welcomed' = welcomed /\ out["reader"] \in Seq(Notices)
    <3>1. out'["reader"] = Tail(out["reader"]) /\ out["reader"] # <<>>
      BY <1>6, <2>1, <2>4 DEF QueuesOK, Send, Silenced
    <3>2. out'["reader"] \in Seq(Notices)
      BY <2>4, <3>1
    <3>3. \A w \in Welcomes : out["reader"] # <<w>> /\ out'["reader"] # <<w>>
      BY <2>4, <3>2, WelcomeIsNoNotice
    <3>4. \A a \in DOMAIN clients : welcomed[a] = clients[a].id
      BY <1>3, <2>1, <3>3 DEF WelcomeInv, vars
    <3>. QED
      BY <2>1, <2>4, <3>3, <3>4 DEF WelcomeInv, vars
  <2>5. ASSUME NEW w \in Welcomes, g = "reader", out["reader"] = <<w>>,
               welcomed' = [welcomed EXCEPT ![w.to] = w.id]
        PROVE  WelcomeInv'
    <3>1. out'["reader"] = <<>> /\ w.to \in Addr
      <4>1. out'["reader"] = Tail(out["reader"])
        BY <2>1, <2>5 DEF QueuesOK
      <4>2. Tail(<<w>>) = <<>>
        OBVIOUS
      <4>. QED
        BY <2>5, <4>1, <4>2 DEF Welcomes
    <3>2. \A a \in DOMAIN clients : out["reader"] = <<Welcome(a, clients[a].id)>> =>
              a = w.to /\ clients[a].id = w.id
      BY <2>5 DEF Welcome
    <3>3. welcomed'[w.to] = w.id /\ \A a \in Addr : a # w.to => welcomed'[a] = welcomed[a]
      BY <2>5, <3>1 DEF QueuesOK
    <3>4. \A a \in DOMAIN clients : welcomed'[a] = clients[a].id
      BY <1>1, <2>5, <3>2, <3>3 DEF WelcomeInv
    <3>. QED
      BY <2>1, <3>1, <3>4 DEF WelcomeInv, vars
  <2>. QED
    BY <1>6, <2>3, <2>4, <2>5, SendShape
<1>7. CASE Greets
  <2>1. PICK w \in Welcomes :
          /\ w.to = rx.addr /\ w.id = clients'[rx.addr].id
          /\ out' = [out EXCEPT !["reader"] = <<w>>]
    BY <1>7 DEF Greets
  <2>2. out["reader"] = <<>> /\ out'["reader"] = <<w>> /\ welcomed' = welcomed
    BY <1>7, <2>1 DEF Greets, QueuesOK, Goroutine
  <2>3. PICK d \in Session : Registered(d)
    BY <1>7, Registration DEF Greets, Base, Typed
  <2>4. \A a \in DOMAIN clients' : a # rx.addr =>
            a \in DOMAIN clients /\ clients'[a] = clients[a]
    BY <2>3 DEF Registered, Put
  <2>5. \A a \in DOMAIN clients : welcomed[a] = clients[a].id
    BY <2>2 DEF WelcomeInv
  <2>. QED
    BY <1>2, <2>1, <2>2, <2>4, <2>5 DEF WelcomeInv
<1>8. CASE Notifies
  <2>1. PICK g \in Speaker, q \in Seq(Notices) :
          /\ out' = [out EXCEPT ![g] = q]
          /\ IF g = "reader" THEN rx.pc # "read" /\ rx'.pc = "read" ELSE UNCHANGED rx
    BY <1>8 DEF Notifies
  <2>2. ~(Join \/ State) /\ welcomed' = welcomed
    BY <1>8 DEF Notifies
  <2>3. CASE g # "reader"
    <3>1. out'["reader"] = out["reader"]
      BY <2>1, <2>3 DEF QueuesOK, Goroutine
    <3>. QED
      BY <1>4, <2>2, <3>1
  <2>4. CASE g = "reader"
    <3>1. out["reader"] = <<>> /\ out'["reader"] \in Seq(Notices)
      BY <2>1, <2>4 DEF QueuesOK, Goroutine
    <3>2. \A w \in Welcomes : out'["reader"] # <<w>>
      BY <3>1, WelcomeIsNoNotice
    <3>3. \A a \in DOMAIN clients : welcomed[a] = clients[a].id
      BY <3>1 DEF WelcomeInv
    <3>. QED
      BY <1>1, <2>2, <3>2, <3>3, SameIds DEF WelcomeInv
  <2>. QED
    BY <2>3, <2>4
<1>9. CASE Keeps
  <2>1. CASE ~(Join \/ State)
    BY <1>4, <1>9, <2>1 DEF Keeps
  <2>2. CASE Join \/ State
    <3>1. PICK d \in Session : Registered(d)
      BY <2>2, Registration DEF Base, Typed
    <3>2. \A a \in DOMAIN clients' : a \in DOMAIN clients /\ clients'[a].id = clients[a].id
      BY <1>9, <2>2, <3>1 DEF Keeps, Registered, Put
    <3>. QED
      BY <1>9, <3>2 DEF Keeps, WelcomeInv
  <2>. QED
    BY <2>1, <2>2
<1>. QED
  BY <1>5, <1>6, <1>7, <1>8, <1>9, Shapes

\* A player never takes itself for somebody else: the last Welcome to it, or
\* the one the reader writes next, says the id of the session it has.
THEOREM KnowsItsIdAlways == OutSpec => []KnowsItsId
<1>1. OutInit => WelcomeInv
  BY DEF OutInit, Init, WelcomeInv, Empty, Goroutine
<1>2. OutBase /\ OutBase' /\ WelcomeInv /\ [OutNext]_allVars => WelcomeInv'
  BY WelcomeStep
<1>3. WelcomeInv => KnowsItsId
  BY DEF WelcomeInv, KnowsItsId, Under, Range
<1>. QED
  BY <1>1, <1>2, <1>3, OutBaseInvariant, PTL DEF OutSpec

-----------------------------------------------------------------------------
(* Players that have left *)

\* No snapshot is prepared with a player whose session is over: what a tick
\* prepares are ids of the sessions it leaves.
THEOREM NoGhostAlways == OutSpec => NoGhost
<1>1. ASSUME OutBase, OutBase', [OutNext]_allVars, NEW i \in SessionId,
             Ended(i)', Prepared(i)'
      PROVE  Prepared(i)
  <2>. USE DEF OutBase
  <2>1. CASE out'["ticker"] = out["ticker"]
    BY <1>1, <2>1 DEF Prepared
  <2>2. CASE TickAndSend
    <3>1. PICK q \in Seq(Snapshots) :
            /\ out' = [out EXCEPT !["ticker"] = q]
            /\ \A k \in DOMAIN q : \A j \in q[k].ids :
                  \E b \in DOMAIN clients' : clients'[b].id = j
      BY <1>1, <2>2, TickQueues DEF Base, Typed
    <3>2. out'["ticker"] = q
      BY <1>1, <3>1 DEF QueuesOK, Goroutine
    <3>. QED
      BY <1>1, <3>1, <3>2 DEF Prepared, Ended, Range
  <2>3. CASE Send("ticker")
    <3>1. out["ticker"] \in Seq(Snapshots) /\ out["ticker"] # <<>>
      BY <1>1, <2>3 DEF QueuesOK, Send, Silenced
    <3>2. out'["ticker"] = Tail(out["ticker"])
      BY <1>1, <2>3 DEF Send, QueuesOK, Goroutine
    <3>3. \A q \in Seq(Snapshots) : q # <<>> => Range(Tail(q)) \subseteq Range(q)
      BY DEF Range
    <3>. QED
      BY <1>1, <3>1, <3>2, <3>3 DEF Prepared
  <2>4. ASSUME NEW g \in Goroutine, Send(g), g # "ticker"
        PROVE  out'["ticker"] = out["ticker"]
    BY <1>1, <2>4 DEF Send, QueuesOK, Goroutine
  <2>5. CASE Greets \/ Notifies \/ Keeps
    <3>1. out'["ticker"] = out["ticker"]
      BY <1>1, <2>5, OutboxAssumption
      DEF Greets, Notifies, Keeps, QueuesOK, Goroutine, Speaker
    <3>. QED
      BY <2>1, <3>1
  <2>. QED
    BY <1>1, <2>1, <2>2, <2>3, <2>4, <2>5, Shapes
<1>2. OutBase /\ OutBase' /\ [OutNext]_allVars =>
        [\A i \in SessionId : Ended(i)' /\ Prepared(i)' => Prepared(i)]_allVars
  BY <1>1
<1>. QED
  BY <1>2, OutBaseInvariant, PTL DEF OutSpec, NoGhost

-----------------------------------------------------------------------------
(* The chat keeps the promises of ChatRoom *)

\* Where the first datagram of a queue is a line to a, writing it leaves one
\* copy less; any other leaves as many.
LEMMA CountOfTail ==
    ASSUME NEW D, NEW q \in Seq(D), q # <<>>, NEW a
    PROVE  /\ Count(q, a) \in Nat /\ Count(Tail(q), a) \in Nat
           /\ Count(q, a) = Count(Tail(q), a) + (IF Head(q) = Line(a) THEN 1 ELSE 0)
<1>. DEFINE S == {i \in DOMAIN q : q[i] = Line(a)}
            T == {i \in DOMAIN Tail(q) : Tail(q)[i] = Line(a)}
            f == [i \in T |-> i + 1]
<1>1. /\ Len(q) \in Nat \ {0} /\ DOMAIN q = 1 .. Len(q) /\ Head(q) = q[1]
      /\ DOMAIN Tail(q) = 1 .. Len(q) - 1
      /\ \A i \in 1 .. Len(q) - 1 : Tail(q)[i] = q[i + 1]
  OBVIOUS
<1>2. IsFiniteSet(DOMAIN q) /\ IsFiniteSet(DOMAIN Tail(q))
  BY <1>1, FS_Interval
<1>3. IsFiniteSet(S) /\ IsFiniteSet(T)
  <2>1. S \subseteq DOMAIN q /\ T \subseteq DOMAIN Tail(q)
    OBVIOUS
  <2>. QED
    BY <1>2, <2>1, FS_Subset
<1>4. f \in Bijection(T, S \ {1})
  <2>1. \A i \in T : i \in Int /\ i + 1 \in S \ {1}
    BY <1>1
  <2>2. \A j \in S \ {1} : j - 1 \in T /\ j = (j - 1) + 1
    BY <1>1
  <2>. HIDE DEF S, T
  <2>3. f \in [T -> S \ {1}] /\ \A i, j \in T : f[i] = f[j] => i = j
    BY <2>1
  <2>4. \A j \in S \ {1} : \E i \in T : f[i] = j
    BY <2>2
  <2>. QED
    BY <2>3, <2>4 DEF Bijection, Injection, Surjection, IsInjective
<1>5. Cardinality(S \ {1}) = Cardinality(T)
  BY <1>3, <1>4, FS_Bijection DEF ExistsBijection
<1>6. /\ Cardinality(S) \in Nat /\ Cardinality(T) \in Nat
      /\ Cardinality(S \ {1}) = IF 1 \in S THEN Cardinality(S) - 1 ELSE Cardinality(S)
  BY <1>3, FS_CardinalityType, FS_RemoveElement
<1>7. 1 \in S <=> Head(q) = Line(a)
  BY <1>1
<1>8. Count(q, a) = Cardinality(S) /\ Count(Tail(q), a) = Cardinality(T)
  BY DEF Count
<1>. HIDE DEF S, T
<1>. QED
  BY <1>5, <1>6, <1>7, <1>8

\* Line is one to one.
LEMMA LineIs == \A a, b : Line(a) = Line(b) => a = b
BY DEF Line

\* A loop over the sessions makes one copy for each of them.
LEMMA CountOfOrder ==
    ASSUME NEW S \in SUBSET Addr, NEW order \in InAnyOrder(S), NEW a
    PROVE  Count([i \in DOMAIN order |-> Line(order[i])], a) = IF a \in S THEN 1 ELSE 0
<1>. DEFINE n == Cardinality(S)
            q == [i \in DOMAIN order |-> Line(order[i])]
            K == {i \in DOMAIN q : q[i] = Line(a)}
<1>1. IsFiniteSet(S) /\ n \in Nat
  BY OutboxAssumption, FS_Subset, FS_CardinalityType
<1>2. /\ order \in [1 .. n -> S]
      /\ \A i, j \in 1 .. n : i # j => order[i] # order[j]
  BY DEF InAnyOrder, SetToSeqs
<1>3. order \in Injection(1 .. n, S)
  BY <1>2 DEF Injection, IsInjective
<1>4. Cardinality(1 .. n) = n
  <2>1. 1 \in Int /\ n \in Int
    BY <1>1
  <2>2. Cardinality(1 .. n) = IF 1 > n THEN 0 ELSE n - 1 + 1
    BY <2>1, FS_Interval
  <2>. HIDE DEF n
  <2>. QED
    BY <1>1, <2>2
<1>5. \A b \in S : \E i \in 1 .. n : order[i] = b
  BY <1>1, <1>3, <1>4, FS_Injection DEF Surjection
<1>6. K = {i \in 1 .. n : order[i] = a}
  BY <1>2, LineIs
<1>7. CASE a \in S
  <2>1. PICK i \in 1 .. n : order[i] = a
    BY <1>5, <1>7
  <2>2. K = {i}
    BY <1>2, <1>6, <2>1
  <2>. QED
    BY <1>7, <2>2, FS_Singleton DEF Count
<1>8. CASE a \notin S
  <2>1. K = {}
    BY <1>2, <1>6, <1>8
  <2>. QED
    BY <1>8, <2>1, FS_EmptySet DEF Count
<1>. QED
  BY <1>7, <1>8

\* In a queue without chat nobody has a line to hear.
LEMMA NoLine ==
    ASSUME NEW q, NEW a, \A i \in DOMAIN q : q[i].what # "Chat"
    PROVE  Count(q, a) = 0
<1>1. {i \in DOMAIN q : q[i] = Line(a)} = {}
  BY DEF Line
<1>. QED
  BY <1>1, FS_EmptySet DEF Count

\* What Lines says of a queue of which no copy waits, and of another.
LEMMA LinesAre ==
    ASSUME NEW s
    PROVE  /\ (\A a \in Addr : Count(out[s], a) = 0) => Lines(s) = <<>>
           /\ (\E a \in Addr : Count(out[s], a) # 0)
                => Lines(s) = <<[a \in Addr |-> Count(out[s], a)]>>
BY DEF Lines, Copy

\* Whatever a step does without moving lines is, to the room, that people come
\* and go.
Moves ==
    /\ DOMAIN clients' \subseteq Addr
    /\ \A s \in Speaker, a \in Addr : Count(out[s], a)' = Count(out[s], a)

LEMMA MovesMove == Moves => Room!Move
<1>. SUFFICES ASSUME Moves PROVE Room!Move
  OBVIOUS
<1>1. \A s \in Speaker : Lines(s)' = Lines(s)
  BY DEF Moves, Lines, Copy
<1>. QED
  BY <1>1 DEF Room!Move, Moves

\* A queue that was empty and now holds something other than chat moves no line.
LEMMA OthersMove ==
    ASSUME QueuesOK, DOMAIN clients' \subseteq Addr,
           NEW g \in Goroutine, NEW q, out' = [out EXCEPT ![g] = q],
           g \in Speaker => out[g] = <<>> /\ \A i \in DOMAIN q : q[i].what # "Chat"
    PROVE  Moves
<1>. SUFFICES ASSUME NEW s \in Speaker, NEW a \in Addr
              PROVE  Count(out'[s], a) = Count(out[s], a)
  BY DEF Moves
<1>1. CASE s = g
  <2>1. \A i \in DOMAIN <<>> : <<>>[i].what # "Chat"
    OBVIOUS
  <2>2. Count(<<>>, a) = 0
    BY <2>1, NoLine
  <2>3. Count(q, a) = 0
    BY <1>1, NoLine
  <2>4. out'[s] = q
    BY <1>1 DEF QueuesOK
  <2>. QED
    BY <1>1, <2>2, <2>3, <2>4
<1>2. CASE s # g
  <2>1. out'[s] = out[s]
    BY <1>2 DEF QueuesOK
  <2>. QED
    BY <2>1
<1>. QED
  BY <1>1, <1>2

\* The room as one function of the lines due, and one speaker's new lines in it.
LEMMA DueOf ==
    ASSUME NEW s \in Speaker, NEW lines, Lines(s)' = lines,
           \A t \in Speaker : t # s => Lines(t)' = Lines(t)
    PROVE  [t \in Speaker |-> Lines(t)]'
             = [[t \in Speaker |-> Lines(t)] EXCEPT ![s] = lines]
OBVIOUS

\* A speaker whose queue was empty puts one line into the room, for everybody
\* who is there.
LEMMA SpeakSpeaks ==
    ASSUME TypeOK, QueuesOK, NEW s \in Speaker, out[s] = <<>>, Speak(s),
           DOMAIN clients' = DOMAIN clients
    PROVE  Room!Next
<1>1. DOMAIN clients \subseteq Addr /\ s \in Goroutine
  BY DEF TypeOK, ClientsOK, Speaker, Goroutine
<1>2. PICK order \in InAnyOrder(DOMAIN clients) :
        out' = [out EXCEPT ![s] = [i \in DOMAIN order |-> Line(order[i])]]
  BY DEF Speak, Audience, Queue
<1>3. \A t \in Speaker : t # s => out'[t] = out[t]
  BY <1>2 DEF QueuesOK
<1>4. \A a \in Addr : Count(out'[s], a) = IF a \in DOMAIN clients THEN 1 ELSE 0
  BY <1>1, <1>2, CountOfOrder DEF QueuesOK
<1>5. \A a \in Addr : Count(out[s], a) = 0
  <2>1. \A i \in DOMAIN <<>> : <<>>[i].what # "Chat"
    OBVIOUS
  <2>. QED
    BY <2>1, NoLine
<1>6. CASE DOMAIN clients = {}
  <2>1. Moves
    BY <1>1, <1>3, <1>4, <1>5, <1>6 DEF Moves
  <2>. QED
    BY <2>1, MovesMove DEF Room!Next
<1>7. CASE DOMAIN clients # {}
  <2>. DEFINE line == [a \in Addr |-> IF a \in DOMAIN clients THEN 1 ELSE 0]
  <2>1. Lines(s) = <<>>
    BY <1>5, LinesAre
  <2>2. Lines(s)' = <<line>>
    <3>1. \E a \in Addr : Count(out'[s], a) # 0
      BY <1>1, <1>4, <1>7
    <3>2. Lines(s)' = <<[a \in Addr |-> Count(out'[s], a)]>>
      BY <3>1 DEF Lines, Copy
    <3>3. [a \in Addr |-> Count(out'[s], a)] = line
      BY <1>4
    <3>. QED
      BY <3>2, <3>3
  <2>3. \A t \in Speaker : t # s => Lines(t)' = Lines(t)
    BY <1>3 DEF Lines, Copy
  <2>4. Append(<<>>, line) = <<line>>
    OBVIOUS
  <2>. HIDE DEF line
  <2>5. [t \in Speaker |-> Lines(t)]'
          = [[t \in Speaker |-> Lines(t)] EXCEPT ![s] = <<line>>]
    BY <2>2, <2>3, DueOf
  <2>6. [t \in Speaker |-> Lines(t)]'
          = [[t \in Speaker |-> Lines(t)] EXCEPT ![s] = Append(@, line)]
    BY <2>1, <2>4, <2>5
  <2>7. Room!Speak(s)
    BY <1>7, <2>6 DEF Room!Speak, line
  <2>. QED
    BY <2>7 DEF Room!Next
<1>. QED
  BY <1>6, <1>7

\* A line that is written is heard by whom it is written to; other datagrams
\* move no line.
LEMMA SendHears ==
    ASSUME TypeOK, QueuesOK, NEW s \in Speaker, Send(s)
    PROVE  Room!Next
<1>. DEFINE d == Head(out[s])
            Copies0(a) == Count(out[s], a)
            Copies1(a) == Count(out[s], a)'
<1>1. /\ out[s] # <<>> /\ s \in Goroutine
      /\ out' = [out EXCEPT ![s] = Tail(@)] /\ clients' = clients
      /\ DOMAIN clients \subseteq Addr
  BY DEF Send, Silenced, vars, TypeOK, ClientsOK, Speaker, Goroutine
<1>2. out'[s] = Tail(out[s]) /\ \A t \in Speaker : t # s => out'[t] = out[t]
  BY <1>1 DEF QueuesOK
<1>3. PICK D : out[s] \in Seq(D) /\ D \subseteq Notices \cup Welcomes
  <2>1. CASE out[s] \in Seq(Notices)
    BY <2>1
  <2>2. CASE out[s] \in {<<w>> : w \in Welcomes}
    <3>1. PICK w \in Welcomes : out[s] = <<w>>
      BY <2>2
    <3>2. out[s] \in Seq(Welcomes)
      BY <3>1
    <3>. QED
      BY <3>2
  <2>. QED
    BY <2>1, <2>2 DEF QueuesOK, Speaker
<1>4. \A a : /\ Copies0(a) \in Nat /\ Copies1(a) \in Nat
             /\ Copies0(a) = Copies1(a) + (IF d = Line(a) THEN 1 ELSE 0)
  BY <1>1, <1>2, <1>3, CountOfTail
<1>5. d \in Notices \cup Welcomes
  <2>1. d \in D
    BY <1>1, <1>3
  <2>. QED
    BY <1>3, <2>1
<1>6. CASE \A a \in Addr : d # Line(a)
  <2>1. \A a \in Addr : Copies1(a) = Copies0(a)
    <3>. HIDE DEF Copies0, Copies1, d
    <3>. QED
      BY <1>4, <1>6
  <2>2. Moves
    BY <1>1, <1>2, <2>1 DEF Moves
  <2>. QED
    BY <2>2, MovesMove DEF Room!Next
<1>7. ASSUME NEW a \in Addr, d = Line(a) PROVE Room!Next
  <2>. DEFINE due == [t \in Speaker |-> Lines(t)]
              line == [b \in Addr |-> Copies0(b)]
              rest == [line EXCEPT ![a] = @ - 1]
  <2>1. \A b \in Addr : /\ Copies0(b) \in Nat /\ Copies1(b) \in Nat
                        /\ Copies1(b) = IF b = a THEN Copies0(a) - 1 ELSE Copies0(b)
                        /\ Copies0(a) > 0
    <3>1. \A b \in Addr : d = Line(b) <=> b = a
      BY <1>7, LineIs
    <3>. HIDE DEF Copies0, Copies1, d
    <3>. QED
      BY <1>4, <3>1
  <2>2. due[s] = <<line>>
    <3>1. \E b \in Addr : Count(out[s], b) # 0
      BY <2>1
    <3>. QED
      BY <3>1, LinesAre
  <2>3. rest = [b \in Addr |-> Copies1(b)]
    <3>. HIDE DEF Copies0, Copies1
    <3>. QED
      BY <2>1
  <2>4. Room!Unheard(rest) <=> \E b \in Addr : Copies1(b) # 0
    <3>1. Room!Unheard(rest) <=> \E b \in Addr : rest[b] > 0
      BY DEF Room!Unheard
    <3>2. \A b \in Addr : rest[b] = Copies1(b) /\ Copies1(b) \in Nat
      BY <2>1, <2>3
    <3>. HIDE DEF Copies0, Copies1, rest
    <3>. QED
      BY <3>1, <3>2
  <2>. DEFINE lines == IF Room!Unheard(rest) THEN [<<line>> EXCEPT ![1] = rest]
                       ELSE Room!RemoveAt(<<line>>, 1)
  <2>5. Lines(s)' = lines
    <3>1. CASE Room!Unheard(rest)
      <4>1. Lines(s)' = <<[b \in Addr |-> Copies1(b)]>>
        BY <2>4, <3>1 DEF Lines, Copy
      <4>2. [<<line>> EXCEPT ![1] = rest] = <<rest>>
        <5>. HIDE DEF rest, line
        <5>. QED
          OBVIOUS
      <4>. QED
        BY <2>3, <3>1, <4>1, <4>2
    <3>2. CASE ~Room!Unheard(rest)
      <4>1. Lines(s)' = <<>>
        BY <2>4, <3>2 DEF Lines, Copy
      <4>2. Room!RemoveAt(<<line>>, 1) = <<>>
        <5>. HIDE DEF line
        <5>1. SubSeq(<<line>>, 1, 0) = <<>> /\ SubSeq(<<line>>, 2, 1) = <<>>
              /\ Len(<<line>>) = 1
          OBVIOUS
        <5>. QED
          BY <5>1 DEF Room!RemoveAt
      <4>. QED
        BY <3>2, <4>1, <4>2
    <3>. QED
      BY <3>1, <3>2
  <2>6. \A t \in Speaker : t # s => Lines(t)' = Lines(t)
    BY <1>2 DEF Lines, Copy
  <2>7. due' = [due EXCEPT ![s] = lines]
    <3>. HIDE DEF lines
    <3>. QED
      BY <2>5, <2>6, DueOf
  <2>8. /\ 1 \in 1 .. Len(due[s]) /\ due[s][1] = line
        /\ line[a] > 0 /\ \A m \in 1 .. 1 - 1 : due[s][m][a] = 0
    <3>. HIDE DEF Copies0, due
    <3>. QED
      BY <2>1, <2>2
  <2>9. Room!Hear(s, a)
    <3>. HIDE DEF line, due
    <3>1. due' = [due EXCEPT ![s] =
                    IF Room!Unheard(rest) THEN [@ EXCEPT ![1] = rest]
                    ELSE Room!RemoveAt(@, 1)]
      BY <2>2, <2>7
    <3>. QED
      BY <1>1, <2>8, <3>1 DEF Room!Hear, due
  <2>. QED
    BY <2>9 DEF Room!Next
<1>. QED
  BY <1>6, <1>7

\* Every step of the server is, to the room, a line spoken, a line heard, or
\* people coming and going.
LEMMA RoomStep ==
    ASSUME Base, Base', QueuesOK, [OutNext]_allVars
    PROVE  Room!Next
<1>. USE DEF Base, Typed
<1>1. DOMAIN clients' \subseteq Addr
  BY DEF TypeOK, ClientsOK
<1>2. Moves => Room!Next
  BY MovesMove DEF Room!Next
<1>3. out' = out => Moves
  BY <1>1 DEF Moves
<1>4. "reader" \in Speaker /\ "reader" \in Goroutine /\ "ticker" \in Goroutine
      /\ "ticker" \notin Speaker
      /\ \A r \in Admin : r \in Speaker /\ r \in Goroutine
  BY OutboxAssumption DEF Speaker, Goroutine
<1>5. ASSUME NEW q, out' = [out EXCEPT !["ticker"] = q] PROVE Moves
  BY <1>1, <1>4, <1>5, OthersMove
<1>6. ASSUME NEW d, d.what # "Chat", Queue("reader", <<d>>), rx.pc # "read"
      PROVE  Moves
  <2>1. out["reader"] = <<>> /\ out' = [out EXCEPT !["reader"] = <<d>>]
    BY <1>6 DEF QueuesOK, Queue
  <2>2. \A i \in DOMAIN <<d>> : <<d>>[i].what # "Chat"
    BY <1>6
  <2>. QED
    BY <1>1, <1>4, <2>1, <2>2, OthersMove
<1>7. CASE ((Advance \/ TickFire) /\ Quiet) \/ ReadNext \/ TickNext
  BY <1>2, <1>3, <1>7 DEF ReadNext, TickNext, Quiet, outVars
<1>8. CASE BanNotice
  <2>1. rx.pc # "read" /\ KickNotice(rx.addr).what # "Chat"
    BY <1>8 DEF BanNotice, DropBanned, KickNotice
  <2>. QED
    BY <1>2, <1>3, <1>6, <1>8, <2>1 DEF BanNotice
<1>9. CASE JoinAndWelcome \/ StateAndWelcome
  <2>1. /\ rx.pc # "read"
        /\ Welcome(rx.addr, clients'[rx.addr].id).what # "Chat"
        /\ out' = out \/ Queue("reader", <<Welcome(rx.addr, clients'[rx.addr].id)>>)
    BY <1>9 DEF JoinAndWelcome, StateAndWelcome, Join, State, Applies, Welcome
  <2>. QED
    BY <1>2, <1>3, <1>6, <2>1
<1>10. CASE ChatLine
  <2>1. out["reader"] = <<>>
    BY <1>10 DEF ChatLine, Chat, Applies, QueuesOK
  <2>2. DOMAIN clients' = DOMAIN clients
    BY <1>10 DEF ChatLine, Chat
  <2>3. CASE Speak("reader")
    BY <1>4, <2>1, <2>2, <2>3, SpeakSpeaks
  <2>4. CASE Quiet
    BY <1>2, <1>3, <2>4 DEF Quiet, outVars
  <2>. QED
    BY <1>10, <2>3, <2>4 DEF ChatLine
<1>11. CASE (PassBanCheck \/ DropKicked \/ PassKickCheck \/ Bye) /\ Quiet
  BY <1>2, <1>3, <1>11 DEF Quiet, outVars
<1>12. CASE TickAndSend
  BY <1>2, <1>5, <1>12, TickQueues
<1>13. ASSUME NEW r \in Admin, Obey(r) PROVE Room!Next
  <2>1. out[r] = <<>> /\ KickTold(r)
    BY <1>13 DEF Obey, Silenced
  <2>2. CASE out' = out
    BY <1>2, <1>3, <2>2
  <2>3. ASSUME NEW a, out' = [out EXCEPT ![r] = [i \in 1 .. Copies |-> KickNotice(a)]]
        PROVE  Moves
    <3>1. KickNotice(a).what # "Chat"
      BY DEF KickNotice
    <3>. DEFINE q == [i \in 1 .. Copies |-> KickNotice(a)]
    <3>2. \A i \in DOMAIN q : q[i].what # "Chat"
      BY <3>1
    <3>. HIDE DEF q
    <3>. QED
      BY <1>1, <1>4, <2>1, <2>3, <3>2, OthersMove DEF q
  <2>. QED
    BY <1>2, <2>1, <2>2, <2>3 DEF KickTold, Queue
<1>14. ASSUME NEW r \in Admin, Say(r) PROVE Room!Next
  <2>1. out[r] = <<>> /\ Speak(r) /\ clients' = clients
    BY <1>14 DEF Say, Silenced, vars
  <2>. QED
    BY <1>4, <2>1, SpeakSpeaks
<1>15. ASSUME NEW g \in Goroutine, Send(g) PROVE Room!Next
  <2>1. CASE g = "ticker"
    BY <1>2, <1>5, <1>15, <2>1 DEF Send
  <2>2. CASE g \in Speaker
    BY <1>15, <2>2, SendHears
  <2>. QED
    BY <2>1, <2>2 DEF Goroutine, Speaker
<1>16. CASE UNCHANGED allVars
  BY <1>2, <1>3, <1>16 DEF allVars, outVars
<1>. QED
  BY <1>7, <1>8, <1>9, <1>10, <1>11, <1>12, <1>13, <1>14, <1>15, <1>16
  DEF OutNext, ReaderSends

\* The room is empty and silent at first.
LEMMA RoomInit == OutInit => Room!Init
<1>. SUFFICES ASSUME OutInit PROVE Room!Init
  OBVIOUS
<1>1. DOMAIN clients = {} /\ \A s \in Speaker : out[s] = <<>>
  BY DEF OutInit, Init, Empty, Goroutine, Speaker
<1>2. \A i \in DOMAIN <<>> : <<>>[i].what # "Chat"
  OBVIOUS
<1>3. \A s \in Speaker, a \in Addr : Count(out[s], a) = 0
  BY <1>1, <1>2, NoLine
<1>4. \A s \in Speaker : Lines(s) = <<>>
  BY <1>3, LinesAre
<1>. QED
  BY <1>1, <1>4 DEF Room!Init

\* The safety half of ImplementsRoom: a line goes to everybody who has a session
\* when it is said and to nobody else, once, and each hears the lines of one
\* goroutine in the order they were said; whatever comes, goes, is kicked or
\* reaped while the copies are written, for any numbers of players and admins.
THEOREM RoomIsSafe == OutSpec => Room!Safe
<1>1. Base /\ Base' /\ QueuesOK /\ [OutNext]_allVars => Room!Next
  BY RoomStep
<1>2. OutBase => Base /\ QueuesOK
  BY DEF OutBase
<1>. QED
  BY <1>1, <1>2, RoomInit, OutBaseInvariant, PTL DEF OutSpec, Room!Safe
=============================================================================
