-------------------------------- MODULE Wire --------------------------------
(***************************************************************************)
(* The wire format (internal/protocol/protocol.go), on the way of a        *)
(* player's data from its datagrams through the session into the datagrams *)
(* of the others (handle, tick, chat of internal/server/server.go).  One   *)
(* datagram is on its way at a time: orders are the matter of Sessions,    *)
(* StateRelay and Outbox.                                                  *)
(*                                                                         *)
(* A datagram is a sequence of bytes.  A number, a transform or a          *)
(* telemetry is opaque: byte i of it is its value marked with i, so that   *)
(* what is read at a wrong place is no value at all.  The bytes of a text  *)
(* are its characters.  The game client is not Go: it may fill a text      *)
(* field with any bytes, with a NUL among them or not.  Who has a session  *)
(* is Sessions; here is one player, and somebody who watches it.           *)
(***************************************************************************)
EXTENDS Integers, Sequences, SequencesExt

CONSTANTS
    SizeOf,         \* the bytes of each kind of field
    U16,            \* 2^16
    MaxDatagram,    \* what is longer does not fit into a UDP datagram
    Letter, NUL,    \* characters
    DefaultName,    \* "Player 1"
    Sample,         \* the moments of which the player sends a State
    Rtt,            \* the round trips that may be measured, in ms
    MaxPlayers      \* bound: entities of a snapshot

Text == {"name", "text", "reason"}
Opaque == {"u16", "u32", "transform", "telemetry"}

HeaderSize == SizeOf["u32"] + 2 * SizeOf["u16"]
EntitySize == 2 * SizeOf["u32"] + 4 * SizeOf["u16"] + 2 * SizeOf["name"]
              + SizeOf["transform"] + SizeOf["telemetry"]
SnapshotSize(n) ==
    HeaderSize + 2 * SizeOf["u32"] + 2 * SizeOf["u16"] + n * EntitySize

ASSUME SizeAssumption ==
    /\ SizeOf \in [Text \cup Opaque -> Nat \ {0}]
    /\ NUL \notin Letter
    /\ DefaultName \in Seq(Range(DefaultName) \ {NUL})
    /\ Len(DefaultName) \in 1 .. SizeOf["name"] - 1
    /\ U16 \in Nat \ {0} /\ MaxDatagram \in Nat /\ MaxPlayers \in Nat
    /\ Rtt \subseteq Nat

\* A snapshot of 2^16 entities is longer than a datagram can be.
ASSUME CountAssumption == SnapshotSize(U16) > MaxDatagram

VARIABLES
    up,         \* the datagram on its way to the server, or none
    player,     \* the session of the player, or none
    down,       \* the datagram on its way to the client, or none
    seen,       \* what the client decoded just now, or nothing
    asked       \* history variable: the bytes of the last name, unless empty,
                \* and of the last car this session asked for

vars == <<up, player, down, seen, asked>>

None == [on |-> FALSE]

-----------------------------------------------------------------------------
(* Fields *)

Num(what, n) == <<what, n>>
Bytes(v, size) == [i \in 1 .. size |-> <<v, i>>]

\* writer.name, chatText and EncodeKick: copy into NULs, the last one stays.
BugNoNul(s, size) == [i \in 1 .. size |-> IF i <= Len(s) THEN s[i] ELSE NUL]
Padded(s, size) ==
    [i \in 1 .. size |-> IF i <= Len(s) /\ i < size THEN s[i] ELSE NUL]

\* reader.name, chatText and DecodeKick: up to the first NUL, if there is one.
CString(raw) == LET n == SelectInSeq(raw, LAMBDA c : c = NUL)
                IN  IF n = 0 THEN raw ELSE SubSeq(raw, 1, n - 1)

F(name, kind) == [name |-> name, kind |-> kind]

\* The struct m with its field set to v.
Put(m, name, v) == [x \in DOMAIN m \cup {name} |-> IF x = name THEN v ELSE m[x]]

-----------------------------------------------------------------------------
(* Layouts: the fields of each message, as written and as read *)

Transform == F("Transform", "transform")
Telemetry == F("Telemetry", "telemetry")
Padding == F("Padding", "u16")

Written ==
    [Hello    |-> <<F("Name", "name"), F("Car", "name")>>,
     Welcome  |-> <<F("PlayerID", "u32"), F("TickRateHz", "u16"),
                    F("EchoDelayMs", "u16"), F("ServerTimeMs", "u32")>>,
     State    |-> <<F("PlayerID", "u32"), F("Seq", "u32"),
                    F("ClientTimeMs", "u32"), Transform, Telemetry>>,
     Snapshot |-> <<F("ServerTimeMs", "u32"), F("LastClientTimeMs", "u32"),
                    F("Count", "u16"), F("SelfPingMs", "u16")>>,
     Bye      |-> <<>>,
     Chat     |-> <<F("PlayerID", "u32"), F("Name", "name"), F("Text", "text")>>,
     Ping     |-> <<F("Token", "u32")>>,
     Pong     |-> <<F("Token", "u32")>>,
     Kick     |-> <<F("Reason", "reason")>>]

EntityWritten ==
    <<F("ID", "u32"), F("Flags", "u16"), Padding, F("Name", "name"), F("Car", "name"),
      Transform, Telemetry, F("SampleTimeMs", "u32"), F("PingMs", "u16"), Padding>>

WelcomeRead == <<F("PlayerID", "u32"), F("TickRateHz", "u16"),
                 F("EchoDelayMs", "u16"), F("ServerTimeMs", "u32")>>

FieldsRead ==
    [Hello    |-> <<F("Name", "name"), F("Car", "name")>>,
     Welcome  |-> WelcomeRead,
     State    |-> <<F("PlayerID", "u32"), F("Seq", "u32"),
                    F("ClientTimeMs", "u32"), Transform, Telemetry>>,
     Snapshot |-> <<F("ServerTimeMs", "u32"), F("LastClientTimeMs", "u32"),
                    F("Count", "u16"), F("SelfPingMs", "u16")>>,
     Bye      |-> <<>>,
     Chat     |-> <<F("PlayerID", "u32"), F("Name", "name"), F("Text", "text")>>,
     Ping     |-> <<F("Token", "u32")>>,
     Pong     |-> <<F("Token", "u32")>>,
     Kick     |-> <<F("Reason", "reason")>>]

BugSwapped == SubSeq(EntityWritten, 1, 5) \o <<EntityWritten[7], EntityWritten[6]>>
              \o SubSeq(EntityWritten, 8, 10)
EntityRead ==
    <<F("ID", "u32"), F("Flags", "u16"), Padding, F("Name", "name"), F("Car", "name"),
      Transform, Telemetry, F("SampleTimeMs", "u32"), F("PingMs", "u16"), Padding>>

-----------------------------------------------------------------------------
(* Encoding *)

Encoded(m, f) ==
    IF f.kind \in Text THEN Padded(m[f.name], SizeOf[f.kind])
    ELSE Bytes(IF f.name = "Padding" THEN Num("Padding", 0) ELSE m[f.name],
               SizeOf[f.kind])

Record(m, layout) ==
    LET written[k \in 0 .. Len(layout)] ==
            IF k = 0 THEN <<>> ELSE written[k - 1] \o Encoded(m, layout[k])
    IN  written[Len(layout)]

Header(version, type) ==
    Bytes(Num("Magic", 0), SizeOf["u32"]) \o Bytes(Num("Version", version), SizeOf["u16"])
    \o Bytes(Num(type, 0), SizeOf["u16"])

Encode(type, m) == Header(3, type) \o Record(m, Written[type])

EncodeSnapshot(m, entities) ==
    LET head == Encode("Snapshot", Put(m, "Count", Num("Count", Len(entities) % U16)))
        written[k \in 0 .. Len(entities)] ==
            IF k = 0 THEN head
            ELSE written[k - 1] \o Record(entities[k], EntityWritten)
    IN  written[Len(entities)]

-----------------------------------------------------------------------------
(* Decoding *)

\* reader: the bytes, how many were read, whether they ran out, what was read.
Reader(b, i) == [b |-> b, i |-> i, err |-> FALSE, m |-> <<>>]

BugNeed(r, n) == Len(r.b) - r.i >= n - 1
Need(r, n) == Len(r.b) - r.i >= n

\* A value is what all of its bytes say; any other bytes are no value.
Value(raw) ==
    IF raw = Bytes(raw[1][1], Len(raw)) THEN raw[1][1] ELSE Num("garbage", 0)

ReadField(r, f) ==
    LET n == SizeOf[f.kind]
        raw == [j \in 1 .. n |-> IF r.i + j <= Len(r.b) THEN r.b[r.i + j]
                                 ELSE Bytes(Num("beyond", 0), 1)[1]]
    IN  IF r.err \/ ~Need(r, n) THEN [r EXCEPT !.err = TRUE]
        ELSE [r EXCEPT !.i = @ + n,
                       !.m = Put(@, f.name, IF f.kind \in Text THEN CString(raw)
                                            ELSE Value(raw))]

ReadRecord(r, layout) ==
    LET read[k \in 0 .. Len(layout)] ==
            IF k = 0 THEN r ELSE ReadField(read[k - 1], layout[k])
    IN  read[Len(layout)]

Refused == [ok |-> FALSE]
Result(r, entities) ==
    IF r.err THEN Refused ELSE [ok |-> TRUE, m |-> r.m, entities |-> entities]

\* ParseHeader, and what it says the datagram is.
HeaderOK(b) ==
    /\ Len(b) >= HeaderSize
    /\ SubSeq(b, 1, HeaderSize - SizeOf["u16"])
          = SubSeq(Header(3, "Bye"), 1, HeaderSize - SizeOf["u16"])
TypeOf(b) == b[HeaderSize][1][1]

Decode(b) == Result(ReadRecord(Reader(b, HeaderSize), FieldsRead[TypeOf(b)]), <<>>)

ReadEntity(r) ==
    LET e == ReadRecord([r EXCEPT !.m = <<>>], EntityRead)
    IN  [e EXCEPT !.m = Append(r.m, e.m)]

\* DecodeSnapshot: as many entities as the count says; one that is not there
\* makes it an error.
DecodeSnapshot(b) ==
    LET head == ReadRecord(Reader(b, HeaderSize), FieldsRead.Snapshot)
        count == head.m.Count[2]
        read[k \in 0 .. count] ==
            IF k = 0 THEN [head EXCEPT !.m = <<>>] ELSE ReadEntity(read[k - 1])
    IN  IF head.err THEN Refused
        ELSE Result([read[count] EXCEPT !.m = head.m], read[count].m)

-----------------------------------------------------------------------------
(* The client *)

\* The bytes a client may put into a text field.
Raw(kind) == [1 .. SizeOf[kind] -> Letter \cup {NUL}]

NoText == [name |-> <<>>, car |-> <<>>, text |-> <<>>]

\* Any prefix of a datagram may be what is sent, or what fits a buffer.
Sent(b, raw) ==
    \E n \in 0 .. Len(b) :
        up' = [on |-> TRUE, b |-> SubSeq(b, 1, n), whole |-> n = Len(b), raw |-> raw]

SendHello ==
    \E name \in Raw("name"), car \in Raw("name") :
        Sent(Header(3, "Hello") \o name \o car,
             [NoText EXCEPT !.name = name, !.car = car])

SendState ==
    \E s \in Sample :
        Sent(Encode("State", [PlayerID |-> Num("id", 1), Seq |-> Num("seq", s),
                              ClientTimeMs |-> Num("time", s),
                              Transform |-> Num("transform", s),
                              Telemetry |-> Num("telemetry", s)]), NoText)

\* A client signs its line with whatever id and name it likes.
SendChat ==
    \E text \in Raw("text") :
        Sent(Header(3, "Chat") \o Bytes(Num("id", 7), SizeOf["u32"])
                \o [i \in 1 .. SizeOf["name"] |-> NUL] \o text,
             [NoText EXCEPT !.text = text])

SendPong == Sent(Encode("Pong", [Token |-> Num("token", 0)]), NoText)
SendBye == Sent(Encode("Bye", <<>>), NoText)

\* Another version, a type nobody handles, a message meant for clients.
SendStray ==
    \E b \in {Header(2, "Bye"), Header(3, "Other"), Encode("Kick", [Reason |-> <<>>])} :
        up' = [on |-> TRUE, b |-> b, whole |-> FALSE, raw |-> NoText]

ClientSends ==
    /\ ~up.on /\ ~down.on
    /\ \/ SendHello \/ SendState \/ SendChat \/ SendPong \/ SendBye \/ SendStray
    /\ seen' = None
    /\ UNCHANGED <<player, down, asked>>

\* Of what it can read, the client takes notice.
Receive ==
    /\ down.on
    /\ \E n \in 0 .. Len(down.b) :
        LET b == SubSeq(down.b, 1, n)
            d == IF ~HeaderOK(b) THEN Refused
                 ELSE IF TypeOf(b) = "Snapshot" THEN DecodeSnapshot(b) ELSE Decode(b)
        IN  seen' = IF d.ok THEN [on |-> TRUE, type |-> TypeOf(b), m |-> d.m,
                                  entities |-> d.entities, whole |-> n = Len(down.b),
                                  of |-> down.of]
                    ELSE None
    /\ down' = None
    /\ UNCHANGED <<up, player, asked>>

-----------------------------------------------------------------------------
(* The server *)

Handled == {"Hello", "State", "Pong", "Chat", "Bye"}
Accepts(type) == up.on /\ HeaderOK(up.b) /\ TypeOf(up.b) = type /\ Decode(up.b).ok
Got == Decode(up.b).m

\* send: what does not fit into a datagram is not sent.
Out(b, of) ==
    down' = IF Len(b) > MaxDatagram THEN None ELSE [on |-> TRUE, b |-> b, of |-> of]

Welcome == Encode("Welcome", [PlayerID |-> Num("id", 1), TickRateHz |-> Num("hz", 0),
                              EchoDelayMs |-> Num("echo", 0),
                              ServerTimeMs |-> Num("uptime", 0)])

BugWraps(ms) == ms % U16
ClampPing(ms) == IF ms > U16 - 1 THEN U16 - 1 ELSE ms

NoSample == [time |-> Num("time", 0)]

\* clientLocked.
Client(name) ==
    IF player.on THEN player
    ELSE [on |-> TRUE, name |-> IF name = <<>> THEN DefaultName ELSE name,
          car |-> <<>>, sample |-> NoSample, rtt |-> 0]
NewlyAsked == IF player.on THEN asked ELSE NoText

Drop ==
    /\ up.on /\ ~\E type \in Handled : Accepts(type)
    /\ up' = None
    /\ UNCHANGED <<player, down, seen, asked>>

Hello ==
    /\ Accepts("Hello")
    /\ player' = [Client(Got.Name) EXCEPT !.name = IF Got.Name = <<>> THEN @ ELSE Got.Name,
                                          !.car = Got.Car]
    /\ asked' = [NewlyAsked EXCEPT
                    !.name = IF up.raw.name[1] = NUL THEN @ ELSE up.raw.name,
                    !.car = up.raw.car]
    /\ Out(Welcome, <<>>)
    /\ up' = None /\ UNCHANGED seen

State ==
    /\ Accepts("State")
    /\ player' = [Client(<<>>) EXCEPT !.sample =
                     [time |-> Got.ClientTimeMs, transform |-> Got.Transform,
                      telemetry |-> Got.Telemetry]]
    /\ asked' = NewlyAsked
    /\ IF player.on THEN UNCHANGED down ELSE Out(Welcome, <<>>)
    /\ up' = None /\ UNCHANGED seen

Pong ==
    /\ Accepts("Pong")
    /\ \E rtt \in Rtt :
        player' = IF player.on /\ Got.Token = Num("token", 0)
                  THEN [player EXCEPT !.rtt = rtt] ELSE player
    /\ up' = None /\ UNCHANGED <<down, seen, asked>>

\* The line goes out as its author's, under the name of the session.
BugClaimed(m) == m.PlayerID
Author(m) == Num("id", 1)
Chat ==
    /\ Accepts("Chat")
    /\ IF player.on /\ Got.Text # <<>>
       THEN Out(Encode("Chat", [PlayerID |-> Author(Got), Name |-> player.name,
                                Text |-> Got.Text]), up.raw.text)
       ELSE UNCHANGED down
    /\ up' = None /\ UNCHANGED <<player, seen, asked>>

Bye ==
    /\ Accepts("Bye")
    /\ player' = None /\ asked' = NoText
    /\ up' = None /\ UNCHANGED <<down, seen>>

Handle == Drop \/ Hello \/ State \/ Pong \/ Chat \/ Bye

Entity(k) ==
    [ID |-> Num("id", k), Flags |-> Num("flags", 0), Name |-> player.name,
     Car |-> player.car, Transform |-> player.sample.transform,
     Telemetry |-> player.sample.telemetry, SampleTimeMs |-> player.sample.time,
     PingMs |-> Num("ping", ClampPing(player.rtt))]

\* A tick's snapshot to somebody who is shown n players, all of them like this
\* one; a player without a sample is not shown.
SendSnapshot ==
    \E n \in 0 .. MaxPlayers :
        /\ n > 0 => player.on /\ player.sample # NoSample
        /\ Out(EncodeSnapshot([ServerTimeMs |-> Num("uptime", 0),
                               LastClientTimeMs |-> Num("time", 0),
                               SelfPingMs |-> Num("ping", 0)],
                              [k \in 1 .. n |-> Entity(k)]), n)

SendPing == player.on /\ Out(Encode("Ping", [Token |-> Num("token", 0)]), <<>>)

Tick ==
    /\ ~up.on /\ ~down.on
    /\ SendSnapshot \/ SendPing
    /\ seen' = None
    /\ UNCHANGED <<up, player, asked>>

\* A reason comes from an admin or from the bans file, and may be of any length;
\* an empty one is replaced.
Kick ==
    /\ ~up.on /\ ~down.on /\ player.on
    /\ \E n \in 1 .. SizeOf["reason"] + 1 : \E reason \in [1 .. n -> Letter] :
        Out(Encode("Kick", [Reason |-> reason]), reason)
    /\ player' = None /\ asked' = NoText /\ seen' = None
    /\ UNCHANGED up

-----------------------------------------------------------------------------
(* The specification *)

Init ==
    /\ up = None /\ player = None /\ down = None /\ seen = None
    /\ asked = NoText

Next == ClientSends \/ Handle \/ Tick \/ Kick \/ Receive

Spec == Init /\ [][Next]_vars

-----------------------------------------------------------------------------
(* Properties *)

\* Nothing but a whole datagram of this version changes a session, and of a
\* datagram that is cut short a client takes no notice.
OnlyWhole ==
    [][/\ player' # player /\ up.on => up.whole
       /\ seen' # seen /\ seen'.on => seen'.whole]_vars

\* What is left of raw bytes in a text: those before the first NUL, and one
\* less than there is room for.
Shows(shown, raw, kind) ==
    \E k \in 0 .. Len(raw) :
        /\ shown = SubSeq(raw, 1, k) /\ NUL \notin Range(shown)
        /\ k < SizeOf[kind]
        /\ (k \in {Len(raw), SizeOf[kind] - 1} \/ raw[k + 1] = NUL)

\* Everybody sees the name and the car the player asked for last, in the
\* snapshots as in the chat, each line of chat as it was typed and the reason
\* of a kick as it was given, as far as they fit, whether or not the client
\* ended its texts; and nobody sees a name the player has not.
TextsAsGiven ==
    LET isName(s) == IF asked.name = <<>> THEN s = DefaultName
                     ELSE Shows(s, asked.name, "name")
    IN  seen.on =>
        /\ seen.type = "Snapshot" =>
              \A e \in Range(seen.entities) :
                  isName(e.Name) /\ (asked.car # <<>> => Shows(e.Car, asked.car, "name"))
        /\ seen.type = "Chat" =>
              /\ seen.m.PlayerID = Num("id", 1) /\ isName(seen.m.Name)
              /\ Shows(seen.m.Text, seen.of, "text")
        /\ seen.type = "Kick" => Shows(seen.m.Reason, seen.of, "reason")

\* A snapshot that can be read tells as many players as there are, each with an
\* id of its own and with one sample the player has sent: never a pose, a
\* telemetry and a time that do not belong together.
SnapshotIsWhole ==
    seen.on /\ seen.type = "Snapshot" =>
        /\ Len(seen.entities) = seen.of
        /\ \A k \in 1 .. Len(seen.entities) :
              /\ seen.entities[k].ID = Num("id", k)
              /\ \E s \in Sample :
                    /\ seen.entities[k].Transform = Num("transform", s)
                    /\ seen.entities[k].Telemetry = Num("telemetry", s)
                    /\ seen.entities[k].SampleTimeMs = Num("time", s)

\* A round trip that does not fit is shown as the longest there is: no slow
\* player ever looks like a fast one.
PingNotBelow ==
    seen.on /\ seen.type = "Snapshot" =>
        \A e \in Range(seen.entities) :
            /\ e.PingMs[1] = "ping"
            /\ \/ e.PingMs[2] = player.rtt
               \/ (e.PingMs[2] = U16 - 1 /\ e.PingMs[2] < player.rtt)

\* The bytes of the first k fields.
EndOf(layout, k) ==
    LET end[n \in 0 .. Len(layout)] ==
            IF n = 0 THEN 0 ELSE end[n - 1] + SizeOf[layout[n].kind]
    IN  end[k]

\* A client that is not Go need not count: every text the server sends, also
\* those of the entities of a snapshot, ends with a NUL inside its field.
TextsEnd ==
    down.on =>
        LET type == TypeOf(down.b)
            layout == Written[type]
        IN  /\ \A k \in 1 .. Len(layout) :
                  layout[k].kind \in Text => down.b[HeaderSize + EndOf(layout, k)] = NUL
            /\ type = "Snapshot" =>
                  \A j \in 1 .. down.of, k \in 1 .. Len(EntityWritten) :
                     EntityWritten[k].kind \in Text =>
                        down.b[SnapshotSize(j - 1) + EndOf(EntityWritten, k)] = NUL
=============================================================================
