# A specification of rbrmp-server

TLA+ models of the relay server for Richard Burns Rally multiplayer in this
repository, checked with TLC, and theorems about them proved with TLAPS. The
models are written from the Go code under `src/`; documentation and comments
are what the code is compared with.

## 1. The system

One process, `rbrmp-server`, holds a UDP socket for the game and, if a password
is given, a TCP listener for administration. Everything shared is in one
`Server` value under one mutex, `s.mu`.

| goroutine | started by | what it does under `s.mu` |
|---|---|---|
| reader | `Run` | for each datagram: ban check, kick check, the message (up to three separate critical sections), then sends |
| ticker | `tickLoop` | per tick: reap, forget old kicks and notices, pings due, one snapshot per player; sends after unlocking |
| statistics | `statsLoop` | reads the counters |
| one per RCON connection | `ServeRCON` | `players`, `bans`, `status`, `say`, `kick`, `unban`: one critical section each; `ban`: three |

The game clients are not in the repository. `rbrmp-sim` is a fake one for
measurements; `clirbrmp` is the client of the RCON console.

### Components, state, operations

| component | state | operations | correct when |
|---|---|---|---|
| session table and admission (`server.go`) | `clients`, `nextID`, `recentlyKicked`, `lastBanNotice`, `bans`; the datagram in the reader's hands, the tick in the ticker's, the ban in RCON's | `handle` and its messages, `tick`'s reaping and pruning, `Kick`, `Ban`, `Unban` | ids are unique; kicked and banned players stay out; nobody who is alive is dropped; commands hit who they name; everything temporary goes away |
| ban list and its file (`bans.go`) | the map in memory, the file, the temp file of a save | load, `Ban`, `Unban`, each file system call of `save` | the file always parses; an answer OK survives failures and restarts |
| state stream and relay (`state`, `tick`, `Add`, `Latest`) | `lastSeq`, `lastSeen`, the newest sample, what was shown | a State, a Hello, a tick | nobody jumps back; a restarted game is not shut out; the silent vanish |
| history (`history.go`) | the ring of samples | `Add`, `At` | pruning never changes an answer; no index leaves the slice |
| round-trip measurement (`pong`, `tick`) | the four ping fields of a session | ping due, Pong | a stale Pong never makes it too short; a lost one does not end it |
| RCON session and CLI (`rcon.go`, `clirbrmp`) | phase, deadline, the lines in both directions | AUTH, command, response, every way to end | each answer belongs to its command; nobody waits for ever |
| sending and chat (`send`, `Say`, `chat`, `tick`, `Kick`) | what each goroutine has prepared and not yet written | preparing under the lock, writing one datagram after it | a line reaches everybody present once and in order; everybody knows its own id and is never shown itself; who left disappears |
| wire format (`protocol.go`) | none | encode and decode of every message | what is read is what was written; a datagram counts whole or not at all; a text ends in its field |
| server program (`main`, `Run`, `Close`, the loops) | the socket, the listener, `done`, the signal channel, the lock over a save | start, signal, stop, select of the loops | a Ctrl-C ends it; the loops end with `Run`; the exit status is true |
| simulator (`rbrmp-sim`) | the channel of reports, the tickers | receive, send, print | it ends when told to; its summary is true |

### How they interact

The reader, the ticker and RCON share the table through `s.mu` only. Datagrams
to clients are prepared under the lock and sent after it. `save` runs with the
lock held, so a slow disk delays every other goroutine: this is how a tick's
`now`, taken when it fired, and the reader's `now`, taken before the ban check,
become old before they are used. Ping, State and chat all live in the session,
so a session that is dropped and opened again starts all of them anew.

### What is hard here

* check and use in different critical sections (ban check, kick check, message);
* a name resolved twice by one command (`Ban`, then its `Kick`);
* old clock readings used for reaping, pruning and measuring;
* UDP: lost, repeated, late and overtaken datagrams, on a 32-bit sequence that
  wraps and that starts again with the game;
* a file that is replaced while any call may fail and the process may be killed;
* one deadline for the read and the write side of an RCON connection;
* datagrams written after the lock is released, when what they say may be over;
* channels of tickers, signals and reports that fill up, and selects that take
  any case that is ready.

`PROJECT.json` lists these at their lines under "hazards".

## 2. The modules

| module | models | uses |
|---|---|---|
| `Sessions` | session table and admission, all goroutines | |
| `MC_Sessions` | instances of it | `Sessions` |
| `SessionsProofs` | seven theorems | `Sessions`, `TLAPS` |
| `Outbox` | what the goroutines send, composed with `Sessions`; implements `ChatRoom` | `Sessions`, `ChatRoom` |
| `ChatRoom` | what a chat promises: each line to everybody present, once, in each speaker's order | |
| `MC_Outbox` | an instance | `Outbox` |
| `OutboxProofs` | five theorems, the refinement of `Sessions` and of `ChatRoom`'s safety among them | `Outbox`, `SessionsProofs` |
| `BanStore` | what a ban list promises: a list and a copy that is replaced as a whole | |
| `BanList` | list, file, `save` call by call, kills and restarts; implements `BanStore` | `BanStore` |
| `MC_BanList` | an instance, with symmetry | `BanList` |
| `StateRelay` | the State stream of one player and what others see of it | |
| `StateRelayProofs` | three theorems | `StateRelay`, `TLAPS` |
| `PingPong` | the pings of one address | |
| `PingPongProofs` | two theorems | `PingPong`, `TLAPS` |
| `History` | `Add` and `At` against a reference definition | |
| `HistoryProofs` | four theorems | `History`, `TLAPS` |
| `Rcon` | one RCON session, the TCP connection and the CLI | |
| `RconProofs` | two theorems | `Rcon`, `TLAPS` |
| `Wire` | every message in bytes, from a client through the session to another | |
| `MC_Wire` | an instance with fields of a few bytes | `Wire` |
| `WireProofs` | six theorems | `Wire`, `TLAPS` |
| `Lifecycle` | the life of the server program, or of a server in a test | |
| `Simulator` | the life of `rbrmp-sim` | |
| `MC_Programs` | both, each for itself | `Lifecycle`, `Simulator` |
| `ProgramsProofs` | three theorems on the programs, four on the bans file | `MC_Programs`, `BanList`, `TLAPS` |

The components meet in the session: `Sessions` says when one opens and ends
with States reduced to "seen"; `StateRelay`, `PingPong` and `History` take one
session and refine what a State, a tick and a Pong do to it, with `Hello`,
`Tick`, `Join`, `Leave` standing for what `Sessions` does. `BanList` refines
the one atomic step `BanAdd` (and `Unban`) of `Sessions`: the lock is held, so
nobody sees what is in between except the disk. `Outbox` is the composition of
`Sessions` with everything that is sent: each of its steps is a step of
`Sessions` that also queues datagrams, or the writing of one, which
`ImplementsSessions` proves; so what is proved of the table is proved of the
server that sends. `Wire` follows one datagram at a time through decoder,
session and encoder; the orders of datagrams are the matter of the others.

Definitions called `Bug...` are plausible mistakes. No specification uses them;
each is put in place of the definition below it to confirm that a property
would notice.

### Sessions

An action is one critical section plus the local code around it; the reader's
datagram is a record that moves through `rx.pc` = "ban", "kick", "apply"
(`DropBanned`/`PassBanCheck`, `DropKicked`/`PassKickCheck`, then `Join`,
`State`, `Chat` or `Bye`). The ticker has the tick in its channel
(`TickFire`, a full channel drops ticks) and the one in `tick` waiting for the
lock (`TickReceive`, `Tick`). `Ban` is `BanLookup`, `BanReadName` (unlocked),
`BanAdd`, `BanKick`. A map of Go is a partial function; where the code takes
whichever entry the map yields first, the model takes any. The clock is an
integer. A missing entry of `lastBanNotice` reads as the zero time.

Names are model values up to case; a name that is a number is one that equals an
id. A default name contains a space and so can never be the argument of a
command. A Pong does nothing in this module, and junk is dropped after the ban
check.

### BanList

A command changes the map (`Ban`, `Unban`) and then `save` runs: `CreateTemp`,
`WriteTemp`, `CloseTemp`, `Rename`, each of which may be replaced by
`SaveFails`, which removes the temp file and answers with the error while the
map stays changed. `Kill` may come between any two; `LoadBans` is the next
start and needs a file that parses. A ban answered with the error of its own
Kick although it was saved is in `Rename`.

### StateRelay, History, PingPong

`StateRelay` identifies a State by its place in the order of sending, so that
"newer" has a meaning independent of `Seq`; `sent[k].seq` is what the client
wrote on it, modulo `SeqMod`. `Delay` bounds how many later States may overtake
one, and is at most `RestartGap`: beyond it `state()` takes a late State for a
restart by design (at 60 Hz that takes over 16 s). `History` identifies a sample
by its `RecvAt`, unique by `Add`. `PingPong` separates the tick's time from the
time the Ping leaves, and a Pong's arrival from its handling.

### Rcon

A line is its kind. The deadline of the connection is the time left until it:
`readLine` resets it (`Replied`), the clock counts it down, and at 0 both reads
(`Close`) and writes (`Write`, which then loses the line as the code ignores the
error) fail. The CLI's two modes differ in `GoesOn`.

### Outbox and ChatRoom

`out[g]` is what goroutine `g` has prepared and not yet written. An action that
prepares conjoins the action of `Sessions` with its queue: `JoinAndWelcome`,
`StateAndWelcome` (the Welcome of a State that opens a session), `ChatLine`,
`BanNotice`, `TickAndSend`, `Obey` (the copies of a Kick), `Say`. A
range over `s.clients` is any order (`InAnyOrder`); `tick` sorts by id. `Send`
writes one datagram; until its queue is empty a goroutine takes up nothing new.
`ChatRoom` is a room of listeners and, for each speaker, the lines somebody has
still to hear; `Room` maps the sessions to the listeners present and the chat
lines under way to the lines due. All players' lines are the reader's, so the
room promises one order for all of them, and none between a player and an admin.

### Wire

A number, a pose or a telemetry is an opaque value; byte `i` of it is the value
marked with `i`, so that a field read at a wrong place, or halfway, is no value
of anything. Texts are their characters. `Written` and `FieldsRead` are the
layouts the encoders write and the decoders read, each from its own lines of
`protocol.go`, so that they can disagree. A client sends every message whole or
cut at any place (`Sent`), with any bytes in its texts; the server reads it as
`handle` does (`Hello`, `State`, `Pong`, `Chat`, `Bye` or `Drop`) and answers
with Welcome, Ping, Kick, the line of chat or a snapshot of any number of
players, which is sent only if a UDP datagram can hold it; the client again
reads any prefix.

### Lifecycle and Simulator

`go[g]` is where each goroutine is; `main` is also the reader, as `Run` is. The
start fails as `main` does (flags, `New`, the RCON listener); a signal before
`signal.Notify` kills, after it waits in a channel of one. `Close` closes the
socket, the read fails, `Run` returns and closes `done`. A loop whose tick and
`done` are both ready takes either. Only an RCON command keeps `s.mu` over a step,
while it writes the bans file. With the host "test" the same server is used by a
test that calls `New`, `Run`, `Close` and lives on, where what is left running
can be seen. In `Simulator` the receiver puts reports into a channel that the main
loop, between sending and printing, is the only one to empty.

## 3. The runs

| run | instance | checks | shows |
|---|---|---|---|
| `sessions_out` | 1 address; Hello, State, Chat; kick, ban, unban; fairness | `KickedStaysOut`, `BannedStaysOut`, `NoEarlyDrop`, `NoticeSpaced`, `BannedDrains` | what arrives inside a kick's window never registers, and what arrives after a ban keeps no session alive; no tick, however old, drops a session seen within Timeout or makes the ban notices more frequent; a banned player's session ends |
| `sessions_ids` | 2 addresses on one IP; Hello with names, Bye; kick, ban; 3 sessions | `IdsUnique`, `BanByIdKicksItsTarget` | ids are never reused; a ban by id hits its player or nobody |
| `outbox` | 2 addresses, 1 admin; Hello, State, Chat, kick, Say; fairness | `KnowsItsId`, `NotMyself`, `ImplementsRoom`, `NoGhost`, `LeftVanishes` | whatever changes between preparing and writing: nobody is shown itself or somebody who had left when the tick began, everybody knows its id, who left disappears; refinement of `ChatRoom`, with its liveness |
| `bans_file` | 3 IPs, 2 kills | `BansOK`, `FileWhole`, `PromiseKept`, `ImplementsStore` | the file parses after every crash and answers hold; no temp file stays after a failed save; refinement of `BanStore` |
| `relay` | Seq of 3 bits, gap 2, up to 6 States, 2 restarts; fairness | `FreezeBounded`, `NoStepBack`, `SilentVanishes` | no jump back within a run of the game, across wrap and restart; of the last SeqMod States at most RestartGap + 1 that arrive in order are dropped, so a restarted game is shown again; a silent player is no longer shown |
| `history_lookup` | 12 times, window 4, length 4 | `TypeOK`, `LookupExact`, `WindowKept`, `Bounded` | every look-up equals the reference over all samples ever accepted |
| `ping` | clock to 4, ticks up to 1 late; fairness | `NeverTooShort`, `Resent` | no stale or repeated Pong shortens a measurement; a lost ping is followed by another |
| `rcon_answers` | 3 commands, deadline of 2 units; fairness | `AnswersMatch`, `AnswerComes`, `SessionEnds` | answers belong to their commands although a deadline may swallow some; no wait is for ever |
| `wire` | texts of 2 or 3 bytes, a 16-bit number that counts to 2, up to 3 players | `TextsAsGiven`, `SnapshotIsWhole`, `PingNotBelow`, `TextsEnd`, `OnlyWhole` | what another client reads is what was sent, of every message, cut or not; every text ends in its field; a snapshot that is read is whole; a slow player never looks fast |
| `programs` | program and test; `-for` 0 and 1; a channel of 2; fairness | `StatusTrue`, `SummaryTrue`, `StopsWhenAsked`, `LoopsEnd`, `TicksGoOn`, `SimulatorEnds`, `ReceiverGoesOn` | every life of the server and of the simulator ends when it should and tells the truth about it; the ticker is never shut out |

A type invariant is checked by a run where it says more than types (`bans_file`:
the temp file; `history_lookup`: the order of the samples). The others are
theorems (section 4). Two runs switch TLC's deadlock check off because the system
really stops: in `rcon_answers` when both ends are done, in `programs` when the
program has exited.

### Disagreements

What a document or a comment says and the code does not do. Two have a run that
ends in a counterexample; `PROJECT.json` quotes the lines.

| run | property | what happens |
|---|---|---|
| `sessions_ban_target` | `BanKicksItsTarget` | with two players of one name, one is banned and the other kicked |
| `bans_retry` | `DeniedIsGone` | an unban whose save failed cannot be retried: the retry says "not banned" and saves nothing |

The others were found while modelling and have no run:

* `server.go:224`: a datagram past the kick check re-creates the session a Kick
  removed a moment later, inside the 10 s in which `docs/PROTOCOL.md:258-260`
  says its Hello and State are dropped. `KickedStaysOut` speaks of what arrives
  after the kick, which is as much as a check in an earlier critical section can
  give. Bans have the same window between their check and the message (which is
  why `BannedStaysOut` compares times of arrival).
* `server.go:497`: `-stale` is measured from the last sign of life of any kind,
  not from "newest state" as the flag's text says (`cmd/rbrmp-server/main.go:32-33`):
  a player who only chats is shown where it was. What does hold is `SilentVanishes`.
* `rcon.go:46`: a command read late in the idle window is carried out, but the
  deadline also covers the writing of its response: a response then has no
  terminator, which the comment at `rcon.go:12-15` promises. What does hold is
  `AnswersMatch`: no answer is ever taken for another's.
* `server.go:594`: `Ban` reads a player's name without the lock while a Hello may
  assign it, against the comment at 283.
* `history.go:43`: where two States get one reading of the clock, `Add` drops the
  pose of the second although `state` counts it as accepted.

### Bounds, and why they are enough

* The hazards of `Sessions` need one datagram, one tick and one command in
  flight at a time, which is what the code allows per goroutine: one reader, one
  ticker. Two addresses give every way one player can be mistaken for another.
  `MaxSessions` of 2 or 3 gives a session, its replacement and a bystander;
  the clock runs past the end of each interval. The runs differ in `Traffic` and
  `Commands`, so that each has every message that touches what it checks; a Bye
  only makes sessions go sooner and is left to `sessions_ids`.
* `BanList`: one command at a time (the lock), so 3 IPs give the one at hand
  and two others, and 2 kills a crash during the recovery of a crash.
* `StateRelay`: 8 sequence numbers with a gap of 2 keep the order of sizes of
  the code (the gap below half the range); `FirstSeq` starts at the wrap, in the
  middle and at 0; delay 2 is the largest the assumption admits. Two arrivals never share a
  reading of the clock.
* `History`: `MaxAge` and `MaxLen` are such that either limit is reached first
  in some behaviour and both together in others. All sets of times are covered.
* `PingPong`: the clock passes `PingEvery` often enough for two pings whose
  answers are both late.
* `Outbox`: two players and an admin are two receivers for each line and two
  speakers (the reader and the admin); two ids given out and a Kick
  let a session end, and another begin, while datagrams of the first wait.
  Of the admins' commands this run has Say and Kick: Ban and Unban send nothing but
  the Kick that ends a Ban, are checked in `sessions_out` and are in the theorems of
  `OutboxProofs`.
* `Wire`: a name has three bytes, a text and a reason two, the NUL that ends
  a text included, so that texts can be empty, short, just fit, be too long, and have a
  NUL inside or none; a datagram holds two entities and a third does not fit,
  the largest 16-bit number is 2, and a round trip of 3 exceeds it.
* `Lifecycle` has no bound. `Simulator`: the clock passes `-for`, and a channel of
  2 fills.
* `Rcon`: 3 commands suffice for an answer to be attributed to the one before or
  after; the deadline is a countdown, so there is no bound on the time.

### Fairness

The clock advances. Every goroutine that can take a step does in the end (Go
schedules preemptively, and `sync.Mutex` does not starve). The ticker fires.
Never assumed: that a datagram arrives, that a client answers, or that an admin
types. A goroutine that waits for the lock while others take it again and again,
and a case of a select that is ready again and again, get their turn: strong
fairness in `Lifecycle` and `Simulator`, because `sync.Mutex` hands the lock to who
has waited a millisecond and `select` picks among the ready cases at random.
What a goroutine has prepared it writes (`WriteToUDP` does not block). In `Rcon` the CLI reads what has arrived. Where the clock is bounded, a
liveness property speaks only of deadlines before the bound.

## 4. The proofs

All theorems hold for every value of the constants that satisfies the named
assumptions of their module.

**`SessionsProofs`.** `TypeOK` needs `IdsLeft`: a datagram that may open a session
was let in only while an id was left (the bound of the model). `TimesPast`, that
no goroutine and no table holds a time yet to come, is the base of all the
rest. Then

* `KickedStaysOutAlways`: `KickedStaysOut` is not inductive, because `Join`
  stamps the session with a time read before the check. `PastKickCheck` adds
  what the check leaves behind: a datagram past it, whose address is in the
  table of kicks, arrived before that kick or after its window.
* `BannedStaysOutAlways`: likewise with `PastBanCheck`.
* `IdsUniqueAlways`: every id in the table is below `nextID` (in `TypeOK`).
* `BanByIdKicksItsTargetAlways`: `BanRemembers` says the id that a ban in
  progress holds is below `nextID` and belongs to the address it found or to
  nobody. It assumes that no name is a number, and is false without it.
* `NoEarlyDropAlways`: `TimesPast` bounds the tick's old time by the clock.
* `NoticeSpacedAlways`: `NoticeInv` relates the table, which ticks prune, to
  the history variable, which nothing prunes.

**`StateRelayProofs`.** `NoStepBackAlways` rests on `RelayInv`: of one run, the
numbers of two States at most `RestartGap` apart differ by as much, modulo the
range of `Seq` (`SeqsInOrder`); the State to be sent next continues them
(`NextInOrder`), no State is of a run that has not begun (`RunsBegun`, or a
restart would break `NextInOrder`), and `lastSeq` is the number of the sample
held (`Held`). A State older than that sample is then at most `Delay` behind it,
and `OlderIsDropped` computes what `state()` makes of it: neither newer nor a
restart. The assumptions are `Delay <= RestartGap` and
`2 * RestartGap < SeqMod`; that `Add` never refuses what `state()` accepted
(`Arrival`) rests on the clock telling arrivals apart. `FreezeBoundedAlways` counts:
the States dropped since one was accepted would all be dropped again
(an invariant, as `lastSeq` stands still), so their numbers lie in the
`RestartGap + 1` numbers up to `lastSeq`; and of `SeqMod` States in a row no
two have one number.

**`PingPongProofs`.** `NeverTooShortAlways` rests on `TokenInv`: a token is the
time of its tick, the Ping left at that time or later, and what is outstanding is
the ping of `pingToken`. The assumption is that the server is up for less than
the 2^32 ms after which tokens repeat.

**`OutboxProofs`.** `ImplementsSessions`: every step of `Outbox` is, to the session
table, a step of `Sessions` or a stutter, so that `IdsUniqueAlways` and the types
carry over (`OutBase`, with `QueuesOK`: who writes what kinds of datagrams, and
that the reader takes up nothing before it has written). `NotMyselfAlways` needs
the same of the snapshots that wait, and that all ids in them have been given out,
so that who comes in later is not among them (`ShownInv`). `KnowsItsIdAlways`
needs that the Welcome in the reader's queue is not about a session that is over
unless its address has none (`WelcomeInv`). `NoGhostAlways` is a statement about
one step: a tick reaps before it prepares. The assumptions: finitely many
addresses, and admins that are not called "reader" or "ticker". `RoomIsSafe` is the
safety half of `ImplementsRoom`: what is due to a listener is the number of copies in its
speaker's queue, whatever order the loop over the sessions took (it lists each
listener once), and `Send` takes the first.

**`RconProofs`.** `AnswersMatchAlways` rests on `Together`, which says where the two
programs can be at the same time: the CLI at its prompt only when nothing is under
way in either direction; waiting, when its command is on its way, or runs, or is
answered. In the last case (`Answering`) the rows already read, the lines in the
pipe and those not yet written are the response with at most one part missing
between the pipe and the rest, and none while there is time left: the deadline
can only swallow the end of what is written, so the terminator the CLI sees is of
the command it asked for.

**`HistoryProofs`.** The samples held are the newest accepted and in order
(`NewestHeld`); those too old are a prefix (`TooOldAreFirst`, by counting), so that
`Surplus` leaves one of them, or `MaxLen` samples (`SurplusFits`). `Window` adds
what `WindowKept` needs: nothing was ever dropped, or a sample older than the
window is held, or the history is full. `LookupExactAlways` is about the binary
search, a recursive function: that there is such a function (its interval
shrinks), and that what it finds is the first sample after the time, by the
least-number principle on the length of the interval.

**`ProgramsProofs`.** `StatusTrueAlways`: where `main` is tells whether anything has
failed (`MainOK`), and its exit status keeps it. `SummaryTrueAlways`: a snapshot is
in the receiver's hand, in the channel, or counted. No assumptions but those on
the constants. The same module has the theorems on `BanList`:
`FileAlwaysWhole` follows from what `BansOK` says of the temp
file (whole from the write to the rename). `PromiseAlwaysKept` needs to know that
during a save only the entry of the command at hand differs from the file as far
as promises go. `StoreRefinement` maps `list` to the map in memory, or to the file
while the server is down, and `copy` to the file; only the commands, `Rename` and
`Kill` are steps of `BanStore`, the rest stutter.

**`WireProofs`.** Encoders and decoders recur over the fields of a layout and over the
entities of a snapshot. `Induction` and `Recursion` (from the least-number principle)
show that such functions exist and what they compute: `RecordIs` says where each field
of a record lies, `ReadRecordIs` that a reader without an error has read each field from
its place, within the bytes there are. `MessageArrives` joins the two: whatever prefix of
a message is decoded without an error is the whole of it, and each field is what its bytes
say. `SnapshotGot` does so for snapshots; there `CountFits` is needed, that a count which
wraps is of a datagram too long to send (`CountAssumption`). `TextPadded` says what is left
of a text on its way through a field, twice for a text from another client. `Inv` holds the
rest: a datagram to the server is a prefix of what the client meant (`IsSent`), one to
the client is encoded from the session as it is now (`IsSending`), the session is
what was asked for and one sample (`IsPlayer`), and what the client saw is `Right`.
The five properties of the run follow. Assumed are positive field sizes, a NUL that is no
letter, and a default name that has no NUL and fits.

**Only model-checked.** Liveness, all of it, with the liveness half of
`ImplementsRoom`: fairness and `ENABLED` are out of the prover's reach. Every
invariant and every action property that a passing run checks is a theorem.

## 5. Not modelled, and why

* What a car does: poses, telemetry, interpolation (`lerpSample`,
  `orthonormalize`), the geometry and the averages of the simulator. TLC and TLAPS
  have no floats, and nothing but the display depends on the values.
* Byte order and the bits of a float in `protocol.go`: `Wire` checks places and
  lengths, the values are opaque.
* The text of messages, logs and the RCON payload. The accept loop of RCON is in
  `Lifecycle`; of its sessions one at a time is modelled in `Rcon`, two admins in
  `Sessions`.
* The traffic counters: every critical section adds to them, and only the
  statistics and `status` read them.
* Wrap of `nextID` (2^32 registrations) and of `uptimeMs` (49 days).
* Loss of data the operating system had not yet written: `save` does not sync.
* What a game client does with what it is sent: it is not in the repository.
* UDP between `Outbox` and a client: what is lost or overtaken there is in
  `StateRelay` and `PingPong`, whose messages are meant to survive it; a Welcome, a
  line of chat or a Kick (but for its three copies) is not repeated by the code.
* `At` is modelled although the server itself calls only `Add`, `Len` and
  `Latest`.

## 6. Plan

Done, in this order: `Sessions`, `BanList` over `BanStore`, `StateRelay`,
`PingPong`, `History`, `Rcon`, `Wire`, `Outbox` over `Sessions` and `ChatRoom`,
`Lifecycle`, `Simulator`; and the theorems of eight modules. What could follow is an
abstract `Membership` (a player is out, in, or barred until a time) that
`Sessions` implements but for the races under "Disagreements".
