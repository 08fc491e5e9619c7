-------------------------------- MODULE Rcon --------------------------------
(***************************************************************************)
(* The admin console: one session of the server (rconSession and           *)
(* rconCommand of internal/server/rcon.go) and the CLI at its other end    *)
(* (cmd/clirbrmp/main.go), with the two directions of the TCP connection   *)
(* between them.  TCP delivers in order and after any delay.               *)
(*                                                                         *)
(* A line is its kind: what the server answers to it and what the CLI does *)
(* with it.  What the commands do is Sessions and BanList; here a command  *)
(* takes time (it waits for the server's lock and perhaps for the disk)    *)
(* and has an outcome.                                                     *)
(*                                                                         *)
(* readLine sets the deadline of the connection, for reads and writes      *)
(* alike; "left" is the time until it.                                     *)
(***************************************************************************)
EXTENDS Naturals, Sequences, SequencesExt

CONSTANTS
    Idle,           \* rconIdleTimeout
    MaxRows,        \* bound: payload lines of a response
    MaxCommands     \* bound: commands the admin gives in one session

ASSUME RconAssumption == Idle \in Nat \ {0} /\ MaxRows \in Nat /\ MaxCommands \in Nat

VARIABLES
    srv,    \* the session: where it is, the time left, the lines of the
            \* response not yet written, and what comes after the response
    cli,    \* where the CLI is, its mode, and the payload lines it has read
    up,     \* the lines on their way to the server
    down,   \* the lines on their way to the CLI
    ran,    \* history variable: the outcome of each line handled after AUTH
    told    \* history variable: what the CLI concluded of each command

vars == <<srv, cli, up, down, ran, told>>

Outcome(rows, end) == [rows |-> rows, end |-> end]

\* Kinds of lines.  "other quit" is QUIT or quit with arguments: a quit to
\* rconCommand and not to rconSession.  "long" exceeds rconMaxLine.
Outcomes(line) ==
    CASE line = "players, bans, status" -> {Outcome(n, "OK") : n \in 0 .. MaxRows}
      [] line = "kick, ban, unban"      -> {Outcome(0, "OK"), Outcome(0, "ERR")}
      [] line = "unknown, usage"        -> {Outcome(0, "ERR")}
      [] OTHER                          -> {Outcome(0, "OK")}

Command == {"players, bans, status", "kick, ban, unban", "unknown, usage",
            "say", "other quit", "quit", "blank", "long"}

-----------------------------------------------------------------------------
(* The session of the server *)

Expired == srv.left = 0

BugAnswersTwice(o) == [i \in 1 .. o.rows |-> "row"] \o
                      (IF o.end = "ERR" THEN <<"ERR", "OK">> ELSE <<"OK">>)
Response(o) == [i \in 1 .. o.rows |-> "row"] \o <<o.end>>

BugNoReadDeadline == up # <<>> /\ Head(up) = "long"
ReadFails == Expired \/ (up # <<>> /\ Head(up) = "long")

Reading == srv.phase \in {"auth", "read"}

\* readLine fails: the deadline passed, the line is too long, or the CLI has
\* closed the connection.
Close ==
    /\ Reading
    /\ ReadFails \/ (up = <<>> /\ cli.phase = "gone")
    /\ srv' = [srv EXCEPT !.phase = "closed"]
    /\ UNCHANGED <<cli, up, down, ran, told>>

\* The first line: the right password, or anything else.
Auth ==
    /\ srv.phase = "auth" /\ up # <<>> /\ ~ReadFails
    /\ up' = Tail(up)
    /\ srv' = IF Head(up) = "AUTH right"
              THEN [srv EXCEPT !.phase = "reply", !.out = <<"OK">>, !.next = "read"]
              ELSE [srv EXCEPT !.phase = "sleep"]
    /\ UNCHANGED <<cli, down, ran, told>>

\* A wrong guess is answered, some time later, and the session ends.
Deny ==
    /\ srv.phase = "sleep"
    /\ srv' = [srv EXCEPT !.phase = "reply", !.out = <<"ERR">>, !.next = "closed"]
    /\ UNCHANGED <<cli, up, down, ran, told>>

ReadCommand ==
    /\ srv.phase = "read" /\ up # <<>> /\ ~ReadFails
    /\ up' = Tail(up)
    /\ srv' = [srv EXCEPT !.phase = "run",
                          !.next = IF Head(up) = "quit" THEN "closed" ELSE "read"]
    /\ ran' = Append(ran, Head(up))
    /\ UNCHANGED <<cli, down, told>>

\* rconCommand returns; a blank line does not get there but is answered as well.
RunCommand ==
    /\ srv.phase = "run"
    /\ \E o \in Outcomes(Last(ran)) :
         /\ srv' = [srv EXCEPT !.phase = "reply", !.out = Response(o)]
         /\ ran' = Append(Front(ran), o)
    /\ UNCHANGED <<cli, up, down, told>>

\* A line is written, or not: the error of Fprintf is ignored.
Write ==
    /\ srv.phase = "reply" /\ srv.out # <<>>
    /\ srv' = [srv EXCEPT !.out = Tail(@)]
    /\ down' = IF Expired \/ cli.phase = "gone" THEN down ELSE Append(down, Head(srv.out))
    /\ UNCHANGED <<cli, up, ran, told>>

\* The response is done: readLine sets the next deadline, or the session ends.
Replied ==
    /\ srv.phase = "reply" /\ srv.out = <<>>
    /\ srv' = [srv EXCEPT !.phase = srv.next, !.left = Idle]
    /\ UNCHANGED <<cli, up, down, ran, told>>

Advance ==
    /\ srv.phase # "closed" /\ srv.left > 0
    /\ srv' = [srv EXCEPT !.left = @ - 1]
    /\ UNCHANGED <<cli, up, down, ran, told>>

-----------------------------------------------------------------------------
(* The CLI *)

\* A command: the arguments of a one-shot CLI, which may be anything, or a line
\* typed at the prompt, where blank lines do not leave the CLI.
GiveCommand ==
    /\ cli.phase = "prompt" /\ Len(told) < MaxCommands
    /\ \E line \in Command :
         /\ line = "blank" => cli.mode = "once"
         /\ up' = Append(up, line)
         /\ cli' = [cli EXCEPT !.phase = "wait", !.rows = 0, !.quits = line = "quit"]
    /\ UNCHANGED <<srv, down, ran, told>>

\* The end of the input.
Leave ==
    /\ cli.phase = "prompt" /\ cli.mode = "interactive"
    /\ cli' = [cli EXCEPT !.phase = "gone"]
    /\ UNCHANGED <<srv, up, down, ran, told>>

\* response(): a payload line.
ReadRow ==
    /\ cli.phase \in {"auth", "wait"} /\ down # <<>> /\ Head(down) = "row"
    /\ down' = Tail(down)
    /\ cli' = [cli EXCEPT !.rows = @ + 1]
    /\ UNCHANGED <<srv, up, ran, told>>

\* response() and run() return end; whether the CLI goes on.
GoesOn(end) ==
    IF cli.phase = "auth" THEN end = "OK"
    ELSE cli.mode = "interactive" /\ end # "closed" /\ ~cli.quits

Conclude(end) ==
    /\ cli' = [cli EXCEPT !.phase = IF GoesOn(end) THEN "prompt" ELSE "gone"]
    /\ told' = IF cli.phase = "wait" THEN Append(told, Outcome(cli.rows, end)) ELSE told
    /\ UNCHANGED <<srv, up, ran>>

ReadEnd ==
    /\ cli.phase \in {"auth", "wait"} /\ down # <<>> /\ Head(down) # "row"
    /\ down' = Tail(down)
    /\ Conclude(Head(down))

\* "connection closed by server", or the error of a write to it.
ReadClosed ==
    /\ cli.phase \in {"auth", "wait"} /\ down = <<>> /\ srv.phase = "closed"
    /\ Conclude("closed")
    /\ UNCHANGED down

-----------------------------------------------------------------------------
(* The specification *)

\* The CLI has connected and sent its AUTH line.
Init ==
    /\ srv = [phase |-> "auth", left |-> Idle, out |-> <<>>, next |-> "read"]
    /\ cli \in [phase : {"auth"}, mode : {"once", "interactive"}, rows : {0},
                quits : {FALSE}]
    /\ up \in {<<"AUTH right">>, <<"AUTH wrong">>}
    /\ down = <<>> /\ ran = <<>> /\ told = <<>>

Server == Close \/ Auth \/ Deny \/ ReadCommand \/ RunCommand \/ Write \/ Replied
CliReads == ReadRow \/ ReadEnd \/ ReadClosed

Next == Server \/ Advance \/ GiveCommand \/ Leave \/ CliReads

Spec == Init /\ [][Next]_vars

\* Both programs run and time passes; the admin need not type.
FairSpec == Spec /\ WF_vars(Server) /\ WF_vars(Advance) /\ WF_vars(CliReads)

-----------------------------------------------------------------------------
(* Properties *)

Line == {"AUTH right", "AUTH wrong"} \cup Command
Ends == {"OK", "ERR", "closed"}
Phases == {"auth", "sleep", "read", "run", "reply", "closed"}

\* The state is well formed; the CLI has at most one command in the pipe.
TypeOK ==
    /\ srv \in [phase : Phases, left : 0 .. Idle, out : Seq({"row", "OK", "ERR"}),
                next : {"read", "closed"}]
    /\ cli \in [phase : {"auth", "prompt", "wait", "gone"}, rows : 0 .. MaxRows,
                mode : {"once", "interactive"}, quits : BOOLEAN]
    /\ up \in Seq(Line) /\ down \in Seq({"row", "OK", "ERR"})
    /\ Len(up) <= 1 /\ Len(told) <= MaxCommands
    /\ told \in Seq([rows : 0 .. MaxRows, end : Ends])

\* What the CLI reports of a command is what that command did, all payload
\* lines included: neither the deadline, which may swallow the end of a
\* response, nor a response left behind ever shifts an answer to another command.
AnswersMatch ==
    \A n \in 1 .. Len(told) :
        told[n].end # "closed" => n <= Len(ran) /\ told[n] = ran[n]

\* The CLI has no timeout of its own, and yet it never waits for ever: the idle
\* timeout of the server ends a session in which an answer was lost.
AnswerComes == cli.phase = "wait" ~> cli.phase # "wait"

\* A session at which nobody types ends, and so does the goroutine that serves it.
SessionEnds ==
    (Reading /\ up = <<>>) ~> (srv.phase = "closed" \/ up # <<>>)
=============================================================================
