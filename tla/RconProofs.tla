----------------------------- MODULE RconProofs -----------------------------
(***************************************************************************)
(* Proofs about Rcon, for any idle timeout, length of responses and number *)
(* of commands: however the deadline cuts responses short, what the CLI    *)
(* tells of a command is what that command did.                            *)
(***************************************************************************)
EXTENDS Rcon, TLAPS

-----------------------------------------------------------------------------
(* Responses *)

\* A single line is a sequence of lines.
LEMMA OneLine == ASSUME NEW S, NEW line \in S PROVE <<line>> \in Seq(S)
OBVIOUS

Done == [rows : 0 .. MaxRows, end : {"OK", "ERR"}]

\* The line at place i of the response to a command with outcome o.
LineAt(o, i) == IF i <= o.rows THEN "row" ELSE o.end

\* q holds the lines of that response from the place after n on.
Part(q, n, o) ==
    /\ n + Len(q) <= o.rows + 1
    /\ \A i \in 1 .. Len(q) : q[i] = LineAt(o, n + i)

\* A response is the whole of its lines.
LEMMA ResponseLines ==
    ASSUME NEW o \in Done
    PROVE  /\ Response(o) \in Seq({"row", "OK", "ERR"})
           /\ Len(Response(o)) = o.rows + 1
           /\ Part(Response(o), 0, o)
<1>. DEFINE rows == [i \in 1 .. o.rows |-> "row"]
<1>1. o.rows \in Nat /\ o.end \in {"OK", "ERR"}
  BY RconAssumption DEF Done
<1>2. rows \in Seq({"row", "OK", "ERR"}) /\ Len(rows) = o.rows
  BY <1>1
<1>3. \A i \in 1 .. o.rows : rows[i] = "row"
  OBVIOUS
<1>. HIDE DEF rows
<1>4. Response(o) = rows \o <<o.end>>
  BY DEF Response, rows
<1>5. /\ Response(o) \in Seq({"row", "OK", "ERR"})
      /\ Len(Response(o)) = o.rows + 1
      /\ \A i \in 1 .. o.rows + 1 : Response(o)[i] = LineAt(o, i)
  BY <1>1, <1>2, <1>3, <1>4 DEF LineAt
<1>. QED
  BY <1>1, <1>5 DEF Part

\* A part without its first line, and with one more.
LEMMA PartTail ==
    ASSUME NEW o \in Done, NEW q \in Seq({"row", "OK", "ERR"}), q # <<>>,
           NEW n \in Nat, Part(q, n, o)
    PROVE  /\ q[1] = LineAt(o, n + 1) /\ Part(Tail(q), n + 1, o)
           /\ Len(Tail(q)) = Len(q) - 1 /\ Len(q) > 0
           /\ Tail(q) \in Seq({"row", "OK", "ERR"})
<1>1. /\ o.rows \in Nat /\ Len(q) \in Nat \ {0}
      /\ Tail(q) \in Seq({"row", "OK", "ERR"}) /\ Len(Tail(q)) = Len(q) - 1
      /\ \A i \in 1 .. Len(Tail(q)) : Tail(q)[i] = q[i + 1]
  BY RconAssumption DEF Done
<1>2. q[1] = LineAt(o, n + 1)
  BY <1>1 DEF Part
<1>3. \A i \in 1 .. Len(Tail(q)) : Tail(q)[i] = LineAt(o, n + 1 + i)
  <2>1. SUFFICES ASSUME NEW i \in 1 .. Len(Tail(q))
                 PROVE  Tail(q)[i] = LineAt(o, n + 1 + i)
    OBVIOUS
  <2>2. i + 1 \in 1 .. Len(q) /\ n + (i + 1) = n + 1 + i
    BY <1>1
  <2>. QED
    BY <1>1, <2>2 DEF Part
<1>. QED
  BY <1>1, <1>2, <1>3 DEF Part

LEMMA PartAppend ==
    ASSUME NEW o \in Done, NEW q \in Seq({"row", "OK", "ERR"}), NEW n \in Nat,
           NEW line, Part(q, n, o), n + Len(q) + 1 <= o.rows + 1,
           line = LineAt(o, n + Len(q) + 1)
    PROVE  Part(Append(q, line), n, o)
<1>1. /\ o.rows \in Nat /\ Len(q) \in Nat /\ Len(Append(q, line)) = Len(q) + 1
      /\ \A i \in 1 .. Len(q) : Append(q, line)[i] = q[i]
      /\ Append(q, line)[Len(q) + 1] = line
  BY RconAssumption DEF Done
<1>2. \A i \in 1 .. Len(q) + 1 : i \in 1 .. Len(q) \/ i = Len(q) + 1
  BY <1>1
<1>3. n + (Len(q) + 1) = n + Len(q) + 1
  BY <1>1
<1>. QED
  BY <1>1, <1>2, <1>3 DEF Part

\* Every command comes to one of the outcomes.
LEMMA OutcomesDone ==
    ASSUME NEW line, NEW o \in Outcomes(line)
    PROVE  o \in Done
<1>1. CASE line = "players, bans, status"
  <2>1. Outcomes(line) = {Outcome(n, "OK") : n \in 0 .. MaxRows}
    BY <1>1 DEF Outcomes
  <2>. QED
    BY <2>1, RconAssumption DEF Outcome, Done
<1>2. CASE line = "kick, ban, unban"
  <2>1. Outcomes(line) = {Outcome(0, "OK"), Outcome(0, "ERR")}
    BY <1>2 DEF Outcomes
  <2>. QED
    BY <2>1, RconAssumption DEF Outcome, Done
<1>3. CASE line = "unknown, usage"
  <2>1. Outcomes(line) = {Outcome(0, "ERR")}
    BY <1>3 DEF Outcomes
  <2>. QED
    BY <2>1, RconAssumption DEF Outcome, Done
<1>4. CASE line \notin {"players, bans, status", "kick, ban, unban", "unknown, usage"}
  <2>1. Outcomes(line) = {Outcome(0, "OK")}
    BY <1>4 DEF Outcomes
  <2>. QED
    BY <2>1, RconAssumption DEF Outcome, Done
<1>. QED
  BY <1>1, <1>2, <1>3, <1>4

-----------------------------------------------------------------------------
(* The parts of TypeOK *)

SrvOK == srv \in [phase : Phases, left : 0 .. Idle, out : Seq({"row", "OK", "ERR"}),
                  next : {"read", "closed"}]

CliOK == cli \in [phase : {"auth", "prompt", "wait", "gone"}, rows : 0 .. MaxRows,
                  mode : {"once", "interactive"}, quits : BOOLEAN]

LinesOK ==
    /\ up \in Seq(Line) /\ down \in Seq({"row", "OK", "ERR"})
    /\ Len(up) <= 1 /\ Len(told) <= MaxCommands
    /\ told \in Seq([rows : 0 .. MaxRows, end : Ends])

LEMMA TypeParts == TypeOK <=> SrvOK /\ CliOK /\ LinesOK
BY DEF TypeOK, SrvOK, CliOK, LinesOK

LEMMA TypePartsNext == TypeOK' <=> SrvOK' /\ CliOK' /\ LinesOK'
BY DEF TypeOK, SrvOK, CliOK, LinesOK

-----------------------------------------------------------------------------
(* Where the two programs can be together *)

\* The server is not at work on a line.
AtRest == srv.phase \in {"reply", "read", "closed"}

\* The CLI waits for the answer to its password; of rows there are none.
InAuth ==
    /\ ran = <<>> /\ told = <<>> /\ cli.rows = 0
    /\ srv.phase # "run"
    /\ Len(down) + Len(srv.out) <= 1
    /\ \A i \in 1 .. Len(down) : down[i] # "row"
    /\ \A i \in 1 .. Len(srv.out) : srv.out[i] # "row"
    /\ srv.phase # "reply" => srv.out = <<>>
    /\ srv.phase \in {"auth", "sleep"} => down = <<>>
    /\ up # <<>> => /\ srv.phase \in {"auth", "closed"} /\ down = <<>>

\* Every command is answered and told.
AtPrompt ==
    /\ up = <<>> /\ down = <<>> /\ srv.out = <<>> /\ AtRest
    /\ Len(ran) = Len(told)

\* The CLI's command is on its way, and may never be read.
Asked ==
    /\ down = <<>> /\ srv.out = <<>> /\ AtRest
    /\ Len(ran) = Len(told) /\ cli.rows = 0
    /\ up # <<>> /\ up[1] \in Command

\* The command runs.
Running ==
    /\ up = <<>> /\ down = <<>> /\ srv.out = <<>> /\ srv.phase = "run"
    /\ Len(ran) = Len(told) + 1 /\ cli.rows = 0

\* The command is done: the rows that were read, the lines on their way and
\* those not yet written are its response, or all but a part between them that
\* the deadline has swallowed.
Answering ==
    /\ up = <<>> /\ AtRest
    /\ Len(ran) = Len(told) + 1
    /\ LET o == ran[Len(ran)]
           missing == o.rows + 1 - (cli.rows + Len(down) + Len(srv.out))
       IN  /\ o \in Done
           /\ Part(down, cli.rows, o)
           /\ Part(srv.out, o.rows + 1 - Len(srv.out), o)
           /\ missing >= 0
           /\ srv.phase = "reply" /\ srv.left > 0 => missing = 0
           /\ srv.phase # "reply" => srv.out = <<>>

\* The CLI has ended: no command of its is read any more.
Gone == AtRest /\ (srv.phase = "closed" \/ up = <<>>)

Together ==
    /\ ran \in Seq(Done \cup Command)
    /\ cli.phase = "auth" => InAuth
    /\ cli.phase = "prompt" => AtPrompt
    /\ cli.phase = "wait" => Len(told) < MaxCommands
    /\ cli.phase = "wait" => Asked \/ Running \/ Answering
    /\ cli.phase = "gone" => Gone

Inv == TypeOK /\ AnswersMatch /\ Together

LEMMA Starts == Init => Inv
<1>. SUFFICES ASSUME Init PROVE Inv
  OBVIOUS
<1>1. /\ srv = [phase |-> "auth", left |-> Idle, out |-> <<>>, next |-> "read"]
      /\ down = <<>> /\ ran = <<>> /\ told = <<>>
  BY DEF Init
<1>2. PICK m \in {"once", "interactive"} :
         cli = [phase |-> "auth", mode |-> m, rows |-> 0, quits |-> FALSE]
  BY DEF Init
<1>3. up \in Seq(Line) /\ Len(up) = 1
  <2>1. PICK line \in {"AUTH right", "AUTH wrong"} : up = <<line>>
    BY DEF Init
  <2>2. line \in Line
    BY <2>1 DEF Line
  <2>3. <<line>> \in Seq(Line)
    BY <2>2, OneLine
  <2>4. Len(<<line>>) = 1
    OBVIOUS
  <2>. QED
    BY <2>1, <2>3
<1>4. SrvOK
  BY <1>1, RconAssumption DEF SrvOK, Phases
<1>5. CliOK
  BY <1>2, RconAssumption DEF CliOK
<1>6. TypeOK
  <2>1. LinesOK
    BY <1>1, <1>3, RconAssumption DEF LinesOK
  <2>. QED
    BY <1>4, <1>5, <2>1, TypeParts
<1>7. AnswersMatch
  BY <1>1 DEF AnswersMatch
<1>8. cli.phase = "auth" /\ cli.rows = 0 /\ srv.phase = "auth" /\ srv.out = <<>>
  BY <1>1, <1>2
<1>9. InAuth
  BY <1>1, <1>8 DEF InAuth
<1>10. Together
  BY <1>1, <1>8, <1>9 DEF Together
<1>. QED
  BY <1>6, <1>7, <1>10 DEF Inv

\* What the proofs below use of the types.
LEMMA Fields ==
    ASSUME TypeOK
    PROVE  /\ srv = [phase |-> srv.phase, left |-> srv.left, out |-> srv.out,
                     next |-> srv.next]
           /\ srv.phase \in Phases /\ srv.left \in 0 .. Idle
           /\ srv.out \in Seq({"row", "OK", "ERR"}) /\ srv.next \in {"read", "closed"}
           /\ cli.phase \in {"auth", "prompt", "wait", "gone"} /\ cli.rows \in Nat
BY RconAssumption DEF TypeOK

-----------------------------------------------------------------------------
(* The session of the server *)

LEMMA CloseKeeps == ASSUME Inv, Close PROVE Inv'
<1>1. /\ srv' = [srv EXCEPT !.phase = "closed"] /\ srv.phase \in {"auth", "read"}
      /\ UNCHANGED <<cli, up, down, ran, told>>
  BY DEF Close, Reading
<1>2. TypeOK
  BY DEF Inv
<1>3. TypeOK'
  <2>1. SrvOK'
    BY <1>1, <1>2, TypeParts DEF SrvOK, Phases
  <2>2. CliOK'
    BY <1>1, <1>2, TypeParts DEF CliOK
  <2>3. LinesOK'
    BY <1>1, <1>2, TypeParts DEF LinesOK
  <2>. QED
    BY <2>1, <2>2, <2>3, TypePartsNext
<1>4. AnswersMatch'
  BY <1>1 DEF Inv, AnswersMatch
<1>5. srv'.phase = "closed" /\ srv'.out = srv.out /\ srv'.left = srv.left
  BY <1>1, <1>2, Fields
<1>6. Together
  BY DEF Inv
<1>7. cli.phase = "auth" => InAuth'
  BY <1>1, <1>5, <1>6 DEF Together, InAuth
<1>8. cli.phase = "prompt" => AtPrompt'
  BY <1>1, <1>5, <1>6 DEF Together, AtPrompt, AtRest
<1>9. cli.phase = "wait" => Asked' \/ Answering'
  <2>1. SUFFICES ASSUME cli.phase = "wait" PROVE Asked' \/ Answering'
    OBVIOUS
  <2>2. ~Running
    BY <1>1 DEF Running
  <2>3. Asked => Asked'
    BY <1>1, <1>5 DEF Asked, AtRest
  <2>4. Answering => Answering'
    BY <1>1, <1>5 DEF Answering, AtRest
  <2>. QED
    BY <1>6, <2>1, <2>2, <2>3, <2>4 DEF Together
<1>10. cli.phase = "gone" => Gone'
  BY <1>5 DEF Gone, AtRest
<1>. QED
  BY <1>1, <1>3, <1>4, <1>6, <1>7, <1>8, <1>9, <1>10 DEF Together, Inv

LEMMA AuthKeeps == ASSUME Inv, Auth PROVE Inv'
<1>1. /\ srv.phase = "auth" /\ up # <<>> /\ up' = Tail(up)
      /\ UNCHANGED <<cli, down, ran, told>>
      /\ \/ srv' = [srv EXCEPT !.phase = "reply", !.out = <<"OK">>, !.next = "read"]
         \/ srv' = [srv EXCEPT !.phase = "sleep"]
  BY DEF Auth
<1>2. TypeOK /\ Together
  BY DEF Inv
<1>3. up' = <<>>
  BY <1>1, <1>2 DEF TypeOK
<1>4. TypeOK'
  <2>1. SrvOK'
    <3>1. SrvOK /\ {"auth", "sleep", "reply"} \subseteq Phases
      BY <1>2, TypeParts DEF Phases
    <3>2. <<"OK">> \in Seq({"row", "OK", "ERR"})
      OBVIOUS
    <3>3. CASE srv' = [srv EXCEPT !.phase = "reply", !.out = <<"OK">>, !.next = "read"]
      BY <3>1, <3>2, <3>3 DEF SrvOK
    <3>4. CASE srv' = [srv EXCEPT !.phase = "sleep"]
      BY <3>1, <3>4 DEF SrvOK
    <3>. QED
      BY <1>1, <3>3, <3>4
  <2>2. CliOK'
    BY <1>1, <1>2, TypeParts DEF CliOK
  <2>3. LinesOK'
    BY <1>1, <1>2, <1>3, TypeParts DEF LinesOK
  <2>. QED
    BY <2>1, <2>2, <2>3, TypePartsNext
<1>5. AnswersMatch'
  BY <1>1 DEF Inv, AnswersMatch
<1>6. InAuth /\ cli.phase = "auth"
  BY <1>1, <1>2, Fields DEF Together, AtPrompt, Asked, Running, Answering, Gone, AtRest
<1>7. srv.out = <<>> /\ down = <<>>
  BY <1>1, <1>6 DEF InAuth
<1>8. \/ srv'.phase = "reply" /\ srv'.out = <<"OK">>
      \/ srv'.phase = "sleep" /\ srv'.out = <<>>
  BY <1>1, <1>2, <1>7, Fields
<1>9. InAuth'
  <2>1. CASE srv'.phase = "reply" /\ srv'.out = <<"OK">>
    BY <1>1, <1>3, <1>6, <1>7, <2>1 DEF InAuth
  <2>2. CASE srv'.phase = "sleep" /\ srv'.out = <<>>
    BY <1>1, <1>3, <1>6, <1>7, <2>2 DEF InAuth
  <2>. QED
    BY <1>8, <2>1, <2>2
<1>. QED
  BY <1>1, <1>2, <1>4, <1>5, <1>6, <1>9 DEF Together, Inv

LEMMA DenyKeeps == ASSUME Inv, Deny PROVE Inv'
<1>1. /\ srv.phase = "sleep" /\ UNCHANGED <<cli, up, down, ran, told>>
      /\ srv' = [srv EXCEPT !.phase = "reply", !.out = <<"ERR">>, !.next = "closed"]
  BY DEF Deny
<1>2. TypeOK /\ Together
  BY DEF Inv
<1>3. TypeOK'
  <2>1. SrvOK'
    <3>1. SrvOK /\ {"sleep", "reply"} \subseteq Phases
      BY <1>2, TypeParts DEF Phases
    <3>2. <<"ERR">> \in Seq({"row", "OK", "ERR"})
      OBVIOUS
    <3>. QED
      BY <1>1, <3>1, <3>2 DEF SrvOK
  <2>2. CliOK'
    BY <1>1, <1>2, TypeParts DEF CliOK
  <2>3. LinesOK'
    BY <1>1, <1>2, TypeParts DEF LinesOK
  <2>. QED
    BY <2>1, <2>2, <2>3, TypePartsNext
<1>4. AnswersMatch'
  BY <1>1 DEF Inv, AnswersMatch
<1>5. InAuth /\ cli.phase = "auth"
  BY <1>1, <1>2, Fields DEF Together, AtPrompt, Asked, Running, Answering, Gone, AtRest
<1>6. srv'.phase = "reply" /\ srv'.out = <<"ERR">> /\ down = <<>> /\ up = <<>>
  BY <1>1, <1>2, <1>5, Fields DEF InAuth
<1>7. InAuth'
  BY <1>1, <1>5, <1>6 DEF InAuth
<1>. QED
  BY <1>1, <1>2, <1>3, <1>4, <1>5, <1>7 DEF Together, Inv

LEMMA ReadCommandKeeps == ASSUME Inv, ReadCommand PROVE Inv'
<1>1. /\ srv.phase = "read" /\ up # <<>> /\ up' = Tail(up)
      /\ ran' = Append(ran, up[1])
      /\ UNCHANGED <<cli, down, told>>
  BY DEF ReadCommand
<1>2. PICK n \in {"read", "closed"} : srv' = [srv EXCEPT !.phase = "run", !.next = n]
  BY DEF ReadCommand
<1>3. TypeOK /\ AnswersMatch /\ Together
  BY DEF Inv
<1>4. up' = <<>>
  BY <1>1, <1>3 DEF TypeOK
<1>5. TypeOK'
  <2>1. SrvOK'
    BY <1>2, <1>3, TypeParts DEF SrvOK, Phases
  <2>2. CliOK'
    BY <1>1, <1>3, TypeParts DEF CliOK
  <2>3. LinesOK'
    BY <1>1, <1>3, <1>4, TypeParts DEF LinesOK
  <2>. QED
    BY <2>1, <2>2, <2>3, TypePartsNext
<1>6. Asked /\ cli.phase = "wait"
  BY <1>1, <1>3, Fields DEF Together, InAuth, AtPrompt, Running, Answering, Gone
<1>7. srv'.phase = "run" /\ srv'.out = <<>>
  BY <1>2, <1>3, <1>6, Fields DEF Asked
<1>8. /\ ran \in Seq(Done \cup Command) /\ up[1] \in Done \cup Command
      /\ Len(ran) = Len(told) /\ Len(told) \in Nat
  BY <1>3, <1>6 DEF Together, Asked, TypeOK
<1>. HIDE DEF Done, Command
<1>9. /\ ran' \in Seq(Done \cup Command) /\ Len(ran') = Len(told) + 1
      /\ \A i \in 1 .. Len(ran) : ran'[i] = ran[i]
  BY <1>1, <1>8
<1>10. AnswersMatch'
  BY <1>1, <1>3, <1>8, <1>9 DEF AnswersMatch
<1>11. Running'
  BY <1>1, <1>4, <1>6, <1>7, <1>9 DEF Running, Asked
<1>. QED
  BY <1>1, <1>3, <1>5, <1>6, <1>9, <1>10, <1>11 DEF Together, Inv

\* The outcome takes the place of the line it is about.
LEMMA RunCommandKeeps == ASSUME Inv, RunCommand PROVE Inv'
<1>1. srv.phase = "run" /\ UNCHANGED <<cli, up, down, told>>
  BY DEF RunCommand
<1>2. PICK o \in Outcomes(Last(ran)) :
         /\ srv' = [srv EXCEPT !.phase = "reply", !.out = Response(o)]
         /\ ran' = Append(Front(ran), o)
  BY DEF RunCommand
<1>3. TypeOK /\ AnswersMatch /\ Together
  BY DEF Inv
<1>4. o \in Done
  BY OutcomesDone
<1>5. /\ Response(o) \in Seq({"row", "OK", "ERR"})
      /\ Len(Response(o)) = o.rows + 1 /\ Part(Response(o), 0, o)
  BY <1>4, ResponseLines
<1>6. TypeOK'
  <2>1. SrvOK'
    <3>1. SrvOK /\ "reply" \in Phases
      BY <1>3, TypeParts DEF Phases
    <3>. QED
      BY <1>2, <1>5, <3>1 DEF SrvOK
  <2>2. CliOK' /\ LinesOK'
    BY <1>1, <1>3, TypeParts DEF CliOK, LinesOK
  <2>. QED
    BY <2>1, <2>2, TypePartsNext
<1>7. Running /\ cli.phase = "wait"
  BY <1>1, <1>3, Fields
     DEF Together, InAuth, AtPrompt, Asked, Answering, Gone, AtRest
<1>8. srv'.phase = "reply" /\ srv'.out = Response(o) /\ srv'.left = srv.left
  BY <1>2, <1>3, Fields
<1>9. /\ ran \in Seq(Done \cup Command) /\ Len(ran) = Len(told) + 1
      /\ Len(told) \in Nat /\ o \in Done \cup Command
  BY <1>3, <1>4, <1>7 DEF Together, Running, TypeOK
<1>10. /\ ran' \in Seq(Done \cup Command) /\ Len(ran') = Len(told) + 1
       /\ \A i \in 1 .. Len(told) : ran'[i] = ran[i]
       /\ ran'[Len(told) + 1] = o
  <2>1. /\ Front(ran) \in Seq(Done \cup Command) /\ Len(Front(ran)) = Len(told)
        /\ \A i \in 1 .. Len(told) : Front(ran)[i] = ran[i]
    BY <1>9 DEF Front
  <2>. QED
    BY <1>2, <1>9, <2>1
<1>11. AnswersMatch'
  BY <1>1, <1>3, <1>9, <1>10 DEF AnswersMatch
<1>12. Answering'
  <2>1. up = <<>> /\ down = <<>> /\ cli.rows = 0 /\ Len(down) = 0
    BY <1>7 DEF Running
  <2>2. o.rows \in Nat
    BY <1>4, RconAssumption DEF Done
  <2>3. Part(down, 0, o)
    BY <2>1, <2>2 DEF Part
  <2>. QED
    BY <1>1, <1>4, <1>5, <1>8, <1>10, <2>1, <2>2, <2>3 DEF Answering, AtRest
<1>. QED
  BY <1>1, <1>3, <1>6, <1>7, <1>10, <1>11, <1>12 DEF Together, Inv

LEMMA WriteKeeps == ASSUME Inv, Write PROVE Inv'
<1>1. /\ srv.phase = "reply" /\ srv.out # <<>>
      /\ srv' = [srv EXCEPT !.out = Tail(srv.out)]
      /\ UNCHANGED <<cli, up, ran, told>>
      /\ \/ down' = down /\ (srv.left = 0 \/ cli.phase = "gone")
         \/ down' = Append(down, srv.out[1]) /\ srv.left # 0 /\ cli.phase # "gone"
  BY DEF Write, Expired
<1>2. TypeOK /\ AnswersMatch /\ Together
  BY DEF Inv
<1>3. /\ srv.out \in Seq({"row", "OK", "ERR"}) /\ Len(srv.out) \in Nat \ {0}
      /\ srv.out[1] \in {"row", "OK", "ERR"}
      /\ Tail(srv.out) \in Seq({"row", "OK", "ERR"})
      /\ Len(Tail(srv.out)) = Len(srv.out) - 1
      /\ down \in Seq({"row", "OK", "ERR"}) /\ Len(down) \in Nat
  <2>1. srv.out \in Seq({"row", "OK", "ERR"}) /\ down \in Seq({"row", "OK", "ERR"})
    BY <1>2, Fields DEF TypeOK
  <2>. QED
    BY <1>1, <2>1
<1>4. TypeOK'
  <2>1. SrvOK'
    BY <1>1, <1>2, <1>3, TypeParts DEF SrvOK
  <2>2. down' \in Seq({"row", "OK", "ERR"})
    BY <1>1, <1>3
  <2>3. CliOK' /\ LinesOK'
    BY <1>1, <1>2, <2>2, TypeParts DEF CliOK, LinesOK
  <2>. QED
    BY <2>1, <2>3, TypePartsNext
<1>5. AnswersMatch'
  BY <1>1, <1>2 DEF AnswersMatch
<1>6. srv'.phase = "reply" /\ srv'.out = Tail(srv.out) /\ srv'.left = srv.left
  BY <1>1, <1>2, Fields
<1>7. cli.phase = "auth" => InAuth'
  <2>1. SUFFICES ASSUME cli.phase = "auth" PROVE InAuth'
    OBVIOUS
  <2>2. InAuth
    BY <1>2, <2>1 DEF Together
  <2>3. Len(down) = 0 /\ Len(srv.out) <= 1
    <3>1. Len(down) + Len(srv.out) <= 1
      BY <2>2 DEF InAuth
    <3>2. Len(down) \in Nat /\ Len(srv.out) \in Nat /\ Len(srv.out) > 0
      BY <1>3
    <3>. QED
      BY <3>1, <3>2
  <2>4. srv.out[1] # "row" /\ up = <<>>
    BY <1>1, <2>2, <2>3 DEF InAuth
  <2>5. Len(Tail(srv.out)) \in Nat /\ Len(Tail(srv.out)) <= 0
    BY <1>3, <2>3
  <2>6. Len(down') <= 1 /\ \A i \in 1 .. Len(down') : down'[i] # "row"
    <3>1. CASE down' = down
      BY <2>3, <3>1
    <3>2. CASE down' = Append(down, srv.out[1])
      <4>1. Len(down') = 1 /\ down'[1] = srv.out[1]
        BY <1>3, <2>3, <3>2
      <4>. QED
        BY <2>4, <4>1
    <3>. QED
      BY <1>1, <3>1, <3>2
  <2>. QED
    <3>1. ran' = <<>> /\ told' = <<>> /\ cli'.rows = 0 /\ srv'.phase = "reply" /\ up' = <<>>
      BY <1>1, <1>6, <2>2, <2>4 DEF InAuth
    <3>2. Len(srv'.out) \in Nat /\ Len(srv'.out) <= 0
      BY <1>6, <2>5
    <3>. QED
      BY <2>6, <3>1, <3>2 DEF InAuth
<1>8. cli.phase # "prompt"
  BY <1>1, <1>2 DEF Together, AtPrompt
<1>9. cli.phase = "wait" => Answering'
  <2>1. SUFFICES ASSUME cli.phase = "wait" PROVE Answering'
    OBVIOUS
  <2>2. Answering
    BY <1>1, <1>2, <2>1 DEF Together, Asked, Running
  <2>. DEFINE o == ran[Len(ran)]
              missing == o.rows + 1 - (cli.rows + Len(down) + Len(srv.out))
              from == o.rows + 1 - Len(srv.out)
  <2>3. /\ o \in Done /\ Part(down, cli.rows, o) /\ Part(srv.out, from, o)
        /\ missing >= 0 /\ (srv.left > 0 => missing = 0)
        /\ up = <<>> /\ Len(ran) = Len(told) + 1
    BY <1>1, <2>2 DEF Answering
  <2>4. o' = o /\ o.rows \in Nat /\ cli.rows \in Nat /\ srv.left \in Nat
    BY <1>1, <1>2, <2>3, RconAssumption, Fields DEF Done
  <2>. HIDE DEF o
  <2>5. /\ Len(srv.out) \in Nat /\ Len(srv.out) > 0 /\ Len(down) \in Nat
        /\ Len(Tail(srv.out)) = Len(srv.out) - 1
    BY <1>3
  <2>6. from \in Nat /\ from + 1 = o.rows + 1 - Len(Tail(srv.out))
    BY <2>3, <2>4, <2>5
  <2>7. srv.out[1] = LineAt(o, from + 1) /\ Part(Tail(srv.out), from + 1, o)
    <3>. HIDE DEF from
    <3>. QED
      BY <1>1, <1>3, <2>3, <2>6, PartTail
  <2>8. /\ Part(down', cli.rows, o) /\ Len(down') \in Nat
        /\ cli.rows + Len(down') + Len(Tail(srv.out)) <= o.rows + 1
        /\ srv.left > 0 => cli.rows + Len(down') + Len(Tail(srv.out)) = o.rows + 1
    <3>1. CASE down' = down /\ srv.left = 0
      BY <2>3, <2>4, <2>5, <3>1
    <3>2. CASE down' = Append(down, srv.out[1]) /\ srv.left # 0
      <4>1. o.rows + 1 - (cli.rows + Len(down) + Len(srv.out)) = 0
        BY <2>3, <2>4, <3>2
      <4>2. o.rows + 1 = cli.rows + Len(down) + Len(srv.out)
        <5>1. o.rows \in Nat /\ cli.rows \in Nat /\ Len(down) \in Nat /\ Len(srv.out) \in Nat
          BY <2>4, <2>5
        <5>. QED
          BY <4>1, <5>1
      <4>3. from + 1 = cli.rows + Len(down) + 1
        BY <2>4, <2>5, <4>2
      <4>4. srv.out[1] = LineAt(o, cli.rows + Len(down) + 1)
        BY <2>7, <4>3
      <4>5. cli.rows + Len(down) + 1 <= o.rows + 1
        BY <2>4, <2>5, <4>2
      <4>6. Part(down', cli.rows, o)
        <5>. HIDE DEF from, missing
        <5>. QED
          BY <1>3, <2>3, <2>4, <3>2, <4>4, <4>5, PartAppend
      <4>7. Len(down') = Len(down) + 1
        BY <1>3, <3>2
      <4>. QED
        <5>1. cli.rows + Len(down') + Len(Tail(srv.out)) = o.rows + 1
          <6>1. PICK c \in Nat, d \in Nat, q \in Nat :
                   c = cli.rows /\ d = Len(down) /\ q = Len(srv.out)
            BY <2>4, <2>5
          <6>2. o.rows + 1 = c + d + q
            BY <4>2, <6>1
          <6>3. c + (d + 1) + (q - 1) = o.rows + 1
            BY <6>2
          <6>. QED
            BY <2>5, <4>7, <6>1, <6>3
        <5>2. Len(down') \in Nat
          BY <2>5, <4>7
        <5>. QED
          BY <2>4, <4>6, <5>1, <5>2
    <3>. QED
      BY <1>1, <2>1, <3>1, <3>2
  <2>9. Part(Tail(srv.out), o.rows + 1 - Len(Tail(srv.out)), o)
    BY <2>6, <2>7
  <2>10. Len(ran') = Len(told') + 1 /\ up' = <<>> /\ ran'[Len(ran')] = o
    BY <1>1, <2>3 DEF o
  <2>11. cli'.rows = cli.rows /\ Len(Tail(srv.out)) \in Nat
    BY <1>1, <2>5
  <2>12. LET unsent == o.rows + 1 - (cli.rows + Len(down') + Len(Tail(srv.out)))
         IN  unsent >= 0 /\ (srv.left > 0 => unsent = 0)
    <3>1. PICK c \in Nat, d \in Nat, q \in Nat :
             c = cli.rows /\ d = Len(down') /\ q = Len(Tail(srv.out))
      BY <2>4, <2>8, <2>11
    <3>2. c + d + q <= o.rows + 1 /\ (srv.left > 0 => c + d + q = o.rows + 1)
      BY <2>8, <3>1
    <3>3. o.rows + 1 - (c + d + q) >= 0
          /\ (srv.left > 0 => o.rows + 1 - (c + d + q) = 0)
      BY <2>4, <3>2
    <3>. QED
      BY <3>1, <3>3
  <2>13. Part(down', cli'.rows, o) /\ o \in Done
    BY <2>3, <2>8, <2>11
  <2>14. Part(srv'.out, o.rows + 1 - Len(srv'.out), o)
    BY <1>6, <2>9
  <2>. HIDE DEF missing, from
  <2>. QED
    BY <1>6, <2>10, <2>11, <2>12, <2>13, <2>14 DEF Answering, AtRest
<1>10. cli.phase = "gone" => Gone'
  BY <1>1, <1>2, <1>6 DEF Together, Gone, AtRest
<1>. QED
  BY <1>1, <1>2, <1>4, <1>5, <1>7, <1>8, <1>9, <1>10, Fields DEF Together, Inv

LEMMA RepliedKeeps == ASSUME Inv, Replied PROVE Inv'
<1>1. /\ srv.phase = "reply" /\ srv.out = <<>>
      /\ srv' = [srv EXCEPT !.phase = srv.next, !.left = Idle]
      /\ UNCHANGED <<cli, up, down, ran, told>>
  BY DEF Replied
<1>2. TypeOK /\ AnswersMatch /\ Together
  BY DEF Inv
<1>3. TypeOK'
  <2>1. SrvOK'
    <3>1. SrvOK /\ {"read", "closed"} \subseteq Phases /\ Idle \in 0 .. Idle
      BY <1>2, RconAssumption, TypeParts DEF Phases
    <3>. QED
      BY <1>1, <3>1 DEF SrvOK
  <2>2. CliOK' /\ LinesOK'
    BY <1>1, <1>2, TypeParts DEF CliOK, LinesOK
  <2>. QED
    BY <2>1, <2>2, TypePartsNext
<1>4. AnswersMatch'
  BY <1>1, <1>2 DEF AnswersMatch
<1>5. srv'.phase \in {"read", "closed"} /\ srv'.out = <<>>
  BY <1>1, <1>2, Fields
<1>6. cli.phase = "auth" => InAuth'
  BY <1>1, <1>2, <1>5 DEF Together, InAuth
<1>7. cli.phase = "prompt" => AtPrompt'
  BY <1>1, <1>2, <1>5 DEF Together, AtPrompt, AtRest
<1>8. cli.phase = "wait" => Asked' \/ Answering'
  <2>1. SUFFICES ASSUME cli.phase = "wait" PROVE Asked' \/ Answering'
    OBVIOUS
  <2>2. Asked \/ Answering
    BY <1>1, <1>2, <2>1 DEF Together, Running
  <2>3. Asked => Asked'
    BY <1>1, <1>5 DEF Asked, AtRest
  <2>4. Answering => Answering'
    BY <1>1, <1>5 DEF Answering, AtRest
  <2>. QED
    BY <2>2, <2>3, <2>4
<1>9. cli.phase = "gone" => Gone'
  BY <1>1, <1>2, <1>5 DEF Together, Gone, AtRest
<1>. QED
  BY <1>1, <1>2, <1>3, <1>4, <1>6, <1>7, <1>8, <1>9 DEF Together, Inv

LEMMA AdvanceKeeps == ASSUME Inv, Advance PROVE Inv'
<1>1. /\ srv.left > 0 /\ srv' = [srv EXCEPT !.left = srv.left - 1]
      /\ UNCHANGED <<cli, up, down, ran, told>>
  BY DEF Advance
<1>2. TypeOK /\ AnswersMatch /\ Together
  BY DEF Inv
<1>3. TypeOK'
  <2>1. SrvOK'
    <3>1. SrvOK /\ srv.left - 1 \in 0 .. Idle
      BY <1>1, <1>2, RconAssumption, Fields, TypeParts
    <3>. QED
      BY <1>1, <3>1 DEF SrvOK
  <2>2. CliOK' /\ LinesOK'
    BY <1>1, <1>2, TypeParts DEF CliOK, LinesOK
  <2>. QED
    BY <2>1, <2>2, TypePartsNext
<1>4. AnswersMatch'
  BY <1>1, <1>2 DEF AnswersMatch
<1>5. srv'.phase = srv.phase /\ srv'.out = srv.out /\ srv'.left = srv.left - 1
  BY <1>1, <1>2, Fields
<1>6. cli.phase = "auth" => InAuth'
  BY <1>1, <1>2, <1>5 DEF Together, InAuth
<1>7. cli.phase = "prompt" => AtPrompt'
  BY <1>1, <1>2, <1>5 DEF Together, AtPrompt, AtRest
<1>8. cli.phase = "wait" => Asked' \/ Running' \/ Answering'
  <2>1. Asked => Asked'
    BY <1>1, <1>5 DEF Asked, AtRest
  <2>2. Running => Running'
    BY <1>1, <1>5 DEF Running
  <2>3. Answering => Answering'
    BY <1>1, <1>2, <1>5, Fields DEF Answering, AtRest
  <2>. QED
    BY <1>2, <2>1, <2>2, <2>3 DEF Together
<1>9. cli.phase = "gone" => Gone'
  BY <1>1, <1>2, <1>5 DEF Together, Gone, AtRest
<1>. QED
  BY <1>1, <1>2, <1>3, <1>4, <1>6, <1>7, <1>8, <1>9 DEF Together, Inv

-----------------------------------------------------------------------------
(* The CLI *)

LEMMA GiveCommandKeeps == ASSUME Inv, GiveCommand PROVE Inv'
<1>1. /\ cli.phase = "prompt" /\ Len(told) < MaxCommands
      /\ UNCHANGED <<srv, down, ran, told>>
  BY DEF GiveCommand
<1>2. PICK line \in Command :
         /\ up' = Append(up, line)
         /\ cli' = [cli EXCEPT !.phase = "wait", !.rows = 0, !.quits = line = "quit"]
  BY DEF GiveCommand
<1>3. TypeOK /\ AnswersMatch /\ Together
  BY DEF Inv
<1>4. AtPrompt
  BY <1>1, <1>3 DEF Together
<1>5. up' = <<line>>
  BY <1>2, <1>4 DEF AtPrompt
<1>6. cli'.phase = "wait" /\ cli'.rows = 0
  BY <1>2, <1>3 DEF TypeOK
<1>7. TypeOK'
  <2>1. SrvOK'
    BY <1>1, <1>3, TypeParts DEF SrvOK
  <2>2. CliOK'
    <3>1. CliOK /\ 0 \in 0 .. MaxRows /\ (line = "quit") \in BOOLEAN
      BY <1>3, RconAssumption, TypeParts
    <3>. QED
      BY <1>2, <3>1 DEF CliOK
  <2>3. LinesOK'
    <3>1. line \in Line
      BY DEF Line
    <3>2. up' \in Seq(Line) /\ Len(up') <= 1
      BY <1>5, <3>1, OneLine
    <3>. QED
      BY <1>1, <1>3, <3>2, TypeParts DEF LinesOK
  <2>. QED
    BY <2>1, <2>2, <2>3, TypePartsNext
<1>8. AnswersMatch'
  BY <1>1, <1>3 DEF AnswersMatch
<1>9. Asked'
  <2>1. up' # <<>> /\ up'[1] = line
    BY <1>5
  <2>. QED
    BY <1>1, <1>4, <1>6, <2>1 DEF Asked, AtPrompt, AtRest
<1>. QED
  BY <1>1, <1>3, <1>6, <1>7, <1>8, <1>9 DEF Together, Inv

LEMMA LeaveKeeps == ASSUME Inv, Leave PROVE Inv'
<1>1. /\ cli.phase = "prompt" /\ cli' = [cli EXCEPT !.phase = "gone"]
      /\ UNCHANGED <<srv, up, down, ran, told>>
  BY DEF Leave
<1>2. TypeOK /\ AnswersMatch /\ Together
  BY DEF Inv
<1>3. TypeOK'
  <2>1. SrvOK' /\ LinesOK'
    BY <1>1, <1>2, TypeParts DEF SrvOK, LinesOK
  <2>2. CliOK'
    BY <1>1, <1>2, TypeParts DEF CliOK
  <2>. QED
    BY <2>1, <2>2, TypePartsNext
<1>4. AnswersMatch'
  BY <1>1, <1>2 DEF AnswersMatch
<1>5. cli'.phase = "gone"
  BY <1>1, <1>2 DEF TypeOK
<1>6. Gone'
  BY <1>1, <1>2 DEF Together, AtPrompt, Gone, AtRest
<1>. QED
  BY <1>1, <1>2, <1>3, <1>4, <1>5, <1>6 DEF Together, Inv

\* The first line of the pipe is the next line of the response.
LEMMA NextLine ==
    ASSUME TypeOK, Answering, down # <<>>,
           NEW o, o = ran[Len(ran)]
    PROVE  /\ o \in Done /\ down[1] = LineAt(o, cli.rows + 1)
           /\ Part(Tail(down), cli.rows + 1, o)
           /\ Tail(down) \in Seq({"row", "OK", "ERR"})
           /\ Len(Tail(down)) = Len(down) - 1 /\ Len(down) \in Nat /\ Len(down) > 0
           /\ cli.rows + Len(down) <= o.rows + 1
           /\ o.rows \in 0 .. MaxRows /\ cli.rows \in Nat
<1>1. o \in Done /\ Part(down, cli.rows, o)
  BY DEF Answering
<1>2. /\ cli.rows \in Nat /\ down \in Seq({"row", "OK", "ERR"})
      /\ Len(down) \in Nat /\ o.rows \in 0 .. MaxRows
  BY <1>1, Fields DEF TypeOK, Done
<1>3. cli.rows + Len(down) <= o.rows + 1
  BY <1>1 DEF Part
<1>. QED
  BY <1>1, <1>2, <1>3, PartTail

LEMMA ReadRowKeeps == ASSUME Inv, ReadRow PROVE Inv'
<1>1. /\ cli.phase \in {"auth", "wait"} /\ down # <<>> /\ down[1] = "row"
      /\ down' = Tail(down) /\ cli' = [cli EXCEPT !.rows = cli.rows + 1]
      /\ UNCHANGED <<srv, up, ran, told>>
  BY DEF ReadRow
<1>2. TypeOK /\ AnswersMatch /\ Together
  BY DEF Inv
<1>3. down \in Seq({"row", "OK", "ERR"}) /\ Len(down) \in Nat /\ Len(down) > 0
  BY <1>1, <1>2 DEF TypeOK
<1>4. cli.phase = "wait"
  BY <1>1, <1>2, <1>3 DEF Together, InAuth
<1>5. Answering
  BY <1>1, <1>2, <1>4 DEF Together, Asked, Running
<1>. DEFINE o == ran[Len(ran)]
<1>6. /\ o \in Done /\ down[1] = LineAt(o, cli.rows + 1)
      /\ Part(Tail(down), cli.rows + 1, o)
      /\ Tail(down) \in Seq({"row", "OK", "ERR"})
      /\ Len(Tail(down)) = Len(down) - 1
      /\ o.rows \in 0 .. MaxRows /\ cli.rows \in Nat
  BY <1>1, <1>2, <1>5, NextLine
<1>7. cli.rows + 1 <= o.rows /\ cli.rows + 1 \in 0 .. MaxRows
  <2>1. o.end # "row"
    BY <1>6 DEF Done
  <2>2. cli.rows + 1 <= o.rows
    BY <1>1, <1>6, <2>1 DEF LineAt
  <2>. QED
    BY <1>6, <2>2, RconAssumption
<1>8. TypeOK'
  <2>1. SrvOK'
    BY <1>1, <1>2, TypeParts DEF SrvOK
  <2>2. CliOK'
    BY <1>1, <1>2, <1>7, TypeParts DEF CliOK
  <2>3. LinesOK'
    BY <1>1, <1>2, <1>6, TypeParts DEF LinesOK
  <2>. QED
    BY <2>1, <2>2, <2>3, TypePartsNext
<1>9. AnswersMatch'
  BY <1>1, <1>2 DEF AnswersMatch
<1>10. cli'.phase = "wait" /\ cli'.rows = cli.rows + 1
  BY <1>1, <1>2, <1>4 DEF TypeOK
<1>11. Answering'
  <2>. DEFINE missing == o.rows + 1 - (cli.rows + Len(down) + Len(srv.out))
  <2>1. /\ Part(srv.out, o.rows + 1 - Len(srv.out), o) /\ missing >= 0
        /\ srv.phase = "reply" /\ srv.left > 0 => missing = 0
        /\ srv.phase # "reply" => srv.out = <<>>
        /\ up = <<>> /\ AtRest /\ Len(ran) = Len(told) + 1
    BY <1>5 DEF Answering
  <2>2. o' = o /\ ran'[Len(ran')] = o
    BY <1>1
  <2>3. Len(srv.out) \in Nat
    BY <1>2, Fields
  <2>4. o.rows + 1 - (cli'.rows + Len(down') + Len(srv'.out)) = missing
    <3>1. PICK c \in Nat, d \in Nat, q \in Nat :
             c = cli.rows /\ d = Len(down) /\ q = Len(srv.out)
      BY <1>3, <1>6, <2>3
    <3>2. o.rows + 1 - ((c + 1) + (d - 1) + q) = o.rows + 1 - (c + d + q)
      BY <1>6
    <3>. QED
      BY <1>1, <1>6, <1>10, <3>1, <3>2
  <2>. HIDE DEF o, missing
  <2>. QED
    BY <1>1, <1>6, <1>10, <2>1, <2>2, <2>4 DEF Answering, AtRest
<1>. QED
  BY <1>1, <1>2, <1>4, <1>8, <1>9, <1>10, <1>11 DEF Together, Inv

\* What the CLI has when it concludes is the outcome, or nothing.
LEMMA ReadEndKeeps == ASSUME Inv, ReadEnd PROVE Inv'
<1>1. /\ cli.phase \in {"auth", "wait"} /\ down # <<>> /\ down[1] # "row"
      /\ down' = Tail(down)
      /\ cli' = [cli EXCEPT !.phase = IF GoesOn(down[1]) THEN "prompt" ELSE "gone"]
      /\ told' = IF cli.phase = "wait" THEN Append(told, Outcome(cli.rows, down[1]))
                 ELSE told
      /\ UNCHANGED <<srv, up, ran>>
  BY DEF ReadEnd, Conclude
<1>2. TypeOK /\ AnswersMatch /\ Together
  BY DEF Inv
<1>3. /\ down \in Seq({"row", "OK", "ERR"}) /\ Len(down) \in Nat /\ Len(down) > 0
      /\ Tail(down) \in Seq({"row", "OK", "ERR"}) /\ Len(Tail(down)) = Len(down) - 1
      /\ srv.out \in Seq({"row", "OK", "ERR"}) /\ Len(srv.out) \in Nat
      /\ told \in Seq([rows : 0 .. MaxRows, end : Ends]) /\ Len(told) \in Nat
  BY <1>1, <1>2, Fields DEF TypeOK
<1>4. CliOK' /\ cli'.phase \in {"prompt", "gone"}
  <2>1. PICK ph \in {"prompt", "gone"} : cli' = [cli EXCEPT !.phase = ph]
    BY <1>1
  <2>. QED
    BY <1>2, <2>1, TypeParts DEF CliOK
<1>5. CASE cli.phase = "auth"
  <2>1. InAuth /\ told' = told
    BY <1>1, <1>2, <1>5 DEF Together
  <2>2. Len(Tail(down)) <= 0 /\ Len(srv.out) <= 0
    BY <1>3, <2>1 DEF InAuth
  <2>3. down' = <<>> /\ srv'.out = <<>>
    BY <1>1, <1>3, <2>2
  <2>4. up = <<>> /\ AtRest
    <3>1. up = <<>> /\ srv.phase \notin {"auth", "sleep", "run"}
      BY <1>1, <2>1 DEF InAuth
    <3>. QED
      BY <1>2, <3>1, Fields DEF AtRest, Phases
  <2>5. AtPrompt' /\ Gone'
    BY <1>1, <2>1, <2>3, <2>4 DEF InAuth, AtPrompt, Gone, AtRest
  <2>6. TypeOK'
    <3>1. SrvOK' /\ LinesOK'
      BY <1>1, <1>2, <1>3, <2>1, TypeParts DEF SrvOK, LinesOK
    <3>. QED
      BY <1>4, <3>1, TypePartsNext
  <2>7. AnswersMatch'
    BY <1>1, <1>2, <2>1 DEF AnswersMatch
  <2>. QED
    BY <1>1, <1>2, <1>4, <2>5, <2>6, <2>7 DEF Together, Inv
<1>6. CASE cli.phase = "wait"
  <2>1. Answering
    BY <1>1, <1>2, <1>6 DEF Together, Asked, Running
  <2>. DEFINE o == ran[Len(ran)]
  <2>2. /\ o \in Done /\ down[1] = LineAt(o, cli.rows + 1)
        /\ cli.rows + Len(down) <= o.rows + 1
        /\ o.rows \in 0 .. MaxRows /\ cli.rows \in Nat
    BY <1>1, <1>2, <2>1, NextLine
  <2>3. Len(ran) = Len(told) + 1 /\ up = <<>> /\ AtRest
    BY <2>1 DEF Answering
  <2>4. cli.rows + Len(down) + Len(srv.out) <= o.rows + 1
    <3>1. o.rows + 1 - (cli.rows + Len(down) + Len(srv.out)) >= 0
      BY <2>1 DEF Answering
    <3>2. o.rows \in Nat
      BY <2>2, RconAssumption
    <3>. HIDE DEF o
    <3>. QED
      BY <1>3, <2>2, <3>1, <3>2
  <2>. HIDE DEF o
  <2>5. cli.rows = o.rows /\ down[1] = o.end
    <3>1. ~(cli.rows + 1 <= o.rows)
      BY <1>1, <2>2 DEF LineAt
    <3>2. cli.rows <= o.rows /\ o.rows \in Nat
      BY <1>3, <2>2, RconAssumption
    <3>. QED
      BY <2>2, <3>1, <3>2 DEF LineAt
  <2>6. down' = <<>> /\ srv'.out = <<>>
    <3>1. Len(Tail(down)) <= 0 /\ Len(srv.out) <= 0
      BY <1>3, <2>2, <2>4, <2>5
    <3>. QED
      BY <1>1, <1>3, <3>1
  <2>7. Outcome(cli.rows, down[1]) = o
    BY <2>2, <2>5 DEF Outcome, Done
  <2>8. /\ told' = Append(told, o) /\ Len(told') = Len(told) + 1
        /\ \A n \in 1 .. Len(told) : told'[n] = told[n]
        /\ told'[Len(told) + 1] = o
    BY <1>1, <1>3, <1>6, <2>7
  <2>9. AtPrompt' /\ Gone'
    BY <1>1, <2>3, <2>6, <2>8 DEF AtPrompt, Gone, AtRest
  <2>10. TypeOK'
    <3>1. SrvOK'
      BY <1>1, <1>2, TypeParts DEF SrvOK
    <3>2. LinesOK'
      <4>1. o \in [rows : 0 .. MaxRows, end : Ends]
        BY <2>2 DEF Done, Ends
      <4>2. told' \in Seq([rows : 0 .. MaxRows, end : Ends])
        BY <1>3, <2>8, <4>1
      <4>3. Len(told') <= MaxCommands
        BY <1>2, <1>3, <1>6, <2>8, RconAssumption DEF Together
      <4>. QED
        BY <1>1, <1>2, <1>3, <4>2, <4>3, TypeParts DEF LinesOK
    <3>. QED
      BY <1>4, <3>1, <3>2, TypePartsNext
  <2>11. AnswersMatch'
    <3>1. SUFFICES ASSUME NEW n \in 1 .. Len(told'), told'[n].end # "closed"
                   PROVE  n <= Len(ran) /\ told'[n] = ran[n]
      BY <1>1 DEF AnswersMatch
    <3>2. CASE n \in 1 .. Len(told)
      BY <1>2, <1>3, <2>3, <2>8, <3>1, <3>2 DEF AnswersMatch
    <3>3. CASE n = Len(told) + 1
      BY <1>3, <2>3, <2>8, <3>3 DEF o
    <3>. QED
      BY <1>3, <2>8, <3>2, <3>3
  <2>. QED
    BY <1>1, <1>2, <1>4, <2>9, <2>10, <2>11 DEF Together, Inv
<1>. QED
  BY <1>1, <1>5, <1>6

LEMMA ReadClosedKeeps == ASSUME Inv, ReadClosed PROVE Inv'
<1>1. /\ cli.phase \in {"auth", "wait"} /\ down = <<>> /\ srv.phase = "closed"
      /\ cli' = [cli EXCEPT !.phase = "gone"]
      /\ told' = IF cli.phase = "wait" THEN Append(told, Outcome(cli.rows, "closed"))
                 ELSE told
      /\ UNCHANGED <<srv, up, down, ran>>
  <2>1. ~GoesOn("closed")
    BY DEF GoesOn
  <2>. QED
    BY <2>1 DEF ReadClosed, Conclude
<1>2. TypeOK /\ AnswersMatch /\ Together
  BY DEF Inv
<1>3. CliOK' /\ cli'.phase = "gone"
  BY <1>1, <1>2, TypeParts DEF CliOK
<1>4. Outcome(cli.rows, "closed") \in [rows : 0 .. MaxRows, end : Ends]
  BY <1>2 DEF TypeOK, Outcome, Ends
<1>5. /\ told \in Seq([rows : 0 .. MaxRows, end : Ends]) /\ Len(told) \in Nat
      /\ told' \in Seq([rows : 0 .. MaxRows, end : Ends]) /\ Len(told') <= MaxCommands
  <2>1. told \in Seq([rows : 0 .. MaxRows, end : Ends]) /\ Len(told) <= MaxCommands
    BY <1>2 DEF TypeOK
  <2>2. CASE told' = told
    BY <2>1, <2>2
  <2>3. CASE cli.phase = "wait" /\ told' = Append(told, Outcome(cli.rows, "closed"))
    <3>1. Len(told) < MaxCommands
      BY <1>2, <2>3 DEF Together
    <3>. HIDE DEF Outcome
    <3>. QED
      BY <1>4, <2>1, <2>3, <3>1, RconAssumption
  <2>. QED
    BY <1>1, <2>2, <2>3
<1>6. TypeOK'
  <2>1. SrvOK' /\ LinesOK'
    BY <1>1, <1>2, <1>5, TypeParts DEF SrvOK, LinesOK
  <2>. QED
    BY <1>3, <2>1, TypePartsNext
<1>7. AnswersMatch'
  <2>1. SUFFICES ASSUME NEW n \in 1 .. Len(told'), told'[n].end # "closed"
                 PROVE  n <= Len(ran) /\ told'[n] = ran[n]
    BY <1>1 DEF AnswersMatch
  <2>2. n \in 1 .. Len(told) /\ told'[n] = told[n]
    <3>1. CASE told' = told
      BY <3>1
    <3>2. CASE told' = Append(told, Outcome(cli.rows, "closed"))
      <4>1. /\ Len(told') = Len(told) + 1
            /\ \A k \in 1 .. Len(told) : told'[k] = told[k]
            /\ told'[Len(told) + 1].end = "closed"
        BY <1>5, <3>2 DEF Outcome
      <4>. QED
        BY <1>5, <2>1, <4>1
    <3>. QED
      BY <1>1, <3>1, <3>2
  <2>. QED
    BY <1>2, <2>1, <2>2 DEF AnswersMatch
<1>8. Gone'
  BY <1>1 DEF Gone, AtRest
<1>. QED
  BY <1>1, <1>2, <1>3, <1>6, <1>7, <1>8 DEF Together, Inv

-----------------------------------------------------------------------------
(* The theorems *)

LEMMA StepKeeps == Inv /\ [Next]_vars => Inv'
<1>. SUFFICES ASSUME Inv, [Next]_vars PROVE Inv'
  OBVIOUS
<1>1. CASE Server
  BY <1>1, CloseKeeps, AuthKeeps, DenyKeeps, ReadCommandKeeps, RunCommandKeeps,
     WriteKeeps, RepliedKeeps DEF Server
<1>2. CASE Advance \/ GiveCommand \/ Leave
  BY <1>2, AdvanceKeeps, GiveCommandKeeps, LeaveKeeps
<1>3. CASE CliReads
  BY <1>3, ReadRowKeeps, ReadEndKeeps, ReadClosedKeeps DEF CliReads
<1>4. CASE UNCHANGED vars
  <2>1. UNCHANGED <<srv, cli, up, down, ran, told>>
    BY <1>4 DEF vars
  <2>. QED
    BY <2>1 DEF Inv, TypeOK, AnswersMatch, Together, InAuth, AtPrompt, Asked,
                Running, Answering, Gone, AtRest
<1>. QED
  BY <1>1, <1>2, <1>3, <1>4 DEF Next

\* At every moment of every session both ends are in a state the code knows,
\* and at most one command of the CLI is under way.
THEOREM TypeCorrect == Spec => []TypeOK
<1>1. Inv => TypeOK
  BY DEF Inv
<1>. QED
  BY <1>1, Starts, StepKeeps, PTL DEF Spec

\* What the CLI reports of a command is what that command did, for any idle
\* timeout, any length of responses and any number of commands, wherever the
\* deadline falls between the lines.
THEOREM AnswersMatchAlways == Spec => []AnswersMatch
<1>1. Inv => AnswersMatch
  BY DEF Inv
<1>. QED
  BY <1>1, Starts, StepKeeps, PTL DEF Spec
=============================================================================
