------------------------------ MODULE Debugger ------------------------------
(* The GDB server (src/gdb) with one connection, the run loop it starts and   *)
(* stops (simulator.ts), and GDB at the other end of a TCP stream, which      *)
(* delivers what is sent in order and in chunks of its own choosing.  GDB has *)
(* read the server's greeting and found the program stopped.  A symbol on the *)
(* stream is a tuple: a mark of the framing, one of the two digits of a       *)
(* checksum, or the text of a packet.                                         *)
EXTENDS Integers, SequencesExt

CONSTANTS CodeSize,  \* the program: addresses 0..CodeSize-1, run round and round
          Slice      \* instructions between two turns of the event loop (1000000)

\* A program has an instruction at least.
DebuggerConstants == CodeSize \in Nat \ {0} /\ Slice \in Nat

VARIABLES server,    \* target, timer, receive buffer, and what is under way to GDB
          gdb,       \* what GDB waits for, and the command it sent last
          toServer   \* the symbols under way to the server

debuggerVars == <<server, gdb, toServer>>

Addr == 0..(CodeSize - 1)

Commands ==
    {<<"?">>, <<"p">>, <<"c">>, <<"vCont;c">>, <<"vCont;s">>}
        \cup ({"m", "P"} \X Addr) \cup ({"M"} \X Addr \X BOOLEAN)
Resuming == {<<"c">>, <<"vCont;c">>, <<"vCont;s">>}

Break == <<"0x03">>
Ack == <<"+">>
Nak == <<"-">>
gdbChecksum == <<<<"high">>, <<"low">>>>
gdbMessage(text) == <<<<"$">>, text, <<"#">>>> \o gdbChecksum

-----------------------------------------------------------------------------
(* The target.  A set bit in `bkpt` is a BKPT in the code.                    *)

respond(s, reply) == [s EXCEPT !.toClient = Append(@, reply)]

\* Mistake: the callback is not called off.
stopKeepsTimeout(s) == [s EXCEPT !.stopped = TRUE, !.executeTimer = FALSE]

\* `timeouts` counts the callbacks of setTimeout that are to come.
stop(s) ==
    [s EXCEPT !.stopped = TRUE, !.executeTimer = FALSE,
              !.timeouts = IF s.executeTimer THEN @ - 1 ELSE @]

\* PC is put back on the BKPT that was read.
onBreak(s) == respond(stop(s), <<"S05">>)

\* n instructions, or those up to a BKPT.
instructions(s, n) ==
    LET at(j) == (s.pc + j) % CodeSize
        hits == {j \in 0..(n - 1) : at(j) \in s.bkpt}
    IN  IF hits = {} THEN [s EXCEPT !.pc = at(n)] ELSE onBreak([s EXCEPT !.pc = at(Min(hits))])

\* A core that waits uses its slice up with fewer instructions.
execute(s, n) ==
    LET ran == instructions([s EXCEPT !.executeTimer = FALSE, !.stopped = FALSE], n)
    IN  IF ran.stopped THEN ran ELSE [ran EXCEPT !.executeTimer = TRUE, !.timeouts = @ + 1]

ensureExecuting(s, n) == IF s.stopped THEN execute(s, n) ELSE s

-----------------------------------------------------------------------------
(* The server.                                                                *)

processGDBMessage(s, cmd, n) ==
    CASE cmd[1] = "?" -> respond(s, <<"S05">>)
      [] cmd[1] = "p" -> respond(s, <<"pc", s.pc>>)
      [] cmd[1] = "m" -> respond(s, <<"code", cmd[2] \in s.bkpt>>)
      [] cmd[1] = "P" -> respond([s EXCEPT !.pc = cmd[2]], <<"OK">>)
      [] cmd[1] = "M" -> respond([s EXCEPT !.bkpt = IF cmd[3] THEN @ \cup {cmd[2]} ELSE @ \ {cmd[2]}], <<"OK">>)
      [] cmd[1] = "c" -> respond(ensureExecuting(s, n), <<"OK">>)
      [] cmd[1] = "vCont;c" -> ensureExecuting(s, n)
      [] cmd[1] = "vCont;s" -> LET stepped == instructions(s, 1) IN respond(stepped, <<"T05", stepped.pc>>)

\* A break is one only where a chunk begins.
feedData(size) ==
    LET data == SubSeq(toServer, 1, size)
        began == [server EXCEPT !.reading = TRUE]
    IN  /\ ~server.reading /\ size <= Len(toServer)
        /\ server' = IF Head(data) = Break THEN respond(stop([began EXCEPT !.buf = @ \o Tail(data)]), <<"S02">>)
                     ELSE [began EXCEPT !.buf = @ \o data]
        /\ toServer' = SubSeq(toServer, size + 1, Len(toServer))
        /\ UNCHANGED gdb

dolla == SelectInSeq(server.buf, LAMBDA c : c = <<"$">>)
hash == SelectInSubSeq(server.buf, dolla + 1, Len(server.buf), LAMBDA c : c = <<"#">>)
cksum == SubSeq(server.buf, hash + 1, Min({hash + 2, Len(server.buf)}))

\* A packet counts as whole with its first digit there; the second stays in the buffer.
PacketThere == dolla # 0 /\ hash # 0 /\ hash + 1 <= Len(server.buf)

\* The rest of feedData: a turn of its loop for each packet in the buffer, and its end.
FeedPacket ==
    LET rest == [server EXCEPT !.buf = SubSeq(@, hash + 2, Len(@))]
    IN  /\ server.reading /\ PacketThere
        /\ \/ cksum # gdbChecksum /\ server' = respond(rest, Nak)
           \/ /\ cksum = gdbChecksum
              /\ \E n \in 0..Slice :
                     server' = processGDBMessage([respond(rest, Ack) EXCEPT !.taken = @ + 1], server.buf[dolla + 1], n)
        /\ UNCHANGED <<gdb, toServer>>

\* What lies in front of the first $ (acknowledgements, a second digit, a break
\* behind something else) is passed over by every later search: it is dropped here.
FeedDone ==
    /\ server.reading /\ ~PacketThere
    /\ server' = [server EXCEPT !.reading = FALSE, !.buf = IF dolla = 0 THEN <<>> ELSE SubSeq(@, dolla, Len(@))]
    /\ UNCHANGED <<gdb, toServer>>

\* The callback of setTimeout.
ExecuteOn ==
    /\ server.timeouts > 0 /\ ~server.reading
    /\ \E n \in 0..Slice : server' = execute([server EXCEPT !.timeouts = @ - 1], n)
    /\ UNCHANGED <<gdb, toServer>>

-----------------------------------------------------------------------------
(* GDB: one command at a time; it waits for the acknowledgement, then for the *)
(* answer, or for a stop reply when the command lets the program run.         *)

SendCommand == \E cmd \in Commands :
    /\ gdb.waits = "nothing"
    /\ gdb' = [waits |-> "ack", cmd |-> cmd]
    /\ toServer' = toServer \o gdbMessage(cmd)
    /\ server' = [server EXCEPT !.taken = 0]

\* The user's ^C, and another one when nothing comes of the first.
Interrupt ==
    /\ \/ gdb.waits = "stop"
       \/ gdb.waits = "break" /\ toServer = <<>> /\ server.toClient = <<>>
    /\ gdb' = [gdb EXCEPT !.waits = "break"]
    /\ toServer' = Append(toServer, Break)
    /\ UNCHANGED server

IsStopReply(reply) == reply[1] \in {"S02", "S05", "T05"}

\* A packet in place of an acknowledgement is acknowledged and forgotten, and so
\* is one that reports no stop while the program runs.
Receive ==
    LET reply == Head(server.toClient)
        ends == gdb.waits = "answer" \/ (gdb.waits \in {"stop", "break"} /\ IsStopReply(reply))
    IN  /\ gdb.waits # "nothing" /\ server.toClient # <<>>
        /\ server' = [server EXCEPT !.toClient = Tail(@)]
        /\ gdb' = [gdb EXCEPT !.waits =
                       IF gdb.waits = "ack" /\ reply = Ack THEN IF gdb.cmd \in Resuming THEN "stop" ELSE "answer"
                       ELSE IF ends THEN "nothing" ELSE @]
        /\ toServer' = toServer \o (CASE reply = Ack -> <<>>
                                      [] reply = Nak -> gdbMessage(gdb.cmd)
                                      [] OTHER -> <<Ack>>)

-----------------------------------------------------------------------------

DebuggerInit ==
    /\ server = [stopped |-> TRUE, executeTimer |-> FALSE, timeouts |-> 0, pc |-> 0, bkpt |-> {},
                 buf |-> <<>>, reading |-> FALSE, toClient |-> <<>>, taken |-> 0]
    /\ gdb = [waits |-> "nothing", cmd |-> <<"?">>]
    /\ toServer = <<>>

Chunk == \E size \in 1..Len(toServer) : feedData(size)
AllOfIt == toServer # <<>> /\ feedData(Len(toServer))

DebuggerNext == Chunk \/ FeedPacket \/ FeedDone \/ ExecuteOn \/ SendCommand \/ Interrupt \/ Receive

\* TCP delivers, the server's loop goes on, GDB reads what it waits for; a user
\* who waits for a break asks again.
DebuggerFairness ==
    /\ WF_debuggerVars(AllOfIt) /\ WF_debuggerVars(FeedPacket \/ FeedDone)
    /\ WF_debuggerVars(Receive \/ (gdb.waits = "break" /\ Interrupt))

DebuggerSpec == DebuggerInit /\ [][DebuggerNext]_debuggerVars /\ DebuggerFairness

\* What is true of the target once a command is carried out.
Fits(cmd, answer) ==
    CASE cmd[1] = "?" -> answer = <<"S05">>
      [] cmd[1] = "p" -> answer = <<"pc", server.pc>>
      [] cmd[1] = "m" -> answer = <<"code", cmd[2] \in server.bkpt>>
      [] cmd[1] = "P" -> answer = <<"OK">> /\ server.pc = cmd[2]
      [] cmd[1] = "M" -> answer = <<"OK">> /\ (cmd[2] \in server.bkpt <=> cmd[3])

Carried == gdb.waits \in {"answer", "stop", "break"}

\* However the stream is cut, and whatever stop replies nobody waited for lie in
\* it, a command is carried out exactly once and the answer GDB takes for its
\* answer is its answer, still true when it is read (feedData).
AnswersExact ==
    /\ Carried => server.taken = 1
    /\ server.taken <= 1
    /\ gdb.waits = "answer" => Len(server.toClient) = 1 /\ Fits(gdb.cmd, server.toClient[1])

\* GDB believes the program stopped only where it is and nothing will set it off
\* again; running, unless the news is on its way; and the news are true: at a
\* breakpoint, or where the step led (feedData, onBreak, Simulator.stop).
BeliefTrue ==
    LET news == SelectInSeq(server.toClient, IsStopReply)
        told == server.toClient[news]
    IN  /\ gdb.waits \in {"nothing", "answer"} => server.stopped
        /\ server.timeouts = IF server.stopped THEN 0 ELSE 1
        /\ gdb.waits \in {"stop", "break"} =>
               /\ server.stopped <=> news # 0
               /\ news # 0 => CASE told[1] = "S05" -> server.pc \in server.bkpt
                                [] told[1] = "T05" -> told[2] = server.pc
                                [] told[1] = "S02" -> gdb.waits = "break"

\* Neither GDB nor its user is misled: answers and news are true, and news that the
\* program stopped or runs on is told (gdb-connection.ts, gdb-server.ts, simulator.ts).
NobodyMisled == AnswersExact /\ BeliefTrue

\* What is acknowledged is answered, and every break stops the program.
DebuggerAnswers == gdb.waits \in {"answer", "break"} ~> gdb.waits = "nothing"
=============================================================================
