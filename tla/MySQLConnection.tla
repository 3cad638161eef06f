-------------------------- MODULE MySQLConnection --------------------------
(***************************************************************************)
(* A connection and its cursors as pymysql 1.0.2 runs them, the version    *)
(* kept in the repository beside the primary-db-setup Lambda               *)
(* (src/lambdas/primary-db-setup/package/pymysql/connections.py and        *)
(* cursors.py), against one MySQL server that may go away.                 *)
(*                                                                         *)
(* A connection carries one conversation: a command is sent, the packets   *)
(* of its answer come back, and nothing in a packet says which command it  *)
(* answers.  A buffered cursor reads an answer at once, an unbuffered one  *)
(* (SSCursor) row by row, so that any later call may find packets of an    *)
(* earlier command unread.  The application has one thread: `todo' is what *)
(* the call in progress still has to do, innermost first, and a step reads *)
(* at most one packet.  Column definitions travel with the header packet.  *)
(***************************************************************************)
EXTENDS Integers, Sequences, FiniteSets

CONSTANTS
    Cursors,            \* the cursors of the connection
    Unbuffered,         \* those of them that are SSCursors
    Answers,            \* what a query may be answered with: packet kinds
    SeqMod,             \* packet numbers are counted modulo this (256)
    Autocommit,         \* the autocommit mode asked for
    InitCommand,        \* an init_command was given
    FinishesResults,    \* the application reconnects only with no result left
    MaxCalls,           \* bound on the calls made
    MaxFaults           \* bound on connections lost, logins refused and rows
                        \* that cannot be converted

NoCursor == "no cursor"
PacketKinds == {"ok", "okMore", "err", "header", "row", "eof", "eofMore", "local"}

\* How a server answers a query (external): one result set after another,
\* each of its packets where the client looks for it.
Start == {"ok", "okMore", "err", "local", "header"}
InSet == {"row", "eof", "eofMore", "err"}
Last == {"ok", "err", "eof", "local"}

FollowsProtocol(a) ==
    \A i \in DOMAIN a :
        /\ (i = Len(a)) <=> (a[i] \in Last)
        /\ a[i] \in IF i = 1 \/ a[i - 1] \in {"okMore", "eofMore"} THEN Start ELSE InSet

ASSUME MySQLAssumption ==
    /\ NoCursor \notin Cursors
    /\ Unbuffered \subseteq Cursors
    /\ SeqMod \in Nat \ {0, 1}
    /\ \A a \in Answers :
         a \in Seq(PacketKinds) /\ a # <<>> /\ FollowsProtocol(a)
    /\ {Autocommit, InitCommand, FinishesResults} \subseteq BOOLEAN
    /\ {MaxCalls, MaxFaults} \subseteq Nat

VARIABLES
    conn,       \* the Connection: _sock, _closed, _next_seq_id, _result, ...
    cursor,     \* the Cursor objects
    todo,       \* the rest of the call in progress
    wire,       \* what the server has sent and the client has not read
    server,     \* the session at the server; `stray' is history: whether a
                \* result was given up before a packet numbered 1
    taken       \* the last packet accepted: the command it answers, and the
                \* last command sent

vars == <<conn, cursor, todo, wire, server, taken>>

-----------------------------------------------------------------------------
(* Packets, results and pieces of a call.                                  *)

Packet(kind, cmd, at) == [kind |-> kind, cmd |-> cmd, at |-> at]

Answer(cmd, kinds) == [i \in 1..Len(kinds) |-> Packet(kinds[i], cmd, i)]

\* A MySQLResult is known by its first packet.  No result reads more rows
\* than the connection's own: each path that replaces it has finished it.
Result(id, active, more) == [id |-> id, active |-> active, more |-> more]

NoId == <<0, 0>>
NoResult == Result(NoId, FALSE, FALSE)
NoRows == <<NoId, <<>>>>

Task(op, c) == [op |-> op, c |-> c]
Op == Head(todo).op
C == Head(todo).c
Rest == Tail(todo)
Pending(op) == \E i \in DOMAIN todo : todo[i].op = op

Commands == {"query", "simple", "setauto"}

ReadAnswer(c) == Task(IF c \in Unbuffered THEN "readUnbuffered" ELSE "read", c)

NewCursor == [attached |-> TRUE, result |-> NoId, rows |-> <<>>,
              rownumber |-> 0, cmd |-> 0]

\* _clear_result, which leaves nothing of the previous command.
Cleared(c) == [cursor EXCEPT ![c].result = NoId, ![c].rows = <<>>,
                             ![c].rownumber = 0]

\* (mutant of HasNextSet) whoever asks gets the connection's next set.
HasNextSetOfAnyone(c) ==
    /\ cursor[c].result # NoId
    /\ conn.result.more

HasNextSet(c) ==
    /\ cursor[c].result # NoId
    /\ cursor[c].result = conn.result.id
    /\ conn.result.more

MySQLInit ==
    /\ conn = [sock |-> "none", closed |-> FALSE, seq |-> 0,
               result |-> NoResult, partial |-> NoRows, status |-> FALSE]
    /\ cursor = [c \in Cursors |-> NewCursor]
    /\ todo = <<>>
    /\ wire = <<>>
    /\ server = [alive |-> FALSE, autocommit |-> FALSE, commands |-> 0,
                 calls |-> 0, faults |-> 0, stray |-> FALSE]
    /\ taken = <<0, 0>>

-----------------------------------------------------------------------------
(* Exceptions.  One leaves the call in progress, except that ping connects *)
(* and tries again; connect closes the socket it has opened but keeps it   *)
(* as _sock, and a cursor being closed lets go of its connection.          *)

Reconnect == <<Task("connect", NoCursor), Task("simple", NoCursor)>>

Raise(cn) ==
    /\ conn' = [cn EXCEPT !.partial = NoRows,
                          !.sock = IF Pending("connecting") /\ cn.sock = "open"
                                     THEN "dead" ELSE cn.sock]
    /\ todo' = IF Pending("retry") THEN Reconnect ELSE <<>>
    /\ cursor' = [c \in Cursors |->
                    IF Op # "finish" /\ \E i \in DOMAIN todo : todo[i] = Task("closing", c)
                      THEN [cursor[c] EXCEPT !.attached = FALSE] ELSE cursor[c]]

ForceClosed == [conn EXCEPT !.sock = "none"]

-----------------------------------------------------------------------------
(* Reading a packet (_read_packet, _read_bytes).                           *)

NeedsPacket ==
    /\ todo # <<>>
    /\ \/ Op \in {"read", "readUnbuffered", "rows", "ok", "giveUp"}
       \/ Op \in Commands \cup {"fetch", "skip", "finish"} /\ conn.result.active

P == Head(wire)
\* (mutant of InSequence) the packet number is not looked at.
InSequenceUnchecked == wire # <<>>

InSequence == P.at % SeqMod = conn.seq

Readable == NeedsPacket /\ conn.sock = "open" /\ wire # <<>>

\* What accepting the packet at the head of the wire does in any case.
Advanced == [conn EXCEPT !.seq = (conn.seq + 1) % SeqMod]

Accept ==
    /\ Readable
    /\ InSequence
    /\ wire' = Tail(wire)
    /\ taken' = <<P.cmd, server.commands>>

Ended == [NoResult EXCEPT !.id = conn.result.id]

SocketUnusable ==
    /\ NeedsPacket \/ (todo # <<>> /\ Op \in Commands)
    /\ conn.sock # "open"
    /\ Raise(conn)
    /\ UNCHANGED <<wire, server, taken>>

ServerLost ==
    /\ NeedsPacket
    /\ conn.sock = "open"
    /\ wire = <<>>
    /\ ~server.alive
    /\ Raise(ForceClosed)
    /\ UNCHANGED <<wire, server, taken>>

\* Also the last packet of a server that shuts down, numbered 0.
SequenceWrong ==
    /\ Readable
    /\ ~InSequence
    /\ Raise(ForceClosed)
    /\ wire' = <<>>
    /\ server' = [server EXCEPT !.alive = FALSE]
    /\ UNCHANGED taken

\* (mutant of ErrorPacket) the interrupted result stays active.
ErrorPacketAlone ==
    /\ Accept
    /\ P.kind = "err"
    /\ Raise(Advanced)
    /\ UNCHANGED server

\* An error packet also ends the unbuffered result it interrupts.
ErrorPacket ==
    /\ Accept
    /\ P.kind = "err"
    /\ Raise(IF conn.result.active THEN [Advanced EXCEPT !.result = Ended] ELSE Advanced)
    /\ UNCHANGED server

\* A buffered result given up at the head of the wire leaves a packet with
\* the number the next answer begins with: to the client it is that answer.
LeavesStray ==
    Op = "rows" /\ Tail(wire) # <<>> /\ Head(Tail(wire)).at % SeqMod = 1

\* A value of the row cannot be decoded or converted.
ConversionFails ==
    /\ server.faults < MaxFaults
    /\ Accept
    /\ P.kind = "row"
    /\ Op \in {"rows", "fetch"}
    /\ Raise(Advanced)
    /\ server' = [server EXCEPT !.faults = server.faults + 1,
                                !.stray = server.stray \/ LeavesStray]

-----------------------------------------------------------------------------
(* Answers (MySQLResult).                                                  *)

\* The connection and, through _do_get_result, the cursor take the result.
Complete(id, active, more, rows) ==
    /\ conn' = [Advanced EXCEPT !.result = Result(id, active, more), !.partial = NoRows,
                                !.status = IF P.kind \in {"ok", "okMore"}
                                             THEN server.autocommit ELSE conn.status]
    /\ cursor' = IF C = NoCursor THEN cursor
                 ELSE [cursor EXCEPT ![C].result = id, ![C].rows = rows]
    /\ todo' = Rest
    /\ UNCHANGED server

ReadOk ==
    /\ Accept
    /\ Op \in {"read", "readUnbuffered"}
    /\ P.kind \in {"ok", "okMore"}
    /\ Complete(<<P.cmd, P.at>>, FALSE, P.kind = "okMore", <<>>)

StreamingBegins ==
    /\ Accept
    /\ Op = "readUnbuffered"
    /\ P.kind \notin {"ok", "okMore", "err", "local"}
    /\ Complete(<<P.cmd, P.at>>, TRUE, FALSE, <<>>)

ReadHeader ==
    /\ Accept
    /\ Op = "read"
    /\ P.kind \notin {"ok", "okMore", "err", "local"}
    /\ conn' = [Advanced EXCEPT !.partial = <<<<P.cmd, P.at>>, <<>>>>]
    /\ todo' = <<Task("rows", C)>> \o Rest
    /\ UNCHANGED <<cursor, server>>

ReadRow ==
    /\ Accept
    /\ Op = "rows"
    /\ P.kind \notin {"eof", "eofMore", "err"}
    /\ conn' = [Advanced EXCEPT !.partial =
                    <<conn.partial[1], Append(conn.partial[2], <<P.cmd, P.at>>)>>]
    /\ UNCHANGED <<cursor, todo, server>>

ReadEof ==
    /\ Accept
    /\ Op = "rows"
    /\ P.kind \in {"eof", "eofMore"}
    /\ Complete(conn.partial[1], FALSE, P.kind = "eofMore", conn.partial[2])

\* LOAD DATA LOCAL: the file in one packet and the empty one, or the empty
\* one alone when the file cannot be read, whose answer is read and dropped.
SendLocalFile ==
    /\ Readable
    /\ InSequence
    /\ Op \in {"read", "readUnbuffered"}
    /\ P.kind = "local"
    /\ \E sent \in {1, 2} :
         /\ conn' = [Advanced EXCEPT !.seq = (conn.seq + 1 + sent) % SeqMod]
         /\ wire' = Tail(wire) \o (IF server.alive
                                     THEN <<Packet("ok", P.cmd, P.at + 1 + sent)>>
                                     ELSE <<>>)
         /\ todo' = IF sent = 2 THEN todo ELSE <<Task("giveUp", C)>> \o Rest
    /\ taken' = <<P.cmd, server.commands>>
    /\ UNCHANGED <<cursor, server>>

GiveUp ==
    /\ Accept
    /\ Op = "giveUp"
    /\ P.kind # "err"
    /\ Raise(Advanced)
    /\ UNCHANGED server

ReadOkPacket ==
    /\ Accept
    /\ Op = "ok"
    /\ P.kind # "err"
    /\ IF P.kind \in {"ok", "okMore"}
         THEN /\ conn' = [Advanced EXCEPT !.status = server.autocommit]
              /\ todo' = Rest
              /\ UNCHANGED cursor
         ELSE Raise(Advanced)       \* "Command Out of Sync"
    /\ UNCHANGED server

\* (mutant of StreamEnds) a result stays active while another set follows.
StreamEndsWithLastSet ==
    /\ Accept
    /\ Op \in Commands \cup {"fetch", "skip", "finish"}
    /\ P.kind \in {"eof", "eofMore"}
    /\ conn' = [Advanced EXCEPT !.result.active = P.kind = "eofMore",
                                !.result.more = P.kind = "eofMore"]
    /\ todo' = IF Op \in Commands THEN todo ELSE Rest
    /\ UNCHANGED <<cursor, server>>

\* One packet of an unbuffered result: its end, a row the cursor returns, or
\* one that is dropped (scroll, _finish_unbuffered_query).
StreamEnds ==
    /\ Accept
    /\ Op \in Commands \cup {"fetch", "skip", "finish"}
    /\ P.kind \in {"eof", "eofMore"}
    /\ conn' = [Advanced EXCEPT !.result = [Ended EXCEPT !.more = P.kind = "eofMore"]]
    /\ todo' = IF Op \in Commands THEN todo ELSE Rest
    /\ UNCHANGED <<cursor, server>>

StreamRow ==
    /\ Accept
    /\ Op \in Commands \cup {"fetch", "skip", "finish"}
    /\ P.kind \notin {"eof", "eofMore", "err"}
    /\ conn' = Advanced
    /\ cursor' = IF Op # "fetch" THEN cursor
                 ELSE [cursor EXCEPT ![C].rows = Append(cursor[C].rows, <<P.cmd, P.at>>)]
    /\ todo' = IF Op \in {"fetch", "skip"} THEN Rest ELSE todo
    /\ UNCHANGED server

-----------------------------------------------------------------------------
(* Sending a command (_execute_command), once what is left of the last     *)
(* result, and the results after it, have been read.                       *)

NextResult ==
    /\ todo # <<>>
    /\ Op \in Commands
    /\ conn.sock = "open"
    /\ ~conn.result.active
    /\ conn.result.more
    /\ conn' = [conn EXCEPT !.result = NoResult]
    /\ todo' = <<Task("read", NoCursor)>> \o todo
    /\ UNCHANGED <<cursor, wire, server, taken>>

ReadyToSend ==
    /\ todo # <<>>
    /\ Op \in Commands
    /\ conn.sock = "open"
    /\ ~conn.result.active
    /\ ~conn.result.more

SendCommand ==
    /\ ReadyToSend
    /\ LET cmd == server.commands + 1
           kinds == CASE Op = "query" /\ C # NoCursor -> Answers
                      [] Op = "setauto" -> {<<"ok">>}
                      [] OTHER -> {<<"ok">>, <<"err">>}
       IN  /\ \E k \in kinds :
                wire' = IF server.alive THEN wire \o Answer(cmd, k) ELSE wire
           /\ server' = [server EXCEPT !.commands = cmd,
                            !.autocommit = IF Op = "setauto" /\ server.alive
                                             THEN Autocommit ELSE server.autocommit]
           /\ cursor' = IF C = NoCursor THEN cursor
                        ELSE [cursor EXCEPT ![C].cmd = cmd]
    /\ conn' = [conn EXCEPT !.result = NoResult, !.seq = 1]
    /\ todo' = <<IF Op = "query" THEN ReadAnswer(C) ELSE Task("ok", C)>> \o Rest
    /\ UNCHANGED taken

SendFails ==
    /\ ReadyToSend
    /\ ~server.alive
    /\ Raise([ForceClosed EXCEPT !.result = NoResult])
    /\ UNCHANGED <<wire, server, taken>>

-----------------------------------------------------------------------------
(* Opening a session (connect).  The login itself is module MySQLLogin.    *)

\* (mutant of ConnectWorks) the status the greeting brings is not kept.
ConnectWorksOldStatus ==
    /\ todo # <<>>
    /\ Op = "connect"
    /\ \E default \in BOOLEAN :
         server' = [server EXCEPT !.alive = TRUE, !.autocommit = default]
    /\ conn' = [conn EXCEPT !.sock = "open", !.closed = FALSE]
    /\ wire' = <<>>
    /\ todo' = <<Task("autocommit", NoCursor), Task("connecting", NoCursor)>> \o Rest
    /\ UNCHANGED <<cursor, taken>>

ConnectWorks ==
    /\ todo # <<>>
    /\ Op = "connect"
    /\ \E default \in BOOLEAN :
         /\ server' = [server EXCEPT !.alive = TRUE, !.autocommit = default]
         /\ conn' = [conn EXCEPT !.sock = "open", !.closed = FALSE, !.status = default]
    /\ wire' = <<>>
    /\ todo' = (IF InitCommand THEN <<Task("query", NoCursor), Task("simple", NoCursor)>>
                              ELSE <<>>)
               \o <<Task("autocommit", NoCursor), Task("connecting", NoCursor)>> \o Rest
    /\ UNCHANGED <<cursor, taken>>

\* Nothing answers, or the login is refused on a socket that is kept.
ConnectFails ==
    /\ todo # <<>>
    /\ Op = "connect"
    /\ server.faults < MaxFaults
    /\ \E sock \in {conn.sock, "dead"} :
         Raise([conn EXCEPT !.sock = IF sock = "none" THEN "none" ELSE "dead",
                            !.closed = FALSE])
    /\ server' = [server EXCEPT !.faults = server.faults + 1, !.alive = FALSE]
    /\ UNCHANGED <<wire, taken>>

SetAutocommit ==
    /\ todo # <<>>
    /\ Op = "autocommit"
    /\ todo' = IF conn.status = Autocommit THEN Rest
               ELSE <<Task("setauto", NoCursor)>> \o Rest
    /\ UNCHANGED <<conn, cursor, wire, server, taken>>

\* (mutant of Return) the rest of a result is waited for when there is none.
ReturnUnlessFinishing ==
    /\ todo # <<>>
    /\ Op \in {"connecting", "retry", "fetch", "skip"}
    /\ Op \in {"fetch", "skip"} => ~conn.result.active
    /\ todo' = Rest
    /\ UNCHANGED <<conn, cursor, wire, server, taken>>

\* The rest of a call that reads and sends nothing: a handler that was not
\* needed, a result that has ended already.
Return ==
    /\ todo # <<>>
    /\ \/ Op \in {"connecting", "retry"}
       \/ Op \in {"fetch", "skip", "finish"} /\ ~conn.result.active
    /\ todo' = Rest
    /\ UNCHANGED <<conn, cursor, wire, server, taken>>

-----------------------------------------------------------------------------
(* Cursors.                                                                *)

\* nextset, in the loops of execute and close and by itself.
NextSet ==
    /\ todo # <<>>
    /\ Op \in {"execute", "closing", "nextset"}
    /\ HasNextSet(C)
    /\ cursor' = Cleared(C)
    /\ conn' = [conn EXCEPT !.result = NoResult]
    /\ todo' = <<ReadAnswer(C)>> \o (IF Op = "nextset" THEN Rest ELSE todo)
    /\ UNCHANGED <<wire, server, taken>>

NoNextSet ==
    /\ todo # <<>>
    /\ Op \in {"execute", "closing", "nextset", "call"}
    /\ Op # "call" => ~HasNextSet(C)
    /\ cursor' = CASE Op = "closing" -> [cursor EXCEPT ![C].attached = FALSE]
                   [] Op = "nextset" -> cursor
                   [] OTHER -> Cleared(C)
    /\ todo' = (IF Op \in {"execute", "call"} THEN <<Task("query", C)>> ELSE <<>>) \o Rest
    /\ UNCHANGED <<conn, wire, server, taken>>

Idle == todo = <<>>

Begin(tasks) ==
    /\ server.calls < MaxCalls
    /\ server' = [server EXCEPT !.calls = server.calls + 1]
    /\ todo' = tasks
    /\ UNCHANGED <<conn, cursor, wire, taken>>

Execute(c) == Idle /\ cursor[c].attached /\ Begin(<<Task("execute", c)>>)

CallProc(c) ==
    /\ Idle
    /\ cursor[c].attached
    /\ Begin(<<Task("call", c), Task("nextset", c), Task("call", c)>>)

AskNextSet(c) ==
    Idle /\ cursor[c].attached /\ HasNextSet(c) /\ Begin(<<Task("nextset", c)>>)

CloseCursor(c) ==
    /\ Idle
    /\ cursor[c].attached
    /\ Begin((IF c \in Unbuffered /\ cursor[c].result = conn.result.id
                THEN <<Task("finish", c)>> ELSE <<>>) \o <<Task("closing", c)>>)

OpenCursor(c) ==
    /\ Idle
    /\ ~cursor[c].attached
    /\ cursor' = [cursor EXCEPT ![c] = NewCursor]
    /\ UNCHANGED <<conn, todo, wire, server, taken>>

\* fetchone, fetchmany, fetchall and scroll of a buffered cursor.
Fetch(c) ==
    /\ Idle
    /\ c \notin Unbuffered
    /\ \E r \in 0..Len(cursor[c].rows) :
         /\ r # cursor[c].rownumber
         /\ cursor' = [cursor EXCEPT ![c].rownumber = r]
    /\ UNCHANGED <<conn, todo, wire, server, taken>>

\* The same of an SSCursor: a row is read when it is asked for.
FetchNext(c) ==
    /\ Idle
    /\ c \in Unbuffered
    /\ cursor[c].result = conn.result.id
    /\ conn.result.active
    /\ \E op \in {"fetch", "skip"} : todo' = <<Task(op, c)>>
    /\ UNCHANGED <<conn, cursor, wire, server, taken>>

-----------------------------------------------------------------------------
(* The connection's own calls.                                             *)

MayReconnect == FinishesResults => ~conn.result.active /\ ~conn.result.more

\* begin, commit, rollback, select_db, kill, set_charset
SimpleCommand == Idle /\ Begin(<<Task("simple", NoCursor)>>)

Connect ==
    Idle /\ conn.sock # "open" /\ MayReconnect /\ Begin(<<Task("connect", NoCursor)>>)

Ping ==
    /\ Idle
    /\ MayReconnect
    /\ Begin(IF conn.sock = "none" THEN Reconnect
             ELSE <<Task("simple", NoCursor), Task("retry", NoCursor)>>)

Close ==
    /\ Idle
    /\ ~conn.closed
    /\ conn' = [ForceClosed EXCEPT !.closed = TRUE]
    /\ wire' = <<>>
    /\ server' = [server EXCEPT !.alive = FALSE]
    /\ UNCHANGED <<cursor, todo, taken>>

\* The connection breaks, or the server shuts down with a last error packet.
ConnectionLost ==
    /\ server.alive
    /\ server.faults < MaxFaults
    /\ \/ \E k \in 0..Len(wire) : wire' = SubSeq(wire, 1, k)
       \/ wire' = Append(wire, Packet("err", server.commands, 0))
    /\ server' = [server EXCEPT !.alive = FALSE, !.faults = server.faults + 1]
    /\ UNCHANGED <<conn, cursor, todo, taken>>

-----------------------------------------------------------------------------

ReadStep ==
    \/ SocketUnusable \/ ServerLost \/ SequenceWrong
    \/ ErrorPacket \/ ConversionFails
    \/ ReadOk \/ StreamingBegins \/ ReadHeader \/ ReadRow \/ ReadEof
    \/ SendLocalFile \/ GiveUp \/ ReadOkPacket \/ StreamEnds \/ StreamRow

ClientStep ==
    \/ ReadStep
    \/ NextResult \/ SendCommand \/ SendFails
    \/ ConnectWorks \/ ConnectFails \/ SetAutocommit \/ Return
    \/ NextSet \/ NoNextSet

Application ==
    \/ SimpleCommand \/ Connect \/ Ping \/ Close
    \/ \E c \in Cursors :
         \/ Execute(c) \/ CallProc(c) \/ AskNextSet(c) \/ CloseCursor(c)
         \/ OpenCursor(c) \/ Fetch(c) \/ FetchNext(c)

MySQLNext == ClientStep \/ Application \/ ConnectionLost

MySQLSpec == MySQLInit /\ [][MySQLNext]_vars

\* A call, once made, runs; the application makes as many as it likes.
MySQLFairSpec == MySQLSpec /\ WF_vars(ClientStep)

-----------------------------------------------------------------------------
(* Properties.                                                             *)

Ops == Commands \cup
       {"execute", "call", "nextset", "closing", "finish", "fetch", "skip", "read",
        "readUnbuffered", "rows", "ok", "giveUp", "connect", "connecting",
        "autocommit", "retry"}

PacketIds == Nat \X Nat
ResultIn == [id : PacketIds, active : BOOLEAN, more : BOOLEAN]

\* Every variable keeps its type, and only one result can have rows unread.
MySQLTypeOK ==
    /\ conn \in [sock : {"none", "open", "dead"}, closed : BOOLEAN,
                 seq : 0..(SeqMod - 1), result : ResultIn,
                 partial : PacketIds \X Seq(PacketIds), status : BOOLEAN]
    /\ cursor \in [Cursors -> [attached : BOOLEAN, result : PacketIds,
                               rows : Seq(PacketIds), rownumber : Nat, cmd : Nat]]
    /\ todo \in Seq([op : Ops, c : Cursors \cup {NoCursor}])
    /\ wire \in Seq([kind : PacketKinds, cmd : Nat, at : Nat])
    /\ server \in [alive : BOOLEAN, autocommit : BOOLEAN, commands : Nat,
                   calls : Nat, faults : Nat, stray : BOOLEAN]
    /\ taken \in PacketIds
    /\ conn.result.active => ~conn.result.more

\* A packet is taken only as a part of the answer to the command sent last
\* (_execute_command 795-803, _read_packet 697-708): not one that an SSCursor,
\* a second result set or a failed conversion has left unread.  Excepted is
\* what LeavesStray names, which the numbers cannot tell apart: a buffered
\* result given up where the numbers, one byte each, begin again at 1.
RepliesMatch == ~server.stray => taken[1] = taken[2]

\* The rows a cursor returns are those of the command it executed last, in
\* the order sent and each once, whatever other cursors of the connection
\* have executed and drained in between (cursors.py 306-331, 411-433), with
\* the same exception.
RowsAreOwn ==
    ~server.stray =>
        \A c \in Cursors : LET rows == cursor[c].rows IN
            \A i \in DOMAIN rows :
                /\ rows[i][1] = cursor[c].cmd
                /\ i > 1 => rows[i - 1][2] < rows[i][2]

\* The client never waits for a packet while the server waits for a command:
\* no read without a timeout is for an answer that has been read already or
\* was never asked for ("make sure it finishes before sending new commands",
\* 795-796; "If the connection is closed, reconnect", 567), with the same
\* exception.
NoWaitForNothing ==
    NeedsPacket /\ conn.sock = "open" /\ server.alive /\ ~server.stray => wire # <<>>

\* Between two calls, a connection that is open has the autocommit mode that
\* was asked for, also when it was reconnected to a server with another
\* default (connect 645-646): a write the application takes for committed is.
AutocommitRestored ==
    Idle /\ conn.sock = "open" /\ server.alive => server.autocommit = Autocommit

\* Every call returns or raises, whatever is left on the connection and
\* wherever it breaks: the loops over rows and result sets all end.
CallsReturn == todo # <<>> ~> todo = <<>>
=============================================================================
