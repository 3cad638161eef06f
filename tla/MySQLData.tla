----------------------------- MODULE MySQLData -----------------------------
(***************************************************************************)
(* Rows on their way to the server and back, as pymysql 1.0.2 moves them   *)
(* (src/lambdas/primary-db-setup/package/pymysql): executemany puts rows   *)
(* together into INSERT statements (cursors.py), a statement is cut into   *)
(* packets (connections.py), and the packets of a result set are put       *)
(* together again, told apart, and read column by column (protocol.py,     *)
(* converters.py).  The server is external and does the reverse.           *)
(*                                                                         *)
(* Sizes are scaled down: MaxPacket stands for 2^24 - 1, SeqMod for 256,   *)
(* ByteMax, ShortMax and Int24Max for 251, 2^16 and 2^24, and Micro for    *)
(* the million of microseconds.  A byte of SQL text is the number of the   *)
(* row it belongs to, or one of four signs.                                *)
(***************************************************************************)
EXTENDS Integers, Sequences, FiniteSets

SX == INSTANCE SequencesExt

CONSTANTS
    TextArgs,           \* rows to insert into a column of text: lengths
    TimeArgs,           \* rows to insert into a column of times
    Columns,            \* columns of the result, all with the same value
    MaxPacket, SeqMod,
    ByteMax, ShortMax, Int24Max,
    MaxStmt,            \* max_stmt_length
    Prefix, Postfix,    \* lengths of what is before and after the rows
    Micro, Fsp,         \* fraction of a second; digits of it in the column
    MaxFaults           \* bound on refused statements and lost connections

Null == -1              \* NULL, in place of a length or of seconds

ASSUME DataAssumption ==
    /\ \A a \in TextArgs : a \in Seq(Nat \cup {Null}) /\ a # <<>>
    /\ \A a \in TimeArgs : a \in Seq([s : Int, f : 0..(Micro - 1)]) /\ a # <<>>
    /\ {Columns, Prefix, Postfix, MaxStmt} \subseteq Nat \ {0}
    /\ {ByteMax, ShortMax, Int24Max} \subseteq Nat
    /\ 0 < ByteMax /\ ByteMax <= 251 /\ ByteMax <= ShortMax /\ ShortMax <= Int24Max
    /\ MaxPacket \in Nat /\ MaxPacket > 15
    /\ SeqMod \in Nat \ {0, 1}
    /\ Micro = 100 /\ Fsp \in 0..2
    /\ MaxFaults \in Nat

VARIABLES
    cl,         \* the call: what it was given, and where it is
    up, down,   \* packets on their way
    server      \* the table, and the session

vars == <<cl, up, down, server>>

Repeat(x, n) == [i \in 1..n |-> x]

-----------------------------------------------------------------------------
(* TIME values.  A timedelta is in seconds s, rounded down, and fraction f. *)

AbsOf(n) == IF n < 0 THEN -n ELSE n

\* Python's days, seconds and microseconds: only days are ever negative.
EscapeTimedelta(t) ==
    LET seconds == t.s % 86400
        hours == ((seconds \div 3600) % 24) + ((t.s \div 86400) * 24)
    IN  [negate |-> IF hours < 0 THEN -1 ELSE 1, h |-> AbsOf(hours),
         m |-> (seconds \div 60) % 60, s |-> seconds % 60, f |-> t.f,
         digits |-> IF t.f = 0 THEN 0 ELSE 2]

\* (external) The least fraction of a second that a column TIME(Fsp) keeps.
Unit == CASE Fsp = 0 -> 100 [] Fsp = 1 -> 10 [] OTHER -> 1

\* (external) What the column shows of a literal it was given.
ServerTime(x) ==
    [x EXCEPT !.f = x.f \div Unit, !.digits = Fsp]

\* (mutant of ConvertSecondFraction) a fraction is not padded.
ConvertSecondFractionUnpadded(f, digits) == IF digits = 0 THEN 0 ELSE f

\* Zeros are appended up to the microsecond.
ConvertSecondFraction(f, digits) ==
    CASE digits = 0 -> 0 [] digits = 1 -> f * 10 [] OTHER -> f

ConvertTimedelta(x) ==
    LET size == (x.h * 3600 + x.m * 60 + x.s) * Micro + ConvertSecondFraction(x.f, x.digits)
        value == size * x.negate
    IN  [s |-> value \div Micro, f |-> value % Micro]

\* The times escape_timedelta writes as they are: a negative one has to be of
\* whole hours, for the sign it writes is that of the hours alone.
WrittenAsIs(t) == t.s >= 0 \/ (t.s % 3600 = 0 /\ t.f = 0)

\* (external) The times of which the column keeps all digits.
KeptInFull(t) == t.f % Unit = 0

-----------------------------------------------------------------------------
(* Statements.                                                             *)

CMD == -9
SELECT == -8
PREFIX == -7
POSTFIX == -6
COMMA == -5

\* A value between quotes and brackets, or (NULL).
TextLength(i) ==
    IF cl.col = "time" THEN 10
    ELSE IF cl.args[i] = Null THEN 6 ELSE cl.args[i] + 4

RowText(i) == Repeat(i, TextLength(i))

\* What a complete INSERT of the rows looks like.
Statement(rows) ==
    Repeat(PREFIX, Prefix)
    \o SX!FlattenSeq([k \in DOMAIN rows |->
                     (IF k = 1 THEN <<>> ELSE <<COMMA>>) \o RowText(rows[k])])
    \o Repeat(POSTFIX, Postfix)

\* The rows a server finds in a text: where a run of a row's bytes begins.
RowsIn(sql) ==
    LET Begins(p) == sql[p] > 0 /\ (p = 1 \/ sql[p - 1] # sql[p])
        rows[p \in 0..Len(sql)] ==
          IF p = 0 THEN <<>>
          ELSE IF Begins(p) THEN Append(rows[p - 1], sql[p])
          ELSE rows[p - 1]
    IN  rows[Len(sql)]

-----------------------------------------------------------------------------
(* Packets.                                                                *)

MinOf(a, b) == IF a < b THEN a ELSE b

Part(no, data) == [no |-> no, data |-> data]

\* Also of the server: a last part of MaxPacket bytes has an empty successor.
Split(payload) ==
    [k \in 1..(Len(payload) \div MaxPacket + 1) |->
        SubSeq(payload, (k - 1) * MaxPacket + 1, MinOf(k * MaxPacket, Len(payload)))]

Numbered(parts, first) ==
    [k \in DOMAIN parts |-> Part((first + k - 1) % SeqMod, parts[k])]

LenencInt(n) ==
    IF n < ByteMax THEN <<n>>
    ELSE IF n < ShortMax THEN <<252, n, 0>>
    ELSE IF n < Int24Max THEN <<253, n, 0, 0>>
    ELSE <<254, n, 0, 0, 0, 0, 0, 0, 0>>

OkPacket(rows) == <<0, rows, 0, 0, 0, 0, 0>>
ErrPacket == <<255, 0, 0, 0, 0, 0, 0, 0, 0>>
EofPacket == <<254, 0, 0, 0, 0>>
FieldPacket == <<3, 100, 100, 100, 100, 100, 100, 100, 100, 100, 100, 100, 100>>

IsOkPacket(p) == p[1] = 0 /\ Len(p) >= 7

\* (mutant of IsEofPacket) the first byte alone decides.
IsEofPacketByFirstByte(p) == p[1] = 254

IsEofPacket(p) == p[1] = 254 /\ Len(p) < 9

IsErrorPacket(p) == p[1] = 255

\* read_length_encoded_integer: the number, and how many bytes it takes.
LengthEncoded(p) ==
    CASE p[1] = 251 -> [n |-> Null, size |-> 1]
      [] p[1] < 251 -> [n |-> p[1], size |-> 1]
      [] p[1] = 252 -> [n |-> p[2] + 256 * p[3], size |-> 3]
      [] p[1] = 253 -> [n |-> p[2] + 256 * p[3], size |-> 4]
      [] p[1] = 254 -> [n |-> p[2] + 256 * p[3], size |-> 9]

-----------------------------------------------------------------------------
(* Values of a row, and how _get_descriptions has them converted.          *)

\* Bytes of the value of row i as the server sends it.
Letters(i, n) == Repeat(100 + i, n)

NullValue == [as |-> "None", v |-> <<>>]

\* The encoding a column is decoded with; bytes stay bytes.
Encoding(col) ==
    CASE col = "json" -> "str" [] col = "text" -> "str"
      [] col = "binary" -> "bytes" [] OTHER -> "ascii"

Converted(data) ==
    IF cl.col = "time"
      THEN [as |-> "timedelta",
            v |-> ConvertTimedelta(ServerTime(EscapeTimedelta(cl.args[data[1] - 100])))]
      ELSE [as |-> Encoding(cl.col), v |-> data]

ServerValue(i) ==
    IF cl.col = "time" THEN LenencInt(8) \o Letters(i, 8)
    ELSE IF cl.args[i] = Null THEN <<251>>
    ELSE LenencInt(cl.args[i]) \o Letters(i, cl.args[i])

ServerRow(i) == SX!FlattenSeq(Repeat(ServerValue(i), Columns))

\* _read_row_from_packet: the columns one after the other.
RowFrom(packet) ==
    LET read[k \in 0..Columns] ==
          IF k = 0 THEN [row |-> <<>>, rest |-> packet]
          ELSE LET before == read[k - 1]
                   l == LengthEncoded(before.rest)
                   n == IF l.n = Null THEN 0 ELSE l.n
                   data == SubSeq(before.rest, l.size + 1, l.size + n)
               IN  [row |-> Append(before.row, IF l.n = Null THEN NullValue ELSE Converted(data)),
                    rest |-> SubSeq(before.rest, l.size + n + 1, Len(before.rest))]
    IN  read[Columns].row

-----------------------------------------------------------------------------

Reading == {"reply", "header", "columns", "rows"}
Ended == {"fetched", "refused", "lost", "sequence wrong", "no EOF"}

DataInit ==
    /\ \E col \in {"text", "binary", "json", "time"}, bulk \in BOOLEAN :
        \E args \in IF col = "time" THEN TimeArgs ELSE TextArgs :
          cl = [pc |-> "fill", col |-> col, bulk |-> bulk, args |-> args, next |-> 1,
                sql |-> <<>>, left |-> <<>>, seq |-> 0, buffer |-> <<>>, fields |-> 0,
                rows |-> 0, fetched |-> <<>>]
    /\ up = <<>>
    /\ down = <<>>
    /\ server = [table |-> <<>>, seq |-> 0, buffer |-> <<>>, alive |-> TRUE,
                 disordered |-> FALSE, faults |-> 0]

-----------------------------------------------------------------------------
(* executemany.                                                            *)

\* (mutant of Fits) what follows the rows is not counted.
FitsWithoutPostfix(row) == Len(cl.sql) + Len(row) + 1 <= MaxStmt

Fits(row) == Len(cl.sql) + Len(row) + Postfix + 1 <= MaxStmt

MoreRows == cl.next <= Len(cl.args)

\* A statement begins with its first row, however long.  A query that is no
\* simple INSERT is executed row by row.
StartStatement ==
    /\ cl.pc = "fill"
    /\ cl.sql = <<>>
    /\ MoreRows
    /\ cl' = [cl EXCEPT !.sql = Repeat(PREFIX, Prefix) \o RowText(cl.next),
                        !.next = cl.next + 1]
    /\ UNCHANGED <<up, down, server>>

AddRow ==
    /\ cl.pc = "fill"
    /\ cl.sql # <<>>
    /\ cl.bulk
    /\ MoreRows
    /\ Fits(RowText(cl.next))
    /\ cl' = [cl EXCEPT !.sql = cl.sql \o <<COMMA>> \o RowText(cl.next),
                        !.next = cl.next + 1]
    /\ UNCHANGED <<up, down, server>>

\* _execute_command begins a command with packet number 0.
ExecuteStatement ==
    /\ cl.pc = "fill"
    /\ cl.sql # <<>>
    /\ ~(cl.bulk /\ MoreRows /\ Fits(RowText(cl.next)))
    /\ LET sql == cl.sql \o Repeat(POSTFIX, Postfix) IN
         cl' = [cl EXCEPT !.pc = "send", !.seq = 0, !.sql = sql, !.left = <<CMD>> \o sql]
    /\ UNCHANGED <<up, down, server>>

\* rowcount is set, and the rows are asked for.
ExecuteSelect ==
    /\ cl.pc = "fill"
    /\ cl.sql = <<>>
    /\ ~MoreRows
    /\ cl' = [cl EXCEPT !.pc = "send", !.seq = 0, !.left = <<CMD, SELECT>>]
    /\ UNCHANGED <<up, down, server>>

\* (mutant of NextNumber) a byte is never full.
NextNumberUnbounded(no) == no + 1

\* (mutant of NextNumber) the numbers begin again one too early.
NextNumberEarly(no) == (no + 1) % (SeqMod - 1)

NextNumber(no) == (no + 1) % SeqMod

\* (mutant of LastPart) no empty packet follows a full one.
LastPartFull(data, left) == left = <<>>

\* The part that ends a command: after a full one another has to follow.
LastPart(data, left) == left = <<>> /\ Len(data) < MaxPacket

SendPacket ==
    /\ cl.pc = "send"
    /\ server.alive
    /\ LET size == MinOf(MaxPacket, Len(cl.left))
           data == SubSeq(cl.left, 1, size)
           left == SubSeq(cl.left, size + 1, Len(cl.left))
       IN  /\ up' = Append(up, Part(cl.seq, data))
           /\ cl' = [cl EXCEPT !.seq = NextNumber(cl.seq), !.left = left,
                        !.pc = IF ~LastPart(data, left) THEN "send"
                               ELSE IF cl.sql = <<>> THEN "header" ELSE "reply"]
    /\ UNCHANGED <<down, server>>

\* _write_bytes or _read_bytes raises.
ServerGone ==
    /\ ~server.alive
    /\ cl.pc = "send" \/ (cl.pc \in Reading /\ down = <<>>)
    /\ cl' = [cl EXCEPT !.pc = "lost"]
    /\ UNCHANGED <<up, down, server>>

-----------------------------------------------------------------------------
(* Reading.                                                                *)

Arrives ==
    /\ cl.pc \in Reading
    /\ down # <<>>
    /\ down' = Tail(down)
    /\ UNCHANGED <<up, server>>

InOrder == Head(down).no = cl.seq

\* A part with which a packet ends.
Whole == InOrder /\ Len(Head(down).data) < MaxPacket

ReadPart ==
    /\ Arrives
    /\ InOrder
    /\ ~Whole
    /\ cl' = [cl EXCEPT !.seq = NextNumber(cl.seq),
                        !.buffer = cl.buffer \o Head(down).data]

\* What _read_packet returns: the parts of a packet, put together.
Packet == cl.buffer \o Head(down).data

Read(changed) == cl' = [changed EXCEPT !.seq = NextNumber(cl.seq), !.buffer = <<>>]

\* A wrong number is found in any part, an error in a whole packet.
ReadError ==
    /\ Arrives
    /\ InOrder => Whole /\ IsErrorPacket(Packet)
    /\ Read([cl EXCEPT !.pc = IF InOrder THEN "refused" ELSE "sequence wrong"])

\* (mutant of ReadOk) the rows of the last statement only are reported.
ReadOkLastCount ==
    /\ Arrives
    /\ Whole
    /\ cl.pc = "reply"
    /\ IsOkPacket(Packet)
    /\ Read([cl EXCEPT !.pc = "fill", !.sql = <<>>, !.rows = Packet[2]])

ReadOk ==
    /\ Arrives
    /\ Whole
    /\ cl.pc = "reply"
    /\ IsOkPacket(Packet)
    /\ Read([cl EXCEPT !.pc = "fill", !.sql = <<>>, !.rows = cl.rows + Packet[2]])

ReadHeader ==
    /\ Arrives
    /\ Whole
    /\ cl.pc = "header"
    /\ ~IsErrorPacket(Packet)
    /\ Read([cl EXCEPT !.pc = "columns", !.fields = LengthEncoded(Packet).n])

ReadField ==
    /\ Arrives
    /\ Whole
    /\ cl.pc = "columns"
    /\ cl.fields > 0
    /\ Read([cl EXCEPT !.fields = cl.fields - 1])

ReadFieldsEnd ==
    /\ Arrives
    /\ Whole
    /\ cl.pc = "columns"
    /\ cl.fields = 0
    /\ Read([cl EXCEPT !.pc = IF IsEofPacket(Packet) THEN "rows" ELSE "no EOF"])

ReadRow ==
    /\ Arrives
    /\ Whole
    /\ cl.pc = "rows"
    /\ ~IsErrorPacket(Packet) /\ ~IsEofPacket(Packet)
    /\ Read([cl EXCEPT !.fetched = Append(cl.fetched, RowFrom(Packet))])

ReadEnd ==
    /\ Arrives
    /\ Whole
    /\ cl.pc = "rows"
    /\ IsEofPacket(Packet)
    /\ Read([cl EXCEPT !.pc = "fetched"])

-----------------------------------------------------------------------------
(* The server (external).                                                  *)

Replies(packets, table, no) ==
    /\ down' = down \o Numbered(SX!FlattenSeq([k \in DOMAIN packets |-> Split(packets[k])]), no)
    /\ server' = [server EXCEPT !.table = table, !.buffer = <<>>, !.seq = 0]

\* A statement is executed as a whole or refused.
ServerExecutes(command, no) ==
    IF command = <<CMD, SELECT>>
      THEN Replies(<<LenencInt(Columns)>> \o Repeat(FieldPacket, Columns) \o <<EofPacket>>
                   \o [k \in DOMAIN server.table |-> ServerRow(server.table[k])]
                   \o <<EofPacket>>, server.table, no)
    ELSE LET rows == RowsIn(Tail(command)) IN
      IF Tail(command) = Statement(rows)
        THEN Replies(<<OkPacket(Len(rows))>>, server.table \o rows, no)
        ELSE Replies(<<ErrPacket>>, server.table, no)

ServerReceives ==
    /\ up # <<>>
    /\ server.alive
    /\ ~server.disordered
    /\ LET part == Head(up)
           buffer == server.buffer \o part.data
       IN  IF part.no # server.seq
             THEN server' = [server EXCEPT !.disordered = TRUE] /\ UNCHANGED down
           ELSE IF Len(part.data) = MaxPacket
             THEN /\ server' = [server EXCEPT !.buffer = buffer, !.seq = (server.seq + 1) % SeqMod]
                  /\ UNCHANGED down
           ELSE ServerExecutes(buffer, server.seq + 1)
    /\ up' = Tail(up)
    /\ UNCHANGED cl

\* A lock, a duplicate key, a limit of the server: after all has been read.
ServerRefuses ==
    /\ up # <<>>
    /\ server.alive
    /\ server.faults < MaxFaults
    /\ Len(Head(up).data) < MaxPacket
    /\ down' = Append(down, Part((server.seq + 1) % SeqMod, ErrPacket))
    /\ server' = [server EXCEPT !.faults = server.faults + 1, !.buffer = <<>>, !.seq = 0]
    /\ up' = Tail(up)
    /\ UNCHANGED cl

\* What was on its way may or may not have arrived.
ConnectionLost ==
    /\ server.alive
    /\ server.faults < MaxFaults
    /\ server' = [server EXCEPT !.alive = FALSE, !.faults = server.faults + 1]
    /\ \E k \in 0..Len(down) : down' = SubSeq(down, 1, k)
    /\ up' = <<>>
    /\ UNCHANGED cl

-----------------------------------------------------------------------------

DataNext ==
    \/ StartStatement \/ AddRow \/ ExecuteStatement \/ ExecuteSelect
    \/ SendPacket \/ ServerGone
    \/ ReadPart \/ ReadError \/ ReadOk
    \/ ReadHeader \/ ReadField \/ ReadFieldsEnd \/ ReadRow \/ ReadEnd
    \/ ServerReceives \/ ServerRefuses \/ ConnectionLost

DataSpec == DataInit /\ [][DataNext]_vars

-----------------------------------------------------------------------------
(* What executemany promises.                                              *)

Outcome ==
    IF cl.sql = <<>> /\ ~MoreRows /\ cl.pc # "fill" THEN <<"rows", cl.rows>>
    ELSE IF cl.pc \in Ended THEN <<"failed", 0>>
    ELSE <<"running", 0>>

Loop == INSTANCE RowLoop WITH given <- Len(cl.args), inserted <- server.table,
                              outcome <- Outcome

-----------------------------------------------------------------------------
(* Properties.                                                             *)

\* Every variable keeps its type; what is kept of a packet is full parts.
DataTypeOK ==
    /\ cl.pc \in {"fill", "send"} \cup Reading \cup Ended
    /\ cl.args \in IF cl.col = "time" THEN TimeArgs ELSE TextArgs
    /\ cl.next \in 1..(Len(cl.args) + 1)
    /\ {cl.seq, server.seq} \subseteq 0..(SeqMod - 1)
    /\ cl.fields \in 0..Columns
    /\ cl.rows \in 0..Len(cl.args)
    /\ Len(cl.buffer) % MaxPacket = 0 /\ Len(server.buffer) % MaxPacket = 0
    /\ \A i \in DOMAIN up : up[i].no \in 0..(SeqMod - 1) /\ Len(up[i].data) <= MaxPacket
    /\ \A i \in DOMAIN down : down[i].no \in 0..(SeqMod - 1) /\ Len(down[i].data) <= MaxPacket

\* However the rows are put together into statements and these into packets,
\* and wherever the connection breaks or a statement is refused, the table
\* gets what execute() in a loop would have put there, and rowcount is the
\* number of rows given (cursors.py 160-162, 185-213).
ImplementsLoop == Loop!LoopSpec

\* A statement of more than one row is within max_stmt_length, its end
\* included, so that a server that takes any of the rows alone takes it
\* (cursors.py 28-32, 205).
StatementsFit ==
    cl.pc \in {"send", "reply"} /\ Len(RowsIn(cl.sql)) > 1 => Len(cl.sql) <= MaxStmt

\* Neither end finds the other's packets out of order, and no packet is taken
\* for one of another kind: not where the numbers begin again from 0, where a
\* part is full or empty, or where a row begins like an EOF or an error.  A
\* call that fails, fails for a statement that was refused or a connection that
\* broke (connections.py 697-719, 813-828; protocol.py 183-191, 206-207).
NoFalseAlarm ==
    /\ cl.pc \notin {"sequence wrong", "no EOF"}
    /\ ~server.disordered
    /\ cl.pc \in {"refused", "lost"} => server.faults > 0

\* What the SELECT should give for row i.
GivenRow(i) ==
    Repeat(CASE cl.col = "time" -> [as |-> "timedelta", v |-> cl.args[i]]
             [] cl.col # "time" /\ cl.args[i] = Null -> NullValue
             [] OTHER -> [as |-> IF cl.col = "binary" THEN "bytes" ELSE "str",
                          v |-> Letters(i, cl.args[i])],
           Columns)

\* The rows read are the rows given, of the same types: whatever the lengths,
\* NULL or empty, and for times up to the precision of the column.  Excepted
\* are the negative times that escape_timedelta writes wrongly (connections.py
\* 1279-1296, 1306-1335; converters.py 102-110, 142-147, 189-230).
RowsComeBack ==
    cl.pc = "fetched" =>
        /\ Len(cl.fetched) = Len(cl.args)
        /\ \A i \in DOMAIN cl.args :
             (cl.col = "time" => WrittenAsIs(cl.args[i]) /\ KeptInFull(cl.args[i]))
               => cl.fetched[i] = GivenRow(i)

\* Neither end waits for a part the other does not send: while the client
\* reads, something is on its way to either of them or the connection is gone
\* (connections.py 683-726, 813-828: the empty packet after a full one).
NobodyWaits ==
    cl.pc \in Reading /\ server.alive => up # <<>> \/ down # <<>>
=============================================================================
