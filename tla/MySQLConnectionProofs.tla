----------------------- MODULE MySQLConnectionProofs -----------------------
(***************************************************************************)
(* Theorems about MySQLConnection, for any cursors, any answers a server   *)
(* may give, any modulus of the packet numbers and any number of calls and *)
(* faults.                                                                 *)
(***************************************************************************)
EXTENDS MySQLConnection, SequenceTheorems, TLAPS

Readers == {"read", "readUnbuffered", "rows", "ok", "giveUp"}
OfCursor == {"execute", "call", "nextset", "closing", "finish", "fetch", "skip"}
OfConnection == {"simple", "setauto", "connect", "connecting", "autocommit", "retry"}

(***************************************************************************)
(* The rest of a call: only its first piece reads, one that is a cursor's  *)
(* names it, a query waits at most for the connection's own reads, and     *)
(* nothing but a command follows connect().                                *)
(***************************************************************************)
TodoInv ==
    \A i \in DOMAIN todo : LET t == todo[i] IN
        /\ i > 1 => t.op \notin Readers \cup {"finish", "fetch", "skip", "connect"}
        /\ t.op \in OfCursor => t.c \in Cursors
        /\ t.op \in OfConnection => t.c = NoCursor
        /\ t.op = "query" /\ t.c \in Cursors => i = 1 \/ (i = 2 /\ Op \in Readers /\ C = NoCursor)
        /\ t.op \in {"connect", "connecting"} =>
             \A j \in DOMAIN todo : j > i => todo[j].op = "simple"

Reading == todo # <<>> /\ Op \in Readers

(***************************************************************************)
(* After a command sent over what an earlier one has left, the client can  *)
(* only find the packet numbers wrong.                                     *)
(***************************************************************************)
Stuck == NeedsPacket /\ wire # <<>> /\ ~InSequence

\* The wire has packets of the last command alone.
OwnPackets == \A i \in DOMAIN wire : wire[i].cmd = server.commands

\* The packets of an answer come in order; the last of a server that shuts
\* down is numbered 0, and alone can follow the end of an answer.
InOrder ==
    \A i \in DOMAIN wire :
        /\ wire[i].at = 0 => wire[i].kind = "err" /\ ~server.alive
        /\ wire[i].kind \in Last => \A j \in DOMAIN wire : j > i => wire[j].at = 0
        /\ \A j \in DOMAIN wire : i < j /\ wire[j].at # 0 => wire[i].at < wire[j].at

WireInv == conn.sock = "open" => Stuck \/ (OwnPackets /\ InOrder)

(***************************************************************************)
(* A packet that the next answer's first could be taken for is one the     *)
(* client is still to read, whatever number answers wrap at; what is       *)
(* waited for after a command without rows is one packet.                  *)
(***************************************************************************)
HeadInv ==
    conn.sock = "open" /\ ~Stuck =>
        /\ wire # <<>> /\ P.at % SeqMod = 1 =>
             Reading \/ conn.result.active \/ conn.result.more
        /\ todo # <<>> /\ Op \in {"ok", "giveUp"} =>
             \A i \in DOMAIN wire : wire[i].kind \in {"ok", "err"}

(***************************************************************************)
(* The results the connection and the cursors know.                        *)
(***************************************************************************)
ResultInv ==
    /\ conn.result.id # NoId => conn.result.id[1] = server.commands
    /\ conn.result.active => conn.result.id # NoId
    /\ Reading => conn.result = NoResult

CursorInv ==
    /\ \A c \in Cursors :
         /\ cursor[c].cmd <= server.commands
         /\ cursor[c].result # NoId => cursor[c].result[1] = cursor[c].cmd
    /\ \A i \in DOMAIN todo : todo[i].op = "query" /\ todo[i].c \in Cursors =>
         cursor[todo[i].c].rows = <<>> /\ cursor[todo[i].c].result = NoId
    /\ Reading /\ C \in Cursors => cursor[C].cmd = server.commands
    /\ todo # <<>> /\ Op = "fetch" => conn.result.active /\ cursor[C].result = conn.result.id

\* Rows of one command, in order.
Rising(rows, cmd) ==
    \A i \in DOMAIN rows :
        /\ rows[i][1] = cmd
        /\ i > 1 => rows[i - 1][2] < rows[i][2]

\* They come before what is still to be read.
Before(rows, packets) ==
    \A i \in DOMAIN rows, j \in DOMAIN packets : packets[j].at # 0 => rows[i][2] < packets[j].at

PartialInv ==
    todo # <<>> /\ Op = "rows" =>
        /\ conn.partial[1][1] = server.commands
        /\ Rising(conn.partial[2], server.commands)

BeforeInv ==
    conn.sock = "open" /\ ~Stuck =>
        /\ todo # <<>> /\ Op = "rows" => Before(conn.partial[2], wire)
        /\ \A c \in Cursors : cursor[c].cmd = server.commands => Before(cursor[c].rows, wire)

\* RowsAreOwn without its exception.
RowsOwned == \A c \in Cursors : Rising(cursor[c].rows, cursor[c].cmd)

RowsInv == ResultInv /\ CursorInv /\ PartialInv /\ BeforeInv /\ RowsOwned

(***************************************************************************)
(* A session whose mode is not the one asked for is one that connect() is  *)
(* still to set.                                                           *)
(***************************************************************************)
AutocommitInv ==
    conn.sock = "open" /\ server.alive /\ server.autocommit # Autocommit =>
        /\ Pending("connecting")
        /\ \/ Pending("autocommit") /\ conn.status = server.autocommit
           \/ Pending("setauto")

(***************************************************************************)
(* What the client waits for is on the wire.                               *)
(***************************************************************************)
WellFormed ==
    \A i \in DOMAIN wire :
        /\ (i = Len(wire)) <=> (wire[i].kind \in Last)
        /\ i > 1 => wire[i].kind \in
             IF wire[i - 1].kind \in {"okMore", "eofMore"} THEN Start ELSE InSet

Promised ==
    /\ WellFormed
    /\ (todo # <<>> /\ Op = "rows") \/ conn.result.active =>
         wire # <<>> /\ P.kind \in InSet
    /\ (todo # <<>> /\ Op \in {"read", "readUnbuffered"}) \/ conn.result.more =>
         wire # <<>> /\ P.kind \in Start
    /\ todo # <<>> /\ Op \in {"ok", "giveUp"} =>
         wire # <<>> /\ P.kind \in {"ok", "err"}

PromisedInv == conn.sock = "open" /\ server.alive => Stuck \/ Promised

\* An application that reads its results before it reconnects has none left
\* when ping's command, or connect, is under way.
FinishedInv ==
    /\ Pending("connect") \/ Pending("retry") => ~conn.result.active /\ ~conn.result.more
    /\ \A i \in DOMAIN todo : todo[i].op = "retry" =>
         i = 1 \/ (i = 2 /\ Op \in {"simple", "ok"})

-----------------------------------------------------------------------------
(* Sequences of pieces of a call and of packets.                           *)

\* Head and Tail of a sequence that is not empty.
LEMMA TailSeq ==
    ASSUME NEW S, NEW s \in Seq(S), s # <<>>
    PROVE  /\ 1 \in DOMAIN s /\ Head(s) = s[1] /\ Head(s) \in S
           /\ Tail(s) \in Seq(S) /\ Len(s) \in Nat \ {0} /\ Len(Tail(s)) = Len(s) - 1
           /\ \A i \in DOMAIN Tail(s) :
                i \in Nat \ {0} /\ i + 1 \in DOMAIN s /\ Tail(s)[i] = s[i + 1]
<1>1. Len(s) \in Nat \ {0} /\ DOMAIN s = 1..Len(s)
  BY EmptySeq, LenProperties
<1>2. /\ Tail(s) \in Seq(S) /\ Len(Tail(s)) = Len(s) - 1
      /\ Head(s) \in S /\ \A i \in 1..Len(Tail(s)) : Tail(s)[i] = s[i + 1]
  BY HeadTailProperties
<1>3. DOMAIN Tail(s) = 1..Len(Tail(s))
  BY <1>2, LenProperties
<1>4. Head(s) = s[1]
  OBVIOUS
<1>5. QED
  BY <1>1, <1>2, <1>3, <1>4

(***************************************************************************)
(* A task put in front of the others.                                      *)
(***************************************************************************)
LEMMA FrontSeq ==
    ASSUME NEW S, NEW s \in Seq(S), NEW x \in S
    PROVE  /\ <<x>> \o s \in Seq(S) /\ <<x>> \o s # <<>>
           /\ Head(<<x>> \o s) = x /\ Tail(<<x>> \o s) = s
           /\ 1 \in DOMAIN (<<x>> \o s) /\ (<<x>> \o s)[1] = x
           /\ \A i \in DOMAIN (<<x>> \o s) : i \in Nat \ {0} /\
                (i # 1 => i - 1 \in DOMAIN s /\ (<<x>> \o s)[i] = s[i - 1])
           /\ \A i \in DOMAIN s : i + 1 \in DOMAIN (<<x>> \o s) /\ (<<x>> \o s)[i + 1] = s[i]
OBVIOUS


(***************************************************************************)
(* Sequences of no, one and two elements.                                  *)
(***************************************************************************)
LEMMA ShortSeqs ==
    ASSUME NEW S
    PROVE  /\ <<>> \in Seq(S) /\ DOMAIN <<>> = {}
           /\ \A x, y \in S :
                /\ <<x>> \in Seq(S) /\ <<x>> # <<>> /\ DOMAIN <<x>> = {1}
                /\ <<x>>[1] = x /\ Head(<<x>>) = x /\ Tail(<<x>>) = <<>>
                /\ <<x, y>> \in Seq(S) /\ <<x, y>> # <<>> /\ DOMAIN <<x, y>> = {1, 2}
                /\ <<x, y>>[1] = x /\ <<x, y>>[2] = y
                /\ Head(<<x, y>>) = x /\ Tail(<<x, y>>) = <<y>>
OBVIOUS

-----------------------------------------------------------------------------
(* Types.                                                                  *)

ConnType ==
    [sock : {"none", "open", "dead"}, closed : BOOLEAN, seq : 0..(SeqMod - 1), result : ResultIn,
     partial : PacketIds \X Seq(PacketIds), status : BOOLEAN]

CursorType ==
    [attached : BOOLEAN, result : PacketIds, rows : Seq(PacketIds), rownumber : Nat, cmd : Nat]

TaskType == [op : Ops, c : Cursors \cup {NoCursor}]

PacketType == [kind : PacketKinds, cmd : Nat, at : Nat]

ServerType ==
    [alive : BOOLEAN, autocommit : BOOLEAN, commands : Nat, calls : Nat, faults : Nat,
     stray : BOOLEAN]

Types ==
    /\ conn \in ConnType
    /\ cursor \in [Cursors -> CursorType]
    /\ todo \in Seq(TaskType)
    /\ wire \in Seq(PacketType)
    /\ server \in ServerType
    /\ taken \in PacketIds
    /\ conn.result.active => ~conn.result.more

(***************************************************************************)
(* Types is the type invariant of the run, its types named.                *)
(***************************************************************************)
LEMMA TypesAre == Types <=> MySQLTypeOK
BY DEF Types, MySQLTypeOK, ConnType, CursorType, TaskType, PacketType, ServerType

(***************************************************************************)
(* Packet numbers are counted modulo SeqMod (_read_packet 697-708).        *)
(***************************************************************************)
LEMMA Modulus ==
    ASSUME MySQLAssumption, NEW n \in Nat
    PROVE  /\ n % SeqMod \in 0..(SeqMod - 1)
           /\ n = 0 => n % SeqMod # 1
           /\ 1 \in 0..(SeqMod - 1) /\ 0 \in 0..(SeqMod - 1)
<1>1. SeqMod \in Nat /\ SeqMod > 1
  BY DEF MySQLAssumption
<1>2. n % SeqMod \in 0..(SeqMod - 1)
  BY <1>1
<1>3. 0 % SeqMod = 0
  BY <1>1
<1>4. QED
  BY <1>1, <1>2, <1>3

(***************************************************************************)
(* The values written out in the module have their types.                  *)
(***************************************************************************)
LEMMA Constants ==
    /\ NoId \in PacketIds /\ NoResult \in ResultIn /\ NoRows \in PacketIds \X Seq(PacketIds)
    /\ NoResult.id = NoId /\ ~NoResult.active /\ ~NoResult.more
    /\ NewCursor \in CursorType
    /\ NewCursor.rows = <<>> /\ NewCursor.result = NoId /\ NewCursor.cmd = 0
    /\ \A id \in PacketIds, active, more \in BOOLEAN :
         /\ Result(id, active, more) \in ResultIn
         /\ Result(id, active, more).id = id
         /\ Result(id, active, more).active = active
         /\ Result(id, active, more).more = more
<1>1. NoId \in PacketIds /\ <<>> \in Seq(PacketIds)
  BY DEF NoId, PacketIds
<1>2. \A id \in PacketIds, active, more \in BOOLEAN :
         /\ Result(id, active, more) \in ResultIn
         /\ Result(id, active, more).id = id
         /\ Result(id, active, more).active = active
         /\ Result(id, active, more).more = more
  BY DEF Result, ResultIn
<1>3. NoResult \in ResultIn /\ NoResult.id = NoId /\ ~NoResult.active /\ ~NoResult.more
  BY <1>1, <1>2 DEF NoResult
<1>4. /\ NewCursor \in CursorType
      /\ NewCursor.rows = <<>> /\ NewCursor.result = NoId /\ NewCursor.cmd = 0
  BY <1>1 DEF NewCursor, CursorType
<1>5. QED
  BY <1>1, <1>2, <1>3, <1>4 DEF NoRows

(***************************************************************************)
(* A task has the type, the operation and the cursor it was made with.     *)
(***************************************************************************)
LEMMA Tasks ==
    /\ \A op \in {"query", "simple", "setauto", "execute", "call", "nextset", "closing", "finish",
                 "fetch", "skip", "rows", "ok", "giveUp", "read", "connect", "connecting",
                 "autocommit", "retry"}, c \in Cursors \cup {NoCursor} :
         Task(op, c) \in TaskType /\ Task(op, c).op = op /\ Task(op, c).c = c
    /\ \A c \in Cursors \cup {NoCursor} :
         /\ ReadAnswer(c) \in TaskType /\ ReadAnswer(c).c = c
         /\ ReadAnswer(c).op \in {"read", "readUnbuffered"}
<1>1. \A op \in {"query", "simple", "setauto", "execute", "call", "nextset", "closing", "finish",
                 "fetch", "skip", "rows", "ok", "giveUp", "read", "readUnbuffered", "connect",
                 "connecting", "autocommit", "retry"}, c \in Cursors \cup {NoCursor} :
         Task(op, c) \in TaskType /\ Task(op, c).op = op /\ Task(op, c).c = c
  BY DEF Task, TaskType, Ops, Commands
<1>2. \A c \in Cursors \cup {NoCursor} :
         /\ ReadAnswer(c) \in TaskType /\ ReadAnswer(c).c = c
         /\ ReadAnswer(c).op \in {"read", "readUnbuffered"}
  BY <1>1 DEF ReadAnswer
<1>3. QED
  BY <1>1, <1>2

(***************************************************************************)
(* The first piece of a call, and the first packet there is.               *)
(***************************************************************************)
LEMMA FirstTask ==
    ASSUME Types, todo # <<>>
    PROVE  /\ Op \in Ops /\ C \in Cursors \cup {NoCursor} /\ Rest \in Seq(TaskType)
           /\ 1 \in DOMAIN todo /\ todo[1].op = Op /\ todo[1].c = C
           /\ \A i \in DOMAIN Rest : i + 1 \in DOMAIN todo /\ Rest[i] = todo[i + 1]
                                     /\ i \in Nat \ {0}
<1>1. todo \in Seq(TaskType)
  BY DEF Types
<1>2. /\ 1 \in DOMAIN todo /\ Head(todo) = todo[1] /\ Head(todo) \in TaskType
      /\ Tail(todo) \in Seq(TaskType)
      /\ \A i \in DOMAIN Tail(todo) :
           i \in Nat \ {0} /\ i + 1 \in DOMAIN todo /\ Tail(todo)[i] = todo[i + 1]
  BY <1>1, TailSeq
<1>3. Op \in Ops /\ C \in Cursors \cup {NoCursor}
  BY <1>2 DEF Op, C, TaskType
<1>4. QED
  BY <1>2, <1>3 DEF Op, C, Rest

(***************************************************************************)
(* The packet that would be read next, and those behind it.                *)
(***************************************************************************)
LEMMA FirstPacket ==
    ASSUME Types, wire # <<>>
    PROVE  /\ P \in PacketType /\ P = wire[1] /\ 1 \in DOMAIN wire
           /\ P.kind \in PacketKinds /\ P.cmd \in Nat /\ P.at \in Nat
           /\ <<P.cmd, P.at>> \in PacketIds
           /\ Tail(wire) \in Seq(PacketType)
           /\ \A i \in DOMAIN Tail(wire) : i + 1 \in DOMAIN wire /\ Tail(wire)[i] = wire[i + 1]
                                           /\ i \in Nat \ {0}
<1>1. wire \in Seq(PacketType)
  BY DEF Types
<1>2. /\ 1 \in DOMAIN wire /\ Head(wire) = wire[1] /\ Head(wire) \in PacketType
      /\ Tail(wire) \in Seq(PacketType)
      /\ \A i \in DOMAIN Tail(wire) :
           i \in Nat \ {0} /\ i + 1 \in DOMAIN wire /\ Tail(wire)[i] = wire[i + 1]
  BY <1>1, TailSeq
<1>3. P.kind \in PacketKinds /\ P.cmd \in Nat /\ P.at \in Nat /\ <<P.cmd, P.at>> \in PacketIds
  BY <1>2 DEF P, PacketType, PacketIds
<1>4. QED
  BY <1>2, <1>3 DEF P

(***************************************************************************)
(* An exception ends the call or, in ping, starts the next try, and leaves *)
(* what the connection and the cursors know of results.                    *)
(***************************************************************************)
LEMMA RaiseStep ==
    ASSUME Types, NEW cn \in ConnType, Raise(cn)
    PROVE  /\ conn' \in ConnType
           /\ conn'.result = cn.result /\ conn'.seq = cn.seq /\ conn'.status = cn.status
           /\ conn'.sock = "open" => cn.sock = "open" /\ ~Pending("connecting")
           /\ todo' = IF Pending("retry") THEN Reconnect ELSE <<>>
           /\ todo' \in Seq(TaskType)
           /\ cursor' \in [Cursors -> CursorType]
           /\ \A c \in Cursors :
                /\ cursor'[c].rows = cursor[c].rows
                /\ cursor'[c].result = cursor[c].result
                /\ cursor'[c].cmd = cursor[c].cmd
<1>1. /\ conn' \in ConnType
      /\ conn'.result = cn.result /\ conn'.seq = cn.seq /\ conn'.status = cn.status
      /\ conn'.sock = "open" => cn.sock = "open" /\ ~Pending("connecting")
  BY Constants DEF Raise, ConnType
<1>2. todo' \in Seq(TaskType)
  <2>1. Task("connect", NoCursor) \in TaskType /\ Task("simple", NoCursor) \in TaskType
    BY Tasks
  <2>2. QED
    BY <2>1, ShortSeqs DEF Raise, Reconnect
<1>3. \A c \in Cursors :
        cursor'[c] = cursor[c] \/ cursor'[c] = [cursor[c] EXCEPT !.attached = FALSE]
  BY DEF Raise
<1>4. \A c \in Cursors :
        /\ cursor'[c] \in CursorType
        /\ cursor'[c].rows = cursor[c].rows
        /\ cursor'[c].result = cursor[c].result
        /\ cursor'[c].cmd = cursor[c].cmd
  BY <1>3 DEF Types, CursorType
<1>5. cursor' \in [Cursors -> CursorType]
  BY <1>4 DEF Raise
<1>6. QED
  BY <1>1, <1>2, <1>4, <1>5 DEF Raise

(***************************************************************************)
(* A packet with the right number is taken off the wire                    *)
(* (_read_packet 692-729).                                                 *)
(***************************************************************************)
LEMMA AcceptStep ==
    ASSUME MySQLAssumption, Types, Readable, InSequence
    PROVE  /\ todo # <<>> /\ wire # <<>> /\ conn.sock = "open"
           /\ Advanced \in ConnType /\ Advanced.sock = "open"
           /\ Advanced.result = conn.result /\ Advanced.partial = conn.partial
           /\ Advanced.status = conn.status
           /\ <<P.cmd, server.commands>> \in PacketIds
           /\ Op \in Readers \/ conn.result.active
           /\ Op \in Readers \cup Commands \cup {"fetch", "skip", "finish"}
<1>1. (conn.seq + 1) % SeqMod \in 0..(SeqMod - 1)
  <2>1. conn.seq \in 0..(SeqMod - 1) /\ SeqMod \in Nat
    BY DEF Types, ConnType, MySQLAssumption
  <2>2. conn.seq + 1 \in Nat
    BY <2>1
  <2>3. QED
    BY <2>2, Modulus
<1>2. /\ Advanced \in ConnType /\ Advanced.sock = conn.sock
      /\ Advanced.result = conn.result /\ Advanced.partial = conn.partial
      /\ Advanced.status = conn.status
  BY <1>1 DEF Advanced, Types, ConnType
<1>3. todo # <<>> /\ wire # <<>> /\ conn.sock = "open"
  BY DEF Readable, NeedsPacket
<1>4. <<P.cmd, server.commands>> \in PacketIds
  BY <1>3, FirstPacket DEF Types, ServerType, PacketIds
<1>5. /\ Op \in Readers \/ conn.result.active
      /\ Op \in Readers \cup Commands \cup {"fetch", "skip", "finish"}
  BY DEF Readable, NeedsPacket, Readers
<1>6. QED
  BY <1>2, <1>3, <1>4, <1>5

(***************************************************************************)
(* A result is complete, or has begun to be streamed                       *)
(* (_read_query_result 775-790, _do_get_result of cursors.py).             *)
(***************************************************************************)
LEMMA CompleteStep ==
    ASSUME MySQLAssumption, Types, Readable, InSequence,
           NEW id \in PacketIds, NEW active \in BOOLEAN, NEW more \in BOOLEAN,
           NEW rows \in Seq(PacketIds), Complete(id, active, more, rows)
    PROVE  /\ conn' \in ConnType /\ conn'.sock = "open"
           /\ conn'.result.id = id /\ conn'.result.active = active /\ conn'.result.more = more
           /\ conn'.status \in {conn.status, server.autocommit}
           /\ cursor' \in [Cursors -> CursorType]
           /\ \A c \in Cursors :
                /\ cursor'[c].cmd = cursor[c].cmd
                /\ cursor'[c].rows = IF c = C THEN rows ELSE cursor[c].rows
                /\ cursor'[c].result = IF c = C THEN id ELSE cursor[c].result
           /\ todo' = Rest /\ todo' \in Seq(TaskType)
           /\ server' = server
<1>1. /\ Advanced \in ConnType /\ Advanced.sock = "open" /\ todo # <<>>
  BY AcceptStep
<1>2. Rest \in Seq(TaskType) /\ C \in Cursors \cup {NoCursor}
  BY <1>1, FirstTask
<1>3. /\ Result(id, active, more) \in ResultIn
      /\ Result(id, active, more).id = id
      /\ Result(id, active, more).active = active
      /\ Result(id, active, more).more = more
      /\ NoRows \in PacketIds \X Seq(PacketIds)
  BY Constants
<1>4. server.autocommit \in BOOLEAN /\ conn.status \in BOOLEAN
  BY DEF Types, ServerType, ConnType
<1> DEFINE status == IF P.kind \in {"ok", "okMore"} THEN server.autocommit ELSE conn.status
<1>5. status \in BOOLEAN /\ status \in {conn.status, server.autocommit}
  BY <1>4
<1>6. conn' = [Advanced EXCEPT !.result = Result(id, active, more), !.partial = NoRows,
                               !.status = status]
  BY DEF Complete
<1> HIDE DEF status
<1>7. /\ conn' \in ConnType /\ conn'.sock = "open" /\ conn'.status = status
      /\ conn'.result = Result(id, active, more)
  BY <1>1, <1>3, <1>5, <1>6 DEF ConnType
<1>8. /\ cursor' \in [Cursors -> CursorType]
      /\ \A c \in Cursors :
           /\ cursor'[c].cmd = cursor[c].cmd
           /\ cursor'[c].rows = IF c = C THEN rows ELSE cursor[c].rows
           /\ cursor'[c].result = IF c = C THEN id ELSE cursor[c].result
  <2>1. CASE C = NoCursor
    <3>1. cursor' = cursor /\ C \notin Cursors
      BY <2>1 DEF Complete, MySQLAssumption
    <3>2. QED
      BY <3>1 DEF Types
  <2>2. CASE C # NoCursor
    <3>1. C \in Cursors /\ cursor' = [cursor EXCEPT ![C].result = id, ![C].rows = rows]
      BY <1>2, <2>2 DEF Complete
    <3>2. QED
      BY <3>1 DEF Types, CursorType
  <2>3. QED
    BY <2>1, <2>2
<1>9. QED
  BY <1>2, <1>3, <1>5, <1>7, <1>8 DEF Complete

-----------------------------------------------------------------------------
(* The rest of a call.                                                     *)

TodoOK == todo \in Seq(TaskType) /\ TodoInv

(***************************************************************************)
(* The first piece of the call is done.                                    *)
(***************************************************************************)
LEMMA DropFirst ==
    ASSUME Types, TodoInv, todo # <<>>, todo' = Rest
    PROVE  TodoOK'
<1>1. /\ todo' \in Seq(TaskType)
      /\ \A i \in DOMAIN todo' : i + 1 \in DOMAIN todo /\ todo'[i] = todo[i + 1] /\ i \in Nat \ {0}
  BY FirstTask
<1>2. QED
  BY <1>1 DEF TodoOK, TodoInv

(***************************************************************************)
(* The first piece of the call makes way for another one.                  *)
(***************************************************************************)
LEMMA ReplaceFirst ==
    ASSUME Types, TodoInv, todo # <<>>, NEW t \in TaskType, todo' = <<t>> \o Rest,
           t.c = C, t.op \notin {"connect", "connecting"},
           t.op \in OfCursor => C \in Cursors,
           t.op \in OfConnection => C = NoCursor,
           Op \in Readers => t.op \in Readers
    PROVE  TodoOK' /\ todo' # <<>> /\ Op' = t.op /\ C' = t.c
<1>1. Rest \in Seq(TaskType)
  BY FirstTask
<1>2. /\ todo' \in Seq(TaskType) /\ todo' # <<>> /\ Head(todo') = t /\ todo'[1] = t
      /\ \A i \in DOMAIN todo' : i \in Nat \ {0} /\
           (i # 1 => i - 1 \in DOMAIN Rest /\ todo'[i] = Rest[i - 1])
  BY <1>1, FrontSeq
<1>3. \A i \in DOMAIN todo' : i \in Nat \ {0} /\ (i # 1 => i \in DOMAIN todo /\ todo'[i] = todo[i])
  BY <1>2, FirstTask
<1>4. Op' = t.op /\ C' = t.c
  BY <1>2 DEF Op, C
<1>5. TodoInv'
  BY <1>2, <1>3, <1>4 DEF TodoInv, OfCursor, OfConnection
<1>6. QED
  BY <1>2, <1>4, <1>5 DEF TodoOK

(***************************************************************************)
(* A read is put before the call.                                          *)
(***************************************************************************)
LEMMA PutFirst ==
    ASSUME Types, TodoInv, todo # <<>>, NEW t \in TaskType, todo' = <<t>> \o todo,
           t.op \in {"read", "readUnbuffered"},
           \/ Op \in Commands /\ t.c = NoCursor
           \/ Op \in {"execute", "closing"}
    PROVE  TodoOK' /\ todo' # <<>> /\ Op' = t.op /\ C' = t.c
<1>1. /\ todo' \in Seq(TaskType) /\ todo' # <<>> /\ Head(todo') = t /\ todo'[1] = t
      /\ \A i \in DOMAIN todo' : i \in Nat \ {0} /\
           (i # 1 => i - 1 \in DOMAIN todo /\ todo'[i] = todo[i - 1])
  BY FrontSeq DEF Types
<1>2. Op' = t.op /\ C' = t.c
  BY <1>1 DEF Op, C
<1>3. /\ Op \notin Readers \cup {"finish", "fetch", "skip", "connect", "connecting"}
      /\ todo[1].op = Op
  BY FirstTask DEF Commands, Readers
<1>4. TodoInv'
  BY <1>1, <1>2, <1>3 DEF TodoInv, OfCursor, OfConnection, Readers, Commands
<1>5. QED
  BY <1>1, <1>2, <1>4 DEF TodoOK

(***************************************************************************)
(* A call that begins, or is given up.                                     *)
(***************************************************************************)
LEMMA NewCall ==
    ASSUME NEW t \in TaskType, NEW u \in TaskType,
           t.op \notin Readers \cup {"query", "connecting"},
           u.op \in {"simple", "retry", "closing", "call", "nextset"},
           \A x \in {t, u} : /\ x.op \in OfCursor => x.c \in Cursors
                             /\ x.op \in OfConnection => x.c = NoCursor,
           t.op = "connect" => u.op = "simple",
           todo' \in {<<>>, <<t>>, <<t, u>>}
    PROVE  TodoOK'
<1>1. CASE todo' = <<>>
  BY <1>1, ShortSeqs DEF TodoOK, TodoInv
<1>2. CASE todo' = <<t>>
  <2>1. todo' \in Seq(TaskType) /\ DOMAIN todo' = {1} /\ todo'[1] = t
    BY <1>2, ShortSeqs
  <2>2. QED
    BY <2>1 DEF TodoOK, TodoInv
<1>3. CASE todo' = <<t, u>>
  <2>1. todo' \in Seq(TaskType) /\ DOMAIN todo' = {1, 2} /\ todo'[1] = t /\ todo'[2] = u
    BY <1>3, ShortSeqs
  <2>2. QED
    BY <2>1 DEF TodoOK, TodoInv, Readers
<1>4. QED
  BY <1>1, <1>2, <1>3

(***************************************************************************)
(* What is left to do after a call raised: nothing, or the reconnection of *)
(* ping (connections.py 545-563).                                          *)
(***************************************************************************)
LEMMA RaisedCall ==
    ASSUME todo' = IF Pending("retry") THEN Reconnect ELSE <<>>
    PROVE  TodoOK'
<1>1. /\ Task("connect", NoCursor) \in TaskType /\ Task("connect", NoCursor).op = "connect"
      /\ Task("connect", NoCursor).c = NoCursor
      /\ Task("simple", NoCursor) \in TaskType /\ Task("simple", NoCursor).op = "simple"
      /\ Task("simple", NoCursor).c = NoCursor
  BY Tasks
<1>2. QED
  BY <1>1, NewCall DEF Reconnect, Readers, OfCursor, OfConnection

(***************************************************************************)
(* What connect() does in the session it has opened (connect 640-646).     *)
(***************************************************************************)
LEMMA ConnectTodo ==
    ASSUME Types, TodoInv, ConnectWorks
    PROVE  TodoOK' /\ todo' # <<>> /\ Op' \in {"query", "autocommit"}
           /\ Pending("autocommit")' /\ Pending("connecting")'
           /\ ~Pending("connect")' /\ ~Pending("retry")'
           /\ \A i \in DOMAIN todo' : todo'[i].c = NoCursor
<1> DEFINE q == Task("query", NoCursor)
           s == Task("simple", NoCursor)
           a == Task("autocommit", NoCursor)
           n == Task("connecting", NoCursor)
<1>1. /\ {q, s, a, n} \subseteq TaskType
      /\ q.op = "query" /\ s.op = "simple" /\ a.op = "autocommit" /\ n.op = "connecting"
      /\ \A t \in {q, s, a, n} : t.c = NoCursor
  BY Tasks
<1>2. todo # <<>> /\ Op = "connect"
  BY DEF ConnectWorks
<1>3. /\ Rest \in Seq(TaskType)
      /\ \A i \in DOMAIN Rest : Rest[i].op = "simple" /\ Rest[i].c = NoCursor
  <2>1. /\ Rest \in Seq(TaskType) /\ 1 \in DOMAIN todo /\ todo[1].op = Op
        /\ \A i \in DOMAIN Rest : i + 1 \in DOMAIN todo /\ Rest[i] = todo[i + 1] /\ i \in Nat \ {0}
    BY <1>2, FirstTask
  <2>2. \A j \in DOMAIN todo : j > 1 => todo[j].op = "simple" /\ todo[j].c = NoCursor
    BY <1>2, <2>1 DEF TodoInv, OfConnection
  <2>3. QED
    BY <2>1, <2>2
<1>4. todo' = (IF InitCommand THEN <<q, s>> ELSE <<>>) \o <<a, n>> \o Rest
  BY DEF ConnectWorks
<1> HIDE DEF q, s, a, n
<1>5. CASE InitCommand
  <2>1. <<a, n>> \o Rest \in Seq(TaskType) /\ <<q, s>> \in Seq(TaskType)
    BY <1>1, <1>3
  <2>2. todo' = <<q, s>> \o <<a, n>> \o Rest
    BY <1>4, <1>5
  <2>3. /\ todo' \in Seq(TaskType) /\ todo' # <<>> /\ {1, 2, 3, 4} \subseteq DOMAIN todo'
        /\ Head(todo') = q /\ todo'[1] = q /\ todo'[2] = s /\ todo'[3] = a /\ todo'[4] = n
        /\ \A i \in DOMAIN todo' : i \in Nat \ {0} /\
             (i > 4 => i - 4 \in DOMAIN Rest /\ todo'[i] = Rest[i - 4])
    BY <1>1, <1>3, <2>2
  <2>4. \A i \in DOMAIN todo' :
          /\ i \in Nat \ {0} /\ todo'[i].c = NoCursor
          /\ IF i = 1 THEN todo'[i].op = "query" ELSE IF i = 3 THEN todo'[i].op = "autocommit"
             ELSE IF i = 4 THEN todo'[i].op = "connecting" ELSE todo'[i].op = "simple"
    BY <1>1, <1>3, <2>3
  <2>5. TodoInv' /\ ~Pending("connect")' /\ ~Pending("retry")'
    BY <2>4 DEF TodoInv, OfCursor, OfConnection, Readers, Pending
  <2>6. Pending("autocommit")' /\ Pending("connecting")' /\ Op' \in {"query", "autocommit"}
    BY <1>1, <2>3 DEF Pending, Op
  <2>7. QED
    BY <2>3, <2>4, <2>5, <2>6 DEF TodoOK
<1>6. CASE ~InitCommand
  <2>1. todo' = <<a, n>> \o Rest
    <3>1. <<a, n>> \in Seq(TaskType)
      BY <1>1, ShortSeqs
    <3>2. <<>> \o <<a, n>> = <<a, n>>
      BY <3>1, ConcatEmptySeq
    <3>3. QED
      BY <1>4, <1>6, <3>2
  <2>3. /\ todo' \in Seq(TaskType) /\ todo' # <<>> /\ {1, 2} \subseteq DOMAIN todo'
        /\ Head(todo') = a /\ todo'[1] = a /\ todo'[2] = n
        /\ \A i \in DOMAIN todo' : i \in Nat \ {0} /\
             (i > 2 => i - 2 \in DOMAIN Rest /\ todo'[i] = Rest[i - 2])
    BY <1>1, <1>3, <2>1
  <2>4. \A i \in DOMAIN todo' :
          /\ i \in Nat \ {0} /\ todo'[i].c = NoCursor
          /\ IF i = 1 THEN todo'[i].op = "autocommit" ELSE IF i = 2 THEN todo'[i].op = "connecting"
             ELSE todo'[i].op = "simple"
    BY <1>1, <1>3, <2>3
  <2>5. TodoInv' /\ ~Pending("connect")' /\ ~Pending("retry")'
    BY <2>4 DEF TodoInv, OfCursor, OfConnection, Readers, Pending
  <2>6. Pending("autocommit")' /\ Pending("connecting")' /\ Op' \in {"query", "autocommit"}
    BY <1>1, <2>3 DEF Pending, Op
  <2>7. QED
    BY <2>3, <2>4, <2>5, <2>6 DEF TodoOK
<1>7. QED
  BY <1>5, <1>6

(***************************************************************************)
(* What is left to do depends on nothing else.                             *)
(***************************************************************************)
LEMMA SameTodo ==
    ASSUME Types, TodoInv, todo' = todo
    PROVE  TodoOK'
<1>1. TodoInv' /\ todo' \in Seq(TaskType)
  BY DEF TodoInv, Op, C, Types
<1>2. QED
  BY <1>1 DEF TodoOK

(***************************************************************************)
(* What a read leaves of the call.                                         *)
(***************************************************************************)
LEMMA ReadTodo ==
    ASSUME MySQLAssumption, Types, TodoInv, ReadStep
    PROVE  TodoOK'
<1>1. CASE \E cn : Raise(cn)
  BY <1>1, RaisedCall DEF Raise
<1>2. CASE todo' = todo
  BY <1>2, SameTodo
<1>3. CASE todo # <<>> /\ todo' = Rest
  BY <1>3, DropFirst
<1>4. CASE todo # <<>> /\ Op \in Readers /\ \E op \in {"rows", "giveUp"} : todo' = <<Task(op, C)>> \o Rest
  <2>1. PICK op \in {"rows", "giveUp"} : todo' = <<Task(op, C)>> \o Rest
    BY <1>4
  <2>2. Task(op, C) \in TaskType /\ Task(op, C).op = op /\ Task(op, C).c = C
    BY <1>4, FirstTask, Tasks
  <2>3. QED
    BY <1>4, <2>1, <2>2, ReplaceFirst DEF OfCursor, OfConnection, Readers
<1>5. Accept \/ SendLocalFile => todo # <<>>
  BY DEF Accept, SendLocalFile, Readable, NeedsPacket
<1>6. CASE SocketUnusable \/ ServerLost \/ SequenceWrong \/ ErrorPacket \/ ConversionFails \/ GiveUp
  BY <1>1, <1>6 DEF SocketUnusable, ServerLost, SequenceWrong, ErrorPacket, ConversionFails, GiveUp
<1>7. CASE ReadOk \/ StreamingBegins \/ ReadEof
  BY <1>3, <1>5, <1>7 DEF ReadOk, StreamingBegins, ReadEof, Complete
<1>8. CASE ReadHeader \/ SendLocalFile
  BY <1>2, <1>4, <1>5, <1>8 DEF ReadHeader, SendLocalFile, Readers
<1>9. CASE ReadRow
  BY <1>2, <1>9 DEF ReadRow
<1>10. CASE ReadOkPacket
  BY <1>1, <1>3, <1>5, <1>10 DEF ReadOkPacket
<1>11. CASE StreamEnds \/ StreamRow
  BY <1>2, <1>3, <1>5, <1>11 DEF StreamEnds, StreamRow
<1>12. QED
  BY <1>6, <1>7, <1>8, <1>9, <1>10, <1>11 DEF ReadStep

(***************************************************************************)
(* What every other step leaves of the call.                               *)
(***************************************************************************)
LEMMA ClientTodo ==
    ASSUME MySQLAssumption, Types, TodoInv, ClientStep
    PROVE  TodoOK'
<1>1. CASE ReadStep
  BY <1>1, ReadTodo
<1>2. todo # <<>> => /\ Op \in Ops /\ C \in Cursors \cup {NoCursor} /\ Rest \in Seq(TaskType)
                     /\ Op \in OfCursor => C \in Cursors
                     /\ Op \in OfConnection => C = NoCursor
  BY FirstTask DEF TodoInv
<1>3. CASE NextResult
  <2>1. /\ Task("read", NoCursor) \in TaskType /\ Task("read", NoCursor).op = "read"
        /\ Task("read", NoCursor).c = NoCursor
    BY Tasks
  <2>2. QED
    BY <1>3, <2>1, PutFirst DEF NextResult
<1>4. CASE SendCommand
  <2>1. todo # <<>> /\ Op \in Commands
    BY <1>4 DEF SendCommand, ReadyToSend
  <2>2. PICK t \in {ReadAnswer(C), Task("ok", C)} : todo' = <<t>> \o Rest
    BY <1>4 DEF SendCommand
  <2>3. t \in TaskType /\ t.op \in Readers /\ t.c = C
    BY <1>2, <2>1, Tasks DEF Readers
  <2>4. QED
    BY <2>1, <2>2, <2>3, ReplaceFirst DEF Readers, OfCursor, OfConnection
<1>5. CASE SendFails \/ ConnectFails
  BY <1>5, RaisedCall DEF SendFails, ConnectFails, Raise
<1>6. CASE ConnectWorks
  BY <1>6, ConnectTodo
<1>7. CASE SetAutocommit
  <2>1. /\ Task("setauto", NoCursor) \in TaskType /\ Task("setauto", NoCursor).op = "setauto"
        /\ Task("setauto", NoCursor).c = NoCursor
    BY Tasks
  <2>2. todo # <<>> /\ Op = "autocommit" /\ C = NoCursor
    BY <1>2, <1>7 DEF SetAutocommit, OfConnection
  <2>3. CASE todo' = <<Task("setauto", NoCursor)>> \o Rest
    BY <2>1, <2>2, <2>3, ReplaceFirst DEF OfCursor, OfConnection, Readers
  <2>4. CASE todo' = Rest
    BY <2>2, <2>4, DropFirst
  <2>5. QED
    BY <1>7, <2>3, <2>4 DEF SetAutocommit
<1>8. CASE Return
  BY <1>8, DropFirst DEF Return
<1>9. CASE NextSet
  <2>1. todo # <<>> /\ Op \in {"execute", "closing", "nextset"} /\ C \in Cursors
    BY <1>2, <1>9 DEF NextSet, OfCursor
  <2>2. /\ ReadAnswer(C) \in TaskType /\ ReadAnswer(C).c = C
        /\ ReadAnswer(C).op \in {"read", "readUnbuffered"}
    BY <2>1, Tasks
  <2>3. CASE Op = "nextset" /\ todo' = <<ReadAnswer(C)>> \o Rest
    BY <2>1, <2>2, <2>3, ReplaceFirst DEF OfConnection, Readers
  <2>4. CASE Op # "nextset" /\ todo' = <<ReadAnswer(C)>> \o todo
    BY <2>1, <2>2, <2>4, PutFirst
  <2>5. QED
    BY <1>9, <2>3, <2>4 DEF NextSet
<1>10. CASE NoNextSet
  <2>1. todo # <<>> /\ Op \in {"execute", "closing", "nextset", "call"} /\ C \in Cursors
    BY <1>2, <1>10 DEF NoNextSet, OfCursor
  <2>2. Task("query", C) \in TaskType /\ Task("query", C).op = "query" /\ Task("query", C).c = C
    BY <2>1, Tasks
  <2>3. CASE todo' = <<Task("query", C)>> \o Rest
    BY <2>1, <2>2, <2>3, ReplaceFirst DEF OfCursor, OfConnection, Readers
  <2>4. CASE todo' = <<>> \o Rest
    <3>1. todo' = Rest
      BY <1>2, <2>1, <2>4, ConcatEmptySeq
    <3>2. QED
      BY <2>1, <3>1, DropFirst
  <2>5. QED
    BY <1>10, <2>3, <2>4 DEF NoNextSet
<1>11. QED
  BY <1>1, <1>3, <1>4, <1>5, <1>6, <1>7, <1>8, <1>9, <1>10 DEF ClientStep

(***************************************************************************)
(* Every step leaves tasks of the right form to do.                        *)
(***************************************************************************)
LEMMA TodoStep ==
    ASSUME MySQLAssumption, Types, TodoInv, MySQLNext
    PROVE  TodoOK'
<1>1. CASE ClientStep
  BY <1>1, ClientTodo
<1>2. CASE ConnectionLost \/ Close \/ \E c \in Cursors : OpenCursor(c) \/ Fetch(c)
  BY <1>2, SameTodo DEF ConnectionLost, Close, OpenCursor, Fetch
<1>3. /\ \A op \in {"simple", "connect", "retry"} :
           Task(op, NoCursor) \in TaskType /\ Task(op, NoCursor).op = op
           /\ Task(op, NoCursor).c = NoCursor
      /\ \A op \in {"execute", "call", "nextset", "finish", "closing", "fetch", "skip"}, c \in Cursors :
           Task(op, c) \in TaskType /\ Task(op, c).op = op /\ Task(op, c).c = c
  BY Tasks
<1>4. CASE SimpleCommand \/ Connect \/ Ping
  <2>1. \/ todo' = <<Task("simple", NoCursor)>>
        \/ todo' = <<Task("connect", NoCursor)>>
        \/ todo' = <<Task("connect", NoCursor), Task("simple", NoCursor)>>
        \/ todo' = <<Task("simple", NoCursor), Task("retry", NoCursor)>>
    BY <1>4 DEF SimpleCommand, Connect, Ping, Begin, Reconnect
  <2>2. QED
    BY <1>3, <2>1, NewCall DEF Readers, OfCursor, OfConnection
<1>5. ASSUME NEW c \in Cursors, Execute(c) \/ AskNextSet(c) \/ FetchNext(c)
      PROVE  TodoOK'
  <2>1. \E op \in {"execute", "nextset", "fetch", "skip"} : todo' = <<Task(op, c)>>
    BY <1>5 DEF Execute, AskNextSet, FetchNext, Begin
  <2>2. QED
    BY <1>3, <2>1, NewCall DEF Readers, OfCursor, OfConnection
<1>6. ASSUME NEW c \in Cursors, CloseCursor(c)
      PROVE  TodoOK'
  <2>1. \/ todo' = <<Task("finish", c)>> \o <<Task("closing", c)>>
        \/ todo' = <<>> \o <<Task("closing", c)>>
    BY <1>6 DEF CloseCursor, Begin
  <2>2. <<Task("closing", c)>> \in Seq(TaskType)
    BY <1>3, ShortSeqs
  <2>3. todo' = <<Task("finish", c), Task("closing", c)>> \/ todo' = <<Task("closing", c)>>
    BY <2>1, <2>2, ConcatEmptySeq
  <2>4. QED
    BY <1>3, <2>3, NewCall DEF Readers, OfCursor, OfConnection
<1>7. ASSUME NEW c \in Cursors, CallProc(c)
      PROVE  TodoOK'
  <2>1. todo' = <<Task("call", c), Task("nextset", c), Task("call", c)>>
    BY <1>7 DEF CallProc, Begin
  <2>2. /\ todo' \in Seq(TaskType) /\ DOMAIN todo' = {1, 2, 3}
        /\ todo'[1] = Task("call", c) /\ todo'[2] = Task("nextset", c) /\ todo'[3] = Task("call", c)
    BY <1>3, <2>1
  <2>3. TodoInv'
    BY <1>3, <2>2 DEF TodoInv, Readers, OfCursor, OfConnection
  <2>4. QED
    BY <2>2, <2>3 DEF TodoOK
<1>8. QED
  BY <1>1, <1>2, <1>4, <1>5, <1>6, <1>7 DEF MySQLNext, Application

-----------------------------------------------------------------------------
(* Every step keeps the types.                                             *)

\* All of Types but what is said of the rest of the call.
DataTypes ==
    /\ conn \in ConnType
    /\ cursor \in [Cursors -> CursorType]
    /\ wire \in Seq(PacketType)
    /\ server \in ServerType
    /\ taken \in PacketIds
    /\ conn.result.active => ~conn.result.more

(***************************************************************************)
(* The connection after a packet that ends a result.                       *)
(***************************************************************************)
LEMMA EndedType ==
    ASSUME MySQLAssumption, Types, Readable, InSequence, NEW more \in BOOLEAN
    PROVE  LET cn == [Advanced EXCEPT !.result = [Ended EXCEPT !.more = more]]
           IN  /\ cn \in ConnType /\ cn.sock = "open"
               /\ cn.result.id = conn.result.id /\ ~cn.result.active /\ cn.result.more = more
               /\ cn.partial = conn.partial /\ cn.status = conn.status
<1>1. Advanced \in ConnType /\ Advanced.sock = "open" /\ Advanced.partial = conn.partial
      /\ Advanced.status = conn.status
  BY AcceptStep
<1>2. Ended \in ResultIn /\ Ended.id = conn.result.id /\ ~Ended.active /\ ~Ended.more
  BY Constants DEF Ended, Types, ConnType, ResultIn
<1>3. /\ [Ended EXCEPT !.more = more] \in ResultIn
      /\ [Ended EXCEPT !.more = more].id = conn.result.id
      /\ ~[Ended EXCEPT !.more = more].active
      /\ [Ended EXCEPT !.more = more].more = more
  BY <1>2 DEF ResultIn
<1>4. QED
  BY <1>1, <1>3 DEF ConnType

(***************************************************************************)
(* The connection after an error packet (_read_packet 718-724).            *)
(***************************************************************************)
LEMMA ErrorType ==
    ASSUME MySQLAssumption, Types, Readable, InSequence
    PROVE  LET cn == IF conn.result.active THEN [Advanced EXCEPT !.result = Ended] ELSE Advanced
           IN  /\ cn \in ConnType /\ cn.sock = "open"
               /\ cn.result.id = conn.result.id /\ ~cn.result.active
               /\ cn.result.more => conn.result.more
               /\ ~conn.result.active => cn.result = conn.result
               /\ cn.partial = conn.partial /\ cn.status = conn.status
<1>1. Advanced \in ConnType /\ Advanced.sock = "open" /\ Advanced.result = conn.result
      /\ Advanced.partial = conn.partial /\ Advanced.status = conn.status
  BY AcceptStep
<1>2. Ended \in ResultIn /\ Ended.id = conn.result.id /\ ~Ended.active /\ ~Ended.more
  BY Constants DEF Ended, Types, ConnType, ResultIn
<1>3. QED
  BY <1>1, <1>2 DEF ConnType

(***************************************************************************)
(* A packet is taken off the wire, or a local file is sent for it.         *)
(***************************************************************************)
LEMMA WireTypes ==
    ASSUME MySQLAssumption, Types, Accept \/ SendLocalFile
    PROVE  /\ wire' \in Seq(PacketType) /\ taken' \in PacketIds
           /\ taken' = <<P.cmd, server.commands>>
<1>1. Readable /\ InSequence /\ taken' = <<P.cmd, server.commands>>
  BY DEF Accept, SendLocalFile
<1>2. wire # <<>> /\ <<P.cmd, server.commands>> \in PacketIds
  BY <1>1, AcceptStep
<1>3. /\ Tail(wire) \in Seq(PacketType) /\ P.cmd \in Nat /\ P.at \in Nat
      /\ "ok" \in PacketKinds
  BY <1>2, FirstPacket DEF PacketKinds
<1>4. \A sent \in {1, 2} : <<Packet("ok", P.cmd, P.at + 1 + sent)>> \in Seq(PacketType)
  <2>1. \A sent \in {1, 2} : Packet("ok", P.cmd, P.at + 1 + sent) \in PacketType
    BY <1>3 DEF Packet, PacketType
  <2>2. QED
    BY <2>1, ShortSeqs
<1>5. CASE Accept
  BY <1>1, <1>2, <1>3, <1>5 DEF Accept
<1>6. CASE SendLocalFile
  <2>1. PICK sent \in {1, 2} :
          wire' = Tail(wire) \o (IF server.alive THEN <<Packet("ok", P.cmd, P.at + 1 + sent)>>
                                                 ELSE <<>>)
    BY <1>6 DEF SendLocalFile
  <2>2. wire' \in Seq(PacketType)
    BY <1>3, <1>4, <2>1, ShortSeqs, ConcatProperties
  <2>3. QED
    BY <1>1, <1>2, <2>2
<1>7. QED
  BY <1>5, <1>6

(***************************************************************************)
(* A step that reads keeps the types of the data.                          *)
(***************************************************************************)
LEMMA ReadTypes ==
    ASSUME MySQLAssumption, Types, ReadStep
    PROVE  DataTypes'
<1>1. conn \in ConnType /\ server \in ServerType /\ cursor \in [Cursors -> CursorType]
      /\ wire \in Seq(PacketType) /\ taken \in PacketIds
      /\ (conn.result.active => ~conn.result.more)
  BY DEF Types
<1>2. ASSUME NEW cn \in ConnType, Raise(cn), cn.result.active => ~cn.result.more
      PROVE  conn' \in ConnType /\ cursor' \in [Cursors -> CursorType]
             /\ (conn'.result.active => ~conn'.result.more)
  BY <1>2, RaiseStep
<1>3. ForceClosed \in ConnType /\ ForceClosed.result = conn.result
  BY <1>1 DEF ForceClosed, ConnType
<1>4. Readable /\ InSequence =>
        /\ Advanced \in ConnType /\ Advanced.result = conn.result
        /\ todo # <<>> /\ wire # <<>> /\ P \in PacketType /\ <<P.cmd, P.at>> \in PacketIds
        /\ C \in Cursors \cup {NoCursor}
  BY AcceptStep, FirstPacket, FirstTask
<1>5. CASE SocketUnusable \/ ServerLost
  BY <1>1, <1>2, <1>3, <1>5 DEF SocketUnusable, ServerLost, DataTypes
<1>6. CASE SequenceWrong
  <2>1. server' \in ServerType /\ wire' \in Seq(PacketType)
    BY <1>1, <1>6, ShortSeqs DEF SequenceWrong, ServerType
  <2>2. QED
    BY <1>1, <1>2, <1>3, <1>6, <2>1 DEF SequenceWrong, DataTypes
<1>7. CASE ErrorPacket
  <2>1. Accept /\ server' = server
    BY <1>7 DEF ErrorPacket
  <2>2. wire' \in Seq(PacketType) /\ taken' \in PacketIds
    BY <2>1, WireTypes
  <2> DEFINE cn == IF conn.result.active THEN [Advanced EXCEPT !.result = Ended] ELSE Advanced
  <2>3. Raise(cn)
    BY <1>7 DEF ErrorPacket
  <2>4. cn \in ConnType /\ ~cn.result.active
    BY <2>1, ErrorType DEF Accept
  <2> HIDE DEF cn
  <2>5. QED
    BY <1>1, <1>2, <2>1, <2>2, <2>3, <2>4 DEF DataTypes
<1>8. CASE ConversionFails \/ GiveUp
  <2>1. Accept /\ Readable /\ InSequence /\ Raise(Advanced)
    BY <1>8 DEF ConversionFails, GiveUp, Accept
  <2>2. wire' \in Seq(PacketType) /\ taken' \in PacketIds
    BY <2>1, WireTypes
  <2>3. server' \in ServerType
    <3>1. CASE ConversionFails
      <4>1. /\ LeavesStray \in BOOLEAN /\ server.stray \in BOOLEAN
            /\ server.faults + 1 \in Nat
        BY <1>1 DEF LeavesStray, ServerType
      <4>2. server' = [server EXCEPT !.faults = server.faults + 1,
                                     !.stray = server.stray \/ LeavesStray]
        BY <3>1 DEF ConversionFails
      <4> DEFINE stray == server.stray \/ LeavesStray
      <4>3. stray \in BOOLEAN
        BY <4>1
      <4> HIDE DEF stray
      <4>4. server' = [server EXCEPT !.faults = server.faults + 1, !.stray = stray]
        BY <4>2 DEF stray
      <4>5. QED
        BY <1>1, <4>1, <4>3, <4>4 DEF ServerType
    <3>2. CASE GiveUp
      BY <1>1, <3>2 DEF GiveUp
    <3>3. QED
      BY <1>8, <3>1, <3>2
  <2>4. QED
    BY <1>1, <1>2, <1>4, <2>1, <2>2, <2>3 DEF DataTypes
<1>9. ASSUME NEW id \in PacketIds, NEW active \in BOOLEAN, NEW more \in BOOLEAN,
             NEW rows \in Seq(PacketIds), Complete(id, active, more, rows), ~(active /\ more), Accept
      PROVE  DataTypes'
  <2>1. Readable /\ InSequence
    BY <1>9 DEF Accept
  <2>2. wire' \in Seq(PacketType) /\ taken' \in PacketIds
    BY <1>9, WireTypes
  <2>3. /\ conn' \in ConnType /\ conn'.result.active = active /\ conn'.result.more = more
        /\ cursor' \in [Cursors -> CursorType] /\ server' = server
    BY <1>9, <2>1, CompleteStep
  <2>4. QED
    BY <1>1, <1>9, <2>2, <2>3 DEF DataTypes
<1>10. CASE ReadOk \/ StreamingBegins
  <2>1. Accept /\ Readable /\ InSequence /\ <<>> \in Seq(PacketIds)
    BY <1>10, ShortSeqs DEF ReadOk, StreamingBegins, Accept
  <2>2. \E active, more \in BOOLEAN : Complete(<<P.cmd, P.at>>, active, more, <<>>) /\ ~(active /\ more)
    BY <1>10 DEF ReadOk, StreamingBegins
  <2>3. QED
    BY <1>4, <1>9, <2>1, <2>2
<1>11. CASE ReadEof
  <2>1. Accept /\ conn.partial[1] \in PacketIds /\ conn.partial[2] \in Seq(PacketIds)
    BY <1>1, <1>11 DEF ReadEof, ConnType
  <2>2. \E more \in BOOLEAN : Complete(conn.partial[1], FALSE, more, conn.partial[2])
    BY <1>11 DEF ReadEof
  <2>3. QED
    BY <1>9, <2>1, <2>2
<1>12. CASE ReadHeader \/ ReadRow
  <2>1. Accept /\ Readable /\ InSequence /\ server' = server /\ cursor' = cursor
    BY <1>12 DEF ReadHeader, ReadRow, Accept
  <2>2. wire' \in Seq(PacketType) /\ taken' \in PacketIds
    BY <2>1, WireTypes
  <2>3. \E partial \in PacketIds \X Seq(PacketIds) : conn' = [Advanced EXCEPT !.partial = partial]
    <3>1. <<<<P.cmd, P.at>>, <<>>>> \in PacketIds \X Seq(PacketIds)
      BY <1>4, <2>1, ShortSeqs
    <3>2. conn.partial[1] \in PacketIds /\ conn.partial[2] \in Seq(PacketIds)
      BY <1>1 DEF ConnType
    <3>3. Append(conn.partial[2], <<P.cmd, P.at>>) \in Seq(PacketIds)
      BY <1>4, <2>1, <3>2, AppendProperties
    <3>4. QED
      BY <1>12, <3>1, <3>2, <3>3 DEF ReadHeader, ReadRow
  <2>4. conn' \in ConnType /\ conn'.result = conn.result
    BY <1>4, <2>1, <2>3 DEF ConnType
  <2>5. QED
    BY <1>1, <2>1, <2>2, <2>4 DEF DataTypes
<1>13. CASE SendLocalFile
  <2>1. Readable /\ InSequence /\ server' = server /\ cursor' = cursor
    BY <1>13 DEF SendLocalFile
  <2>2. wire' \in Seq(PacketType) /\ taken' \in PacketIds
    BY <1>13, WireTypes
  <2>3. PICK sent \in {1, 2} : conn' = [Advanced EXCEPT !.seq = (conn.seq + 1 + sent) % SeqMod]
    BY <1>13 DEF SendLocalFile
  <2>4. (conn.seq + 1 + sent) % SeqMod \in 0..(SeqMod - 1)
    <3>1. conn.seq \in 0..(SeqMod - 1) /\ SeqMod \in Nat
      BY <1>1 DEF ConnType, MySQLAssumption
    <3>2. conn.seq + 1 + sent \in Nat
      BY <3>1
    <3>3. QED
      BY <3>2, Modulus
  <2>5. conn' \in ConnType /\ conn'.result = conn.result
    BY <1>4, <2>1, <2>3, <2>4 DEF ConnType
  <2>6. QED
    BY <1>1, <2>1, <2>2, <2>5 DEF DataTypes
<1>14. CASE ReadOkPacket
  <2>1. Accept /\ Readable /\ InSequence /\ server' = server
    BY <1>14 DEF ReadOkPacket, Accept
  <2>2. wire' \in Seq(PacketType) /\ taken' \in PacketIds
    BY <2>1, WireTypes
  <2>3. CASE cursor' = cursor /\ conn' = [Advanced EXCEPT !.status = server.autocommit]
    <3>1. conn' \in ConnType /\ conn'.result = conn.result
      BY <1>1, <1>4, <2>1, <2>3 DEF ConnType, ServerType
    <3>2. QED
      BY <1>1, <2>1, <2>2, <2>3, <3>1 DEF DataTypes
  <2>4. CASE Raise(Advanced)
    BY <1>1, <1>2, <1>4, <2>1, <2>2, <2>4 DEF DataTypes
  <2>5. QED
    BY <1>14, <2>3, <2>4 DEF ReadOkPacket
<1>15. CASE StreamEnds
  <2>1. Accept /\ Readable /\ InSequence /\ server' = server /\ cursor' = cursor
    BY <1>15 DEF StreamEnds, Accept
  <2>2. wire' \in Seq(PacketType) /\ taken' \in PacketIds
    BY <2>1, WireTypes
  <2>3. conn' = [Advanced EXCEPT !.result = [Ended EXCEPT !.more = P.kind = "eofMore"]]
    BY <1>15 DEF StreamEnds
  <2>4. conn' \in ConnType /\ ~conn'.result.active
    BY <2>1, <2>3, EndedType
  <2>5. QED
    BY <1>1, <2>1, <2>2, <2>4 DEF DataTypes
<1>16. CASE StreamRow
  <2>1. Accept /\ Readable /\ InSequence /\ server' = server /\ conn' = Advanced
    BY <1>16 DEF StreamRow, Accept
  <2>2. wire' \in Seq(PacketType) /\ taken' \in PacketIds
    BY <2>1, WireTypes
  <2>3. cursor' \in [Cursors -> CursorType]
    <3>1. CASE cursor' = cursor
      BY <1>1, <3>1
    <3>2. CASE cursor' = [cursor EXCEPT ![C].rows = Append(cursor[C].rows, <<P.cmd, P.at>>)]
      <4>1. CASE C \in Cursors
        <5>1. cursor[C].rows \in Seq(PacketIds)
          BY <1>1, <4>1 DEF CursorType
        <5>2. Append(cursor[C].rows, <<P.cmd, P.at>>) \in Seq(PacketIds)
          BY <1>4, <2>1, <5>1, AppendProperties
        <5>3. QED
          BY <1>1, <3>2, <4>1, <5>2 DEF CursorType
      <4>2. CASE C \notin Cursors
        BY <1>1, <3>2, <4>2
      <4>3. QED
        BY <4>1, <4>2
    <3>3. QED
      BY <1>16, <3>1, <3>2 DEF StreamRow
  <2>4. QED
    BY <1>1, <1>4, <2>1, <2>2, <2>3 DEF DataTypes
<1>17. QED
  BY <1>5, <1>6, <1>7, <1>8, <1>10, <1>11, <1>12, <1>13, <1>14, <1>15, <1>16 DEF ReadStep

(***************************************************************************)
(* What a command is answered with (external).                             *)
(***************************************************************************)
LEMMA AnswerSeq ==
    ASSUME MySQLAssumption, NEW cmd \in Nat, NEW k,
           k \in Answers \/ k = <<"ok">> \/ k = <<"err">>
    PROVE  /\ k \in Seq(PacketKinds) /\ Len(k) \in Nat \ {0} /\ FollowsProtocol(k)
           /\ DOMAIN k = 1..Len(k)
           /\ k = <<"ok">> \/ k = <<"err">> => Len(k) = 1 /\ k[1] \in {"ok", "err"}
           /\ Answer(cmd, k) \in Seq(PacketType) /\ Answer(cmd, k) # <<>>
           /\ DOMAIN Answer(cmd, k) = DOMAIN k /\ Len(Answer(cmd, k)) = Len(k)
           /\ \A i \in DOMAIN k : /\ Answer(cmd, k)[i].kind = k[i]
                                  /\ Answer(cmd, k)[i].cmd = cmd
                                  /\ Answer(cmd, k)[i].at = i
<1>1. /\ k \in Seq(PacketKinds) /\ Len(k) \in Nat \ {0} /\ FollowsProtocol(k)
      /\ k = <<"ok">> \/ k = <<"err">> => Len(k) = 1 /\ k[1] \in {"ok", "err"}
  <2>1. CASE k \in Answers
    <3>1. k \in Seq(PacketKinds) /\ k # <<>> /\ FollowsProtocol(k)
      BY <2>1 DEF MySQLAssumption
    <3>2. Len(k) \in Nat \ {0}
      BY <3>1, TailSeq
    <3>3. k = <<"ok">> \/ k = <<"err">> => Len(k) = 1 /\ k[1] \in {"ok", "err"}
      OBVIOUS
    <3>4. QED
      BY <3>1, <3>2, <3>3
  <2>2. ASSUME NEW kind \in {"ok", "err"}, k = <<kind>>
        PROVE  /\ k \in Seq(PacketKinds) /\ Len(k) = 1 /\ FollowsProtocol(k)
               /\ DOMAIN k = {1} /\ k[1] = kind
    <3>1. kind \in PacketKinds /\ kind \in Last /\ kind \in Start
      BY DEF PacketKinds, Last, Start
    <3>2. k \in Seq(PacketKinds) /\ Len(k) = 1 /\ DOMAIN k = {1} /\ k[1] = kind
      BY <2>2, <3>1
    <3>3. QED
      BY <3>1, <3>2 DEF FollowsProtocol
  <2>3. CASE k = <<"ok">>
    BY <2>2, <2>3
  <2>4. CASE k = <<"err">>
    BY <2>2, <2>4
  <2>5. QED
    BY <2>1, <2>3, <2>4
<1>2. DOMAIN k = 1..Len(k) /\ Len(k) \in Nat \ {0} /\ \A i \in DOMAIN k : k[i] \in PacketKinds
  BY <1>1, LenProperties
<1>3. \A i \in 1..Len(k) : /\ Packet(k[i], cmd, i) \in PacketType
                           /\ Packet(k[i], cmd, i).kind = k[i]
                           /\ Packet(k[i], cmd, i).cmd = cmd
                           /\ Packet(k[i], cmd, i).at = i
  BY <1>2 DEF Packet, PacketType
<1>4. /\ Answer(cmd, k) \in [1..Len(k) -> PacketType]
      /\ \A i \in 1..Len(k) : Answer(cmd, k)[i] = Packet(k[i], cmd, i)
  BY <1>3 DEF Answer
<1>5. Answer(cmd, k) \in Seq(PacketType)
  BY <1>2, <1>4
<1>6. Len(Answer(cmd, k)) = Len(k) /\ DOMAIN Answer(cmd, k) = 1..Len(k)
  BY <1>2, <1>4, <1>5
<1>7. Answer(cmd, k) # <<>>
  BY <1>2, <1>6
<1>8. QED
  BY <1>1, <1>2, <1>3, <1>4, <1>5, <1>6, <1>7

(***************************************************************************)
(* The command sent, and its answer (_execute_command 793-828).            *)
(***************************************************************************)
LEMMA SendStep ==
    ASSUME MySQLAssumption, Types, TodoInv, SendCommand
    PROVE  /\ todo # <<>> /\ Op \in Commands /\ conn.sock = "open"
           /\ ~conn.result.active /\ ~conn.result.more
           /\ conn' \in ConnType /\ conn'.sock = "open" /\ conn'.result = NoResult
           /\ conn'.seq = 1 /\ conn'.status = conn.status
           /\ server' \in ServerType /\ server'.commands = server.commands + 1
           /\ server'.alive = server.alive
           /\ server'.autocommit = IF Op = "setauto" /\ server.alive THEN Autocommit
                                   ELSE server.autocommit
           /\ cursor' \in [Cursors -> CursorType]
           /\ \A c \in Cursors :
                /\ cursor'[c].rows = cursor[c].rows
                /\ cursor'[c].result = cursor[c].result
                /\ cursor'[c].cmd = IF c = C THEN server.commands + 1 ELSE cursor[c].cmd
           /\ C \in Cursors => Op = "query"
           /\ wire' \in Seq(PacketType)
           /\ \E k : /\ (Op = "query" /\ k \in Answers) \/ k = <<"ok">> \/ k = <<"err">>
                     /\ wire' = IF server.alive THEN wire \o Answer(server.commands + 1, k) ELSE wire
           /\ \E t \in TaskType :
                /\ todo' = <<t>> \o Rest /\ Op' = t.op /\ C' = C /\ todo' # <<>>
                /\ IF Op = "query" THEN t.op \in {"read", "readUnbuffered"} ELSE t.op = "ok"
<1> DEFINE cmd == server.commands + 1
<1>1. todo # <<>> /\ Op \in Commands /\ conn.sock = "open" /\ ~conn.result.active /\ ~conn.result.more
  BY DEF SendCommand, ReadyToSend
<1>2. /\ Op \in Ops /\ C \in Cursors \cup {NoCursor} /\ Rest \in Seq(TaskType)
      /\ C \in Cursors => Op = "query"
  BY <1>1, FirstTask DEF TodoInv, Commands, OfConnection, MySQLAssumption
<1>3. conn \in ConnType /\ server \in ServerType /\ wire \in Seq(PacketType) /\ cmd \in Nat
      /\ cursor \in [Cursors -> CursorType]
  BY DEF Types, ServerType
<1>4. /\ conn' \in ConnType /\ conn'.sock = "open" /\ conn'.result = NoResult
      /\ conn'.seq = 1 /\ conn'.status = conn.status
  <2>1. conn' = [conn EXCEPT !.result = NoResult, !.seq = 1]
    BY DEF SendCommand
  <2>2. QED
    BY <1>1, <1>3, <2>1, Constants, Modulus DEF ConnType
<1>5. /\ server' \in ServerType /\ server'.commands = cmd /\ server'.alive = server.alive
      /\ server'.autocommit = IF Op = "setauto" /\ server.alive THEN Autocommit ELSE server.autocommit
  <2> DEFINE mode == IF Op = "setauto" /\ server.alive THEN Autocommit ELSE server.autocommit
  <2>1. server' = [server EXCEPT !.commands = cmd, !.autocommit = mode]
    BY DEF SendCommand
  <2>2. mode \in BOOLEAN
    BY <1>3 DEF ServerType, MySQLAssumption
  <2> HIDE DEF mode, cmd
  <2>3. /\ server' \in ServerType /\ server'.commands = cmd /\ server'.alive = server.alive
        /\ server'.autocommit = mode
    BY <1>3, <2>1, <2>2 DEF ServerType
  <2>4. QED
    BY <2>3 DEF mode
<1>6. /\ cursor' \in [Cursors -> CursorType]
      /\ \A c \in Cursors :
            /\ cursor'[c].rows = cursor[c].rows
            /\ cursor'[c].result = cursor[c].result
            /\ cursor'[c].cmd = IF c = C THEN cmd ELSE cursor[c].cmd
  <2>1. cursor' = IF C = NoCursor THEN cursor ELSE [cursor EXCEPT ![C].cmd = cmd]
    BY DEF SendCommand
  <2> HIDE DEF cmd
  <2>2. CASE C = NoCursor
    BY <1>3, <2>1, <2>2 DEF MySQLAssumption
  <2>3. CASE C # NoCursor
    BY <1>2, <1>3, <2>1, <2>3 DEF CursorType
  <2>4. QED
    BY <2>2, <2>3
<1>7. \E k : /\ (Op = "query" /\ k \in Answers) \/ k = <<"ok">> \/ k = <<"err">>
             /\ wire' = IF server.alive THEN wire \o Answer(cmd, k) ELSE wire
  <2> DEFINE kinds == CASE Op = "query" /\ C # NoCursor -> Answers
                        [] Op = "setauto" -> {<<"ok">>}
                        [] OTHER -> {<<"ok">>, <<"err">>}
  <2>1. PICK k \in kinds : wire' = IF server.alive THEN wire \o Answer(cmd, k) ELSE wire
    BY DEF SendCommand
  <2>2. \/ Op = "query" /\ C # NoCursor /\ k \in Answers
        \/ k = <<"ok">> \/ k = <<"err">>
    BY Zenon
  <2>3. QED
    BY <1>2, <2>1, <2>2
<1>8. wire' \in Seq(PacketType)
  <2>1. PICK k : /\ k \in Answers \/ k = <<"ok">> \/ k = <<"err">>
                 /\ wire' = IF server.alive THEN wire \o Answer(cmd, k) ELSE wire
    BY <1>7
  <2>2. Answer(cmd, k) \in Seq(PacketType)
    BY <1>3, <2>1, AnswerSeq
  <2>3. QED
    BY <1>3, <2>1, <2>2, ConcatProperties
<1>9. \E t \in TaskType :
        /\ todo' = <<t>> \o Rest /\ Op' = t.op /\ C' = C /\ todo' # <<>>
        /\ IF Op = "query" THEN t.op \in {"read", "readUnbuffered"} ELSE t.op = "ok"
  <2> DEFINE t == IF Op = "query" THEN ReadAnswer(C) ELSE Task("ok", C)
  <2>1. /\ t \in TaskType /\ t.c = C
        /\ IF Op = "query" THEN t.op \in {"read", "readUnbuffered"} ELSE t.op = "ok"
    BY <1>2, Tasks
  <2>2. todo' = <<t>> \o Rest
    BY DEF SendCommand
  <2> HIDE DEF t
  <2>3. todo' # <<>> /\ Head(todo') = t
    BY <1>2, <2>1, <2>2, FrontSeq
  <2>4. Op' = t.op /\ C' = t.c
    BY <2>3 DEF Op, C
  <2>5. QED
    BY <2>1, <2>2, <2>3, <2>4
<1>10. QED
  BY <1>1, <1>2, <1>4, <1>5, <1>6, <1>7, <1>8, <1>9

(***************************************************************************)
(* A step of a call keeps the types of the data.                           *)
(***************************************************************************)
LEMMA ClientTypes ==
    ASSUME MySQLAssumption, Types, TodoInv, ClientStep
    PROVE  DataTypes'
<1>1. conn \in ConnType /\ server \in ServerType /\ cursor \in [Cursors -> CursorType]
      /\ wire \in Seq(PacketType) /\ taken \in PacketIds
      /\ (conn.result.active => ~conn.result.more)
  BY DEF Types
<1>2. [conn EXCEPT !.result = NoResult] \in ConnType /\ ~NoResult.active
      /\ [conn EXCEPT !.result = NoResult].result = NoResult
  BY <1>1, Constants DEF ConnType
<1>3. todo # <<>> => C \in Cursors \cup {NoCursor} /\ (Op \in OfCursor => C \in Cursors)
  BY FirstTask DEF TodoInv
<1>4. CASE ReadStep
  BY <1>4, ReadTypes
<1>5. CASE NextResult
  BY <1>1, <1>2, <1>5 DEF NextResult, DataTypes
<1>6. CASE SendCommand
  <2>1. taken' = taken
    BY <1>6 DEF SendCommand
  <2>2. QED
    BY <1>1, <1>2, <1>6, <2>1, SendStep DEF DataTypes
<1>7. CASE SendFails
  <2>1. [ForceClosed EXCEPT !.result = NoResult] \in ConnType
        /\ [ForceClosed EXCEPT !.result = NoResult].result = NoResult
    BY <1>1, Constants DEF ForceClosed, ConnType
  <2>2. Raise([ForceClosed EXCEPT !.result = NoResult])
    BY <1>7 DEF SendFails
  <2>3. conn' \in ConnType /\ conn'.result = NoResult /\ cursor' \in [Cursors -> CursorType]
    BY <2>1, <2>2, RaiseStep
  <2>4. QED
    BY <1>1, <1>2, <1>7, <2>3 DEF SendFails, DataTypes
<1>8. CASE ConnectWorks
  <2>1. PICK default \in BOOLEAN :
          /\ server' = [server EXCEPT !.alive = TRUE, !.autocommit = default]
          /\ conn' = [conn EXCEPT !.sock = "open", !.closed = FALSE, !.status = default]
    BY <1>8 DEF ConnectWorks
  <2>2. conn' \in ConnType /\ conn'.result = conn.result /\ server' \in ServerType
    BY <1>1, <2>1 DEF ConnType, ServerType
  <2>3. QED
    BY <1>1, <1>8, <2>2, ShortSeqs DEF ConnectWorks, DataTypes
<1>9. CASE ConnectFails
  <2>1. PICK sock \in {conn.sock, "dead"} :
          Raise([conn EXCEPT !.sock = IF sock = "none" THEN "none" ELSE "dead", !.closed = FALSE])
    BY <1>9 DEF ConnectFails
  <2> DEFINE cn == [conn EXCEPT !.sock = IF sock = "none" THEN "none" ELSE "dead", !.closed = FALSE]
  <2>2. cn \in ConnType /\ cn.result = conn.result
    BY <1>1 DEF ConnType
  <2>3. Raise(cn)
    BY <2>1
  <2> HIDE DEF cn
  <2>4. conn' \in ConnType /\ conn'.result = conn.result /\ cursor' \in [Cursors -> CursorType]
    BY <2>2, <2>3, RaiseStep
  <2>5. server' \in ServerType
    <3>1. server' = [server EXCEPT !.faults = server.faults + 1, !.alive = FALSE]
      BY <1>9 DEF ConnectFails
    <3>2. server.faults + 1 \in Nat
      BY <1>1 DEF ServerType
    <3>3. QED
      BY <1>1, <3>1, <3>2 DEF ServerType
  <2>6. QED
    BY <1>1, <1>9, <2>4, <2>5 DEF ConnectFails, DataTypes
<1>10. CASE SetAutocommit \/ Return
  BY <1>1, <1>10 DEF SetAutocommit, Return, DataTypes
<1>11. ASSUME todo # <<>>, Op \in OfCursor, cursor' = Cleared(C)
       PROVE  cursor' \in [Cursors -> CursorType]
  <2>1. C \in Cursors /\ NoId \in PacketIds /\ <<>> \in Seq(PacketIds) /\ 0 \in Nat
    BY <1>3, <1>11, Constants, ShortSeqs
  <2> DEFINE id == NoId
             rows == <<>>
             c == C
  <2>2. cursor' = [cursor EXCEPT ![c].result = id, ![c].rows = rows, ![c].rownumber = 0]
    BY <1>11 DEF Cleared
  <2>3. c \in Cursors /\ id \in PacketIds /\ rows \in Seq(PacketIds)
    BY <2>1
  <2> HIDE DEF id, rows, c
  <2>4. QED
    BY <1>1, <2>2, <2>3 DEF CursorType
<1>12. CASE NextSet
  <2>1. cursor' \in [Cursors -> CursorType]
    BY <1>11, <1>12 DEF NextSet, OfCursor
  <2>2. QED
    BY <1>1, <1>2, <1>12, <2>1 DEF NextSet, DataTypes
<1>13. CASE NoNextSet
  <2>1. cursor' \in [Cursors -> CursorType]
    <3>1. todo # <<>> /\ Op \in OfCursor
      BY <1>13 DEF NoNextSet, OfCursor
    <3>2. \/ cursor' = Cleared(C) \/ cursor' = cursor
          \/ cursor' = [cursor EXCEPT ![C].attached = FALSE]
      BY <1>13 DEF NoNextSet
    <3>3. [cursor EXCEPT ![C].attached = FALSE] \in [Cursors -> CursorType]
      BY <1>1, <1>3, <3>1 DEF CursorType
    <3>4. QED
      BY <1>1, <1>11, <3>1, <3>2, <3>3
  <2>2. QED
    BY <1>1, <1>13, <2>1 DEF NoNextSet, DataTypes
<1>14. QED
  BY <1>4, <1>5, <1>6, <1>7, <1>8, <1>9, <1>10, <1>12, <1>13 DEF ClientStep

(***************************************************************************)
(* What a server that goes away leaves on the wire (external).             *)
(***************************************************************************)
LEMMA LostWire ==
    ASSUME Types, ConnectionLost
    PROVE  /\ wire' \in Seq(PacketType)
           /\ \/ /\ DOMAIN wire' \subseteq DOMAIN wire
                 /\ \A i \in DOMAIN wire' : wire'[i] = wire[i]
              \/ LET n == Len(wire) + 1 IN
                 /\ n \in Nat \ {0} /\ DOMAIN wire = 1..(n - 1) /\ DOMAIN wire' = 1..n
                 /\ \A i \in DOMAIN wire : wire'[i] = wire[i]
                 /\ wire'[n].kind = "err" /\ wire'[n].cmd = server.commands /\ wire'[n].at = 0
<1>1. wire \in Seq(PacketType)
  BY DEF Types
<1>2. ASSUME NEW k \in 0..Len(wire), wire' = SubSeq(wire, 1, k)
      PROVE  /\ wire' \in Seq(PacketType)
             /\ DOMAIN wire' \subseteq DOMAIN wire /\ \A i \in DOMAIN wire' : wire'[i] = wire[i]
  BY <1>1, <1>2
<1>3. CASE wire' = Append(wire, Packet("err", server.commands, 0))
  <2> DEFINE p == Packet("err", server.commands, 0)
  <2>1. p \in PacketType /\ p.kind = "err" /\ p.cmd = server.commands /\ p.at = 0
    BY DEF Packet, PacketType, PacketKinds, Types, ServerType
  <2> HIDE DEF p
  <2>2. wire' = Append(wire, p)
    BY <1>3 DEF p
  <2>3. QED
    BY <1>1, <2>1, <2>2
<1>4. QED
  BY <1>2, <1>3 DEF ConnectionLost

(***************************************************************************)
(* A call that begins, and a connection that is lost, keep the types of    *)
(* the data.                                                               *)
(***************************************************************************)
LEMMA ApplicationTypes ==
    ASSUME MySQLAssumption, Types, Application \/ ConnectionLost
    PROVE  DataTypes'
<1>1. conn \in ConnType /\ server \in ServerType /\ cursor \in [Cursors -> CursorType]
      /\ wire \in Seq(PacketType) /\ taken \in PacketIds
      /\ (conn.result.active => ~conn.result.more)
  BY DEF Types
<1>2. ASSUME \E tasks : Begin(tasks)
      PROVE  DataTypes'
  <2>1. server' \in ServerType
    <3>1. server' = [server EXCEPT !.calls = server.calls + 1]
      BY <1>2 DEF Begin
    <3>2. server.calls + 1 \in Nat
      BY <1>1 DEF ServerType
    <3>3. QED
      BY <1>1, <3>1, <3>2 DEF ServerType
  <2>2. QED
    BY <1>1, <1>2, <2>1 DEF Begin, DataTypes
<1>3. CASE SimpleCommand \/ Connect \/ Ping
  BY <1>2, <1>3 DEF SimpleCommand, Connect, Ping
<1>4. ASSUME NEW c \in Cursors, Execute(c) \/ CallProc(c) \/ AskNextSet(c) \/ CloseCursor(c)
      PROVE  DataTypes'
  BY <1>2, <1>4 DEF Execute, CallProc, AskNextSet, CloseCursor
<1>5. CASE Close
  <2>1. conn' \in ConnType /\ conn'.result = conn.result
    BY <1>1, <1>5 DEF Close, ForceClosed, ConnType
  <2>2. server' \in ServerType
    BY <1>1, <1>5 DEF Close, ServerType
  <2>3. QED
    BY <1>1, <1>5, <2>1, <2>2, ShortSeqs DEF Close, DataTypes
<1>6. ASSUME NEW c \in Cursors, OpenCursor(c)
      PROVE  DataTypes'
  <2>1. cursor' \in [Cursors -> CursorType]
    BY <1>1, <1>6, Constants DEF OpenCursor
  <2>2. QED
    BY <1>1, <1>6, <2>1 DEF OpenCursor, DataTypes
<1>7. ASSUME NEW c \in Cursors, Fetch(c)
      PROVE  DataTypes'
  <2>1. PICK r \in 0..Len(cursor[c].rows) : cursor' = [cursor EXCEPT ![c].rownumber = r]
    BY <1>7 DEF Fetch
  <2>2. r \in Nat
    BY <1>1, <2>1 DEF CursorType
  <2>3. cursor' \in [Cursors -> CursorType]
    BY <1>1, <2>1, <2>2 DEF CursorType
  <2>4. QED
    BY <1>1, <1>7, <2>3 DEF Fetch, DataTypes
<1>8. ASSUME NEW c \in Cursors, FetchNext(c)
      PROVE  DataTypes'
  BY <1>1, <1>8 DEF FetchNext, DataTypes
<1>9. CASE ConnectionLost
  <2>1. wire' \in Seq(PacketType)
    BY <1>9, LostWire
  <2>2. server' \in ServerType
    <3>1. server' = [server EXCEPT !.alive = FALSE, !.faults = server.faults + 1]
      BY <1>9 DEF ConnectionLost
    <3>2. server.faults + 1 \in Nat
      BY <1>1 DEF ServerType
    <3>3. QED
      BY <1>1, <3>1, <3>2 DEF ServerType
  <2>3. QED
    BY <1>1, <1>9, <2>1, <2>2 DEF ConnectionLost, DataTypes
<1>10. QED
  BY <1>3, <1>4, <1>5, <1>6, <1>7, <1>8, <1>9 DEF Application

TypesInv == Types /\ TodoInv

(***************************************************************************)
(* The types, at the start.                                                *)
(***************************************************************************)
LEMMA TypesInit == ASSUME MySQLAssumption, MySQLInit PROVE TypesInv
<1>1. /\ conn \in ConnType /\ ~conn.result.active
  BY Constants, Modulus DEF MySQLInit, ConnType
<1>2. cursor \in [Cursors -> CursorType]
  BY Constants DEF MySQLInit
<1>3. server \in ServerType /\ taken \in PacketIds
  BY DEF MySQLInit, ServerType, PacketIds
<1>4. todo \in Seq(TaskType) /\ wire \in Seq(PacketType) /\ DOMAIN todo = {}
  BY ShortSeqs DEF MySQLInit
<1>5. QED
  BY <1>1, <1>2, <1>3, <1>4 DEF TypesInv, Types, TodoInv

(***************************************************************************)
(* Every step keeps the types.                                             *)
(***************************************************************************)
LEMMA TypesStep == ASSUME MySQLAssumption, TypesInv, [MySQLNext]_vars PROVE TypesInv'
<1>1. CASE MySQLNext
  BY <1>1, TodoStep, ClientTypes, ApplicationTypes
     DEF MySQLNext, TypesInv, Types, DataTypes, TodoOK
<1>2. CASE UNCHANGED vars
  <2>1. TodoOK'
    BY <1>2, SameTodo DEF TypesInv, vars
  <2>2. QED
    BY <1>2, <2>1 DEF TypesInv, Types, TodoOK, vars
<1>3. QED
  BY <1>1, <1>2

\* They hold in every reachable state.
LEMMA TypesInvariant == MySQLSpec => []TypesInv
<1>1. MySQLInit => TypesInv
  BY MySQLAssumption, TypesInit
<1>2. TypesInv /\ [MySQLNext]_vars => TypesInv'
  BY MySQLAssumption, TypesStep
<1>3. QED
  BY <1>1, <1>2, PTL DEF MySQLSpec

(***************************************************************************)
(* Every variable keeps its type, and a result never has both rows and     *)
(* another set to be read: those of it that are left come first            *)
(* (connections.py 1151-1260).                                             *)
(***************************************************************************)
THEOREM MySQLTypesCorrect == MySQLSpec => []MySQLTypeOK
<1>1. TypesInv => MySQLTypeOK
  BY TypesAre DEF TypesInv
<1>2. QED
  BY <1>1, TypesInvariant, PTL

-----------------------------------------------------------------------------
(* What is on the wire.                                                    *)

(***************************************************************************)
(* A step that takes no packet, of a client that waits for none.           *)
(***************************************************************************)
LEMMA CalmWire ==
    ASSUME Types, WireInv, ~NeedsPacket, wire' = wire, conn'.sock = "open" => conn.sock = "open",
           server'.commands = server.commands, server'.alive = server.alive
    PROVE  WireInv'
<1>1. ~Stuck /\ ~(todo # <<>> /\ Op \in {"read", "readUnbuffered", "ok"})
  BY DEF Stuck, NeedsPacket
<1>2. CASE conn'.sock # "open"
  BY <1>2 DEF WireInv
<1>3. CASE conn'.sock = "open"
  <2>1. OwnPackets /\ InOrder
    BY <1>1, <1>3 DEF WireInv
  <2>2. OwnPackets' /\ InOrder'
    BY <1>1, <2>1 DEF OwnPackets, InOrder
  <2>3. QED
    BY <2>2 DEF WireInv
<1>4. QED
  BY <1>2, <1>3

(***************************************************************************)
(* An empty wire holds nothing wrong.                                      *)
(***************************************************************************)
LEMMA EmptyWire ==
    ASSUME wire' = <<>>
    PROVE  WireInv'
BY ShortSeqs DEF WireInv, OwnPackets, InOrder

(***************************************************************************)
(* What is known of the packet that is accepted.                           *)
(***************************************************************************)
LEMMA AcceptedPacket ==
    ASSUME MySQLAssumption, Types, WireInv, Readable, InSequence
    PROVE  /\ OwnPackets /\ InOrder /\ P.cmd = server.commands
           /\ P.kind # "err" => P.at # 0
           /\ P.kind \in Last => \A i \in DOMAIN Tail(wire) : Tail(wire)[i].at = 0
           /\ \A i \in DOMAIN Tail(wire) : Tail(wire)[i].at # 0 => P.at < Tail(wire)[i].at
<1>1. ~Stuck /\ conn.sock = "open" /\ wire # <<>>
  BY DEF Stuck, Readable
<1>2. OwnPackets /\ InOrder
  BY <1>1 DEF WireInv
<1>3. /\ P = wire[1] /\ 1 \in DOMAIN wire
      /\ \A i \in DOMAIN Tail(wire) : i + 1 \in DOMAIN wire /\ Tail(wire)[i] = wire[i + 1]
                                      /\ i \in Nat \ {0}
  BY <1>1, FirstPacket
<1>4. /\ P.cmd = server.commands
      /\ P.kind # "err" => P.at # 0
      /\ P.kind \in Last => \A i \in DOMAIN Tail(wire) : Tail(wire)[i].at = 0
  BY <1>2, <1>3 DEF OwnPackets, InOrder
<1>5. \A i \in DOMAIN Tail(wire) : Tail(wire)[i].at # 0 => P.at < Tail(wire)[i].at
  BY <1>2, <1>3 DEF InOrder
<1>6. QED
  BY <1>2, <1>4, <1>5

(***************************************************************************)
(* Reading one packet leaves the others in order.                          *)
(***************************************************************************)
LEMMA TailWire ==
    ASSUME MySQLAssumption, Types, WireInv, Readable, InSequence, wire' = Tail(wire),
           server'.commands = server.commands, server'.alive = server.alive
    PROVE  WireInv'
<1>1. OwnPackets /\ InOrder /\ wire # <<>>
  BY AcceptedPacket DEF Readable
<1>2. \A i \in DOMAIN wire' : i + 1 \in DOMAIN wire /\ wire'[i] = wire[i + 1] /\ i \in Nat \ {0}
  BY <1>1, FirstPacket
<1>3. OwnPackets'
  BY <1>1, <1>2 DEF OwnPackets
<1>4. InOrder'
  BY <1>1, <1>2 DEF InOrder
<1>5. QED
  BY <1>3, <1>4 DEF WireInv

(***************************************************************************)
(* The answer to a file, numbered after its packets (_send_local_data).    *)
(***************************************************************************)
LEMMA FileAnswer ==
    ASSUME MySQLAssumption, Types, WireInv, SendLocalFile
    PROVE  /\ ~server.alive => wire' = Tail(wire)
           /\ server.alive =>
                /\ DOMAIN wire' = {1} /\ Len(wire') = 1 /\ Head(wire') = wire'[1]
                /\ wire'[1].cmd = server.commands /\ wire'[1].kind = "ok"
                /\ wire'[1].at \in Nat /\ wire'[1].at # 0 /\ P.at < wire'[1].at
<1>1. Readable /\ InSequence /\ server' = server /\ P.kind = "local"
  BY DEF SendLocalFile
<1>2. PICK sent \in {1, 2} :
        wire' = Tail(wire) \o (IF server.alive THEN <<Packet("ok", P.cmd, P.at + 1 + sent)>>
                                               ELSE <<>>)
  BY DEF SendLocalFile
<1>3. wire # <<>> /\ Tail(wire) \in Seq(PacketType)
  BY <1>1, FirstPacket DEF Readable
<1>4. ASSUME ~server.alive
      PROVE  wire' = Tail(wire)
  BY <1>2, <1>3, <1>4, ConcatEmptySeq
<1>5. ASSUME server.alive
      PROVE  /\ DOMAIN wire' = {1} /\ Len(wire') = 1 /\ Head(wire') = wire'[1]
             /\ wire'[1].cmd = server.commands /\ wire'[1].kind = "ok"
             /\ wire'[1].at \in Nat /\ wire'[1].at # 0 /\ P.at < wire'[1].at
  <2>1. /\ OwnPackets /\ InOrder /\ P.cmd = server.commands
        /\ \A i \in DOMAIN Tail(wire) : Tail(wire)[i].at = 0
    BY <1>1, AcceptedPacket DEF Last
  <2>2. P.at \in Nat
    BY <1>3, FirstPacket
  <2>3. Tail(wire) = <<>>
    <3>1. \A j \in DOMAIN wire : wire[j].at # 0
      BY <1>5, <2>1 DEF InOrder
    <3>2. DOMAIN Tail(wire) = {}
      BY <1>3, <2>1, <3>1, FirstPacket
    <3>3. QED
      BY <1>3, <3>2, LenProperties, EmptySeq
  <2> DEFINE p == Packet("ok", P.cmd, P.at + 1 + sent)
  <2>4. wire' = <<p>>
    <3>1. p \in PacketType
      BY <1>3, FirstPacket DEF Packet, PacketType, PacketKinds
    <3>2. <<p>> \in Seq(PacketType)
      BY <3>1, ShortSeqs
    <3>3. QED
      BY <1>2, <1>5, <2>3, <3>2, ConcatEmptySeq
  <2>5. p.cmd = server.commands /\ p.kind = "ok" /\ p.at = P.at + 1 + sent
    BY <2>1 DEF Packet
  <2> HIDE DEF p
  <2>6. p.at \in Nat /\ p.at # 0 /\ P.at < p.at
    BY <2>1, <2>2, <2>5
  <2>7. DOMAIN wire' = {1} /\ Len(wire') = 1 /\ wire'[1] = p /\ Head(wire') = p
    BY <2>4
  <2>8. QED
    BY <2>5, <2>6, <2>7
<1>6. QED
  BY <1>4, <1>5

\* It is the only packet left to read.
LEMMA FileWire ==
    ASSUME MySQLAssumption, Types, WireInv, SendLocalFile
    PROVE  WireInv'
<1>1. Readable /\ InSequence /\ server' = server
  BY DEF SendLocalFile
<1>2. CASE ~server.alive
  BY <1>1, <1>2, FileAnswer, TailWire
<1>3. CASE server.alive
  <2>1. /\ DOMAIN wire' = {1} /\ wire'[1].cmd = server.commands /\ wire'[1].kind = "ok"
        /\ wire'[1].at # 0
    BY <1>3, FileAnswer
  <2>2. OwnPackets' /\ InOrder'
    BY <1>1, <2>1 DEF OwnPackets, InOrder
  <2>3. QED
    BY <2>2 DEF WireInv
<1>4. QED
  BY <1>2, <1>3

(***************************************************************************)
(* A command sent when packets are left makes the client stuck: none of    *)
(* them has the number its answer begins with (_execute_command 803-828).  *)
(***************************************************************************)
LEMMA SendStuck ==
    ASSUME MySQLAssumption, Types, TodoInv, HeadInv, SendCommand, wire # <<>>
    PROVE  Stuck'
<1>1. /\ todo # <<>> /\ Op \in Commands /\ conn.sock = "open" /\ ~conn.result.active
      /\ ~conn.result.more /\ conn'.seq = 1 /\ todo' # <<>> /\ Op' \in {"read", "readUnbuffered", "ok"}
  BY SendStep
<1>2. PICK k : /\ (Op = "query" /\ k \in Answers) \/ k = <<"ok">> \/ k = <<"err">>
               /\ wire' = IF server.alive THEN wire \o Answer(server.commands + 1, k) ELSE wire
  BY SendStep
<1> DEFINE answer == Answer(server.commands + 1, k)
<1>3. answer \in Seq(PacketType)
  BY <1>2, AnswerSeq DEF Types, ServerType
<1>4. wire' = wire \/ wire' = wire \o answer
  BY <1>2
<1> HIDE DEF answer
<1>5. NeedsPacket' /\ ~Stuck
  BY <1>1 DEF NeedsPacket, Stuck, Commands
<1>6. ~Reading
  BY <1>1 DEF Reading, Readers, Commands
<1>7. P.at % SeqMod # 1
  BY <1>1, <1>5, <1>6 DEF HeadInv
<1>8. wire' # <<>> /\ Head(wire') = Head(wire)
  <2>1. wire \in Seq(PacketType)
    BY DEF Types
  <2>2. QED
    BY <1>3, <1>4, <2>1
<1>9. ~InSequence'
  BY <1>1, <1>7, <1>8 DEF InSequence, P
<1>10. QED
  BY <1>5, <1>8, <1>9 DEF Stuck

\* Otherwise its answer is all there is to read.
LEMMA SendWire ==
    ASSUME MySQLAssumption, Types, TodoInv, WireInv, HeadInv, SendCommand
    PROVE  WireInv'
<1>1. /\ todo # <<>> /\ Op \in Commands /\ conn.sock = "open" /\ ~conn.result.active
      /\ conn'.seq = 1 /\ conn'.sock = "open"
      /\ server'.commands = server.commands + 1 /\ server'.alive = server.alive
      /\ todo' # <<>> /\ Op' \in {"read", "readUnbuffered", "ok"}
  BY SendStep
<1>2. PICK k : /\ (Op = "query" /\ k \in Answers) \/ k = <<"ok">> \/ k = <<"err">>
               /\ wire' = IF server.alive THEN wire \o Answer(server.commands + 1, k) ELSE wire
  BY SendStep
<1> DEFINE cmd == server.commands + 1
           answer == Answer(cmd, k)
<1>3. cmd \in Nat
  BY DEF Types, ServerType
<1>4. /\ k \in Seq(PacketKinds) /\ Len(k) \in Nat \ {0} /\ FollowsProtocol(k) /\ DOMAIN k = 1..Len(k)
      /\ answer \in Seq(PacketType) /\ answer # <<>>
      /\ DOMAIN answer = DOMAIN k
      /\ \A i \in DOMAIN k : answer[i].kind = k[i] /\ answer[i].cmd = cmd /\ answer[i].at = i
  BY <1>2, <1>3, AnswerSeq
<1>5. NeedsPacket'
  BY <1>1 DEF NeedsPacket
<1> HIDE DEF answer
<1>6. CASE wire = <<>>
  <2>1. wire' = IF server.alive THEN answer ELSE <<>>
    BY <1>2, <1>4, <1>6, ConcatEmptySeq DEF answer
  <2>2. CASE ~server.alive
    BY <2>1, <2>2, EmptyWire
  <2>3. CASE server.alive
    <3>1. OwnPackets'
      BY <1>1, <1>4, <2>1, <2>3 DEF OwnPackets
    <3>2. \A i \in DOMAIN k : k[i] \in Last => i = Len(k)
      BY <1>4 DEF FollowsProtocol
    <3>3. InOrder'
      BY <1>1, <1>4, <2>1, <2>3, <3>2 DEF InOrder
    <3>4. QED
      BY <3>1, <3>3 DEF WireInv
  <2>4. QED
    BY <2>2, <2>3
<1>7. CASE wire # <<>>
  BY <1>7, SendStuck DEF WireInv
<1>8. QED
  BY <1>6, <1>7

(***************************************************************************)
(* A client that is stuck stays so, or has nothing left to read.           *)
(***************************************************************************)
LEMMA LostStuck ==
    ASSUME Types, ConnectionLost, Stuck, wire' # <<>>
    PROVE  Stuck'
<1>1. conn' = conn /\ todo' = todo
  BY DEF ConnectionLost
<1>2. wire \in Seq(PacketType) /\ wire' \in Seq(PacketType) /\ wire # <<>>
  BY LostWire DEF Types, Stuck
<1>3. Head(wire') = Head(wire)
  <2>1. Head(wire) = wire[1] /\ Head(wire') = wire'[1] /\ 1 \in DOMAIN wire /\ 1 \in DOMAIN wire'
    BY <1>2, TailSeq
  <2>2. QED
    BY <2>1, LostWire
<1>4. QED
  BY <1>1, <1>3 DEF Stuck, NeedsPacket, InSequence, P, Op

(***************************************************************************)
(* A server that goes away leaves some of its packets, or adds one         *)
(* (external).                                                             *)
(***************************************************************************)
LEMMA LostKeepsWire ==
    ASSUME MySQLAssumption, Types, WireInv, ConnectionLost
    PROVE  WireInv'
<1>1. conn' = conn /\ todo' = todo /\ server.alive /\ ~server'.alive
      /\ server'.commands = server.commands
  BY DEF ConnectionLost, Types, ServerType
<1>3. CASE wire' = <<>> \/ conn.sock # "open"
  BY <1>1, <1>3, EmptyWire DEF WireInv
<1>4. CASE conn.sock = "open" /\ Stuck /\ wire' # <<>>
  BY <1>4, LostStuck DEF WireInv
<1>5. CASE OwnPackets /\ InOrder
  <2>1. CASE DOMAIN wire' \subseteq DOMAIN wire /\ \A i \in DOMAIN wire' : wire'[i] = wire[i]
    <3>1. OwnPackets' /\ InOrder'
      BY <1>1, <1>5, <2>1 DEF OwnPackets, InOrder, Op
    <3>2. QED
      BY <3>1 DEF WireInv
  <2>2. ASSUME NEW n \in Nat \ {0}, DOMAIN wire = 1..(n - 1), DOMAIN wire' = 1..n,
               \A i \in DOMAIN wire : wire'[i] = wire[i],
               wire'[n].kind = "err", wire'[n].cmd = server.commands, wire'[n].at = 0
        PROVE  WireInv'
    <3>1. \A i \in DOMAIN wire' : i \in DOMAIN wire \/ i = n
      BY <2>2
    <3>2. OwnPackets'
      BY <1>1, <1>5, <2>2, <3>1 DEF OwnPackets
    <3>3. InOrder'
      BY <1>1, <1>5, <2>2, <3>1 DEF InOrder
    <3>4. QED
      BY <3>2, <3>3 DEF WireInv
  <2>3. QED
    BY <2>1, <2>2, LostWire
<1>6. QED
  BY <1>3, <1>4, <1>5 DEF WireInv

(***************************************************************************)
(* Steps that leave the client without a socket (_force_close 430-439,     *)
(* _read_bytes 731-761).                                                   *)
(***************************************************************************)
LoseSocket ==
    SocketUnusable \/ ServerLost \/ SequenceWrong \/ SendFails \/ ConnectFails \/ Close

(***************************************************************************)
(* A step that loses the socket leaves it closed.                          *)
(***************************************************************************)
LEMMA SocketLost ==
    ASSUME Types, LoseSocket
    PROVE  conn'.sock # "open"
<1>1. conn \in ConnType
  BY DEF Types
<1>2. ASSUME NEW cn \in ConnType, cn.sock # "open", Raise(cn)
      PROVE  conn'.sock # "open"
  BY <1>2, RaiseStep
<1>3. CASE SocketUnusable
  BY <1>1, <1>2, <1>3 DEF SocketUnusable
<1>4. ForceClosed \in ConnType /\ ForceClosed.sock = "none"
  BY <1>1 DEF ForceClosed, ConnType
<1>5. CASE ServerLost \/ SequenceWrong
  BY <1>2, <1>4, <1>5 DEF ServerLost, SequenceWrong
<1>6. CASE SendFails
  <2>1. [ForceClosed EXCEPT !.result = NoResult] \in ConnType
        /\ [ForceClosed EXCEPT !.result = NoResult].sock = "none"
    BY <1>4, Constants DEF ConnType
  <2>2. QED
    BY <1>2, <1>6, <2>1 DEF SendFails
<1>7. CASE ConnectFails
  <2>1. PICK sock \in {conn.sock, "dead"} :
          Raise([conn EXCEPT !.sock = IF sock = "none" THEN "none" ELSE "dead", !.closed = FALSE])
    BY <1>7 DEF ConnectFails
  <2> DEFINE cn == [conn EXCEPT !.sock = IF sock = "none" THEN "none" ELSE "dead", !.closed = FALSE]
  <2>2. cn \in ConnType /\ cn.sock # "open"
    BY <1>1 DEF ConnType
  <2>3. Raise(cn)
    BY <2>1
  <2> HIDE DEF cn
  <2>4. QED
    BY <1>2, <2>2, <2>3
<1>8. CASE Close
  BY <1>1, <1>4, <1>8 DEF Close, ConnType
<1>9. QED
  BY <1>3, <1>5, <1>6, <1>7, <1>8 DEF LoseSocket

\* The packet at the head of the wire is accepted, and nothing is added.
AcceptOnly ==
    \/ ErrorPacket \/ ConversionFails \/ ReadOk \/ StreamingBegins \/ ReadHeader \/ ReadRow
    \/ ReadEof \/ GiveUp \/ ReadOkPacket \/ StreamEnds \/ StreamRow

(***************************************************************************)
(* A step that does no more than read takes one packet off the wire.       *)
(***************************************************************************)
LEMMA AcceptedOnly ==
    ASSUME Types, AcceptOnly
    PROVE  /\ Accept /\ Readable /\ InSequence /\ wire' = Tail(wire)
           /\ server'.commands = server.commands /\ server'.alive = server.alive
           /\ server'.autocommit = server.autocommit
           /\ server.stray => server'.stray
<1>1. Accept
  BY DEF AcceptOnly, ErrorPacket, ConversionFails, ReadOk, StreamingBegins, ReadHeader, ReadRow,
         ReadEof, GiveUp, ReadOkPacket, StreamEnds, StreamRow
<1>2. \/ server' = server
      \/ server' = [server EXCEPT !.faults = server.faults + 1,
                                  !.stray = server.stray \/ LeavesStray]
  BY DEF AcceptOnly, ErrorPacket, ConversionFails, ReadOk, StreamingBegins, ReadHeader, ReadRow,
         ReadEof, GiveUp, ReadOkPacket, StreamEnds, StreamRow, Complete
<1>3. server \in ServerType
  BY DEF Types
<1>4. QED
  BY <1>1, <1>2, <1>3 DEF Accept, ServerType

\* Steps that neither take a packet nor send anything.
Aside ==
    \/ NextResult \/ SetAutocommit \/ Return \/ NextSet \/ NoNextSet
    \/ SimpleCommand \/ Connect \/ Ping
    \/ \E c \in Cursors :
         \/ Execute(c) \/ CallProc(c) \/ AskNextSet(c) \/ CloseCursor(c)
         \/ OpenCursor(c) \/ Fetch(c) \/ FetchNext(c)

(***************************************************************************)
(* A step that neither reads nor writes leaves the wire alone.             *)
(***************************************************************************)
LEMMA AsideStep ==
    ASSUME Types, Aside
    PROVE  /\ ~NeedsPacket /\ wire' = wire /\ taken' = taken /\ conn'.sock = conn.sock
           /\ conn'.status = conn.status /\ conn'.partial = conn.partial
           /\ conn' = conn \/ conn' = [conn EXCEPT !.result = NoResult]
           /\ server'.commands = server.commands /\ server'.alive = server.alive
           /\ server'.autocommit = server.autocommit /\ server'.stray = server.stray
<1>1. ~NeedsPacket /\ wire' = wire /\ taken' = taken
  BY DEF Aside, NextResult, SetAutocommit, Return, NextSet, NoNextSet, SimpleCommand, Connect, Ping,
         Execute, CallProc, AskNextSet, CloseCursor, OpenCursor, Fetch, FetchNext, Begin, Idle,
         NeedsPacket, Commands
<1>2. conn' = conn \/ conn' = [conn EXCEPT !.result = NoResult]
  BY DEF Aside, NextResult, SetAutocommit, Return, NextSet, NoNextSet, SimpleCommand, Connect, Ping,
         Execute, CallProc, AskNextSet, CloseCursor, OpenCursor, Fetch, FetchNext, Begin
<1>3. server' = server \/ server' = [server EXCEPT !.calls = server.calls + 1]
  BY DEF Aside, NextResult, SetAutocommit, Return, NextSet, NoNextSet, SimpleCommand, Connect, Ping,
         Execute, CallProc, AskNextSet, CloseCursor, OpenCursor, Fetch, FetchNext, Begin
<1>4. conn \in ConnType /\ server \in ServerType
  BY DEF Types
<1>5. QED
  BY <1>1, <1>2, <1>3, <1>4 DEF ConnType, ServerType

(***************************************************************************)
(* The next-state relation by what a step does to the socket.              *)
(***************************************************************************)
LEMMA NextCases ==
    MySQLNext <=> \/ LoseSocket \/ AcceptOnly \/ SendLocalFile \/ SendCommand
                  \/ ConnectWorks \/ Aside \/ ConnectionLost
BY DEF MySQLNext, ClientStep, ReadStep, Application, LoseSocket, AcceptOnly, Aside

(***************************************************************************)
(* Every step keeps the packets on the wire those of the command last      *)
(* sent, in order.                                                         *)
(***************************************************************************)
LEMMA WireStep ==
    ASSUME MySQLAssumption, TypesInv, WireInv, HeadInv, [MySQLNext]_vars
    PROVE  WireInv'
<1>1. CASE LoseSocket
  BY <1>1, SocketLost DEF WireInv, TypesInv
<1>2. CASE AcceptOnly
  BY <1>2, AcceptedOnly, TailWire DEF TypesInv
<1>3. CASE SendLocalFile
  BY <1>3, FileWire DEF TypesInv
<1>4. CASE SendCommand
  BY <1>4, SendWire DEF TypesInv
<1>5. CASE ConnectWorks
  BY <1>5, EmptyWire DEF ConnectWorks
<1>6. CASE Aside
  BY <1>6, AsideStep, CalmWire DEF TypesInv
<1>7. CASE ConnectionLost
  BY <1>7, LostKeepsWire DEF TypesInv
<1>8. CASE UNCHANGED vars
  BY <1>8 DEF vars, WireInv, Stuck, NeedsPacket, InSequence, P, Op, OwnPackets, InOrder
<1>9. QED
  BY <1>1, <1>2, <1>3, <1>4, <1>5, <1>6, <1>7, <1>8, NextCases

WireOK == TypesInv /\ WireInv /\ HeadInv

-----------------------------------------------------------------------------
(* Results and rows.                                                       *)

(***************************************************************************)
(* What is left of the call when its first piece is done, or it is given   *)
(* up.                                                                     *)
(***************************************************************************)
LEMMA AfterRest ==
    ASSUME TypesInv, todo # <<>>, todo' = Rest
    PROVE  /\ todo' # <<>> => Op' \notin Readers \cup {"finish", "fetch", "skip", "connect"}
           /\ \A i \in DOMAIN todo' : i \in Nat \ {0} /\ i + 1 \in DOMAIN todo /\ todo'[i] = todo[i + 1]
<1>1. \A i \in DOMAIN todo' : i + 1 \in DOMAIN todo /\ todo'[i] = todo[i + 1] /\ i \in Nat \ {0}
  BY FirstTask DEF TypesInv
<1>2. ASSUME todo' # <<>>
      PROVE  Op' \notin Readers \cup {"finish", "fetch", "skip", "connect"}
  <2>1. 1 \in DOMAIN todo' /\ Op' = todo'[1].op
    <3>1. todo' \in Seq(TaskType)
      BY FirstTask DEF TypesInv
    <3>2. QED
      BY <1>2, <3>1, TailSeq DEF Op
  <2>2. todo'[1] = todo[1 + 1] /\ 1 + 1 \in DOMAIN todo /\ 1 + 1 > 1
    BY <1>1, <2>1
  <2>3. QED
    BY <2>1, <2>2 DEF TypesInv, TodoInv
<1>3. QED
  BY <1>1, <1>2

(***************************************************************************)
(* After a call raised, only a reconnection is left to do.                 *)
(***************************************************************************)
LEMMA AfterRaise ==
    ASSUME todo' = IF Pending("retry") THEN Reconnect ELSE <<>>
    PROVE  /\ todo' # <<>> => Op' = "connect"
           /\ \A i \in DOMAIN todo' : todo'[i].op \in {"connect", "simple"} /\ todo'[i].c = NoCursor
<1>1. /\ Task("connect", NoCursor).op = "connect" /\ Task("connect", NoCursor).c = NoCursor
      /\ Task("simple", NoCursor).op = "simple" /\ Task("simple", NoCursor).c = NoCursor
      /\ Task("connect", NoCursor) \in TaskType /\ Task("simple", NoCursor) \in TaskType
  BY Tasks
<1>2. CASE todo' = <<>>
  BY <1>2, ShortSeqs
<1>3. CASE todo' = Reconnect
  <2>1. /\ DOMAIN todo' = {1, 2} /\ Head(todo') = Task("connect", NoCursor)
        /\ todo'[1] = Task("connect", NoCursor) /\ todo'[2] = Task("simple", NoCursor)
    <3> DEFINE x == Task("connect", NoCursor)
               y == Task("simple", NoCursor)
    <3>1. todo' = <<x, y>>
      BY <1>3 DEF Reconnect
    <3> HIDE DEF x, y
    <3>2. DOMAIN todo' = {1, 2} /\ Head(todo') = x /\ todo'[1] = x /\ todo'[2] = y
      BY <3>1
    <3>3. QED
      BY <3>2 DEF x, y
  <2>2. QED
    BY <1>1, <2>1 DEF Op
<1>4. QED
  BY <1>2, <1>3

\* No read begins, and no query is put before the call.
Quiet ==
    /\ todo' # <<>> => Op' \notin Readers \cup {"fetch"}
    /\ \A i \in DOMAIN todo' :
         todo'[i].op = "query" /\ todo'[i].c \in Cursors =>
            \E j \in DOMAIN todo : todo[j] = todo'[i]

(***************************************************************************)
(* The steps that give no cursor rows it did not have.                     *)
(***************************************************************************)
LEMMA QuietSteps ==
    ASSUME MySQLAssumption, TypesInv,
           \/ LoseSocket \/ ErrorPacket \/ ConversionFails \/ ReadOk \/ StreamingBegins \/ ReadEof
           \/ GiveUp \/ ReadOkPacket \/ StreamEnds \/ StreamRow \/ ConnectWorks
           \/ SetAutocommit \/ Return \/ SimpleCommand \/ Connect \/ Ping
           \/ \E c \in Cursors : \/ Execute(c) \/ CallProc(c) \/ AskNextSet(c) \/ CloseCursor(c)
                                 \/ OpenCursor(c) \/ Fetch(c)
    PROVE  Quiet
<1>1. CASE \E cn : Raise(cn)
  <2>1. todo' = IF Pending("retry") THEN Reconnect ELSE <<>>
    BY <1>1 DEF Raise
  <2>2. QED
    BY <2>1, AfterRaise DEF Quiet, Readers
<1>2. CASE todo # <<>> /\ todo' = Rest
  BY <1>2, AfterRest DEF Quiet
<1>3. CASE todo' = todo /\ (todo = <<>> \/ Op \in Commands \cup {"finish"})
  BY <1>3 DEF Quiet, Op, Commands, Readers
<1>4. Accept => todo # <<>>
  BY DEF Accept, Readable, NeedsPacket
<1>5. CASE LoseSocket \/ ErrorPacket \/ ConversionFails \/ GiveUp
  BY <1>1, <1>3, <1>5 DEF LoseSocket, SocketUnusable, ServerLost, SequenceWrong, SendFails,
         ConnectFails, Close, Idle, ErrorPacket, ConversionFails, GiveUp
<1>6. CASE ReadOk \/ StreamingBegins \/ ReadEof
  BY <1>2, <1>4, <1>6 DEF ReadOk, StreamingBegins, ReadEof, Complete
<1>7. CASE ReadOkPacket
  BY <1>1, <1>2, <1>4, <1>7 DEF ReadOkPacket
<1>8. CASE StreamEnds \/ StreamRow
  BY <1>2, <1>3, <1>4, <1>8 DEF StreamEnds, StreamRow
<1>9. CASE ConnectWorks
  BY <1>9, ConnectTodo DEF TypesInv, Quiet, Readers, MySQLAssumption
<1>10. CASE SetAutocommit
  <2>1. CASE todo' = <<Task("setauto", NoCursor)>> \o Rest
    <3>1. /\ Task("setauto", NoCursor) \in TaskType /\ Task("setauto", NoCursor).op = "setauto"
          /\ Rest \in Seq(TaskType) /\ todo # <<>>
      BY <1>10, Tasks, FirstTask DEF SetAutocommit, TypesInv
    <3>2. /\ Head(todo') = Task("setauto", NoCursor) /\ todo'[1] = Task("setauto", NoCursor)
          /\ \A i \in DOMAIN todo' : i \in Nat \ {0} /\
               (i # 1 => i - 1 \in DOMAIN Rest /\ todo'[i] = Rest[i - 1])
      BY <2>1, <3>1, FrontSeq
    <3>3. \A i \in DOMAIN todo' : i # 1 => i \in DOMAIN todo /\ todo'[i] = todo[i]
      BY <3>1, <3>2, FirstTask DEF TypesInv
    <3>4. QED
      BY <3>1, <3>2, <3>3 DEF Quiet, Op, Readers
  <2>2. CASE todo' = Rest
    BY <1>2, <1>10, <2>2 DEF SetAutocommit
  <2>3. QED
    BY <1>10, <2>1, <2>2 DEF SetAutocommit
<1>11. CASE Return
  BY <1>2, <1>11 DEF Return
<1>12. ASSUME NEW t \in TaskType, NEW u \in TaskType,
              todo' \in {<<t>>, <<t, u>>}, t.op \notin Readers \cup {"fetch", "query"}, u.op # "query"
       PROVE  Quiet
  BY <1>12, ShortSeqs DEF Quiet, Op
<1>13. /\ \A op \in {"simple", "connect", "retry"} :
            Task(op, NoCursor) \in TaskType /\ Task(op, NoCursor).op = op
       /\ \A op \in {"execute", "call", "nextset", "finish", "closing"}, c \in Cursors :
            Task(op, c) \in TaskType /\ Task(op, c).op = op
  BY Tasks
<1>14. CASE SimpleCommand \/ Connect \/ Ping
  <2>1. \/ todo' = <<Task("simple", NoCursor)>>
        \/ todo' = <<Task("connect", NoCursor)>>
        \/ todo' = <<Task("connect", NoCursor), Task("simple", NoCursor)>>
        \/ todo' = <<Task("simple", NoCursor), Task("retry", NoCursor)>>
    BY <1>14 DEF SimpleCommand, Connect, Ping, Begin, Reconnect
  <2>2. QED
    BY <1>12, <1>13, <2>1 DEF Readers
<1>15. ASSUME NEW c \in Cursors, Execute(c) \/ AskNextSet(c)
       PROVE  Quiet
  <2>1. \E op \in {"execute", "nextset"} : todo' = <<Task(op, c)>>
    BY <1>15 DEF Execute, AskNextSet, Begin
  <2>2. QED
    BY <1>12, <1>13, <2>1 DEF Readers
<1>16. ASSUME NEW c \in Cursors, CloseCursor(c)
       PROVE  Quiet
  <2>1. \/ todo' = <<Task("finish", c)>> \o <<Task("closing", c)>>
        \/ todo' = <<>> \o <<Task("closing", c)>>
    BY <1>16 DEF CloseCursor, Begin
  <2>2. <<Task("closing", c)>> \in Seq(TaskType)
    BY <1>13, ShortSeqs
  <2>3. todo' = <<Task("finish", c), Task("closing", c)>> \/ todo' = <<Task("closing", c)>>
    BY <2>1, <2>2, ConcatEmptySeq
  <2>4. QED
    BY <1>12, <1>13, <2>3 DEF Readers
<1>17. ASSUME NEW c \in Cursors, CallProc(c)
       PROVE  Quiet
  <2>1. todo' = <<Task("call", c), Task("nextset", c), Task("call", c)>>
    BY <1>17 DEF CallProc, Begin
  <2>2. /\ Head(todo') = Task("call", c) /\ DOMAIN todo' = {1, 2, 3}
        /\ todo'[1] = Task("call", c) /\ todo'[2] = Task("nextset", c) /\ todo'[3] = Task("call", c)
    BY <1>13, <2>1
  <2>3. QED
    BY <1>13, <2>2 DEF Quiet, Op, Readers
<1>18. ASSUME NEW c \in Cursors, OpenCursor(c) \/ Fetch(c)
       PROVE  Quiet
  BY <1>3, <1>18 DEF OpenCursor, Fetch, Idle
<1>19. QED
  BY <1>5, <1>6, <1>7, <1>8, <1>9, <1>10, <1>11, <1>14, <1>15, <1>16, <1>17, <1>18

(***************************************************************************)
(* The result the connection knows is one of the last command, and a read  *)
(* of a new one starts without any.                                        *)
(***************************************************************************)
LEMMA ResultStep ==
    ASSUME MySQLAssumption, WireOK, RowsInv, MySQLNext
    PROVE  ResultInv'
<1>1. Types /\ TypesInv /\ WireInv /\ ResultInv /\ conn \in ConnType /\ server \in ServerType
  BY DEF WireOK, TypesInv, Types, RowsInv
<1>2. Quiet => ~Reading'
  BY DEF Quiet, Reading
<1>3. ASSUME NEW cn \in ConnType, Raise(cn), server'.commands = server.commands,
             cn.result.id \in {conn.result.id, NoId},
             cn.result.active => conn.result.active /\ cn.result.id = conn.result.id
      PROVE  ResultInv'
  <2>1. conn'.result = cn.result
    BY <1>1, <1>3, RaiseStep
  <2>2. ~Reading'
    <3>1. todo' = IF Pending("retry") THEN Reconnect ELSE <<>>
      BY <1>3 DEF Raise
    <3>2. QED
      BY <3>1, AfterRaise DEF Reading, Readers
  <2>3. QED
    BY <1>1, <1>3, <2>1, <2>2 DEF ResultInv
<1>4. ASSUME conn'.result = conn.result, server'.commands = server.commands,
             Reading' => Reading
      PROVE  ResultInv'
  BY <1>1, <1>4 DEF ResultInv
<1>5. ForceClosed \in ConnType /\ ForceClosed.result = conn.result
  BY <1>1 DEF ForceClosed, ConnType
<1>6. CASE SocketUnusable \/ ServerLost \/ SequenceWrong
  <2>1. server'.commands = server.commands
    BY <1>1, <1>6 DEF SocketUnusable, ServerLost, SequenceWrong, ServerType
  <2>2. QED
    BY <1>1, <1>3, <1>5, <1>6, <2>1 DEF SocketUnusable, ServerLost, SequenceWrong
<1>7. CASE SendFails
  <2>1. [ForceClosed EXCEPT !.result = NoResult] \in ConnType
        /\ [ForceClosed EXCEPT !.result = NoResult].result = NoResult
    BY <1>5, Constants DEF ConnType
  <2>2. NoResult.id = NoId /\ ~NoResult.active
    BY Constants
  <2>3. Raise([ForceClosed EXCEPT !.result = NoResult]) /\ server' = server
    BY <1>7 DEF SendFails
  <2>4. QED
    BY <1>3, <2>1, <2>2, <2>3
<1>8. CASE ConnectFails
  <2>1. PICK sock \in {conn.sock, "dead"} :
          Raise([conn EXCEPT !.sock = IF sock = "none" THEN "none" ELSE "dead", !.closed = FALSE])
    BY <1>8 DEF ConnectFails
  <2> DEFINE cn == [conn EXCEPT !.sock = IF sock = "none" THEN "none" ELSE "dead", !.closed = FALSE]
  <2>2. cn \in ConnType /\ cn.result = conn.result
    BY <1>1 DEF ConnType
  <2>3. Raise(cn)
    BY <2>1
  <2>4. server'.commands = server.commands
    BY <1>1, <1>8 DEF ConnectFails, ServerType
  <2> HIDE DEF cn
  <2>5. QED
    BY <1>3, <2>2, <2>3, <2>4
<1>9. CASE Close
  <2>1. conn'.result = conn.result /\ server'.commands = server.commands
    BY <1>1, <1>5, <1>9 DEF Close, ForceClosed, ConnType, ServerType
  <2>2. ~Reading'
    BY <1>9 DEF Close, Idle, Reading
  <2>3. QED
    BY <1>4, <2>1, <2>2
<1>10. ASSUME Accept
       PROVE  /\ Readable /\ InSequence /\ P.cmd = server.commands
              /\ Advanced \in ConnType /\ Advanced.result = conn.result
              /\ todo # <<>> /\ (P.kind # "err" => P.at # 0)
              /\ <<P.cmd, P.at>> \in PacketIds
              /\ P.kind # "err" => <<P.cmd, P.at>> # NoId
  <2>1. Readable /\ InSequence /\ wire # <<>>
    BY <1>10 DEF Accept, Readable
  <2>2. P.cmd = server.commands /\ (P.kind # "err" => P.at # 0)
    BY <1>1, <2>1, AcceptedPacket
  <2>3. QED
    BY <1>1, <2>1, <2>2, AcceptStep, FirstPacket DEF NoId
<1>11. CASE ErrorPacket
  <2>1. Accept /\ server' = server
    BY <1>11 DEF ErrorPacket
  <2> DEFINE cn == IF conn.result.active THEN [Advanced EXCEPT !.result = Ended] ELSE Advanced
  <2>2. Raise(cn)
    BY <1>11 DEF ErrorPacket
  <2>3. cn \in ConnType /\ cn.result.id = conn.result.id /\ ~cn.result.active
    BY <1>1, <1>10, <2>1, ErrorType
  <2> HIDE DEF cn
  <2>4. QED
    BY <1>3, <2>1, <2>2, <2>3
<1>12. CASE ConversionFails \/ GiveUp
  <2>1. Accept /\ Raise(Advanced)
    BY <1>12 DEF ConversionFails, GiveUp
  <2>2. server'.commands = server.commands
    BY <1>1, <1>12, AcceptedOnly DEF AcceptOnly
  <2>3. QED
    BY <1>3, <1>10, <2>1, <2>2
<1>13. ASSUME Accept, NEW id \in PacketIds, NEW active \in BOOLEAN, NEW more \in BOOLEAN,
              NEW rows \in Seq(PacketIds), Complete(id, active, more, rows),
              id[1] = server.commands, active => id # NoId
       PROVE  ResultInv'
  <2>1. Readable /\ InSequence
    BY <1>13 DEF Accept
  <2>2. conn'.result.id = id /\ conn'.result.active = active /\ server' = server /\ todo' = Rest
    BY <1>1, <1>13, <2>1, CompleteStep
  <2>3. ~Reading'
    BY <1>1, <1>10, <1>13, <2>2, AfterRest DEF Reading
  <2>4. QED
    BY <1>13, <2>2, <2>3 DEF ResultInv
<1>14. CASE ReadOk \/ StreamingBegins
  <2>1. Accept /\ <<>> \in Seq(PacketIds) /\ P.kind # "err"
    BY <1>14, ShortSeqs DEF ReadOk, StreamingBegins
  <2>2. \E active, more \in BOOLEAN : Complete(<<P.cmd, P.at>>, active, more, <<>>)
    BY <1>14 DEF ReadOk, StreamingBegins
  <2>3. QED
    BY <1>10, <1>13, <2>1, <2>2
<1>15. CASE ReadEof
  <2>1. Accept /\ conn.partial[1] \in PacketIds /\ conn.partial[2] \in Seq(PacketIds)
    BY <1>1, <1>15 DEF ReadEof, ConnType
  <2>2. \E more \in BOOLEAN : Complete(conn.partial[1], FALSE, more, conn.partial[2])
    BY <1>15 DEF ReadEof
  <2>3. conn.partial[1][1] = server.commands
    BY <1>10, <1>15, <2>1 DEF ReadEof, RowsInv, PartialInv
  <2>4. QED
    BY <1>13, <2>1, <2>2, <2>3
<1>16. CASE ReadHeader \/ ReadRow
  <2>1. Accept /\ server' = server
    BY <1>16 DEF ReadHeader, ReadRow
  <2>2. conn'.result = conn.result
    BY <1>10, <1>16, <2>1 DEF ReadHeader, ReadRow, ConnType
  <2>3. Reading
    BY <1>10, <1>16, <2>1 DEF ReadHeader, ReadRow, Reading, Readers
  <2>4. QED
    BY <1>4, <2>1, <2>2, <2>3
<1>17. CASE SendLocalFile
  <2>1. Readable /\ InSequence /\ server' = server
    BY <1>17 DEF SendLocalFile
  <2>2. Advanced \in ConnType /\ Advanced.result = conn.result /\ todo # <<>>
    BY <1>1, <2>1, AcceptStep
  <2>3. conn'.result = conn.result
    BY <1>17, <2>2 DEF SendLocalFile, ConnType
  <2>4. Reading
    BY <1>17, <2>2 DEF SendLocalFile, Reading, Readers
  <2>5. QED
    BY <1>4, <2>1, <2>3, <2>4
<1>18. CASE ReadOkPacket
  <2>1. Accept /\ server' = server /\ Quiet
    BY <1>1, <1>18, QuietSteps DEF ReadOkPacket
  <2>2. CASE Raise(Advanced)
    BY <1>3, <1>10, <2>1, <2>2
  <2>3. CASE conn' = [Advanced EXCEPT !.status = server.autocommit]
    <3>1. conn'.result = conn.result
      BY <1>10, <2>1, <2>3 DEF ConnType
    <3>2. QED
      BY <1>2, <1>4, <2>1, <3>1
  <2>4. QED
    BY <1>18, <2>2, <2>3 DEF ReadOkPacket
<1>19. CASE StreamEnds
  <2>1. Accept /\ server' = server /\ Quiet
    BY <1>1, <1>19, QuietSteps DEF StreamEnds
  <2>2. conn'.result.id = conn.result.id /\ ~conn'.result.active
    BY <1>1, <1>10, <1>19, <2>1, EndedType DEF StreamEnds
  <2>3. QED
    BY <1>1, <1>2, <2>1, <2>2 DEF ResultInv
<1>20. CASE StreamRow
  <2>1. Accept /\ server' = server /\ Quiet /\ conn' = Advanced
    BY <1>1, <1>20, QuietSteps DEF StreamRow
  <2>2. QED
    BY <1>2, <1>4, <1>10, <2>1
<1>21. CASE SendCommand
  <2>1. conn'.result = NoResult
    BY <1>1, <1>21, SendStep DEF TypesInv
  <2>2. QED
    BY <2>1, Constants DEF ResultInv
<1>22. CASE ConnectWorks
  <2>1. conn'.result = conn.result /\ server'.commands = server.commands
    BY <1>1, <1>22 DEF ConnectWorks, ConnType, ServerType
  <2>2. QED
    BY <1>1, <1>2, <1>4, <1>22, <2>1, QuietSteps
<1>23. CASE NextResult \/ NextSet
  <2>1. conn'.result = NoResult
    BY <1>1, <1>23, Constants DEF NextResult, NextSet, ConnType
  <2>2. QED
    BY <2>1, Constants DEF ResultInv
<1>24. CASE /\ SetAutocommit \/ Return \/ SimpleCommand \/ Connect \/ Ping
               \/ \E c \in Cursors : Execute(c) \/ CallProc(c) \/ AskNextSet(c) \/ CloseCursor(c)
                                     \/ OpenCursor(c) \/ Fetch(c)
  <2>1. conn' = conn
    BY <1>24 DEF SetAutocommit, Return, SimpleCommand, Connect, Ping, Execute, CallProc, AskNextSet,
                 CloseCursor, OpenCursor, Fetch, Begin
  <2>2. server'.commands = server.commands
    BY <1>1, <1>24, AsideStep DEF Aside
  <2>3. Quiet
    BY <1>1, <1>24, QuietSteps
  <2>4. QED
    BY <1>2, <1>4, <2>1, <2>2, <2>3
<1>25. CASE NoNextSet
  <2>1. conn' = conn /\ server' = server /\ todo # <<>> /\ Op \in OfCursor
    BY <1>25 DEF NoNextSet, OfCursor
  <2>2. C \in Cursors /\ Rest \in Seq(TaskType)
    BY <1>1, <2>1, FirstTask DEF TypesInv, TodoInv
  <2>3. ~Reading'
    <3>1. CASE todo' = <<Task("query", C)>> \o Rest
      <4>1. Task("query", C) \in TaskType /\ Task("query", C).op = "query"
        BY <2>2, Tasks
      <4>2. Op' = "query"
        BY <2>2, <3>1, <4>1, FrontSeq DEF Op
      <4>3. QED
        BY <4>2 DEF Reading, Readers
    <3>2. CASE todo' = <<>> \o Rest
      <4>1. todo' = Rest
        BY <2>2, <3>2, ConcatEmptySeq
      <4>2. QED
        BY <1>1, <2>1, <4>1, AfterRest DEF Reading
    <3>3. QED
      BY <1>25, <3>1, <3>2 DEF NoNextSet
  <2>4. QED
    BY <1>4, <2>1, <2>3
<1>26. ASSUME NEW c \in Cursors, FetchNext(c)
       PROVE  ResultInv'
  <2>1. PICK op \in {"fetch", "skip"} : todo' = <<Task(op, c)>>
    BY <1>26 DEF FetchNext
  <2>2. Op' = op
    BY <2>1, Tasks DEF Op
  <2>3. conn' = conn /\ server' = server
    BY <1>26 DEF FetchNext
  <2>4. QED
    BY <1>4, <2>2, <2>3 DEF Reading, Readers
<1>27. CASE ConnectionLost
  <2>1. conn' = conn /\ todo' = todo /\ server'.commands = server.commands
    BY <1>1, <1>27 DEF ConnectionLost, ServerType
  <2>2. QED
    BY <1>4, <2>1 DEF Reading, Op
<1>28. QED
  BY <1>6, <1>7, <1>8, <1>9, <1>11, <1>12, <1>14, <1>15, <1>16, <1>17, <1>18, <1>19, <1>20,
     <1>21, <1>22, <1>23, <1>24, <1>25, <1>26, <1>27, NextCases DEF LoseSocket, AcceptOnly, Aside

\* What is said of the cursors and of the rows read so far.
OwnRows == CursorInv /\ PartialInv /\ RowsOwned

(***************************************************************************)
(* A quiet step keeps every cursor's rows its own.                         *)
(***************************************************************************)
LEMMA CalmCursors ==
    ASSUME RowsInv, Quiet, server'.commands = server.commands,
           \A c \in Cursors : /\ cursor'[c].rows = cursor[c].rows
                              /\ cursor'[c].result = cursor[c].result
                              /\ cursor'[c].cmd = cursor[c].cmd
    PROVE  OwnRows'
<1>1. CursorInv'
  BY DEF RowsInv, CursorInv, Quiet, Reading
<1>2. PartialInv'
  BY DEF Quiet, PartialInv, Readers
<1>3. RowsOwned'
  BY DEF RowsInv, RowsOwned
<1>4. QED
  BY <1>1, <1>2, <1>3 DEF OwnRows

(***************************************************************************)
(* No rows are anyone's.                                                   *)
(***************************************************************************)
LEMMA EmptyRising ==
    ASSUME NEW cmd
    PROVE  Rising(<<>>, cmd)
<1>1. DOMAIN <<>> = {}
  BY ShortSeqs
<1>2. QED
  BY <1>1 DEF Rising

(***************************************************************************)
(* A row more of the same command.                                         *)
(***************************************************************************)
LEMMA RisingAppend ==
    ASSUME NEW rows \in Seq(PacketIds), NEW cmd \in Nat, NEW at \in Nat, Rising(rows, cmd),
           \A i \in DOMAIN rows : rows[i][2] < at
    PROVE  Rising(Append(rows, <<cmd, at>>), cmd)
<1> DEFINE row == <<cmd, at>>
           n == Len(rows) + 1
<1>1. row \in PacketIds /\ row[1] = cmd /\ row[2] = at
  BY DEF PacketIds
<1> HIDE DEF row
<1>2. /\ Len(rows) \in Nat /\ DOMAIN rows = 1..Len(rows) /\ DOMAIN Append(rows, row) = 1..n
      /\ \A i \in DOMAIN rows : Append(rows, row)[i] = rows[i]
      /\ Append(rows, row)[n] = row
  BY <1>1
<1> HIDE DEF n
<1>3. \A i \in DOMAIN Append(rows, row) : i \in DOMAIN rows \/ i = n
  BY <1>2 DEF n
<1>4. n > 1 => n - 1 \in DOMAIN rows
  BY <1>2 DEF n
<1>5. \A i \in DOMAIN rows : i > 1 => i - 1 \in DOMAIN rows
  BY <1>2
<1>6. n \notin DOMAIN rows
  BY <1>2 DEF n
<1>7. Rising(Append(rows, row), cmd)
  BY <1>1, <1>2, <1>3, <1>4, <1>5 DEF Rising
<1>8. QED
  BY <1>7 DEF row

(***************************************************************************)
(* The rows read so far come before the packet that is accepted.           *)
(***************************************************************************)
LEMMA BeforePacket ==
    ASSUME MySQLAssumption, WireOK, RowsInv, Readable, InSequence
    PROVE  /\ Op = "rows" => Before(conn.partial[2], wire)
                             /\ (P.at # 0 => \A i \in DOMAIN conn.partial[2] : conn.partial[2][i][2] < P.at)
           /\ \A c \in Cursors : cursor[c].cmd = server.commands =>
                Before(cursor[c].rows, wire)
                /\ (P.at # 0 => \A i \in DOMAIN cursor[c].rows : cursor[c].rows[i][2] < P.at)
<1>1. ~Stuck /\ conn.sock = "open" /\ wire # <<>> /\ todo # <<>>
  BY DEF Stuck, Readable, NeedsPacket
<1>2. P = wire[1] /\ 1 \in DOMAIN wire
  BY <1>1, FirstPacket DEF WireOK, TypesInv
<1>3. /\ Op = "rows" => Before(conn.partial[2], wire)
      /\ \A c \in Cursors : cursor[c].cmd = server.commands => Before(cursor[c].rows, wire)
  BY <1>1 DEF RowsInv, BeforeInv
<1>4. ASSUME NEW rows, Before(rows, wire), P.at # 0
      PROVE  \A i \in DOMAIN rows : rows[i][2] < P.at
  BY <1>2, <1>4 DEF Before
<1>5. QED
  BY <1>3, <1>4

(***************************************************************************)
(* The cursor takes the result of its own command.                         *)
(***************************************************************************)
LEMMA CompleteRows ==
    ASSUME MySQLAssumption, WireOK, RowsInv, Readable, InSequence, Quiet, Reading,
           NEW id \in PacketIds, NEW active \in BOOLEAN, NEW more \in BOOLEAN,
           NEW rows \in Seq(PacketIds), Complete(id, active, more, rows),
           id[1] = server.commands, Rising(rows, server.commands)
    PROVE  OwnRows'
<1>1. /\ \A c \in Cursors : /\ cursor'[c].cmd = cursor[c].cmd
                            /\ cursor'[c].rows = IF c = C THEN rows ELSE cursor[c].rows
                            /\ cursor'[c].result = IF c = C THEN id ELSE cursor[c].result
      /\ server' = server /\ todo' = Rest
  BY CompleteStep DEF WireOK, TypesInv
<1>2. C \in Cursors => cursor[C].cmd = server.commands
  BY DEF RowsInv, CursorInv
<1>3. \A i \in DOMAIN todo' : todo'[i].op = "query" /\ todo'[i].c \in Cursors => todo'[i].c # C
  <2>1. \A i \in DOMAIN todo' : i \in Nat \ {0} /\ i + 1 \in DOMAIN todo /\ todo'[i] = todo[i + 1]
    BY <1>1, AfterRest DEF WireOK, Reading
  <2>2. \A i \in DOMAIN todo : i > 1 /\ todo[i].op = "query" /\ todo[i].c \in Cursors => C = NoCursor
    BY DEF WireOK, TypesInv, TodoInv
  <2>3. QED
    BY <2>1, <2>2 DEF MySQLAssumption
<1>4. CursorInv'
  <2>1. \A c \in Cursors : /\ cursor'[c].cmd <= server'.commands
                           /\ cursor'[c].result # NoId => cursor'[c].result[1] = cursor'[c].cmd
    BY <1>1, <1>2 DEF RowsInv, CursorInv
  <2>2. \A i \in DOMAIN todo' : todo'[i].op = "query" /\ todo'[i].c \in Cursors =>
            cursor'[todo'[i].c].rows = <<>> /\ cursor'[todo'[i].c].result = NoId
    BY <1>1, <1>3 DEF Quiet, RowsInv, CursorInv
  <2>3. QED
    BY <2>1, <2>2 DEF CursorInv, Quiet, Reading
<1>5. PartialInv'
  BY DEF Quiet, PartialInv, Readers
<1>6. RowsOwned'
  <2>1. \A c \in Cursors : Rising(cursor'[c].rows, cursor'[c].cmd)
    BY <1>1, <1>2 DEF RowsInv, RowsOwned
  <2>2. QED
    BY <2>1 DEF RowsOwned
<1>7. QED
  BY <1>4, <1>5, <1>6 DEF OwnRows

(***************************************************************************)
(* Another piece is put where the first was, or before it: the queries     *)
(* that wait are those that did.                                           *)
(***************************************************************************)
LEMMA OtherFirst ==
    ASSUME Types, todo # <<>>, NEW t \in TaskType, todo' = <<t>> \o Rest \/ todo' = <<t>> \o todo
    PROVE  /\ todo' # <<>> /\ Op' = t.op /\ C' = t.c
           /\ \A i \in DOMAIN todo' : todo'[i] = t \/ \E j \in DOMAIN todo : todo[j] = todo'[i]
           /\ todo' = <<t>> \o Rest =>
                \A i \in DOMAIN todo' : todo'[i] = t \/ \E j \in DOMAIN todo : j > 1 /\ todo[j] = todo'[i]
<1>1. todo \in Seq(TaskType) /\ Rest \in Seq(TaskType)
      /\ \A i \in DOMAIN Rest : i + 1 \in DOMAIN todo /\ Rest[i] = todo[i + 1] /\ i \in Nat \ {0}
  BY FirstTask DEF Types
<1>2. ASSUME NEW s \in Seq(TaskType), todo' = <<t>> \o s
      PROVE  /\ todo' # <<>> /\ Head(todo') = t
             /\ \A i \in DOMAIN todo' : todo'[i] = t \/ \E j \in DOMAIN s : s[j] = todo'[i]
  <2>1. /\ todo' # <<>> /\ Head(todo') = t /\ todo'[1] = t
        /\ \A i \in DOMAIN todo' : i # 1 => i - 1 \in DOMAIN s /\ todo'[i] = s[i - 1]
    BY <1>2, FrontSeq
  <2>2. QED
    BY <2>1
<1>3. CASE todo' = <<t>> \o Rest
  <2>1. /\ todo' # <<>> /\ Head(todo') = t
        /\ \A i \in DOMAIN todo' : todo'[i] = t \/ \E j \in DOMAIN Rest : Rest[j] = todo'[i]
    BY <1>1, <1>2, <1>3
  <2>2. \A i \in DOMAIN todo' : todo'[i] = t \/ \E j \in DOMAIN todo : j > 1 /\ todo[j] = todo'[i]
    <3>1. \A k \in DOMAIN Rest : \E j \in DOMAIN todo : j > 1 /\ todo[j] = Rest[k]
      BY <1>1
    <3>2. QED
      BY <2>1, <3>1
  <2>3. QED
    BY <2>1, <2>2 DEF Op, C
<1>4. CASE todo' = <<t>> \o todo
  <2>1. /\ todo' # <<>> /\ Head(todo') = t
        /\ \A i \in DOMAIN todo' : todo'[i] = t \/ \E j \in DOMAIN todo : todo[j] = todo'[i]
    BY <1>1, <1>2, <1>4
  <2>2. CASE todo' = <<t>> \o Rest
    BY <1>3, <2>2
  <2>3. QED
    BY <2>1, <2>2 DEF Op, C
<1>5. QED
  BY <1>3, <1>4

\* A read goes on, or begins, with no cursor touched.
LEMMA ReadGoesOn ==
    ASSUME RowsInv, server'.commands = server.commands, cursor' = cursor,
           Reading' /\ C' \in Cursors => Reading /\ C' = C,
           todo' # <<>> => Op' # "fetch",
           \A i \in DOMAIN todo' : todo'[i].op = "query" => \E j \in DOMAIN todo : todo[j] = todo'[i]
    PROVE  CursorInv' /\ RowsOwned'
<1>1. CursorInv'
  BY DEF RowsInv, CursorInv
<1>2. RowsOwned'
  BY DEF RowsInv, RowsOwned
<1>3. QED
  BY <1>1, <1>2

(***************************************************************************)
(* The header of a result begins a set of rows of its own.                 *)
(***************************************************************************)
LEMMA HeaderRows ==
    ASSUME MySQLAssumption, WireOK, RowsInv, ReadHeader \/ SendLocalFile
    PROVE  OwnRows'
<1>1. /\ Readable /\ InSequence /\ server' = server /\ cursor' = cursor
      /\ Op \in {"read", "readUnbuffered"}
  BY DEF ReadHeader, SendLocalFile, Accept
<1>2. /\ todo # <<>> /\ Advanced \in ConnType /\ P.cmd = server.commands /\ Types /\ Reading
      /\ <<P.cmd, P.at>> \in PacketIds
  BY <1>1, AcceptStep, AcceptedPacket, FirstPacket DEF WireOK, TypesInv, Reading, Readers, Readable
<1>3. C \in Cursors \cup {NoCursor}
  BY <1>2, FirstTask
<1>4. todo' = todo \/ \E op \in {"rows", "giveUp"} : todo' = <<Task(op, C)>> \o Rest
  BY DEF ReadHeader, SendLocalFile
<1>5. /\ C' = C /\ (todo' # <<>> => Op' # "fetch")
      /\ \A i \in DOMAIN todo' : todo'[i].op = "query" => \E j \in DOMAIN todo : todo[j] = todo'[i]
  <2>1. CASE todo' = todo
    BY <1>1, <2>1 DEF C, Op
  <2>2. ASSUME NEW op \in {"rows", "giveUp"}, todo' = <<Task(op, C)>> \o Rest
        PROVE  <1>5!1 /\ <1>5!2
    <3>1. Task(op, C) \in TaskType /\ Task(op, C).op = op /\ Task(op, C).c = C
      BY <1>3, Tasks
    <3>2. QED
      BY <1>2, <2>2, <3>1, OtherFirst
  <2>3. QED
    BY <1>4, <2>1, <2>2
<1>6. CursorInv' /\ RowsOwned'
  BY <1>1, <1>2, <1>5, ReadGoesOn
<1>7. PartialInv'
  <2>1. CASE ReadHeader
    <3>1. conn' = [Advanced EXCEPT !.partial = <<<<P.cmd, P.at>>, <<>>>>]
      BY <2>1 DEF ReadHeader
    <3>2. conn'.partial = <<<<P.cmd, P.at>>, <<>>>>
      BY <1>2, <3>1 DEF ConnType
    <3>3. conn'.partial[1][1] = server'.commands /\ conn'.partial[2] = <<>>
      BY <1>1, <1>2, <3>2
    <3>4. Rising(<<>>, server'.commands)
      BY ShortSeqs DEF Rising
    <3>5. QED
      BY <3>3, <3>4 DEF PartialInv, Rising
  <2>2. CASE SendLocalFile
    <3>1. todo' # <<>> => Op' # "rows"
      <4>1. CASE todo' = todo
        BY <1>1, <4>1 DEF Op
      <4>2. CASE todo' = <<Task("giveUp", C)>> \o Rest
        <5>1. Task("giveUp", C) \in TaskType /\ Task("giveUp", C).op = "giveUp"
          BY <1>3, Tasks
        <5>2. QED
          BY <1>2, <4>2, <5>1, OtherFirst
      <4>3. QED
        BY <2>2, <4>1, <4>2 DEF SendLocalFile
    <3>2. QED
      BY <3>1 DEF PartialInv
  <2>3. QED
    BY <2>1, <2>2
<1>8. QED
  BY <1>6, <1>7 DEF OwnRows

(***************************************************************************)
(* A row read into a buffered result is one of its own.                    *)
(***************************************************************************)
LEMMA RowRows ==
    ASSUME MySQLAssumption, WireOK, RowsInv, ReadRow
    PROVE  OwnRows'
<1>1. /\ Readable /\ InSequence /\ server' = server /\ cursor' = cursor /\ todo' = todo
      /\ Op = "rows" /\ P.kind # "err"
      /\ conn' = [Advanced EXCEPT !.partial =
                    <<conn.partial[1], Append(conn.partial[2], <<P.cmd, P.at>>)>>]
  BY DEF ReadRow, Accept
<1>2. /\ todo # <<>> /\ wire # <<>> /\ Advanced \in ConnType /\ P.cmd = server.commands /\ P.at # 0
      /\ Types
  BY <1>1, AcceptStep, AcceptedPacket DEF WireOK, TypesInv
<1>3. P.at \in Nat /\ P.cmd \in Nat /\ conn.partial[2] \in Seq(PacketIds)
  BY <1>2, FirstPacket DEF Types, ConnType
<1>4. CursorInv' /\ RowsOwned'
  BY <1>1, ReadGoesOn DEF Reading, Op, C
<1>5. /\ conn'.partial[1] = conn.partial[1]
      /\ conn'.partial[2] = Append(conn.partial[2], <<P.cmd, P.at>>)
  BY <1>1, <1>2 DEF ConnType
<1>6. /\ conn.partial[1][1] = server.commands /\ Rising(conn.partial[2], server.commands)
      /\ \A i \in DOMAIN conn.partial[2] : conn.partial[2][i][2] < P.at
  BY <1>1, <1>2, BeforePacket DEF RowsInv, PartialInv
<1>7. Rising(Append(conn.partial[2], <<P.cmd, P.at>>), P.cmd)
  BY <1>2, <1>3, <1>6, RisingAppend
<1>8. PartialInv'
  BY <1>1, <1>2, <1>5, <1>6, <1>7 DEF PartialInv, Rising
<1>9. QED
  BY <1>4, <1>8 DEF OwnRows

(***************************************************************************)
(* A row a streaming cursor fetches is one of its own.                     *)
(***************************************************************************)
LEMMA StreamedRows ==
    ASSUME MySQLAssumption, WireOK, RowsInv, StreamRow
    PROVE  OwnRows'
<1>1. Accept /\ Readable /\ InSequence /\ server' = server /\ P.kind # "err" /\ Quiet
  BY QuietSteps DEF StreamRow, Accept, WireOK
<1>2. CASE cursor' = cursor
  BY <1>1, <1>2, CalmCursors
<1>3. CASE Op = "fetch" /\ todo' = Rest
           /\ cursor' = [cursor EXCEPT ![C].rows = Append(cursor[C].rows, <<P.cmd, P.at>>)]
  <2>1. /\ todo # <<>> /\ wire # <<>> /\ P.cmd = server.commands /\ P.at # 0 /\ Types
    BY <1>1, AcceptStep, AcceptedPacket DEF WireOK, TypesInv
  <2>2. C \in Cursors
    BY <1>3, <2>1, FirstTask DEF WireOK, TypesInv, TodoInv, OfCursor
  <2>3. cursor[C].cmd = server.commands
    BY <1>3, <2>1, <2>2 DEF RowsInv, CursorInv, ResultInv
  <2>4. P.at \in Nat /\ P.cmd \in Nat /\ cursor[C].rows \in Seq(PacketIds)
    BY <2>1, <2>2, FirstPacket DEF Types, CursorType
  <2>5. Rising(Append(cursor[C].rows, <<P.cmd, P.at>>), P.cmd)
    <3>1. Rising(cursor[C].rows, P.cmd) /\ \A i \in DOMAIN cursor[C].rows : cursor[C].rows[i][2] < P.at
      BY <1>1, <2>1, <2>2, <2>3, BeforePacket DEF RowsInv, RowsOwned
    <3>2. QED
      BY <2>4, <3>1, RisingAppend
  <2> DEFINE more == Append(cursor[C].rows, <<P.cmd, P.at>>)
             c == C
  <2>6. cursor' = [cursor EXCEPT ![c].rows = more] /\ c \in Cursors
    BY <1>3, <2>2
  <2> HIDE DEF more, c
  <2>7. \A d \in Cursors : /\ cursor'[d].cmd = cursor[d].cmd
                           /\ cursor'[d].rows = IF d = c THEN more ELSE cursor[d].rows
                           /\ cursor'[d].result = cursor[d].result
    BY <2>1, <2>6 DEF Types, CursorType
  <2>8. RowsOwned'
    <3>1. Rising(more, cursor[c].cmd)
      BY <2>1, <2>3, <2>5 DEF more, c
    <3>2. \A d \in Cursors : Rising(cursor'[d].rows, cursor'[d].cmd)
      BY <2>7, <3>1 DEF RowsInv, RowsOwned
    <3>3. QED
      BY <3>2 DEF RowsOwned
  <2>9. \A i \in DOMAIN todo' : ~(todo'[i].op = "query" /\ todo'[i].c \in Cursors)
    <3>1. \A i \in DOMAIN todo' : i \in Nat \ {0} /\ i + 1 \in DOMAIN todo /\ todo'[i] = todo[i + 1]
      BY <1>3, <2>1, AfterRest DEF WireOK
    <3>2. \A i \in DOMAIN todo : i > 1 => ~(todo[i].op = "query" /\ todo[i].c \in Cursors)
      BY <1>3 DEF WireOK, TypesInv, TodoInv, Readers
    <3>3. QED
      BY <3>1, <3>2
  <2>10. CursorInv'
    BY <1>1, <2>7, <2>9 DEF RowsInv, CursorInv, Quiet, Reading
  <2>11. PartialInv'
    BY <1>1 DEF Quiet, PartialInv, Readers
  <2>12. QED
    BY <2>8, <2>10, <2>11 DEF OwnRows
<1>4. QED
  BY <1>2, <1>3 DEF StreamRow

\* A result is complete, or a stream of rows begins.
LEMMA CompletedRows ==
    ASSUME MySQLAssumption, WireOK, RowsInv, ReadOk \/ StreamingBegins \/ ReadEof
    PROVE  OwnRows'
<1>1. /\ Readable /\ InSequence /\ Quiet /\ Op \in Readers
  BY QuietSteps DEF ReadOk, StreamingBegins, ReadEof, Accept, WireOK, Readers
<1>2. /\ todo # <<>> /\ wire # <<>> /\ P.cmd = server.commands /\ Types /\ Reading
      /\ <<P.cmd, P.at>> \in PacketIds
  BY <1>1, AcceptStep, AcceptedPacket, FirstPacket DEF WireOK, TypesInv, Reading, Readable
<1>3. CASE ReadOk \/ StreamingBegins
  <2>1. /\ <<>> \in Seq(PacketIds) /\ Rising(<<>>, server.commands)
        /\ <<P.cmd, P.at>>[1] = server.commands
    BY <1>2, ShortSeqs DEF Rising
  <2>2. \E active, more \in BOOLEAN : Complete(<<P.cmd, P.at>>, active, more, <<>>)
    BY <1>3 DEF ReadOk, StreamingBegins
  <2>3. QED
    BY <1>1, <1>2, <2>1, <2>2, CompleteRows
<1>4. CASE ReadEof
  <2>1. conn.partial[1] \in PacketIds /\ conn.partial[2] \in Seq(PacketIds)
    BY <1>2 DEF Types, ConnType
  <2>2. conn.partial[1][1] = server.commands /\ Rising(conn.partial[2], server.commands)
    BY <1>2, <1>4 DEF ReadEof, RowsInv, PartialInv
  <2>3. \E more \in BOOLEAN : Complete(conn.partial[1], FALSE, more, conn.partial[2])
    BY <1>4 DEF ReadEof
  <2>4. QED
    BY <1>1, <1>2, <2>1, <2>2, <2>3, CompleteRows
<1>5. QED
  BY <1>3, <1>4

\* Steps that leave the rows of every cursor alone.
LEMMA KeptRows ==
    ASSUME MySQLAssumption, WireOK, RowsInv,
           \/ LoseSocket \/ ErrorPacket \/ ConversionFails \/ GiveUp \/ ReadOkPacket \/ StreamEnds
           \/ ConnectWorks \/ SetAutocommit \/ Return \/ SimpleCommand \/ Connect \/ Ping
           \/ \E c \in Cursors :
                Execute(c) \/ CallProc(c) \/ AskNextSet(c) \/ CloseCursor(c) \/ Fetch(c)
    PROVE  OwnRows'
<1>1. Types /\ TypesInv /\ conn \in ConnType /\ server \in ServerType
      /\ cursor \in [Cursors -> CursorType]
  BY DEF WireOK, TypesInv, Types
<1>2. Quiet
  BY <1>1, QuietSteps
<1>3. server'.commands = server.commands
  BY <1>1, AsideStep, AcceptedOnly
     DEF LoseSocket, SocketUnusable, ServerLost, SequenceWrong, SendFails, ConnectFails, Close,
         AcceptOnly, ConnectWorks, Aside, ServerType
<1> DEFINE Same(c) == /\ cursor'[c].rows = cursor[c].rows
                      /\ cursor'[c].result = cursor[c].result
                      /\ cursor'[c].cmd = cursor[c].cmd
<1>4. ASSUME \E cn : Raise(cn)
      PROVE  \A c \in Cursors : Same(c)
  BY <1>1, <1>4 DEF Raise, CursorType
<1>5. ASSUME NEW c \in Cursors, Fetch(c)
      PROVE  \A d \in Cursors : Same(d)
  <2>1. PICK r \in 0..Len(cursor[c].rows) : cursor' = [cursor EXCEPT ![c].rownumber = r]
    BY <1>5 DEF Fetch
  <2>2. QED
    BY <1>1, <2>1 DEF CursorType
<1>6. \/ \E cn : Raise(cn)
      \/ cursor' = cursor
      \/ \E c \in Cursors : Fetch(c)
  BY DEF LoseSocket, SocketUnusable, ServerLost, SequenceWrong, SendFails, ConnectFails, Close,
         ErrorPacket, ConversionFails, GiveUp, ReadOkPacket, StreamEnds, ConnectWorks, SetAutocommit,
         Return, SimpleCommand, Connect, Ping, Execute, CallProc, AskNextSet, CloseCursor, Begin
<1>7. \A c \in Cursors : Same(c)
  BY <1>4, <1>5, <1>6
<1>8. QED
  BY <1>2, <1>3, <1>7, CalmCursors

\* The last command is the cursor's own, whose rows are gone.
LEMMA SentRows ==
    ASSUME MySQLAssumption, WireOK, RowsInv, SendCommand
    PROVE  /\ OwnRows'
           /\ \A c \in Cursors : cursor'[c].cmd = server'.commands => cursor'[c].rows = <<>>
<1>1. /\ todo # <<>> /\ Op \in Commands /\ (C \in Cursors => Op = "query")
      /\ server'.commands = server.commands + 1
      /\ \A c \in Cursors : /\ cursor'[c].rows = cursor[c].rows
                            /\ cursor'[c].result = cursor[c].result
                            /\ cursor'[c].cmd = IF c = C THEN server.commands + 1 ELSE cursor[c].cmd
  BY SendStep DEF WireOK, TypesInv
<1>2. Types /\ 1 \in DOMAIN todo /\ todo[1].op = Op /\ todo[1].c = C /\ server.commands \in Nat
      /\ \A c \in Cursors : cursor[c].cmd \in Nat
  BY <1>1, FirstTask DEF WireOK, TypesInv, Types, ServerType, CursorType
<1>3. PICK t \in TaskType : /\ todo' = <<t>> \o Rest /\ Op' = t.op /\ C' = C
                            /\ t.op \in {"read", "readUnbuffered", "ok"}
  BY SendStep DEF WireOK, TypesInv
<1>4. C \in Cursors => cursor[C].rows = <<>> /\ cursor[C].result = NoId
  BY <1>1, <1>2 DEF RowsInv, CursorInv
<1>5. \A i \in DOMAIN todo' : ~(todo'[i].op = "query" /\ todo'[i].c \in Cursors)
  <2>1. \A i \in DOMAIN todo' : todo'[i] = t \/ \E j \in DOMAIN todo : j > 1 /\ todo[j] = todo'[i]
    BY <1>1, <1>2, <1>3, OtherFirst
  <2>2. \A j \in DOMAIN todo : j > 1 => ~(todo[j].op = "query" /\ todo[j].c \in Cursors)
    BY <1>1 DEF WireOK, TypesInv, TodoInv, Readers, Commands
  <2>3. QED
    BY <1>3, <2>1, <2>2
<1>6. \A c \in Cursors : cursor[c].cmd <= server.commands
                         /\ (cursor[c].result # NoId => cursor[c].result[1] = cursor[c].cmd)
  BY DEF RowsInv, CursorInv
<1>7. CursorInv'
  <2>1. \A c \in Cursors : cursor'[c].cmd <= server'.commands
    BY <1>1, <1>2, <1>6
  <2>2. \A c \in Cursors : cursor'[c].result # NoId => cursor'[c].result[1] = cursor'[c].cmd
    BY <1>1, <1>4, <1>6
  <2>3. C' \in Cursors => cursor'[C'].cmd = server'.commands
    BY <1>1, <1>3
  <2>4. QED
    BY <1>3, <1>5, <2>1, <2>2, <2>3 DEF CursorInv
<1>8. PartialInv'
  BY <1>3 DEF PartialInv
<1>9. RowsOwned'
  BY <1>1, <1>4, EmptyRising DEF RowsInv, RowsOwned
<1>10. \A c \in Cursors : cursor'[c].cmd = server'.commands => cursor'[c].rows = <<>>
  BY <1>1, <1>2, <1>4, <1>6
<1>11. QED
  BY <1>7, <1>8, <1>9, <1>10 DEF OwnRows

\* _clear_result.
LEMMA ClearedCursor ==
    ASSUME Types, C \in Cursors, cursor' = Cleared(C)
    PROVE  \A c \in Cursors : /\ cursor'[c].cmd = cursor[c].cmd
                              /\ cursor'[c].rows = IF c = C THEN <<>> ELSE cursor[c].rows
                              /\ cursor'[c].result = IF c = C THEN NoId ELSE cursor[c].result
<1> DEFINE d == C
<1>1. /\ cursor' = [cursor EXCEPT ![d].result = NoId, ![d].rows = <<>>, ![d].rownumber = 0]
      /\ d \in Cursors /\ cursor \in [Cursors -> CursorType]
  BY DEF Cleared, Types
<1> HIDE DEF d
<1>2. \A c \in Cursors : /\ cursor'[c].cmd = cursor[c].cmd
                         /\ cursor'[c].rows = IF c = d THEN <<>> ELSE cursor[c].rows
                         /\ cursor'[c].result = IF c = d THEN NoId ELSE cursor[c].result
  BY <1>1 DEF CursorType
<1>3. QED
  BY <1>2 DEF d

\* The cursor forgets the rows of one result set before it reads the next.
LEMMA NextSetRows ==
    ASSUME MySQLAssumption, WireOK, RowsInv, NextSet \/ NextResult
    PROVE  OwnRows'
<1>1. Types /\ todo # <<>> /\ server' = server
  BY DEF NextSet, NextResult, WireOK, TypesInv
<1>2. C \in Cursors \cup {NoCursor}
  BY <1>1, FirstTask
<1>3. CASE NextSet
  <2>1. /\ Op \in {"execute", "closing", "nextset"} /\ cursor' = Cleared(C) /\ HasNextSet(C)
        /\ todo' = <<ReadAnswer(C)>> \o Rest \/ todo' = <<ReadAnswer(C)>> \o todo
    BY <1>3 DEF NextSet
  <2>2. C \in Cursors
    BY <1>1, <2>1, FirstTask DEF WireOK, TypesInv, TodoInv, OfCursor
  <2>3. /\ ReadAnswer(C) \in TaskType /\ ReadAnswer(C).op \in {"read", "readUnbuffered"}
        /\ ReadAnswer(C).c = C
    BY <1>2, Tasks
  <2>4. /\ todo' # <<>> /\ Op' \in {"read", "readUnbuffered"} /\ C' = C
        /\ \A i \in DOMAIN todo' : todo'[i] = ReadAnswer(C) \/ \E j \in DOMAIN todo : todo[j] = todo'[i]
    BY <1>1, <2>1, <2>3, OtherFirst
  <2>5. \A j \in DOMAIN todo : ~(todo[j].op = "query" /\ todo[j].c \in Cursors)
    BY <1>1, <2>1, FirstTask DEF WireOK, TypesInv, TodoInv, Readers
  <2>6. \A i \in DOMAIN todo' : ~(todo'[i].op = "query" /\ todo'[i].c \in Cursors)
    BY <2>3, <2>4, <2>5
  <2>7. cursor[C].cmd = server.commands
    BY <2>1, <2>2 DEF HasNextSet, RowsInv, CursorInv, ResultInv
  <2>8. \A c \in Cursors : /\ cursor'[c].cmd = cursor[c].cmd
                           /\ cursor'[c].rows = IF c = C THEN <<>> ELSE cursor[c].rows
                           /\ cursor'[c].result = IF c = C THEN NoId ELSE cursor[c].result
    BY <1>1, <2>1, <2>2, ClearedCursor
  <2>9. CursorInv'
    BY <1>1, <2>2, <2>4, <2>6, <2>7, <2>8 DEF RowsInv, CursorInv
  <2>10. PartialInv'
    BY <2>4 DEF PartialInv
  <2>11. RowsOwned'
    BY <2>8, EmptyRising DEF RowsInv, RowsOwned
  <2>12. QED
    BY <2>9, <2>10, <2>11 DEF OwnRows
<1>4. CASE NextResult
  <2>1. cursor' = cursor /\ todo' = <<Task("read", NoCursor)>> \o todo
    BY <1>4 DEF NextResult
  <2>2. /\ Task("read", NoCursor) \in TaskType /\ Task("read", NoCursor).op = "read"
        /\ Task("read", NoCursor).c = NoCursor
    BY Tasks
  <2>3. /\ todo' # <<>> /\ Op' = "read" /\ C' = NoCursor
        /\ \A i \in DOMAIN todo' :
             todo'[i] = Task("read", NoCursor) \/ \E j \in DOMAIN todo : todo[j] = todo'[i]
    BY <1>1, <2>1, <2>2, OtherFirst
  <2>4. \A i \in DOMAIN todo' : todo'[i].op = "query" => \E j \in DOMAIN todo : todo[j] = todo'[i]
    BY <2>2, <2>3
  <2>5. C' \notin Cursors
    BY <2>3 DEF MySQLAssumption
  <2>6. CursorInv' /\ RowsOwned'
    BY <1>1, <2>1, <2>3, <2>4, <2>5, ReadGoesOn
  <2>7. PartialInv'
    BY <2>3 DEF PartialInv
  <2>8. QED
    BY <2>6, <2>7 DEF OwnRows
<1>5. QED
  BY <1>3, <1>4

\* A command, or the end of a close, when no result set follows.
LEMMA NoNextSetRows ==
    ASSUME MySQLAssumption, WireOK, RowsInv, NoNextSet
    PROVE  OwnRows'
<1>1. /\ Types /\ todo # <<>> /\ server' = server /\ conn' = conn
      /\ Op \in {"execute", "closing", "nextset", "call"}
  BY DEF NoNextSet, WireOK, TypesInv
<1>2. C \in Cursors /\ Rest \in Seq(TaskType)
  BY <1>1, FirstTask DEF WireOK, TypesInv, TodoInv, OfCursor
<1>3. CASE Op \in {"execute", "call"}
  <2>1. cursor' = Cleared(C) /\ todo' = <<Task("query", C)>> \o Rest
    BY <1>3 DEF NoNextSet
  <2>2. Task("query", C) \in TaskType /\ Task("query", C).op = "query" /\ Task("query", C).c = C
    BY <1>2, Tasks
  <2>3. /\ todo' # <<>> /\ Op' = "query"
        /\ \A i \in DOMAIN todo' : todo'[i] = Task("query", C) \/ \E j \in DOMAIN todo : todo[j] = todo'[i]
    BY <1>1, <2>1, <2>2, OtherFirst
  <2>4. \A j \in DOMAIN todo : ~(todo[j].op = "query" /\ todo[j].c \in Cursors)
    BY <1>1, FirstTask DEF WireOK, TypesInv, TodoInv, Readers
  <2>5. \A i \in DOMAIN todo' : todo'[i].op = "query" /\ todo'[i].c \in Cursors => todo'[i].c = C
    BY <2>2, <2>3, <2>4
  <2>6. \A c \in Cursors : /\ cursor'[c].cmd = cursor[c].cmd
                           /\ cursor'[c].rows = IF c = C THEN <<>> ELSE cursor[c].rows
                           /\ cursor'[c].result = IF c = C THEN NoId ELSE cursor[c].result
    BY <1>1, <1>2, <2>1, ClearedCursor
  <2>7. CursorInv'
    BY <1>1, <1>2, <2>3, <2>5, <2>6 DEF RowsInv, CursorInv, Reading, Readers
  <2>8. PartialInv'
    BY <2>3 DEF PartialInv
  <2>9. RowsOwned'
    BY <2>6, EmptyRising DEF RowsInv, RowsOwned
  <2>10. QED
    BY <2>7, <2>8, <2>9 DEF OwnRows
<1>4. CASE Op \in {"closing", "nextset"}
  <2>1. todo' = <<>> \o Rest
        /\ (cursor' = cursor \/ cursor' = [cursor EXCEPT ![C].attached = FALSE])
    BY <1>4 DEF NoNextSet
  <2>2. todo' = Rest
    BY <1>2, <2>1, ConcatEmptySeq
  <2>3. Quiet
    BY <1>1, <2>2, AfterRest DEF Quiet, WireOK
  <2>4. ASSUME NEW d \in Cursors, cursor' = [cursor EXCEPT ![d].attached = FALSE]
        PROVE  \A c \in Cursors : /\ cursor'[c].rows = cursor[c].rows
                                  /\ cursor'[c].result = cursor[c].result
                                  /\ cursor'[c].cmd = cursor[c].cmd
    BY <1>1, <2>4 DEF Types, CursorType
  <2>5. QED
    BY <1>1, <1>2, <2>1, <2>3, <2>4, CalmCursors
<1>5. QED
  BY <1>1, <1>3, <1>4

\* A new cursor, or the next row of a stream.
LEMMA CursorRows ==
    ASSUME MySQLAssumption, WireOK, RowsInv, NEW c \in Cursors, OpenCursor(c) \/ FetchNext(c)
    PROVE  OwnRows'
<1>1. Types /\ TypesInv /\ server' = server /\ conn' = conn /\ cursor \in [Cursors -> CursorType]
  BY DEF OpenCursor, FetchNext, WireOK, TypesInv, Types
<1>2. CASE OpenCursor(c)
  <2>1. cursor' = [cursor EXCEPT ![c] = NewCursor] /\ todo' = <<>>
    BY <1>2 DEF OpenCursor, Idle
  <2>2. \A d \in Cursors : cursor'[d] = IF d = c THEN NewCursor ELSE cursor[d]
    BY <1>1, <2>1
  <2>3. server.commands \in Nat /\ 0 <= server.commands
    BY <1>1 DEF Types, ServerType
  <2>4. DOMAIN todo' = {}
    BY <2>1
  <2>5. CursorInv'
    BY <1>1, <2>1, <2>2, <2>3, <2>4, Constants DEF RowsInv, CursorInv, Reading
  <2>6. PartialInv'
    BY <2>1 DEF PartialInv
  <2>7. RowsOwned'
    <3>1. \A d \in Cursors : cursor'[d].rows = <<>> \/ cursor'[d] = cursor[d]
      BY <2>2, Constants
    <3>2. QED
      BY <3>1, EmptyRising DEF RowsInv, RowsOwned
  <2>8. QED
    BY <2>5, <2>6, <2>7 DEF OwnRows
<1>3. CASE FetchNext(c)
  <2>1. /\ cursor[c].result = conn.result.id /\ conn.result.active /\ cursor' = cursor
    BY <1>3 DEF FetchNext
  <2>2. PICK op \in {"fetch", "skip"} : todo' = <<Task(op, c)>>
    BY <1>3 DEF FetchNext
  <2>3. Task(op, c) \in TaskType /\ Task(op, c).op = op /\ Task(op, c).c = c
    BY Tasks
  <2>4. /\ DOMAIN todo' = {1} /\ todo'[1] = Task(op, c) /\ Op' = op /\ C' = c
    BY <2>2, <2>3, ShortSeqs DEF Op, C
  <2>5. CursorInv'
    BY <1>1, <2>1, <2>3, <2>4 DEF RowsInv, CursorInv, Reading, Readers
  <2>6. PartialInv'
    BY <2>4 DEF PartialInv
  <2>7. RowsOwned'
    BY <2>1 DEF RowsInv, RowsOwned
  <2>8. QED
    BY <2>5, <2>6, <2>7 DEF OwnRows
<1>4. QED
  BY <1>2, <1>3

\* Every step keeps what is said of the cursors and of their rows.
LEMMA OwnRowsStep ==
    ASSUME MySQLAssumption, WireOK, RowsInv, MySQLNext
    PROVE  OwnRows'
<1>1. CASE ConnectionLost
  <2>1. conn' = conn /\ cursor' = cursor /\ todo' = todo
    BY <1>1 DEF ConnectionLost
  <2>2. server'.commands = server.commands
    BY <1>1 DEF ConnectionLost, WireOK, TypesInv, Types, ServerType
  <2>3. QED
    BY <2>1, <2>2 DEF RowsInv, OwnRows, CursorInv, PartialInv, RowsOwned, Reading, Op, C
<1>2. CASE AcceptOnly
  BY <1>2, CompletedRows, HeaderRows, RowRows, StreamedRows, KeptRows DEF AcceptOnly
<1>3. CASE Aside
  BY <1>3, KeptRows, NextSetRows, NoNextSetRows, CursorRows DEF Aside
<1>4. QED
  BY <1>1, <1>2, <1>3, KeptRows, HeaderRows, SentRows, NextCases

\* Whatever the step, the packets left to read come later still.
LEMMA BeforeAfter ==
    ASSUME Types, RowsInv, conn.sock = "open", ~Stuck, server'.commands = server.commands,
           \A rows \in Seq(PacketIds) : Before(rows, wire) => Before(rows, wire'),
           todo' # <<>> /\ Op' = "rows" => Before(conn'.partial[2], wire'),
           \A c \in Cursors : \/ /\ cursor'[c].cmd = cursor[c].cmd
                                 /\ cursor'[c].rows = cursor[c].rows
                              \/ Before(cursor'[c].rows, wire')
    PROVE  BeforeInv'
<1>1. \A c \in Cursors : cursor[c].cmd = server.commands => Before(cursor[c].rows, wire)
  BY DEF RowsInv, BeforeInv
<1>2. \A c \in Cursors : cursor'[c].cmd = server'.commands => Before(cursor'[c].rows, wire')
  BY <1>1 DEF Types, CursorType
<1>3. QED
  BY <1>2 DEF BeforeInv

\* The packets that remain come after the one that is accepted.
LEMMA BeforeTail ==
    ASSUME MySQLAssumption, WireOK, Readable, InSequence,
           NEW rows \in Seq(PacketIds), Before(rows, wire)
    PROVE  /\ Before(rows, Tail(wire)) /\ Before(<<>>, Tail(wire))
           /\ P.at # 0 => Before(Append(rows, <<P.cmd, P.at>>), Tail(wire))
<1>1. wire # <<>> /\ Types
  BY DEF Readable, WireOK, TypesInv
<1>2. /\ \A i \in DOMAIN Tail(wire) : i + 1 \in DOMAIN wire /\ Tail(wire)[i] = wire[i + 1]
      /\ <<P.cmd, P.at>> \in PacketIds /\ P.at \in Nat
      /\ \A i \in DOMAIN Tail(wire) : Tail(wire)[i].at # 0 => P.at < Tail(wire)[i].at
  BY <1>1, FirstPacket, AcceptedPacket DEF WireOK
<1>3. Before(rows, Tail(wire)) /\ Before(<<>>, Tail(wire))
  BY <1>2, ShortSeqs DEF Before
<1> DEFINE row == <<P.cmd, P.at>>
<1>4. row \in PacketIds /\ row[2] = P.at
  BY <1>2
<1> HIDE DEF row
<1>5. \A i \in DOMAIN Append(rows, row) :
         (i \in DOMAIN rows /\ Append(rows, row)[i] = rows[i]) \/ Append(rows, row)[i] = row
  BY <1>4
<1>6. P.at # 0 => Before(Append(rows, row), Tail(wire))
  BY <1>2, <1>3, <1>4, <1>5 DEF Before
<1>7. QED
  BY <1>3, <1>6 DEF row

(***************************************************************************)
(* A packet that is read comes before those behind it.                     *)
(***************************************************************************)
LEMMA AcceptBefore ==
    ASSUME MySQLAssumption, WireOK, RowsInv, AcceptOnly
    PROVE  BeforeInv'
<1>1. /\ Readable /\ InSequence /\ wire' = Tail(wire) /\ server'.commands = server.commands
      /\ Types /\ TypesInv
  BY AcceptedOnly DEF WireOK, TypesInv
<1>2. /\ ~Stuck /\ conn.sock = "open" /\ todo # <<>> /\ Advanced \in ConnType
      /\ cursor \in [Cursors -> CursorType] /\ conn.partial[2] \in Seq(PacketIds)
      /\ (P.kind # "err" => P.at # 0) /\ P.at \in Nat /\ <<P.cmd, P.at>> \in PacketIds
  BY <1>1, AcceptStep, AcceptedPacket, FirstPacket DEF Stuck, Readable, Types, ConnType, WireOK
<1>3. \A rows \in Seq(PacketIds) : Before(rows, wire) => Before(rows, wire')
  BY <1>1, <1>2, FirstPacket DEF Before, Readable
<1>4. ASSUME todo' # <<>> /\ Op' = "rows" => Before(conn'.partial[2], wire'),
             \A c \in Cursors : \/ /\ cursor'[c].cmd = cursor[c].cmd
                                   /\ cursor'[c].rows = cursor[c].rows
                                \/ Before(cursor'[c].rows, wire')
      PROVE  BeforeInv'
  BY <1>1, <1>2, <1>3, <1>4, BeforeAfter
<1>5. Before(<<>>, wire') /\ (Op = "rows" => Before(conn.partial[2], wire))
  BY <1>1, <1>2, ShortSeqs, BeforePacket DEF Before
<1>6. Quiet => ~(todo' # <<>> /\ Op' = "rows")
  BY DEF Quiet, Readers
<1>7. CASE ErrorPacket \/ ConversionFails \/ GiveUp \/ ReadOkPacket \/ StreamEnds
  <2>1. Quiet
    BY <1>1, <1>7, QuietSteps
  <2>2. cursor' = cursor \/ \E cn : Raise(cn)
    BY <1>7 DEF ErrorPacket, ConversionFails, GiveUp, ReadOkPacket, StreamEnds
  <2>3. \A c \in Cursors : cursor'[c].cmd = cursor[c].cmd /\ cursor'[c].rows = cursor[c].rows
    <3>1. ASSUME \E cn : Raise(cn)
          PROVE  \A c \in Cursors : cursor'[c].cmd = cursor[c].cmd /\ cursor'[c].rows = cursor[c].rows
      BY <1>2, <3>1 DEF Raise, CursorType
    <3>2. QED
      BY <2>2, <3>1
  <2>4. QED
    BY <1>4, <1>6, <2>1, <2>3
<1>8. CASE ReadOk \/ StreamingBegins \/ ReadEof
  <2>1. Quiet
    BY <1>1, <1>8, QuietSteps
  <2>2. PICK id \in PacketIds, active \in BOOLEAN, more \in BOOLEAN, rows \in Seq(PacketIds) :
          Complete(id, active, more, rows) /\ Before(rows, wire')
    <3>1. CASE ReadOk \/ StreamingBegins
      <4>1. \E active, more \in BOOLEAN : Complete(<<P.cmd, P.at>>, active, more, <<>>)
        BY <3>1 DEF ReadOk, StreamingBegins
      <4>2. <<>> \in Seq(PacketIds)
        BY ShortSeqs
      <4>3. QED
        BY <1>2, <1>5, <4>1, <4>2
    <3>2. CASE ReadEof
      <4>1. \E more \in BOOLEAN : Complete(conn.partial[1], FALSE, more, conn.partial[2])
        BY <3>2 DEF ReadEof
      <4>2. Before(conn.partial[2], wire')
        BY <1>2, <1>3, <1>5, <3>2 DEF ReadEof
      <4>3. conn.partial[1] \in PacketIds
        BY <1>1 DEF Types, ConnType
      <4>4. QED
        BY <1>2, <4>1, <4>2, <4>3
    <3>3. QED
      BY <1>8, <3>1, <3>2
  <2>3. \A c \in Cursors : /\ cursor'[c].cmd = cursor[c].cmd
                           /\ cursor'[c].rows = IF c = C THEN rows ELSE cursor[c].rows
    BY <1>1, <2>2, CompleteStep
  <2>4. QED
    BY <1>4, <1>6, <2>1, <2>2, <2>3
<1>9. CASE ReadHeader
  <2>1. conn' = [Advanced EXCEPT !.partial = <<<<P.cmd, P.at>>, <<>>>>] /\ cursor' = cursor
    BY <1>9 DEF ReadHeader
  <2>2. conn'.partial[2] = <<>>
    BY <1>2, <2>1 DEF ConnType
  <2>3. QED
    BY <1>4, <1>5, <2>1, <2>2
<1>10. CASE ReadRow
  <2>1. /\ conn' = [Advanced EXCEPT !.partial =
                      <<conn.partial[1], Append(conn.partial[2], <<P.cmd, P.at>>)>>]
        /\ cursor' = cursor /\ Op = "rows" /\ P.kind # "err"
    BY <1>10 DEF ReadRow
  <2>2. conn'.partial[2] = Append(conn.partial[2], <<P.cmd, P.at>>)
    BY <1>2, <2>1 DEF ConnType
  <2>3. Before(conn'.partial[2], wire')
    BY <1>1, <1>2, <1>5, <2>1, <2>2, BeforeTail
  <2>4. QED
    BY <1>4, <2>1, <2>3
<1>11. CASE StreamRow
  <2>1. Quiet /\ P.kind # "err"
    BY <1>1, <1>11, QuietSteps DEF StreamRow
  <2>2. CASE cursor' = cursor
    BY <1>4, <1>6, <2>1, <2>2
  <2>3. CASE Op = "fetch"
             /\ cursor' = [cursor EXCEPT ![C].rows = Append(cursor[C].rows, <<P.cmd, P.at>>)]
    <3>1. C \in Cursors
      BY <1>1, <1>2, <2>3, FirstTask DEF TypesInv, TodoInv, OfCursor
    <3>2. cursor[C].cmd = server.commands
      BY <1>2, <2>3, <3>1 DEF RowsInv, CursorInv, ResultInv
    <3>3. Before(cursor[C].rows, wire) /\ cursor[C].rows \in Seq(PacketIds)
      BY <1>2, <3>1, <3>2 DEF RowsInv, BeforeInv, CursorType
    <3>4. Before(Append(cursor[C].rows, <<P.cmd, P.at>>), wire')
      BY <1>1, <1>2, <2>1, <3>3, BeforeTail
    <3> DEFINE d == C
               more == Append(cursor[C].rows, <<P.cmd, P.at>>)
    <3>5. cursor' = [cursor EXCEPT ![d].rows = more] /\ d \in Cursors /\ Before(more, wire')
      BY <2>3, <3>1, <3>4
    <3> HIDE DEF d, more
    <3>6. \A c \in Cursors : /\ cursor'[c].cmd = cursor[c].cmd
                             /\ cursor'[c].rows = IF c = d THEN more ELSE cursor[c].rows
      BY <1>2, <3>5 DEF CursorType
    <3>7. QED
      BY <1>4, <1>6, <2>1, <3>5, <3>6
  <2>4. QED
    BY <1>11, <2>2, <2>3 DEF StreamRow
<1>12. QED
  BY <1>7, <1>8, <1>9, <1>10, <1>11 DEF AcceptOnly

\* A call that only prepares or ends a read touches the cursor at most by
\* clearing it.
LEMMA AsideCursors ==
    ASSUME MySQLAssumption, TypesInv, Aside
    PROVE  /\ \A c \in Cursors : \/ /\ cursor'[c].cmd = cursor[c].cmd
                                    /\ cursor'[c].rows = cursor[c].rows
                                 \/ cursor'[c].rows = <<>>
           /\ todo' # <<>> /\ Op' \in Readers =>
                (NextResult \/ NextSet) /\ Op' \in {"read", "readUnbuffered"}
<1>1. Types /\ cursor \in [Cursors -> CursorType]
  BY DEF TypesInv, Types
<1> DEFINE Mild == \A c \in Cursors : \/ /\ cursor'[c].cmd = cursor[c].cmd
                                         /\ cursor'[c].rows = cursor[c].rows
                                      \/ cursor'[c].rows = <<>>
<1>2. ASSUME Quiet PROVE ~(todo' # <<>> /\ Op' \in Readers)
  BY <1>2 DEF Quiet
<1>3. CASE \/ SetAutocommit \/ Return \/ SimpleCommand \/ Connect \/ Ping
           \/ \E c \in Cursors : Execute(c) \/ CallProc(c) \/ AskNextSet(c) \/ CloseCursor(c)
  <2>1. cursor' = cursor
    BY <1>3 DEF SetAutocommit, Return, SimpleCommand, Connect, Ping, Execute, CallProc, AskNextSet,
                CloseCursor, Begin
  <2>2. Quiet
    BY <1>3, QuietSteps
  <2>3. QED
    BY <1>2, <2>1, <2>2
<1>4. ASSUME NEW c \in Cursors, OpenCursor(c) \/ Fetch(c)
      PROVE  Mild
  <2>1. CASE cursor' = [cursor EXCEPT ![c] = NewCursor]
    <3>1. \A d \in Cursors : cursor'[d] = IF d = c THEN NewCursor ELSE cursor[d]
      BY <1>1, <2>1
    <3>2. QED
      BY <3>1, Constants
  <2>2. ASSUME NEW r, cursor' = [cursor EXCEPT ![c].rownumber = r]
        PROVE  Mild
    BY <1>1, <2>2 DEF CursorType
  <2>3. QED
    BY <1>4, <2>1, <2>2 DEF OpenCursor, Fetch
<1>5. CASE \E c \in Cursors : OpenCursor(c) \/ Fetch(c)
  BY <1>2, <1>4, <1>5, QuietSteps
<1>6. ASSUME NEW c \in Cursors, FetchNext(c)
      PROVE  cursor' = cursor /\ Op' \notin Readers
  BY <1>6, Tasks DEF FetchNext, Op, Readers
<1>7. ASSUME NextResult \/ NextSet \/ NoNextSet
      PROVE  todo # <<>> /\ C \in Cursors \cup {NoCursor} /\ Rest \in Seq(TaskType)
             /\ (Op \in OfCursor => C \in Cursors)
  BY <1>1, <1>7, FirstTask DEF NextResult, NextSet, NoNextSet, TypesInv, TodoInv
<1>8. CASE NextResult
  <2>1. Task("read", NoCursor) \in TaskType /\ Task("read", NoCursor).op = "read"
    BY Tasks
  <2>2. todo' = <<Task("read", NoCursor)>> \o todo /\ cursor' = cursor
    BY <1>8 DEF NextResult
  <2>3. Op' = "read"
    BY <1>1, <1>7, <1>8, <2>1, <2>2, OtherFirst
  <2>4. QED
    BY <1>8, <2>2, <2>3
<1>9. CASE NextSet
  <2>1. /\ ReadAnswer(C) \in TaskType /\ ReadAnswer(C).op \in {"read", "readUnbuffered"}
    BY <1>7, <1>9, Tasks
  <2>2. /\ todo' = <<ReadAnswer(C)>> \o Rest \/ todo' = <<ReadAnswer(C)>> \o todo
        /\ cursor' = Cleared(C) /\ C \in Cursors
    BY <1>7, <1>9 DEF NextSet, OfCursor
  <2>3. Op' \in {"read", "readUnbuffered"}
    BY <1>1, <1>7, <1>9, <2>1, <2>2, OtherFirst
  <2>4. QED
    BY <1>1, <1>9, <2>2, <2>3, ClearedCursor
<1>10. CASE NoNextSet
  <2>1. C \in Cursors
    BY <1>7, <1>10 DEF NoNextSet, OfCursor
  <2>2. Mild
    <3>1. ASSUME NEW d \in Cursors, cursor' = [cursor EXCEPT ![d].attached = FALSE]
          PROVE  Mild
      BY <1>1, <3>1 DEF CursorType
    <3>2. ASSUME cursor' = Cleared(C) PROVE Mild
      BY <1>1, <2>1, <3>2, ClearedCursor
    <3>3. cursor' = cursor \/ cursor' = Cleared(C) \/ cursor' = [cursor EXCEPT ![C].attached = FALSE]
      BY <1>10 DEF NoNextSet
    <3>4. QED
      BY <2>1, <3>1, <3>2, <3>3
  <2>3. ~(todo' # <<>> /\ Op' \in Readers)
    <3>1. todo' = <<Task("query", C)>> \o Rest \/ todo' = <<>> \o Rest
      BY <1>10 DEF NoNextSet
    <3>2. CASE todo' = <<Task("query", C)>> \o Rest
      <4>1. Task("query", C) \in TaskType /\ Task("query", C).op = "query"
        BY <1>7, <1>10, Tasks
      <4>2. QED
        BY <1>1, <1>7, <1>10, <3>2, <4>1, OtherFirst DEF Readers
    <3>3. CASE todo' = <<>> \o Rest
      <4>1. todo' = Rest
        BY <1>7, <1>10, <3>3, ConcatEmptySeq
      <4>2. QED
        BY <1>7, <1>10, <4>1, AfterRest
    <3>4. QED
      BY <3>1, <3>2, <3>3
  <2>4. QED
    BY <2>2, <2>3
<1>11. QED
  BY <1>3, <1>5, <1>6, <1>8, <1>9, <1>10 DEF Aside

(***************************************************************************)
(* A result given up before a packet numbered 1 is not forgotten.          *)
(***************************************************************************)
LEMMA StrayStays ==
    ASSUME MySQLAssumption, TypesInv, [MySQLNext]_vars, server.stray
    PROVE  server'.stray
<1>1. server \in ServerType
  BY DEF TypesInv, Types
<1>2. CASE LoseSocket
  BY <1>1, <1>2 DEF LoseSocket, SocketUnusable, ServerLost, SequenceWrong, SendFails, ConnectFails,
                    Close, ServerType
<1>3. CASE AcceptOnly
  BY <1>3, AcceptedOnly DEF TypesInv
<1>4. CASE SendLocalFile
  BY <1>4 DEF SendLocalFile
<1>5. CASE SendCommand
  BY <1>1, <1>5 DEF SendCommand, ServerType
<1>6. CASE ConnectWorks
  BY <1>1, <1>6 DEF ConnectWorks, ServerType
<1>7. CASE Aside
  BY <1>7, AsideStep DEF TypesInv
<1>8. CASE ConnectionLost
  BY <1>1, <1>8 DEF ConnectionLost, ServerType
<1>9. CASE UNCHANGED vars
  BY <1>9 DEF vars
<1>10. QED
  BY <1>2, <1>3, <1>4, <1>5, <1>6, <1>7, <1>8, <1>9, NextCases

(***************************************************************************)
(* A packet taken leaves one to be read that the next answer could begin   *)
(* with only to a client that is still to read it: an answer's last packet *)
(* has been taken, rows are left that are asked for, or another set is.    *)
(***************************************************************************)
LEMMA HeadAccept ==
    ASSUME MySQLAssumption, TypesInv, WireInv, HeadInv, AcceptOnly, ~server'.stray
    PROVE  HeadInv'
<1>1. /\ Accept /\ Readable /\ InSequence /\ wire' = Tail(wire) /\ Types
      /\ conn \in ConnType /\ server \in ServerType
  BY AcceptedOnly DEF TypesInv, Types
<1>2. /\ ~Stuck /\ conn.sock = "open" /\ wire # <<>> /\ todo # <<>> /\ Advanced \in ConnType
      /\ Advanced.result = conn.result /\ (Op \in Readers \/ conn.result.active)
  BY <1>1, AcceptStep DEF Stuck, Readable
<1>3. wire' # <<>> /\ (P.at)' % SeqMod = 1 => P.kind \notin Last
  <2> SUFFICES ASSUME wire' # <<>>, P.kind \in Last
               PROVE  (P.at)' % SeqMod # 1
    OBVIOUS
  <2>1. \A i \in DOMAIN Tail(wire) : Tail(wire)[i].at = 0
    BY <1>1, AcceptedPacket
  <2>2. wire' \in Seq(PacketType)
    BY <1>1, <1>2, FirstPacket
  <2>3. P' = wire'[1] /\ 1 \in DOMAIN wire'
    BY <2>2, TailSeq DEF P
  <2>4. (P.at)' = 0
    BY <1>1, <2>1, <2>3
  <2>5. QED
    BY <2>4, Modulus
<1>4. todo # <<>> /\ Op \in {"ok", "giveUp"} => P.kind \in {"ok", "err"}
  BY <1>1, <1>2, FirstPacket DEF HeadInv
<1>5. P.kind \in {"ok", "err", "eof", "local"} <=> P.kind \in Last
  BY DEF Last
<1>6. ASSUME Quiet, P.kind \in Last \/ conn'.result.active \/ conn'.result.more
      PROVE  HeadInv'
  <2>1. ~(todo' # <<>> /\ Op' \in {"ok", "giveUp"})
    BY <1>6 DEF Quiet, Readers
  <2>2. wire' # <<>> /\ (P.at)' % SeqMod = 1 => conn'.result.active \/ conn'.result.more
    BY <1>3, <1>6
  <2>3. QED
    BY <2>1, <2>2 DEF HeadInv
<1>7. ASSUME NEW id \in PacketIds, NEW active \in BOOLEAN, NEW more \in BOOLEAN,
             NEW rows \in Seq(PacketIds), Complete(id, active, more, rows)
      PROVE  conn'.result.active = active /\ conn'.result.more = more
  BY <1>1, <1>7, CompleteStep
<1>8. CASE ErrorPacket
  <2>1. Quiet
    BY <1>8, QuietSteps
  <2>2. QED
    BY <1>5, <1>6, <1>8, <2>1 DEF ErrorPacket
<1>9. CASE ConversionFails
  <2>1. Quiet
    BY <1>9, QuietSteps
  <2>2. Op \in {"rows", "fetch"} /\ Raise(Advanced)
    BY <1>9 DEF ConversionFails
  <2>3. CASE Op = "fetch"
    <3>1. conn'.result = conn.result
      BY <1>1, <1>2, <2>2, RaiseStep
    <3>2. QED
      BY <1>2, <1>6, <2>1, <2>3, <3>1 DEF Readers
  <2>4. CASE Op = "rows"
    <3>1. ~LeavesStray
      <4>1. server' = [server EXCEPT !.faults = server.faults + 1,
                                     !.stray = server.stray \/ LeavesStray]
        BY <1>9 DEF ConversionFails
      <4>2. server'.stray = (server.stray \/ LeavesStray)
        BY <1>1, <4>1 DEF ServerType
      <4>3. QED
        BY <4>2
    <3>2. ~(wire' # <<>> /\ (P.at)' % SeqMod = 1)
      BY <1>1, <2>4, <3>1 DEF LeavesStray, P
    <3>3. ~(todo' # <<>> /\ Op' \in {"ok", "giveUp"})
      BY <2>1 DEF Quiet, Readers
    <3>4. QED
      BY <3>2, <3>3 DEF HeadInv
  <2>5. QED
    BY <2>2, <2>3, <2>4
<1>10. CASE GiveUp \/ ReadOkPacket
  <2>1. Quiet
    BY <1>10, QuietSteps
  <2>2. P.kind \in {"ok", "err"}
    BY <1>2, <1>4, <1>10 DEF GiveUp, ReadOkPacket
  <2>3. QED
    BY <1>5, <1>6, <2>1, <2>2
<1>11. CASE ReadOk
  <2>1. Quiet
    BY <1>11, QuietSteps
  <2>2. Complete(<<P.cmd, P.at>>, FALSE, P.kind = "okMore", <<>>) /\ P.kind \in {"ok", "okMore"}
    BY <1>11 DEF ReadOk
  <2>3. <<P.cmd, P.at>> \in PacketIds /\ <<>> \in Seq(PacketIds) /\ (P.kind = "okMore") \in BOOLEAN
    BY <1>1, <1>2, FirstPacket, ShortSeqs
  <2>4. conn'.result.more = (P.kind = "okMore")
    BY <1>7, <2>2, <2>3
  <2>5. QED
    BY <1>5, <1>6, <2>1, <2>2, <2>4
<1>12. CASE StreamingBegins
  <2>1. Quiet
    BY <1>12, QuietSteps
  <2>2. Complete(<<P.cmd, P.at>>, TRUE, FALSE, <<>>)
    BY <1>12 DEF StreamingBegins
  <2>3. <<P.cmd, P.at>> \in PacketIds /\ <<>> \in Seq(PacketIds)
    BY <1>1, <1>2, FirstPacket, ShortSeqs
  <2>4. QED
    BY <1>6, <1>7, <2>1, <2>2, <2>3
<1>13. CASE ReadEof
  <2>1. Quiet
    BY <1>13, QuietSteps
  <2>2. /\ Complete(conn.partial[1], FALSE, P.kind = "eofMore", conn.partial[2])
        /\ P.kind \in {"eof", "eofMore"}
    BY <1>13 DEF ReadEof
  <2>3. /\ conn.partial[1] \in PacketIds /\ conn.partial[2] \in Seq(PacketIds)
        /\ (P.kind = "eofMore") \in BOOLEAN
    BY <1>1 DEF ConnType
  <2>4. conn'.result.more = (P.kind = "eofMore")
    BY <1>7, <2>2, <2>3
  <2>5. QED
    BY <1>5, <1>6, <2>1, <2>2, <2>4
<1>14. CASE ReadHeader \/ ReadRow
  <2>1. todo' # <<>> /\ Op' = "rows"
    <3>1. CASE ReadRow
      BY <1>2, <3>1 DEF ReadRow, Op
    <3>2. CASE ReadHeader
      <4>1. todo' = <<Task("rows", C)>> \o Rest
        BY <3>2 DEF ReadHeader
      <4>2. Task("rows", C) \in TaskType /\ Task("rows", C).op = "rows"
        BY <1>1, <1>2, FirstTask, Tasks
      <4>3. QED
        BY <1>1, <1>2, <4>1, <4>2, OtherFirst
    <3>3. QED
      BY <1>14, <3>1, <3>2
  <2>2. QED
    BY <2>1 DEF HeadInv, Reading, Readers
<1>15. CASE StreamEnds
  <2>1. Quiet
    BY <1>15, QuietSteps
  <2>2. conn'.result.more = (P.kind = "eofMore") /\ P.kind \in {"eof", "eofMore"}
    BY <1>1, <1>15, EndedType DEF StreamEnds
  <2>3. QED
    BY <1>5, <1>6, <2>1, <2>2
<1>16. CASE StreamRow
  <2>1. Quiet
    BY <1>16, QuietSteps
  <2>2. conn'.result = conn.result /\ conn.result.active
    BY <1>2, <1>16 DEF StreamRow, Commands, Readers
  <2>3. QED
    BY <1>6, <2>1, <2>2
<1>17. QED
  BY <1>8, <1>9, <1>10, <1>11, <1>12, <1>13, <1>14, <1>15, <1>16 DEF AcceptOnly

\* The answer to a file is one packet, and the client waits for it.
LEMMA HeadFile ==
    ASSUME MySQLAssumption, TypesInv, WireInv, SendLocalFile
    PROVE  HeadInv'
<1>1. /\ Readable /\ InSequence /\ Op \in {"read", "readUnbuffered"} /\ Types
      /\ P.kind = "local"
      /\ todo' = todo \/ todo' = <<Task("giveUp", C)>> \o Rest
  BY DEF SendLocalFile, TypesInv
<1>2. todo # <<>> /\ wire # <<>> /\ C \in Cursors \cup {NoCursor}
  BY <1>1, AcceptStep, FirstTask
<1>3. todo' # <<>> /\ Op' \in {"read", "readUnbuffered", "giveUp"}
  <2>1. CASE todo' = todo
    BY <1>1, <1>2, <2>1 DEF Op
  <2>2. CASE todo' = <<Task("giveUp", C)>> \o Rest
    <3>1. Task("giveUp", C) \in TaskType /\ Task("giveUp", C).op = "giveUp"
      BY <1>2, Tasks
    <3>2. QED
      BY <1>1, <1>2, <2>2, <3>1, OtherFirst
  <2>3. QED
    BY <1>1, <2>1, <2>2
<1>4. \A i \in DOMAIN wire' : wire'[i].kind \in {"ok", "err"}
  <2>1. CASE server.alive
    BY <1>1, <2>1, FileAnswer
  <2>2. CASE ~server.alive
    <3>1. InOrder /\ \A i \in DOMAIN Tail(wire) : Tail(wire)[i].at = 0
      BY <1>1, AcceptedPacket DEF Last
    <3>2. \A i \in DOMAIN Tail(wire) : i + 1 \in DOMAIN wire /\ Tail(wire)[i] = wire[i + 1]
      BY <1>1, <1>2, FirstPacket
    <3>3. \A i \in DOMAIN Tail(wire) : Tail(wire)[i].kind = "err"
      BY <3>1, <3>2 DEF InOrder
    <3>4. QED
      BY <1>1, <2>2, <3>3, FileAnswer
  <2>3. QED
    BY <2>1, <2>2
<1>5. QED
  BY <1>3, <1>4 DEF HeadInv, Reading, Readers

\* A command is followed by a read, and one without rows by a short one.
LEMMA HeadSend ==
    ASSUME MySQLAssumption, TypesInv, HeadInv, SendCommand
    PROVE  HeadInv'
<1>1. Types /\ TodoInv
  BY DEF TypesInv
<1>2. CASE wire # <<>>
  BY <1>1, <1>2, SendStuck DEF HeadInv
<1>3. CASE wire = <<>>
  <2>1. PICK t \in TaskType :
          /\ Op' = t.op /\ todo' # <<>>
          /\ IF Op = "query" THEN t.op \in {"read", "readUnbuffered"} ELSE t.op = "ok"
    BY <1>1, SendStep
  <2>2. Reading'
    BY <2>1 DEF Reading, Readers
  <2>3. ASSUME Op' \in {"ok", "giveUp"}
        PROVE  \A i \in DOMAIN wire' : wire'[i].kind \in {"ok", "err"}
    <3>1. Op # "query"
      BY <2>1, <2>3
    <3>2. PICK k : /\ k = <<"ok">> \/ k = <<"err">>
                   /\ wire' = IF server.alive THEN wire \o Answer(server.commands + 1, k) ELSE wire
      BY <1>1, <3>1, SendStep
    <3> DEFINE answer == Answer(server.commands + 1, k)
    <3>3. server.commands + 1 \in Nat
      BY <1>1 DEF Types, ServerType
    <3>4. /\ answer \in Seq(PacketType) /\ DOMAIN answer = DOMAIN k /\ DOMAIN k = 1..Len(k)
          /\ \A i \in DOMAIN k : answer[i].kind = k[i]
          /\ Len(k) = 1 /\ k[1] \in {"ok", "err"}
      BY <3>2, <3>3, AnswerSeq
    <3> HIDE DEF answer
    <3>5. \A i \in DOMAIN answer : answer[i].kind \in {"ok", "err"}
      BY <3>4
    <3>6. wire' = answer \/ wire' = <<>>
      BY <1>3, <3>2, <3>4, ConcatEmptySeq DEF answer
    <3>7. QED
      BY <3>5, <3>6, ShortSeqs
  <2>4. QED
    BY <2>2, <2>3 DEF HeadInv
<1>4. QED
  BY <1>2, <1>3

\* The connection lets go of a result only to read the next one.
LEMMA HeadAside ==
    ASSUME MySQLAssumption, TypesInv, HeadInv, Aside
    PROVE  HeadInv'
<1>1. /\ Types /\ ~NeedsPacket /\ wire' = wire /\ conn'.sock = conn.sock
      /\ conn' = conn \/ conn' = [conn EXCEPT !.result = NoResult]
  BY AsideStep DEF TypesInv
<1>2. ~Stuck /\ ~Reading
  BY <1>1 DEF Stuck, Reading, NeedsPacket, Readers
<1>3. todo' # <<>> /\ Op' \in Readers => Op' \in {"read", "readUnbuffered"}
  BY AsideCursors
<1>4. conn' = conn \/ Reading'
  <2>1. CASE NextResult
    <3>1. Task("read", NoCursor) \in TaskType /\ Task("read", NoCursor).op = "read"
      BY Tasks
    <3>2. QED
      BY <1>1, <2>1, <3>1, OtherFirst DEF NextResult, Reading, Readers
  <2>2. CASE NextSet
    <3>1. todo # <<>> /\ C \in Cursors \cup {NoCursor}
      BY <1>1, <2>2, FirstTask DEF NextSet
    <3>2. ReadAnswer(C) \in TaskType /\ ReadAnswer(C).op \in {"read", "readUnbuffered"}
      BY <3>1, Tasks
    <3>3. todo' = <<ReadAnswer(C)>> \o Rest \/ todo' = <<ReadAnswer(C)>> \o todo
      BY <2>2 DEF NextSet
    <3>4. QED
      BY <1>1, <3>1, <3>2, <3>3, OtherFirst DEF Reading, Readers
  <2>3. CASE ~NextResult /\ ~NextSet
    BY <2>3 DEF Aside, SetAutocommit, Return, NoNextSet, SimpleCommand, Connect, Ping, Execute,
                CallProc, AskNextSet, CloseCursor, OpenCursor, Fetch, FetchNext, Begin
  <2>4. QED
    BY <2>1, <2>2, <2>3
<1>5. CASE conn'.sock # "open"
  BY <1>5 DEF HeadInv
<1>6. CASE conn'.sock = "open"
  <2>1. ~(todo' # <<>> /\ Op' \in {"ok", "giveUp"})
    BY <1>3 DEF Readers
  <2>2. wire' # <<>> /\ (P.at)' % SeqMod = 1 =>
          Reading' \/ conn'.result.active \/ conn'.result.more
    BY <1>1, <1>2, <1>4, <1>6 DEF HeadInv, P
  <2>3. QED
    BY <2>1, <2>2 DEF HeadInv
<1>7. QED
  BY <1>5, <1>6

\* A server that goes away leaves the first packet first.
LEMMA HeadLost ==
    ASSUME MySQLAssumption, TypesInv, HeadInv, ConnectionLost
    PROVE  HeadInv'
<1>1. conn' = conn /\ todo' = todo /\ Types
  BY DEF ConnectionLost, TypesInv
<1>2. CASE wire' = <<>>
  BY <1>2, ShortSeqs DEF HeadInv
<1>3. CASE wire' # <<>> /\ (Stuck \/ conn.sock # "open")
  BY <1>1, <1>3, LostStuck DEF HeadInv
<1>4. CASE wire' # <<>> /\ ~Stuck /\ conn.sock = "open"
  <2>1. wire \in Seq(PacketType) /\ wire' \in Seq(PacketType)
    BY <1>1, LostWire DEF Types
  <2>2. P' = wire'[1] /\ 1 \in DOMAIN wire'
    BY <1>4, <2>1, TailSeq DEF P
  <2>3. \A i \in DOMAIN wire' : (i \in DOMAIN wire /\ wire'[i] = wire[i])
                                \/ (wire'[i].kind = "err" /\ wire'[i].at = 0)
    BY <1>1, LostWire
  <2>4. todo' # <<>> /\ Op' \in {"ok", "giveUp"} =>
          \A i \in DOMAIN wire' : wire'[i].kind \in {"ok", "err"}
    BY <1>1, <1>4, <2>3 DEF HeadInv, Op
  <2>5. (P.at)' % SeqMod = 1 => wire # <<>> /\ P.at % SeqMod = 1
    <3>1. CASE 1 \in DOMAIN wire /\ wire'[1] = wire[1]
      <4>1. wire # <<>>
        BY <3>1, ShortSeqs
      <4>2. P = wire[1]
        BY <1>1, <4>1, FirstPacket
      <4>3. QED
        BY <2>2, <3>1, <4>1, <4>2
    <3>2. CASE wire'[1].at = 0
      BY <2>2, <3>2, Modulus
    <3>3. QED
      BY <2>2, <2>3, <3>1, <3>2
  <2>6. QED
    BY <1>1, <1>4, <2>4, <2>5 DEF HeadInv, Reading, Op
<1>5. QED
  BY <1>2, <1>3, <1>4

(***************************************************************************)
(* Every step but the one that gives a result up before a packet numbered  *)
(* 1 keeps the client able to tell the next answer from what is left.      *)
(***************************************************************************)
LEMMA HeadStep ==
    ASSUME MySQLAssumption, TypesInv, WireInv, HeadInv, [MySQLNext]_vars, ~server'.stray
    PROVE  HeadInv'
<1>1. CASE LoseSocket
  BY <1>1, SocketLost DEF HeadInv, TypesInv
<1>2. CASE ConnectWorks
  <2>1. Op' \in {"query", "autocommit"} /\ wire' = <<>>
    BY <1>2, ConnectTodo DEF ConnectWorks, TypesInv
  <2>2. QED
    BY <2>1 DEF HeadInv
<1>3. CASE UNCHANGED vars
  BY <1>3 DEF vars, HeadInv, Reading, Stuck, NeedsPacket, InSequence, P, Op
<1>4. QED
  BY <1>1, <1>2, <1>3, HeadAccept, HeadFile, HeadSend, HeadAside, HeadLost, NextCases

(***************************************************************************)
(* The wire holds the packets of the command last sent, in order, in every *)
(* state no result has been given up before a packet numbered 1.           *)
(***************************************************************************)
LEMMA WireOKInvariant == MySQLSpec => [](TypesInv /\ (server.stray \/ WireOK))
<1> DEFINE Inv == TypesInv /\ (server.stray \/ WireOK)
<1>1. MySQLInit => Inv
  <2> SUFFICES ASSUME MySQLInit PROVE WireOK
    BY DEF WireOK
  <2>1. conn.sock # "open"
    BY DEF MySQLInit
  <2>2. QED
    BY <2>1, MySQLAssumption, TypesInit DEF WireOK, WireInv, HeadInv
<1>2. Inv /\ [MySQLNext]_vars => Inv'
  <2> SUFFICES ASSUME Inv, [MySQLNext]_vars PROVE Inv'
    OBVIOUS
  <2>1. TypesInv'
    BY MySQLAssumption, TypesStep
  <2>2. CASE server'.stray
    BY <2>1, <2>2
  <2>3. CASE ~server'.stray
    <3>1. WireOK
      BY <2>3, MySQLAssumption, StrayStays
    <3>2. WireInv' /\ HeadInv'
      BY <2>3, <3>1, MySQLAssumption, WireStep, HeadStep DEF WireOK
    <3>3. QED
      BY <2>1, <3>2 DEF WireOK
  <2>4. QED
    BY <2>2, <2>3
<1>3. QED
  BY <1>1, <1>2, PTL DEF MySQLSpec

(***************************************************************************)
(* A packet is taken only as a part of the answer to the command sent      *)
(* last, however long answers are and whatever the cursors, the faults and *)
(* the exceptions before it have left unread (_execute_command 793-828,    *)
(* _read_packet 692-729), unless a buffered result has been given up just  *)
(* before a packet numbered 1.                                             *)
(***************************************************************************)
THEOREM RepliesMatchCorrect == MySQLSpec => []RepliesMatch
<1>1. MySQLInit => RepliesMatch
  BY DEF MySQLInit, RepliesMatch
<1>2. ASSUME TypesInv, server.stray \/ WireOK, RepliesMatch, [MySQLNext]_vars
      PROVE  RepliesMatch'
  <2> SUFFICES ASSUME ~server'.stray PROVE (taken[1] = taken[2])'
    BY DEF RepliesMatch
  <2>1. WireOK /\ taken[1] = taken[2]
    BY <1>2, MySQLAssumption, StrayStays DEF RepliesMatch
  <2>2. CASE AcceptOnly \/ SendLocalFile
    <3>1. Readable /\ InSequence /\ taken' = <<P.cmd, server.commands>>
      BY <1>2, <2>2, AcceptedOnly DEF Accept, SendLocalFile, TypesInv
    <3>2. P.cmd = server.commands
      BY <2>1, <3>1, MySQLAssumption, AcceptedPacket DEF WireOK, TypesInv
    <3>3. QED
      BY <3>1, <3>2
  <2>3. LoseSocket \/ SendCommand \/ ConnectWorks \/ ConnectionLost \/ UNCHANGED vars => taken' = taken
    BY DEF LoseSocket, SocketUnusable, ServerLost, SequenceWrong, SendFails, ConnectFails, Close,
           SendCommand, ConnectWorks, ConnectionLost, vars
  <2>4. Aside => taken' = taken
    BY <1>2, AsideStep DEF TypesInv
  <2>5. QED
    BY <1>2, <2>1, <2>2, <2>3, <2>4, NextCases
<1>3. QED
  BY <1>1, <1>2, WireOKInvariant, PTL DEF MySQLSpec

\* Every step keeps what is read before what is left to read.
LEMMA BeforeStep ==
    ASSUME MySQLAssumption, WireOK, RowsInv, MySQLNext
    PROVE  BeforeInv'
<1>1. Types /\ TypesInv /\ WireInv
  BY DEF WireOK, TypesInv
<1>2. CASE LoseSocket
  BY <1>1, <1>2, SocketLost DEF BeforeInv
<1>3. CASE SendLocalFile
  <2>1. Readable /\ InSequence /\ server' = server /\ cursor' = cursor
    BY <1>3 DEF SendLocalFile
  <2>2. ~Stuck /\ conn.sock = "open" /\ wire # <<>> /\ P = wire[1] /\ 1 \in DOMAIN wire /\ P.at # 0
        /\ P.at \in Nat
    BY <1>1, <1>3, <2>1, FirstPacket, AcceptedPacket DEF Stuck, Readable, SendLocalFile
  <2>3. \A rows \in Seq(PacketIds) : Before(rows, wire) => Before(rows, wire')
    <3>1. CASE ~server.alive
      <4>1. wire' = Tail(wire)
        BY <1>1, <1>3, <3>1, FileAnswer
      <4>2. \A j \in DOMAIN wire' : j + 1 \in DOMAIN wire /\ wire'[j] = wire[j + 1]
        BY <1>1, <2>2, <4>1, FirstPacket
      <4>3. QED
        BY <4>2 DEF Before
    <3>2. CASE server.alive
      <4>1. \A rows \in Seq(PacketIds) : Before(rows, wire) => \A i \in DOMAIN rows : rows[i][2] < P.at
        BY <2>2 DEF Before
      <4>2. DOMAIN wire' = {1} /\ wire'[1].at \in Nat /\ P.at < wire'[1].at
        BY <1>1, <1>3, <3>2, FileAnswer DEF MySQLAssumption
      <4>3. ASSUME NEW rows \in Seq(PacketIds), Before(rows, wire), NEW i \in DOMAIN rows
            PROVE  \A j \in DOMAIN wire' : rows[i][2] < wire'[j].at
        <5>1. rows[i][2] < P.at /\ rows[i][2] \in Nat
          BY <4>1, <4>3 DEF PacketIds
        <5>2. QED
          BY <2>2, <4>2, <5>1
      <4>4. QED
        BY <4>3 DEF Before
    <3>3. QED
      BY <3>1, <3>2
  <2>4. todo' # <<>> => Op' # "rows"
    <3>1. Op # "rows" /\ todo # <<>> /\ (todo' = todo \/ todo' = <<Task("giveUp", C)>> \o Rest)
      BY <1>1, <1>3, <2>1, AcceptStep DEF SendLocalFile
    <3>2. Task("giveUp", C) \in TaskType /\ Task("giveUp", C).op = "giveUp"
      BY <1>1, <3>1, FirstTask, Tasks
    <3>3. QED
      BY <1>1, <3>1, <3>2, OtherFirst DEF Op
  <2>5. QED
    BY <1>1, <2>1, <2>2, <2>3, <2>4, BeforeAfter
<1>4. CASE SendCommand
  <2>1. \E t \in TaskType : Op' = t.op /\ t.op \in {"read", "readUnbuffered", "ok"}
    BY <1>1, <1>4, SendStep DEF TypesInv
  <2>2. QED
    BY <1>4, <2>1, SentRows, ShortSeqs DEF BeforeInv, Before
<1>5. CASE ConnectWorks
  BY <1>5, ShortSeqs DEF ConnectWorks, BeforeInv, Before
<1>6. CASE Aside
  <2>1. /\ ~NeedsPacket /\ wire' = wire /\ conn'.sock = conn.sock
        /\ server'.commands = server.commands
    BY <1>1, <1>6, AsideStep
  <2>2. conn.sock # "open" => BeforeInv'
    BY <2>1 DEF BeforeInv
  <2>3. ~Stuck
    BY <2>1 DEF Stuck
  <2>4. Before(<<>>, wire')
    BY ShortSeqs DEF Before
  <2>5. \A c \in Cursors : \/ /\ cursor'[c].cmd = cursor[c].cmd
                              /\ cursor'[c].rows = cursor[c].rows
                           \/ Before(cursor'[c].rows, wire')
    BY <1>1, <1>6, <2>4, AsideCursors
  <2>6. todo' # <<>> => Op' # "rows"
    BY <1>1, <1>6, AsideCursors DEF Readers
  <2>7. \A rows \in Seq(PacketIds) : Before(rows, wire) => Before(rows, wire')
    BY <2>1
  <2>8. QED
    BY <1>1, <2>1, <2>2, <2>3, <2>5, <2>6, <2>7, BeforeAfter
<1>7. CASE ConnectionLost
  <2>1. conn' = conn /\ cursor' = cursor /\ todo' = todo /\ server'.commands = server.commands
    BY <1>1, <1>7 DEF ConnectionLost, Types, ServerType
  <2>2. CASE Stuck
    <3>1. Stuck' \/ wire' = <<>>
      BY <1>1, <1>7, <2>2, LostStuck
    <3>2. QED
      BY <3>1, ShortSeqs DEF BeforeInv, Before
  <2>3. CASE ~Stuck
    <3>1. \A rows \in Seq(PacketIds) : Before(rows, wire) => Before(rows, wire')
      <4>1. CASE DOMAIN wire' \subseteq DOMAIN wire /\ \A i \in DOMAIN wire' : wire'[i] = wire[i]
        BY <4>1 DEF Before
      <4>2. ASSUME NEW n \in Nat \ {0}, DOMAIN wire = 1..(n - 1), DOMAIN wire' = 1..n,
                   \A i \in DOMAIN wire : wire'[i] = wire[i], wire'[n].at = 0
            PROVE  \A rows \in Seq(PacketIds) : Before(rows, wire) => Before(rows, wire')
        <5>1. \A j \in DOMAIN wire' : j \in DOMAIN wire \/ j = n
          BY <4>2
        <5>2. QED
          BY <4>2, <5>1 DEF Before
      <4>3. QED
        BY <1>1, <1>7, <4>1, <4>2, LostWire
    <3>2. QED
      <4>1. conn.sock # "open" => BeforeInv'
        BY <2>1 DEF BeforeInv
      <4>2. conn.sock = "open" /\ todo' # <<>> /\ Op' = "rows" => Before(conn'.partial[2], wire')
        BY <1>1, <2>1, <2>3, <3>1 DEF RowsInv, BeforeInv, Op, Types, ConnType
      <4>3. QED
        BY <1>1, <2>1, <2>3, <3>1, <4>1, <4>2, BeforeAfter
  <2>4. QED
    BY <2>2, <2>3
<1>8. QED
  BY <1>2, <1>3, <1>4, <1>5, <1>6, <1>7, AcceptBefore, NextCases

\* What is said of results, cursors and rows, of every reachable state.
LEMMA RowsInvariant == MySQLSpec => [](server.stray \/ RowsInv)
<1>1. MySQLInit => RowsInv
  <2> SUFFICES ASSUME MySQLInit PROVE RowsInv
    OBVIOUS
  <2>1. /\ todo = <<>> /\ wire = <<>> /\ server.commands = 0 /\ conn.result = NoResult
        /\ \A c \in Cursors : cursor[c].rows = <<>> /\ cursor[c].result = NoId /\ cursor[c].cmd = 0
    BY Constants DEF MySQLInit
  <2>2. DOMAIN todo = {} /\ DOMAIN wire = {}
    BY <2>1
  <2>3. ResultInv
    BY <2>1, Constants DEF ResultInv, Reading
  <2>4. CursorInv /\ PartialInv
    BY <2>1, <2>2 DEF CursorInv, PartialInv, Reading
  <2>5. BeforeInv
    BY <2>2 DEF BeforeInv, Before
  <2>6. RowsOwned
    BY <2>1, ShortSeqs DEF RowsOwned, Rising
  <2>7. QED
    BY <2>3, <2>4, <2>5, <2>6 DEF RowsInv
<1>2. ASSUME TypesInv, server.stray \/ WireOK, server.stray \/ RowsInv, [MySQLNext]_vars
      PROVE  (server.stray \/ RowsInv)'
  <2> SUFFICES ASSUME ~server'.stray PROVE RowsInv'
    OBVIOUS
  <2>1. WireOK /\ RowsInv
    BY <1>2, MySQLAssumption, StrayStays
  <2>2. CASE MySQLNext
    BY <2>1, <2>2, MySQLAssumption, ResultStep, OwnRowsStep, BeforeStep DEF RowsInv, OwnRows
  <2>3. CASE UNCHANGED vars
    BY <2>1, <2>3 DEF vars, RowsInv, ResultInv, CursorInv, PartialInv, BeforeInv, RowsOwned, Reading,
                      Stuck, NeedsPacket, InSequence, P, Op, C, Before, Rising
  <2>4. QED
    BY <1>2, <2>2, <2>3
<1>3. QED
  BY <1>1, <1>2, WireOKInvariant, PTL DEF MySQLSpec

(***************************************************************************)
(* The rows a cursor returns are those of the command it executed last, in *)
(* the order sent and each once, whatever other cursors of the connection  *)
(* have executed and drained in between, whatever was lost, refused or     *)
(* left unread and however many rows there are (cursors.py 306-331,        *)
(* 411-433), unless a buffered result has been given up just before a      *)
(* packet numbered 1.                                                      *)
(***************************************************************************)
THEOREM RowsAreOwnCorrect == MySQLSpec => []RowsAreOwn
<1>1. server.stray \/ RowsInv => RowsAreOwn
  BY DEF RowsInv, RowsOwned, Rising, RowsAreOwn
<1>2. QED
  BY <1>1, RowsInvariant, PTL

-----------------------------------------------------------------------------
(* The autocommit mode.                                                    *)

\* What connect() is still to do for the mode stays to be done.
Kept == \A op \in {"autocommit", "connecting", "setauto"} : Pending(op) => Pending(op)'

(***************************************************************************)
(* The tasks behind the one being done.                                    *)
(***************************************************************************)
LEMMA LaterTasks ==
    ASSUME Types, todo # <<>>
    PROVE  \A i \in DOMAIN todo : i = 1 \/ (i > 1 /\ i - 1 \in DOMAIN Rest /\ Rest[i - 1] = todo[i])
<1>1. ASSUME NEW S, NEW s \in Seq(S), s # <<>>
      PROVE  \A i \in DOMAIN s : i = 1 \/ (i > 1 /\ i - 1 \in DOMAIN Tail(s) /\ Tail(s)[i - 1] = s[i])
  BY <1>1
<1>2. QED
  BY <1>1 DEF Types, Rest

(***************************************************************************)
(* A step that drops its task, or puts one before the others, keeps those  *)
(* that set autocommit.                                                    *)
(***************************************************************************)
LEMMA KeptTodo ==
    ASSUME Types, todo # <<>>,
           \/ todo' = todo
           \/ Op \notin {"autocommit", "connecting", "setauto"} /\ todo' = Rest
           \/ \E t \in TaskType :
                \/ Op \notin {"autocommit", "connecting", "setauto"} /\ todo' = <<t>> \o Rest
                \/ todo' = <<t>> \o todo
    PROVE  Kept
<1>1. /\ todo \in Seq(TaskType) /\ Rest \in Seq(TaskType) /\ todo[1].op = Op
      /\ \A i \in DOMAIN todo : i # 1 => i - 1 \in DOMAIN Rest /\ Rest[i - 1] = todo[i]
  BY FirstTask, LaterTasks DEF Types
<1>2. CASE todo' = todo
  BY <1>2 DEF Kept, Pending
<1>3. CASE Op \notin {"autocommit", "connecting", "setauto"} /\ todo' = Rest
  BY <1>1, <1>3 DEF Kept, Pending
<1>4. ASSUME NEW t \in TaskType, NEW s \in Seq(TaskType), todo' = <<t>> \o s
      PROVE  \A i \in DOMAIN s : i + 1 \in DOMAIN todo' /\ todo'[i + 1] = s[i]
  BY <1>4, FrontSeq
<1>5. ASSUME NEW t \in TaskType, Op \notin {"autocommit", "connecting", "setauto"},
             todo' = <<t>> \o Rest
      PROVE  Kept
  <2>1. \A i \in DOMAIN Rest : \E j \in DOMAIN todo' : todo'[j] = Rest[i]
    BY <1>1, <1>4, <1>5
  <2>2. \A op \in {"autocommit", "connecting", "setauto"} :
          Pending(op) => \E i \in DOMAIN Rest : Rest[i].op = op
    BY <1>1, <1>5 DEF Pending
  <2>3. QED
    BY <2>1, <2>2 DEF Kept, Pending
<1>6. ASSUME NEW t \in TaskType, todo' = <<t>> \o todo
      PROVE  Kept
  <2>1. \A i \in DOMAIN todo : \E j \in DOMAIN todo' : todo'[j] = todo[i]
    BY <1>1, <1>4, <1>6
  <2>2. QED
    BY <2>1 DEF Kept, Pending
<1>7. QED
  BY <1>2, <1>3, <1>5, <1>6

\* The pieces of connect() after the session is open, in order.
LEMMA AutocommitKept ==
    ASSUME AutocommitInv, Kept, conn'.sock = "open" => conn.sock = "open",
           server'.alive = server.alive, server'.autocommit = server.autocommit,
           conn'.status \in {conn.status, server.autocommit}
    PROVE  AutocommitInv'
BY DEF AutocommitInv, Kept

\* An exception closes the socket connect() has opened (connect 662-669).
LEMMA AutocommitRaise ==
    ASSUME Types, AutocommitInv, NEW cn \in ConnType, Raise(cn),
           cn.sock = "open" => conn.sock = "open",
           server'.alive = server.alive, server'.autocommit = server.autocommit
    PROVE  AutocommitInv'
BY RaiseStep DEF AutocommitInv

(***************************************************************************)
(* Reading a packet keeps the two ends' autocommit in step.                *)
(***************************************************************************)
LEMMA AutocommitAccept ==
    ASSUME MySQLAssumption, TypesInv, AutocommitInv, AcceptOnly \/ SendLocalFile
    PROVE  AutocommitInv'
<1>1. /\ Types /\ Readable /\ InSequence
      /\ server'.alive = server.alive /\ server'.autocommit = server.autocommit
  BY AcceptedOnly DEF TypesInv, SendLocalFile
<1>2. /\ todo # <<>> /\ conn.sock = "open" /\ Advanced \in ConnType
      /\ Advanced.status = conn.status /\ Advanced.sock = "open"
      /\ Op \in Readers \cup Commands \cup {"fetch", "skip", "finish"}
      /\ server.autocommit \in BOOLEAN /\ C \in Cursors \cup {NoCursor}
  BY <1>1, AcceptStep, FirstTask DEF Types, ServerType
<1>3. CASE ErrorPacket
  <2> DEFINE cn == IF conn.result.active THEN [Advanced EXCEPT !.result = Ended] ELSE Advanced
  <2>1. Raise(cn)
    BY <1>3 DEF ErrorPacket
  <2>2. cn \in ConnType
    BY <1>1, ErrorType
  <2> HIDE DEF cn
  <2>3. QED
    BY <1>1, <1>2, <2>1, <2>2, AutocommitRaise
<1>4. CASE ConversionFails \/ GiveUp \/ (ReadOkPacket /\ Raise(Advanced))
  BY <1>1, <1>2, <1>4, AutocommitRaise DEF ConversionFails, GiveUp
<1>5. CASE ReadOkPacket /\ ~Raise(Advanced)
  <2>1. conn' = [Advanced EXCEPT !.status = server.autocommit] /\ todo' = Rest /\ Op = "ok"
    BY <1>5 DEF ReadOkPacket
  <2>2. conn'.status = server.autocommit
    BY <1>2, <2>1 DEF ConnType
  <2>3. Kept
    BY <1>1, <1>2, <2>1, KeptTodo
  <2>4. QED
    BY <1>1, <1>2, <2>2, <2>3, AutocommitKept
<1>6. CASE ReadOk \/ StreamingBegins \/ ReadEof
  <2>1. \E id \in PacketIds, active, more \in BOOLEAN, rows \in Seq(PacketIds) :
           Complete(id, active, more, rows)
    <3>1. <<P.cmd, P.at>> \in PacketIds /\ <<>> \in Seq(PacketIds)
      BY <1>1, FirstPacket, ShortSeqs DEF Readable
    <3>2. conn.partial[1] \in PacketIds /\ conn.partial[2] \in Seq(PacketIds)
      BY <1>1 DEF Types, ConnType
    <3>3. CASE ReadOk \/ StreamingBegins
      <4>1. \E active, more \in BOOLEAN : Complete(<<P.cmd, P.at>>, active, more, <<>>)
        BY <3>3 DEF ReadOk, StreamingBegins
      <4>2. QED
        BY <3>1, <4>1
    <3>4. CASE ReadEof
      <4>1. \E more \in BOOLEAN : Complete(conn.partial[1], FALSE, more, conn.partial[2])
        BY <3>4 DEF ReadEof
      <4>2. QED
        BY <3>2, <4>1
    <3>5. QED
      BY <1>6, <3>3, <3>4
  <2>2. todo' = Rest /\ conn'.status \in {conn.status, server.autocommit}
    BY <1>1, <2>1, CompleteStep
  <2>3. Op \in Readers
    BY <1>6 DEF ReadOk, StreamingBegins, ReadEof, Readers
  <2>4. Kept
    BY <1>1, <1>2, <2>2, <2>3, KeptTodo DEF Readers
  <2>5. QED
    BY <1>1, <1>2, <2>2, <2>4, AutocommitKept
<1>7. CASE ReadHeader \/ ReadRow \/ SendLocalFile
  <2>1. conn'.status = conn.status
    BY <1>2, <1>7 DEF ReadHeader, ReadRow, SendLocalFile, ConnType
  <2>2. /\ Op \in {"read", "readUnbuffered", "rows"}
        /\ todo' = todo \/ \E op \in {"rows", "giveUp"} : todo' = <<Task(op, C)>> \o Rest
    BY <1>7 DEF ReadHeader, ReadRow, SendLocalFile
  <2>3. \A op \in {"rows", "giveUp"} : Task(op, C) \in TaskType
    BY <1>2, Tasks
  <2>4. Kept
    BY <1>1, <1>2, <2>2, <2>3, KeptTodo
  <2>5. QED
    BY <1>1, <1>2, <2>1, <2>4, AutocommitKept
<1>8. CASE StreamEnds \/ StreamRow
  <2>1. conn'.status = conn.status
    BY <1>1, <1>2, <1>8, EndedType DEF StreamEnds, StreamRow
  <2>2. todo' = todo \/ (todo' = Rest /\ Op \notin Commands)
    BY <1>2, <1>8 DEF StreamEnds, StreamRow, Commands
  <2>3. Kept
    BY <1>1, <1>2, <2>2, KeptTodo DEF Readers, Commands
  <2>4. QED
    BY <1>1, <1>2, <2>1, <2>3, AutocommitKept
<1>9. QED
  BY <1>3, <1>4, <1>5, <1>6, <1>7, <1>8 DEF AcceptOnly

(***************************************************************************)
(* A step that neither reads nor writes keeps the two ends' autocommit in  *)
(* step.                                                                   *)
(***************************************************************************)
LEMMA AutocommitAside ==
    ASSUME MySQLAssumption, TypesInv, AutocommitInv, Aside
    PROVE  AutocommitInv'
<1>1. /\ Types /\ conn'.sock = conn.sock /\ conn'.status = conn.status
      /\ server'.alive = server.alive /\ server'.autocommit = server.autocommit
  BY AsideStep DEF TypesInv
<1>2. CASE todo = <<>>
  BY <1>1, <1>2, ShortSeqs DEF AutocommitInv, Pending
<1>3. CASE todo # <<>>
  <2>1. C \in Cursors \cup {NoCursor} /\ Rest \in Seq(TaskType)
    BY <1>1, <1>3, FirstTask
  <2>2. /\ Task("read", NoCursor) \in TaskType /\ ReadAnswer(C) \in TaskType
        /\ Task("query", C) \in TaskType
    BY <2>1, Tasks
  <2>3. CASE NextResult \/ NextSet
    <3>1. Kept
      BY <1>1, <1>3, <2>2, <2>3, KeptTodo DEF NextResult, NextSet
    <3>2. QED
      BY <1>1, <3>1, AutocommitKept
  <2>4. CASE NoNextSet
    <3>1. Op \in {"execute", "closing", "nextset", "call"}
          /\ (todo' = <<Task("query", C)>> \o Rest \/ todo' = <<>> \o Rest)
      BY <2>4 DEF NoNextSet
    <3>2. todo' = <<Task("query", C)>> \o Rest \/ todo' = Rest
      BY <2>1, <3>1, ConcatEmptySeq
    <3>3. Kept
      BY <1>1, <1>3, <2>2, <3>1, <3>2, KeptTodo
    <3>4. QED
      BY <1>1, <3>3, AutocommitKept
  <2>5. CASE Return /\ Op # "connecting"
    <3>1. Kept
      BY <1>1, <1>3, <2>5, KeptTodo DEF Return
    <3>2. QED
      BY <1>1, <3>1, AutocommitKept
  <2>6. CASE Return /\ Op = "connecting"
    <3>1. ~Pending("autocommit") /\ ~Pending("setauto")
      <4>1. \A i \in DOMAIN todo : i = 1 \/ i > 1
        BY <1>1 DEF Types
      <4>2. \A i \in DOMAIN todo : todo[i].op \in {"connecting", "simple"}
        BY <1>1, <1>3, <2>6, <4>1, FirstTask DEF TypesInv, TodoInv
      <4>3. QED
        BY <4>2 DEF Pending
    <3>2. QED
      BY <1>1, <3>1 DEF AutocommitInv
  <2>7. CASE SetAutocommit
    <3>1. Op = "autocommit" /\ conn' = conn
      BY <2>7 DEF SetAutocommit
    <3>2. \A i \in DOMAIN todo : i # 1 => i - 1 \in DOMAIN Rest /\ Rest[i - 1] = todo[i]
      BY <1>1, <1>3, LaterTasks
    <3>3. todo[1].op = "autocommit"
      BY <1>1, <1>3, <3>1, FirstTask
    <3>4. \A op \in {"connecting", "setauto"} : Pending(op) => \E i \in DOMAIN Rest : Rest[i].op = op
      BY <3>2, <3>3 DEF Pending
    <3>5. CASE conn.status = Autocommit
      <4>1. todo' = Rest
        BY <2>7, <3>5 DEF SetAutocommit
      <4>2. QED
        BY <1>1, <3>4, <3>5, <4>1 DEF AutocommitInv, Pending
    <3>6. CASE conn.status # Autocommit
      <4>1. todo' = <<Task("setauto", NoCursor)>> \o Rest
        BY <2>7, <3>6 DEF SetAutocommit
      <4>2. Task("setauto", NoCursor) \in TaskType /\ Task("setauto", NoCursor).op = "setauto"
        BY Tasks
      <4>3. /\ 1 \in DOMAIN todo' /\ todo'[1].op = "setauto"
            /\ \A i \in DOMAIN Rest : i + 1 \in DOMAIN todo' /\ todo'[i + 1] = Rest[i]
        BY <2>1, <4>1, <4>2, FrontSeq
      <4>4. Pending("setauto")' /\ (Pending("connecting") => Pending("connecting")')
        BY <3>4, <4>3 DEF Pending
      <4>5. QED
        BY <1>1, <4>4 DEF AutocommitInv
    <3>7. QED
      BY <3>5, <3>6
  <2>8. NextResult \/ NextSet \/ NoNextSet \/ Return \/ SetAutocommit
    BY <1>3 DEF Aside, SimpleCommand, Connect, Ping, Execute, CallProc, AskNextSet, CloseCursor,
                OpenCursor, Fetch, FetchNext, Idle
  <2>9. QED
    BY <2>3, <2>4, <2>5, <2>6, <2>7, <2>8
<1>4. QED
  BY <1>2, <1>3

(***************************************************************************)
(* Between two calls, a connection that is open has the autocommit mode    *)
(* that was asked for, also when it was opened again to a server with      *)
(* another default, or with an init_command that was refused (connect      *)
(* 643-648, ping 561-573).                                                 *)
(***************************************************************************)
THEOREM AutocommitRestoredCorrect == MySQLSpec => []AutocommitRestored
<1>1. MySQLInit => AutocommitInv
  BY DEF MySQLInit, AutocommitInv
<1>2. ASSUME TypesInv, AutocommitInv, [MySQLNext]_vars
      PROVE  AutocommitInv'
  <2>1. Types /\ conn \in ConnType /\ server \in ServerType
    BY <1>2 DEF TypesInv, Types
  <2>2. CASE LoseSocket
    BY <2>1, <2>2, SocketLost DEF AutocommitInv
  <2>3. CASE SendCommand
    <3>1. /\ todo # <<>> /\ conn.sock = "open" /\ conn'.status = conn.status /\ Op \in Commands
          /\ server'.alive = server.alive
          /\ server'.autocommit = IF Op = "setauto" /\ server.alive THEN Autocommit
                                  ELSE server.autocommit
          /\ \E t \in TaskType : todo' = <<t>> \o Rest
      BY <1>2, <2>1, <2>3, MySQLAssumption, SendStep DEF TypesInv
    <3>2. CASE Op = "setauto" /\ server.alive
      BY <3>1, <3>2 DEF AutocommitInv
    <3>3. CASE ~server.alive
      BY <3>1, <3>3 DEF AutocommitInv
    <3>4. CASE Op # "setauto"
      <4>1. Kept
        BY <2>1, <3>1, <3>4, KeptTodo DEF Commands
      <4>2. QED
        BY <3>1, <3>4, <4>1, <1>2, AutocommitKept
    <3>5. QED
      BY <3>2, <3>3, <3>4
  <2>4. CASE ConnectWorks
    <3>1. Pending("autocommit")' /\ Pending("connecting")'
      BY <1>2, <2>1, <2>4, ConnectTodo DEF TypesInv
    <3>2. conn'.status = server'.autocommit
      BY <2>1, <2>4 DEF ConnectWorks, ConnType, ServerType
    <3>3. QED
      BY <3>1, <3>2 DEF AutocommitInv
  <2>5. CASE ConnectionLost
    BY <2>1, <2>5 DEF ConnectionLost, AutocommitInv, ServerType
  <2>6. CASE UNCHANGED vars
    BY <1>2, <2>6 DEF vars, AutocommitInv, Pending
  <2>7. QED
    BY <1>2, <2>2, <2>3, <2>4, <2>5, <2>6, MySQLAssumption, AutocommitAccept, AutocommitAside, NextCases
<1>3. TypesInv /\ AutocommitInv => AutocommitRestored
  <2> SUFFICES ASSUME AutocommitInv, todo = <<>>, conn.sock = "open", server.alive
               PROVE  server.autocommit = Autocommit
    BY DEF AutocommitRestored, Idle
  <2>1. ~Pending("connecting")
    BY ShortSeqs DEF Pending
  <2>2. QED
    BY <2>1 DEF AutocommitInv
<1>4. QED
  BY <1>1, <1>2, <1>3, TypesInvariant, PTL DEF MySQLSpec

-----------------------------------------------------------------------------
(* What the client waits for.                                              *)

\* What follows the packet that is accepted.
LEMMA AfterPacket ==
    ASSUME Types, wire # <<>>, WellFormed, wire' = Tail(wire)
    PROVE  /\ WellFormed'
           /\ P.kind \notin Last =>
                /\ wire' # <<>>
                /\ (P.kind)' \in IF P.kind \in {"okMore", "eofMore"} THEN Start ELSE InSet
<1>1. /\ wire \in Seq(PacketType) /\ P = wire[1] /\ 1 \in DOMAIN wire
      /\ Tail(wire) \in Seq(PacketType)
      /\ Len(wire) \in Nat \ {0} /\ Len(Tail(wire)) = Len(wire) - 1
      /\ \A i \in DOMAIN Tail(wire) :
           i \in Nat \ {0} /\ i + 1 \in DOMAIN wire /\ Tail(wire)[i] = wire[i + 1]
  BY TailSeq DEF Types, P
<1>2. WellFormed'
  <2>1. ASSUME NEW i \in DOMAIN wire'
        PROVE  /\ (i = Len(wire')) <=> (wire'[i].kind \in Last)
               /\ i > 1 => wire'[i].kind \in
                    IF wire'[i - 1].kind \in {"okMore", "eofMore"} THEN Start ELSE InSet
    <3>1. /\ i \in Nat \ {0} /\ i + 1 \in DOMAIN wire /\ wire'[i] = wire[i + 1]
          /\ (i = Len(wire')) <=> (i + 1 = Len(wire)) /\ i + 1 > 1
      BY <1>1, <2>1
    <3>2. i > 1 => i - 1 \in DOMAIN wire' /\ wire'[i - 1] = wire[(i + 1) - 1]
      <4>1. DOMAIN wire' = 1..Len(wire') /\ Len(wire') \in Nat
        BY <1>1
      <4>2. i > 1 => i - 1 \in DOMAIN wire' /\ (i - 1) + 1 = (i + 1) - 1
        BY <2>1, <4>1
      <4>3. QED
        BY <1>1, <4>2
    <3>3. QED
      BY <3>1, <3>2 DEF WellFormed
  <2>2. QED
    BY <2>1 DEF WellFormed
<1>3. ASSUME P.kind \notin Last
      PROVE  /\ wire' # <<>>
             /\ (P.kind)' \in IF P.kind \in {"okMore", "eofMore"} THEN Start ELSE InSet
  <2>1. Len(wire) # 1
    BY <1>1, <1>3 DEF WellFormed
  <2>2. wire' # <<>>
    BY <1>1, <2>1
  <2>3. P' = wire'[1] /\ 1 \in DOMAIN wire'
    BY <1>1, <2>2, TailSeq DEF P
  <2>4. P' = wire[2] /\ 2 \in DOMAIN wire /\ 2 > 1 /\ 2 - 1 = 1
    BY <1>1, <2>3
  <2>5. wire[2].kind \in IF wire[2 - 1].kind \in {"okMore", "eofMore"} THEN Start ELSE InSet
    BY <2>4 DEF WellFormed
  <2>6. QED
    BY <1>1, <2>2, <2>4, <2>5
<1>4. QED
  BY <1>2, <1>3

\* A packet the client takes is one the next it waits for will follow.
LEMMA PromisedAccept ==
    ASSUME MySQLAssumption, WireOK, ResultInv, PromisedInv, AcceptOnly
    PROVE  PromisedInv'
<1> SUFFICES ASSUME server'.alive PROVE Promised'
  BY DEF PromisedInv
<1>1. /\ Accept /\ Readable /\ InSequence /\ wire' = Tail(wire) /\ server.alive
      /\ Types /\ TypesInv
  BY AcceptedOnly DEF WireOK, TypesInv
<1>2. /\ ~Stuck /\ conn.sock = "open" /\ wire # <<>> /\ todo # <<>> /\ Advanced \in ConnType
      /\ Advanced.result = conn.result /\ (Op \in Readers \/ conn.result.active)
  BY <1>1, AcceptStep DEF Stuck, Readable
<1>3. Promised /\ WellFormed'
  BY <1>1, <1>2, AfterPacket DEF PromisedInv, Promised
<1>4. P.kind \notin Last =>
        wire' # <<>> /\ (P.kind)' \in IF P.kind \in {"okMore", "eofMore"} THEN Start ELSE InSet
  BY <1>1, <1>2, <1>3, AfterPacket DEF Promised
<1>5. P.kind \in PacketKinds
  BY <1>1, <1>2, FirstPacket
<1>6. Op \in Readers => ~conn.result.active /\ ~conn.result.more
  BY <1>2, Constants DEF ResultInv, Reading
<1>7. ~conn.result.active \/ ~conn.result.more
  BY <1>1 DEF Types
<1>8. Quiet => ~(todo' # <<>> /\ Op' \in {"read", "readUnbuffered", "rows", "ok", "giveUp"})
  BY DEF Quiet, Readers
<1>9. ASSUME Quiet, ~conn'.result.active,
             conn'.result.more => P.kind \in {"okMore", "eofMore"}
      PROVE  Promised'
  BY <1>3, <1>4, <1>8, <1>9 DEF Promised, Last
<1>10. ASSUME Quiet, conn'.result.active, ~conn'.result.more, P.kind \in {"row", "header"}
       PROVE  Promised'
  BY <1>3, <1>4, <1>8, <1>10 DEF Promised, Last
<1>11. ASSUME NEW id \in PacketIds, NEW active \in BOOLEAN, NEW more \in BOOLEAN,
              NEW rows \in Seq(PacketIds), Complete(id, active, more, rows)
       PROVE  conn'.result.active = active /\ conn'.result.more = more
  BY <1>1, <1>11, CompleteStep
<1>12. CASE ErrorPacket
  <2>1. Quiet
    BY <1>1, <1>12, QuietSteps
  <2> DEFINE cn == IF conn.result.active THEN [Advanced EXCEPT !.result = Ended] ELSE Advanced
  <2>2. Raise(cn)
    BY <1>12 DEF ErrorPacket
  <2>3. cn \in ConnType /\ ~cn.result.active /\ (cn.result.more => conn.result.more)
    BY <1>1, ErrorType
  <2> HIDE DEF cn
  <2>4. conn'.result = cn.result
    BY <1>1, <2>2, <2>3, RaiseStep
  <2>5. QED
    BY <1>2, <1>6, <1>7, <1>9, <2>1, <2>3, <2>4
<1>13. CASE ConversionFails \/ GiveUp \/ (ReadOkPacket /\ Raise(Advanced))
  <2>1. Quiet
    BY <1>1, <1>13, QuietSteps
  <2>2. conn'.result = conn.result
    BY <1>1, <1>2, <1>13, RaiseStep DEF ConversionFails, GiveUp
  <2>3. Op \in Readers \/ (Op = "fetch" /\ P.kind = "row")
    BY <1>13 DEF ConversionFails, GiveUp, ReadOkPacket, Readers
  <2>4. QED
    BY <1>2, <1>6, <1>7, <1>9, <1>10, <2>1, <2>2, <2>3
<1>14. CASE ReadOkPacket /\ ~Raise(Advanced)
  <2>1. Quiet
    BY <1>1, <1>14, QuietSteps
  <2>2. conn' = [Advanced EXCEPT !.status = server.autocommit] /\ Op = "ok"
    BY <1>14 DEF ReadOkPacket
  <2>3. conn'.result = conn.result
    BY <1>2, <2>2 DEF ConnType
  <2>4. QED
    BY <1>6, <1>9, <2>1, <2>2, <2>3 DEF Readers
<1>15. CASE ReadOk
  <2>1. Quiet
    BY <1>1, <1>15, QuietSteps
  <2>2. Complete(<<P.cmd, P.at>>, FALSE, P.kind = "okMore", <<>>)
    BY <1>15 DEF ReadOk
  <2>3. <<P.cmd, P.at>> \in PacketIds /\ <<>> \in Seq(PacketIds) /\ (P.kind = "okMore") \in BOOLEAN
    BY <1>1, <1>2, FirstPacket, ShortSeqs
  <2>4. QED
    BY <1>9, <1>11, <2>1, <2>2, <2>3
<1>16. CASE StreamingBegins
  <2>1. Quiet
    BY <1>1, <1>16, QuietSteps
  <2>2. Complete(<<P.cmd, P.at>>, TRUE, FALSE, <<>>)
    BY <1>16 DEF StreamingBegins
  <2>3. <<P.cmd, P.at>> \in PacketIds /\ <<>> \in Seq(PacketIds)
    BY <1>1, <1>2, FirstPacket, ShortSeqs
  <2>4. P.kind = "header"
    BY <1>2, <1>3, <1>16 DEF StreamingBegins, Promised, Start
  <2>5. QED
    BY <1>10, <1>11, <2>1, <2>2, <2>3, <2>4
<1>17. CASE ReadEof
  <2>1. Quiet
    BY <1>1, <1>17, QuietSteps
  <2>2. Complete(conn.partial[1], FALSE, P.kind = "eofMore", conn.partial[2])
    BY <1>17 DEF ReadEof
  <2>3. /\ conn.partial[1] \in PacketIds /\ conn.partial[2] \in Seq(PacketIds)
        /\ (P.kind = "eofMore") \in BOOLEAN
    BY <1>1 DEF Types, ConnType
  <2>4. QED
    BY <1>9, <1>11, <2>1, <2>2, <2>3
<1>18. CASE ReadHeader \/ ReadRow
  <2>1. conn'.result = conn.result /\ Op \in Readers
    BY <1>2, <1>18 DEF ReadHeader, ReadRow, ConnType, Readers
  <2>2. P.kind \in {"row", "header"}
    BY <1>2, <1>3, <1>18 DEF ReadHeader, ReadRow, Promised, Start, InSet
  <2>3. todo' # <<>> /\ Op' = "rows"
    <3>1. CASE ReadRow
      BY <1>2, <3>1 DEF ReadRow, Op
    <3>2. CASE ReadHeader
      <4>1. todo' = <<Task("rows", C)>> \o Rest
        BY <3>2 DEF ReadHeader
      <4>2. Task("rows", C) \in TaskType /\ Task("rows", C).op = "rows"
        BY <1>1, <1>2, FirstTask, Tasks
      <4>3. QED
        BY <1>1, <1>2, <4>1, <4>2, OtherFirst
    <3>3. QED
      BY <1>18, <3>1, <3>2
  <2>4. QED
    BY <1>3, <1>4, <1>6, <2>1, <2>2, <2>3 DEF Promised, Last
<1>19. CASE StreamEnds
  <2>1. Quiet
    BY <1>1, <1>19, QuietSteps
  <2>2. ~conn'.result.active /\ conn'.result.more = (P.kind = "eofMore")
    BY <1>1, <1>19, EndedType DEF StreamEnds
  <2>3. QED
    BY <1>9, <2>1, <2>2
<1>20. CASE StreamRow
  <2>1. Quiet
    BY <1>1, <1>20, QuietSteps
  <2>2. conn'.result = conn.result /\ conn.result.active
    BY <1>2, <1>20 DEF StreamRow, Commands, Readers
  <2>3. P.kind = "row"
    BY <1>3, <1>20, <2>2 DEF StreamRow, Promised, InSet
  <2>4. QED
    BY <1>7, <1>10, <2>1, <2>2, <2>3
<1>21. QED
  BY <1>12, <1>13, <1>14, <1>15, <1>16, <1>17, <1>18, <1>19, <1>20 DEF AcceptOnly

\* What a call goes on to do is no reconnection.
LEMMA FinishedGoesOn ==
    ASSUME TypesInv, FinishedInv, todo # <<>>,
           \/ todo' = todo
           \/ todo' = Rest
           \/ \E t \in TaskType :
                /\ t.op \notin {"connect", "retry"}
                /\ \/ todo' = <<t>> \o Rest /\ (Op \in {"simple", "ok"} => t.op = "ok")
                   \/ todo' = <<t>> \o todo /\ ~Pending("retry"),
           Pending("connect") \/ Pending("retry") => ~conn'.result.active /\ ~conn'.result.more
    PROVE  FinishedInv'
<1>1. Types /\ todo \in Seq(TaskType) /\ Rest \in Seq(TaskType) /\ 1 \in DOMAIN todo /\ todo[1].op = Op
  BY FirstTask DEF TypesInv, Types
<1> DEFINE Fewer == \A i \in DOMAIN todo' : todo'[i].op \in {"connect", "retry"} =>
                      \E j \in DOMAIN todo : todo[j] = todo'[i]
           Place == \A i \in DOMAIN todo' : todo'[i].op = "retry" =>
                      i = 1 \/ (i = 2 /\ Op' \in {"simple", "ok"})
<1>2. ASSUME Fewer, Place PROVE FinishedInv'
  <2>1. Pending("connect")' \/ Pending("retry")' => Pending("connect") \/ Pending("retry")
    BY <1>2 DEF Pending
  <2>2. QED
    BY <1>2, <2>1 DEF FinishedInv
<1>3. CASE todo' = todo
  <2>1. Fewer /\ Place
    BY <1>3 DEF FinishedInv, Op
  <2>2. QED
    BY <1>2, <2>1
<1>4. CASE todo' = Rest
  <2>1. \A i \in DOMAIN todo' : i + 1 \in DOMAIN todo /\ todo'[i] = todo[i + 1] /\ i \in Nat \ {0}
    BY <1>1, <1>4, FirstTask
  <2>2. Fewer
    BY <2>1
  <2>3. Place
    <3>1. \A i \in DOMAIN todo' : todo'[i].op = "retry" => i + 1 = 1 \/ i + 1 = 2
      BY <2>1 DEF FinishedInv
    <3>2. QED
      BY <2>1, <3>1
  <2>4. QED
    BY <1>2, <2>2, <2>3
<1>5. ASSUME NEW t \in TaskType, t.op \notin {"connect", "retry"}, todo' = <<t>> \o Rest,
             Op \in {"simple", "ok"} => t.op = "ok"
      PROVE  FinishedInv'
  <2>1. /\ Op' = t.op
        /\ \A i \in DOMAIN todo' : todo'[i] = t \/ \E j \in DOMAIN todo : todo[j] = todo'[i]
    BY <1>1, <1>5, OtherFirst
  <2>2. Fewer
    BY <1>5, <2>1
  <2>3. Place
    <3>1. \A i \in DOMAIN todo' : i # 1 => i - 1 \in DOMAIN Rest /\ todo'[i] = Rest[i - 1]
                                           /\ i \in Nat
      BY <1>1, <1>5, FrontSeq
    <3>2. todo'[1] = t
      BY <1>1, <1>5, FrontSeq
    <3>3. \A i \in DOMAIN todo' : i # 1 => i \in DOMAIN todo /\ todo'[i] = todo[i]
      <4>1. \A k \in DOMAIN Rest : k + 1 \in DOMAIN todo /\ Rest[k] = todo[k + 1]
        BY <1>1, FirstTask
      <4>2. \A i \in DOMAIN todo' : i # 1 => (i - 1) + 1 = i
        BY <3>1
      <4>3. QED
        BY <3>1, <4>1, <4>2
    <3>4. QED
      BY <1>5, <2>1, <3>2, <3>3 DEF FinishedInv
  <2>4. QED
    BY <1>2, <2>2, <2>3
<1>6. ASSUME NEW t \in TaskType, t.op \notin {"connect", "retry"}, todo' = <<t>> \o todo,
             ~Pending("retry")
      PROVE  FinishedInv'
  <2>1. \A i \in DOMAIN todo' : todo'[i] = t \/ \E j \in DOMAIN todo : todo[j] = todo'[i]
    BY <1>1, <1>6, OtherFirst
  <2>2. Fewer
    BY <1>6, <2>1
  <2>3. Place
    BY <1>6, <2>1 DEF Pending
  <2>4. QED
    BY <1>2, <2>2, <2>3
<1>7. QED
  BY <1>3, <1>4, <1>5, <1>6

\* ping connects again only if its command had found nothing unread.
LEMMA FinishedRaise ==
    ASSUME Types, FinishedInv, NEW cn \in ConnType, Raise(cn),
           cn.result.active => conn.result.active, cn.result.more => conn.result.more
    PROVE  FinishedInv'
<1>1. conn'.result = cn.result /\ todo' = IF Pending("retry") THEN Reconnect ELSE <<>>
  BY RaiseStep
<1>2. \A i \in DOMAIN todo' : todo'[i].op \in {"connect", "simple"}
  BY <1>1, AfterRaise
<1>3. CASE Pending("retry")
  BY <1>1, <1>2, <1>3 DEF FinishedInv
<1>4. CASE ~Pending("retry")
  <2>1. DOMAIN todo' = {}
    BY <1>1, <1>4
  <2>2. QED
    BY <2>1 DEF FinishedInv, Pending
<1>5. QED
  BY <1>3, <1>4

(***************************************************************************)
(* Reading a packet keeps what is known of results left unfinished.        *)
(***************************************************************************)
LEMMA FinishedAccept ==
    ASSUME MySQLAssumption, WireOK, ResultInv, FinishedInv, AcceptOnly \/ SendLocalFile
    PROVE  FinishedInv'
<1>1. /\ Readable /\ InSequence /\ Types /\ TypesInv
  BY AcceptedOnly DEF WireOK, TypesInv, SendLocalFile
<1>2. /\ todo # <<>> /\ Advanced \in ConnType /\ Advanced.result = conn.result
      /\ (Op \in Readers \/ conn.result.active) /\ C \in Cursors \cup {NoCursor}
      /\ 1 \in DOMAIN todo /\ todo[1].op = Op
  BY <1>1, AcceptStep, FirstTask
<1>3. Op \in {"read", "readUnbuffered", "rows"} => ~Pending("connect") /\ ~Pending("retry")
  <2>1. ~Pending("retry") \/ Op \in {"simple", "ok", "retry"}
    BY <1>2 DEF FinishedInv, Pending
  <2>2. ~Pending("connect") \/ Op = "connect"
    <3>1. \A i \in DOMAIN todo : i = 1 \/ i > 1
      BY <1>1, LaterTasks, <1>2
    <3>2. QED
      BY <1>1, <1>2, <3>1 DEF Pending, TypesInv, TodoInv
  <2>3. QED
    BY <2>1, <2>2
<1>4. conn.result.active => ~Pending("connect") /\ ~Pending("retry")
  BY DEF FinishedInv
<1>5. CASE ErrorPacket
  <2> DEFINE cn == IF conn.result.active THEN [Advanced EXCEPT !.result = Ended] ELSE Advanced
  <2>1. Raise(cn)
    BY <1>5 DEF ErrorPacket
  <2>2. cn \in ConnType /\ ~cn.result.active /\ (cn.result.more => conn.result.more)
    BY <1>1, ErrorType
  <2> HIDE DEF cn
  <2>3. QED
    BY <1>1, <2>1, <2>2, FinishedRaise
<1>6. CASE ConversionFails \/ GiveUp \/ (ReadOkPacket /\ Raise(Advanced))
  BY <1>1, <1>2, <1>6, FinishedRaise DEF ConversionFails, GiveUp
<1>7. CASE ReadOkPacket /\ ~Raise(Advanced)
  <2>1. conn' = [Advanced EXCEPT !.status = server.autocommit] /\ todo' = Rest
    BY <1>7 DEF ReadOkPacket
  <2>2. conn'.result = conn.result
    BY <1>2, <2>1 DEF ConnType
  <2>3. Pending("connect") \/ Pending("retry") => ~conn.result.active /\ ~conn.result.more
    BY DEF FinishedInv
  <2>4. QED
    BY <1>1, <1>2, <2>1, <2>2, <2>3, FinishedGoesOn
<1>8. CASE ReadOk \/ StreamingBegins \/ ReadEof
  <2>1. todo' = Rest /\ Op \in {"read", "readUnbuffered", "rows"}
    BY <1>8 DEF ReadOk, StreamingBegins, ReadEof, Complete
  <2>2. QED
    BY <1>1, <1>2, <1>3, <2>1, FinishedGoesOn
<1>9. CASE ReadHeader \/ ReadRow \/ SendLocalFile
  <2>1. /\ Op \in {"read", "readUnbuffered", "rows"}
        /\ todo' = todo \/ \E op \in {"rows", "giveUp"} : todo' = <<Task(op, C)>> \o Rest
    BY <1>9 DEF ReadHeader, ReadRow, SendLocalFile
  <2>2. \A op \in {"rows", "giveUp"} : Task(op, C) \in TaskType /\ Task(op, C).op = op
    BY <1>2, Tasks
  <2>3. QED
    BY <1>1, <1>2, <1>3, <2>1, <2>2, FinishedGoesOn
<1>10. CASE StreamEnds \/ StreamRow
  <2>1. conn.result.active /\ (todo' = todo \/ todo' = Rest)
    BY <1>2, <1>10 DEF StreamEnds, StreamRow, Commands, Readers
  <2>2. QED
    BY <1>1, <1>2, <1>4, <2>1, FinishedGoesOn
<1>11. QED
  BY <1>5, <1>6, <1>7, <1>8, <1>9, <1>10 DEF AcceptOnly

(***************************************************************************)
(* Losing the socket keeps what is known of results left unfinished.       *)
(***************************************************************************)
LEMMA FinishedLost ==
    ASSUME MySQLAssumption, Types, FinishedInv, LoseSocket
    PROVE  FinishedInv'
<1>1. conn \in ConnType /\ ForceClosed \in ConnType /\ ForceClosed.result = conn.result
  BY DEF Types, ConnType, ForceClosed
<1>2. CASE SocketUnusable \/ ServerLost \/ SequenceWrong
  BY <1>1, <1>2, FinishedRaise DEF SocketUnusable, ServerLost, SequenceWrong
<1>3. CASE SendFails
  <2>1. [ForceClosed EXCEPT !.result = NoResult] \in ConnType
        /\ [ForceClosed EXCEPT !.result = NoResult].result = NoResult
    BY <1>1, Constants DEF ConnType
  <2>2. Raise([ForceClosed EXCEPT !.result = NoResult])
    BY <1>3 DEF SendFails
  <2>3. QED
    BY <2>1, <2>2, Constants, FinishedRaise
<1>4. CASE ConnectFails
  <2>1. PICK sock \in {conn.sock, "dead"} :
          Raise([conn EXCEPT !.sock = IF sock = "none" THEN "none" ELSE "dead", !.closed = FALSE])
    BY <1>4 DEF ConnectFails
  <2> DEFINE cn == [conn EXCEPT !.sock = IF sock = "none" THEN "none" ELSE "dead", !.closed = FALSE]
  <2>2. cn \in ConnType /\ cn.result = conn.result
    BY <1>1 DEF ConnType
  <2>3. Raise(cn)
    BY <2>1
  <2> HIDE DEF cn
  <2>4. QED
    BY <2>2, <2>3, FinishedRaise
<1>5. CASE Close
  <2>1. DOMAIN todo' = {}
    BY <1>5 DEF Close, Idle
  <2>2. QED
    BY <2>1 DEF FinishedInv, Pending
<1>6. QED
  BY <1>2, <1>3, <1>4, <1>5 DEF LoseSocket

(***************************************************************************)
(* A step that neither reads nor writes keeps what is known of results     *)
(* left unfinished.                                                        *)
(***************************************************************************)
LEMMA FinishedAside ==
    ASSUME MySQLAssumption, FinishesResults, TypesInv, FinishedInv, Aside
    PROVE  FinishedInv'
<1>1. Types /\ (Pending("connect") \/ Pending("retry") => ~conn.result.active /\ ~conn.result.more)
  BY DEF TypesInv, FinishedInv
<1>2. conn' = conn \/ conn'.result = NoResult
  BY <1>1, AsideStep DEF Types, ConnType
<1>3. Pending("connect") \/ Pending("retry") => ~conn'.result.active /\ ~conn'.result.more
  BY <1>1, <1>2, Constants
<1>4. CASE todo # <<>>
  <2>1. /\ C \in Cursors \cup {NoCursor} /\ Rest \in Seq(TaskType)
        /\ 1 \in DOMAIN todo /\ todo[1].op = Op
    BY <1>1, <1>4, FirstTask
  <2>2. /\ Task("read", NoCursor) \in TaskType /\ Task("read", NoCursor).op = "read"
        /\ ReadAnswer(C) \in TaskType /\ ReadAnswer(C).op \in {"read", "readUnbuffered"}
        /\ Task("query", C) \in TaskType /\ Task("query", C).op = "query"
        /\ Task("setauto", NoCursor) \in TaskType /\ Task("setauto", NoCursor).op = "setauto"
    BY <2>1, Tasks
  <2>3. Op \in OfCursor => ~Pending("retry")
    BY <2>1 DEF FinishedInv, Pending, OfCursor
  <2>4. CASE NextResult
    <3>1. ~Pending("retry") /\ todo' = <<Task("read", NoCursor)>> \o todo
      BY <1>1, <2>4 DEF NextResult
    <3>2. QED
      BY <1>3, <1>4, <2>2, <3>1, FinishedGoesOn
  <2>5. CASE NextSet
    <3>1. /\ Op \in {"execute", "closing", "nextset"}
          /\ todo' = <<ReadAnswer(C)>> \o Rest \/ todo' = <<ReadAnswer(C)>> \o todo
      BY <2>5 DEF NextSet
    <3>2. ~Pending("retry")
      BY <2>3, <3>1 DEF OfCursor
    <3>3. QED
      BY <1>3, <1>4, <2>2, <3>1, <3>2, FinishedGoesOn
  <2>6. CASE NoNextSet
    <3>1. Op \in {"execute", "closing", "nextset", "call"}
          /\ (todo' = <<Task("query", C)>> \o Rest \/ todo' = <<>> \o Rest)
      BY <2>6 DEF NoNextSet
    <3>2. todo' = <<Task("query", C)>> \o Rest \/ todo' = Rest
      BY <2>1, <3>1, ConcatEmptySeq
    <3>3. QED
      BY <1>3, <1>4, <2>2, <3>1, <3>2, FinishedGoesOn
  <2>7. CASE Return \/ SetAutocommit
    <3>1. todo' = Rest \/ (Op = "autocommit" /\ todo' = <<Task("setauto", NoCursor)>> \o Rest)
      BY <2>7 DEF Return, SetAutocommit
    <3>2. QED
      BY <1>3, <1>4, <2>2, <3>1, FinishedGoesOn
  <2>8. NextResult \/ NextSet \/ NoNextSet \/ Return \/ SetAutocommit
    BY <1>4 DEF Aside, SimpleCommand, Connect, Ping, Execute, CallProc, AskNextSet, CloseCursor,
                OpenCursor, Fetch, FetchNext, Idle
  <2>9. QED
    BY <2>4, <2>5, <2>6, <2>7, <2>8
<1>5. CASE todo = <<>>
  <2>1. ASSUME \A i \in DOMAIN todo' : todo'[i].op \notin {"connect", "retry"}
        PROVE  FinishedInv'
    BY <2>1 DEF FinishedInv, Pending
  <2>2. /\ \A op \in {"simple", "connect", "retry"} :
             Task(op, NoCursor) \in TaskType /\ Task(op, NoCursor).op = op
        /\ \A op \in {"execute", "call", "nextset", "finish", "closing", "fetch", "skip"}, c \in Cursors :
             Task(op, c) \in TaskType /\ Task(op, c).op = op
    BY Tasks
  <2>3. CASE Connect \/ Ping
    <3>1. ~conn'.result.active /\ ~conn'.result.more
      BY <2>3 DEF Connect, Ping, MayReconnect, Begin
    <3>2. \/ todo' = <<Task("connect", NoCursor)>>
          \/ todo' = <<Task("connect", NoCursor), Task("simple", NoCursor)>>
          \/ todo' = <<Task("simple", NoCursor), Task("retry", NoCursor)>>
      BY <2>3 DEF Connect, Ping, Begin, Reconnect
    <3>3. \A i \in DOMAIN todo' : todo'[i].op = "retry" => i = 2 /\ Op' = "simple"
      <4>1. ASSUME NEW x \in TaskType, NEW y \in TaskType, todo' = <<x, y>>
            PROVE  DOMAIN todo' = {1, 2} /\ todo'[1] = x /\ todo'[2] = y /\ Op' = x.op
        BY <4>1, ShortSeqs DEF Op
      <4>2. ASSUME NEW x \in TaskType, todo' = <<x>>
            PROVE  DOMAIN todo' = {1} /\ todo'[1] = x
        BY <4>2, ShortSeqs
      <4>3. QED
        BY <2>2, <3>2, <4>1, <4>2
    <3>4. QED
      BY <3>1, <3>3 DEF FinishedInv
  <2>4. ASSUME NEW t \in TaskType, NEW u \in TaskType, todo' \in {<<t>>, <<t, u>>},
               t.op \notin {"connect", "retry"}, u.op \notin {"connect", "retry"}
        PROVE  FinishedInv'
    BY <2>1, <2>4, ShortSeqs
  <2>5. CASE SimpleCommand
    BY <2>2, <2>4, <2>5 DEF SimpleCommand, Begin
  <2>6. ASSUME NEW c \in Cursors, Execute(c) \/ AskNextSet(c) \/ FetchNext(c)
        PROVE  FinishedInv'
    <3>1. \E op \in {"execute", "nextset", "fetch", "skip"} : todo' = <<Task(op, c)>>
      BY <2>6 DEF Execute, AskNextSet, FetchNext, Begin
    <3>2. QED
      BY <2>2, <2>4, <3>1
  <2>7. ASSUME NEW c \in Cursors, CallProc(c)
        PROVE  FinishedInv'
    <3>1. todo' = <<Task("call", c), Task("nextset", c), Task("call", c)>>
      BY <2>7 DEF CallProc, Begin
    <3>2. /\ DOMAIN todo' = {1, 2, 3}
          /\ todo'[1] = Task("call", c) /\ todo'[2] = Task("nextset", c) /\ todo'[3] = Task("call", c)
      BY <2>2, <3>1
    <3>3. QED
      BY <2>1, <2>2, <3>2
  <2>8. ASSUME NEW c \in Cursors, CloseCursor(c)
        PROVE  FinishedInv'
    <3>1. \/ todo' = <<Task("finish", c)>> \o <<Task("closing", c)>>
          \/ todo' = <<>> \o <<Task("closing", c)>>
      BY <2>8 DEF CloseCursor, Begin
    <3>2. <<Task("closing", c)>> \in Seq(TaskType)
      BY <2>2, ShortSeqs
    <3>3. todo' = <<Task("finish", c), Task("closing", c)>> \/ todo' = <<Task("closing", c)>>
      BY <3>1, <3>2, ConcatEmptySeq
    <3>4. QED
      BY <2>2, <2>4, <3>3
  <2>9. ASSUME NEW c \in Cursors, OpenCursor(c) \/ Fetch(c)
        PROVE  FinishedInv'
    <3>1. DOMAIN todo' = {}
      BY <2>9 DEF OpenCursor, Fetch, Idle
    <3>2. QED
      BY <2>1, <3>1
  <2>10. QED
    BY <1>5, <2>3, <2>5, <2>6, <2>7, <2>8, <2>9
       DEF Aside, NextResult, SetAutocommit, Return, NextSet, NoNextSet
<1>6. QED
  BY <1>4, <1>5

(***************************************************************************)
(* Every step keeps what is known of results left unfinished.              *)
(***************************************************************************)
LEMMA FinishedStep ==
    ASSUME MySQLAssumption, FinishesResults, WireOK, ResultInv, FinishedInv, [MySQLNext]_vars
    PROVE  FinishedInv'
<1>1. Types /\ TypesInv
  BY DEF WireOK, TypesInv
<1>2. CASE SendCommand
  <2>1. /\ todo # <<>> /\ conn'.result = NoResult
        /\ \E t \in TaskType :
             /\ todo' = <<t>> \o Rest
             /\ IF Op = "query" THEN t.op \in {"read", "readUnbuffered"} ELSE t.op = "ok"
    BY <1>1, <1>2, SendStep DEF TypesInv
  <2>2. QED
    BY <1>1, <2>1, Constants, FinishedGoesOn
<1>3. CASE ConnectWorks
  <2>1. ~Pending("connect")' /\ ~Pending("retry")'
    BY <1>1, <1>3, ConnectTodo DEF TypesInv
  <2>2. QED
    BY <2>1 DEF FinishedInv, Pending
<1>4. CASE ConnectionLost \/ UNCHANGED vars
  BY <1>4 DEF ConnectionLost, vars, FinishedInv, Pending, Op
<1>5. QED
  BY <1>1, <1>2, <1>3, <1>4, FinishedLost, FinishedAccept, FinishedAside, NextCases

\* The server's answer to a file is the one the client reads next.
LEMMA PromisedFile ==
    ASSUME MySQLAssumption, WireOK, ResultInv, PromisedInv, SendLocalFile
    PROVE  PromisedInv'
<1> SUFFICES ASSUME server'.alive PROVE Promised'
  BY DEF PromisedInv
<1>1. /\ Readable /\ InSequence /\ server' = server /\ Op \in {"read", "readUnbuffered"}
      /\ Types /\ WireInv
      /\ todo' = todo \/ todo' = <<Task("giveUp", C)>> \o Rest
  BY DEF SendLocalFile, WireOK, TypesInv
<1>2. todo # <<>> /\ Advanced \in ConnType /\ Advanced.result = conn.result /\ Reading
      /\ C \in Cursors \cup {NoCursor}
  BY <1>1, AcceptStep, FirstTask DEF Reading, Readers
<1>3. conn'.result = NoResult
  <2>1. conn'.result = conn.result
    BY <1>2 DEF SendLocalFile, ConnType
  <2>2. QED
    BY <1>2, <2>1 DEF ResultInv
<1>4. /\ DOMAIN wire' = {1} /\ Len(wire') = 1 /\ (P.kind)' = "ok" /\ wire'[1].kind = "ok"
  BY <1>1, FileAnswer DEF P
<1>5. wire' # <<>>
  BY <1>4, ShortSeqs
<1>6. WellFormed'
  BY <1>4 DEF WellFormed, Last
<1>7. todo' # <<>> /\ Op' \in {"read", "readUnbuffered", "giveUp"}
  <2>1. CASE todo' = todo
    BY <1>1, <1>2, <2>1 DEF Op
  <2>2. CASE todo' = <<Task("giveUp", C)>> \o Rest
    <3>1. Task("giveUp", C) \in TaskType /\ Task("giveUp", C).op = "giveUp"
      BY <1>2, Tasks
    <3>2. QED
      BY <1>1, <1>2, <2>2, <3>1, OtherFirst
  <2>3. QED
    BY <1>1, <2>1, <2>2
<1>8. QED
  BY <1>3, <1>4, <1>5, <1>6, <1>7, Constants DEF Promised, Start

\* A command is answered with what the protocol has for it, or makes the
\* client stuck.
LEMMA PromisedSend ==
    ASSUME MySQLAssumption, WireOK, PromisedInv, SendCommand
    PROVE  PromisedInv'
<1>1. Types /\ TodoInv /\ HeadInv
  BY DEF WireOK, TypesInv
<1>2. CASE wire # <<>>
  BY <1>1, <1>2, SendStuck DEF PromisedInv
<1>3. CASE wire = <<>>
  <2> SUFFICES ASSUME server'.alive PROVE Promised'
    BY DEF PromisedInv
  <2>1. /\ conn'.result = NoResult /\ server.alive
        /\ \E t \in TaskType :
             /\ Op' = t.op /\ todo' # <<>>
             /\ IF Op = "query" THEN t.op \in {"read", "readUnbuffered"} ELSE t.op = "ok"
    BY <1>1, SendStep
  <2>2. PICK k : /\ (Op = "query" /\ k \in Answers) \/ k = <<"ok">> \/ k = <<"err">>
                 /\ wire' = wire \o Answer(server.commands + 1, k)
    BY <1>1, <2>1, SendStep
  <2> DEFINE cmd == server.commands + 1
             answer == Answer(cmd, k)
  <2>3. cmd \in Nat
    BY <1>1 DEF Types, ServerType
  <2>4. /\ k \in Seq(PacketKinds) /\ Len(k) \in Nat \ {0} /\ FollowsProtocol(k) /\ DOMAIN k = 1..Len(k)
        /\ answer \in Seq(PacketType) /\ answer # <<>>
        /\ DOMAIN answer = DOMAIN k /\ Len(answer) = Len(k)
        /\ \A i \in DOMAIN k : answer[i].kind = k[i]
        /\ k = <<"ok">> \/ k = <<"err">> => Len(k) = 1 /\ k[1] \in {"ok", "err"}
    BY <2>2, <2>3, AnswerSeq
  <2>5. wire' = answer
    BY <1>3, <2>2, <2>4, ConcatEmptySeq
  <2> HIDE DEF answer
  <2>6. WellFormed'
    <3>1. ASSUME NEW i \in DOMAIN k
          PROVE  /\ (i = Len(k)) <=> (k[i] \in Last)
                 /\ i > 1 => i - 1 \in DOMAIN k
                             /\ k[i] \in IF k[i - 1] \in {"okMore", "eofMore"} THEN Start ELSE InSet
      <4>1. i > 1 => i - 1 \in DOMAIN k /\ i # 1
        BY <2>4
      <4>2. QED
        BY <2>4, <4>1 DEF FollowsProtocol
    <3>2. QED
      BY <2>4, <2>5, <3>1 DEF WellFormed
  <2>7. wire' # <<>> /\ (P.kind)' = k[1] /\ 1 \in DOMAIN k
    <3>1. 1 \in DOMAIN answer /\ Head(answer) = answer[1]
      BY <2>4, TailSeq
    <3>2. QED
      BY <2>4, <2>5, <3>1 DEF P
  <2>8. k[1] \in Start
    BY <2>4, <2>7 DEF FollowsProtocol
  <2>9. Op # "query" => k[1] \in {"ok", "err"}
    BY <2>2, <2>4
  <2>10. QED
    BY <2>1, <2>6, <2>7, <2>8, <2>9, Constants DEF Promised
<1>4. QED
  BY <1>2, <1>3

\* A read begins only where a result set follows.
LEMMA PromisedAside ==
    ASSUME MySQLAssumption, WireOK, PromisedInv, Aside
    PROVE  PromisedInv'
<1> SUFFICES ASSUME conn'.sock = "open", server'.alive PROVE Promised'
  BY DEF PromisedInv
<1>1. /\ Types /\ TypesInv /\ ~NeedsPacket /\ wire' = wire
      /\ conn.sock = "open" /\ server.alive
      /\ conn' = conn \/ conn' = [conn EXCEPT !.result = NoResult]
  BY AsideStep DEF WireOK, TypesInv
<1>2. Promised
  BY <1>1 DEF PromisedInv, Stuck
<1>3. WellFormed'
  BY <1>1, <1>2 DEF Promised, WellFormed
<1>4. conn'.result \in {conn.result, NoResult}
  BY <1>1 DEF Types, ConnType
<1>5. /\ conn'.result.active => wire' # <<>> /\ (P.kind)' \in InSet
      /\ conn'.result.more => wire' # <<>> /\ (P.kind)' \in Start
  BY <1>1, <1>2, <1>4, Constants DEF Promised, P
<1>6. ASSUME todo' # <<>>, Op' \in Readers
      PROVE  Op' \in {"read", "readUnbuffered"} /\ wire' # <<>> /\ (P.kind)' \in Start
  <2>1. (NextResult \/ NextSet) /\ Op' \in {"read", "readUnbuffered"}
    BY <1>1, <1>6, AsideCursors
  <2>2. conn.result.more
    BY <2>1 DEF NextResult, NextSet, HasNextSet
  <2>3. QED
    BY <1>1, <1>2, <2>1, <2>2 DEF Promised, P
<1>7. QED
  BY <1>3, <1>5, <1>6 DEF Promised, Readers

(***************************************************************************)
(* Every step keeps on the wire what the client is about to wait for.      *)
(***************************************************************************)
LEMMA PromisedStep ==
    ASSUME MySQLAssumption, WireOK, ResultInv, PromisedInv, FinishedInv, [MySQLNext]_vars
    PROVE  PromisedInv'
<1>1. Types /\ TypesInv
  BY DEF WireOK, TypesInv
<1>2. CASE LoseSocket
  BY <1>1, <1>2, SocketLost DEF PromisedInv
<1>3. CASE ConnectWorks
  <2>1. todo # <<>> /\ Op = "connect" /\ wire' = <<>> /\ conn'.result = conn.result
    BY <1>1, <1>3 DEF ConnectWorks, Types, ConnType
  <2>2. ~conn.result.active /\ ~conn.result.more
    <3>1. Pending("connect")
      BY <1>1, <2>1, FirstTask DEF Pending
    <3>2. QED
      BY <3>1 DEF FinishedInv
  <2>3. Op' \in {"query", "autocommit"}
    BY <1>1, <1>3, ConnectTodo DEF TypesInv
  <2>4. WellFormed'
    BY <2>1, ShortSeqs DEF WellFormed
  <2>5. QED
    BY <2>1, <2>2, <2>3, <2>4 DEF PromisedInv, Promised
<1>4. CASE ConnectionLost
  BY <1>1, <1>4 DEF ConnectionLost, PromisedInv, Types, ServerType
<1>5. CASE UNCHANGED vars
  BY <1>5 DEF vars, PromisedInv, Promised, WellFormed, Stuck, NeedsPacket, InSequence, P, Op
<1>6. QED
  BY <1>2, <1>3, <1>4, <1>5, PromisedAccept, PromisedFile, PromisedSend, PromisedAside, NextCases

(***************************************************************************)
(* The client never waits for a packet while the server waits for a        *)
(* command, if the application reconnects only with no result left: what   *)
(* it waits for has been sent, in whatever order cursors, faults and       *)
(* exceptions have left the conversation (_execute_command 793-803, ping   *)
(* 561-573), unless a buffered result has been given up just before a      *)
(* packet numbered 1.                                                      *)
(***************************************************************************)
THEOREM NoWaitForNothingCorrect == FinishesResults => (MySQLSpec => []NoWaitForNothing)
<1> SUFFICES ASSUME FinishesResults PROVE MySQLSpec => []NoWaitForNothing
  OBVIOUS
<1> DEFINE Inv == server.stray \/ (PromisedInv /\ FinishedInv)
<1>1. MySQLInit => Inv
  <2> SUFFICES ASSUME MySQLInit PROVE PromisedInv /\ FinishedInv
    OBVIOUS
  <2>1. conn.sock # "open" /\ DOMAIN todo = {}
    BY DEF MySQLInit
  <2>2. QED
    BY <2>1 DEF PromisedInv, FinishedInv, Pending
<1>2. ASSUME TypesInv, server.stray \/ WireOK, server.stray \/ RowsInv, Inv, [MySQLNext]_vars
      PROVE  Inv'
  <2> SUFFICES ASSUME ~server'.stray PROVE PromisedInv' /\ FinishedInv'
    OBVIOUS
  <2>1. WireOK /\ RowsInv /\ PromisedInv /\ FinishedInv
    BY <1>2, MySQLAssumption, StrayStays
  <2>2. QED
    BY <1>2, <2>1, MySQLAssumption, FinishedStep, PromisedStep DEF RowsInv
<1>3. Inv => NoWaitForNothing
  BY DEF PromisedInv, Promised, NoWaitForNothing, Stuck, NeedsPacket
<1>4. QED
  BY <1>1, <1>2, <1>3, WireOKInvariant, RowsInvariant, PTL DEF MySQLSpec
=============================================================================
