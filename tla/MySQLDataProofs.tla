------------------------- MODULE MySQLDataProofs --------------------------
(***************************************************************************)
(* Theorems about MySQLData, for any rows, any number of columns, any      *)
(* sizes of parts, numbers and statements, and any number of faults: an    *)
(* inductive invariant, the properties that follow from it, and the        *)
(* refinement of RowLoop.                                                  *)
(***************************************************************************)
EXTENDS MySQLDataLemmas

-----------------------------------------------------------------------------
(* What is known of the call and of the server in every state.             *)

Call(c) ==
    c = [pc |-> c.pc, col |-> c.col, bulk |-> c.bulk, args |-> c.args, next |-> c.next,
         sql |-> c.sql, left |-> c.left, seq |-> c.seq, buffer |-> c.buffer,
         fields |-> c.fields, rows |-> c.rows, fetched |-> c.fetched]

Session(s) ==
    s = [table |-> s.table, seq |-> s.seq, buffer |-> s.buffer, alive |-> s.alive,
         disordered |-> s.disordered, faults |-> s.faults]

\* Full parts are kept, no others.
Kept(buffer) == buffer \in Seq(Int) /\ Len(buffer) % MaxPacket = 0

Types ==
    /\ Call(cl) /\ Session(server) /\ Given
    /\ cl.pc \in {"fill", "send"} \cup Reading \cup Ended
    /\ cl.next \in 1..(Len(cl.args) + 1) /\ cl.rows \in 0..Len(cl.args)
    /\ cl.fields \in 0..Columns
    /\ cl.sql \in Seq(Int) /\ cl.left \in Seq(Int)
    /\ cl.seq \in 0..(SeqMod - 1) /\ server.seq \in 0..(SeqMod - 1)
    /\ Kept(cl.buffer) /\ Kept(server.buffer)
    /\ up \in Seq(PartType) /\ down \in Seq(PartType)
    /\ server.alive \in BOOLEAN /\ server.faults \in Nat

(***************************************************************************)
(* A statement is the text of the rows since the last one that was         *)
(* answered.                                                               *)
(***************************************************************************)
Now == RowsOf(cl.rows + 1, cl.next - 1)

StatementInv ==
    /\ cl.rows < cl.next
    /\ cl.sql = <<>> => cl.rows + 1 = cl.next
    /\ cl.sql = <<>> /\ cl.pc # "fill" => cl.next = Len(cl.args) + 1
    /\ cl.sql # <<>> =>
         /\ cl.rows + 1 < cl.next
         /\ RowsIn(cl.sql) = Now
         /\ cl.pc = "fill" => cl.sql = Opened(Now) /\ Lists(cl.sql, Now, cl.next - 1)
         /\ cl.pc # "fill" => cl.sql = Statement(Now)
         /\ cl.rows + 2 < cl.next =>
              Len(cl.sql) + (IF cl.pc = "fill" THEN Postfix ELSE 0) <= MaxStmt
    /\ cl.pc \in {"header", "columns", "rows", "fetched"} => cl.sql = <<>>
    /\ cl.pc = "reply" => cl.sql # <<>>

(***************************************************************************)
(* The table has the rows of the statements that were executed, in order.  *)
(***************************************************************************)
Inserted == Len(server.table)

TableInv ==
    /\ server.table = RowsOf(1, Inserted)
    /\ Inserted \in {cl.rows, cl.next - 1}
    /\ cl.pc \in {"fill", "send"} \/ up # <<>> => Inserted = cl.rows

(***************************************************************************)
(* On its way to the server is the command, as far as it was sent and not  *)
(* yet received.                                                           *)
(***************************************************************************)
Command == IF cl.sql = <<>> THEN <<CMD, SELECT>> ELSE <<CMD>> \o cl.sql

UpInv ==
    /\ ~server.disordered
    /\ up # <<>> => server.alive /\ cl.pc \in {"send", "reply", "header"}
    /\ server.alive /\ (cl.pc = "send" \/ up # <<>>) =>
         \E rest \in Seq(Int) :
            /\ Leaving(up, server.seq, cl.seq, server.buffer, Command, rest)
            /\ cl.pc = "send" => Left(up, rest, cl.left)
            /\ cl.pc # "send" => Sent(up, rest)
    /\ server.alive /\ cl.pc # "send" /\ up = <<>> => server.buffer = <<>> /\ server.seq = 0

(***************************************************************************)
(* The packets the client has still to read, the first of them in part.    *)
(***************************************************************************)
RowPackets(n) == [k \in 1..(Len(cl.args) - n) |-> ServerRow(n + k)] \o <<EofPacket>>

FieldPackets(n) == Repeat(FieldPacket, n) \o <<EofPacket>>

Refusal(packets) == packets = <<ErrPacket>> /\ server.faults > 0

Owed(packets) ==
    CASE cl.pc = "reply" ->
           \/ Inserted = cl.rows /\ Refusal(packets)
           \/ Inserted # cl.rows /\ packets = <<OkPacket(Inserted - cl.rows)>>
      [] cl.pc = "header" ->
           \/ Refusal(packets)
           \/ packets = Joined(<<LenencInt(Columns)>>, Joined(FieldPackets(Columns), RowPackets(0)))
      [] cl.pc = "columns" -> packets = Joined(FieldPackets(cl.fields), RowPackets(0))
      [] cl.pc = "rows" -> packets = RowPackets(Len(cl.fetched))
      [] OTHER -> FALSE

(***************************************************************************)
(* On its way to the client is what it has still to read, all of it if the *)
(* connection is not lost.                                                 *)
(***************************************************************************)
DownInv ==
    /\ cl.pc \in {"fill", "send"} \/ up # <<>> => down = <<>> /\ cl.buffer = <<>>
    /\ cl.pc \in Reading /\ up = <<>> =>
         \E packets \in Seq(Seq(Int)) : \E rest \in Seq(Int) :
            /\ Owed(packets)
            /\ Arriving(down, cl.seq, cl.buffer, packets, rest)
            /\ server.alive => Complete(down, packets, rest)

(***************************************************************************)
(* The rows read so far are the first ones.                                *)
(***************************************************************************)
FetchedInv ==
    /\ Len(cl.fetched) \in 0..Len(cl.args)
    /\ cl.fetched = [i \in 1..Len(cl.fetched) |-> ShownRow(i)]
    /\ cl.pc \in {"fill", "send", "reply", "header", "columns"} => cl.fetched = <<>>
    /\ cl.pc = "fetched" => Len(cl.fetched) = Len(cl.args)

AlarmInv ==
    /\ cl.pc \notin {"sequence wrong", "no EOF"}
    /\ cl.pc \in {"refused", "lost"} \/ ~server.alive => server.faults > 0

DataInv ==
    Types /\ StatementInv /\ TableInv /\ UpInv /\ DownInv /\ FetchedInv /\ AlarmInv

(***************************************************************************)
(* All but the first element.                                              *)
(***************************************************************************)
LEMMA TailOf ==
    ASSUME NEW S, NEW p \in Seq(S), p # <<>>
    PROVE  /\ Head(p) = p[1] /\ Tail(p) \in Seq(S) /\ Len(Tail(p)) = Len(p) - 1
           /\ \A k \in 1..(Len(p) - 1) : Tail(p)[k] = p[k + 1]
OBVIOUS

(***************************************************************************)
(* One element, and then others.                                           *)
(***************************************************************************)
LEMMA Cons ==
    ASSUME NEW S, NEW x \in S, NEW s \in Seq(S), NEW p, p = <<x>> \o s
    PROVE  p \in Seq(S) /\ p # <<>> /\ p[1] = x /\ Head(p) = x /\ Tail(p) = s
<1>1. p \in Seq(S) /\ Len(p) = Len(s) + 1
  OBVIOUS
<1>2. p # <<>>
  BY <1>1
<1>3. p[1] = x
  OBVIOUS
<1>4. \A k \in 1..Len(s) : p[k + 1] = s[k]
  OBVIOUS
<1>5. PICK t : t = Tail(p)
  OBVIOUS
<1>6. /\ t \in Seq(S) /\ Len(t) = Len(p) - 1 /\ Head(p) = p[1]
      /\ \A k \in 1..(Len(p) - 1) : t[k] = p[k + 1]
  BY <1>1, <1>2, <1>5, TailOf
<1>7. t = s
  <2>1. Len(s) \in Nat /\ Len(t) = Len(s)
    BY <1>1, <1>6
  <2>2. \A k \in 1..Len(s) : t[k] = s[k]
    BY <1>1, <1>4, <1>6
  <2>3. QED
    BY <1>6, <2>1, <2>2, SameSeq
<1>8. Head(p) = p[1]
  BY <1>6
<1>9. QED
  BY <1>1, <1>2, <1>3, <1>5, <1>7, <1>8

(***************************************************************************)
(* The packets of the rows from n + 1 on.                                  *)
(***************************************************************************)
LEMMA RowPacketList ==
    ASSUME Given, NEW n \in 0..Len(cl.args)
    PROVE  /\ RowPackets(n) \in Seq(Seq(Int)) /\ RowPackets(n) # <<>>
           /\ n = Len(cl.args) => RowPackets(n) = <<EofPacket>>
           /\ n < Len(cl.args) =>
                RowPackets(n)[1] = ServerRow(n + 1) /\ Tail(RowPackets(n)) = RowPackets(n + 1)
<1>1. PICK l \in Nat : l = Len(cl.args)
  BY GivenRows
<1>2. PICK A : A = Seq(Int)
  OBVIOUS
<1>3. \A i \in 1..l : ServerRow(i) \in A
  BY <1>1, <1>2, RowComesBack
<1>4. PICK e \in A : e = EofPacket
  BY <1>2, PacketKinds
<1> DEFINE F(m) == [k \in 1..(l - m) |-> ServerRow(m + k)]
<1>5. ASSUME NEW m \in 0..l
      PROVE  /\ F(m) \in Seq(A) /\ Len(F(m)) = l - m
             /\ \A k \in 1..(l - m) : F(m)[k] = ServerRow(m + k)
  <2>1. l - m \in Nat /\ \A k \in 1..(l - m) : m + k \in 1..l
    BY <1>5
  <2>2. \A k \in 1..(l - m) : ServerRow(m + k) \in A
    BY <1>3, <2>1
  <2>3. QED
    BY <2>1, <2>2
<1>6. \A m \in 0..l : RowPackets(m) = F(m) \o <<e>>
  BY <1>1, <1>4 DEF RowPackets
<1>7. ASSUME n < l
      PROVE  F(n) = <<ServerRow(n + 1)>> \o F(n + 1)
  <2>1. n \in 0..l /\ n + 1 \in 0..l /\ n + 1 \in 1..l /\ 1 \in 1..(l - n) /\ l - n = 1 + (l - (n + 1))
    BY <1>1, <1>7
  <2>2. PICK f : f = F(n)
    OBVIOUS
  <2>3. PICK g : g = F(n + 1)
    OBVIOUS
  <2>4. PICK x \in A : x = ServerRow(n + 1)
    BY <1>3, <2>1
  <2>5. f \in Seq(A) /\ Len(f) = l - n /\ \A k \in 1..(l - n) : f[k] = ServerRow(n + k)
    BY <1>5, <2>1, <2>2
  <2>6. g \in Seq(A) /\ Len(g) = l - (n + 1)
        /\ \A k \in 1..(l - (n + 1)) : g[k] = ServerRow(n + 1 + k)
    BY <1>5, <2>1, <2>3
  <2>7. PICK h : h = <<x>> \o g
    OBVIOUS
  <2>8. /\ h \in Seq(A) /\ Len(h) = l - n /\ h[1] = x
        /\ \A k \in 2..(l - n) : h[k] = g[k - 1]
    <3>1. h \in Seq(A) /\ Len(h) = 1 + Len(g) /\ h[1] = x
          /\ \A k \in 2..(1 + Len(g)) : h[k] = g[k - 1]
      BY <2>4, <2>6, <2>7
    <3>2. QED
      BY <2>1, <2>6, <3>1
  <2>9. \A k \in 1..(l - n) : f[k] = h[k]
    <3>1. SUFFICES ASSUME NEW k \in 1..(l - n)
                   PROVE  f[k] = h[k]
      OBVIOUS
    <3>2. CASE k = 1
      BY <2>4, <2>5, <2>8, <3>2
    <3>3. CASE k # 1
      <4>1. k \in 2..(l - n) /\ k - 1 \in 1..(l - (n + 1)) /\ n + 1 + (k - 1) = n + k
        BY <3>3
      <4>2. h[k] = ServerRow(n + 1 + (k - 1))
        BY <2>6, <2>8, <4>1
      <4>3. QED
        BY <2>5, <4>1, <4>2
    <3>4. QED
      BY <3>2, <3>3
  <2>10. f = h
    BY <2>5, <2>8, <2>9, SameSeq
  <2>11. QED
    BY <2>2, <2>3, <2>4, <2>7, <2>10
<1>8. /\ RowPackets(n) \in Seq(A) /\ RowPackets(n) # <<>>
  <2>1. PICK f \in Seq(A) : f = F(n)
    BY <1>1, <1>5
  <2>2. f \o <<e>> \in Seq(A) /\ f \o <<e>> # <<>>
    BY <1>4, <2>1
  <2>3. QED
    BY <1>1, <1>6, <2>1, <2>2
<1>9. ASSUME n = l
      PROVE  RowPackets(n) = <<e>>
  <2>0. F(n) \in Seq(A) /\ Len(F(n)) = l - n /\ l - n = 0
    BY <1>1, <1>5, <1>9
  <2>1. PICK f \in Seq(A) : f = F(n) /\ Len(f) = 0
    <3> HIDE DEF F
    <3>1. QED
      BY <2>0
  <2>2. f = <<>>
    BY <2>1
  <2>3. <<>> \o <<e>> = <<e>>
    BY <1>4
  <2>4. QED
    BY <1>1, <1>6, <2>1, <2>2, <2>3
<1>10. ASSUME n < l
       PROVE  RowPackets(n)[1] = ServerRow(n + 1) /\ Tail(RowPackets(n)) = RowPackets(n + 1)
  <2>1. n + 1 \in 1..l /\ n + 1 \in 0..l /\ n \in 0..l
    BY <1>1, <1>10
  <2>2. PICK x \in A : x = ServerRow(n + 1)
    BY <1>3, <2>1
  <2>3. PICK g \in Seq(A) : g = F(n + 1)
    BY <1>5, <2>1
  <2>4. PICK r \in Seq(A) : r = g \o <<e>>
    <3>1. g \o <<e>> \in Seq(A)
      BY <1>4, <2>3
    <3>2. QED
      BY <3>1
  <2>5. r = RowPackets(n + 1)
    BY <1>6, <2>1, <2>3, <2>4
  <2>6. (<<x>> \o g) \o <<e>> = <<x>> \o (g \o <<e>>)
    <3> HIDE DEF F
    <3>0. <<x>> \in Seq(A) /\ <<e>> \in Seq(A)
      BY <1>4, <2>2
    <3>1. PICK a \in Seq(A), b \in Seq(A) : a = <<x>> /\ b = <<e>>
      BY <3>0
    <3>2. (a \o g) \o b = a \o (g \o b)
      BY <2>3, <3>1, ConcatAssociative
    <3>3. QED
      BY <3>1, <3>2
  <2>7. RowPackets(n) = <<x>> \o r
    BY <1>6, <1>7, <1>10, <2>1, <2>2, <2>3, <2>4, <2>6
  <2>8. QED
    BY <2>2, <2>4, <2>5, <2>7, Cons
<1>11. QED
  BY <1>1, <1>2, <1>4, <1>8, <1>9, <1>10

(***************************************************************************)
(* The packets of n fields, and others after them.                         *)
(***************************************************************************)
LEMMA FieldPacketList ==
    ASSUME NEW n \in Nat, NEW r \in Seq(Seq(Int))
    PROVE  /\ Joined(FieldPackets(n), r) \in Seq(Seq(Int)) /\ Joined(FieldPackets(n), r) # <<>>
           /\ n = 0 => /\ Joined(FieldPackets(n), r)[1] = EofPacket
                       /\ Tail(Joined(FieldPackets(n), r)) = r
           /\ n > 0 => /\ Joined(FieldPackets(n), r)[1] = FieldPacket
                       /\ Tail(Joined(FieldPackets(n), r)) = Joined(FieldPackets(n - 1), r)
<1>1. PICK A : A = Seq(Int)
  OBVIOUS
<1>2. PICK e \in A : e = EofPacket
  BY <1>1, PacketKinds
<1>3. PICK f \in A : f = FieldPacket
  BY <1>1, PacketKinds
<1>4. <<e>> \in Seq(A) /\ <<f>> \in Seq(A) /\ r \in Seq(A)
  BY <1>1
<1>5. \A m \in Nat : Repeat(f, m) \in Seq(A)
  BY Repeated
<1>6. \A m \in Nat : FieldPackets(m) = Repeat(f, m) \o <<e>>
  BY <1>2, <1>3 DEF FieldPackets
<1>7. \A m \in Nat : FieldPackets(m) \o r = Repeat(f, m) \o (<<e>> \o r)
  <2>1. SUFFICES ASSUME NEW m \in Nat
                 PROVE  FieldPackets(m) \o r = Repeat(f, m) \o (<<e>> \o r)
    OBVIOUS
  <2>2. PICK s \in Seq(A) : s = Repeat(f, m)
    BY <1>5
  <2>3. (s \o <<e>>) \o r = s \o (<<e>> \o r)
    BY <1>4, ConcatAssociative
  <2>4. QED
    BY <1>6, <2>2, <2>3
<1>8. PICK t \in Seq(A) : t = <<e>> \o r
  <2>1. <<e>> \o r \in Seq(A)
    BY <1>4
  <2>2. QED
    BY <2>1
<1>13. PICK p : p = Joined(FieldPackets(n), r)
  OBVIOUS
<1>12. p = FieldPackets(n) \o r
  BY <1>13 DEF Joined
<1>9. CASE n = 0
  <2>1. Repeat(f, 0) = <<>>
    BY DEF Repeat
  <2>2. <<>> \o t = t
    OBVIOUS
  <2>3. p = t
    BY <1>7, <1>8, <1>9, <1>12, <2>1, <2>2
  <2>4. p \in Seq(A) /\ p # <<>> /\ p[1] = e /\ Tail(p) = r
    BY <1>4, <1>8, <2>3, Cons
  <2>5. QED
    BY <1>1, <1>2, <1>9, <1>13, <2>4
<1>10. CASE n > 0
  <2>1. PICK m \in Nat : m = n - 1
    BY <1>10
  <2>2. PICK s \in Seq(A) : s = Repeat(f, m)
    BY <1>5
  <2>3. Repeat(f, n) = <<f>> \o s
    <3>1. PICK w \in Seq(A) : w = Repeat(f, n)
      BY <1>5
    <3>2. w # <<>> /\ Head(w) = f /\ Tail(w) = s
      <4>1. Repeat(f, n) # <<>> /\ Head(Repeat(f, n)) = f /\ Tail(Repeat(f, n)) = Repeat(f, n - 1)
        BY <1>10, Repeated
      <4>2. QED
        BY <2>1, <2>2, <3>1, <4>1
    <3>3. w = <<Head(w)>> \o Tail(w)
      BY <3>1, <3>2
    <3>4. QED
      BY <3>1, <3>2, <3>3
  <2>4. PICK u \in Seq(A) : u = s \o t
    <3>1. s \o t \in Seq(A)
      OBVIOUS
    <3>2. QED
      BY <3>1
  <2>5. (<<f>> \o s) \o t = <<f>> \o (s \o t)
    BY <1>4, ConcatAssociative
  <2>6. p = <<f>> \o u
    BY <1>7, <1>8, <1>12, <2>3, <2>4, <2>5
  <2>7. u = Joined(FieldPackets(n - 1), r)
    BY <1>7, <1>8, <2>1, <2>2, <2>4 DEF Joined
  <2>8. p \in Seq(A) /\ p # <<>> /\ p[1] = f /\ Tail(p) = u
    BY <2>6, Cons
  <2>9. QED
    BY <1>1, <1>3, <1>10, <1>13, <2>7, <2>8
<1>11. QED
  BY <1>9, <1>10

(***************************************************************************)
(* The packet with the number of columns, and others after it.             *)
(***************************************************************************)
LEMMA HeaderPacketList ==
    ASSUME NEW r \in Seq(Seq(Int))
    PROVE  /\ Joined(<<LenencInt(Columns)>>, r) \in Seq(Seq(Int))
           /\ Joined(<<LenencInt(Columns)>>, r) # <<>>
           /\ Joined(<<LenencInt(Columns)>>, r)[1] = LenencInt(Columns)
           /\ Tail(Joined(<<LenencInt(Columns)>>, r)) = r
<1>1. PICK A : A = Seq(Int)
  OBVIOUS
<1>2. LenencInt(Columns) \in Seq(Int)
  BY NumberWritten, Sizes
<1>3. PICK h \in A : h = LenencInt(Columns)
  BY <1>1, <1>2
<1>4. PICK p : p = Joined(<<h>>, r)
  OBVIOUS
<1>5. p = <<h>> \o r /\ r \in Seq(A)
  BY <1>1, <1>4 DEF Joined
<1>6. p \in Seq(A) /\ p # <<>> /\ p[1] = h /\ Tail(p) = r
  BY <1>5, Cons
<1>7. QED
  BY <1>1, <1>3, <1>4, <1>6

-----------------------------------------------------------------------------
(* What the steps have in common.                                          *)

(***************************************************************************)
(* What depends on the rows that were given does not change with the rest  *)
(* of the call.                                                            *)
(***************************************************************************)
LEMMA SameRows ==
    ASSUME cl'.args = cl.args, cl'.col = cl.col
    PROVE  /\ Given => Given'
           /\ \A i : RowText(i)' = RowText(i) /\ ServerRow(i)' = ServerRow(i)
                     /\ ShownRow(i)' = ShownRow(i)
           /\ \A rows : Opened(rows)' = Opened(rows) /\ Statement(rows)' = Statement(rows)
           /\ \A n : RowPackets(n)' = RowPackets(n)
<1>1. \A i : TextLength(i)' = TextLength(i)
  BY DEF TextLength
<1>2. \A i : RowText(i)' = RowText(i)
  BY <1>1 DEF RowText, Repeat
<1>3. \A i : ServerValue(i)' = ServerValue(i)
  BY DEF ServerValue, Letters, Repeat, LenencInt
<1>4. \A i : ServerRow(i)' = ServerRow(i)
  BY <1>3 DEF ServerRow, Repeat
<1>5. \A i : Shown(i)' = Shown(i)
  BY DEF Shown
<1>6. \A i : ShownRow(i)' = ShownRow(i)
  BY <1>5 DEF ShownRow, Repeat
<1>7. \A rows : Opened(rows)' = Opened(rows)
  BY <1>2 DEF Opened, Repeat
<1>8. \A rows : Statement(rows)' = Statement(rows)
  BY <1>2 DEF Statement, Repeat
<1>9. \A n : RowPackets(n)' = RowPackets(n)
  BY <1>4 DEF RowPackets
<1>10. Given => Given'
  BY DEF Given
<1>11. QED
  BY <1>2, <1>4, <1>6, <1>7, <1>8, <1>9, <1>10

(***************************************************************************)
(* Whatever the client waits for begins with a packet.                     *)
(***************************************************************************)
LEMMA SomethingOwed ==
    ASSUME Types, FetchedInv, NEW packets, Owed(packets)
    PROVE  packets # <<>>
<1>1. Given /\ cl.fields \in Nat /\ 0 \in 0..Len(cl.args) /\ Len(cl.fetched) \in 0..Len(cl.args)
  <2>1. Given /\ cl.fields \in 0..Columns /\ Columns \in Nat
    BY Sizes DEF Types
  <2>2. Len(cl.args) \in Nat
    BY <2>1, GivenRows
  <2>3. QED
    BY <2>1, <2>2 DEF FetchedInv
<1>2. \A n \in 0..Len(cl.args) : RowPackets(n) \in Seq(Seq(Int)) /\ RowPackets(n) # <<>>
  BY <1>1, RowPacketList
<1>3. \A n \in Nat : /\ Joined(FieldPackets(n), RowPackets(0)) \in Seq(Seq(Int))
                     /\ Joined(FieldPackets(n), RowPackets(0)) # <<>>
  BY <1>1, <1>2, FieldPacketList
<1>4. CASE cl.pc = "reply"
  <2>1. packets = <<ErrPacket>> \/ packets = <<OkPacket(Inserted - cl.rows)>>
    BY <1>4 DEF Owed, Refusal
  <2>2. QED
    BY <2>1
<1>5. CASE cl.pc = "header"
  <2>1. packets = <<ErrPacket>>
        \/ packets = Joined(<<LenencInt(Columns)>>, Joined(FieldPackets(Columns), RowPackets(0)))
    BY <1>5 DEF Owed, Refusal
  <2>2. PICK r \in Seq(Seq(Int)) : r = Joined(FieldPackets(Columns), RowPackets(0))
    BY <1>3, Sizes
  <2>3. Joined(<<LenencInt(Columns)>>, r) # <<>>
    BY <2>2, HeaderPacketList
  <2>4. <<ErrPacket>> # <<>>
    OBVIOUS
  <2>5. QED
    BY <2>1, <2>2, <2>3, <2>4
<1>6. CASE cl.pc = "columns"
  <2>1. packets = Joined(FieldPackets(cl.fields), RowPackets(0))
    BY <1>6 DEF Owed
  <2>2. PICK n \in Nat : n = cl.fields
    BY <1>1
  <2>3. Joined(FieldPackets(n), RowPackets(0)) # <<>>
    BY <1>3
  <2>4. QED
    BY <2>1, <2>2, <2>3
<1>7. CASE cl.pc = "rows"
  <2>1. packets = RowPackets(Len(cl.fetched))
    BY <1>7 DEF Owed
  <2>2. QED
    BY <1>1, <1>2, <2>1
<1>8. cl.pc \in Reading
  BY DEF Owed, Reading
<1>9. QED
  BY <1>4, <1>5, <1>6, <1>7, <1>8 DEF Reading

\* packets are owed, rest is what is to come of the first, and it is on its way.
Awaits(packets, rest) ==
    /\ packets \in Seq(Seq(Int)) /\ packets # <<>> /\ rest \in Seq(Int)
    /\ Owed(packets)
    /\ Arriving(down, cl.seq, cl.buffer, packets, rest)
    /\ server.alive => Complete(down, packets, rest)

(***************************************************************************)
(* What arrives is the next part of a packet that is owed.                 *)
(***************************************************************************)
LEMMA Arrival ==
    ASSUME DataInv, Arrives
    PROVE  /\ up = <<>> /\ up' = up /\ server' = server /\ down' = Tail(down)
           /\ down \in Seq(PartType) /\ down # <<>> /\ Tail(down) \in Seq(PartType)
           /\ InOrder /\ NextNumber(cl.seq) \in 0..(SeqMod - 1)
           /\ Head(down).data \in PartData
           /\ \E packets, rest : Awaits(packets, rest)
<1>1. /\ cl.pc \in Reading /\ down # <<>> /\ up' = up /\ server' = server /\ down' = Tail(down)
  BY DEF Arrives
<1>2. up = <<>>
  BY <1>1 DEF DataInv, DownInv
<1>3. down \in Seq(PartType) /\ cl.seq \in Nat
  BY Sizes DEF DataInv, Types
<1>4. PICK packets \in Seq(Seq(Int)), rest \in Seq(Int) :
          /\ Owed(packets)
          /\ Arriving(down, cl.seq, cl.buffer, packets, rest)
          /\ server.alive => Complete(down, packets, rest)
  BY <1>1, <1>2 DEF DataInv, DownInv
<1>5. packets # <<>>
  BY <1>4, SomethingOwed DEF DataInv
<1>6. Awaits(packets, rest)
  BY <1>4, <1>5 DEF Awaits
<1>7. PICK next : InTurn(down, cl.seq, next)
  BY <1>4 DEF Arriving
<1>8. Head(down).no = cl.seq /\ Tail(down) \in Seq(PartType)
  BY <1>1, <1>3, <1>7, InTurnTail
<1>9. InOrder
  BY <1>8 DEF InOrder
<1>10. NextNumber(cl.seq) \in 0..(SeqMod - 1)
  BY <1>3, NextNumbers
<1>11. Head(down).data \in PartData
  <2>1. Head(down) \in PartType
    <3>1. PICK T : T = PartType
      OBVIOUS
    <3>2. down \in Seq(T)
      BY <1>3, <3>1
    <3>3. Head(down) \in T
      BY <1>1, <3>2, SeqHead
    <3>4. QED
      BY <3>1, <3>3
  <2>2. QED
    BY <2>1 DEF PartType
<1>12. QED
  BY <1>1, <1>2, <1>3, <1>6, <1>8, <1>9, <1>10, <1>11

\* What is owed after the first packet is on its way.
Follows(packets) ==
    /\ Tail(packets)[1] \in Seq(Int)
    /\ Arriving(Tail(down), NextNumber(cl.seq), <<>>, Tail(packets), Tail(packets)[1])
    /\ server.alive => Complete(Tail(down), Tail(packets), Tail(packets)[1])

(***************************************************************************)
(* A whole packet is the first that is owed.                               *)
(***************************************************************************)
LEMMA WholePacket ==
    ASSUME DataInv, Arrives, Whole
    PROVE  \E packets \in Seq(Seq(Int)) :
             /\ packets # <<>> /\ Owed(packets) /\ Packet = packets[1]
             /\ Tail(packets) = <<>> => Tail(down) = <<>>
             /\ Tail(packets) # <<>> => Follows(packets)
<1>1. /\ down \in Seq(PartType) /\ down # <<>>
      /\ \E packets, rest : Awaits(packets, rest)
  BY Arrival
<1>2. PICK packets, rest : Awaits(packets, rest)
  BY <1>1
<1>3. /\ packets \in Seq(Seq(Int)) /\ packets # <<>> /\ rest \in Seq(Int)
      /\ Owed(packets)
      /\ Arriving(down, cl.seq, cl.buffer, packets, rest)
      /\ server.alive => Complete(down, packets, rest)
  BY <1>2 DEF Awaits
<1>4. cl.buffer \in Seq(Int)
  BY DEF DataInv, Types, Kept
<1>5. Len(Head(down).data) # MaxPacket
  <2>1. Len(Head(down).data) < MaxPacket
    BY DEF Whole
  <2>2. Head(down).data \in Seq(Int) /\ MaxPacket \in Nat
    BY Arrival, Sizes DEF PartData
  <2>3. Len(Head(down).data) \in Nat
    BY <2>2
  <2>4. QED
    BY <2>1, <2>2, <2>3
<1>6. /\ cl.buffer \o Head(down).data = packets[1]
      /\ Tail(packets) = <<>> => Tail(down) = <<>>
      /\ Tail(packets) # <<>> =>
           /\ Tail(packets)[1] \in Seq(Int)
           /\ Arriving(Tail(down), NextNumber(cl.seq), <<>>, Tail(packets), Tail(packets)[1])
           /\ Complete(down, packets, rest) => Complete(Tail(down), Tail(packets), Tail(packets)[1])
  BY <1>1, <1>3, <1>4, <1>5, ReadShort
<1>7. Tail(packets) # <<>> => Follows(packets)
  BY <1>3, <1>6 DEF Follows
<1>8. Packet = packets[1]
  BY <1>6 DEF Packet
<1>9. QED
  BY <1>3, <1>6, <1>7, <1>8

-----------------------------------------------------------------------------
(* Reading.                                                                *)

\* What every step that reads a whole packet, or a part, leaves alone.
ReadsOn ==
    /\ Call(cl') /\ cl'.args = cl.args /\ cl'.col = cl.col /\ cl'.bulk = cl.bulk
    /\ cl'.next = cl.next /\ cl'.left = cl.left /\ cl'.seq = NextNumber(cl.seq)

(***************************************************************************)
(* Reading within a command changes nothing of the statement, of the table *)
(* and of what was sent.                                                   *)
(***************************************************************************)
LEMMA ReadKeeps ==
    ASSUME DataInv, Arrives, ReadsOn,
           cl'.sql = cl.sql, cl'.rows = cl.rows, cl'.fields \in 0..Columns, Kept(cl'.buffer),
           cl'.pc \in Reading \cup Ended,
           cl'.pc = "reply" => cl.pc = "reply",
           cl'.pc \in {"header", "columns", "rows", "fetched"} =>
               cl.pc \in {"header", "columns", "rows"}
    PROVE  Types' /\ StatementInv' /\ TableInv' /\ UpInv'
<1>1. /\ up = <<>> /\ up' = up /\ server' = server /\ down' = Tail(down)
      /\ Tail(down) \in Seq(PartType) /\ NextNumber(cl.seq) \in 0..(SeqMod - 1)
  BY Arrival
<1>2. cl.pc \in Reading
  BY DEF Arrives
<1>3. Types'
  <2>1. Given'
    BY SameRows DEF ReadsOn, DataInv, Types
  <2>2. Call(cl)' /\ Session(server)'
    BY <1>1 DEF ReadsOn, DataInv, Types, Call, Session
  <2>3. /\ (cl.next \in 1..(Len(cl.args) + 1))' /\ (cl.rows \in 0..Len(cl.args))'
        /\ (cl.sql \in Seq(Int))' /\ (cl.left \in Seq(Int))'
    BY DEF ReadsOn, DataInv, Types
  <2>4. (cl.seq \in 0..(SeqMod - 1))'
    BY <1>1 DEF ReadsOn
  <2>5. /\ (server.seq \in 0..(SeqMod - 1))' /\ Kept(server.buffer)'
        /\ (server.alive \in BOOLEAN)' /\ (server.faults \in Nat)'
    BY <1>1 DEF DataInv, Types
  <2>6. (up \in Seq(PartType))' /\ (down \in Seq(PartType))'
    BY <1>1 DEF DataInv, Types
  <2>7. QED
    BY <2>1, <2>2, <2>3, <2>4, <2>5, <2>6 DEF Types, ReadsOn
<1>4. StatementInv'
  <2>1. Now' = Now
    BY DEF Now, ReadsOn
  <2>2. Statement(Now)' = Statement(Now)
    BY <2>1, SameRows DEF ReadsOn
  <2>3. cl.pc # "fill" /\ cl'.pc # "fill"
    BY <1>2 DEF Reading, Ended
  <2>4. StatementInv
    BY DEF DataInv
  <2>5. cl'.pc = "reply" => cl.sql # <<>>
    BY <2>4 DEF StatementInv
  <2>6. cl'.pc \in {"header", "columns", "rows", "fetched"} => cl.sql = <<>>
    BY <2>4 DEF StatementInv
  <2>7. QED
    BY <2>1, <2>2, <2>3, <2>4, <2>5, <2>6 DEF StatementInv, ReadsOn
<1>5. TableInv'
  BY <1>1, <1>2 DEF DataInv, TableInv, Inserted, ReadsOn, Reading, Ended
<1>6. UpInv'
  <2>1. cl.pc # "send" /\ cl'.pc # "send"
    BY <1>2 DEF Reading, Ended
  <2>2. ~server.disordered
    BY DEF DataInv, UpInv
  <2>3. server.alive => server.buffer = <<>> /\ server.seq = 0
    BY <1>1, <2>1 DEF DataInv, UpInv
  <2>4. QED
    BY <1>1, <2>1, <2>2, <2>3 DEF UpInv
<1>7. QED
  BY <1>3, <1>4, <1>5, <1>6

(***************************************************************************)
(* A multiple of the size of a part, and a part more.                      *)
(***************************************************************************)
LEMMA OnePartMore ==
    ASSUME NEW a \in Nat, NEW m \in Nat, m > 1, a % m = 0
    PROVE  (a + m) % m = 0
<1>1. PICK q \in Nat : a = q * m
  <2>1. a \div m \in Nat /\ a = (a \div m) * m + (a % m)
    OBVIOUS
  <2>2. PICK q \in Nat : q = a \div m
    BY <2>1
  <2>3. a = q * m
    BY <2>1, <2>2
  <2>4. QED
    BY <2>3
<1>2. PICK p \in Nat : p = q + 1
  OBVIOUS
<1>3. PICK k \in Nat : k = a + m
  OBVIOUS
<1>4. k = p * m + 0 /\ 0 < m /\ 0 \in Nat
  BY <1>1, <1>2, <1>3
<1>5. k % m = 0
  BY <1>4, Remainder
<1>6. QED
  BY <1>3, <1>5

(***************************************************************************)
(* A refusal is one packet, and an error.                                  *)
(***************************************************************************)
LEMMA RefusalPacket ==
    ASSUME NEW packets, Refusal(packets)
    PROVE  /\ packets[1] = ErrPacket /\ Tail(packets) = <<>> /\ server.faults > 0
           /\ IsErrorPacket(packets[1]) /\ ~IsOkPacket(packets[1])
<1>1. PICK e : e = ErrPacket
  OBVIOUS
<1>2. packets = <<e>> /\ server.faults > 0
  BY <1>1 DEF Refusal
<1>3. packets[1] = e /\ Tail(packets) = <<>>
  BY <1>2
<1>4. QED
  BY <1>1, <1>2, <1>3, PacketKinds

(***************************************************************************)
(* A statement was refused, or its rows are acknowledged.                  *)
(***************************************************************************)
LEMMA OwedReply ==
    ASSUME DataInv, cl.pc = "reply", NEW packets, Owed(packets)
    PROVE  \/ Refusal(packets)
           \/ /\ packets[1] = OkPacket(Inserted - cl.rows) /\ Tail(packets) = <<>>
              /\ packets[1][2] = Inserted - cl.rows /\ ~IsErrorPacket(packets[1])
              /\ Inserted = cl.next - 1
<1>1. \/ Refusal(packets)
      \/ Inserted # cl.rows /\ packets = <<OkPacket(Inserted - cl.rows)>>
  <2>1. CASE Inserted = cl.rows
    BY <2>1 DEF Owed
  <2>2. CASE Inserted # cl.rows
    BY <2>2 DEF Owed
  <2>3. QED
    BY <2>1, <2>2
<1>2. ASSUME Inserted # cl.rows, packets = <<OkPacket(Inserted - cl.rows)>>
      PROVE  /\ packets[1] = OkPacket(Inserted - cl.rows) /\ Tail(packets) = <<>>
             /\ packets[1][2] = Inserted - cl.rows /\ ~IsErrorPacket(packets[1])
             /\ Inserted = cl.next - 1
  <2>1. Inserted = cl.next - 1
    BY <1>2 DEF DataInv, TableInv
  <2>2. Len(cl.args) \in Nat
    BY GivenRows DEF DataInv, Types
  <2>3. cl.rows \in Nat /\ cl.next \in Nat /\ cl.rows < cl.next
    BY <2>2 DEF DataInv, Types, StatementInv
  <2>4. PICK n \in Nat : n = Inserted - cl.rows
    BY <2>1, <2>3
  <2>5. PICK p : p = OkPacket(n)
    OBVIOUS
  <2>6. p[2] = n /\ ~IsErrorPacket(p)
    BY <2>5, PacketKinds
  <2>7. packets = <<p>>
    BY <1>2, <2>4, <2>5
  <2>8. packets[1] = p /\ Tail(packets) = <<>>
    BY <2>7
  <2>9. QED
    BY <2>1, <2>4, <2>5, <2>6, <2>8
<1>3. QED
  BY <1>1, <1>2

(***************************************************************************)
(* A query was refused, or the number of columns begins its result.        *)
(***************************************************************************)
LEMMA OwedHeader ==
    ASSUME DataInv, cl.pc = "header", NEW packets, Owed(packets)
    PROVE  \/ Refusal(packets)
           \/ /\ Tail(packets) = Joined(FieldPackets(Columns), RowPackets(0))
              /\ Tail(packets) # <<>>
              /\ LengthEncoded(packets[1]).n = Columns /\ ~IsErrorPacket(packets[1])
<1>1. \/ Refusal(packets)
      \/ packets = Joined(<<LenencInt(Columns)>>, Joined(FieldPackets(Columns), RowPackets(0)))
  BY DEF Owed
<1>2. Given
  BY DEF DataInv, Types
<1>3. RowPackets(0) \in Seq(Seq(Int))
  <2>1. 0 \in 0..Len(cl.args)
    BY <1>2, GivenRows
  <2>2. QED
    BY <1>2, <2>1, RowPacketList
<1>4. Columns \in Nat
  BY Sizes
<1>5. PICK r \in Seq(Seq(Int)) : r = Joined(FieldPackets(Columns), RowPackets(0)) /\ r # <<>>
  BY <1>3, <1>4, FieldPacketList
<1>6. PICK h \in Seq(Int) : h = LenencInt(Columns) /\ Len(h) >= 1
  <2>1. <<>> \in Seq(Int)
    OBVIOUS
  <2>2. QED
    BY <1>4, <2>1, LengthsComeBack
<1>7. LengthEncoded(h).n = Columns /\ ~IsErrorPacket(h)
  <2>1. <<>> \in Seq(Int)
    OBVIOUS
  <2>2. Joined(h, <<>>) = h
    BY DEF Joined
  <2>3. /\ LengthEncoded(Joined(h, <<>>)) = [n |-> Columns, size |-> Len(h)]
        /\ ~IsErrorPacket(Joined(h, <<>>))
    BY <1>4, <1>6, <2>1, LengthsComeBack
  <2>4. QED
    BY <2>2, <2>3
<1>8. ASSUME packets = Joined(<<h>>, r)
      PROVE  packets[1] = h /\ Tail(packets) = r
  BY <1>5, <1>6, <1>8, HeaderPacketList
<1>9. QED
  BY <1>1, <1>5, <1>6, <1>7, <1>8

(***************************************************************************)
(* Then follow the fields that were not read, an EOF, and the rows.        *)
(***************************************************************************)
LEMMA OwedFields ==
    ASSUME DataInv, cl.pc = "columns", NEW packets, Owed(packets)
    PROVE  /\ Tail(packets) # <<>> /\ ~IsErrorPacket(packets[1])
           /\ cl.fields > 0 => Tail(packets) = Joined(FieldPackets(cl.fields - 1), RowPackets(0))
           /\ cl.fields = 0 => packets[1] = EofPacket /\ Tail(packets) = RowPackets(0)
<1>1. packets = Joined(FieldPackets(cl.fields), RowPackets(0))
  BY DEF Owed
<1>2. Given /\ cl.fields \in Nat
  BY Sizes DEF DataInv, Types
<1>3. PICK r \in Seq(Seq(Int)) : r = RowPackets(0) /\ r # <<>>
  <2>1. 0 \in 0..Len(cl.args)
    BY <1>2, GivenRows
  <2>2. QED
    BY <1>2, <2>1, RowPacketList
<1>4. PICK n \in Nat : n = cl.fields
  BY <1>2
<1>5. packets = Joined(FieldPackets(n), r)
  BY <1>1, <1>3, <1>4
<1>6. CASE n = 0
  <2>1. packets[1] = EofPacket /\ Tail(packets) = r
    BY <1>5, <1>6, FieldPacketList
  <2>2. ~IsErrorPacket(EofPacket)
    BY PacketKinds
  <2>3. Tail(packets) # <<>> /\ ~IsErrorPacket(packets[1]) /\ Tail(packets) = RowPackets(0)
    BY <1>3, <2>1, <2>2, Zenon
  <2>4. ~(cl.fields > 0)
    BY <1>4, <1>6
  <2>5. QED
    BY <2>1, <2>3, <2>4, Zenon
<1>7. CASE n > 0
  <2>1. packets[1] = FieldPacket /\ Tail(packets) = Joined(FieldPackets(n - 1), r)
    BY <1>5, <1>7, FieldPacketList
  <2>2. PICK m \in Nat : m = n - 1
    BY <1>7
  <2>3. Joined(FieldPackets(m), r) # <<>>
    BY FieldPacketList
  <2>4. ~IsErrorPacket(FieldPacket)
    BY PacketKinds
  <2>5. Tail(packets) # <<>>
    BY <2>1, <2>2, <2>3
  <2>6. QED
    BY <1>3, <1>4, <1>7, <2>1, <2>4, <2>5
<1>8. QED
  BY <1>6, <1>7

(***************************************************************************)
(* Then the rows that were not read, and an EOF.                           *)
(***************************************************************************)
LEMMA OwedRows ==
    ASSUME DataInv, cl.pc = "rows", NEW packets, Owed(packets)
    PROVE  /\ ~IsErrorPacket(packets[1])
           /\ Len(cl.fetched) = Len(cl.args) =>
                packets[1] = EofPacket /\ Tail(packets) = <<>>
           /\ Len(cl.fetched) # Len(cl.args) =>
                /\ Len(cl.fetched) + 1 \in 1..Len(cl.args)
                /\ packets[1] = ServerRow(Len(cl.fetched) + 1) /\ ~IsEofPacket(packets[1])
                /\ Tail(packets) = RowPackets(Len(cl.fetched) + 1) /\ Tail(packets) # <<>>
<1>1. packets = RowPackets(Len(cl.fetched))
  BY DEF Owed
<1>2. Given /\ Len(cl.args) \in Nat
  BY GivenRows DEF DataInv, Types
<1>3. PICK n \in 0..Len(cl.args) : n = Len(cl.fetched)
  BY DEF DataInv, FetchedInv
<1>4. CASE n = Len(cl.args)
  <2>1. PICK e : e = EofPacket
    OBVIOUS
  <2>2. packets = <<e>>
    BY <1>1, <1>2, <1>3, <1>4, <2>1, RowPacketList
  <2>3. packets[1] = e /\ Tail(packets) = <<>>
    BY <2>2
  <2>4. QED
    BY <1>3, <1>4, <2>1, <2>3, PacketKinds
<1>5. CASE n # Len(cl.args)
  <2>1. n < Len(cl.args) /\ n + 1 \in 1..Len(cl.args) /\ n + 1 \in 0..Len(cl.args)
    BY <1>2, <1>5
  <2>2. packets[1] = ServerRow(n + 1) /\ Tail(packets) = RowPackets(n + 1)
    BY <1>1, <1>2, <1>3, <2>1, RowPacketList
  <2>3. RowPackets(n + 1) # <<>>
    BY <1>2, <2>1, RowPacketList
  <2>4. ~IsErrorPacket(ServerRow(n + 1)) /\ ~IsEofPacket(ServerRow(n + 1))
    BY <1>2, <2>1, RowComesBack
  <2>5. QED
    BY <1>3, <1>5, <2>1, <2>2, <2>3, <2>4
<1>6. QED
  BY <1>4, <1>5

(***************************************************************************)
(* The rest of what is owed is on its way.                                 *)
(***************************************************************************)
LEMMA ReadDown ==
    ASSUME DataInv, Arrives, ReadsOn, cl'.buffer = <<>>, cl'.pc \notin {"fill", "send"},
           NEW packets \in Seq(Seq(Int)), packets # <<>>,
           cl'.pc \in Reading =>
             /\ Tail(packets) # <<>> => Follows(packets)
             /\ Tail(packets) # <<>> /\ Owed(Tail(packets))'
    PROVE  DownInv'
<1>1. up' = <<>> /\ down' = Tail(down) /\ server' = server
  BY Arrival
<1>2. ASSUME cl'.pc \in Reading
      PROVE  \E q \in Seq(Seq(Int)) : \E rest \in Seq(Int) :
               /\ Owed(q)'
               /\ Arriving(down', cl'.seq, cl'.buffer, q, rest)
               /\ server'.alive => Complete(down', q, rest)
  <2>1. Tail(packets) \in Seq(Seq(Int))
    <3>1. PICK A : A = Seq(Int)
      OBVIOUS
    <3>2. packets \in Seq(A)
      BY <3>1
    <3>3. Tail(packets) \in Seq(A)
      BY <3>2, SeqHead
    <3>4. QED
      BY <3>1, <3>3
  <2>2. /\ Tail(packets)[1] \in Seq(Int) /\ Owed(Tail(packets))'
        /\ Arriving(Tail(down), NextNumber(cl.seq), <<>>, Tail(packets), Tail(packets)[1])
        /\ server.alive => Complete(Tail(down), Tail(packets), Tail(packets)[1])
    BY <1>2 DEF Follows
  <2>3. cl'.seq = NextNumber(cl.seq)
    BY DEF ReadsOn
  <2>4. QED
    BY <1>1, <2>1, <2>2, <2>3
<1>3. QED
  BY <1>1, <1>2 DEF DownInv

(***************************************************************************)
(* What was fetched before is still right.                                 *)
(***************************************************************************)
LEMMA ReadFetched ==
    ASSUME DataInv, ReadsOn, cl'.fetched = cl.fetched, cl'.pc \notin {"fill", "send"},
           cl'.pc \in {"reply", "header", "columns"} => cl.pc \in {"reply", "header", "columns"},
           cl'.pc = "fetched" => Len(cl.fetched) = Len(cl.args)
    PROVE  FetchedInv'
<1>1. \A i : ShownRow(i)' = ShownRow(i)
  BY SameRows DEF ReadsOn
<1>2. FetchedInv
  BY DEF DataInv
<1>3. QED
  BY <1>1, <1>2 DEF FetchedInv, ReadsOn

(***************************************************************************)
(* Nothing kept, and a part more.                                          *)
(***************************************************************************)
LEMMA KeptParts ==
    /\ Kept(<<>>)
    /\ \A buffer, data : Kept(buffer) /\ data \in Seq(Int) /\ Len(data) = MaxPacket
                           => Kept(buffer \o data)
<1>1. PICK m \in Nat : m = MaxPacket /\ m > 1
  BY Sizes
<1>2. Kept(<<>>)
  <2>1. 0 % m = 0
    BY <1>1, Remainders
  <2>2. QED
    BY <1>1, <2>1 DEF Kept
<1>3. ASSUME NEW buffer, NEW data, Kept(buffer), data \in Seq(Int), Len(data) = m
      PROVE  Kept(buffer \o data)
  <2>1. buffer \in Seq(Int) /\ Len(buffer) % m = 0
    BY <1>1, <1>3 DEF Kept
  <2>2. buffer \o data \in Seq(Int) /\ Len(buffer \o data) = Len(buffer) + m /\ Len(buffer) \in Nat
    <3>1. PICK A : A = Int
      OBVIOUS
    <3>2. buffer \in Seq(A) /\ data \in Seq(A)
      BY <1>3, <2>1, <3>1
    <3>3. buffer \o data \in Seq(A) /\ Len(buffer \o data) = Len(buffer) + Len(data)
      BY <3>2, Concat
    <3>4. QED
      BY <1>3, <2>1, <3>1, <3>3
  <2>3. PICK a \in Nat : a = Len(buffer)
    BY <2>2
  <2>4. (a + m) % m = 0
    BY <1>1, <2>1, <2>3, OnePartMore
  <2>5. QED
    BY <1>1, <2>2, <2>3, <2>4 DEF Kept
<1>4. QED
  BY <1>1, <1>2, <1>3

(***************************************************************************)
(* A full part is kept.                                                    *)
(***************************************************************************)
LEMMA ReadPartStep ==
    ASSUME DataInv, ReadPart
    PROVE  DataInv'
<1>1. Arrives /\ InOrder /\ ~Whole
  BY DEF ReadPart
<1>2. /\ up = <<>> /\ up' = up /\ server' = server /\ down' = Tail(down)
      /\ down \in Seq(PartType) /\ down # <<>>
      /\ Head(down).data \in PartData
      /\ \E packets, rest : Awaits(packets, rest)
  BY <1>1, Arrival
<1>3. Head(down).data \in Seq(Int) /\ Len(Head(down).data) = MaxPacket
  <2>1. Head(down).data \in Seq(Int) /\ Len(Head(down).data) <= MaxPacket
    BY <1>2 DEF PartData
  <2>2. Len(Head(down).data) \in Nat
    BY <2>1
  <2>3. ~(Len(Head(down).data) < MaxPacket)
    BY <1>1 DEF Whole
  <2>4. QED
    BY <2>1, <2>2, <2>3, Sizes
<1>4. /\ ReadsOn /\ cl'.pc = cl.pc /\ cl'.sql = cl.sql /\ cl'.rows = cl.rows
      /\ cl'.fields = cl.fields /\ cl'.fetched = cl.fetched
      /\ cl'.buffer = cl.buffer \o Head(down).data
  BY DEF ReadPart, Call, ReadsOn, DataInv, Types
<1>5. cl.pc \in Reading
  BY <1>1 DEF Arrives
<1>6. Types' /\ StatementInv' /\ TableInv' /\ UpInv'
  <2>1. Kept(cl'.buffer)
    BY <1>3, <1>4, KeptParts DEF DataInv, Types
  <2>2. cl'.fields \in 0..Columns
    BY <1>4 DEF DataInv, Types
  <2>3. /\ cl'.pc \in Reading \cup Ended
        /\ cl'.pc = "reply" => cl.pc = "reply"
        /\ cl'.pc \in {"header", "columns", "rows", "fetched"} =>
               cl.pc \in {"header", "columns", "rows"}
    BY <1>4, <1>5 DEF Reading
  <2>4. QED
    BY <1>1, <1>4, <2>1, <2>2, <2>3, ReadKeeps
<1>7. PICK packets, rest : Awaits(packets, rest)
  BY <1>2
<1>8. /\ packets \in Seq(Seq(Int)) /\ packets # <<>> /\ rest \in Seq(Int)
      /\ Owed(packets)
      /\ Arriving(down, cl.seq, cl.buffer, packets, rest)
      /\ server.alive => Complete(down, packets, rest)
  BY <1>7 DEF Awaits
<1>9. cl.buffer \in Seq(Int)
  BY DEF DataInv, Types, Kept
<1>10. PICK later \in Seq(Int) :
         /\ Arriving(Tail(down), NextNumber(cl.seq), cl.buffer \o Head(down).data, packets, later)
         /\ Complete(down, packets, rest) => Complete(Tail(down), packets, later)
  BY <1>2, <1>3, <1>8, <1>9, ReadFull
<1>11. Owed(packets)'
  <2>1. \A n : RowPackets(n)' = RowPackets(n)
    BY <1>4, SameRows DEF ReadsOn
  <2>2. Refusal(packets)' <=> Refusal(packets)
    BY <1>2 DEF Refusal
  <2>3. Inserted' = Inserted
    BY <1>2 DEF Inserted
  <2>4. QED
    BY <1>4, <1>8, <2>1, <2>2, <2>3 DEF Owed
<1>12. DownInv'
  <2>1. cl'.seq = NextNumber(cl.seq)
    BY <1>4 DEF ReadsOn
  <2>2. cl'.pc \notin {"fill", "send"}
    BY <1>4, <1>5 DEF Reading
  <2>3. \E q \in Seq(Seq(Int)) : \E r \in Seq(Int) :
               /\ Owed(q)'
               /\ Arriving(down', cl'.seq, cl'.buffer, q, r)
               /\ server'.alive => Complete(down', q, r)
    BY <1>2, <1>4, <1>8, <1>10, <1>11, <2>1
  <2>4. QED
    BY <1>2, <2>2, <2>3 DEF DownInv
<1>13. FetchedInv'
  <2>1. cl'.pc \notin {"fill", "send", "fetched"}
    BY <1>4, <1>5 DEF Reading
  <2>2. QED
    BY <1>4, <2>1, ReadFetched
<1>14. AlarmInv'
  BY <1>2, <1>4 DEF AlarmInv, DataInv
<1>15. QED
  BY <1>6, <1>12, <1>13, <1>14 DEF DataInv

(***************************************************************************)
(* An error is a refusal, of a statement or of the query.                  *)
(***************************************************************************)
LEMMA ReadErrorStep ==
    ASSUME DataInv, ReadError
    PROVE  DataInv'
<1>1. Arrives
  BY DEF ReadError
<1>2. /\ up = <<>> /\ up' = up /\ server' = server /\ InOrder
  BY <1>1, Arrival
<1>3. Whole /\ IsErrorPacket(Packet)
  BY <1>2 DEF ReadError
<1>4. /\ ReadsOn /\ cl'.pc = "refused" /\ cl'.sql = cl.sql /\ cl'.rows = cl.rows
      /\ cl'.fields = cl.fields /\ cl'.fetched = cl.fetched /\ cl'.buffer = <<>>
  BY <1>2 DEF ReadError, Read, Call, ReadsOn, DataInv, Types
<1>5. PICK packets \in Seq(Seq(Int)) : packets # <<>> /\ Owed(packets) /\ Packet = packets[1]
  BY <1>1, <1>3, WholePacket
<1>6. server.faults > 0
  <2>1. cl.pc \in Reading
    BY <1>1 DEF Arrives
  <2>2. CASE cl.pc = "reply"
    BY <1>3, <1>5, <2>2, OwedReply, RefusalPacket
  <2>3. CASE cl.pc = "header"
    BY <1>3, <1>5, <2>3, OwedHeader, RefusalPacket
  <2>4. CASE cl.pc = "columns"
    BY <1>3, <1>5, <2>4, OwedFields
  <2>5. CASE cl.pc = "rows"
    BY <1>3, <1>5, <2>5, OwedRows
  <2>6. QED
    BY <2>1, <2>2, <2>3, <2>4, <2>5 DEF Reading
<1>7. Types' /\ StatementInv' /\ TableInv' /\ UpInv'
  <2>1. Kept(cl'.buffer)
    BY <1>4, KeptParts
  <2>2. cl'.fields \in 0..Columns
    BY <1>4 DEF DataInv, Types
  <2>3. /\ cl'.pc \in Reading \cup Ended
        /\ cl'.pc # "reply" /\ cl'.pc \notin {"header", "columns", "rows", "fetched"}
    BY <1>4 DEF Ended
  <2>4. QED
    BY <1>1, <1>4, <2>1, <2>2, <2>3, ReadKeeps
<1>8. DownInv'
  <2>1. cl'.pc \notin {"fill", "send"} /\ cl'.pc \notin Reading
    BY <1>4 DEF Reading
  <2>2. QED
    BY <1>1, <1>4, <1>5, <2>1, ReadDown
<1>9. FetchedInv'
  <2>1. cl'.pc \notin {"fill", "send", "reply", "header", "columns", "fetched"}
    BY <1>4
  <2>2. QED
    BY <1>4, <2>1, ReadFetched
<1>10. AlarmInv'
  BY <1>2, <1>4, <1>6 DEF AlarmInv, DataInv
<1>11. QED
  BY <1>7, <1>8, <1>9, <1>10 DEF DataInv

(***************************************************************************)
(* The number of columns.                                                  *)
(***************************************************************************)
LEMMA ReadHeaderStep ==
    ASSUME DataInv, ReadHeader
    PROVE  DataInv'
<1>1. Arrives /\ Whole /\ cl.pc = "header" /\ ~IsErrorPacket(Packet)
  BY DEF ReadHeader
<1>2. up = <<>> /\ up' = up /\ server' = server
  BY <1>1, Arrival
<1>3. PICK packets \in Seq(Seq(Int)) :
          /\ packets # <<>> /\ Owed(packets) /\ Packet = packets[1]
          /\ Tail(packets) # <<>> => Follows(packets)
  BY <1>1, WholePacket
<1>4. /\ Tail(packets) = Joined(FieldPackets(Columns), RowPackets(0)) /\ Tail(packets) # <<>>
      /\ LengthEncoded(packets[1]).n = Columns
  BY <1>1, <1>3, OwedHeader, RefusalPacket
<1>5. /\ ReadsOn /\ cl'.pc = "columns" /\ cl'.sql = cl.sql /\ cl'.rows = cl.rows
      /\ cl'.fields = Columns /\ cl'.fetched = cl.fetched /\ cl'.buffer = <<>>
  BY <1>3, <1>4 DEF ReadHeader, Read, Call, ReadsOn, DataInv, Types
<1>6. Types' /\ StatementInv' /\ TableInv' /\ UpInv'
  <2>1. Kept(cl'.buffer)
    BY <1>5, KeptParts
  <2>2. cl'.fields \in 0..Columns
    BY <1>5, Sizes
  <2>3. cl'.pc \in Reading \cup Ended /\ cl'.pc # "reply"
    BY <1>5 DEF Reading
  <2>4. QED
    BY <1>1, <1>5, <2>1, <2>2, <2>3, ReadKeeps
<1>7. Owed(Tail(packets))'
  <2>1. RowPackets(0)' = RowPackets(0)
    BY <1>5, SameRows DEF ReadsOn
  <2>2. QED
    BY <1>4, <1>5, <2>1 DEF Owed
<1>8. DownInv'
  <2>1. cl'.pc \notin {"fill", "send"}
    BY <1>5
  <2>2. QED
    BY <1>1, <1>3, <1>4, <1>5, <1>7, <2>1, ReadDown
<1>9. FetchedInv'
  <2>1. cl'.pc \notin {"fill", "send", "fetched"}
    BY <1>5
  <2>2. QED
    BY <1>1, <1>5, <2>1, ReadFetched
<1>10. AlarmInv'
  BY <1>2, <1>5 DEF AlarmInv, DataInv
<1>11. QED
  BY <1>6, <1>8, <1>9, <1>10 DEF DataInv

(***************************************************************************)
(* The fields, one by one.                                                 *)
(***************************************************************************)
LEMMA ReadFieldStep ==
    ASSUME DataInv, ReadField
    PROVE  DataInv'
<1>1. Arrives /\ Whole /\ cl.pc = "columns" /\ cl.fields > 0
  BY DEF ReadField
<1>2. up = <<>> /\ up' = up /\ server' = server
  BY <1>1, Arrival
<1>3. PICK packets \in Seq(Seq(Int)) :
          /\ packets # <<>> /\ Owed(packets) /\ Packet = packets[1]
          /\ Tail(packets) # <<>> => Follows(packets)
  BY <1>1, WholePacket
<1>4. /\ Tail(packets) = Joined(FieldPackets(cl.fields - 1), RowPackets(0))
      /\ Tail(packets) # <<>>
  BY <1>1, <1>3, OwedFields
<1>5. /\ ReadsOn /\ cl'.pc = "columns" /\ cl'.sql = cl.sql /\ cl'.rows = cl.rows
      /\ cl'.fields = cl.fields - 1 /\ cl'.fetched = cl.fetched /\ cl'.buffer = <<>>
  BY <1>1 DEF ReadField, Read, Call, ReadsOn, DataInv, Types
<1>6. Types' /\ StatementInv' /\ TableInv' /\ UpInv'
  <2>1. Kept(cl'.buffer)
    BY <1>5, KeptParts
  <2>2. cl'.fields \in 0..Columns
    <3>1. cl.fields \in 0..Columns /\ Columns \in Nat
      BY Sizes DEF DataInv, Types
    <3>2. QED
      BY <1>1, <1>5, <3>1
  <2>3. cl'.pc \in Reading \cup Ended /\ cl'.pc # "reply"
    BY <1>5 DEF Reading
  <2>4. QED
    BY <1>1, <1>5, <2>1, <2>2, <2>3, ReadKeeps
<1>7. Owed(Tail(packets))'
  <2>1. RowPackets(0)' = RowPackets(0)
    BY <1>5, SameRows DEF ReadsOn
  <2>2. QED
    BY <1>4, <1>5, <2>1 DEF Owed
<1>8. DownInv'
  <2>1. cl'.pc \notin {"fill", "send"}
    BY <1>5
  <2>2. QED
    BY <1>1, <1>3, <1>4, <1>5, <1>7, <2>1, ReadDown
<1>9. FetchedInv'
  <2>1. cl'.pc \notin {"fill", "send", "fetched"}
    BY <1>5
  <2>2. QED
    BY <1>1, <1>5, <2>1, ReadFetched
<1>10. AlarmInv'
  BY <1>2, <1>5 DEF AlarmInv, DataInv
<1>11. QED
  BY <1>6, <1>8, <1>9, <1>10 DEF DataInv

(***************************************************************************)
(* After the last of them is an EOF.                                       *)
(***************************************************************************)
LEMMA ReadFieldsEndStep ==
    ASSUME DataInv, ReadFieldsEnd
    PROVE  DataInv'
<1>1. Arrives /\ Whole /\ cl.pc = "columns" /\ cl.fields = 0
  BY DEF ReadFieldsEnd
<1>2. up = <<>> /\ up' = up /\ server' = server
  BY <1>1, Arrival
<1>3. PICK packets \in Seq(Seq(Int)) :
          /\ packets # <<>> /\ Owed(packets) /\ Packet = packets[1]
          /\ Tail(packets) # <<>> => Follows(packets)
  BY <1>1, WholePacket
<1>4. packets[1] = EofPacket /\ Tail(packets) = RowPackets(0) /\ Tail(packets) # <<>>
  BY <1>1, <1>3, OwedFields
<1>5. IsEofPacket(Packet)
  BY <1>3, <1>4, PacketKinds
<1>6. /\ ReadsOn /\ cl'.pc = "rows" /\ cl'.sql = cl.sql /\ cl'.rows = cl.rows
      /\ cl'.fields = cl.fields /\ cl'.fetched = cl.fetched /\ cl'.buffer = <<>>
  BY <1>5 DEF ReadFieldsEnd, Read, Call, ReadsOn, DataInv, Types
<1>7. cl.fetched = <<>> /\ Len(cl'.fetched) = 0
  <2>1. cl.fetched = <<>>
    BY <1>1 DEF DataInv, FetchedInv
  <2>2. QED
    BY <1>6, <2>1
<1>8. Types' /\ StatementInv' /\ TableInv' /\ UpInv'
  <2>1. Kept(cl'.buffer)
    BY <1>6, KeptParts
  <2>2. cl'.fields \in 0..Columns
    BY <1>6 DEF DataInv, Types
  <2>3. cl'.pc \in Reading \cup Ended /\ cl'.pc # "reply"
    BY <1>6 DEF Reading
  <2>4. QED
    BY <1>1, <1>6, <2>1, <2>2, <2>3, ReadKeeps
<1>9. Owed(Tail(packets))'
  <2>1. RowPackets(0)' = RowPackets(0)
    BY <1>6, SameRows DEF ReadsOn
  <2>2. QED
    BY <1>4, <1>6, <1>7, <2>1 DEF Owed
<1>10. DownInv'
  <2>1. cl'.pc \notin {"fill", "send"}
    BY <1>6
  <2>2. QED
    BY <1>1, <1>3, <1>4, <1>6, <1>9, <2>1, ReadDown
<1>11. FetchedInv'
  <2>1. cl'.pc \notin {"fill", "send", "reply", "header", "columns", "fetched"}
    BY <1>6
  <2>2. QED
    BY <1>6, <2>1, ReadFetched
<1>12. AlarmInv'
  BY <1>2, <1>6 DEF AlarmInv, DataInv
<1>13. QED
  BY <1>8, <1>10, <1>11, <1>12 DEF DataInv

(***************************************************************************)
(* One row more of those that are shown.                                   *)
(***************************************************************************)
LEMMA OneRowMore ==
    ASSUME NEW n \in Nat, NEW F(_)
    PROVE  Append([i \in 1..n |-> F(i)], F(n + 1)) = [i \in 1..(n + 1) |-> F(i)]
<1>1. PICK S : S = {F(i) : i \in 1..(n + 1)}
  OBVIOUS
<1>2. PICK f : f = [i \in 1..n |-> F(i)]
  OBVIOUS
<1>3. PICK g : g = [i \in 1..(n + 1) |-> F(i)]
  OBVIOUS
<1>4. PICK x : x = F(n + 1)
  OBVIOUS
<1>5. x \in S /\ f \in Seq(S) /\ Len(f) = n /\ \A i \in 1..n : f[i] = F(i)
  BY <1>1, <1>2, <1>4
<1>6. g \in Seq(S) /\ Len(g) = n + 1 /\ \A i \in 1..(n + 1) : g[i] = F(i)
  BY <1>1, <1>3
<1>7. PICK h : h = Append(f, x)
  OBVIOUS
<1>8. /\ h \in Seq(S) /\ Len(h) = n + 1 /\ h[n + 1] = x
      /\ \A i \in 1..n : h[i] = f[i]
  BY <1>5, <1>7, Ends
<1>9. \A i \in 1..(n + 1) : h[i] = g[i]
  <2>1. SUFFICES ASSUME NEW i \in 1..(n + 1)
                 PROVE  h[i] = g[i]
    OBVIOUS
  <2>2. CASE i = n + 1
    BY <1>4, <1>6, <1>8, <2>2
  <2>3. CASE i # n + 1
    <3>1. i \in 1..n
      BY <2>3
    <3>2. QED
      BY <1>5, <1>6, <1>8, <3>1
  <2>4. QED
    BY <2>2, <2>3
<1>10. h = g
  BY <1>6, <1>8, <1>9, SameSeq
<1>11. QED
  BY <1>2, <1>3, <1>4, <1>7, <1>10

(***************************************************************************)
(* The next row.                                                           *)
(***************************************************************************)
LEMMA ReadRowStep ==
    ASSUME DataInv, ReadRow
    PROVE  DataInv'
<1>1. Arrives /\ Whole /\ cl.pc = "rows" /\ ~IsEofPacket(Packet)
  BY DEF ReadRow
<1>2. up = <<>> /\ up' = up /\ server' = server
  BY <1>1, Arrival
<1>3. PICK packets \in Seq(Seq(Int)) :
          /\ packets # <<>> /\ Owed(packets) /\ Packet = packets[1]
          /\ Tail(packets) # <<>> => Follows(packets)
  BY <1>1, WholePacket
<1>4. PICK n \in 0..Len(cl.args) : n = Len(cl.fetched) /\ cl.fetched = [i \in 1..n |-> ShownRow(i)]
  BY DEF DataInv, FetchedInv
<1>5. n # Len(cl.args)
  <2>1. IsEofPacket(EofPacket)
    BY PacketKinds
  <2>2. QED
    BY <1>1, <1>3, <1>4, <2>1, OwedRows
<1>6. /\ n + 1 \in 1..Len(cl.args) /\ Packet = ServerRow(n + 1)
      /\ Tail(packets) = RowPackets(n + 1) /\ Tail(packets) # <<>>
  BY <1>1, <1>3, <1>4, <1>5, OwedRows
<1>7. RowFrom(Packet) = ShownRow(n + 1)
  BY <1>6, RowComesBack DEF DataInv, Types
<1>8. /\ ReadsOn /\ cl'.pc = "rows" /\ cl'.sql = cl.sql /\ cl'.rows = cl.rows
      /\ cl'.fields = cl.fields /\ cl'.buffer = <<>>
      /\ cl'.fetched = Append(cl.fetched, RowFrom(Packet))
  BY <1>1 DEF ReadRow, Read, Call, ReadsOn, DataInv, Types
<1>9. n \in Nat /\ Len(cl.args) \in Nat /\ n + 1 \in Nat
  <2>1. Len(cl.args) \in Nat
    BY GivenRows DEF DataInv, Types
  <2>2. QED
    BY <1>4, <2>1
<1>10. cl'.fetched = [i \in 1..(n + 1) |-> ShownRow(i)]
  <2>1. Append([i \in 1..n |-> ShownRow(i)], ShownRow(n + 1)) = [i \in 1..(n + 1) |-> ShownRow(i)]
    BY <1>9, OneRowMore
  <2>2. QED
    BY <1>4, <1>7, <1>8, <2>1
<1>11. Len(cl'.fetched) = n + 1
  <2>1. PICK m \in Nat : m = n + 1
    BY <1>9
  <2>2. QED
    BY <1>10, <2>1
<1>12. Types' /\ StatementInv' /\ TableInv' /\ UpInv'
  <2>1. Kept(cl'.buffer)
    BY <1>8, KeptParts
  <2>2. cl'.fields \in 0..Columns
    BY <1>8 DEF DataInv, Types
  <2>3. cl'.pc \in Reading \cup Ended /\ cl'.pc # "reply"
    BY <1>8 DEF Reading
  <2>4. QED
    BY <1>1, <1>8, <2>1, <2>2, <2>3, ReadKeeps
<1>13. Owed(Tail(packets))'
  <2>1. RowPackets(n + 1)' = RowPackets(n + 1)
    BY <1>8, SameRows DEF ReadsOn
  <2>2. Tail(packets) = RowPackets(Len(cl.fetched))'
    BY <1>6, <1>11, <2>1
  <2>3. QED
    BY <1>8, <2>2 DEF Owed
<1>14. DownInv'
  <2>1. cl'.pc \notin {"fill", "send"}
    BY <1>8
  <2>2. QED
    BY <1>1, <1>3, <1>6, <1>8, <1>13, <2>1, ReadDown
<1>15. FetchedInv'
  <2>1. \A i : ShownRow(i)' = ShownRow(i)
    BY <1>8, SameRows DEF ReadsOn
  <2>2. Len(cl'.fetched) \in 0..Len(cl'.args)
    <3>1. cl'.args = cl.args
      BY <1>8 DEF ReadsOn
    <3>2. n + 1 \in 0..Len(cl.args)
      BY <1>6, <1>9
    <3>3. QED
      BY <1>11, <3>1, <3>2
  <2>3. cl'.fetched = [i \in 1..Len(cl'.fetched) |-> ShownRow(i)']
    BY <1>10, <1>11, <2>1
  <2>4. cl'.pc \notin {"fill", "send", "reply", "header", "columns", "fetched"}
    BY <1>8
  <2>5. QED
    BY <2>2, <2>3, <2>4 DEF FetchedInv
<1>16. AlarmInv'
  BY <1>2, <1>8 DEF AlarmInv, DataInv
<1>17. QED
  BY <1>12, <1>14, <1>15, <1>16 DEF DataInv

(***************************************************************************)
(* The EOF after the last row.                                             *)
(***************************************************************************)
LEMMA ReadEndStep ==
    ASSUME DataInv, ReadEnd
    PROVE  DataInv'
<1>1. Arrives /\ Whole /\ cl.pc = "rows" /\ IsEofPacket(Packet)
  BY DEF ReadEnd
<1>2. up = <<>> /\ up' = up /\ server' = server
  BY <1>1, Arrival
<1>3. PICK packets \in Seq(Seq(Int)) :
          /\ packets # <<>> /\ Owed(packets) /\ Packet = packets[1]
  BY <1>1, WholePacket
<1>4. Len(cl.fetched) = Len(cl.args)
  BY <1>1, <1>3, OwedRows
<1>5. /\ ReadsOn /\ cl'.pc = "fetched" /\ cl'.sql = cl.sql /\ cl'.rows = cl.rows
      /\ cl'.fields = cl.fields /\ cl'.fetched = cl.fetched /\ cl'.buffer = <<>>
  BY <1>1 DEF ReadEnd, Read, Call, ReadsOn, DataInv, Types
<1>6. Types' /\ StatementInv' /\ TableInv' /\ UpInv'
  <2>1. Kept(cl'.buffer)
    BY <1>5, KeptParts
  <2>2. cl'.fields \in 0..Columns
    BY <1>5 DEF DataInv, Types
  <2>3. cl'.pc \in Reading \cup Ended /\ cl'.pc # "reply"
    BY <1>5 DEF Ended
  <2>4. QED
    BY <1>1, <1>5, <2>1, <2>2, <2>3, ReadKeeps
<1>7. DownInv'
  <2>1. cl'.pc \notin {"fill", "send"} /\ cl'.pc \notin Reading
    BY <1>5 DEF Reading
  <2>2. QED
    BY <1>1, <1>3, <1>5, <2>1, ReadDown
<1>8. FetchedInv'
  <2>1. cl'.pc \notin {"fill", "send", "reply", "header", "columns"}
    BY <1>5
  <2>2. QED
    BY <1>4, <1>5, <2>1, ReadFetched
<1>9. AlarmInv'
  BY <1>2, <1>5 DEF AlarmInv, DataInv
<1>10. QED
  BY <1>6, <1>7, <1>8, <1>9 DEF DataInv

(***************************************************************************)
(* The rows of a statement are acknowledged.                               *)
(***************************************************************************)
LEMMA ReadOkStep ==
    ASSUME DataInv, ReadOk
    PROVE  DataInv'
<1>1. Arrives /\ Whole /\ cl.pc = "reply" /\ IsOkPacket(Packet)
  BY DEF ReadOk
<1>2. /\ up = <<>> /\ up' = up /\ server' = server /\ down' = Tail(down)
      /\ Tail(down) \in Seq(PartType) /\ NextNumber(cl.seq) \in 0..(SeqMod - 1)
  BY <1>1, Arrival
<1>3. PICK packets \in Seq(Seq(Int)) :
          /\ packets # <<>> /\ Owed(packets) /\ Packet = packets[1]
          /\ Tail(packets) = <<>> => Tail(down) = <<>>
  BY <1>1, WholePacket
<1>4. /\ Tail(packets) = <<>> /\ Packet[2] = Inserted - cl.rows
      /\ Inserted = cl.next - 1
  BY <1>1, <1>3, OwedReply, RefusalPacket
<1>5. /\ Len(cl.args) \in Nat /\ cl.rows \in Nat /\ cl.next \in Nat /\ cl.rows < cl.next
      /\ cl.next - 1 <= Len(cl.args)
  <2>1. Len(cl.args) \in Nat
    BY GivenRows DEF DataInv, Types
  <2>2. QED
    BY <2>1 DEF DataInv, Types, StatementInv
<1>6. cl.rows + Packet[2] = cl.next - 1
  BY <1>4, <1>5
<1>7. /\ ReadsOn /\ cl'.pc = "fill" /\ cl'.sql = <<>> /\ cl'.rows = cl.next - 1
      /\ cl'.fields = cl.fields /\ cl'.fetched = cl.fetched /\ cl'.buffer = <<>>
  BY <1>6 DEF ReadOk, Read, Call, ReadsOn, DataInv, Types
<1>8. Types'
  <2>1. Given'
    BY <1>7, SameRows DEF ReadsOn, DataInv, Types
  <2>2. Call(cl)' /\ Session(server)'
    BY <1>2, <1>7 DEF ReadsOn, DataInv, Types, Call, Session
  <2>3. (cl.next \in 1..(Len(cl.args) + 1))' /\ (cl.left \in Seq(Int))'
    BY <1>7 DEF ReadsOn, DataInv, Types
  <2>4. (cl.rows \in 0..Len(cl.args))'
    <3>1. cl.next - 1 \in 0..Len(cl.args)
      BY <1>5
    <3>2. QED
      BY <1>7, <3>1 DEF ReadsOn
  <2>5. (cl.sql \in Seq(Int))' /\ (cl.fields \in 0..Columns)' /\ (cl.pc \in {"fill", "send"})'
    BY <1>7 DEF DataInv, Types
  <2>6. (cl.seq \in 0..(SeqMod - 1))' /\ Kept(cl.buffer)'
    BY <1>2, <1>7, KeptParts DEF ReadsOn
  <2>7. /\ (server.seq \in 0..(SeqMod - 1))' /\ Kept(server.buffer)'
        /\ (server.alive \in BOOLEAN)' /\ (server.faults \in Nat)'
    BY <1>2 DEF DataInv, Types
  <2>8. (up \in Seq(PartType))' /\ (down \in Seq(PartType))'
    BY <1>2 DEF DataInv, Types
  <2>9. QED
    BY <2>1, <2>2, <2>3, <2>4, <2>5, <2>6, <2>7, <2>8 DEF Types
<1>9. StatementInv'
  <2>1. cl'.next = cl.next
    BY <1>7 DEF ReadsOn
  <2>2. cl'.rows < cl'.next /\ cl'.rows + 1 = cl'.next
    <3>1. PICK n \in Nat : n = cl.next
      BY <1>5
    <3>2. n - 1 < n /\ n - 1 + 1 = n
      OBVIOUS
    <3>3. QED
      BY <1>7, <2>1, <3>1, <3>2
  <2>3. QED
    BY <1>7, <2>2 DEF StatementInv
<1>10. TableInv'
  <2>1. server.table = RowsOf(1, Inserted) /\ Inserted = cl'.rows /\ Inserted' = Inserted
    BY <1>2, <1>4, <1>7 DEF DataInv, TableInv, Inserted
  <2>2. QED
    BY <1>2, <2>1 DEF TableInv
<1>11. UpInv'
  <2>1. ~server.disordered
    BY DEF DataInv, UpInv
  <2>2. server.alive => server.buffer = <<>> /\ server.seq = 0
    BY <1>1, <1>2 DEF DataInv, UpInv
  <2>3. QED
    BY <1>2, <1>7, <2>1, <2>2 DEF UpInv
<1>12. DownInv'
  <2>1. down' = <<>> /\ cl'.buffer = <<>>
    BY <1>2, <1>3, <1>4, <1>7
  <2>2. QED
    BY <1>7, <2>1 DEF DownInv, Reading
<1>13. FetchedInv'
  <2>1. cl.fetched = <<>>
    BY <1>1 DEF DataInv, FetchedInv
  <2>2. \A i : ShownRow(i)' = ShownRow(i)
    BY <1>7, SameRows DEF ReadsOn
  <2>3. FetchedInv /\ cl'.args = cl.args
    BY <1>7 DEF DataInv, ReadsOn
  <2>4. QED
    BY <1>7, <2>1, <2>2, <2>3 DEF FetchedInv
<1>14. AlarmInv'
  BY <1>2, <1>7 DEF AlarmInv, DataInv
<1>15. QED
  BY <1>8, <1>9, <1>10, <1>11, <1>12, <1>13, <1>14 DEF DataInv

-----------------------------------------------------------------------------
(* Statements and commands.                                                *)

\* What every step of the client that does not read leaves alone.
Writes ==
    /\ Call(cl') /\ cl'.args = cl.args /\ cl'.col = cl.col /\ cl'.bulk = cl.bulk
    /\ cl'.rows = cl.rows /\ cl'.fields = cl.fields /\ cl'.fetched = cl.fetched
    /\ cl'.buffer = cl.buffer /\ server' = server /\ down' = down

(***************************************************************************)
(* So the types stay, if those of what it changes do.                      *)
(***************************************************************************)
LEMMA WriteTypes ==
    ASSUME DataInv, Writes,
           cl'.pc \in {"fill", "send", "reply", "header", "lost"},
           cl'.next \in 1..(Len(cl.args) + 1), cl'.sql \in Seq(Int), cl'.left \in Seq(Int),
           cl'.seq \in 0..(SeqMod - 1), up' \in Seq(PartType)
    PROVE  Types'
<1>1. Given'
  BY SameRows DEF Writes, DataInv, Types
<1>2. Call(cl)' /\ Session(server)'
  BY DEF Writes, DataInv, Types, Session
<1>3. /\ (cl.next \in 1..(Len(cl.args) + 1))' /\ (cl.rows \in 0..Len(cl.args))'
      /\ (cl.fields \in 0..Columns)' /\ Kept(cl.buffer)'
  BY DEF Writes, DataInv, Types
<1>4. (cl.pc \in {"fill", "send"} \cup Reading \cup Ended)'
  BY DEF Reading, Ended
<1>5. /\ (server.seq \in 0..(SeqMod - 1))' /\ Kept(server.buffer)'
      /\ (server.alive \in BOOLEAN)' /\ (server.faults \in Nat)' /\ (down \in Seq(PartType))'
  BY DEF Writes, DataInv, Types
<1>6. QED
  BY <1>1, <1>2, <1>3, <1>4, <1>5 DEF Types

(***************************************************************************)
(* Between two commands only the statement changes.                        *)
(***************************************************************************)
LEMMA FillKeeps ==
    ASSUME DataInv, Writes, cl.pc = "fill", cl'.pc \in {"fill", "send"}, up' = up
    PROVE  /\ TableInv' /\ DownInv' /\ FetchedInv' /\ AlarmInv'
           /\ up = <<>> /\ server.alive => server.buffer = <<>> /\ server.seq = 0
           /\ cl'.pc = "fill" => UpInv'
<1>1. up = <<>> /\ down = <<>> /\ cl.buffer = <<>> /\ ~server.disordered
  BY DEF DataInv, UpInv, DownInv
<1>2. server.alive => server.buffer = <<>> /\ server.seq = 0
  BY <1>1 DEF DataInv, UpInv
<1>3. TableInv'
  <2>1. server.table = RowsOf(1, Inserted) /\ Inserted = cl.rows /\ Inserted' = Inserted
    BY DEF DataInv, TableInv, Inserted, Writes
  <2>2. QED
    BY <2>1 DEF TableInv, Writes
<1>4. DownInv'
  BY <1>1 DEF DownInv, Writes, Reading
<1>5. FetchedInv'
  <2>1. \A i : ShownRow(i)' = ShownRow(i)
    BY SameRows DEF Writes
  <2>2. FetchedInv /\ cl'.args = cl.args /\ cl'.fetched = cl.fetched
    BY DEF DataInv, Writes
  <2>3. QED
    BY <2>1, <2>2 DEF FetchedInv
<1>6. AlarmInv'
  BY DEF AlarmInv, DataInv, Writes
<1>7. cl'.pc = "fill" => UpInv'
  BY <1>1, <1>2 DEF UpInv, Writes
<1>8. QED
  BY <1>1, <1>2, <1>3, <1>4, <1>5, <1>6, <1>7

(***************************************************************************)
(* A statement begins.                                                     *)
(***************************************************************************)
LEMMA StartStep ==
    ASSUME DataInv, StartStatement
    PROVE  DataInv'
<1>1. /\ cl.pc = "fill" /\ cl.sql = <<>> /\ cl.next <= Len(cl.args)
      /\ up' = up /\ down' = down /\ server' = server
  BY DEF StartStatement, MoreRows
<1>2. Given /\ Len(cl.args) \in Nat /\ cl.rows \in Nat
  <2>1. Given /\ Len(cl.args) \in Nat
    BY GivenRows DEF DataInv, Types
  <2>2. QED
    BY <2>1 DEF DataInv, Types
<1>3. PICK a \in Nat : a = cl.next /\ 1 <= a /\ a <= Len(cl.args) /\ cl.rows + 1 = a
  <2>1. cl.next \in 1..(Len(cl.args) + 1) /\ cl.rows + 1 = cl.next
    BY <1>1 DEF DataInv, Types, StatementInv
  <2>2. QED
    BY <1>1, <1>2, <2>1
<1>4. PICK s : s = Repeat(PREFIX, Prefix) \o RowText(a)
  OBVIOUS
<1>5. s = Opened(RowsOf(a, a)) /\ Lists(s, <<a>>, a)
  BY <1>2, <1>3, <1>4, OpenedFirst, FirstListed
<1>6. <<a>> = RowsOf(a, a)
  <2>1. RowsOf(a, a) \in Seq(Nat) /\ Len(RowsOf(a, a)) = 1 /\ RowsOf(a, a)[1] = a
    <3>1. a <= a + 1 /\ a - a + 1 = 1 /\ 1 \in 1..1 /\ a + 1 - 1 = a
      OBVIOUS
    <3>2. QED
      BY <3>1, RowsOnEnd
  <2>2. PICK r \in Seq(Nat) : r = RowsOf(a, a)
    BY <2>1
  <2>3. QED
    BY <2>1, <2>2
<1>7. /\ Writes /\ cl'.pc = "fill" /\ cl'.sql = s /\ cl'.next = a + 1
      /\ cl'.left = cl.left /\ cl'.seq = cl.seq
  BY <1>1, <1>3, <1>4 DEF StartStatement, Call, Writes, DataInv, Types
<1>8. Types'
  <2>1. cl'.sql \in Seq(Int)
    BY <1>5, <1>7 DEF Lists
  <2>2. cl'.left \in Seq(Int) /\ cl'.seq \in 0..(SeqMod - 1) /\ up' \in Seq(PartType)
    BY <1>1, <1>7 DEF DataInv, Types
  <2>3. cl'.next \in 1..(Len(cl.args) + 1)
    BY <1>2, <1>3, <1>7
  <2>4. QED
    BY <1>7, <2>1, <2>2, <2>3, WriteTypes
<1>9. StatementInv'
  <2>1. a + 1 - 1 = a /\ a - 1 < a + 1 /\ a < a + 1 /\ cl.rows = a - 1 /\ ~(a + 1 < a + 1)
        /\ cl.rows + 2 = a + 1
    BY <1>2, <1>3
  <2>2. cl'.rows = a - 1 /\ cl'.rows + 1 = a /\ cl'.rows + 2 = a + 1 /\ cl'.args = cl.args
        /\ cl'.col = cl.col
    BY <1>3, <1>7, <2>1 DEF Writes
  <2>3. Now' = RowsOf(a, a)
    BY <1>7, <2>1, <2>2 DEF Now
  <2>4. s = Opened(Now)'
    BY <1>5, <2>2, <2>3, SameRows
  <2>5. s # <<>> /\ RowsIn(s) = RowsOf(a, a) /\ Lists(s, RowsOf(a, a), a)
    BY <1>5, <1>6 DEF Lists
  <2>6. (cl.rows < cl.next)' /\ (cl.rows + 1 < cl.next)' /\ ~(cl.rows + 2 < cl.next)'
        /\ (cl.next - 1)' = a
    BY <1>7, <2>1, <2>2
  <2>7. QED
    BY <1>7, <2>3, <2>4, <2>5, <2>6 DEF StatementInv
<1>10. TableInv' /\ DownInv' /\ FetchedInv' /\ AlarmInv' /\ UpInv'
  BY <1>1, <1>7, FillKeeps
<1>11. QED
  BY <1>8, <1>9, <1>10 DEF DataInv

(***************************************************************************)
(* A row is added.                                                         *)
(***************************************************************************)
LEMMA AddRowStep ==
    ASSUME DataInv, AddRow
    PROVE  DataInv'
<1>1. /\ cl.pc = "fill" /\ cl.sql # <<>> /\ cl.next <= Len(cl.args)
      /\ Len(cl.sql) + Len(RowText(cl.next)) + Postfix + 1 <= MaxStmt
      /\ up' = up /\ down' = down /\ server' = server
  BY DEF AddRow, MoreRows, Fits
<1>2. Given /\ Len(cl.args) \in Nat /\ cl.rows \in Nat
  <2>1. Given /\ Len(cl.args) \in Nat
    BY GivenRows DEF DataInv, Types
  <2>2. QED
    BY <2>1 DEF DataInv, Types
<1>3. PICK b \in Nat : b + 1 = cl.next /\ b = cl.next - 1 /\ 1 <= b /\ b + 1 <= Len(cl.args)
                       /\ cl.rows + 1 <= b
  <2>1. cl.next \in 1..(Len(cl.args) + 1) /\ cl.rows + 1 < cl.next
    BY <1>1 DEF DataInv, Types, StatementInv
  <2>2. PICK n \in Nat : n = cl.next
    BY <1>2, <2>1
  <2>3. n - 1 \in Nat /\ n - 1 + 1 = n /\ 1 <= n - 1 /\ cl.rows + 1 <= n - 1
    BY <1>2, <2>1, <2>2
  <2>4. QED
    BY <1>1, <2>2, <2>3
<1>4. PICK a \in Nat : a = cl.rows + 1 /\ 1 <= a /\ a <= b /\ a <= b + 1
  BY <1>2, <1>3
<1>5. PICK s : s = cl.sql
  OBVIOUS
<1>6. s = Opened(RowsOf(a, b)) /\ Lists(s, RowsOf(a, b), b)
  <2>1. Now = RowsOf(a, b)
    BY <1>3, <1>4 DEF Now
  <2>2. QED
    BY <1>1, <1>3, <1>5, <2>1 DEF DataInv, StatementInv
<1>7. PICK t : t = s \o <<COMMA>> \o RowText(b + 1)
  OBVIOUS
<1>8. t = Opened(RowsOf(a, b + 1))
  BY <1>2, <1>3, <1>4, <1>6, <1>7, OpenedNext
<1>9. Lists(t, RowsOf(a, b + 1), b + 1)
  <2>1. Lists(t, Append(RowsOf(a, b), b + 1), b + 1)
    BY <1>2, <1>3, <1>6, <1>7, NextListed
  <2>2. RowsOf(a, b + 1) = Append(RowsOf(a, b), b + 1)
    BY <1>4, RowsOnEnd
  <2>3. QED
    BY <2>1, <2>2
<1>10. Len(t) + Postfix <= MaxStmt
  <2>1. RowText(b + 1) \in Seq(Int)
    <3>1. b + 1 \in 1..Len(cl.args)
      BY <1>2, <1>3
    <3>2. QED
      BY <1>2, <3>1, RowTexts
  <2>2. PICK r \in Seq(Int) : r = RowText(b + 1)
    BY <2>1
  <2>3. s \in Seq(Int)
    BY <1>6 DEF Lists
  <2>4. PICK c \in Int : c = COMMA
    BY DEF COMMA
  <2>5. Len((s \o <<c>>) \o r) = Len(s) + 1 + Len(r) /\ Len(s) \in Nat /\ Len(r) \in Nat
    BY <2>2, <2>3
  <2>6. Len(s) + Len(r) + Postfix + 1 <= MaxStmt
    BY <1>1, <1>3, <1>5, <2>2
  <2>7. t = (s \o <<c>>) \o r
    BY <1>7, <2>2, <2>4
  <2>8. QED
    BY <2>5, <2>6, <2>7, Sizes
<1>11. /\ Writes /\ cl'.pc = "fill" /\ cl'.sql = t /\ cl'.next = (b + 1) + 1
       /\ cl'.left = cl.left /\ cl'.seq = cl.seq
  BY <1>1, <1>3, <1>5, <1>7 DEF AddRow, Call, Writes, DataInv, Types
<1>12. Types'
  <2>1. cl'.sql \in Seq(Int)
    BY <1>9, <1>11 DEF Lists
  <2>2. cl'.left \in Seq(Int) /\ cl'.seq \in 0..(SeqMod - 1) /\ up' \in Seq(PartType)
    BY <1>1, <1>11 DEF DataInv, Types
  <2>3. cl'.next \in 1..(Len(cl.args) + 1)
    BY <1>2, <1>3, <1>11
  <2>4. QED
    BY <1>11, <2>1, <2>2, <2>3, WriteTypes
<1>13. StatementInv'
  <2>1. (b + 1) + 1 - 1 = b + 1 /\ cl.rows < (b + 1) + 1 /\ cl.rows + 1 < (b + 1) + 1
    BY <1>2, <1>3
  <2>2. cl'.rows = cl.rows /\ cl'.rows + 1 = a /\ cl'.args = cl.args
        /\ cl'.col = cl.col
    BY <1>4, <1>11 DEF Writes
  <2>3. Now' = RowsOf(a, b + 1)
    BY <1>11, <2>1, <2>2 DEF Now
  <2>4. t = Opened(Now)'
    BY <1>8, <2>2, <2>3, SameRows
  <2>5. t # <<>> /\ RowsIn(t) = RowsOf(a, b + 1)
    BY <1>9 DEF Lists
  <2>6. (cl.rows < cl.next)' /\ (cl.rows + 1 < cl.next)' /\ (cl.next - 1)' = b + 1
    BY <1>11, <2>1, <2>2
  <2>7. QED
    BY <1>9, <1>10, <1>11, <2>3, <2>4, <2>5, <2>6 DEF StatementInv
<1>14. TableInv' /\ DownInv' /\ FetchedInv' /\ AlarmInv' /\ UpInv'
  BY <1>1, <1>11, FillKeeps
<1>15. QED
  BY <1>12, <1>13, <1>14 DEF DataInv

(***************************************************************************)
(* A command begins: all of it is left to be sent.                         *)
(***************************************************************************)
LEMMA CommandBegins ==
    ASSUME DataInv, Writes, cl.pc = "fill", cl'.pc = "send", up' = up, cl'.seq = 0,
           cl'.left = Command', cl'.left \in Seq(Int)
    PROVE  UpInv'
<1>1. up = <<>> /\ server' = server /\ ~server.disordered
  BY FillKeeps DEF DataInv, UpInv, Writes
<1>2. server.alive => server.buffer = <<>> /\ server.seq = 0
  BY <1>1, FillKeeps
<1>3. PICK command \in Seq(Int) : command = Command'
  OBVIOUS
<1>4. Leaving(<<>>, 0, 0, <<>>, command, command) /\ Left(<<>>, command, command)
  BY BeginsLeaving
<1>5. server.alive => /\ Leaving(up', server'.seq, cl'.seq, server'.buffer, Command', command)
                      /\ Left(up', command, cl'.left)
  BY <1>1, <1>2, <1>3, <1>4
<1>6. QED
  BY <1>1, <1>5 DEF UpInv

(***************************************************************************)
(* A statement ends, and is executed.                                      *)
(***************************************************************************)
LEMMA ExecuteStatementStep ==
    ASSUME DataInv, ExecuteStatement
    PROVE  DataInv'
<1>1. /\ cl.pc = "fill" /\ cl.sql # <<>>
      /\ up' = up /\ down' = down /\ server' = server
  BY DEF ExecuteStatement
<1>2. PICK s : s = cl.sql
  OBVIOUS
<1>3. /\ s \in Seq(Int) /\ s # <<>> /\ RowsIn(s) = Now /\ s = Opened(Now)
      /\ cl.rows < cl.next /\ cl.rows + 1 < cl.next
      /\ cl.rows + 2 < cl.next => Len(s) + Postfix <= MaxStmt
  BY <1>1, <1>2 DEF DataInv, Types, StatementInv
<1>4. PICK t : t = s \o Repeat(POSTFIX, Postfix)
  OBVIOUS
<1>5. t \in Seq(Int) /\ RowsIn(t) = Now /\ Len(t) = Len(s) + Postfix
  BY <1>3, <1>4, EndListed
<1>6. t # <<>>
  <2>1. Len(s) \in Nat /\ Len(t) > 0
    BY <1>3, <1>5, Sizes
  <2>2. QED
    BY <2>1
<1>7. t = Statement(Now)
  BY <1>3, <1>4 DEF Statement, Opened
<1>8. PICK l : l = <<CMD>> \o t
  OBVIOUS
<1>9. l \in Seq(Int)
  <2>1. PICK c \in Int : c = CMD
    BY DEF CMD
  <2>2. QED
    BY <1>5, <1>8, <2>1
<1>10. /\ Writes /\ cl'.pc = "send" /\ cl'.sql = t /\ cl'.next = cl.next
       /\ cl'.left = l /\ cl'.seq = 0
  BY <1>1, <1>2, <1>4, <1>8 DEF ExecuteStatement, Call, Writes, DataInv, Types
<1>11. Types'
  <2>1. cl'.seq \in 0..(SeqMod - 1)
    BY <1>10, Sizes
  <2>2. cl'.next \in 1..(Len(cl.args) + 1) /\ up' \in Seq(PartType)
    BY <1>1, <1>10 DEF DataInv, Types
  <2>3. QED
    BY <1>5, <1>9, <1>10, <2>1, <2>2, WriteTypes
<1>12. StatementInv'
  <2>1. cl'.rows = cl.rows /\ cl'.next = cl.next /\ cl'.args = cl.args /\ cl'.col = cl.col
    BY <1>10 DEF Writes
  <2>2. Now' = Now
    BY <2>1 DEF Now
  <2>3. t = Statement(Now)'
    BY <1>7, <2>1, <2>2, SameRows
  <2>4. (cl.rows < cl.next)' /\ (cl.rows + 1 < cl.next)'
        /\ ((cl.rows + 2 < cl.next)' => Len(t) <= MaxStmt)
    BY <1>3, <1>5, <2>1
  <2>5. Len(t) + 0 = Len(t)
    BY <1>5
  <2>6. QED
    BY <1>5, <1>6, <1>10, <2>2, <2>3, <2>4, <2>5 DEF StatementInv
<1>13. UpInv'
  <2>1. cl'.left = Command'
    BY <1>6, <1>8, <1>10 DEF Command
  <2>2. QED
    BY <1>1, <1>9, <1>10, <2>1, CommandBegins
<1>14. TableInv' /\ DownInv' /\ FetchedInv' /\ AlarmInv'
  BY <1>1, <1>10, FillKeeps
<1>15. QED
  BY <1>11, <1>12, <1>13, <1>14 DEF DataInv

(***************************************************************************)
(* All rows were given, and are asked for.                                 *)
(***************************************************************************)
LEMMA ExecuteSelectStep ==
    ASSUME DataInv, ExecuteSelect
    PROVE  DataInv'
<1>1. /\ cl.pc = "fill" /\ cl.sql = <<>> /\ ~(cl.next <= Len(cl.args))
      /\ up' = up /\ down' = down /\ server' = server
  BY DEF ExecuteSelect, MoreRows
<1>2. cl.next = Len(cl.args) + 1
  <2>1. Len(cl.args) \in Nat
    BY GivenRows DEF DataInv, Types
  <2>2. cl.next \in 1..(Len(cl.args) + 1)
    BY DEF DataInv, Types
  <2>3. QED
    BY <1>1, <2>1, <2>2
<1>3. PICK l : l = <<CMD, SELECT>>
  OBVIOUS
<1>4. l \in Seq(Int)
  <2>1. CMD \in Int /\ SELECT \in Int
    BY DEF CMD, SELECT
  <2>2. QED
    BY <1>3, <2>1
<1>5. /\ Writes /\ cl'.pc = "send" /\ cl'.sql = <<>> /\ cl'.next = cl.next
      /\ cl'.left = l /\ cl'.seq = 0
  BY <1>1, <1>3 DEF ExecuteSelect, Call, Writes, DataInv, Types
<1>6. Types'
  <2>1. cl'.seq \in 0..(SeqMod - 1)
    BY <1>5, Sizes
  <2>2. cl'.next \in 1..(Len(cl.args) + 1) /\ cl'.sql \in Seq(Int) /\ up' \in Seq(PartType)
    BY <1>1, <1>5 DEF DataInv, Types
  <2>3. QED
    BY <1>4, <1>5, <2>1, <2>2, WriteTypes
<1>7. StatementInv'
  <2>1. cl'.rows = cl.rows /\ cl'.next = cl.next /\ cl'.args = cl.args
    BY <1>5 DEF Writes
  <2>2. cl.rows < cl.next /\ cl.rows + 1 = cl.next
    BY <1>1 DEF DataInv, StatementInv
  <2>3. QED
    BY <1>2, <1>5, <2>1, <2>2 DEF StatementInv
<1>8. UpInv'
  <2>1. cl'.left = Command'
    BY <1>3, <1>5 DEF Command
  <2>2. QED
    BY <1>1, <1>4, <1>5, <2>1, CommandBegins
<1>9. TableInv' /\ DownInv' /\ FetchedInv' /\ AlarmInv'
  BY <1>1, <1>5, FillKeeps
<1>10. QED
  BY <1>6, <1>7, <1>8, <1>9 DEF DataInv

(***************************************************************************)
(* A command is sent part by part.                                         *)
(***************************************************************************)
LEMMA SendStep ==
    ASSUME DataInv, SendPacket
    PROVE  DataInv'
<1> DEFINE size == MinOf(MaxPacket, Len(cl.left))
           data == SubSeq(cl.left, 1, size)
           after == SubSeq(cl.left, size + 1, Len(cl.left))
<1>1. /\ cl.pc = "send" /\ server.alive /\ down' = down /\ server' = server
      /\ up' = Append(up, Part(cl.seq, data))
  BY DEF SendPacket
<1>2. /\ Writes /\ cl'.sql = cl.sql /\ cl'.next = cl.next /\ cl'.left = after
      /\ cl'.seq = NextNumber(cl.seq)
      /\ cl'.pc = IF ~LastPart(data, after) THEN "send"
                  ELSE IF cl.sql = <<>> THEN "header" ELSE "reply"
  BY <1>1 DEF SendPacket, Call, Writes, DataInv, Types
<1>3. PICK rest \in Seq(Int) :
          /\ Leaving(up, server.seq, cl.seq, server.buffer, Command, rest)
          /\ Left(up, rest, cl.left)
  BY <1>1 DEF DataInv, UpInv
<1>4. /\ up \in Seq(PartType) /\ cl.seq \in 0..(SeqMod - 1) /\ server.buffer \in Seq(Int)
      /\ cl.left \in Seq(Int) /\ NextNumber(cl.seq) \in 0..(SeqMod - 1)
  <2>1. /\ up \in Seq(PartType) /\ cl.seq \in 0..(SeqMod - 1) /\ server.buffer \in Seq(Int)
        /\ cl.left \in Seq(Int)
    BY DEF DataInv, Types, Kept
  <2>2. cl.seq \in Nat
    BY <2>1, Sizes
  <2>3. QED
    BY <2>1, <2>2, NextNumbers
<1>5. /\ after \in Seq(Int) /\ up' \in Seq(PartType)
      /\ Leaving(up', server.seq, NextNumber(cl.seq), server.buffer, Command, rest)
      /\ ~LastPart(data, after) => Left(up', rest, after)
      /\ LastPart(data, after) => Sent(up', rest)
  <2>1. PICK l \in Seq(Int) : l = cl.left
    BY <1>4
  <2>2. PICK n \in 0..(SeqMod - 1) : n = cl.seq
    BY <1>4
  <2>3. PICK b \in Seq(Int) : b = server.buffer
    BY <1>4
  <2>4. PICK c : c = Command
    OBVIOUS
  <2>5. PICK d : d = data
    OBVIOUS
  <2>6. PICK a : a = after
    OBVIOUS
  <2>7. PICK u : u = up'
    OBVIOUS
  <2>8. Cut(l, d, a)
    BY <2>1, <2>5, <2>6 DEF Cut
  <2>9. Sends(up, n, d, u)
    BY <1>1, <2>2, <2>5, <2>7 DEF Sends
  <2>10. Leaving(up, server.seq, n, b, c, rest) /\ Left(up, rest, l) /\ up \in Seq(PartType)
    BY <1>3, <1>4, <2>1, <2>2, <2>3, <2>4
  <2>11. /\ a \in Seq(Int) /\ u \in Seq(PartType)
         /\ Leaving(u, server.seq, NextNumber(n), b, c, rest)
         /\ ~LastPart(d, a) => Left(u, rest, a)
         /\ LastPart(d, a) => Sent(u, rest)
    <3> HIDE DEF size, data, after
    <3>1. QED
      BY <2>8, <2>9, <2>10, SendsPart
  <2>12. QED
    BY <2>2, <2>3, <2>4, <2>5, <2>6, <2>7, <2>11
<1> HIDE DEF size, data, after
<1>6. up' # <<>>
  <2>1. PICK x : x = Part(cl.seq, data)
    OBVIOUS
  <2>2. Append(up, x) # <<>>
    <3>1. up \in Seq(PartType)
      BY <1>4
    <3>2. up \in Seq(PartType \cup {x})
      BY <3>1
    <3>3. QED
      BY <3>2
  <2>3. QED
    BY <1>1, <2>1, <2>2
<1>7. /\ cl'.pc \in {"send", "reply", "header"}
      /\ cl'.pc = "send" <=> ~LastPart(data, after)
      /\ cl'.pc = "reply" => cl.sql # <<>>
      /\ cl'.pc = "header" => cl.sql = <<>>
  BY <1>2
<1>8. Types'
  <2>1. cl'.next \in 1..(Len(cl.args) + 1) /\ cl'.sql \in Seq(Int)
    BY <1>2 DEF DataInv, Types
  <2>2. QED
    BY <1>2, <1>4, <1>5, <1>7, <2>1, WriteTypes
<1>9. StatementInv'
  <2>1. cl'.rows = cl.rows /\ cl'.next = cl.next /\ cl'.args = cl.args /\ cl'.col = cl.col
        /\ cl'.sql = cl.sql
    BY <1>2 DEF Writes
  <2>2. Now' = Now
    BY <2>1 DEF Now
  <2>3. Statement(Now)' = Statement(Now)
    BY <2>1, <2>2, SameRows
  <2>4. StatementInv
    BY DEF DataInv
  <2>5. cl'.pc # "fill" /\ cl.pc # "fill" /\ cl'.pc \notin {"columns", "rows", "fetched"}
    BY <1>1, <1>7
  <2>6. QED
    BY <1>7, <2>1, <2>2, <2>3, <2>4, <2>5 DEF StatementInv
<1>10. TableInv'
  <2>1. server.table = RowsOf(1, Inserted) /\ Inserted = cl.rows /\ Inserted' = Inserted
    BY <1>1 DEF DataInv, TableInv, Inserted
  <2>2. QED
    BY <1>1, <1>2, <2>1 DEF TableInv, Writes
<1>11. UpInv'
  <2>1. Command' = Command
    BY <1>2 DEF Command
  <2>2. Leaving(up', server'.seq, cl'.seq, server'.buffer, Command', rest)
    BY <1>1, <1>2, <1>5, <2>1
  <2>3. cl'.pc = "send" => Left(up', rest, cl'.left)
    BY <1>2, <1>5, <1>7
  <2>4. cl'.pc # "send" => Sent(up', rest)
    BY <1>5, <1>7
  <2>5. ~server'.disordered
    BY <1>1 DEF DataInv, UpInv
  <2>6. QED
    BY <1>1, <1>6, <1>7, <2>2, <2>3, <2>4, <2>5 DEF UpInv
<1>12. DownInv'
  <2>1. down = <<>> /\ cl.buffer = <<>>
    BY <1>1 DEF DataInv, DownInv
  <2>2. QED
    BY <1>1, <1>2, <1>6, <2>1 DEF DownInv, Writes
<1>13. FetchedInv'
  <2>1. \A i : ShownRow(i)' = ShownRow(i)
    BY <1>2, SameRows DEF Writes
  <2>2. FetchedInv /\ cl'.args = cl.args /\ cl'.fetched = cl.fetched /\ cl.fetched = <<>>
    BY <1>1, <1>2 DEF DataInv, FetchedInv, Writes
  <2>3. QED
    BY <1>7, <2>1, <2>2 DEF FetchedInv
<1>14. AlarmInv'
  BY <1>1, <1>7 DEF AlarmInv, DataInv
<1>15. QED
  BY <1>8, <1>9, <1>10, <1>11, <1>12, <1>13, <1>14 DEF DataInv

(***************************************************************************)
(* The client finds the connection lost.                                   *)
(***************************************************************************)
LEMMA ServerGoneStep ==
    ASSUME DataInv, ServerGone
    PROVE  DataInv'
<1>1. /\ ~server.alive /\ cl.pc \in {"send"} \cup Reading
      /\ up' = up /\ down' = down /\ server' = server
  BY DEF ServerGone
<1>2. /\ Writes /\ cl'.pc = "lost" /\ cl'.sql = cl.sql /\ cl'.next = cl.next
      /\ cl'.left = cl.left /\ cl'.seq = cl.seq
  BY <1>1 DEF ServerGone, Call, Writes, DataInv, Types
<1>3. up = <<>>
  BY <1>1 DEF DataInv, UpInv
<1>4. Types'
  <2>1. /\ cl'.next \in 1..(Len(cl.args) + 1) /\ cl'.sql \in Seq(Int) /\ cl'.left \in Seq(Int)
        /\ cl'.seq \in 0..(SeqMod - 1) /\ up' \in Seq(PartType)
    BY <1>1, <1>2 DEF DataInv, Types
  <2>2. QED
    BY <1>2, <2>1, WriteTypes
<1>5. StatementInv'
  <2>1. cl'.rows = cl.rows /\ cl'.next = cl.next /\ cl'.args = cl.args /\ cl'.col = cl.col
        /\ cl'.sql = cl.sql
    BY <1>2 DEF Writes
  <2>2. Now' = Now
    BY <2>1 DEF Now
  <2>3. Statement(Now)' = Statement(Now)
    BY <2>1, <2>2, SameRows
  <2>4. StatementInv
    BY DEF DataInv
  <2>5. cl.pc # "fill"
    BY <1>1 DEF Reading
  <2>6. QED
    BY <1>2, <2>1, <2>2, <2>3, <2>4, <2>5 DEF StatementInv
<1>6. TableInv'
  BY <1>1, <1>2, <1>3 DEF DataInv, TableInv, Inserted, Writes
<1>7. UpInv'
  BY <1>1, <1>2, <1>3 DEF DataInv, UpInv
<1>8. DownInv'
  BY <1>1, <1>2, <1>3 DEF DataInv, DownInv, Reading
<1>9. FetchedInv'
  <2>1. \A i : ShownRow(i)' = ShownRow(i)
    BY <1>2, SameRows DEF Writes
  <2>2. FetchedInv /\ cl'.args = cl.args /\ cl'.fetched = cl.fetched
    BY <1>2 DEF DataInv, Writes
  <2>3. QED
    BY <1>2, <2>1, <2>2 DEF FetchedInv
<1>10. AlarmInv'
  BY <1>1, <1>2 DEF AlarmInv, DataInv
<1>11. QED
  BY <1>4, <1>5, <1>6, <1>7, <1>8, <1>9, <1>10 DEF DataInv

-----------------------------------------------------------------------------
(* The server.                                                             *)

(***************************************************************************)
(* What the server does changes nothing of the call.                       *)
(***************************************************************************)
LEMMA ServerKeeps ==
    ASSUME DataInv, cl' = cl
    PROVE  /\ StatementInv' /\ FetchedInv'
           /\ Session(server') /\ up' \in Seq(PartType) /\ down' \in Seq(PartType)
              /\ server'.seq \in 0..(SeqMod - 1) /\ Kept(server'.buffer)
              /\ server'.alive \in BOOLEAN /\ server'.faults \in Nat => Types'
           /\ \A n : RowPackets(n)' = RowPackets(n)
           /\ Command' = Command
<1>1. /\ \A i : ShownRow(i)' = ShownRow(i)
      /\ \A rows : Opened(rows)' = Opened(rows) /\ Statement(rows)' = Statement(rows)
      /\ \A n : RowPackets(n)' = RowPackets(n)
      /\ Given => Given'
  BY SameRows
<1>2. StatementInv'
  <2>1. Now' = Now
    BY DEF Now
  <2>2. Opened(Now)' = Opened(Now) /\ Statement(Now)' = Statement(Now)
    BY <1>1, <2>1
  <2>3. StatementInv
    BY DEF DataInv
  <2>4. QED
    BY <2>1, <2>2, <2>3 DEF StatementInv
<1>3. FetchedInv'
  BY <1>1 DEF DataInv, FetchedInv
<1>4. ASSUME Session(server'), up' \in Seq(PartType), down' \in Seq(PartType),
             server'.seq \in 0..(SeqMod - 1), Kept(server'.buffer),
             server'.alive \in BOOLEAN, server'.faults \in Nat
      PROVE  Types'
  <2>1. Given' /\ Call(cl)'
    BY <1>1 DEF DataInv, Types
  <2>2. QED
    BY <1>4, <2>1 DEF DataInv, Types
<1>5. Command' = Command
  BY DEF Command
<1>6. QED
  BY <1>1, <1>2, <1>3, <1>4, <1>5

(***************************************************************************)
(* What is on its way to the server.                                       *)
(***************************************************************************)
LEMMA UpArrives ==
    ASSUME DataInv, up # <<>>
    PROVE  /\ down = <<>> /\ cl.buffer = <<>> /\ Inserted = cl.rows
           /\ server.alive /\ ~server.disordered /\ cl.pc \in {"send", "reply", "header"}
           /\ up \in Seq(PartType) /\ Tail(up) \in Seq(PartType)
           /\ server.buffer \in Seq(Int) /\ server.seq \in Nat
           /\ Head(up).data \in PartData /\ Head(up).no = server.seq
           /\ \E rest \in Seq(Int) :
                /\ Leaving(up, server.seq, cl.seq, server.buffer, Command, rest)
                /\ cl.pc = "send" => Left(up, rest, cl.left)
                /\ cl.pc # "send" => Sent(up, rest)
<1>1. /\ down = <<>> /\ cl.buffer = <<>> /\ Inserted = cl.rows
      /\ server.alive /\ ~server.disordered /\ cl.pc \in {"send", "reply", "header"}
  BY DEF DataInv, DownInv, TableInv, UpInv
<1>2. up \in Seq(PartType) /\ server.buffer \in Seq(Int) /\ server.seq \in Nat
  BY Sizes DEF DataInv, Types, Kept
<1>3. PICK rest \in Seq(Int) :
          /\ Leaving(up, server.seq, cl.seq, server.buffer, Command, rest)
          /\ cl.pc = "send" => Left(up, rest, cl.left)
          /\ cl.pc # "send" => Sent(up, rest)
  BY <1>1 DEF DataInv, UpInv
<1>4. InTurn(up, server.seq, cl.seq)
  BY <1>3 DEF Leaving
<1>5. Head(up).no = server.seq /\ Tail(up) \in Seq(PartType)
  BY <1>2, <1>4, InTurnTail
<1>6. Head(up).data \in PartData
  <2>1. Head(up) \in PartType
    <3>1. PICK T : T = PartType
      OBVIOUS
    <3>2. up \in Seq(T)
      BY <1>2, <3>1
    <3>3. Head(up) \in T
      BY <3>2, SeqHead
    <3>4. QED
      BY <3>1, <3>3
  <2>2. QED
    BY <2>1 DEF PartType
<1>7. QED
  BY <1>1, <1>2, <1>3, <1>5, <1>6

(***************************************************************************)
(* A full part is kept.                                                    *)
(***************************************************************************)
LEMMA ReceivePartStep ==
    ASSUME DataInv, ServerReceives, Len(Head(up).data) = MaxPacket
    PROVE  DataInv'
<1>1. up # <<>> /\ up' = Tail(up) /\ cl' = cl
  BY DEF ServerReceives
<1>2. /\ down = <<>> /\ cl.buffer = <<>> /\ Inserted = cl.rows
      /\ server.alive /\ ~server.disordered /\ cl.pc \in {"send", "reply", "header"}
      /\ up \in Seq(PartType) /\ Tail(up) \in Seq(PartType)
      /\ server.buffer \in Seq(Int) /\ server.seq \in Nat
      /\ Head(up).data \in PartData /\ Head(up).no = server.seq
  BY <1>1, UpArrives
<1>3. /\ down' = down
      /\ server' = [server EXCEPT !.buffer = server.buffer \o Head(up).data,
                                  !.seq = (server.seq + 1) % SeqMod]
  BY <1>2 DEF ServerReceives
<1>4. /\ Session(server') /\ server'.buffer = server.buffer \o Head(up).data
      /\ server'.seq = NextNumber(server.seq) /\ server'.table = server.table
      /\ server'.alive = server.alive /\ server'.disordered = server.disordered
      /\ server'.faults = server.faults
  BY <1>3 DEF Session, DataInv, Types, NextNumber
<1>5. PICK rest \in Seq(Int) :
          /\ Leaving(up, server.seq, cl.seq, server.buffer, Command, rest)
          /\ cl.pc = "send" => Left(up, rest, cl.left)
          /\ cl.pc # "send" => Sent(up, rest)
  BY <1>1, UpArrives
<1>6. cl.left \in Seq(Int) /\ Kept(server.buffer)
  BY DEF DataInv, Types
<1>7. PICK later \in Seq(Int) :
         /\ Leaving(Tail(up), NextNumber(server.seq), cl.seq, server.buffer \o Head(up).data,
                    Command, later)
         /\ Sent(up, rest) => Sent(Tail(up), later)
         /\ Left(up, rest, cl.left) => Left(Tail(up), later, cl.left)
  BY <1>1, <1>2, <1>5, <1>6, ReceiveFull
<1>8. cl.pc # "send" => Tail(up) # <<>>
  <2>1. Len(Split(later)) \in Nat /\ Len(Split(later)) >= 1
    BY SplitType
  <2>2. ASSUME cl.pc # "send", Tail(up) = <<>>
        PROVE  FALSE
    <3>1. Sent(Tail(up), later)
      BY <1>5, <1>7, <2>2
    <3>2. Sent(<<>>, later)
      BY <2>2, <3>1
    <3>3. Len(Split(later)) = 0
      BY <3>2 DEF Sent
    <3>4. QED
      BY <2>1, <3>3
  <2>3. QED
    BY <2>2
<1>9. StatementInv' /\ FetchedInv' /\ Command' = Command
  BY <1>1, ServerKeeps
<1>10. Types'
  <2>1. server'.seq \in 0..(SeqMod - 1)
    BY <1>2, <1>4, NextNumbers
  <2>2. Kept(server'.buffer)
    BY <1>2, <1>4, <1>6, KeptParts DEF PartData
  <2>3. up' \in Seq(PartType) /\ down' \in Seq(PartType)
    BY <1>1, <1>2, <1>3 DEF DataInv, Types
  <2>4. server'.alive \in BOOLEAN /\ server'.faults \in Nat
    BY <1>4 DEF DataInv, Types
  <2>5. QED
    BY <1>1, <1>4, <2>1, <2>2, <2>3, <2>4, ServerKeeps
<1>11. TableInv'
  <2>1. server.table = RowsOf(1, Inserted) /\ Inserted' = Inserted
    BY <1>4 DEF DataInv, TableInv, Inserted
  <2>2. QED
    BY <1>1, <1>2, <1>4, <2>1 DEF TableInv
<1>12. UpInv'
  <2>1. Leaving(up', server'.seq, cl'.seq, server'.buffer, Command', later)
    BY <1>1, <1>4, <1>7, <1>9
  <2>2. cl'.pc = "send" => Left(up', later, cl'.left)
    BY <1>1, <1>5, <1>7
  <2>3. cl'.pc # "send" => Sent(up', later)
    BY <1>1, <1>5, <1>7
  <2>4. ~server'.disordered /\ server'.alive /\ cl'.pc \in {"send", "reply", "header"}
    BY <1>1, <1>2, <1>4
  <2>5. QED
    BY <1>1, <1>8, <2>1, <2>2, <2>3, <2>4 DEF UpInv
<1>13. DownInv'
  <2>1. cl'.pc \in Reading => up' # <<>>
    BY <1>1, <1>8 DEF Reading
  <2>2. down' = <<>> /\ cl'.buffer = <<>>
    BY <1>1, <1>2, <1>3
  <2>3. QED
    BY <2>1, <2>2 DEF DownInv
<1>14. AlarmInv'
  BY <1>1, <1>4 DEF AlarmInv, DataInv
<1>15. QED
  BY <1>9, <1>10, <1>11, <1>12, <1>13, <1>14 DEF DataInv

(***************************************************************************)
(* The last part of a command: what the server has is the command, and the *)
(* client waits for the reply.                                             *)
(***************************************************************************)
LEMMA CommandArrives ==
    ASSUME DataInv, up # <<>>, Len(Head(up).data) # MaxPacket
    PROVE  /\ server.buffer \o Head(up).data = Command /\ Tail(up) = <<>>
           /\ cl.seq = NextNumber(server.seq) /\ cl.pc \in {"reply", "header"}
<1>1. /\ cl.pc \in {"send", "reply", "header"}
      /\ up \in Seq(PartType) /\ server.buffer \in Seq(Int)
  BY UpArrives
<1>2. PICK rest \in Seq(Int) :
          /\ Leaving(up, server.seq, cl.seq, server.buffer, Command, rest)
          /\ cl.pc = "send" => Left(up, rest, cl.left)
  BY UpArrives
<1>3. cl.left \in Seq(Int)
  BY DEF DataInv, Types
<1>4. /\ server.buffer \o Head(up).data = Command /\ Tail(up) = <<>>
      /\ cl.seq = NextNumber(server.seq) /\ ~Left(up, rest, cl.left)
  BY <1>1, <1>2, <1>3, ReceiveShort
<1>5. QED
  BY <1>1, <1>2, <1>4

(***************************************************************************)
(* A reply to it goes on its way whole.                                    *)
(***************************************************************************)
LEMMA ReplyBegins ==
    ASSUME NEW packets \in Seq(Seq(Int)), packets # <<>>, NEW no \in Nat
    PROVE  /\ Numbered(Flow(packets), no + 1) \in Seq(PartType)
           /\ packets[1] \in Seq(Int)
           /\ Arriving(Numbered(Flow(packets), no + 1), NextNumber(no), <<>>, packets, packets[1])
           /\ Complete(Numbered(Flow(packets), no + 1), packets, packets[1])
<1>1. packets[1] \in Seq(Int) /\ Flow(packets) = Coming(packets, packets[1])
  BY Flows
<1>2. PICK f \in Seq(PartData) : f = Flow(packets)
  BY Flows
<1>3. PICK n \in Nat : n = no + 1
  OBVIOUS
<1>4. PICK d : d = Numbered(f, n)
  OBVIOUS
<1>5. /\ d \in Seq(PartType) /\ Len(d) = Len(f)
      /\ \A i \in 1..Len(f) : d[i].data = f[i]
      /\ \E next : InTurn(d, n % SeqMod, next)
  BY <1>4, NumberedInTurn
<1>6. n % SeqMod = NextNumber(no)
  BY <1>3 DEF NextNumber
<1>7. Bring(d, f)
  <2>1. Len(f) \in Nat
    BY <1>2
  <2>2. Len(d) <= Len(f)
    BY <1>5, <2>1
  <2>3. QED
    BY <1>5, <2>2 DEF Bring
<1>8. <<>> \o packets[1] = packets[1]
  <2>1. PICK p \in Seq(Int) : p = packets[1]
    BY <1>1
  <2>2. <<>> \o p = p
    OBVIOUS
  <2>3. QED
    BY <2>1, <2>2
<1>9. Arriving(d, NextNumber(no), <<>>, packets, packets[1])
  BY <1>1, <1>2, <1>5, <1>6, <1>7, <1>8 DEF Arriving
<1>10. Complete(d, packets, packets[1])
  BY <1>1, <1>2, <1>5 DEF Complete
<1>11. QED
  BY <1>1, <1>2, <1>3, <1>4, <1>5, <1>9, <1>10

(***************************************************************************)
(* After any reply the server has nothing of a command, and the client all *)
(* that it is owed on its way.                                             *)
(***************************************************************************)
LEMMA Replied ==
    ASSUME DataInv, cl' = cl, up' = <<>>, up # <<>>, Len(Head(up).data) # MaxPacket,
           Session(server'), server'.buffer = <<>>, server'.seq = 0,
           server'.disordered = server.disordered, server'.alive = server.alive,
           server'.faults \in Nat, server'.faults >= server.faults,
           TableInv', NEW packets \in Seq(Seq(Int)), packets # <<>>, Owed(packets)',
           down' = Numbered(Flow(packets), server.seq + 1)
    PROVE  DataInv'
<1>1. StatementInv' /\ FetchedInv'
  BY ServerKeeps
<1>2. /\ server.alive /\ ~server.disordered /\ cl.buffer = <<>> /\ server.seq \in Nat
      /\ cl.seq = NextNumber(server.seq) /\ cl.pc \in {"reply", "header"}
  BY UpArrives, CommandArrives
<1>3. /\ down' \in Seq(PartType) /\ packets[1] \in Seq(Int)
      /\ Arriving(down', NextNumber(server.seq), <<>>, packets, packets[1])
      /\ Complete(down', packets, packets[1])
  BY <1>2, ReplyBegins
<1>4. Types'
  <2>1. server'.seq \in 0..(SeqMod - 1)
    BY Sizes
  <2>2. Kept(server'.buffer) /\ server'.alive \in BOOLEAN
    BY KeptParts DEF DataInv, Types
  <2>3. up' \in Seq(PartType)
    OBVIOUS
  <2>4. QED
    BY <1>3, <2>1, <2>2, <2>3, ServerKeeps
<1>5. UpInv'
  BY <1>2 DEF UpInv
<1>6. DownInv'
  <2>1. /\ Arriving(down', cl'.seq, cl'.buffer, packets, packets[1])
        /\ server'.alive => Complete(down', packets, packets[1])
    BY <1>2, <1>3
  <2>2. cl'.pc \notin {"fill", "send"}
    BY <1>2
  <2>3. QED
    BY <1>3, <2>1, <2>2 DEF DownInv
<1>7. AlarmInv'
  <2>1. cl'.pc \notin {"sequence wrong", "no EOF", "refused", "lost"} /\ server'.alive
    BY <1>2
  <2>2. QED
    BY <2>1 DEF AlarmInv
<1>8. QED
  BY <1>1, <1>4, <1>5, <1>6, <1>7 DEF DataInv

(***************************************************************************)
(* A reply of one packet.                                                  *)
(***************************************************************************)
LEMMA OnePacket ==
    ASSUME NEW p \in Seq(Int)
    PROVE  /\ <<p>> \in Seq(Seq(Int)) /\ <<p>> # <<>>
           /\ Len(p) < MaxPacket => Flow(<<p>>) = <<p>>
<1>1. PICK A : A = Seq(Int)
  OBVIOUS
<1>2. PICK s : s = <<p>>
  OBVIOUS
<1>3. s \in Seq(A) /\ s # <<>> /\ Tail(s) = <<>> /\ s[1] = p
  BY <1>1, <1>2
<1>4. ASSUME Len(p) < MaxPacket
      PROVE  Flow(s) = <<p>>
  <2>1. Flow(s) = Coming(s, s[1]) /\ Flow(<<>>) = <<>>
    BY <1>1, <1>3, Flows
  <2>2. Split(p) = <<p>>
    BY <1>4, SplitShort
  <2>3. Coming(s, s[1]) = s \o <<>>
    BY <1>2, <1>3, <2>1, <2>2 DEF Coming
  <2>4. s \o <<>> = s
    BY <1>3
  <2>5. QED
    BY <1>2, <2>1, <2>3, <2>4
<1>5. QED
  BY <1>1, <1>2, <1>3, <1>4

(***************************************************************************)
(* What the server executes when the client waits for an acknowledgement.  *)
(***************************************************************************)
LEMMA StatementArrives ==
    ASSUME DataInv, cl.pc = "reply"
    PROVE  /\ Command # <<CMD, SELECT>> /\ Tail(Command) = cl.sql
           /\ RowsIn(cl.sql) = Now /\ cl.sql = Statement(Now)
           /\ Now \in Seq(Nat) /\ Len(Now) = cl.next - 1 - cl.rows /\ Len(Now) > 0
           /\ RowsOf(1, cl.rows) \o Now = RowsOf(1, cl.next - 1)
           /\ cl.rows \in Nat /\ cl.next \in Nat /\ Len(Now) \in Nat
<1>1. /\ cl.sql # <<>> /\ cl.sql \in Seq(Int) /\ cl.rows + 1 < cl.next
      /\ RowsIn(cl.sql) = Now /\ cl.sql = Statement(Now)
  BY DEF DataInv, StatementInv, Types
<1>2. cl.rows \in Nat /\ cl.next \in Nat
  <2>1. Len(cl.args) \in Nat
    BY GivenRows DEF DataInv, Types
  <2>2. QED
    BY <2>1 DEF DataInv, Types
<1>3. PICK r \in Nat, b \in Nat : r = cl.rows /\ b = cl.next - 1 /\ r + 1 <= b
  BY <1>1, <1>2
<1>4. /\ Now \in Seq(Nat) /\ Len(Now) = cl.next - 1 - cl.rows /\ Len(Now) > 0
      /\ Len(Now) \in Nat
  <2>1. PICK a \in Nat : a = r + 1 /\ a <= b + 1 /\ b - a + 1 = b - r /\ b - r > 0
    BY <1>3
  <2>2. RowsOf(a, b) \in Seq(Nat) /\ Len(RowsOf(a, b)) = b - a + 1
    BY <2>1, RowsOnEnd
  <2>3. Now = RowsOf(a, b)
    BY <1>3, <2>1 DEF Now
  <2>4. QED
    BY <1>3, <2>1, <2>2, <2>3
<1>5. RowsOf(1, cl.rows) \o Now = RowsOf(1, cl.next - 1)
  <2>1. 1 <= r + 1 /\ r <= b /\ 1 \in Nat
    BY <1>3
  <2>2. RowsOf(1, r) \o RowsOf(r + 1, b) = RowsOf(1, b)
    BY <2>1, RowsJoined
  <2>3. QED
    BY <1>3, <2>2 DEF Now
<1>6. PICK c : c = Command
  OBVIOUS
<1>7. PICK d \in Int : d = CMD
  BY DEF CMD
<1>8. PICK s \in Seq(Int) : s = cl.sql /\ s # <<>>
  BY <1>1
<1>9. c = <<d>> \o s
  BY <1>6, <1>7, <1>8 DEF Command
<1>10. Tail(c) = s
  BY <1>9, Cons
<1>11. c # <<CMD, SELECT>>
  <2>1. SUFFICES ASSUME c = <<CMD, SELECT>>
                 PROVE  FALSE
    OBVIOUS
  <2>2. PICK e \in Int : e = SELECT /\ ~(e > 0)
    BY DEF SELECT
  <2>3. Tail(<<d, e>>) = <<e>>
    OBVIOUS
  <2>4. s = <<e>>
    BY <1>7, <1>10, <2>1, <2>2, <2>3
  <2>5. RowsIn(<<>>) = <<>> /\ RowsIn(Append(<<>>, e)) = RowsIn(<<>>)
    <3>0. <<>> \in Seq(Int)
      OBVIOUS
    <3>1. PICK z \in Seq(Int) : z = <<>>
      BY <3>0
    <3>2. QED
      BY <2>2, <3>1, RowsInAppend
  <2>6. Append(<<>>, e) = <<e>>
    OBVIOUS
  <2>7. Now = <<>>
    BY <1>1, <1>8, <2>4, <2>5, <2>6
  <2>8. QED
    BY <1>4, <2>7
<1>12. QED
  BY <1>1, <1>2, <1>4, <1>5, <1>6, <1>8, <1>10, <1>11

\* What ServerExecutes leaves in the session, apart from the table.
Answers(table) == server' = [server EXCEPT !.table = table, !.buffer = <<>>, !.seq = 0]

(***************************************************************************)
(* A session after an answer.                                              *)
(***************************************************************************)
LEMMA AnsweredSession ==
    ASSUME DataInv, NEW table, Answers(table)
    PROVE  /\ Session(server') /\ server'.buffer = <<>> /\ server'.seq = 0
           /\ server'.disordered = server.disordered /\ server'.alive = server.alive
           /\ server'.faults = server.faults /\ server'.faults \in Nat
           /\ server'.faults >= server.faults /\ server'.table = table
<1>1. /\ Session(server') /\ server'.buffer = <<>> /\ server'.seq = 0
      /\ server'.disordered = server.disordered /\ server'.alive = server.alive
      /\ server'.faults = server.faults /\ server'.table = table
  BY DEF Answers, DataInv, Types, Session
<1>2. server.faults \in Nat
  BY DEF DataInv, Types
<1>3. QED
  BY <1>1, <1>2

(***************************************************************************)
(* A statement is executed, and its rows are acknowledged.                 *)
(***************************************************************************)
LEMMA ReceiveStatementStep ==
    ASSUME DataInv, ServerReceives, Len(Head(up).data) # MaxPacket, cl.pc = "reply"
    PROVE  /\ DataInv'
           /\ server'.table = server.table \o Now /\ Now # <<>>
           /\ Inserted = cl.rows /\ server'.table = RowsOf(1, cl.next - 1)
<1>1. up # <<>> /\ up' = Tail(up) /\ cl' = cl
  BY DEF ServerReceives
<1>2. /\ server.buffer \o Head(up).data = Command /\ Tail(up) = <<>>
  BY <1>1, CommandArrives
<1>3. Head(up).no = server.seq /\ down = <<>> /\ Inserted = cl.rows /\ server.seq \in Nat
  BY <1>1, UpArrives
<1>4. ServerExecutes(Command, server.seq + 1)
  BY <1>2, <1>3 DEF ServerReceives
<1>5. /\ Command # <<CMD, SELECT>> /\ Tail(Command) = cl.sql
      /\ RowsIn(cl.sql) = Now /\ cl.sql = Statement(Now)
      /\ Now \in Seq(Nat) /\ Len(Now) = cl.next - 1 - cl.rows /\ Len(Now) > 0
      /\ RowsOf(1, cl.rows) \o Now = RowsOf(1, cl.next - 1)
      /\ cl.rows \in Nat /\ cl.next \in Nat /\ Len(Now) \in Nat
  BY StatementArrives
<1>6. PICK p \in Seq(Int) : p = OkPacket(Len(Now)) /\ Len(p) < MaxPacket
  <2>1. PICK n \in Nat : n = Len(Now)
    BY <1>5
  <2>2. OkPacket(n) \in Seq(Int)
    BY PacketKinds
  <2>3. Len(OkPacket(n)) = 7
    BY DEF OkPacket
  <2>4. Len(OkPacket(n)) < MaxPacket
    BY <2>3, Sizes
  <2>5. QED
    BY <2>1, <2>2, <2>4
<1>7. Replies(<<p>>, server.table \o Now, server.seq + 1)
  BY <1>4, <1>5, <1>6 DEF ServerExecutes
<1>8. Answers(server.table \o Now) /\ down' = down \o Numbered(Flow(<<p>>), server.seq + 1)
  BY <1>7 DEF Replies, Answers, Flow
<1>9. PICK w : w = <<p>>
  OBVIOUS
<1>10. w \in Seq(Seq(Int)) /\ w # <<>>
  BY <1>9, OnePacket
<1>11. down' = Numbered(Flow(w), server.seq + 1)
  <2>1. Numbered(Flow(w), server.seq + 1) \in Seq(PartType)
    BY <1>3, <1>10, ReplyBegins
  <2>2. PICK d \in Seq(PartType) : d = Numbered(Flow(w), server.seq + 1)
    BY <2>1
  <2>3. <<>> \o d = d
    <3>1. PICK T : T = PartType
      OBVIOUS
    <3>2. d \in Seq(T)
      BY <3>1
    <3>3. QED
      BY <3>2
  <2>4. QED
    BY <1>3, <1>8, <1>9, <2>2, <2>3
<1>12. server'.table = server.table \o Now /\ server'.table = RowsOf(1, cl.next - 1)
  <2>1. server'.table = server.table \o Now
    BY <1>8, AnsweredSession
  <2>2. server.table = RowsOf(1, cl.rows)
    BY <1>3 DEF DataInv, TableInv
  <2>3. QED
    BY <1>5, <2>1, <2>2
<1>13. Inserted' = cl.next - 1 /\ Inserted' # cl.rows /\ Inserted' - cl.rows = Len(Now)
  <2>1. PICK b \in Nat : b = cl.next - 1 /\ 1 <= b + 1
    BY <1>5
  <2>2. Len(RowsOf(1, b)) = b - 1 + 1 /\ b - 1 + 1 = b
    <3>1. 1 \in Nat /\ b - 1 + 1 = b
      OBVIOUS
    <3>2. QED
      BY <2>1, <3>1, RowsOnEnd
  <2>3. Inserted' = b
    BY <1>12, <2>1, <2>2 DEF Inserted
  <2>4. QED
    BY <1>5, <2>1, <2>3
<1>14. TableInv'
  <2>1. up' = <<>> /\ cl'.pc = "reply" /\ cl'.next = cl.next
    BY <1>1, <1>2
  <2>2. server'.table = RowsOf(1, Inserted')
    BY <1>12, <1>13
  <2>3. QED
    BY <1>13, <2>1, <2>2 DEF TableInv
<1>15. Owed(w)'
  <2>1. w = <<OkPacket(Inserted' - cl'.rows)>>
    BY <1>1, <1>6, <1>9, <1>13
  <2>2. cl'.pc = "reply" /\ Inserted' # cl'.rows
    BY <1>1, <1>13
  <2>3. QED
    BY <2>1, <2>2 DEF Owed
<1>16. DataInv'
  <2>1. up' = <<>>
    BY <1>1, <1>2
  <2>2. /\ Session(server') /\ server'.buffer = <<>> /\ server'.seq = 0
        /\ server'.disordered = server.disordered /\ server'.alive = server.alive
        /\ server'.faults \in Nat /\ server'.faults >= server.faults
    BY <1>8, AnsweredSession
  <2>3. QED
    BY <1>1, <1>10, <1>11, <1>14, <1>15, <2>1, <2>2, Replied
<1>17. Now # <<>>
  BY <1>5
<1>18. QED
  BY <1>3, <1>12, <1>16, <1>17

(***************************************************************************)
(* It does not matter which of any three are put together first.           *)
(***************************************************************************)
LEMMA ConcatAny ==
    ASSUME NEW A
    PROVE  \A s, t, u \in Seq(A) : (s \o t) \o u = s \o (t \o u)
BY ConcatAssociative

(***************************************************************************)
(* So for what is joined.                                                  *)
(***************************************************************************)
LEMMA JoinedAny ==
    \E Q : /\ Q = Seq(Seq(Int))
           /\ \A s, t \in Q : Joined(s, t) \in Q
           /\ \A s, t, u \in Q : Joined(Joined(s, t), u) = Joined(s, Joined(t, u))
<1>0. PICK A : A = Seq(Int)
  OBVIOUS
<1>1. \A s, t \in Seq(A) : Joined(s, t) \in Seq(A)
  BY DEF Joined
<1>2. \A s, t, u \in Seq(A) : Joined(Joined(s, t), u) = Joined(s, Joined(t, u))
  BY ConcatAny DEF Joined
<1>3. QED
  BY <1>0, <1>1, <1>2

\* What the server sends of a query.
Result ==
    <<LenencInt(Columns)>> \o Repeat(FieldPacket, Columns) \o <<EofPacket>>
    \o [k \in DOMAIN server.table |-> ServerRow(server.table[k])]
    \o <<EofPacket>>

(***************************************************************************)
(* It is what the client is owed.                                          *)
(***************************************************************************)
LEMMA ResultPackets ==
    ASSUME DataInv, Inserted = Len(cl.args)
    PROVE  /\ Result = Joined(<<LenencInt(Columns)>>, Joined(FieldPackets(Columns), RowPackets(0)))
           /\ Result \in Seq(Seq(Int)) /\ Result # <<>>
<1>1. PICK A : A = Seq(Int)
  OBVIOUS
<1>18. PICK Q : /\ Q = Seq(Seq(Int))
                /\ \A s, t \in Q : Joined(s, t) \in Q
                /\ \A s, t, u \in Q : Joined(Joined(s, t), u) = Joined(s, Joined(t, u))
  BY JoinedAny
<1>2. PICK e \in A : e = EofPacket
  BY <1>1, PacketKinds
<1>3. PICK f \in A : f = FieldPacket
  BY <1>1, PacketKinds
<1>4. PICK h \in A : h = LenencInt(Columns)
  <2>1. LenencInt(Columns) \in Seq(Int)
    BY NumberWritten, Sizes
  <2>2. QED
    BY <1>1, <2>1
<1>5. Given /\ Len(cl.args) \in Nat
  BY GivenRows DEF DataInv, Types
<1>6. PICK l \in Nat : l = Len(cl.args)
  BY <1>5
<1>7. [k \in DOMAIN server.table |-> ServerRow(server.table[k])]
        = [k \in 1..(l - 0) |-> ServerRow(0 + k)]
  <2>1. server.table = RowsOf(1, l)
    BY <1>6 DEF DataInv, TableInv
  <2>2. 1 \in Nat /\ 1 <= l + 1 /\ l - 1 + 1 = l /\ l - 0 = l
    BY <1>6
  <2>3. DOMAIN RowsOf(1, l) = 1..l /\ \A k \in 1..l : RowsOf(1, l)[k] = 1 + k - 1
    BY <2>2, RowsOnEnd
  <2>4. \A k \in 1..l : RowsOf(1, l)[k] = 0 + k
    BY <2>3
  <2>5. QED
    BY <2>1, <2>2, <2>3, <2>4
<1>8. PICK r : r = [k \in 1..(l - 0) |-> ServerRow(0 + k)]
  OBVIOUS
<1>9. r \in Seq(A)
  <2>1. l - 0 = l /\ \A k \in 1..l : 0 + k = k
    OBVIOUS
  <2>2. \A k \in 1..l : ServerRow(k) \in A
    BY <1>1, <1>5, <1>6, RowComesBack
  <2>3. QED
    BY <1>8, <2>1, <2>2
<1>10. PICK g \in Seq(A) : g = Repeat(f, Columns)
  BY Repeated, Sizes
<1>11. PICK H \in Seq(A), E \in Seq(A) : H = <<h>> /\ E = <<e>>
  <2>1. <<h>> \in Seq(A) /\ <<e>> \in Seq(A)
    OBVIOUS
  <2>2. QED
    BY <2>1
<1>12. Result = Joined(Joined(Joined(Joined(H, g), E), r), E)
  BY <1>2, <1>3, <1>4, <1>7, <1>8, <1>10, <1>11 DEF Result, Joined
<1>13. FieldPackets(Columns) = Joined(g, E) /\ RowPackets(0) = Joined(r, E)
  BY <1>2, <1>3, <1>6, <1>8, <1>10, <1>11 DEF FieldPackets, RowPackets, Joined
<1>14. Joined(Joined(Joined(Joined(H, g), E), r), E) = Joined(H, Joined(Joined(g, E), Joined(r, E)))
  <2>1. H \in Q /\ g \in Q /\ E \in Q /\ r \in Q
    BY <1>1, <1>9, <1>18
  <2>2. PICK gE \in Q, rE \in Q : gE = Joined(g, E) /\ rE = Joined(r, E)
    BY <1>18, <2>1
  <2>3. Joined(Joined(H, g), E) = Joined(H, gE)
    BY <1>18, <2>1, <2>2
  <2>4. PICK s \in Q : s = Joined(H, gE)
    BY <1>18, <2>1
  <2>5. Joined(Joined(s, r), E) = Joined(s, rE)
    BY <1>18, <2>1, <2>2
  <2>6. Joined(s, rE) = Joined(H, Joined(gE, rE))
    BY <1>18, <2>1, <2>4
  <2>7. QED
    BY <2>2, <2>3, <2>4, <2>5, <2>6
<1>15. Result = Joined(<<LenencInt(Columns)>>, Joined(FieldPackets(Columns), RowPackets(0)))
  BY <1>4, <1>11, <1>12, <1>13, <1>14
<1>16. Joined(FieldPackets(Columns), RowPackets(0)) \in Seq(Seq(Int))
  <2>1. 0 \in 0..Len(cl.args)
    BY <1>5
  <2>2. RowPackets(0) \in Seq(Seq(Int))
    BY <1>5, <2>1, RowPacketList
  <2>3. QED
    BY <2>2, FieldPacketList, Sizes
<1>17. QED
  BY <1>15, <1>16, HeaderPacketList

(***************************************************************************)
(* The query is executed.                                                  *)
(***************************************************************************)
LEMMA ReceiveQueryStep ==
    ASSUME DataInv, ServerReceives, Len(Head(up).data) # MaxPacket, cl.pc = "header"
    PROVE  DataInv' /\ server'.table = server.table
<1>1. up # <<>> /\ up' = Tail(up) /\ cl' = cl
  BY DEF ServerReceives
<1>2. server.buffer \o Head(up).data = Command /\ Tail(up) = <<>>
  BY <1>1, CommandArrives
<1>3. Head(up).no = server.seq /\ down = <<>> /\ Inserted = cl.rows /\ server.seq \in Nat
  BY <1>1, UpArrives
<1>4. ServerExecutes(Command, server.seq + 1)
  BY <1>2, <1>3 DEF ServerReceives
<1>5. Command = <<CMD, SELECT>> /\ Inserted = Len(cl.args)
  <2>1. cl.sql = <<>> /\ cl.rows + 1 = cl.next /\ cl.next = Len(cl.args) + 1
    BY DEF DataInv, StatementInv
  <2>2. Len(cl.args) \in Nat
    BY GivenRows DEF DataInv, Types
  <2>3. cl.rows \in Nat
    BY <2>2 DEF DataInv, Types
  <2>4. QED
    BY <1>3, <2>1, <2>2, <2>3 DEF Command
<1>6. PICK w : w = Result
  OBVIOUS
<1>7. /\ w = Joined(<<LenencInt(Columns)>>, Joined(FieldPackets(Columns), RowPackets(0)))
      /\ w \in Seq(Seq(Int)) /\ w # <<>>
  BY <1>5, <1>6, ResultPackets
<1>8. Replies(w, server.table, server.seq + 1)
  BY <1>4, <1>5, <1>6 DEF ServerExecutes, Result
<1>9. Answers(server.table) /\ down' = down \o Numbered(Flow(w), server.seq + 1)
  BY <1>8 DEF Replies, Answers, Flow
<1>10. down' = Numbered(Flow(w), server.seq + 1)
  <2>1. Numbered(Flow(w), server.seq + 1) \in Seq(PartType)
    BY <1>3, <1>7, ReplyBegins
  <2>2. PICK d \in Seq(PartType) : d = Numbered(Flow(w), server.seq + 1)
    BY <2>1
  <2>3. <<>> \o d = d
    <3>1. PICK T : T = PartType
      OBVIOUS
    <3>2. d \in Seq(T)
      BY <3>1
    <3>3. QED
      BY <3>2
  <2>4. QED
    BY <1>3, <1>9, <2>2, <2>3
<1>11. server'.table = server.table
  BY <1>9, AnsweredSession
<1>12. TableInv'
  <2>1. server.table = RowsOf(1, Inserted) /\ Inserted' = Inserted
    BY <1>11 DEF DataInv, TableInv, Inserted
  <2>2. QED
    BY <1>1, <1>3, <1>11, <2>1 DEF TableInv
<1>13. Owed(w)'
  <2>1. RowPackets(0)' = RowPackets(0)
    BY <1>1, ServerKeeps
  <2>2. QED
    BY <1>1, <1>7, <2>1 DEF Owed
<1>14. DataInv'
  <2>1. up' = <<>>
    BY <1>1, <1>2
  <2>2. /\ Session(server') /\ server'.buffer = <<>> /\ server'.seq = 0
        /\ server'.disordered = server.disordered /\ server'.alive = server.alive
        /\ server'.faults \in Nat /\ server'.faults >= server.faults
    BY <1>9, AnsweredSession
  <2>3. QED
    BY <1>1, <1>7, <1>10, <1>12, <1>13, <2>1, <2>2, Replied
<1>15. QED
  BY <1>11, <1>14

(***************************************************************************)
(* A command is received: a part of it, or all of it.                      *)
(***************************************************************************)
LEMMA ReceiveStep ==
    ASSUME DataInv, ServerReceives
    PROVE  DataInv'
<1>1. up # <<>>
  BY DEF ServerReceives
<1>2. CASE Len(Head(up).data) = MaxPacket
  BY <1>2, ReceivePartStep
<1>3. CASE Len(Head(up).data) # MaxPacket
  <2>1. cl.pc \in {"reply", "header"}
    BY <1>1, <1>3, CommandArrives
  <2>2. QED
    BY <1>3, <2>1, ReceiveStatementStep, ReceiveQueryStep
<1>4. QED
  BY <1>2, <1>3

(***************************************************************************)
(* A command is refused.                                                   *)
(***************************************************************************)
LEMMA RefuseStep ==
    ASSUME DataInv, ServerRefuses
    PROVE  DataInv'
<1>1. /\ up # <<>> /\ up' = Tail(up) /\ cl' = cl /\ Len(Head(up).data) < MaxPacket
      /\ down' = Append(down, Part((server.seq + 1) % SeqMod, ErrPacket))
      /\ server' = [server EXCEPT !.faults = server.faults + 1, !.buffer = <<>>, !.seq = 0]
  BY DEF ServerRefuses
<1>2. Len(Head(up).data) # MaxPacket
  <2>1. Head(up).data \in Seq(Int)
    BY <1>1, UpArrives DEF PartData
  <2>2. Len(Head(up).data) \in Nat
    BY <2>1
  <2>3. QED
    BY <1>1, <2>2, Sizes
<1>3. Tail(up) = <<>> /\ cl.pc \in {"reply", "header"}
  BY <1>1, <1>2, CommandArrives
<1>4. down = <<>> /\ Inserted = cl.rows /\ server.seq \in Nat
  BY <1>1, UpArrives
<1>5. server.faults \in Nat
  BY DEF DataInv, Types
<1>6. /\ Session(server') /\ server'.buffer = <<>> /\ server'.seq = 0
      /\ server'.disordered = server.disordered /\ server'.alive = server.alive
      /\ server'.faults = server.faults + 1 /\ server'.table = server.table
  BY <1>1 DEF DataInv, Types, Session
<1>7. PICK e \in Seq(Int) : e = ErrPacket /\ Len(e) < MaxPacket
  <2>1. Len(ErrPacket) = 9
    BY DEF ErrPacket
  <2>2. Len(ErrPacket) < MaxPacket
    BY <2>1, Sizes
  <2>3. QED
    BY <2>2, PacketKinds
<1>8. PICK w : w = <<e>>
  OBVIOUS
<1>9. w \in Seq(Seq(Int)) /\ w # <<>> /\ Flow(w) = w
  BY <1>7, <1>8, OnePacket
<1>10. down' = Numbered(Flow(w), server.seq + 1)
  <2>1. PICK n \in Nat : n = server.seq + 1
    BY <1>4
  <2>2. DOMAIN w = 1..1 /\ w[1] = e
    BY <1>8
  <2>3. Numbered(w, n) = [k \in 1..1 |-> Part((n + k - 1) % SeqMod, w[k])]
    BY <2>2 DEF Numbered
  <2>4. PICK x : x = Part(n % SeqMod, e)
    OBVIOUS
  <2>5. n + 1 - 1 = n
    OBVIOUS
  <2>6. \A k \in 1..1 : Part((n + k - 1) % SeqMod, w[k]) = x
    <3>1. \A k \in 1..1 : k = 1
      OBVIOUS
    <3>2. Part((n + 1 - 1) % SeqMod, w[1]) = x
      BY <2>2, <2>4, <2>5
    <3>3. QED
      BY <3>1, <3>2
  <2>7. Numbered(w, n) = [k \in 1..1 |-> x]
    BY <2>3, <2>6
  <2>8. [k \in 1..1 |-> x] = <<x>>
    OBVIOUS
  <2>9. Append(<<>>, x) = <<x>>
    OBVIOUS
  <2>10. QED
    BY <1>1, <1>4, <1>7, <1>9, <2>1, <2>4, <2>7, <2>8, <2>9
<1>11. TableInv'
  <2>1. server.table = RowsOf(1, Inserted) /\ Inserted' = Inserted
    BY <1>6 DEF DataInv, TableInv, Inserted
  <2>2. QED
    BY <1>1, <1>4, <1>6, <2>1 DEF TableInv
<1>12. Owed(w)'
  <2>1. Refusal(w)'
    BY <1>5, <1>6, <1>7, <1>8 DEF Refusal
  <2>2. Inserted' = cl'.rows
    BY <1>1, <1>4, <1>6 DEF Inserted
  <2>3. cl'.pc \in {"reply", "header"}
    BY <1>1, <1>3
  <2>4. QED
    BY <2>1, <2>2, <2>3 DEF Owed
<1>13. up' = <<>> /\ server'.faults \in Nat /\ server'.faults >= server.faults
  BY <1>1, <1>3, <1>5, <1>6
<1>14. QED
  BY <1>1, <1>2, <1>6, <1>9, <1>10, <1>11, <1>12, <1>13, Replied

(***************************************************************************)
(* The connection is lost, with some of what was on its way.               *)
(***************************************************************************)
LEMMA LostStep ==
    ASSUME DataInv, ConnectionLost
    PROVE  DataInv'
<1>1. /\ server.alive /\ up' = <<>> /\ cl' = cl
      /\ server' = [server EXCEPT !.alive = FALSE, !.faults = server.faults + 1]
      /\ \E k \in 0..Len(down) : down' = SubSeq(down, 1, k)
  BY DEF ConnectionLost
<1>2. server.faults \in Nat /\ down \in Seq(PartType) /\ cl.seq \in 0..(SeqMod - 1)
  BY DEF DataInv, Types
<1>3. /\ Session(server') /\ server'.buffer = server.buffer /\ server'.seq = server.seq
      /\ server'.disordered = server.disordered /\ server'.alive = FALSE
      /\ server'.faults = server.faults + 1 /\ server'.table = server.table
  BY <1>1 DEF DataInv, Types, Session
<1>4. server'.faults \in Nat /\ server'.faults > 0
  BY <1>2, <1>3
<1>5. PICK k \in 0..Len(down) : down' = SubSeq(down, 1, k)
  BY <1>1
<1>6. down' \in Seq(PartType)
  <2>1. PICK T : T = PartType
    OBVIOUS
  <2>2. down \in Seq(T)
    BY <1>2, <2>1
  <2>3. SubSeq(down, 1, k) \in Seq(T)
    BY <2>2
  <2>4. QED
    BY <1>5, <2>1, <2>3
<1>7. down = <<>> => down' = <<>>
  <2>1. ASSUME down = <<>>
        PROVE  k = 0
    BY <2>1
  <2>2. SubSeq(<<>>, 1, 0) = <<>>
    OBVIOUS
  <2>3. QED
    BY <1>5, <2>1, <2>2
<1>8. StatementInv' /\ FetchedInv' /\ \A n : RowPackets(n)' = RowPackets(n)
  BY <1>1, ServerKeeps
<1>9. Types'
  <2>1. server'.seq \in 0..(SeqMod - 1) /\ Kept(server'.buffer) /\ server'.alive \in BOOLEAN
    BY <1>3 DEF DataInv, Types
  <2>2. up' \in Seq(PartType)
    BY <1>1
  <2>3. QED
    BY <1>1, <1>3, <1>4, <1>6, <2>1, <2>2, ServerKeeps
<1>10. Inserted' = Inserted
  BY <1>3 DEF Inserted
<1>11. TableInv'
  BY <1>1, <1>3, <1>10 DEF DataInv, TableInv
<1>12. UpInv'
  BY <1>1, <1>3 DEF DataInv, UpInv
<1>13. DownInv'
  <2>1. ASSUME cl.pc \in {"fill", "send"}
        PROVE  down' = <<>> /\ cl.buffer = <<>>
    BY <1>7, <2>1 DEF DataInv, DownInv
  <2>2. ASSUME cl.pc \in Reading, up = <<>>
        PROVE  \E packets \in Seq(Seq(Int)) : \E rest \in Seq(Int) :
                 Owed(packets)' /\ Arriving(down', cl.seq, cl.buffer, packets, rest)
    <3>1. PICK packets \in Seq(Seq(Int)), rest \in Seq(Int) :
             Owed(packets) /\ Arriving(down, cl.seq, cl.buffer, packets, rest)
      BY <2>2 DEF DataInv, DownInv
    <3>2. PICK next : InTurn(down, cl.seq, next)
      BY <3>1 DEF Arriving
    <3>3. \E n : InTurn(down', cl.seq, n)
      BY <1>2, <1>5, <3>2, InTurnFront
    <3>4. Bring(down', Coming(packets, rest))
      <4>1. Bring(down, Coming(packets, rest))
        BY <3>1 DEF Arriving
      <4>2. PICK c : c = Coming(packets, rest)
        OBVIOUS
      <4>3. PICK l \in Nat : l = Len(down)
        BY <1>2
      <4>4. l <= Len(c) /\ \A i \in 1..l : down[i].data = c[i]
        BY <4>1, <4>2, <4>3 DEF Bring
      <4>5. PICK T : T = PartType
        OBVIOUS
      <4>6. down \in Seq(T) /\ 0 \in Nat /\ k \in Nat /\ 0 <= k /\ k <= l
        BY <1>2, <4>3, <4>5
      <4>7. PICK d : d = SubSeq(down, 1, k)
        OBVIOUS
      <4>8. Len(d) = k /\ \A i \in 1..k : d[i] = down[i]
        BY <4>3, <4>6, <4>7
      <4>9. \A i \in 1..k : d[i].data = c[i]
        <5>1. \A i \in 1..k : i \in 1..l
          BY <4>3, <4>6
        <5>2. \A i \in 1..k : down[i].data = c[i] /\ d[i] = down[i]
          BY <4>4, <4>8, <5>1
        <5>3. QED
          BY <5>2
      <4>10. Len(c) \in Nat
        <5>1. Coming(packets, rest) \in Seq(PartData)
          <6>1. packets # <<>>
            BY <3>1, SomethingOwed DEF DataInv
          <6>2. QED
            BY <6>1, FirstPart
        <5>2. QED
          BY <4>2, <5>1
      <4>11. Len(d) <= Len(c)
        BY <4>3, <4>4, <4>6, <4>8, <4>10
      <4>12. QED
        BY <1>5, <4>2, <4>7, <4>8, <4>9, <4>11 DEF Bring
    <3>5. Arriving(down', cl.seq, cl.buffer, packets, rest)
      BY <3>1, <3>3, <3>4 DEF Arriving
    <3>6. Refusal(packets) => Refusal(packets)'
      BY <1>4 DEF Refusal
    <3>7. Owed(packets)'
      BY <1>1, <1>8, <1>10, <3>1, <3>6 DEF Owed
    <3>8. QED
      BY <3>5, <3>7
  <2>3. ASSUME cl.pc \in Reading, up # <<>>
        PROVE  \E packets \in Seq(Seq(Int)) : \E rest \in Seq(Int) :
                 Owed(packets)' /\ Arriving(down', cl.seq, cl.buffer, packets, rest)
    <3>1. /\ cl.pc \in {"reply", "header"} /\ Inserted = cl.rows /\ down' = <<>>
          /\ cl.buffer = <<>>
      BY <1>7, <2>3, UpArrives DEF Reading
    <3>2. PICK e \in Seq(Int) : e = ErrPacket
      BY PacketKinds
    <3>3. PICK w : w = <<e>>
      OBVIOUS
    <3>4. w \in Seq(Seq(Int)) /\ w[1] = e
      BY <3>2, <3>3, OnePacket
    <3>5. Owed(w)'
      <4>1. Refusal(w)'
        BY <1>4, <3>2, <3>3 DEF Refusal
      <4>2. QED
        BY <1>1, <1>10, <3>1, <4>1 DEF Owed
    <3>6. Arriving(<<>>, cl.seq, <<>>, w, e)
      <4>1. InTurn(<<>>, cl.seq, cl.seq)
        BY InTurnNone
      <4>2. <<>> \o e = w[1]
        BY <3>2, <3>4
      <4>3. Bring(<<>>, Coming(w, e))
        <5>1. Coming(w, e) \in Seq(PartData)
          BY <3>3, <3>4, OnePacket, FirstPart
        <5>2. Len(Coming(w, e)) \in Nat
          BY <5>1
        <5>3. QED
          BY <5>2 DEF Bring
      <4>4. QED
        BY <4>1, <4>2, <4>3 DEF Arriving
    <3>7. QED
      BY <3>1, <3>2, <3>4, <3>5, <3>6
  <2>4. cl.pc \in Reading =>
          \E packets \in Seq(Seq(Int)) : \E rest \in Seq(Int) :
             Owed(packets)' /\ Arriving(down', cl.seq, cl.buffer, packets, rest)
    BY <2>2, <2>3
  <2>5. QED
    BY <1>1, <1>3, <2>1, <2>4 DEF DownInv
<1>14. AlarmInv'
  BY <1>1, <1>4 DEF DataInv, AlarmInv
<1>15. QED
  BY <1>8, <1>9, <1>11, <1>12, <1>13, <1>14 DEF DataInv

-----------------------------------------------------------------------------
(* The invariant.                                                          *)

(***************************************************************************)
(* It holds in the beginning.                                              *)
(***************************************************************************)
LEMMA BeginsRight ==
    ASSUME DataInit
    PROVE  DataInv
<1>1. PICK col \in {"text", "binary", "json", "time"}, bulk \in BOOLEAN :
        \E args \in IF col = "time" THEN TimeArgs ELSE TextArgs :
          cl = [pc |-> "fill", col |-> col, bulk |-> bulk, args |-> args, next |-> 1,
                sql |-> <<>>, left |-> <<>>, seq |-> 0, buffer |-> <<>>, fields |-> 0,
                rows |-> 0, fetched |-> <<>>]
  BY DEF DataInit
<1>2. PICK args \in IF col = "time" THEN TimeArgs ELSE TextArgs :
          cl = [pc |-> "fill", col |-> col, bulk |-> bulk, args |-> args, next |-> 1,
                sql |-> <<>>, left |-> <<>>, seq |-> 0, buffer |-> <<>>, fields |-> 0,
                rows |-> 0, fetched |-> <<>>]
  BY <1>1
<1>3. /\ Call(cl) /\ cl.pc = "fill" /\ cl.next = 1 /\ cl.sql = <<>> /\ cl.left = <<>>
      /\ cl.seq = 0 /\ cl.buffer = <<>> /\ cl.fields = 0 /\ cl.rows = 0 /\ cl.fetched = <<>>
  BY <1>2 DEF Call
<1>4. Given
  BY <1>2 DEF Given
<1>5. /\ up = <<>> /\ down = <<>> /\ Session(server) /\ server.table = <<>> /\ server.seq = 0
      /\ server.buffer = <<>> /\ server.alive = TRUE /\ server.disordered = FALSE
      /\ server.faults = 0
  BY DEF DataInit, Session
<1>6. Len(cl.args) \in Nat
  BY <1>4, GivenRows
<1>7. Types
  <2>1. cl.next \in 1..(Len(cl.args) + 1) /\ cl.rows \in 0..Len(cl.args)
    BY <1>3, <1>6
  <2>2. cl.fields \in 0..Columns /\ cl.seq \in 0..(SeqMod - 1) /\ server.seq \in 0..(SeqMod - 1)
    BY <1>3, <1>5, Sizes
  <2>3. Kept(cl.buffer) /\ Kept(server.buffer)
    BY <1>3, <1>5, KeptParts
  <2>4. cl.sql \in Seq(Int) /\ cl.left \in Seq(Int)
    BY <1>3
  <2>5. up \in Seq(PartType) /\ down \in Seq(PartType)
    BY <1>5
  <2>6. server.alive \in BOOLEAN /\ server.faults \in Nat
    <3>1. TRUE \in BOOLEAN /\ 0 \in Nat
      OBVIOUS
    <3>2. server.alive \in BOOLEAN
      BY <1>5, <3>1, Zenon
    <3>3. server.faults \in Nat
      BY <1>5, <3>1, Zenon
    <3>4. QED
      BY <3>2, <3>3
  <2>7. QED
    BY <1>3, <1>4, <1>5, <2>1, <2>2, <2>3, <2>4, <2>5, <2>6 DEF Types
<1>8. StatementInv
  <2>1. cl.rows < cl.next /\ cl.rows + 1 = cl.next
    BY <1>3
  <2>2. QED
    BY <1>3, <2>1 DEF StatementInv
<1>9. TableInv
  <2>1. Inserted = 0
    BY <1>5 DEF Inserted
  <2>2. RowsOf(1, 0) = <<>>
    <3>1. 1 \in Nat /\ 0 \in Nat /\ 1 <= 0 + 1 /\ 0 - 1 + 1 = 0
      OBVIOUS
    <3>2. RowsOf(1, 0) \in Seq(Nat) /\ Len(RowsOf(1, 0)) = 0
      BY <3>1, RowsOnEnd
    <3>3. PICK r \in Seq(Nat) : r = RowsOf(1, 0)
      BY <3>2
    <3>4. QED
      BY <3>2, <3>3
  <2>3. QED
    BY <1>3, <1>5, <2>1, <2>2 DEF TableInv
<1>10. UpInv
  BY <1>3, <1>5 DEF UpInv
<1>11. DownInv
  BY <1>3, <1>5 DEF DownInv, Reading
<1>12. FetchedInv
  <2>1. Len(cl.fetched) = 0 /\ Len(cl.fetched) \in 0..Len(cl.args)
    BY <1>3, <1>6
  <2>2. [i \in 1..0 |-> ShownRow(i)] = <<>>
    OBVIOUS
  <2>3. QED
    BY <1>3, <2>1, <2>2 DEF FetchedInv
<1>13. AlarmInv
  BY <1>3, <1>5 DEF AlarmInv
<1>14. QED
  BY <1>7, <1>8, <1>9, <1>10, <1>11, <1>12, <1>13 DEF DataInv

(***************************************************************************)
(* It stays when nothing changes.                                          *)
(***************************************************************************)
LEMMA StaysRight ==
    ASSUME DataInv, UNCHANGED vars
    PROVE  DataInv'
<1>1. cl' = cl /\ up' = up /\ down' = down /\ server' = server
  BY DEF vars
<1>2. /\ StatementInv' /\ FetchedInv' /\ \A n : RowPackets(n)' = RowPackets(n)
      /\ Command' = Command
  BY <1>1, ServerKeeps
<1>3. Types'
  <2>1. /\ Session(server') /\ up' \in Seq(PartType) /\ down' \in Seq(PartType)
        /\ server'.seq \in 0..(SeqMod - 1) /\ Kept(server'.buffer)
        /\ server'.alive \in BOOLEAN /\ server'.faults \in Nat
    BY <1>1 DEF DataInv, Types
  <2>2. QED
    BY <1>1, <2>1, ServerKeeps
<1>4. Inserted' = Inserted
  BY <1>1 DEF Inserted
<1>5. TableInv'
  BY <1>1, <1>4 DEF DataInv, TableInv
<1>6. UpInv'
  BY <1>1, <1>2 DEF DataInv, UpInv
<1>7. DownInv'
  <2>1. ASSUME NEW packets, Owed(packets)
        PROVE  Owed(packets)'
    <3>1. Refusal(packets) => Refusal(packets)'
      BY <1>1 DEF Refusal
    <3>2. QED
      BY <1>1, <1>2, <1>4, <2>1, <3>1 DEF Owed
  <2>2. DownInv
    BY DEF DataInv
  <2>3. QED
    BY <1>1, <2>1, <2>2 DEF DownInv
<1>8. AlarmInv'
  BY <1>1 DEF DataInv, AlarmInv
<1>9. QED
  BY <1>2, <1>3, <1>5, <1>6, <1>7, <1>8 DEF DataInv

(***************************************************************************)
(* Every step keeps it.                                                    *)
(***************************************************************************)
LEMMA StepsRight ==
    ASSUME DataInv, [DataNext]_vars
    PROVE  DataInv'
<1>1. CASE UNCHANGED vars
  BY <1>1, StaysRight
<1>2. CASE StartStatement
  BY <1>2, StartStep
<1>3. CASE AddRow
  BY <1>3, AddRowStep
<1>4. CASE ExecuteStatement
  BY <1>4, ExecuteStatementStep
<1>5. CASE ExecuteSelect
  BY <1>5, ExecuteSelectStep
<1>6. CASE SendPacket
  BY <1>6, SendStep
<1>7. CASE ServerGone
  BY <1>7, ServerGoneStep
<1>8. CASE ReadPart
  BY <1>8, ReadPartStep
<1>9. CASE ReadError
  BY <1>9, ReadErrorStep
<1>10. CASE ReadOk
  BY <1>10, ReadOkStep
<1>11. CASE ReadHeader
  BY <1>11, ReadHeaderStep
<1>12. CASE ReadField
  BY <1>12, ReadFieldStep
<1>13. CASE ReadFieldsEnd
  BY <1>13, ReadFieldsEndStep
<1>14. CASE ReadRow
  BY <1>14, ReadRowStep
<1>15. CASE ReadEnd
  BY <1>15, ReadEndStep
<1>16. CASE ServerReceives
  BY <1>16, ReceiveStep
<1>17. CASE ServerRefuses
  BY <1>17, RefuseStep
<1>18. CASE ConnectionLost
  BY <1>18, LostStep
<1>19. QED
  BY <1>1, <1>2, <1>3, <1>4, <1>5, <1>6, <1>7, <1>8, <1>9, <1>10, <1>11, <1>12, <1>13,
     <1>14, <1>15, <1>16, <1>17, <1>18 DEF DataNext

(***************************************************************************)
(* The invariant holds in every state, whatever the rows, the sizes of     *)
(* parts and statements, the number where counting begins again, the       *)
(* number of columns, and however often the server refuses.                *)
(***************************************************************************)
THEOREM DataInvariant == DataSpec => []DataInv
<1>1. DataInit => DataInv
  BY BeginsRight
<1>2. DataInv /\ [DataNext]_vars => DataInv'
  BY StepsRight
<1>3. QED
  BY <1>1, <1>2, PTL DEF DataSpec

(***************************************************************************)
(* Every variable keeps its type.                                          *)
(***************************************************************************)
THEOREM DataTypesCorrect == DataSpec => []DataTypeOK
<1>1. DataInv => DataTypeOK
  <2>1. SUFFICES ASSUME DataInv
                 PROVE  DataTypeOK
    OBVIOUS
  <2>2. Types
    BY <2>1 DEF DataInv
  <2>3. ASSUME NEW parts \in Seq(PartType)
        PROVE  \A i \in DOMAIN parts :
                 parts[i].no \in 0..(SeqMod - 1) /\ Len(parts[i].data) <= MaxPacket
    <3>1. PICK T : T = PartType
      OBVIOUS
    <3>2. parts \in Seq(T)
      BY <3>1
    <3>3. \A i \in DOMAIN parts : parts[i] \in T
      BY <3>2
    <3>4. \A p \in T : p.no \in 0..(SeqMod - 1) /\ Len(p.data) <= MaxPacket
      BY <3>1 DEF PartType, PartData
    <3>5. QED
      BY <3>3, <3>4
  <2>4. /\ \A i \in DOMAIN up : up[i].no \in 0..(SeqMod - 1) /\ Len(up[i].data) <= MaxPacket
        /\ \A i \in DOMAIN down :
             down[i].no \in 0..(SeqMod - 1) /\ Len(down[i].data) <= MaxPacket
    BY <2>2, <2>3 DEF Types
  <2>5. QED
    BY <2>2, <2>4 DEF DataTypeOK, Types, Given, Kept
<1>2. QED
  BY <1>1, DataInvariant, PTL

(***************************************************************************)
(* A statement of more than one row is within max_stmt_length.             *)
(***************************************************************************)
THEOREM StatementsFitCorrect == DataSpec => []StatementsFit
<1>1. DataInv => StatementsFit
  <2>1. SUFFICES ASSUME DataInv, cl.pc \in {"send", "reply"}, Len(RowsIn(cl.sql)) > 1
                 PROVE  Len(cl.sql) <= MaxStmt
    BY DEF StatementsFit
  <2>2. cl.sql # <<>>
    <3>1. PICK z \in Seq(Int) : z = <<>>
      <4>1. <<>> \in Seq(Int)
        OBVIOUS
      <4>2. QED
        BY <4>1
    <3>2. RowsIn(<<>>) = <<>>
      <4>1. 0 \in Int
        OBVIOUS
      <4>2. PICK x : x \in Int
        BY <4>1
      <4>3. QED
        BY <3>1, <4>2, RowsInAppend
    <3>3. Len(<<>>) = 0
      OBVIOUS
    <3>4. QED
      BY <2>1, <3>2, <3>3
  <2>3. /\ RowsIn(cl.sql) = Now /\ cl.rows + 1 < cl.next /\ cl.sql \in Seq(Int)
        /\ cl.rows + 2 < cl.next => Len(cl.sql) + 0 <= MaxStmt
    BY <2>1, <2>2 DEF DataInv, StatementInv, Types
  <2>4. cl.rows \in Nat /\ cl.next \in Nat
    <3>1. Len(cl.args) \in Nat
      BY <2>1, GivenRows DEF DataInv, Types
    <3>2. QED
      BY <2>1, <3>1 DEF DataInv, Types
  <2>5. Len(Now) = cl.next - 1 - cl.rows
    <3>1. PICK a \in Nat, b \in Nat :
             a = cl.rows + 1 /\ b = cl.next - 1 /\ a <= b + 1 /\ b - a + 1 = cl.next - 1 - cl.rows
      BY <2>3, <2>4
    <3>2. Len(RowsOf(a, b)) = b - a + 1
      BY <3>1, RowsOnEnd
    <3>3. QED
      BY <3>1, <3>2 DEF Now
  <2>6. cl.rows + 2 < cl.next
    BY <2>1, <2>3, <2>4, <2>5
  <2>7. Len(cl.sql) \in Nat
    BY <2>3
  <2>8. QED
    BY <2>3, <2>6, <2>7
<1>2. QED
  BY <1>1, DataInvariant, PTL

(***************************************************************************)
(* No packet is found out of order or taken for one of another kind, and a *)
(* call fails for a refusal or a lost connection only.                     *)
(***************************************************************************)
THEOREM NoFalseAlarmCorrect == DataSpec => []NoFalseAlarm
<1>1. DataInv => NoFalseAlarm
  BY DEF DataInv, AlarmInv, UpInv, NoFalseAlarm
<1>2. QED
  BY <1>1, DataInvariant, PTL

(***************************************************************************)
(* The rows read are the rows given.                                       *)
(***************************************************************************)
THEOREM RowsComeBackCorrect == DataSpec => []RowsComeBack
<1>1. DataInv => RowsComeBack
  <2>1. SUFFICES ASSUME DataInv, cl.pc = "fetched"
                 PROVE  /\ Len(cl.fetched) = Len(cl.args)
                        /\ \A i \in DOMAIN cl.args :
                             (cl.col = "time" => WrittenAsIs(cl.args[i]) /\ KeptInFull(cl.args[i]))
                               => cl.fetched[i] = GivenRow(i)
    BY DEF RowsComeBack
  <2>2. Len(cl.fetched) = Len(cl.args)
    BY <2>1 DEF DataInv, FetchedInv
  <2>3. Given /\ DOMAIN cl.args = 1..Len(cl.args)
    BY <2>1, GivenRows DEF DataInv, Types
  <2>4. ASSUME NEW i \in DOMAIN cl.args,
               cl.col = "time" => WrittenAsIs(cl.args[i]) /\ KeptInFull(cl.args[i])
        PROVE  cl.fetched[i] = GivenRow(i)
    <3>1. i \in 1..Len(cl.args)
      BY <2>3, <2>4
    <3>2. cl.fetched = [j \in 1..Len(cl.args) |-> ShownRow(j)]
      BY <2>1, <2>2 DEF DataInv, FetchedInv
    <3>3. cl.fetched[i] = ShownRow(i)
      BY <3>1, <3>2
    <3>4. ShownRow(i) = GivenRow(i)
      BY <2>3, <2>4, <3>1, ShownAsGiven
    <3>5. QED
      BY <3>3, <3>4
  <2>5. QED
    BY <2>2, <2>4
<1>2. QED
  BY <1>1, DataInvariant, PTL

(***************************************************************************)
(* While the client reads, something is on its way or the connection is    *)
(* gone.                                                                   *)
(***************************************************************************)
THEOREM NobodyWaitsCorrect == DataSpec => []NobodyWaits
<1>1. DataInv => NobodyWaits
  <2>1. SUFFICES ASSUME DataInv, cl.pc \in Reading, server.alive, up = <<>>, down = <<>>
                 PROVE  FALSE
    BY DEF NobodyWaits
  <2>2. PICK packets \in Seq(Seq(Int)), rest \in Seq(Int) :
           Owed(packets) /\ Complete(down, packets, rest)
    BY <2>1 DEF DataInv, DownInv
  <2>3. packets # <<>>
    BY <2>1, <2>2, SomethingOwed DEF DataInv
  <2>4. Tail(packets) \in Seq(Seq(Int))
    BY <2>3, Flows
  <2>5. Flow(Tail(packets)) \in Seq(PartData)
    BY <2>4, Flows
  <2>6. Split(rest) \in Seq(PartData) /\ Len(Split(rest)) \in Nat /\ Len(Split(rest)) >= 1
    BY SplitType
  <2>7. Len(Coming(packets, rest)) >= 1
    <3>1. PICK s \in Seq(PartData), f \in Seq(PartData) :
             s = Split(rest) /\ f = Flow(Tail(packets)) /\ Len(s) \in Nat /\ Len(s) >= 1
      BY <2>5, <2>6
    <3>2. Len(s \o f) = Len(s) + Len(f) /\ Len(f) \in Nat
      BY Concat
    <3>3. QED
      BY <3>1, <3>2 DEF Coming
  <2>8. Len(down) = 0
    BY <2>1
  <2>9. Len(down) = Len(Coming(packets, rest))
    BY <2>2 DEF Complete
  <2>10. QED
    BY <2>7, <2>8, <2>9
<1>2. QED
  BY <1>1, DataInvariant, PTL

-----------------------------------------------------------------------------
(* What executemany promises.                                              *)

(***************************************************************************)
(* Once the rows are asked for, all of them were inserted and reported.    *)
(***************************************************************************)
LEMMA AllReported ==
    ASSUME DataInv, cl.sql = <<>>, cl.pc # "fill" \/ ~MoreRows
    PROVE  ~MoreRows /\ cl.rows = Len(cl.args) /\ Len(server.table) = Len(cl.args)
<1>1. PICK n \in Nat : n = Len(cl.args)
  BY GivenRows DEF DataInv, Types
<1>2. cl.next \in 1..(n + 1) /\ cl.rows \in 0..n
  BY <1>1 DEF DataInv, Types
<1>3. cl.rows + 1 = cl.next /\ (cl.pc # "fill" => cl.next = n + 1)
  BY <1>1 DEF DataInv, StatementInv
<1>4. ~MoreRows => cl.next > n
  BY <1>1, <1>2 DEF MoreRows
<1>5. cl.next = n + 1 /\ cl.rows = n
  BY <1>2, <1>3, <1>4
<1>6. ~(cl.next <= n)
  BY <1>2, <1>5
<1>7. Inserted \in {cl.rows, cl.next - 1}
  BY DEF DataInv, TableInv
<1>8. Inserted = n
  BY <1>2, <1>5, <1>7
<1>9. QED
  BY <1>1, <1>5, <1>6, <1>8 DEF MoreRows, Inserted

(***************************************************************************)
(* A call goes on, and nothing is reported.                                *)
(***************************************************************************)
LEMMA OutcomeKept ==
    ASSUME cl'.args = cl.args, cl'.next = cl.next, cl'.sql = cl.sql, cl'.rows = cl.rows,
           \/ cl'.pc = cl.pc
           \/ cl.pc \notin Ended \cup {"fill"} /\ cl'.pc \notin Ended \cup {"fill"}
           \/ cl.sql = <<>> /\ ~MoreRows /\ cl.pc # "fill" /\ cl'.pc # "fill"
    PROVE  Outcome' = Outcome
<1>1. MoreRows' = MoreRows
  BY DEF MoreRows
<1>2. QED
  BY <1>1 DEF Outcome

(***************************************************************************)
(* While rows are put together and sent, the call is running.              *)
(***************************************************************************)
LEMMA StillRunning ==
    /\ cl.pc = "fill" => Outcome = <<"running", 0>>
    /\ cl.sql # <<>> /\ cl.pc \notin Ended => Outcome = <<"running", 0>>
    /\ cl.sql # <<>> /\ cl.pc \in Ended => Outcome = <<"failed", 0>>
    /\ cl'.pc = "fill" => Outcome' = <<"running", 0>>
    /\ cl'.sql # <<>> /\ cl'.pc \notin Ended => Outcome' = <<"running", 0>>
    /\ cl'.sql # <<>> /\ cl'.pc \in Ended => Outcome' = <<"failed", 0>>
BY DEF Outcome, Ended

(***************************************************************************)
(* A call that fails reports so, unless it had reported its rows.          *)
(***************************************************************************)
LEMMA CallFails ==
    ASSUME DataInv, cl'.args = cl.args, cl'.next = cl.next, cl'.sql = cl.sql,
           cl'.rows = cl.rows, cl.pc \in {"send"} \cup Reading, cl'.pc \in Ended,
           server' = server
    PROVE  [Loop!LoopNext]_Loop!loopVars
<1>1. cl.pc # "fill" /\ cl'.pc # "fill" /\ cl.pc \notin Ended
  BY DEF Reading, Ended
<1>2. CASE cl.sql = <<>>
  <2>1. ~MoreRows
    BY <1>1, <1>2, AllReported
  <2>2. Outcome' = Outcome
    BY <1>1, <1>2, <2>1, OutcomeKept
  <2>3. QED
    BY <2>2 DEF Loop!loopVars
<1>3. CASE cl.sql # <<>>
  <2>1. Outcome = <<"running", 0>> /\ Outcome' = <<"failed", 0>>
    BY <1>1, <1>3, StillRunning
  <2>2. QED
    BY <2>1 DEF Loop!LoopNext, Loop!Report, Loop!Running, Loop!Failed
<1>4. QED
  BY <1>2, <1>3

(***************************************************************************)
(* The client's steps that leave the table alone report nothing.           *)
(***************************************************************************)
LEMMA CallGoesOn ==
    ASSUME DataInv,
           \/ StartStatement \/ AddRow \/ ExecuteStatement \/ SendPacket
           \/ ReadPart \/ ReadOk \/ ReadHeader \/ ReadField \/ ReadFieldsEnd
           \/ ReadRow \/ ReadEnd
    PROVE  cl'.args = cl.args /\ server' = server /\ Outcome' = Outcome
<1>1. Call(cl) /\ cl.sql \in Seq(Int)
  BY DEF DataInv, Types
<1>2. CASE StartStatement \/ AddRow
  <2>1. cl'.args = cl.args /\ server' = server /\ cl.pc = "fill" /\ cl'.pc = "fill"
    BY <1>1, <1>2 DEF StartStatement, AddRow, Call
  <2>2. QED
    BY <2>1, StillRunning
<1>3. CASE ExecuteStatement
  <2>1. /\ cl'.args = cl.args /\ server' = server /\ cl.pc = "fill" /\ cl'.pc = "send"
        /\ cl'.sql = cl.sql \o Repeat(POSTFIX, Postfix) /\ cl.sql # <<>>
    BY <1>1, <1>3 DEF ExecuteStatement, Call
  <2>2. cl'.sql # <<>>
    <3>1. POSTFIX \in Int /\ Postfix \in Nat
      BY DataAssumption DEF DataAssumption, POSTFIX
    <3>2. PICK r \in Seq(Int) : r = Repeat(POSTFIX, Postfix)
      BY <3>1, Repeated
    <3>3. cl.sql \o r # <<>>
      BY <1>1, <2>1
    <3>4. QED
      BY <2>1, <3>2, <3>3
  <2>3. QED
    BY <2>1, <2>2, StillRunning DEF Ended
<1>4. CASE SendPacket
  <2>1. /\ cl'.args = cl.args /\ server' = server /\ cl'.next = cl.next /\ cl'.sql = cl.sql
        /\ cl'.rows = cl.rows /\ cl.pc = "send" /\ cl'.pc \in {"send", "header", "reply"}
    BY <1>1, <1>4 DEF SendPacket, Call
  <2>2. QED
    BY <2>1, OutcomeKept DEF Ended
<1>5. CASE ReadPart
  <2>1. /\ cl'.args = cl.args /\ server' = server /\ cl'.next = cl.next /\ cl'.sql = cl.sql
        /\ cl'.rows = cl.rows /\ cl'.pc = cl.pc
    BY <1>1, <1>5 DEF ReadPart, Arrives, Call
  <2>2. QED
    BY <2>1, OutcomeKept
<1>6. CASE ReadOk
  <2>1. /\ cl'.args = cl.args /\ server' = server /\ cl.pc = "reply" /\ cl'.pc = "fill"
    BY <1>1, <1>6 DEF ReadOk, Read, Arrives, Call
  <2>2. cl.sql # <<>> /\ cl.pc \notin Ended
    BY <2>1 DEF DataInv, StatementInv, Ended
  <2>3. QED
    BY <2>1, <2>2, StillRunning
<1>7. CASE ReadHeader \/ ReadField \/ ReadFieldsEnd \/ ReadRow \/ ReadEnd
  <2>1. /\ cl'.args = cl.args /\ server' = server /\ cl'.next = cl.next /\ cl'.sql = cl.sql
        /\ cl'.rows = cl.rows /\ cl.pc \in {"header", "columns", "rows"} /\ cl'.pc # "fill"
    BY <1>1, <1>7 DEF ReadHeader, ReadField, ReadFieldsEnd, ReadRow, ReadEnd, Read, Arrives, Call
  <2>2. cl.sql = <<>> /\ cl.pc # "fill"
    BY <2>1 DEF DataInv, StatementInv
  <2>3. ~MoreRows
    BY <2>2, AllReported
  <2>4. QED
    BY <2>1, <2>2, <2>3, OutcomeKept
<1>8. QED
  BY <1>2, <1>3, <1>4, <1>5, <1>6, <1>7

(***************************************************************************)
(* A part of a command, or a query, leaves the table alone; a statement    *)
(* inserts its rows.                                                       *)
(***************************************************************************)
LEMMA TableGrows ==
    ASSUME DataInv, ServerReceives
    PROVE  [Loop!LoopNext]_Loop!loopVars
<1>1. up # <<>> /\ cl' = cl
  BY DEF ServerReceives
<1>2. Outcome' = Outcome /\ Len(cl.args)' = Len(cl.args)
  BY <1>1, OutcomeKept
<1>3. CASE Len(Head(up).data) = MaxPacket
  <2>1. server'.table = server.table
    BY <1>3 DEF ServerReceives, DataInv, Types, Session
  <2>2. QED
    BY <1>2, <2>1 DEF Loop!loopVars
<1>4. CASE Len(Head(up).data) # MaxPacket
  <2>1. cl.pc \in {"reply", "header"}
    BY <1>1, <1>4, CommandArrives
  <2>2. CASE cl.pc = "header"
    <3>1. server'.table = server.table
      BY <1>4, <2>2, ReceiveQueryStep
    <3>2. QED
      BY <1>2, <3>1 DEF Loop!loopVars
  <2>3. CASE cl.pc = "reply"
    <3>1. /\ server'.table = server.table \o Now
          /\ Len(server.table) = cl.rows
      BY <1>4, <2>3, ReceiveStatementStep DEF Inserted
    <3>2. Len(Now) = cl.next - 1 - cl.rows /\ Len(Now) > 0 /\ cl.rows \in Nat /\ cl.next \in Nat
      BY <2>3, StatementArrives
    <3>3. PICK n \in Nat : n = Len(cl.args) /\ cl.next \in 1..(n + 1)
      BY GivenRows DEF DataInv, Types
    <3>4. PICK k \in Nat, l \in Nat : k = cl.rows /\ l = cl.next - 1 /\ k < l /\ l <= n
      BY <3>2, <3>3
    <3>5. Now = [i \in 1..(l - k) |-> k + i]
      <4>1. l - (k + 1) + 1 = l - k
        OBVIOUS
      <4>2. \A i \in 1..(l - k) : k + 1 + i - 1 = k + i
        OBVIOUS
      <4>3. Now = [i \in 1..(l - k) |-> k + 1 + i - 1]
        BY <3>4, <4>1 DEF Now, RowsOf
      <4>4. QED
        BY <4>2, <4>3
    <3>6. l \in (k + 1)..n
      BY <3>4
    <3>7. k < n
      BY <3>4
    <3>8. /\ Len(server.table) < Len(cl.args)
          /\ \E last \in (Len(server.table) + 1)..Len(cl.args) :
               server'.table = server.table
                 \o [i \in 1..(last - Len(server.table)) |-> Len(server.table) + i]
      <4>1. Len(server.table) = k /\ Len(cl.args) = n
        BY <3>1, <3>3, <3>4
      <4>2. server'.table = server.table \o [i \in 1..(l - k) |-> k + i]
        BY <3>1, <3>5
      <4>3. QED
        BY <3>6, <3>7, <4>1, <4>2
    <3>9. QED
      BY <1>2, <3>8 DEF Loop!LoopNext, Loop!Insert
  <2>4. QED
    BY <2>1, <2>2, <2>3
<1>5. QED
  BY <1>3, <1>4

(***************************************************************************)
(* Every step of the call or of the server is one of the loop's, or none.  *)
(***************************************************************************)
LEMMA StepsOfLoop ==
    ASSUME DataInv, [DataNext]_vars
    PROVE  [Loop!LoopNext]_Loop!loopVars
<1>1. Call(cl) /\ Session(server)
  BY DEF DataInv, Types
<1>2. CASE UNCHANGED vars
  <2>1. cl' = cl /\ server' = server
    BY <1>2 DEF vars
  <2>2. Outcome' = Outcome
    BY <2>1, OutcomeKept
  <2>3. QED
    BY <2>1, <2>2 DEF Loop!loopVars
<1>3. CASE \/ StartStatement \/ AddRow \/ ExecuteStatement \/ SendPacket
           \/ ReadPart \/ ReadOk \/ ReadHeader \/ ReadField \/ ReadFieldsEnd
           \/ ReadRow \/ ReadEnd
  <2>1. cl'.args = cl.args /\ server' = server /\ Outcome' = Outcome
    BY <1>3, CallGoesOn
  <2>2. QED
    BY <2>1 DEF Loop!loopVars
<1>4. CASE ExecuteSelect
  <2>1. /\ cl.pc = "fill" /\ cl.sql = <<>> /\ ~MoreRows /\ server' = server
        /\ cl'.pc = "send" /\ cl'.sql = cl.sql /\ cl'.next = cl.next
        /\ cl'.args = cl.args /\ cl'.rows = cl.rows
    BY <1>1, <1>4 DEF ExecuteSelect, Call
  <2>2. cl.rows = Len(cl.args) /\ Len(server.table) = Len(cl.args)
    BY <2>1, AllReported
  <2>3. ~MoreRows'
    BY <2>1 DEF MoreRows
  <2>4. Outcome = <<"running", 0>> /\ Outcome' = <<"rows", Len(cl.args)>>
    BY <2>1, <2>2, <2>3, StillRunning DEF Outcome
  <2>5. QED
    BY <2>1, <2>2, <2>4 DEF Loop!LoopNext, Loop!Report, Loop!Running
<1>5. CASE ServerGone
  <2>1. /\ cl'.args = cl.args /\ cl'.next = cl.next /\ cl'.sql = cl.sql /\ cl'.rows = cl.rows
        /\ cl.pc \in {"send"} \cup Reading /\ cl'.pc \in Ended /\ server' = server
    BY <1>1, <1>5 DEF ServerGone, Call, Ended
  <2>2. QED
    BY <2>1, CallFails
<1>6. CASE ReadError
  <2>1. /\ cl'.args = cl.args /\ cl'.next = cl.next /\ cl'.sql = cl.sql /\ cl'.rows = cl.rows
        /\ cl.pc \in {"send"} \cup Reading /\ cl'.pc \in Ended /\ server' = server
    BY <1>1, <1>6 DEF ReadError, Read, Arrives, Call, Ended
  <2>2. QED
    BY <2>1, CallFails
<1>7. CASE ServerReceives
  BY <1>7, TableGrows
<1>8. CASE ServerRefuses \/ ConnectionLost
  <2>1. cl' = cl /\ server'.table = server.table
    BY <1>1, <1>8 DEF ServerRefuses, ConnectionLost, Session
  <2>2. Outcome' = Outcome
    BY <2>1, OutcomeKept
  <2>3. QED
    BY <2>1, <2>2 DEF Loop!loopVars
<1>9. QED
  BY <1>2, <1>3, <1>4, <1>5, <1>6, <1>7, <1>8 DEF DataNext

(***************************************************************************)
(* executemany does what execute() in a loop does: every behaviour of the  *)
(* call and the server is one of the loop, whatever the statements and     *)
(* packets, and wherever it fails.                                         *)
(***************************************************************************)
THEOREM ImplementsLoopCorrect == DataSpec => ImplementsLoop
<1>1. DataInit => Loop!LoopInit
  <2>1. SUFFICES ASSUME DataInit
                 PROVE  Loop!LoopInit
    OBVIOUS
  <2>2. DataInv
    BY <2>1, BeginsRight
  <2>3. Len(cl.args) \in Nat
    BY <2>2, GivenRows DEF DataInv, Types
  <2>4. cl.pc = "fill" /\ server.table = <<>>
    BY <2>1 DEF DataInit
  <2>5. Outcome = <<"running", 0>>
    BY <2>4, StillRunning
  <2>6. QED
    BY <2>3, <2>4, <2>5 DEF Loop!LoopInit, Loop!Running
<1>2. DataInv /\ [DataNext]_vars => [Loop!LoopNext]_Loop!loopVars
  BY StepsOfLoop
<1>3. QED
  BY <1>1, <1>2, DataInvariant, PTL DEF DataSpec, ImplementsLoop, Loop!LoopSpec
=============================================================================
