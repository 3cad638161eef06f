-------------------------- MODULE MySQLLoginProofs --------------------------
(***************************************************************************)
(* Theorems about MySQLLogin, for any passwords, any set of plugins and    *)
(* greetings, any number of attempts and of changes of the server.         *)
(***************************************************************************)
EXTENDS MySQLLogin, TLAPS

(***************************************************************************)
(* The conversation (connections.py 595-641, 830-1020; _auth.py 118-266).  *)
(* Nobody speaks out of turn: while connect() runs, either one message of  *)
(* the client's is on its way, and the server is where that message        *)
(* belongs, or one of the server's is, or the two with which the fast path *)
(* of caching_sha2_password ends.                                          *)
(***************************************************************************)
Asked(pc) == up # <<>> /\ up = <<Head(up)>> /\ down = <<>> /\ server.pc = pc

Got(kind, pc) ==
    /\ up = <<>>
    /\ down # <<>> /\ down = <<Head(down)>>
    /\ Head(down).kind = kind /\ Head(down).n \in Nat
    /\ server.pc = pc

Answered == Got("ok", "in") \/ Got("err", "closed")

FastAnswered ==
    /\ up = <<>>
    /\ Len(down) = 2 /\ down = <<down[1], down[2]>>
    /\ down[1].kind = "fast" /\ down[2].kind = "ok" /\ down[2].n \in Nat
    /\ server.pc = "in"

Prompted ==
    /\ server.plugin = "dialog"
    /\ \/ Got("prompt", "data") /\ Head(down).n = 1
       \/ Got("prompt", "prompted") /\ Head(down).n = 0

\* Data the server answers with its verdict.
Decisive(d) ==
    /\ server.plugin = "caching_sha2_password" => d = EmptyData
    /\ server.plugin = "sha256_password" => d # RequestKey("1")

QuietInv == client.pc \in Done \cup {"idle"} => up = <<>> /\ down = <<>>

InInv == client.pc = "in" => server.pc = "in"

StartedInv == client.pc # "idle" => attempts # 0

GreetingInv ==
    client.pc = "greeting" => Got("greeting", "response") /\ Head(down).plugin = server.default

AuthInv ==
    client.pc = "auth" =>
        /\ client.name = server.default
        /\ \/ /\ Asked("response")
              /\ Head(up).plugin = Named(client.name)
              /\ client.name = "caching_sha2_password" /\ client.password = NoPassword
                    => Head(up).data = EmptyData
           \/ Answered
           \/ /\ FastAnswered \/ Got("full", "full")
              /\ client.name = "caching_sha2_password"
              /\ client.password # NoPassword
           \/ Got("key", "rsa") /\ client.name = "sha256_password"
           \/ Got("switch", "data") /\ Head(down).plugin = server.plugin
           \/ Prompted

Sha2Inv ==
    client.pc = "sha2" =>
        \/ /\ Asked("data")
           /\ server.plugin = "caching_sha2_password"
        \/ Answered
        \/ FastAnswered
        \/ Got("full", "full")

KeyInv ==
    /\ client.pc = "sha2 key" =>
         Got("key", "rsa") \/ (Asked("full") /\ Head(up).data = RequestKey("2"))
    /\ client.pc = "sha256 key" =>
         \/ Got("key", "rsa")
         \/ /\ Asked("data") /\ Head(up).data = RequestKey("1")
            /\ server.plugin = "sha256_password"

DialogInv ==
    /\ client.pc = "dialog" =>
         Answered \/ Prompted \/ (Asked("prompted") /\ server.plugin = "dialog")
    /\ client.pc = "last prompt" =>
         Answered \/ (Asked("data") /\ server.plugin = "dialog")

FinalInv ==
    client.pc = "final" =>
        \/ Answered
        \/ Asked("rsa")
        \/ Asked("full") /\ Head(up).data # RequestKey("2")
        \/ Asked("data") /\ Decisive(Head(up).data)

SessionInv ==
    /\ QuietInv /\ InInv /\ StartedInv /\ GreetingInv /\ AuthInv
    /\ Sha2Inv /\ KeyInv /\ DialogInv /\ FinalInv

-----------------------------------------------------------------------------

ClientType ==
    [pc : Waiting \cup Done \cup {"idle"}, ssl : BOOLEAN, extras : BOOLEAN,
     password : AnyPassword, secure : BOOLEAN, key : Nat,
     salt : [n : Nat, nul : BOOLEAN], name : Defaults \cup {""}]

ServerType ==
    [pc : {"idle", "response", "data", "prompted", "full", "rsa", "in", "closed"},
     tls : BOOLEAN, default : Defaults, plugin : Plugins,
     password : AnyPassword, key : Nat, cached : BOOLEAN, switched : BOOLEAN]

LoginTypes ==
    /\ client \in ClientType
    /\ server \in ServerType
    /\ attempts \in Nat /\ changes \in Nat

(***************************************************************************)
(* Sequences of one and of two messages, as they are on their way.         *)
(***************************************************************************)
LEMMA OneMessage ==
    ASSUME NEW x
    PROVE  /\ Append(<<>>, x) = <<x>> /\ <<>> \o <<x>> = <<x>>
           /\ <<x>> # <<>> /\ Len(<<x>>) = 1
           /\ Head(<<x>>) = x /\ Tail(<<x>>) = <<>>
OBVIOUS

(***************************************************************************)
(* Two messages on their way.                                              *)
(***************************************************************************)
LEMMA TwoMessages ==
    ASSUME NEW x, NEW y
    PROVE  /\ <<>> \o <<x, y>> = <<x, y>>
           /\ Len(<<x, y>>) = 2 /\ <<x, y>> # <<>>
           /\ <<x, y>>[1] = x /\ <<x, y>>[2] = y
           /\ Head(<<x, y>>) = x /\ Tail(<<x, y>>) = <<y>>
OBVIOUS

(***************************************************************************)
(* A packet is there when it has been put on an empty wire (external).     *)
(***************************************************************************)
LEMMA GotOne ==
    ASSUME up' = <<>>, NEW m, down' = <<m>>, m.n \in Nat, NEW pc, server'.pc = pc
    PROVE  Got(m.kind, pc)'
<1>1. down' # <<>> /\ Head(down') = m
  BY OneMessage
<1>2. QED
  BY <1>1 DEF Got

(***************************************************************************)
(* A step of the server that sends one message (external).                 *)
(***************************************************************************)
LEMMA RepliesStep ==
    ASSUME LoginTypes, down = <<>>, up' = <<>>,
           NEW pc, NEW m, m.n \in Nat, Replies(pc, <<m>>),
           pc \in {"data", "prompted", "full", "rsa", "closed"}
    PROVE  /\ Got(m.kind, pc)' /\ down' = <<m>>
           /\ server' \in ServerType
           /\ server'.plugin = server.plugin /\ server'.default = server.default
<1>1. down' = <<m>>
  BY OneMessage DEF Replies
<1>2. /\ server' \in ServerType /\ server'.pc = pc
      /\ server'.plugin = server.plugin /\ server'.default = server.default
  BY DEF Replies, LoginTypes, ServerType
<1>3. QED
  BY <1>1, <1>2, GotOne

(***************************************************************************)
(* A verdict is an OK packet of a session that is open, or an error packet *)
(* of one that is closed (external).                                       *)
(***************************************************************************)
LEMMA VerdictStep ==
    ASSUME LoginTypes, down = <<>>, up' = <<>>, NEW right, Verdict(right)
    PROVE  /\ Answered'
           /\ server' \in ServerType
           /\ server'.plugin = server.plugin /\ server'.default = server.default
<1>1. CASE ~right
  <2>1. Replies("closed", <<Message("err", "", 0)>>)
    BY <1>1 DEF Verdict
  <2>2. Message("err", "", 0).n \in Nat /\ Message("err", "", 0).kind = "err"
    BY DEF Message
  <2>3. QED
    BY <2>1, <2>2, RepliesStep DEF Answered
<1>2. CASE right
  <2>1. down' = <<Message("ok", "", 0)>>
    BY <1>2, OneMessage DEF Verdict
  <2> DEFINE cached == server.cached \/ server.plugin = "caching_sha2_password"
  <2>2. cached \in BOOLEAN
    OBVIOUS
  <2>3. server' = [server EXCEPT !.pc = "in", !.cached = cached]
    BY <1>2, Zenon DEF Verdict
  <2> HIDE DEF cached
  <2>4. /\ server' \in ServerType /\ server'.pc = "in"
        /\ server'.plugin = server.plugin /\ server'.default = server.default
    BY <2>2, <2>3 DEF LoginTypes, ServerType
  <2>5. Message("ok", "", 0).n \in Nat /\ Message("ok", "", 0).kind = "ok"
    BY DEF Message
  <2>6. Got("ok", "in")'
    BY <2>1, <2>4, <2>5, GotOne
  <2>7. QED
    BY <2>4, <2>6 DEF Answered
<1>3. QED
  BY <1>1, <1>2

(***************************************************************************)
(* What the server does with data of the account's own plugin (external).  *)
(***************************************************************************)
LEMMA JudgeStep ==
    ASSUME LoginTypes, down = <<>>, up' = <<>>, NEW d, Judge(d)
    PROVE  /\ \/ /\ Answered'
                 /\ ~(server.plugin = "sha256_password" /\ d = RequestKey("1"))
              \/ /\ server.plugin = "caching_sha2_password" /\ d # EmptyData
                 /\ FastAnswered' \/ Got("full", "full")'
              \/ /\ server.plugin = "sha256_password" /\ d = RequestKey("1")
                 /\ Got("key", "rsa")'
           /\ server' \in ServerType
           /\ server'.plugin = server.plugin /\ server'.default = server.default
<1>1. CASE /\ \E right : Verdict(right)
           /\ ~(server.plugin = "sha256_password" /\ d = RequestKey("1"))
  BY <1>1, VerdictStep
<1>2. CASE /\ server.plugin = "caching_sha2_password" /\ d # EmptyData
           /\ server' = [server EXCEPT !.pc = "in"]
           /\ down' = down \o <<Message("fast", "", 0), Message("ok", "", 0)>>
  <2>1. down' = <<Message("fast", "", 0), Message("ok", "", 0)>>
    BY <1>2, TwoMessages
  <2>2. /\ server' \in ServerType /\ server'.pc = "in"
        /\ server'.plugin = server.plugin /\ server'.default = server.default
    BY <1>2 DEF LoginTypes, ServerType
  <2>3. /\ Message("fast", "", 0).kind = "fast"
        /\ Message("ok", "", 0).kind = "ok" /\ Message("ok", "", 0).n \in Nat
    BY DEF Message
  <2>4. FastAnswered'
    BY <2>1, <2>2, <2>3, TwoMessages DEF FastAnswered
  <2>5. QED
    BY <1>2, <2>2, <2>4
<1>3. CASE /\ server.plugin = "caching_sha2_password" /\ d # EmptyData
           /\ Replies("full", <<Message("full", "", 0)>>)
  <2>1. Message("full", "", 0).n \in Nat /\ Message("full", "", 0).kind = "full"
    BY DEF Message
  <2>2. QED
    BY <1>3, <2>1, RepliesStep
<1>4. CASE /\ server.plugin = "sha256_password" /\ d = RequestKey("1")
           /\ SendKey
  <2>1. Replies("rsa", <<Message("key", "", server.key)>>)
    BY <1>4 DEF SendKey
  <2>2. Message("key", "", server.key).n \in Nat /\ Message("key", "", server.key).kind = "key"
    BY DEF Message, LoginTypes, ServerType
  <2>3. QED
    BY <1>4, <2>1, <2>2, RepliesStep
<1>5. CASE server.plugin = "caching_sha2_password"
  BY <1>1, <1>2, <1>3, <1>5, Zenon DEF Judge
<1>6. CASE server.plugin = "sha256_password"
  BY <1>1, <1>4, <1>6, Zenon DEF Judge
<1>7. CASE server.plugin \notin {"caching_sha2_password", "sha256_password"}
  BY <1>1, <1>7 DEF Judge
<1>8. QED
  BY <1>5, <1>6, <1>7

(***************************************************************************)
(* What a prompt says of being the last one is one of two numbers.         *)
(***************************************************************************)
LEMMA LastIsNat == 1 # 0 /\ \A last \in {0, 1} : last \in Nat
<1>1. 1 # 0 /\ 0 \in Nat /\ 1 \in Nat
  OBVIOUS
<1>2. QED
  BY <1>1, Zenon

(***************************************************************************)
(* What the server does with the response (external).                      *)
(***************************************************************************)
LEMMA ResponseStep ==
    ASSUME LoginTypes, attempts # 0, down = <<>>, up' = <<>>, GetResponse
    PROVE  /\ \/ Answered'
              \/ /\ server.plugin = "caching_sha2_password" /\ Head(up).data # EmptyData
                 /\ Head(up).plugin = "caching_sha2_password"
                 /\ FastAnswered' \/ Got("full", "full")'
              \/ /\ Head(up).plugin = "sha256_password"
                 /\ Got("key", "rsa")'
              \/ Got("switch", "data")' /\ Head(down').plugin = server'.plugin
              \/ Prompted'
           /\ server' \in ServerType
           /\ server'.plugin = server.plugin /\ server'.default = server.default
<1>1. CASE /\ Head(up).plugin = server.plugin
                 \/ (server.default = "" /\ server.plugin = "mysql_native_password")
           /\ Judge(Head(up).data)
  BY <1>1, JudgeStep
<1>2. CASE /\ server.plugin = "dialog"
           /\ \E last \in {0, 1}, text \in {"Password: ", "PIN: "} :
                Replies(IF last = 1 THEN "data" ELSE "prompted", <<Message("prompt", text, last)>>)
  <2>1. PICK last \in {0, 1}, text \in {"Password: ", "PIN: "} :
          Replies(IF last = 1 THEN "data" ELSE "prompted", <<Message("prompt", text, last)>>)
    BY <1>2
  <2> DEFINE m == Message("prompt", text, last)
             pc == IF last = 1 THEN "data" ELSE "prompted"
  <2>2. m.kind = "prompt" /\ m.n = last
    BY DEF Message
  <2>3. pc \in {"data", "prompted"} /\ (pc = "data" <=> last = 1)
    OBVIOUS
  <2>4. Replies(pc, <<m>>)
    BY <2>1
  <2> HIDE DEF m, pc
  <2>5. /\ Got(m.kind, pc)' /\ down' = <<m>>
        /\ server' \in ServerType
        /\ server'.plugin = server.plugin /\ server'.default = server.default
    <3>1. m.n \in Nat
      BY <2>2, LastIsNat, Zenon
    <3>2. QED
      BY <2>2, <2>3, <2>4, <3>1, RepliesStep
  <2>6. Head(down').n = last
    BY <2>2, <2>5, OneMessage
  <2>7. QED
    BY <1>2, <2>2, <2>3, <2>5, <2>6 DEF Prompted
<1>3. CASE /\ server' = [server EXCEPT !.pc = "data", !.switched = TRUE]
           /\ down' = Append(down, Message("switch", server.plugin, 2 * (attempts - 1) + 1))
  <2> DEFINE m == Message("switch", server.plugin, 2 * (attempts - 1) + 1)
  <2>1. m.kind = "switch" /\ m.plugin = server.plugin /\ m.n = 2 * (attempts - 1) + 1
    BY DEF Message
  <2>2. 2 * (attempts - 1) + 1 \in Nat
    BY DEF LoginTypes
  <2>3. down' = Append(down, m)
    BY <1>3
  <2> HIDE DEF m
  <2>4. down' = <<m>> /\ Head(down') = m
    BY <2>3, OneMessage
  <2>5. /\ server' \in ServerType /\ server'.pc = "data"
        /\ server'.plugin = server.plugin /\ server'.default = server.default
    BY <1>3 DEF LoginTypes, ServerType
  <2>6. Got("switch", "data")'
    BY <2>1, <2>2, <2>4, <2>5, GotOne
  <2>7. QED
    BY <2>1, <2>4, <2>5, <2>6
<1>4. QED
  BY <1>1, <1>2, <1>3 DEF GetResponse, D

(***************************************************************************)
(* What the server does with data it has asked for (external).             *)
(***************************************************************************)
LEMMA DataStep ==
    ASSUME LoginTypes, down = <<>>, up' = <<>>, GetData
    PROVE  /\ \/ /\ Answered'
                 /\ ~(server.plugin = "sha256_password" /\ Head(up).data = RequestKey("1"))
              \/ /\ server.plugin = "caching_sha2_password" /\ Head(up).data # EmptyData
                 /\ FastAnswered' \/ Got("full", "full")'
              \/ /\ server.plugin = "sha256_password" /\ Head(up).data = RequestKey("1")
                 /\ Got("key", "rsa")'
              \/ server.pc = "prompted" /\ Got("prompt", "data")' /\ Head(down').n = 1
           /\ server' \in ServerType
           /\ server'.plugin = server.plugin /\ server'.default = server.default
<1>1. CASE Judge(Head(up).data)
  BY <1>1, JudgeStep
<1>2. CASE server.pc = "prompted" /\ Replies("data", <<Message("prompt", "Password: ", 1)>>)
  <2>1. LET m == Message("prompt", "Password: ", 1)
        IN  m.kind = "prompt" /\ m.n = 1 /\ m.n \in Nat
    BY DEF Message
  <2>2. QED
    BY <1>2, <2>1, RepliesStep, OneMessage
<1>3. QED
  BY <1>1, <1>2 DEF GetData, D

(***************************************************************************)
(* The full exchange of caching_sha2_password (external).                  *)
(***************************************************************************)
LEMMA FullStep ==
    ASSUME LoginTypes, down = <<>>, up' = <<>>, GetFull
    PROVE  /\ IF Head(up).data = RequestKey("2") THEN Got("key", "rsa")' ELSE Answered'
           /\ server' \in ServerType
           /\ server'.plugin = server.plugin /\ server'.default = server.default
<1>1. CASE Head(up).data = RequestKey("2") /\ SendKey
  <2>1. Replies("rsa", <<Message("key", "", server.key)>>)
    BY <1>1 DEF SendKey
  <2>2. Message("key", "", server.key).n \in Nat /\ Message("key", "", server.key).kind = "key"
    BY DEF Message, LoginTypes, ServerType
  <2>3. QED
    BY <1>1, <2>1, <2>2, RepliesStep
<1>2. CASE Head(up).data # RequestKey("2") /\ \E right : Verdict(right)
  BY <1>2, VerdictStep
<1>3. QED
  BY <1>1, <1>2 DEF GetFull, D

(***************************************************************************)
(* The server answers one message, in turn (external).                     *)
(***************************************************************************)
LEMMA ServerStepInv ==
    ASSUME LoginTypes, SessionInv, ServerStep
    PROVE  SessionInv' /\ server' \in ServerType
<1>1. /\ down = <<>> /\ up = <<Head(up)>> /\ up' = <<>>
      /\ client.pc \in {"auth", "sha2", "sha2 key", "sha256 key", "dialog", "last prompt", "final"}
  <2>1. up # <<>> /\ up' = Tail(up)
    BY DEF ServerStep
  <2>2. /\ down = <<>> /\ up = <<Head(up)>>
        /\ client.pc \in {"auth", "sha2", "sha2 key", "sha256 key", "dialog", "last prompt", "final"}
    BY <2>1 DEF SessionInv, QuietInv, GreetingInv, AuthInv, Sha2Inv, KeyInv, DialogInv, FinalInv,
                LoginTypes, ClientType, Waiting, Done, Asked, Answered, FastAnswered, Prompted, Got
  <2>3. QED
    BY <2>1, <2>2, OneMessage
<1>2. client' = client /\ attempts' = attempts /\ attempts # 0
  BY <1>1 DEF ServerStep, SessionInv, StartedInv
<1>3. CASE client.pc = "auth"
  <2>1. /\ Asked("response") /\ Head(up).plugin = Named(client.name) /\ client.name = server.default
        /\ client.name = "caching_sha2_password" /\ client.password = NoPassword
                => Head(up).data = EmptyData
    BY <1>1, <1>3 DEF SessionInv, AuthInv, Answered, FastAnswered, Prompted, Got
  <2>2. GetResponse
    BY <2>1 DEF ServerStep, Asked, GetData, GetFull, GetEncrypted
  <2>3. \A name \in {"caching_sha2_password", "sha256_password"} :
          Head(up).plugin = name => client.name = name
    BY <2>1 DEF Named
  <2>4. AuthInv' /\ server' \in ServerType
    BY <1>1, <1>2, <2>1, <2>2, <2>3, ResponseStep DEF AuthInv
  <2>5. QED
    BY <1>2, <1>3, <2>4 DEF SessionInv, QuietInv, InInv, StartedInv, GreetingInv, Sha2Inv,
                            KeyInv, DialogInv, FinalInv, Done
<1>4. CASE client.pc \in {"sha2", "dialog", "last prompt"}
  <2>1. /\ GetData
        /\ client.pc = "sha2" => server.pc = "data" /\ server.plugin = "caching_sha2_password"
        /\ client.pc # "sha2" => server.plugin = "dialog"
        /\ client.pc = "last prompt" => server.pc = "data"
    BY <1>1, <1>4 DEF SessionInv, Sha2Inv, DialogInv, Asked, Answered, FastAnswered, Prompted, Got,
                      ServerStep, GetResponse, GetFull, GetEncrypted
  <2>2. /\ \/ Answered'
           \/ /\ server.plugin = "caching_sha2_password"
              /\ FastAnswered' \/ Got("full", "full")'
           \/ server.plugin = "dialog" /\ client.pc = "dialog" /\ Prompted'
        /\ server' \in ServerType
    BY <1>1, <1>4, <2>1, DataStep DEF Prompted
  <2>3. Sha2Inv' /\ DialogInv'
    BY <1>2, <1>4, <2>1, <2>2 DEF Sha2Inv, DialogInv
  <2>4. QED
    BY <1>2, <1>4, <2>2, <2>3 DEF SessionInv, QuietInv, InInv, StartedInv, GreetingInv, AuthInv,
                                  KeyInv, FinalInv, Done
<1>5. CASE client.pc \in {"sha2 key", "sha256 key"}
  <2>1. /\ client.pc = "sha2 key" => GetFull /\ Head(up).data = RequestKey("2")
        /\ client.pc = "sha256 key" =>
              GetData /\ server.pc = "data" /\ Head(up).data = RequestKey("1")
                      /\ server.plugin = "sha256_password"
    BY <1>1, <1>5 DEF SessionInv, KeyInv, Asked, Got, ServerStep, GetResponse, GetData, GetFull, GetEncrypted
  <2>2. Got("key", "rsa")' /\ server' \in ServerType
    BY <1>1, <1>5, <2>1, DataStep, FullStep
  <2>3. KeyInv'
    BY <2>2 DEF KeyInv
  <2>4. QED
    BY <1>2, <1>5, <2>2, <2>3 DEF SessionInv, QuietInv, InInv, StartedInv, GreetingInv, AuthInv,
                                  Sha2Inv, DialogInv, FinalInv, Done
<1>6. CASE client.pc = "final"
  <2>1. \/ GetEncrypted
        \/ GetFull /\ Head(up).data # RequestKey("2")
        \/ GetData /\ server.pc = "data" /\ Decisive(Head(up).data)
    BY <1>1, <1>6 DEF SessionInv, FinalInv, Asked, Answered, Got, ServerStep, GetResponse, GetData,
                      GetFull, GetEncrypted
  <2>2. Answered' /\ server' \in ServerType
    <3>1. CASE GetEncrypted
      BY <1>1, <3>1, VerdictStep DEF GetEncrypted
    <3>2. CASE GetFull /\ Head(up).data # RequestKey("2")
      BY <1>1, <3>2, FullStep
    <3>3. CASE GetData /\ server.pc = "data" /\ Decisive(Head(up).data)
      BY <1>1, <3>3, DataStep DEF Decisive
    <3>4. QED
      BY <2>1, <3>1, <3>2, <3>3
  <2>3. FinalInv'
    BY <2>2 DEF FinalInv
  <2>4. QED
    BY <1>2, <1>6, <2>2, <2>3 DEF SessionInv, QuietInv, InInv, StartedInv, GreetingInv, AuthInv,
                                  Sha2Inv, KeyInv, DialogInv, Done
<1>7. QED
  BY <1>1, <1>3, <1>4, <1>5, <1>6

-----------------------------------------------------------------------------
(* What the client does (connections.py 830-1020, _auth.py 118-266).       *)

\* The client is about to read the one packet there is.
Reading ==
    /\ LoginTypes /\ SessionInv
    /\ up = <<>> /\ down' = <<>>
    /\ UNCHANGED <<server, attempts, changes>>
    /\ attempts # 0

\* What a step of connect() has to show.
Kept == SessionInv' /\ client' \in ClientType

(***************************************************************************)
(* connect() is over, and nothing is left on the wire                      *)
(* (connections.py 600-641).                                               *)
(***************************************************************************)
LEMMA QuietStep ==
    ASSUME client'.pc \in Done \cup {"idle"}, up' = <<>>, down' = <<>>,
           client'.pc = "in" => server'.pc = "in",
           client'.pc # "idle" => attempts' # 0
    PROVE  SessionInv'
BY DEF SessionInv, QuietInv, InInv, StartedInv, GreetingInv, AuthInv, Sha2Inv, KeyInv, DialogInv,
       FinalInv, Done

(***************************************************************************)
(* An exception of the client's own (_auth.py 180, 223-226, 256-259).      *)
(***************************************************************************)
LEMMA RaisesStep ==
    ASSUME Reading, NEW cl \in ClientType, Raises(cl)
    PROVE  Kept
<1>1. client' \in ClientType /\ client'.pc = "raised" /\ up' = <<>> /\ down' = <<>> /\ attempts' # 0
  BY DEF Reading, Raises, LoginTypes, ClientType, Done
<1>2. QED
  BY <1>1, QuietStep DEF Kept, Done

(***************************************************************************)
(* A message of the client's on an empty wire (connections.py 1000-1020).  *)
(***************************************************************************)
LEMMA SendsStep ==
    ASSUME Reading, NEW cl \in ClientType, NEW d, NEW pc \in Waiting, Sends(cl, d, pc)
    PROVE  /\ Asked(server.pc)' /\ Head(up').data = d
           /\ client' \in ClientType /\ client'.pc = pc
<1>1. up' = <<Response("", d)>> /\ Head(up') = Response("", d) /\ up' # <<>>
  BY OneMessage DEF Sends, Reading
<1>2. client' \in ClientType /\ client'.pc = pc
  BY DEF Sends, ClientType
<1>3. Response("", d).data = d
  BY DEF Response
<1>4. server' = server /\ down' = <<>>
  BY DEF Reading
<1>5. Asked(server.pc)'
  BY <1>1, <1>4 DEF Asked
<1>6. QED
  BY <1>1, <1>2, <1>3, <1>5

(***************************************************************************)
(* The last message of the client's: the OK packet is what it reads next   *)
(* (_auth.py 161, 180, 191, 217, 250, 259).                                *)
(***************************************************************************)
LEMMA FinalStep ==
    ASSUME Reading, NEW cl \in ClientType, NEW d, Sends(cl, d, "final"),
           \/ server.pc = "rsa"
           \/ server.pc = "full" /\ d # RequestKey("2")
           \/ server.pc = "data" /\ Decisive(d)
    PROVE  Kept
<1>1. /\ Asked(server.pc)' /\ Head(up').data = d
      /\ client' \in ClientType /\ client'.pc = "final"
  BY SendsStep DEF Waiting
<1>2. FinalInv'
  BY <1>1 DEF FinalInv, Decisive, Reading
<1>3. QED
  BY <1>1, <1>2 DEF Kept, Reading, SessionInv, QuietInv, InInv, StartedInv, GreetingInv, AuthInv,
                    Sha2Inv, KeyInv, DialogInv, Done

(***************************************************************************)
(* The kinds of data tell apart a password from a request for the key.     *)
(***************************************************************************)
LEMMA DataKinds ==
    ASSUME NEW pw, NEW salt, NEW key, NEW byte \in {"1", "2"}
    PROVE  /\ Plain(pw) # RequestKey(byte) /\ EmptyData # RequestKey(byte)
           /\ Sha2RsaEncrypt(pw, salt, key) # RequestKey(byte)
BY DEF Plain, RequestKey, EmptyData, Sha2RsaEncrypt, Term

(***************************************************************************)
(* A password encrypted with the public key (_auth.py 171-180, 256-259).   *)
(***************************************************************************)
LEMMA EncryptedStep ==
    ASSUME Reading, NEW cl \in ClientType, SendsEncrypted(cl),
           \/ server.pc \in {"rsa", "full"}
           \/ server.pc = "data" /\ server.plugin = "sha256_password"
    PROVE  Kept
<1>1. CASE Sends(cl, Sha2RsaEncrypt(cl.password, cl.salt, cl.key), "final")
  BY <1>1, FinalStep, DataKinds DEF Decisive
<1>2. CASE Raises(cl)
  BY <1>2, RaisesStep
<1>3. QED
  BY <1>1, <1>2 DEF SendsEncrypted

(***************************************************************************)
(* The end of sha256_password_auth (_auth.py 163-183).                     *)
(***************************************************************************)
LEMMA Sha256Step ==
    ASSUME Reading, NEW cl \in ClientType, Sha256Data(cl),
           server.pc = "rsa" \/ (server.pc = "data" /\ server.plugin = "sha256_password")
    PROVE  Kept
<1>1. CASE Sends(cl, EmptyData, "final")
  BY <1>1, FinalStep, DataKinds DEF Decisive
<1>2. CASE Raises(client)
  BY <1>2, RaisesStep DEF Reading, LoginTypes
<1>3. CASE SendsEncrypted(cl)
  BY <1>3, EncryptedStep
<1>4. QED
  BY <1>1, <1>2, <1>3 DEF Sha256Data

(***************************************************************************)
(* What is there to read (connections.py 692-729).                         *)
(***************************************************************************)
LEMMA ReadingStep ==
    ASSUME LoginTypes, SessionInv, client.pc \in Waiting, down # <<>>,
           down' = Tail(down), UNCHANGED <<server, attempts, changes>>
    PROVE  /\ up = <<>> /\ attempts # 0
           /\ FastAnswered \/ Reading
           /\ FastAnswered =>
                /\ M.kind = "fast" /\ M = down[1]
                /\ down' = <<down[2]>> /\ down'[1] = down[2] /\ Head(down') = down[2]
<1>1. up = <<>> /\ attempts # 0
  BY DEF SessionInv, QuietInv, StartedInv, GreetingInv, AuthInv, Sha2Inv, KeyInv, DialogInv, FinalInv,
         Waiting, Asked, Answered, FastAnswered, Prompted, Got
<1>2. FastAnswered \/ down = <<Head(down)>>
  BY DEF SessionInv, QuietInv, GreetingInv, AuthInv, Sha2Inv, KeyInv, DialogInv, FinalInv,
         Waiting, Asked, Answered, Prompted, Got
<1>3. ASSUME down = <<Head(down)>>
      PROVE  Reading
  <2>1. Tail(down) = <<>>
    BY <1>3, OneMessage
  <2>2. QED
    BY <1>1, <2>1 DEF Reading
<1>4. ASSUME FastAnswered
      PROVE  /\ M.kind = "fast" /\ M = down[1]
             /\ down' = <<down[2]>> /\ down'[1] = down[2] /\ Head(down') = down[2]
  <2>1. down = <<down[1], down[2]>> /\ down[1].kind = "fast"
    BY <1>4 DEF FastAnswered
  <2>2. Head(down) = down[1] /\ Tail(down) = <<down[2]>>
    <3> DEFINE first == down[1]
               second == down[2]
    <3>1. down = <<first, second>>
      BY <2>1
    <3> HIDE DEF first, second
    <3>2. Head(down) = first /\ Tail(down) = <<second>>
      BY <3>1, TwoMessages
    <3>3. QED
      BY <3>2 DEF first, second
  <2>3. QED
    BY <2>1, <2>2, OneMessage DEF M
<1>5. QED
  BY <1>1, <1>2, <1>3, <1>4

(***************************************************************************)
(* _request_authentication (connections.py 830-906).                       *)
(***************************************************************************)
LEMMA RequestStep ==
    ASSUME Reading, RequestAuthentication
    PROVE  Kept
<1> DEFINE salt == GreetingSalt(M.n)
           plugin == Named(M.plugin)
           data == FirstData(M.plugin, salt)
           secure == client.secure \/ (client.ssl /\ server.tls)
<1>1. /\ client.pc = "greeting" /\ Got("greeting", "response") /\ M.plugin = server.default
      /\ M.n \in Nat
  BY DEF Reading, RequestAuthentication, Reads, SessionInv, GreetingInv, Got, M
<1>2. salt \in [n : Nat, nul : BOOLEAN]
  BY <1>1 DEF GreetingSalt, Salt, SaltLength
<1>3. secure \in BOOLEAN /\ M.plugin \in Defaults \cup {""}
  BY <1>1 DEF Reading, LoginTypes, ClientType, ServerType
<1>4. /\ client' = [client EXCEPT !.pc = "auth", !.salt = salt, !.name = M.plugin, !.secure = secure]
      /\ up' = <<Response(plugin, data)>>
  BY DEF RequestAuthentication
<1>5. data = EmptyData \/ M.plugin # "caching_sha2_password" \/ client.password # NoPassword
  BY DEF FirstData, ScrambleCachingSha2
<1> HIDE DEF salt, plugin, data, secure
<1>6. /\ client' \in ClientType /\ client'.pc = "auth" /\ client'.name = M.plugin
      /\ client'.password = client.password
  BY <1>2, <1>3, <1>4 DEF Reading, LoginTypes, ClientType, Waiting
<1>7. up' # <<>> /\ Head(up') = Response(plugin, data) /\ up' = <<Head(up')>>
  BY <1>4, OneMessage
<1>8. Response(plugin, data).plugin = plugin /\ Response(plugin, data).data = data
  BY DEF Response
<1>9. Asked("response")'
  BY <1>1, <1>7 DEF Asked, Reading, Got
<1>10. AuthInv'
  <2>1. client'.name = server'.default
    BY <1>1, <1>6 DEF Reading
  <2>2. Head(up').plugin = Named(client'.name)
    BY <1>6, <1>7, <1>8 DEF plugin
  <2>3. client'.name = "caching_sha2_password" /\ client'.password = NoPassword
          => Head(up').data = EmptyData
    BY <1>5, <1>6, <1>7, <1>8
  <2>4. QED
    BY <1>9, <2>1, <2>2, <2>3 DEF AuthInv
<1>11. QED
  BY <1>6, <1>10 DEF Kept, Reading, SessionInv, QuietInv, InInv, StartedInv, GreetingInv, Sha2Inv,
                     KeyInv, DialogInv, FinalInv, Done

(***************************************************************************)
(* The answer to the fast path, when it is not `fast' (_auth.py 236-266).  *)
(***************************************************************************)
LEMMA Sha2FullStep ==
    ASSUME Reading, Sha2Full, server.pc = "full"
    PROVE  Kept
<1>0. client \in ClientType
  BY DEF Reading, LoginTypes
<1>1. CASE Sends(client, Plain(client.password), "final")
  BY <1>0, <1>1, FinalStep, DataKinds
<1>2. CASE Sends(client, RequestKey("2"), "sha2 key")
  <2>1. /\ Asked("full")' /\ Head(up').data = RequestKey("2")
        /\ client' \in ClientType /\ client'.pc = "sha2 key"
    BY <1>0, <1>2, SendsStep DEF Waiting, Reading, Asked
  <2>2. KeyInv'
    BY <2>1 DEF KeyInv
  <2>3. QED
    BY <2>1, <2>2 DEF Kept, Reading, SessionInv, QuietInv, InInv, StartedInv, GreetingInv, AuthInv,
                      Sha2Inv, DialogInv, FinalInv, Done
<1>3. CASE SendsEncrypted(client)
  BY <1>0, <1>3, EncryptedStep
<1>4. QED
  BY <1>1, <1>2, <1>3 DEF Sha2Full

(***************************************************************************)
(* After `fast' the OK packet is still to be read (_auth.py 236-241).      *)
(***************************************************************************)
LEMMA Sha2ResultStep ==
    ASSUME LoginTypes, SessionInv, client.pc \in Waiting, down # <<>>,
           down' = Tail(down), UNCHANGED <<server, attempts, changes>>,
           Sha2Result,
           FastAnswered \/ (Reading /\ M.kind # "fast" /\ (M.kind = "full" => server.pc = "full"))
    PROVE  Kept
<1>1. CASE FastAnswered
  <2>1. /\ up = <<>> /\ attempts # 0 /\ M.kind = "fast"
        /\ down' = <<down[2]>> /\ Head(down') = down[2]
    BY <1>1, ReadingStep
  <2>2. client' = [client EXCEPT !.pc = "final"] /\ up' = <<>>
    BY <2>1 DEF Sha2Result
  <2>3. client' \in ClientType /\ client'.pc = "final"
    BY <2>2 DEF LoginTypes, ClientType, Waiting
  <2>4. Got("ok", "in")'
    BY <1>1, <2>1, <2>2, GotOne DEF FastAnswered
  <2>5. FinalInv'
    BY <2>4 DEF FinalInv, Answered
  <2>6. QED
    BY <2>1, <2>3, <2>5 DEF Kept, SessionInv, QuietInv, InInv, StartedInv, GreetingInv, AuthInv, Sha2Inv,
                            KeyInv, DialogInv, Done
<1>2. CASE Reading /\ M.kind # "fast" /\ (M.kind = "full" => server.pc = "full")
  BY <1>2, Sha2FullStep, RaisesStep DEF Sha2Result, Reading, LoginTypes
<1>3. QED
  BY <1>1, <1>2

(***************************************************************************)
(* _process_auth after a request to switch (connections.py 908-1015).      *)
(***************************************************************************)
LEMMA SwitchStep ==
    ASSUME Reading, Switch, server.pc = "data", M.plugin = server.plugin, M.n \in Nat
    PROVE  Kept
<1> DEFINE pw == client.password
           salt == Salt(M.n, TRUE)
           cl == [client EXCEPT !.salt = salt]
<1>1. client \in ClientType /\ cl \in ClientType
  BY DEF Reading, LoginTypes, ClientType, Salt
<1>2. CASE Raises(client)
  BY <1>1, <1>2, RaisesStep
<1>3. CASE server.plugin = "caching_sha2_password"
  <2>1. CASE Sends(client, EmptyData, "final")
    BY <1>1, <1>3, <2>1, FinalStep, DataKinds DEF Decisive
  <2>2. CASE Sends(cl, ScrambleCachingSha2(pw, salt), "sha2")
    <3>1. Asked("data")' /\ client' \in ClientType /\ client'.pc = "sha2"
      BY <1>1, <2>2, SendsStep DEF Waiting, Reading, Asked
    <3>2. Sha2Inv'
      BY <1>3, <3>1 DEF Sha2Inv, Reading
    <3>3. QED
      BY <3>1, <3>2 DEF Kept, Reading, SessionInv, QuietInv, InInv, StartedInv, GreetingInv, AuthInv,
                        KeyInv, DialogInv, FinalInv, Done
  <2>3. QED
    BY <1>2, <1>3, <2>1, <2>2 DEF Switch
<1>4. CASE server.plugin = "sha256_password"
  <2>1. CASE Sends(client, Plain(pw), "final")
    BY <1>1, <1>4, <2>1, FinalStep, DataKinds DEF Decisive
  <2>2. CASE Sends(cl, RequestKey("1"), "sha256 key")
    <3>1. /\ Asked("data")' /\ Head(up').data = RequestKey("1")
          /\ client' \in ClientType /\ client'.pc = "sha256 key"
      BY <1>1, <2>2, SendsStep DEF Waiting, Reading, Asked
    <3>2. KeyInv'
      BY <1>4, <3>1 DEF KeyInv, Reading
    <3>3. QED
      BY <3>1, <3>2 DEF Kept, Reading, SessionInv, QuietInv, InInv, StartedInv, GreetingInv, AuthInv,
                        Sha2Inv, DialogInv, FinalInv, Done
  <2>3. CASE Sha256Data(cl)
    BY <1>1, <1>4, <2>3, Sha256Step
  <2>4. QED
    BY <1>2, <1>4, <2>1, <2>2, <2>3 DEF Switch
<1>5. CASE server.plugin \notin {"caching_sha2_password", "sha256_password"}
  <2>1. CASE \E d : Sends(client, d, "final")
    BY <1>1, <1>5, <2>1, FinalStep DEF Decisive
  <2>2. Raises(client) \/ \E d : Sends(client, d, "final")
    BY <1>5 DEF Switch
  <2>3. QED
    BY <1>2, <2>1, <2>2
<1>6. QED
  BY <1>3, <1>4, <1>5

(***************************************************************************)
(* A prompt of the plugin dialog (connections.py 967-997).                 *)
(***************************************************************************)
LEMMA PromptStep ==
    ASSUME Reading, Prompt, Prompted
    PROVE  Kept
<1>1. client \in ClientType
  BY DEF Reading, LoginTypes
<1>2. CASE Raises(client)
  BY <1>1, <1>2, RaisesStep
<1>3. CASE M.n = 1 /\ Sends(client, Plain(client.password), "last prompt")
  <2>1. server.pc = "data"
    <3>1. M.n # 0
      BY <1>3, LastIsNat, Zenon
    <3>2. QED
      BY <3>1, Zenon DEF Prompted, Got, M
  <2>2. Asked("data")' /\ client' \in ClientType /\ client'.pc = "last prompt"
    BY <1>1, <1>3, <2>1, SendsStep DEF Waiting, Reading, Asked
  <2>3. DialogInv'
    BY <2>2 DEF DialogInv, Reading, Prompted
  <2>4. QED
    BY <2>2, <2>3 DEF Kept, Reading, SessionInv, QuietInv, InInv, StartedInv, GreetingInv, AuthInv,
                      Sha2Inv, KeyInv, FinalInv, Done
<1>4. CASE M.n # 1 /\ Sends(client, Plain(client.password), "dialog")
  <2>1. server.pc = "prompted"
    BY <1>4 DEF Prompted, Got, M
  <2>2. Asked("prompted")' /\ client' \in ClientType /\ client'.pc = "dialog"
    BY <1>1, <1>4, <2>1, SendsStep DEF Waiting, Reading, Asked
  <2>3. DialogInv'
    BY <2>2 DEF DialogInv, Reading, Prompted
  <2>4. QED
    BY <2>2, <2>3 DEF Kept, Reading, SessionInv, QuietInv, InInv, StartedInv, GreetingInv, AuthInv,
                      Sha2Inv, KeyInv, FinalInv, Done
<1>5. QED
  BY <1>2, <1>3, <1>4 DEF Prompt

(***************************************************************************)
(* Every step of the client's (connections.py 830-1020, _auth.py 118-266). *)
(***************************************************************************)
LEMMA ClientStepInv ==
    ASSUME LoginTypes, SessionInv, ClientStep
    PROVE  Kept
<1>1. down' = Tail(down) /\ UNCHANGED <<server, attempts, changes>> /\ down # <<>>
      /\ client.pc \in Waiting
  BY DEF ClientStep, RequestAuthentication, AuthSwitch, StartDialog, AuthContinues, FastPathAnswered,
         KeyReceived, LoggedIn, Refused, Reads, Waiting
<1>2. /\ up = <<>> /\ attempts # 0
      /\ FastAnswered \/ Reading
      /\ FastAnswered => M.kind = "fast"
  BY <1>1, ReadingStep
<1>3. CASE RequestAuthentication
  <2>1. Reading
    BY <1>2, <1>3 DEF RequestAuthentication, Reads, SessionInv, GreetingInv, Got, M
  <2>2. QED
    BY <1>3, <2>1, RequestStep
<1>4. CASE AuthSwitch
  <2>1. Reading /\ server.pc = "data" /\ M.plugin = server.plugin /\ M.n \in Nat
    BY <1>2, <1>4 DEF AuthSwitch, Reads, SessionInv, AuthInv, Asked, Answered, Prompted, Got, M
  <2>2. QED
    BY <1>4, <2>1, SwitchStep DEF AuthSwitch
<1>5. CASE StartDialog
  <2>1. Reading /\ Prompted
    BY <1>2, <1>5 DEF StartDialog, Reads, SessionInv, AuthInv, DialogInv, Asked, Answered, Got, M
  <2>2. QED
    BY <1>5, <2>1, PromptStep DEF StartDialog
<1>6. CASE AuthContinues
  <2>1. \/ /\ FastAnswered \/ (Reading /\ M.kind = "full" /\ server.pc = "full")
           /\ client.name = "caching_sha2_password" /\ client.password # NoPassword
        \/ /\ Reading /\ M.kind = "key" /\ server.pc = "rsa" /\ client.name = "sha256_password"
           /\ M.n \in Nat
    BY <1>2, <1>6 DEF AuthContinues, ExtraAuthData, Reads, SessionInv, AuthInv, Asked, Answered,
                      Prompted, Got, M
  <2>2. CASE client.name = "caching_sha2_password"
    <3>1. Sha2Result
      BY <1>6, <2>1, <2>2 DEF AuthContinues
    <3>2. QED
      BY <1>1, <2>1, <2>2, <3>1, Sha2ResultStep
  <2>3. CASE client.name = "sha256_password"
    <3>1. CASE Sends(client, Plain(client.password), "final")
      BY <2>1, <2>3, <3>1, FinalStep DEF LoginTypes
    <3>2. CASE Sha256Data([client EXCEPT !.key = M.n])
      <4>1. [client EXCEPT !.key = M.n] \in ClientType
        BY <2>1, <2>3 DEF LoginTypes, ClientType
      <4>2. QED
        BY <2>1, <2>3, <3>2, <4>1, Sha256Step
    <3>3. QED
      BY <1>6, <2>3, <3>1, <3>2 DEF AuthContinues
  <2>4. QED
    BY <2>1, <2>2, <2>3
<1>7. CASE FastPathAnswered
  <2>1. FastAnswered \/ (Reading /\ M.kind # "fast" /\ (M.kind = "full" => server.pc = "full"))
    BY <1>2, <1>7 DEF FastPathAnswered, Reads, SessionInv, Sha2Inv, Asked, Answered, Got, M
  <2>2. QED
    BY <1>1, <1>7, <2>1, Sha2ResultStep DEF FastPathAnswered
<1>8. CASE KeyReceived
  <2>1. Reading /\ M.kind = "key" /\ server.pc = "rsa" /\ M.n \in Nat
    BY <1>2, <1>8 DEF KeyReceived, Reads, SessionInv, KeyInv, Asked, Got, M
  <2>2. [client EXCEPT !.key = M.n] \in ClientType
    BY <2>1 DEF LoginTypes, ClientType
  <2>3. Sha256Data([client EXCEPT !.key = M.n]) \/ SendsEncrypted([client EXCEPT !.key = M.n])
    BY <1>8, <2>1 DEF KeyReceived
  <2>4. QED
    BY <2>1, <2>2, <2>3, Sha256Step, EncryptedStep
<1>9. CASE LoggedIn
  <2>1. Reading /\ server.pc = "in"
    BY <1>2, <1>9 DEF LoggedIn, Reads, SessionInv, AuthInv, DialogInv, FinalInv, Asked, Answered,
                      Prompted, Got, M
  <2>2. /\ client' \in ClientType /\ client'.pc = "in" /\ up' = <<>> /\ down' = <<>>
        /\ server'.pc = "in" /\ attempts' # 0
    BY <1>9, <2>1 DEF LoggedIn, Reading, LoginTypes, ClientType, Done
  <2>3. QED
    BY <2>2, QuietStep DEF Kept, Done
<1>10. CASE Refused
  <2>1. Reading
    BY <1>2, <1>10 DEF Refused
  <2>2. /\ client' \in ClientType /\ client'.pc = "refused" /\ up' = <<>> /\ down' = <<>>
        /\ attempts' # 0
    BY <1>10, <2>1 DEF Refused, Reading, LoginTypes, ClientType, Done
  <2>3. QED
    BY <2>2, QuietStep DEF Kept, Done
<1>11. QED
  BY <1>3, <1>4, <1>5, <1>6, <1>7, <1>8, <1>9, <1>10 DEF ClientStep

-----------------------------------------------------------------------------

\* What every step keeps.
LoginInv == LoginTypes /\ SessionInv

(***************************************************************************)
(* A connection object starts with nothing on the wire                     *)
(* (connections.py 190-362).                                               *)
(***************************************************************************)
LEMMA LoginInitInv == ASSUME LoginAssumption, LoginInit PROVE LoginInv
<1>1. PICK ssl, tls, extras \in BOOLEAN, mine, theirs \in AnyPassword, default \in Defaults :
        \E plugin \in PluginsOf(default) :
         /\ client = [pc |-> "idle", ssl |-> ssl, extras |-> extras, password |-> mine,
                      secure |-> FALSE, key |-> 0, salt |-> NoSalt, name |-> ""]
         /\ server = [pc |-> "idle", tls |-> tls, default |-> default,
                      plugin |-> plugin, password |-> theirs,
                      key |-> 1, cached |-> FALSE, switched |-> FALSE]
  BY Zenon DEF LoginInit
<1>2. PluginsOf(default) \subseteq Plugins
  BY DEF PluginsOf
<1>3. client \in ClientType /\ client.pc = "idle"
  <2>1. NoSalt \in [n : Nat, nul : BOOLEAN]
    BY DEF NoSalt, Salt
  <2>2. PICK plugin \in PluginsOf(default) :
         client = [pc |-> "idle", ssl |-> ssl, extras |-> extras, password |-> mine,
                   secure |-> FALSE, key |-> 0, salt |-> NoSalt, name |-> ""]
    BY <1>1, Zenon
  <2>3. FALSE \in BOOLEAN /\ 0 \in Nat /\ "" \in Defaults \cup {""}
        /\ "idle" \in Waiting \cup Done \cup {"idle"}
    OBVIOUS
  <2>4. client.pc = "idle"
    BY <2>2
  <2>5. QED
    BY <1>1, <2>1, <2>2, <2>3, <2>4 DEF ClientType
<1>4. server \in ServerType
  <2>1. PICK plugin \in PluginsOf(default) :
         server = [pc |-> "idle", tls |-> tls, default |-> default,
                   plugin |-> plugin, password |-> theirs,
                   key |-> 1, cached |-> FALSE, switched |-> FALSE]
    BY <1>1, Zenon
  <2>2. plugin \in Plugins
    BY <1>2
  <2>3. QED
    BY <1>1, <2>1, <2>2 DEF ServerType
<1>5. up = <<>> /\ down = <<>> /\ attempts \in Nat /\ changes \in Nat
  <2>1. up = <<>> /\ down = <<>> /\ attempts = 0 /\ changes = 0
    BY Zenon DEF LoginInit
  <2>2. QED
    BY <2>1
<1>6. QED
  BY <1>3, <1>4, <1>5 DEF LoginInv, LoginTypes, SessionInv, QuietInv, InInv, StartedInv, GreetingInv, AuthInv, Sha2Inv,
                    KeyInv, DialogInv, FinalInv, Done

(***************************************************************************)
(* connect() starts with the greeting of a new session                     *)
(* (connections.py 595-641, 1031-1104).                                    *)
(***************************************************************************)
LEMMA ConnectStep == ASSUME LoginInv, Connect PROVE LoginInv'
<1>1. client' \in ClientType /\ client'.pc = "greeting"
  BY DEF Connect, LoginInv, LoginTypes, ClientType, Waiting
<1>2. server' \in ServerType /\ server'.pc = "response" /\ server'.default = server.default
  BY DEF Connect, LoginInv, LoginTypes, ServerType
<1>3. attempts' \in Nat /\ attempts' # 0 /\ changes' \in Nat /\ 2 * attempts \in Nat
  BY DEF Connect, LoginInv, LoginTypes
<1> DEFINE m == Message("greeting", server.default, 2 * attempts)
<1>4. m.kind = "greeting" /\ m.plugin = server.default /\ m.n = 2 * attempts
  BY DEF Message
<1>5. up' = <<>> /\ down' = <<m>>
  BY DEF Connect
<1> HIDE DEF m
<1>6. Got("greeting", "response")'
  BY <1>2, <1>3, <1>4, <1>5, GotOne
<1>7. Head(down').plugin = server'.default
  BY <1>2, <1>4, <1>5, OneMessage
<1>8. GreetingInv'
  BY <1>6, <1>7 DEF GreetingInv
<1>9. QED
  BY <1>1, <1>2, <1>3, <1>8 DEF LoginInv, LoginTypes, SessionInv, QuietInv, InInv, StartedInv, AuthInv,
                                Sha2Inv, KeyInv, DialogInv, FinalInv, Done

(***************************************************************************)
(* Every step of the login keeps the invariant (connections.py 595-1020).  *)
(***************************************************************************)
LEMMA LoginStepInv == ASSUME LoginInv, [LoginNext]_vars PROVE LoginInv'
<1>1. CASE Connect
  BY <1>1, ConnectStep
<1>2. CASE ClientStep
  <2>1. UNCHANGED <<server, attempts, changes>>
    BY <1>2 DEF ClientStep
  <2>2. QED
    BY <1>2, <2>1, ClientStepInv DEF LoginInv, LoginTypes, Kept
<1>3. CASE ServerStep
  <2>1. UNCHANGED <<client, attempts, changes>>
    BY <1>3 DEF ServerStep
  <2>2. QED
    BY <1>3, <2>1, ServerStepInv DEF LoginInv, LoginTypes
<1>4. CASE Finish
  <2>1. client' \in ClientType /\ client'.pc = "idle" /\ up' = <<>> /\ down' = <<>>
    BY <1>4 DEF Finish, LoginInv, LoginTypes, ClientType
  <2>2. server' \in ServerType /\ attempts' \in Nat /\ changes' \in Nat
    BY <1>4 DEF Finish, LoginInv, LoginTypes, ServerType
  <2>3. QED
    BY <2>1, <2>2, QuietStep DEF LoginInv, LoginTypes
<1>5. CASE ConnectionBreaks
  <2>1. client' \in ClientType /\ client'.pc = "lost" /\ up' = <<>> /\ down' = <<>>
    BY <1>5 DEF ConnectionBreaks, LoginInv, LoginTypes, ClientType, Done
  <2>2. /\ server' \in ServerType /\ attempts' \in Nat /\ changes' \in Nat
        /\ attempts' = attempts
    BY <1>5 DEF ConnectionBreaks, Change, LoginInv, LoginTypes
  <2>3. attempts # 0
    BY <1>5 DEF ConnectionBreaks, Waiting, LoginInv, SessionInv, StartedInv
  <2>4. QED
    BY <2>1, <2>2, <2>3, QuietStep DEF LoginInv, LoginTypes, Done
<1>6. CASE Restart \/ AlterUser
  <2>1. client.pc = "idle" /\ UNCHANGED <<client, up, down, attempts>> /\ changes' \in Nat
    <3>1. client.pc = "idle" /\ UNCHANGED <<client, up, down, attempts>> /\ Change
      BY <1>6, Zenon DEF Restart, AlterUser
    <3>2. QED
      BY <3>1 DEF Change, LoginInv, LoginTypes
  <2>2. server' \in ServerType
    <3>1. PluginsOf(server.default) \subseteq Plugins
      BY DEF PluginsOf
    <3>2. CASE Restart
      <4>1. server' = [server EXCEPT !.key = server.key + 1, !.cached = FALSE]
        BY <3>2 DEF Restart
      <4>2. server.key + 1 \in Nat
        BY DEF LoginInv, LoginTypes, ServerType
      <4>3. QED
        BY <4>1, <4>2 DEF LoginInv, LoginTypes, ServerType
    <3>3. CASE AlterUser
      <4>1. PICK plugin \in PluginsOf(server.default), pw \in AnyPassword :
              server' = [server EXCEPT !.plugin = plugin, !.password = pw, !.cached = FALSE]
        BY <3>3 DEF AlterUser
      <4>2. plugin \in Plugins
        BY <3>1
      <4>3. QED
        BY <4>1, <4>2 DEF LoginInv, LoginTypes, ServerType
    <3>4. QED
      BY <1>6, <3>2, <3>3
  <2>3. up' = <<>> /\ down' = <<>>
    BY <2>1 DEF LoginInv, SessionInv, QuietInv
  <2>4. QED
    BY <2>1, <2>2, <2>3, QuietStep DEF LoginInv, LoginTypes
<1>7. CASE UNCHANGED vars
  BY <1>7 DEF vars, LoginInv, LoginTypes, SessionInv, QuietInv, InInv, StartedInv, GreetingInv, AuthInv,
              Sha2Inv, KeyInv, DialogInv, FinalInv, Asked, Got, Answered, FastAnswered, Prompted, Decisive
<1>8. QED
  BY <1>1, <1>2, <1>3, <1>4, <1>5, <1>6, <1>7 DEF LoginNext

(***************************************************************************)
(* connect() returns only into a session the server has granted, with      *)
(* nothing left on the wire, however often the server is restarted, the    *)
(* account changed and the connection lost (connections.py 907, 1007-1020; *)
(* _auth.py 118-122, 236-241).                                             *)
(***************************************************************************)
THEOREM LoginAgreesCorrect == LoginSpec => []LoginAgrees
<1>1. LoginInit => LoginInv
  BY LoginAssumption, LoginInitInv
<1>2. LoginInv /\ [LoginNext]_vars => LoginInv'
  BY LoginStepInv
<1>3. LoginInv => LoginAgrees
  BY DEF LoginInv, SessionInv, QuietInv, InInv, LoginAgrees, Done
<1>4. QED
  BY <1>1, <1>2, <1>3, PTL DEF LoginSpec

(***************************************************************************)
(* Every variable keeps its type, and the two ends speak in turn           *)
(* (connections.py 595-1020).                                              *)
(***************************************************************************)
THEOREM LoginTypeCorrect == LoginSpec => []LoginTypeOK
<1>1. LoginInit => LoginInv
  BY LoginAssumption, LoginInitInv
<1>2. LoginInv /\ [LoginNext]_vars => LoginInv'
  BY LoginStepInv
<1>3. LoginInv => LoginTypeOK
  <2>1. ASSUME LoginInv
        PROVE  Len(up) <= 1 /\ Len(down) <= 2
    <3>1. /\ up = <<>> \/ up = <<Head(up)>>
          /\ down = <<>> \/ down = <<Head(down)>> \/ Len(down) = 2
      BY <2>1 DEF LoginInv, LoginTypes, ClientType, SessionInv, QuietInv, GreetingInv, AuthInv, Sha2Inv,
                  KeyInv, DialogInv, FinalInv, Waiting, Done, Asked, Answered, FastAnswered, Prompted, Got
    <3>2. /\ Len(<<>>) <= 1 /\ Len(<<>>) <= 2
          /\ \A x : Len(<<x>>) <= 1 /\ Len(<<x>>) <= 2
      OBVIOUS
    <3>3. Len(up) <= 1
      BY <3>1, <3>2, Zenon
    <3>4. CASE Len(down) = 2
      BY <3>4, <3>3
    <3>5. CASE down = <<>> \/ down = <<Head(down)>>
      BY <3>2, <3>3, <3>5, Zenon
    <3>6. QED
      BY <3>1, <3>4, <3>5
  <2>2. QED
    BY <2>1 DEF LoginInv, LoginTypes, ClientType, ServerType, LoginTypeOK
<1>4. QED
  BY <1>1, <1>2, <1>3, PTL DEF LoginSpec

-----------------------------------------------------------------------------
(***************************************************************************)
(* What is said (connections.py 830-1020; _auth.py 29-266).  Every proof   *)
(* of the password is made with the salt of the session's last greeting or *)
(* switch and for the account's plugin, so that the server's error packet  *)
(* means another password or a key the client has kept for too long.       *)
(***************************************************************************)
Mistaken ==
    client.password # server.password \/ client.key \notin {0, server.key}

\* Which server and account there can be, and when _secure is set.
AccountInv ==
    /\ client.pc = "idle" => server.pc = "idle"
    /\ server.key # 0
    /\ server.default = "" => server.plugin \in {"mysql_native_password", "mysql_old_password"}
    /\ client.secure => client.ssl /\ server.tls
    /\ client.pc \in Waiting \ {"greeting"} => (client.ssl /\ server.tls => client.secure)

\* Which account brings the server where it is.
TurnInv ==
    /\ server.pc = "response" => ~server.switched
    /\ server.pc = "data" => server.switched \/ server.plugin = "dialog"
    /\ server.pc = "prompted" => server.plugin = "dialog"
    /\ server.pc = "full" => server.plugin = "caching_sha2_password"
    /\ server.pc = "rsa" => server.plugin \in {"sha256_password", "caching_sha2_password"}

\* What a packet on its way to the client tells it.
MessageInv ==
    client.pc \in Waiting /\ down # <<>> =>
        /\ M.kind = "greeting" => M.n = 2 * (attempts - 1)
        /\ M.kind = "switch" =>
             /\ server.switched /\ M.n = Nonce
             /\ server.default = "" => server.plugin = "mysql_old_password"
        /\ M.kind = "key" => M.n = server.key /\ client.password # NoPassword /\ ~client.secure
        /\ M.kind = "err" => Mistaken

\* What the client has kept for the message it waits for.
PhaseInv ==
    /\ client.pc = "auth" =>
         /\ client.salt = Salt(2 * (attempts - 1), FALSE)
         /\ server.switched => down # <<>> /\ M.kind = "switch"
    /\ client.pc \in {"sha2", "sha2 key", "sha256 key"} =>
         client.salt.n = Nonce /\ client.password # NoPassword
    /\ client.pc \in {"sha2 key", "sha256 key"} => ~client.secure
    /\ client.pc \in {"sha2", "sha2 key"} => server.plugin = "caching_sha2_password"
    /\ client.pc = "sha256 key" => server.plugin = "sha256_password"
    /\ client.pc = "sha2" /\ down # <<>> => M.kind # "ok"

\* The password encrypted with the key the client has.
Encrypts(cl, d) ==
    cl.key # 0 /\ d = Sha2RsaEncrypt(cl.password, Salt(Nonce, FALSE), cl.key)

\* What the account's plugin makes of the client's password.
Sincere(cl, d) ==
    /\ server.plugin = "mysql_native_password" =>
         d = ScrambleNative(cl.password, Salt(Nonce, FALSE))
    /\ server.plugin = "caching_sha2_password" => (d = EmptyData <=> cl.password = NoPassword)
    /\ server.plugin = "sha256_password" =>
         \/ d = RequestKey("1") /\ cl.password # NoPassword /\ ~cl.secure
         \/ d \in {EmptyData, Plain(NoPassword)} /\ cl.password = NoPassword
         \/ d = Plain(cl.password) /\ cl.secure
         \/ Encrypts(cl, d)
    /\ server.plugin = "client_ed25519" => d = Ed25519Password(cl.password, Salt(Nonce, TRUE))
    /\ server.plugin \in {"mysql_clear_password", "mysql_old_password", "dialog"} =>
         d = Plain(cl.password)

\* The data on its way to the server.
DataInv ==
    client.pc \in Waiting /\ up # <<>> =>
        /\ server.pc = "response" => D = FirstData(client.name, Salt(Nonce, FALSE))
        /\ server.pc \in {"data", "prompted"} => Sincere(client, D)
        /\ server.pc = "full" =>
             \/ D = RequestKey("2")
             \/ D = Plain(client.password) /\ client.secure
             \/ Encrypts(client, D)
        /\ server.pc = "rsa" => Encrypts(client, D)

RefusedInv == client.pc = "refused" => Mistaken

TruthInv ==
    /\ AccountInv /\ TurnInv /\ MessageInv /\ PhaseInv /\ DataInv /\ RefusedInv
    /\ OnlyUnsupportedRaises /\ FastPathWhenCached

\* The account and the session, as a step of the server leaves them.
SameAccount ==
    /\ server'.plugin = server.plugin /\ server'.default = server.default
    /\ server'.password = server.password /\ server'.key = server.key
    /\ server'.tls = server.tls

\* The Connection object, as a step of connect() leaves it.
SameClient(cl) ==
    /\ cl.password = client.password /\ cl.secure = client.secure
    /\ cl.ssl = client.ssl /\ cl.extras = client.extras /\ cl.name = client.name

(***************************************************************************)
(* A message of the server's other than a greeting or a switch (external). *)
(***************************************************************************)
LEMMA AnswerTruth ==
    ASSUME LoginTypes, TruthInv, client.pc \in Waiting \ {"greeting"},
           up' = <<>>, down = <<>>, UNCHANGED <<client, attempts>>,
           SameAccount, server'.switched = server.switched,
           NEW m, Head(down') = m, m.kind \notin {"greeting", "switch"},
           m.kind = "key" => m.n = server.key /\ client.password # NoPassword /\ ~client.secure,
           m.kind = "err" => Mistaken,
           m.kind = "ok" => client.pc # "sha2",
           TurnInv', FastPathWhenCached'
    PROVE  TruthInv'
<1>1. client.pc \notin Done \cup {"idle"}
  BY DEF Waiting, Done
<1>2. AccountInv'
  BY <1>1 DEF TruthInv, AccountInv, SameAccount
<1>3. Mistaken' <=> Mistaken
  BY DEF Mistaken, SameAccount
<1>4. MessageInv'
  BY <1>3 DEF MessageInv, M, SameAccount
<1>5. Nonce' = Nonce
  BY DEF Nonce
<1>6. PhaseInv'
  BY <1>5 DEF TruthInv, PhaseInv, M, SameAccount
<1>7. DataInv' /\ RefusedInv' /\ OnlyUnsupportedRaises'
  BY <1>1 DEF DataInv, RefusedInv, OnlyUnsupportedRaises, Done
<1>8. QED
  BY <1>2, <1>4, <1>6, <1>7 DEF TruthInv

(***************************************************************************)
(* The kinds of data, and what a password sent in the clear says.          *)
(***************************************************************************)
LEMMA Terms ==
    /\ \A pw, salt, key : Sha2RsaEncrypt(pw, salt, key).kind = "rsa"
    /\ \A pw : Plain(pw).kind = "plain" /\ Plain(pw).pw = pw
    /\ EmptyData.kind = "empty"
    /\ \A byte : RequestKey(byte).kind = byte
BY DEF Sha2RsaEncrypt, Plain, EmptyData, RequestKey, Term

(***************************************************************************)
(* A server that refuses what the client has made of its password, for the *)
(* account's own plugin, has another password or another key (external).   *)
(***************************************************************************)
LEMMA RightVerdict ==
    ASSUME TruthInv, NEW d, Sincere(client, d), ~Mistaken
    PROVE  /\ server.plugin = "mysql_native_password" => d = ScrambleNative(ThePassword, Salt(Nonce, FALSE))
           /\ server.plugin = "caching_sha2_password" => (d = EmptyData <=> ThePassword = NoPassword)
           /\ server.plugin = "sha256_password" =>
                \/ d = RequestKey("1")
                \/ d \in {EmptyData, Plain(NoPassword)} /\ ThePassword = NoPassword
                \/ d = Plain(ThePassword) /\ client.secure
                \/ d = Encrypted
           /\ server.plugin = "client_ed25519" => d = Ed25519Password(ThePassword, Salt(Nonce, TRUE))
           /\ server.plugin \in {"mysql_clear_password", "mysql_old_password", "dialog"} =>
                d = Plain(ThePassword)
<1>1. client.password = server.password /\ client.key \in {0, server.key}
  BY DEF Mistaken
<1>2. Encrypts(client, d) => d = Encrypted
  BY <1>1 DEF Encrypts, Encrypted, ThePassword
<1>3. QED
  BY <1>1, <1>2 DEF Sincere, ThePassword

\* What the server has decided: a verdict, the fast path, the full exchange, its key.
Judged ==
    \/ \E right \in BOOLEAN :
         /\ Verdict(right)
         /\ ~right => Mistaken
         /\ right => client.pc # "sha2"
    \/ /\ server' = [server EXCEPT !.pc = "in"]
       /\ down' = down \o <<Message("fast", "", 0), Message("ok", "", 0)>>
    \/ /\ Replies("full", <<Message("full", "", 0)>>)
       /\ server.plugin = "caching_sha2_password"
       /\ server.cached => client.password # server.password \/ server.switched
    \/ /\ SendKey
       /\ client.password # NoPassword /\ ~client.secure
       /\ server.plugin \in {"sha256_password", "caching_sha2_password"}

(***************************************************************************)
(* The server's judgement of such data, at once or after a switch          *)
(* (external).                                                             *)
(***************************************************************************)
LEMMA JudgeTruth ==
    ASSUME LoginAssumption, LoginTypes, TruthInv, NEW d, Sincere(client, d), Judge(d),
           server.plugin = "caching_sha2_password" =>
             server.switched \/ d = ScrambleCachingSha2(client.password, Salt(Nonce, FALSE))
    PROVE  Judged
<1> USE DEF ThePassword
<1>0. ASSUME NEW right, Verdict(right), ~right => Mistaken, right => client.pc # "sha2"
      PROVE  Judged
  <2>1. Verdict(right = TRUE)
    BY <1>0 DEF Verdict
  <2>2. QED
    BY <1>0, <2>1 DEF Judged
<1>1. CASE server.plugin = "mysql_native_password"
  <2> DEFINE right == d = ScrambleNative(ThePassword, Salt(Nonce, FALSE))
  <2>1. Verdict(right)
    BY <1>1, Zenon DEF Judge
  <2>2. ~right => Mistaken
    BY <1>1, RightVerdict
  <2>3. client.pc # "sha2"
    BY <1>1 DEF TruthInv, PhaseInv
  <2>4. QED
    BY <1>0, <2>1, <2>2, <2>3
<1>2. CASE server.plugin = "client_ed25519"
  <2> DEFINE right == d = Ed25519Password(ThePassword, Salt(Nonce, TRUE))
  <2>1. Verdict(right)
    BY <1>2, Zenon DEF Judge
  <2>2. ~right => Mistaken
    BY <1>2, RightVerdict
  <2>3. client.pc # "sha2"
    BY <1>2 DEF TruthInv, PhaseInv
  <2>4. QED
    BY <1>0, <2>1, <2>2, <2>3
<1>3. CASE server.plugin \in {"mysql_clear_password", "mysql_old_password", "dialog"}
  <2> DEFINE right == d = Plain(ThePassword)
  <2>1. Verdict(right)
    BY <1>3, Zenon DEF Judge
  <2>2. ~right => Mistaken
    BY <1>3, RightVerdict
  <2>3. client.pc # "sha2"
    BY <1>3 DEF TruthInv, PhaseInv
  <2>4. QED
    BY <1>0, <2>1, <2>2, <2>3
<1>4. CASE server.plugin = "caching_sha2_password"
  <2>1. CASE d = EmptyData \/ ThePassword = NoPassword
    <3> DEFINE right == d = EmptyData /\ ThePassword = NoPassword
    <3>1. Verdict(right)
      BY <1>4, <2>1, Zenon DEF Judge
    <3>2. ~right => Mistaken
      BY <1>4, <2>1, RightVerdict
    <3>3. right => client.pc # "sha2"
      BY <1>4 DEF TruthInv, PhaseInv, Sincere
    <3>4. QED
      BY <1>0, <3>1, <3>2, <3>3
  <2>2. CASE /\ ~(d = EmptyData \/ ThePassword = NoPassword)
             /\ server.cached /\ d = ScrambleCachingSha2(ThePassword, Salt(Nonce, FALSE))
    BY <1>4, <2>2, Zenon DEF Judge, Judged
  <2>3. CASE /\ ~(d = EmptyData \/ ThePassword = NoPassword)
             /\ ~(server.cached /\ d = ScrambleCachingSha2(ThePassword, Salt(Nonce, FALSE)))
    <3>1. Replies("full", <<Message("full", "", 0)>>)
      BY <1>4, <2>3, Zenon DEF Judge
    <3>2. server.cached => client.password # server.password \/ server.switched
      BY <1>4, <2>3
    <3>3. QED
      BY <1>4, <3>1, <3>2 DEF Judged
  <2>4. QED
    BY <2>1, <2>2, <2>3
<1>5. CASE server.plugin = "sha256_password"
  <2>0. client.pc # "sha2"
    BY <1>5 DEF TruthInv, PhaseInv
  <2>1. CASE d = RequestKey("1")
    <3>1. SendKey
      BY <1>5, <2>1, Zenon DEF Judge
    <3>2. client.password # NoPassword /\ ~client.secure
      BY <1>5, <2>1, DataKinds DEF Sincere, Encrypts
    <3>3. QED
      BY <1>5, <3>1, <3>2 DEF Judged
  <2>2. CASE d # RequestKey("1") /\ (d = EmptyData \/ d = Plain(NoPassword))
    <3> DEFINE right == ThePassword = NoPassword
    <3>1. Verdict(right)
      BY <1>5, <2>2, Zenon DEF Judge
    <3>2. ~right => Mistaken
      <4>1. /\ Encrypted.kind = "rsa" /\ EmptyData.kind = "empty"
            /\ Plain(NoPassword).kind = "plain" /\ Plain(NoPassword).pw = NoPassword
            /\ Plain(ThePassword).kind = "plain" /\ Plain(ThePassword).pw = ThePassword
        BY Terms DEF Encrypted
      <4>2. /\ Encrypted # EmptyData /\ Encrypted # Plain(NoPassword)
            /\ Plain(ThePassword) # EmptyData
            /\ Plain(ThePassword) = Plain(NoPassword) => ThePassword = NoPassword
        BY <4>1
      <4>3. QED
        BY <1>5, <2>2, <4>1, <4>2, RightVerdict
    <3>3. QED
      BY <1>0, <2>0, <3>1, <3>2
  <2>3. CASE d # RequestKey("1") /\ d # EmptyData /\ d # Plain(NoPassword)
    <3>1. CASE d.kind = "plain"
      <4> DEFINE right == client.secure /\ d = Plain(ThePassword)
      <4>1. Verdict(right)
        BY <1>5, <2>3, <3>1, Zenon DEF Judge
      <4>2. Encrypted.kind = "rsa"
        BY Terms DEF Encrypted
      <4>3. ~right => Mistaken
        BY <1>5, <2>3, <3>1, <4>2, RightVerdict
      <4>4. QED
        BY <1>0, <2>0, <4>1, <4>3
    <3>2. CASE d.kind # "plain"
      <4> DEFINE right == d = Encrypted
      <4>1. Verdict(right)
        BY <1>5, <2>3, <3>2, Zenon DEF Judge
      <4>2. Plain(ThePassword).kind = "plain"
        BY Terms
      <4>3. ~right => Mistaken
        BY <1>5, <2>3, <3>2, <4>2, RightVerdict
      <4>4. QED
        BY <1>0, <2>0, <4>1, <4>3
    <3>3. QED
      BY <3>1, <3>2
  <2>4. QED
    BY <2>1, <2>2, <2>3
<1>6. server.plugin \in PluginNames
  BY DEF LoginTypes, ServerType, LoginAssumption
<1>7. QED
  BY <1>1, <1>2, <1>3, <1>4, <1>5, <1>6 DEF PluginNames

(***************************************************************************)
(* Whatever the server decides, what it sends is true (external).          *)
(***************************************************************************)
LEMMA JudgedTruth ==
    ASSUME LoginTypes, TruthInv, client.pc \in Waiting \ {"greeting"},
           up' = <<>>, down = <<>>, UNCHANGED <<client, attempts>>, Judged
    PROVE  TruthInv'
<1>1. ASSUME NEW m, NEW pc \in {"full", "rsa", "closed"}, Replies(pc, <<m>>),
             m.kind \in {"full", "key", "err"},
             m.kind = "key" => m.n = server.key /\ client.password # NoPassword /\ ~client.secure,
             m.kind = "err" => Mistaken,
             pc = "full" => server.plugin = "caching_sha2_password",
             pc = "rsa" => server.plugin \in {"sha256_password", "caching_sha2_password"},
             pc = "full" /\ server.cached => client.password # server.password \/ server.switched
      PROVE  TruthInv'
  <2>1. Head(down') = m
    BY <1>1, OneMessage DEF Replies
  <2>2. /\ server'.pc = pc /\ SameAccount
        /\ server'.switched = server.switched /\ server'.cached = server.cached
    BY <1>1 DEF Replies, SameAccount, LoginTypes, ServerType
  <2>3. TurnInv' /\ FastPathWhenCached'
    BY <1>1, <2>2 DEF TurnInv, FastPathWhenCached, SameAccount
  <2>4. QED
    BY <1>1, <2>1, <2>2, <2>3, AnswerTruth
<1>2. ASSUME NEW m, Head(down') = m, m.kind \in {"fast", "ok"}, m.kind = "ok" => client.pc # "sha2",
             server'.pc = "in", SameAccount, server'.switched = server.switched
      PROVE  TruthInv'
  <2>1. TurnInv' /\ FastPathWhenCached'
    BY <1>2 DEF TurnInv, FastPathWhenCached
  <2>2. QED
    BY <1>2, <2>1, AnswerTruth
<1>3. ASSUME NEW right \in BOOLEAN, Verdict(right), ~right => Mistaken, right => client.pc # "sha2"
      PROVE  TruthInv'
  <2>1. CASE ~right
    <3>1. Replies("closed", <<Message("err", "", 0)>>) /\ Message("err", "", 0).kind = "err"
      BY <2>1, <1>3 DEF Verdict, Message
    <3>2. QED
      BY <2>1, <1>3, <3>1, <1>1
  <2>2. CASE right
    <3>1. Head(down') = Message("ok", "", 0) /\ Message("ok", "", 0).kind = "ok"
      BY <2>2, <1>3, OneMessage DEF Verdict, Message
    <3> DEFINE cached == server.cached \/ server.plugin = "caching_sha2_password"
    <3>2. server' = [server EXCEPT !.pc = "in", !.cached = cached]
      BY <2>2, <1>3, Zenon DEF Verdict
    <3> HIDE DEF cached
    <3>3. server'.pc = "in" /\ SameAccount /\ server'.switched = server.switched
      BY <3>2 DEF SameAccount, LoginTypes, ServerType
    <3>4. QED
      BY <2>2, <1>3, <3>1, <3>3, <1>2
  <2>3. QED
    BY <2>1, <2>2
<1>4. CASE /\ server' = [server EXCEPT !.pc = "in"]
           /\ down' = down \o <<Message("fast", "", 0), Message("ok", "", 0)>>
  <2>1. Head(down') = Message("fast", "", 0) /\ Message("fast", "", 0).kind = "fast"
    <3>1. down' = <<Message("fast", "", 0), Message("ok", "", 0)>>
      <4> DEFINE fast == Message("fast", "", 0)
                 ok == Message("ok", "", 0)
      <4>1. down' = <<>> \o <<fast, ok>>
        BY <1>4
      <4> HIDE DEF fast, ok
      <4>2. down' = <<fast, ok>>
        BY <4>1, TwoMessages
      <4>3. QED
        BY <4>2 DEF fast, ok
    <3>2. Message("fast", "", 0).kind = "fast"
      BY DEF Message
    <3>3. QED
      BY <3>1, <3>2, TwoMessages
  <2>2. server'.pc = "in" /\ SameAccount /\ server'.switched = server.switched
    BY <1>4 DEF SameAccount, LoginTypes, ServerType
  <2>3. QED
    BY <2>1, <2>2, <1>2
<1>5. CASE /\ Replies("full", <<Message("full", "", 0)>>)
           /\ server.plugin = "caching_sha2_password"
           /\ server.cached => client.password # server.password \/ server.switched
  <2>1. Message("full", "", 0).kind = "full"
    BY DEF Message
  <2>2. QED
    BY <1>5, <2>1, <1>1
<1>6. CASE /\ SendKey
           /\ client.password # NoPassword /\ ~client.secure
           /\ server.plugin \in {"sha256_password", "caching_sha2_password"}
  <2>1. Message("key", "", server.key).kind = "key" /\ Message("key", "", server.key).n = server.key
    BY DEF Message
  <2>2. Replies("rsa", <<Message("key", "", server.key)>>)
    BY <1>6 DEF SendKey
  <2>3. QED
    BY <1>6, <2>1, <2>2, <1>1
<1>7. QED
  BY <1>3, <1>4, <1>5, <1>6 DEF Judged

(***************************************************************************)
(* The proof sent with the response is the one for the account's plugin    *)
(* when the greeting has named that plugin (connections.py 855-880).       *)
(***************************************************************************)
LEMMA FirstSincere ==
    ASSUME LoginAssumption, LoginTypes, TruthInv, client.pc = "auth", client.name = server.default,
           \/ Named(client.name) = server.plugin
           \/ server.default = "" /\ server.plugin = "mysql_native_password"
    PROVE  LET d == FirstData(client.name, Salt(Nonce, FALSE)) IN
             /\ Sincere(client, d)
             /\ server.plugin = "caching_sha2_password" =>
                  d = ScrambleCachingSha2(client.password, Salt(Nonce, FALSE))
<1> DEFINE salt == Salt(Nonce, FALSE)
           d == FirstData(client.name, salt)
<1>0. client.secure <=> client.ssl /\ server.tls
  BY DEF TruthInv, AccountInv, Waiting, LoginTypes, ClientType, ServerType
<1>1. server.plugin # ""
  BY DEF LoginTypes, ServerType, LoginAssumption, PluginNames
<1>2. CASE server.plugin = "mysql_native_password"
  <2>1. client.name \in {"", "mysql_native_password"}
    BY <1>2 DEF Named
  <2>2. d = ScrambleNative(client.password, salt)
    BY <2>1 DEF FirstData
  <2>3. QED
    BY <1>2, <2>2 DEF Sincere
<1>3. CASE server.plugin = "caching_sha2_password"
  <2>1. client.name = "caching_sha2_password"
    BY <1>3 DEF Named
  <2>2. d = ScrambleCachingSha2(client.password, salt)
    BY <2>1 DEF FirstData
  <2>3. ScrambleCachingSha2(client.password, salt) = EmptyData <=> client.password = NoPassword
    BY DEF ScrambleCachingSha2, EmptyData, Term
  <2>4. QED
    BY <1>3, <2>2, <2>3 DEF Sincere
<1>4. CASE server.plugin = "sha256_password"
  <2>1. client.name = "sha256_password"
    BY <1>4 DEF Named
  <2>2. d = IF client.secure THEN Plain(client.password)
            ELSE IF client.password # NoPassword THEN RequestKey("1") ELSE Plain(NoPassword)
    BY <1>0, <2>1 DEF FirstData
  <2>3. QED
    BY <1>4, <2>2 DEF Sincere
<1>5. QED
  BY <1>1, <1>2, <1>3, <1>4 DEF Named

(***************************************************************************)
(* A step of the server's keeps what is known (external).                  *)
(***************************************************************************)
LEMMA ServerTruth ==
    ASSUME LoginAssumption, LoginTypes, SessionInv, TruthInv, ServerStep
    PROVE  TruthInv'
<1>1. /\ down = <<>> /\ up # <<>> /\ up' = <<>> /\ UNCHANGED <<client, attempts>>
      /\ client.pc \in Waiting \ {"greeting"}
      /\ server.pc \in {"response", "data", "prompted", "full", "rsa"}
      /\ server.pc = "response" =>
           /\ client.pc = "auth" /\ client.name = server.default
           /\ Head(up).plugin = Named(client.name)
      /\ server.pc = "full" /\ D = RequestKey("2") => client.pc = "sha2 key"
      /\ client.pc = "auth" => server.pc = "response"
  <2>1. up # <<>> /\ up' = Tail(up) /\ UNCHANGED <<client, attempts>>
        /\ server.pc \in {"response", "data", "prompted", "full", "rsa"}
    BY DEF ServerStep, GetResponse, GetData, GetFull, GetEncrypted
  <2>2. client.pc \in {"auth", "sha2", "sha2 key", "sha256 key", "dialog", "last prompt", "final"}
    BY <2>1 DEF SessionInv, QuietInv, GreetingInv, LoginTypes, ClientType, Waiting, Done, Got
  <2>3. down = <<>> /\ up = <<Head(up)>>
    BY <2>1, <2>2 DEF SessionInv, AuthInv, Sha2Inv, KeyInv, DialogInv, FinalInv, Asked, Answered,
                FastAnswered, Prompted, Got
  <2>4. client.pc = "auth" => server.pc = "response"
    BY <2>1 DEF SessionInv, AuthInv, Asked, Answered, FastAnswered, Prompted, Got
  <2>5. server.pc = "response" =>
           /\ client.pc = "auth" /\ client.name = server.default
           /\ Head(up).plugin = Named(client.name)
    BY <2>1, <2>2, <2>3 DEF SessionInv, AuthInv, Sha2Inv, KeyInv, DialogInv, FinalInv, Asked, Answered,
                FastAnswered, Prompted, Got
  <2>6. server.pc = "full" /\ D = RequestKey("2") => client.pc = "sha2 key"
    BY <2>1, <2>2, <2>3 DEF SessionInv, AuthInv, Sha2Inv, KeyInv, DialogInv, FinalInv, Asked, Answered,
                FastAnswered, Prompted, Got, D
  <2>7. up' = <<>>
    <3> DEFINE m == Head(up)
    <3>1. up = <<m>>
      BY <2>3
    <3> HIDE DEF m
    <3>2. Tail(up) = <<>>
      BY <3>1, OneMessage
    <3>3. QED
      BY <2>1, <3>2
  <2>8. QED
    BY <2>1, <2>2, <2>3, <2>4, <2>5, <2>6, <2>7 DEF Waiting
<1>2. CASE GetResponse
  <2>1. D = FirstData(client.name, Salt(Nonce, FALSE)) /\ ~server.switched
    BY <1>1, <1>2 DEF TruthInv, DataInv, TurnInv, GetResponse
  <2>2. CASE /\ Head(up).plugin = server.plugin
                  \/ (server.default = "" /\ server.plugin = "mysql_native_password")
             /\ Judge(D)
    <3> DEFINE d == FirstData(client.name, Salt(Nonce, FALSE))
    <3>1. /\ Sincere(client, d)
          /\ server.plugin = "caching_sha2_password" =>
               d = ScrambleCachingSha2(client.password, Salt(Nonce, FALSE))
      BY <1>1, <1>2, <2>2, FirstSincere DEF GetResponse
    <3>2. Judge(d)
      BY <2>1, <2>2
    <3>3. Judged
      BY <3>1, <3>2, JudgeTruth
    <3>4. QED
      BY <1>1, <3>3, JudgedTruth
  <2>3. CASE /\ server.plugin = "dialog"
             /\ \E last \in {0, 1}, text \in {"Password: ", "PIN: "} :
                  Replies(IF last = 1 THEN "data" ELSE "prompted", <<Message("prompt", text, last)>>)
    <3>1. PICK last \in {0, 1}, text \in {"Password: ", "PIN: "} :
            Replies(IF last = 1 THEN "data" ELSE "prompted", <<Message("prompt", text, last)>>)
      BY <2>3
    <3> DEFINE m == Message("prompt", text, last)
               pc == IF last = 1 THEN "data" ELSE "prompted"
    <3>2. m.kind = "prompt" /\ pc \in {"data", "prompted"} /\ Replies(pc, <<m>>)
      BY <3>1 DEF Message
    <3> HIDE DEF m, pc
    <3>3. Head(down') = m
      BY <1>1, <3>2, OneMessage DEF Replies
    <3>4. /\ server'.pc = pc /\ SameAccount /\ server'.switched = server.switched
      BY <3>2 DEF Replies, SameAccount, LoginTypes, ServerType
    <3>5. TurnInv' /\ FastPathWhenCached'
      BY <2>3, <3>2, <3>4 DEF TurnInv, FastPathWhenCached, SameAccount
    <3>6. QED
      BY <1>1, <3>2, <3>3, <3>4, <3>5, AnswerTruth
  <2>4. CASE /\ ~(server.default = "" /\ server.plugin = "mysql_native_password")
             /\ server' = [server EXCEPT !.pc = "data", !.switched = TRUE]
             /\ down' = Append(down, Message("switch", server.plugin, 2 * (attempts - 1) + 1))
    <3> DEFINE m == Message("switch", server.plugin, 2 * (attempts - 1) + 1)
    <3>1. m.kind = "switch" /\ m.n = 2 * (attempts - 1) + 1
      BY DEF Message
    <3>2. down' = Append(down, m)
      BY <2>4
    <3> HIDE DEF m
    <3>3. Head(down') = m
      BY <1>1, <3>2, OneMessage
    <3>4. /\ server'.pc = "data" /\ server'.switched /\ SameAccount
      BY <2>4 DEF SameAccount, LoginTypes, ServerType
    <3>5. Nonce' = 2 * (attempts - 1) + 1
      BY <1>1, <3>4 DEF Nonce
    <3>6. client.pc = "auth" /\ "auth" \notin Done \cup {"idle"}
      BY <1>1, <1>2 DEF GetResponse, Done
    <3>7. AccountInv' /\ TurnInv' /\ FastPathWhenCached'
      BY <1>1, <3>4, <3>6 DEF TruthInv, AccountInv, TurnInv, FastPathWhenCached, SameAccount
    <3>8. server.default = "" => server.plugin = "mysql_old_password"
      BY <2>4 DEF TruthInv, AccountInv
    <3>9. MessageInv'
      BY <3>1, <3>3, <3>4, <3>5, <3>8 DEF MessageInv, M, SameAccount
    <3>10. down' # <<>>
      BY <1>1, <3>2, OneMessage
    <3>11. PhaseInv'
      BY <1>1, <3>1, <3>3, <3>6, <3>10 DEF TruthInv, PhaseInv, M
    <3>12. DataInv' /\ RefusedInv' /\ OnlyUnsupportedRaises'
      BY <1>1, <3>6 DEF DataInv, RefusedInv, OnlyUnsupportedRaises
    <3>13. QED
      BY <3>7, <3>9, <3>11, <3>12 DEF TruthInv
  <2>5. QED
    BY <1>2, <2>2, <2>3, <2>4 DEF GetResponse
<1>3. CASE GetData
  <2>1. Sincere(client, D) /\ (server.switched \/ server.plugin = "dialog")
    BY <1>1, <1>3 DEF TruthInv, DataInv, TurnInv, GetData
  <2>2. CASE Judge(D)
    <3> DEFINE d == D
    <3>1. Sincere(client, d) /\ Judge(d)
      BY <2>1, <2>2
    <3> HIDE DEF d
    <3>2. Judged
      BY <2>1, <3>1, JudgeTruth
    <3>3. QED
      BY <1>1, <3>2, JudgedTruth
  <2>3. CASE server.pc = "prompted" /\ Replies("data", <<Message("prompt", "Password: ", 1)>>)
    <3> DEFINE m == Message("prompt", "Password: ", 1)
    <3>1. m.kind = "prompt" /\ Replies("data", <<m>>)
      BY <2>3 DEF Message
    <3> HIDE DEF m
    <3>2. Head(down') = m
      BY <1>1, <3>1, OneMessage DEF Replies
    <3>3. /\ server'.pc = "data" /\ SameAccount /\ server'.switched = server.switched
      BY <3>1 DEF Replies, SameAccount, LoginTypes, ServerType
    <3>4. server.plugin = "dialog"
      BY <2>3 DEF TruthInv, TurnInv
    <3>5. TurnInv' /\ FastPathWhenCached'
      BY <3>3, <3>4 DEF TurnInv, FastPathWhenCached, SameAccount
    <3>6. QED
      BY <1>1, <3>1, <3>2, <3>3, <3>5, AnswerTruth
  <2>4. QED
    BY <1>3, <2>2, <2>3 DEF GetData
<1>4. ASSUME NEW right, Verdict(right), ~right => Mistaken, right => client.pc # "sha2"
      PROVE  TruthInv'
  <2>1. Verdict(right = TRUE)
    BY <1>4 DEF Verdict
  <2>2. Judged
    BY <1>4, <2>1 DEF Judged
  <2>3. QED
    BY <1>1, <2>2, JudgedTruth
<1>5. client.key # 0 /\ ~Mistaken /\ Encrypts(client, D) => D = Encrypted
  BY DEF Mistaken, Encrypts, Encrypted, ThePassword
<1>6. CASE GetFull
  <2>1. /\ server.plugin = "caching_sha2_password"
        /\ D = RequestKey("2") \/ (D = Plain(client.password) /\ client.secure) \/ Encrypts(client, D)
        /\ client.pc # "sha2"
    BY <1>1, <1>6 DEF TruthInv, DataInv, TurnInv, GetFull, SessionInv, Sha2Inv, Asked, Answered,
                      FastAnswered, Got
  <2>2. CASE D = RequestKey("2")
    <3>1. SendKey /\ client.pc = "sha2 key"
      BY <1>1, <1>6, <2>2 DEF GetFull
    <3>2. client.password # NoPassword /\ ~client.secure
      BY <3>1 DEF TruthInv, PhaseInv
    <3>3. Judged
      BY <2>1, <3>1, <3>2 DEF Judged
    <3>4. QED
      BY <1>1, <3>3, JudgedTruth
  <2>3. CASE D # RequestKey("2")
    <3> DEFINE right == D = Encrypted \/ (client.secure /\ D = Plain(ThePassword))
    <3>1. Verdict(right)
      BY <1>6, <2>3 DEF GetFull
    <3>2. ~right => Mistaken
      BY <1>5, <2>1, <2>3 DEF Encrypts, Mistaken, ThePassword
    <3>3. QED
      BY <1>4, <2>1, <3>1, <3>2
  <2>4. QED
    BY <2>2, <2>3
<1>7. CASE GetEncrypted
  <2>1. Encrypts(client, D) /\ client.pc # "sha2"
    BY <1>1, <1>7 DEF TruthInv, DataInv, GetEncrypted, SessionInv, Sha2Inv, Asked, Answered,
                      FastAnswered, Got
  <2> DEFINE right == D = Encrypted
  <2>2. Verdict(right)
    BY <1>7 DEF GetEncrypted
  <2>3. ~right => Mistaken
    BY <1>5, <2>1 DEF Encrypts
  <2>4. QED
    BY <1>4, <2>1, <2>2, <2>3
<1>8. QED
  BY <1>2, <1>3, <1>6, <1>7 DEF ServerStep

(***************************************************************************)
(* connect() is over (connections.py 647-669, 721-725, 1017-1020).         *)
(***************************************************************************)
LEMMA OverTruth ==
    ASSUME TruthInv, client'.pc \in Done, UNCHANGED <<server, attempts>>,
           SameClient(client'), RefusedInv', OnlyUnsupportedRaises'
    PROVE  TruthInv'
<1>1. client'.pc \notin Waiting \cup {"idle"}
  BY DEF Waiting, Done
<1>2. AccountInv' /\ TurnInv' /\ FastPathWhenCached'
  BY <1>1 DEF TruthInv, AccountInv, TurnInv, FastPathWhenCached, SameClient
<1>3. MessageInv' /\ PhaseInv' /\ DataInv'
  BY <1>1 DEF MessageInv, PhaseInv, DataInv, Waiting
<1>4. QED
  BY <1>2, <1>3 DEF TruthInv

(***************************************************************************)
(* An exception of the client's own, for a method it cannot do             *)
(* (_auth.py 180, 223-226, 256-259; connections.py 936-939).               *)
(***************************************************************************)
LEMMA RaisesTruth ==
    ASSUME Reading, TruthInv, NEW cl \in ClientType, SameClient(cl), Raises(cl),
           \/ server.plugin \in {"mysql_old_password", "dialog"}
           \/ /\ ~client.extras
              /\ \/ server.plugin = "client_ed25519"
                 \/ /\ server.plugin \in {"sha256_password", "caching_sha2_password"}
                    /\ ~client.secure
    PROVE  TruthInv'
<1>1. client'.pc = "raised" /\ SameClient(client')
  BY DEF Raises, Reading, LoginTypes, ClientType, SameClient
<1>2. RefusedInv' /\ OnlyUnsupportedRaises'
  BY <1>1 DEF RefusedInv, OnlyUnsupportedRaises, SameClient, Reading
<1>3. QED
  BY <1>1, <1>2, OverTruth DEF Reading, Done

(***************************************************************************)
(* The client has sent something and waits on (connections.py 1000-1015).  *)
(***************************************************************************)
LEMMA SaysTruth ==
    ASSUME Reading, TruthInv, client.pc \in Waiting \ {"greeting"},
           client'.pc \in Waiting \ {"greeting"}, SameClient(client'), PhaseInv', DataInv'
    PROVE  TruthInv'
<1>1. client'.pc \notin Done \cup {"idle"}
  BY DEF Waiting, Done
<1>2. AccountInv' /\ TurnInv' /\ FastPathWhenCached'
  BY <1>1 DEF TruthInv, AccountInv, TurnInv, FastPathWhenCached, SameClient, Reading
<1>3. MessageInv' /\ RefusedInv' /\ OnlyUnsupportedRaises'
  BY <1>1 DEF MessageInv, RefusedInv, OnlyUnsupportedRaises, Done, Reading
<1>4. QED
  BY <1>2, <1>3 DEF TruthInv

(***************************************************************************)
(* What the client sends is what the server gets.                          *)
(***************************************************************************)
LEMMA SentIs ==
    ASSUME Reading, NEW cl \in ClientType, SameClient(cl), NEW d, NEW pc, Sends(cl, d, pc)
    PROVE  /\ D' = d /\ client'.pc = pc /\ SameClient(client')
           /\ client'.key = cl.key /\ client'.salt = cl.salt
           /\ server' = server /\ Nonce' = Nonce
<1>1. up' = <<Response("", d)>> /\ Response("", d).data = d
  BY OneMessage DEF Sends, Reading, Response
<1>2. D' = d
  BY <1>1, OneMessage DEF D
<1>3. client'.pc = pc /\ client'.key = cl.key /\ client'.salt = cl.salt
  BY DEF Sends, ClientType
<1>4. SameClient(client')
  BY DEF Sends, ClientType, SameClient
<1>5. QED
  BY <1>2, <1>3, <1>4 DEF Reading, Nonce

(***************************************************************************)
(* The data sent last, where the server judges it: what is sincere of one  *)
(* copy of the Connection object is so of the next.                        *)
(***************************************************************************)
LEMMA SentSincere ==
    ASSUME NEW cl, SameClient(cl), NEW d, D' = d, SameClient(client'), client'.key = cl.key,
           server' = server, Nonce' = Nonce
    PROVE  /\ Encrypts(cl, d) => Encrypts(client, D)'
           /\ Sincere(cl, d) => Sincere(client, D)'
<1>1. client'.password = cl.password /\ client'.secure = cl.secure
  BY DEF SameClient
<1>2. Encrypts(cl, d) <=> Encrypts(client, D)'
  BY <1>1 DEF Encrypts
<1>3. Sincere(cl, d) => Sincere(client, D)'
  BY <1>1, <1>2 DEF Sincere
<1>4. QED
  BY <1>2, <1>3

(***************************************************************************)
(* The last message of the client's (_auth.py 161, 180, 191, 217, 259).    *)
(***************************************************************************)
LEMMA FinalTruth ==
    ASSUME Reading, TruthInv, client.pc \in Waiting \ {"greeting"},
           NEW cl \in ClientType, SameClient(cl), NEW d, Sends(cl, d, "final"),
           server.pc # "response",
           server.pc \in {"data", "prompted"} => Sincere(cl, d),
           server.pc = "full" => (d = Plain(client.password) /\ client.secure) \/ Encrypts(cl, d),
           server.pc = "rsa" => Encrypts(cl, d)
    PROVE  TruthInv'
<1>1. /\ D' = d /\ client'.pc = "final" /\ SameClient(client') /\ client'.key = cl.key
      /\ server' = server /\ Nonce' = Nonce
  BY SentIs
<1>2. /\ Encrypts(cl, d) => Encrypts(client, D)'
      /\ Sincere(cl, d) => Sincere(client, D)'
  BY <1>1, SentSincere
<1>3. PhaseInv'
  BY <1>1 DEF PhaseInv
<1>4. DataInv'
  BY <1>1, <1>2 DEF DataInv, SameClient
<1>5. QED
  BY <1>1, <1>3, <1>4, SaysTruth DEF Waiting

(***************************************************************************)
(* The password encrypted with the key at hand (_auth.py 139-180).         *)
(***************************************************************************)
LEMMA EncryptedTruth ==
    ASSUME Reading, TruthInv, client.pc \in Waiting \ {"greeting"},
           NEW cl \in ClientType, SameClient(cl), SendsEncrypted(cl),
           cl.key # 0, cl.salt.n = Nonce, ~client.secure,
           server.plugin \in {"sha256_password", "caching_sha2_password"},
           server.pc \in {"full", "rsa"} \/ (server.pc = "data" /\ server.plugin = "sha256_password")
    PROVE  TruthInv'
<1>1. CASE client.extras
  <2> DEFINE d == Sha2RsaEncrypt(cl.password, cl.salt, cl.key)
  <2>1. Sends(cl, d, "final")
    BY <1>1 DEF SendsEncrypted
  <2>2. Encrypts(cl, d)
    BY DEF Encrypts, Sha2RsaEncrypt, Salt
  <2> HIDE DEF d
  <2>3. server.pc = "data" => Sincere(cl, d)
    BY <2>2 DEF Sincere
  <2>4. QED
    BY <2>1, <2>2, <2>3, FinalTruth
<1>2. CASE ~client.extras
  BY <1>2, RaisesTruth DEF SendsEncrypted
<1>3. QED
  BY <1>1, <1>2

(***************************************************************************)
(* The end of sha256_password_auth (_auth.py 163-183).                     *)
(***************************************************************************)
LEMMA Sha256Truth ==
    ASSUME Reading, TruthInv, client.pc \in Waiting \ {"greeting"},
           NEW cl \in ClientType, SameClient(cl), Sha256Data(cl),
           cl.password # NoPassword => cl.key # 0, cl.salt.n = Nonce, ~client.secure,
           \/ /\ server.pc = "rsa" /\ cl.password # NoPassword
              /\ server.plugin \in {"sha256_password", "caching_sha2_password"}
           \/ server.pc = "data" /\ server.plugin = "sha256_password"
    PROVE  TruthInv'
<1>1. CASE cl.password = NoPassword
  <2>1. Sends(cl, EmptyData, "final")
    BY <1>1 DEF Sha256Data
  <2>2. server.pc = "data" /\ Sincere(cl, EmptyData)
    BY <1>1 DEF Sincere
  <2>3. QED
    BY <2>1, <2>2, FinalTruth
<1>2. CASE cl.password # NoPassword
  <2>1. SendsEncrypted(cl)
    BY <1>2 DEF Sha256Data
  <2>2. QED
    BY <1>2, <2>1, EncryptedTruth
<1>3. QED
  BY <1>1, <1>2

(***************************************************************************)
(* The response to the greeting: the salt is put together without the NUL  *)
(* that ends it (connections.py 830-906, 1078-1104).                       *)
(***************************************************************************)
LEMMA RequestTruth ==
    ASSUME Reading, TruthInv, RequestAuthentication
    PROVE  TruthInv'
<1> DEFINE salt == GreetingSalt(M.n)
           plugin == Named(M.plugin)
           data == FirstData(M.plugin, salt)
           secure == client.secure \/ (client.ssl /\ server.tls)
<1>1. /\ client.pc = "greeting" /\ server.pc = "response" /\ down # <<>>
      /\ M.kind = "greeting"
  BY DEF Reading, RequestAuthentication, Reads, SessionInv, GreetingInv, Got, M
<1>2. M.n = 2 * (attempts - 1) /\ ~server.switched
  BY <1>1 DEF TruthInv, MessageInv, TurnInv, Waiting
<1>3. salt = Salt(2 * (attempts - 1), FALSE)
  <2>1. SaltLength(21) = 20 /\ (20 > 20) = FALSE
    BY DEF SaltLength
  <2>2. QED
    BY <1>2, <2>1 DEF GreetingSalt
<1>4. /\ client' = [client EXCEPT !.pc = "auth", !.salt = salt, !.name = M.plugin, !.secure = secure]
      /\ up' = <<Response(plugin, data)>>
  BY DEF RequestAuthentication
<1>5. D' = data
  <2>1. Response(plugin, data).data = data
    BY DEF Response
  <2>2. QED
    BY <1>4, <2>1, OneMessage DEF D
<1>6. Nonce = 2 * (attempts - 1) /\ Nonce' = Nonce /\ server' = server
  BY <1>2 DEF Nonce, Reading, LoginTypes
<1> HIDE DEF salt, plugin, secure
<1>7. /\ client'.pc = "auth" /\ client'.name = M.plugin /\ client'.salt = salt
      /\ client'.secure = secure /\ client'.password = client.password
      /\ client'.ssl = client.ssl /\ client'.extras = client.extras
  BY <1>4 DEF Reading, LoginTypes, ClientType
<1>8. data = FirstData(client.name, Salt(Nonce, FALSE))'
  BY <1>3, <1>6, <1>7 DEF FirstData
<1>9. AccountInv'
  BY <1>1, <1>6, <1>7 DEF TruthInv, AccountInv, secure
<1>10. TurnInv' /\ FastPathWhenCached'
  BY <1>6, <1>7 DEF TruthInv, TurnInv, FastPathWhenCached
<1>11. PhaseInv'
  BY <1>2, <1>3, <1>6, <1>7 DEF PhaseInv, Reading
<1>12. DataInv'
  BY <1>1, <1>5, <1>6, <1>8 DEF DataInv
<1>13. MessageInv' /\ RefusedInv' /\ OnlyUnsupportedRaises'
  BY <1>7 DEF MessageInv, RefusedInv, OnlyUnsupportedRaises, Reading
<1>14. QED
  BY <1>9, <1>10, <1>11, <1>12, <1>13 DEF TruthInv

(***************************************************************************)
(* The full exchange of caching_sha2_password (_auth.py 243-259).          *)
(***************************************************************************)
LEMMA Sha2FullTruth ==
    ASSUME Reading, TruthInv, client.pc \in {"auth", "sha2"}, Sha2Full, server.pc = "full",
           client.salt.n = Nonce, client.password # NoPassword
    PROVE  TruthInv'
<1>0. client \in ClientType /\ SameClient(client) /\ server.plugin = "caching_sha2_password"
      /\ client.pc \in Waiting \ {"greeting"}
  BY DEF Reading, LoginTypes, SameClient, TruthInv, TurnInv, Waiting
<1>1. CASE client.secure
  <2>1. Sends(client, Plain(client.password), "final")
    BY <1>1 DEF Sha2Full
  <2>2. QED
    BY <1>0, <1>1, <2>1, FinalTruth
<1>2. CASE ~client.secure /\ client.key = 0
  <2>1. Sends(client, RequestKey("2"), "sha2 key")
    BY <1>2 DEF Sha2Full
  <2>2. /\ D' = RequestKey("2") /\ client'.pc = "sha2 key" /\ SameClient(client')
        /\ client'.salt = client.salt /\ server' = server /\ Nonce' = Nonce
    BY <1>0, <2>1, SentIs
  <2>3. PhaseInv'
    BY <1>0, <1>2, <2>2 DEF PhaseInv, SameClient
  <2>4. DataInv'
    BY <2>2 DEF DataInv
  <2>5. QED
    BY <1>0, <2>2, <2>3, <2>4, SaysTruth DEF Waiting
<1>3. CASE ~client.secure /\ client.key # 0
  <2>1. SendsEncrypted(client)
    BY <1>3 DEF Sha2Full
  <2>2. QED
    BY <1>0, <1>3, <2>1, EncryptedTruth
<1>4. QED
  BY <1>1, <1>2, <1>3

(***************************************************************************)
(* The fast path is over and the OK packet still to be read                *)
(* (_auth.py 236-241).                                                     *)
(***************************************************************************)
LEMMA FastTruth ==
    ASSUME LoginTypes, SessionInv, TruthInv, client.pc \in {"auth", "sha2"}, FastAnswered,
           down' = Tail(down), UNCHANGED <<server, attempts, changes>>, Sha2Result
    PROVE  TruthInv'
<1>1. up = <<>> /\ M.kind = "fast" /\ Head(down') = down[2] /\ down[2].kind = "ok"
  <2>1. client.pc \in Waiting
    BY DEF Waiting
  <2>2. down # <<>>
    <3>1. Len(down) = 2 /\ Len(<<>>) # 2
      BY DEF FastAnswered
    <3>2. QED
      BY <3>1, Zenon
  <2>3. QED
    BY <2>1, <2>2, ReadingStep DEF FastAnswered
<1>2. client' = [client EXCEPT !.pc = "final"] /\ up' = <<>>
  BY <1>1 DEF Sha2Result
<1>3. client'.pc = "final" /\ SameClient(client') /\ client'.key = client.key
  BY <1>2 DEF LoginTypes, ClientType, SameClient
<1>4. AccountInv' /\ TurnInv' /\ FastPathWhenCached'
  BY <1>3 DEF TruthInv, AccountInv, TurnInv, FastPathWhenCached, SameClient, Waiting
<1>5. M'.kind = "ok"
  BY <1>1 DEF M
<1>6. MessageInv' /\ RefusedInv' /\ OnlyUnsupportedRaises' /\ PhaseInv' /\ DataInv'
  BY <1>2, <1>3, <1>5 DEF MessageInv, RefusedInv, OnlyUnsupportedRaises, PhaseInv, DataInv
<1>7. QED
  BY <1>4, <1>6 DEF TruthInv

(***************************************************************************)
(* Salts are told apart by natural numbers.                                *)
(***************************************************************************)
LEMMA NonceType == ASSUME attempts \in Nat, attempts # 0 PROVE Nonce \in Nat
<1>1. 2 * (attempts - 1) \in Nat /\ 2 * (attempts - 1) + 1 \in Nat
  OBVIOUS
<1>2. QED
  BY <1>1 DEF Nonce

(***************************************************************************)
(* A request to switch is answered with what the account's plugin wants    *)
(* (connections.py 908-1015).                                              *)
(***************************************************************************)
LEMMA SwitchTruth ==
    ASSUME LoginAssumption, Reading, TruthInv, Switch, client.pc = "auth",
           client.name = server.default, server.pc = "data",
           server.switched, M.n = Nonce, M.plugin = server.plugin,
           server.default = "" => server.plugin = "mysql_old_password"
    PROVE  TruthInv'
<1> DEFINE pw == client.password
           salt == Salt(M.n, TRUE)
           cl == [client EXCEPT !.salt = salt]
<1>0. Nonce \in Nat
  <2>1. attempts \in Nat /\ attempts # 0
    BY DEF Reading, LoginTypes
  <2>2. QED
    BY <2>1, NonceType
<1>1. /\ client \in ClientType /\ SameClient(client)
      /\ cl \in ClientType /\ SameClient(cl) /\ cl.salt.n = Nonce /\ cl.key = client.key
      /\ client.pc \in Waiting \ {"greeting"}
  BY <1>0 DEF Reading, LoginTypes, ClientType, Salt, SameClient, Waiting
<1>2. CASE client.name = "" \/ server.plugin \in {"mysql_old_password", "dialog"}
  <2>1. Raises(client) /\ server.plugin \in {"mysql_old_password", "dialog"}
    BY <1>2 DEF Switch
  <2>2. QED
    BY <1>1, <2>1, RaisesTruth
<1>3. ASSUME NEW d, Sends(client, d, "final"), Sincere(client, d)
      PROVE  TruthInv'
  BY <1>1, <1>3, FinalTruth
<1>4. CASE client.name # "" /\ server.plugin = "caching_sha2_password"
  <2>1. CASE pw = NoPassword
    <3>1. Sends(client, EmptyData, "final") /\ Sincere(client, EmptyData)
      BY <1>4, <2>1 DEF Switch, Sincere
    <3>2. QED
      BY <1>3, <3>1
  <2>2. CASE pw # NoPassword
    <3> DEFINE d == ScrambleCachingSha2(pw, salt)
    <3>1. Sends(cl, d, "sha2")
      BY <1>4, <2>2 DEF Switch
    <3>2. d # EmptyData
      BY <2>2 DEF ScrambleCachingSha2, EmptyData, Term
    <3>3. Sincere(cl, d)
      BY <1>1, <1>4, <2>2, <3>2 DEF Sincere, SameClient
    <3> HIDE DEF d, cl
    <3>4. /\ D' = d /\ client'.pc = "sha2" /\ SameClient(client') /\ client'.salt = cl.salt
          /\ client'.key = cl.key /\ server' = server /\ Nonce' = Nonce
      BY <1>1, <3>1, SentIs
    <3>5. PhaseInv'
      BY <1>1, <1>4, <2>2, <3>4 DEF PhaseInv, SameClient, Reading
    <3>6. DataInv'
      BY <1>1, <3>3, <3>4, SentSincere DEF DataInv
    <3>7. QED
      BY <1>1, <3>4, <3>5, <3>6, SaysTruth DEF Waiting
  <2>3. QED
    BY <2>1, <2>2
<1>5. CASE client.name # "" /\ server.plugin = "sha256_password"
  <2>1. CASE client.secure
    <3>1. Sends(client, Plain(pw), "final") /\ Sincere(client, Plain(pw))
      BY <1>5, <2>1 DEF Switch, Sincere
    <3>2. QED
      BY <1>3, <3>1
  <2>2. CASE ~client.secure /\ client.key = 0 /\ pw # NoPassword
    <3>1. Sends(cl, RequestKey("1"), "sha256 key")
      BY <1>5, <2>2 DEF Switch
    <3>2. Sincere(cl, RequestKey("1"))
      BY <1>1, <1>5, <2>2 DEF Sincere, SameClient
    <3> HIDE DEF cl
    <3>3. /\ D' = RequestKey("1") /\ client'.pc = "sha256 key" /\ SameClient(client')
          /\ client'.salt = cl.salt /\ client'.key = cl.key /\ server' = server /\ Nonce' = Nonce
      BY <1>1, <3>1, SentIs
    <3>4. PhaseInv'
      BY <1>1, <1>5, <2>2, <3>3 DEF PhaseInv, SameClient, Reading
    <3>5. DataInv'
      BY <1>1, <3>2, <3>3, SentSincere DEF DataInv
    <3>6. QED
      BY <1>1, <3>3, <3>4, <3>5, SaysTruth DEF Waiting
  <2>3. CASE ~client.secure /\ ~(client.key = 0 /\ pw # NoPassword)
    <3>1. Sha256Data(cl)
      BY <1>5, <2>3 DEF Switch
    <3>2. cl.password = pw
      BY <1>1 DEF SameClient
    <3> HIDE DEF cl
    <3>3. QED
      BY <1>1, <1>5, <2>3, <3>1, <3>2, Sha256Truth
  <2>4. QED
    BY <2>1, <2>2, <2>3
<1>6. CASE client.name # "" /\ server.plugin = "mysql_native_password"
  <2>1. Sends(client, ScrambleNative(pw, salt), "final")
    BY <1>6 DEF Switch
  <2>2. Sincere(client, ScrambleNative(pw, salt))
    BY <1>6 DEF Sincere, ScrambleNative, Salt
  <2>3. QED
    BY <1>3, <2>1, <2>2
<1>7. CASE client.name # "" /\ server.plugin = "client_ed25519"
  <2>1. CASE client.extras
    <3>1. Sends(client, Ed25519Password(pw, salt), "final")
      BY <1>7, <2>1 DEF Switch
    <3>2. Sincere(client, Ed25519Password(pw, salt))
      BY <1>7 DEF Sincere
    <3>3. QED
      BY <1>3, <3>1, <3>2
  <2>2. CASE ~client.extras
    <3>1. Raises(client)
      BY <1>7, <2>2 DEF Switch
    <3>2. QED
      BY <1>1, <1>7, <2>2, <3>1, RaisesTruth
  <2>3. QED
    BY <2>1, <2>2
<1>8. CASE client.name # "" /\ server.plugin = "mysql_clear_password"
  <2>1. Sends(client, Plain(pw), "final") /\ Sincere(client, Plain(pw))
    BY <1>8 DEF Switch, Sincere
  <2>2. QED
    BY <1>3, <2>1
<1>9. server.plugin \in PluginNames
  BY DEF Reading, LoginTypes, ServerType, LoginAssumption
<1>10. QED
  BY <1>2, <1>4, <1>5, <1>6, <1>7, <1>8, <1>9 DEF PluginNames

(***************************************************************************)
(* The prompts of the plugin dialog (connections.py 967-997).              *)
(***************************************************************************)
LEMMA PromptTruth ==
    ASSUME Reading, TruthInv, client.pc \in {"auth", "dialog"}, Prompt, Prompted
    PROVE  TruthInv'
<1>1. server.plugin = "dialog" /\ server.pc \in {"data", "prompted"}
  BY DEF Prompted, Got
<1>2. client \in ClientType /\ SameClient(client) /\ client.pc \in Waiting \ {"greeting"}
  BY DEF Reading, LoginTypes, SameClient, Waiting
<1>3. CASE Raises(client)
  BY <1>1, <1>2, <1>3, RaisesTruth
<1>4. ASSUME NEW pc \in {"last prompt", "dialog"}, Sends(client, Plain(client.password), pc)
      PROVE  TruthInv'
  <2> DEFINE d == Plain(client.password)
  <2>1. Sends(client, d, pc) /\ Sincere(client, d)
    BY <1>1, <1>4 DEF Sincere
  <2> HIDE DEF d
  <2>2. /\ D' = d /\ client'.pc = pc /\ SameClient(client') /\ client'.key = client.key
        /\ server' = server /\ Nonce' = Nonce
    BY <1>2, <2>1, SentIs
  <2>3. PhaseInv'
    BY <1>4, <2>2 DEF PhaseInv
  <2>4. Sincere(client, D)'
    BY <1>2, <2>1, <2>2, SentSincere
  <2>5. DataInv'
    BY <1>1, <2>2, <2>4 DEF DataInv
  <2>6. QED
    BY <1>2, <1>4, <2>2, <2>3, <2>5, SaysTruth DEF Waiting
<1>5. QED
  BY <1>3, <1>4 DEF Prompt

(***************************************************************************)
(* Before a switch the salt that counts is that of the greeting.           *)
(***************************************************************************)
LEMMA FirstNonce == ASSUME attempts \in Nat, ~server.switched PROVE Nonce = 2 * (attempts - 1)
<1>1. 2 * (attempts - 1) + 0 = 2 * (attempts - 1)
  OBVIOUS
<1>2. QED
  BY <1>1 DEF Nonce

(***************************************************************************)
(* More data before the OK packet, after the first response                *)
(* (connections.py 927-938).                                               *)
(***************************************************************************)
LEMMA ContinuesTruth ==
    ASSUME LoginTypes, SessionInv, TruthInv, AuthContinues, down' = Tail(down),
           UNCHANGED <<server, attempts, changes>>, FastAnswered \/ Reading
    PROVE  TruthInv'
<1>1. /\ client.pc = "auth" /\ down # <<>> /\ M.kind \in ExtraAuthData
      /\ client.pc \in Waiting \ {"greeting"}
  BY DEF AuthContinues, Reads, Waiting
<1>0. up = <<>> /\ (FastAnswered => M.kind = "fast")
  BY <1>1, ReadingStep
<1>2. \/ /\ FastAnswered \/ (Reading /\ M.kind = "full" /\ server.pc = "full")
         /\ client.name = "caching_sha2_password" /\ client.password # NoPassword
      \/ /\ Reading /\ M.kind = "key" /\ server.pc = "rsa" /\ client.name = "sha256_password"
         /\ M.n \in Nat
  BY <1>1, <1>0 DEF ExtraAuthData, SessionInv, AuthInv, Asked, Answered, Prompted, Got, M
<1>3. CASE client.name = "caching_sha2_password"
  <2>1. /\ Sha2Result /\ client.password # NoPassword
        /\ FastAnswered \/ (Reading /\ M.kind = "full" /\ server.pc = "full")
    BY <1>2, <1>3 DEF AuthContinues
  <2>2. CASE FastAnswered
    BY <1>1, <2>1, <2>2, FastTruth
  <2>3. CASE Reading /\ M.kind = "full" /\ server.pc = "full"
    <3>1. client.salt = Salt(2 * (attempts - 1), FALSE) /\ ~server.switched
      BY <1>1, <2>3 DEF TruthInv, PhaseInv
    <3>2. client.salt.n = Nonce
      <4>1. client.salt.n = 2 * (attempts - 1)
        BY <3>1 DEF Salt
      <4>2. Nonce = 2 * (attempts - 1)
        BY <3>1, FirstNonce DEF LoginTypes
      <4>3. QED
        BY <4>1, <4>2
    <3>3. Sha2Full
      BY <2>1, <2>3 DEF Sha2Result
    <3>4. QED
      BY <1>1, <2>1, <2>3, <3>2, <3>3, Sha2FullTruth
  <2>4. QED
    BY <2>1, <2>2, <2>3
<1>4. CASE client.name = "sha256_password"
  <2> DEFINE cl == [client EXCEPT !.key = M.n]
  <2>1. /\ Reading /\ M.kind = "key" /\ server.pc = "rsa" /\ M.n \in Nat
    BY <1>2, <1>4
  <2>2. M.n = server.key /\ client.password # NoPassword /\ ~client.secure /\ server.key # 0
    BY <1>1, <2>1 DEF TruthInv, MessageInv, AccountInv
  <2>3. Sha256Data(cl)
    BY <1>4, <2>2 DEF AuthContinues
  <2>4. client.salt = Salt(2 * (attempts - 1), FALSE) /\ ~server.switched
    BY <1>1, <2>1 DEF TruthInv, PhaseInv
  <2>5. client.salt.n = Nonce
    <3>1. client.salt.n = 2 * (attempts - 1)
      BY <2>4 DEF Salt
    <3>2. Nonce = 2 * (attempts - 1)
      BY <2>4, FirstNonce DEF LoginTypes
    <3>3. QED
      BY <3>1, <3>2
  <2>6. /\ cl \in ClientType /\ SameClient(cl) /\ cl.key # 0 /\ cl.salt = client.salt
        /\ cl.password = client.password
    BY <2>1, <2>2 DEF LoginTypes, ClientType, SameClient
  <2>7. server.plugin \in {"sha256_password", "caching_sha2_password"}
    BY <2>1 DEF TruthInv, TurnInv
  <2> HIDE DEF cl
  <2>8. QED
    BY <1>1, <2>1, <2>2, <2>3, <2>5, <2>6, <2>7, Sha256Truth
<1>5. QED
  BY <1>2, <1>3, <1>4

(***************************************************************************)
(* The server's public key has come (_auth.py 150-180, 252-259).           *)
(***************************************************************************)
LEMMA KeyTruth ==
    ASSUME LoginTypes, SessionInv, TruthInv, KeyReceived, Reading
    PROVE  TruthInv'
<1> DEFINE cl == [client EXCEPT !.key = M.n]
<1>1. /\ client.pc \in {"sha256 key", "sha2 key"} /\ down # <<>>
      /\ client.pc \in Waiting \ {"greeting"}
  BY DEF KeyReceived, Reads, Waiting
<1>2. M.kind = "key" /\ server.pc = "rsa" /\ M.n \in Nat
  BY <1>1 DEF SessionInv, KeyInv, Asked, Got, M, Reading
<1>3. M.n = server.key /\ client.password # NoPassword /\ ~client.secure /\ server.key # 0
      /\ client.salt.n = Nonce
      /\ server.plugin \in {"sha256_password", "caching_sha2_password"}
  BY <1>1, <1>2 DEF TruthInv, MessageInv, AccountInv, PhaseInv, TurnInv
<1>4. Sha256Data(cl) \/ SendsEncrypted(cl)
  BY <1>2 DEF KeyReceived
<1>5. /\ cl \in ClientType /\ SameClient(cl) /\ cl.key # 0 /\ cl.salt = client.salt
      /\ cl.password = client.password
  BY <1>2, <1>3 DEF LoginTypes, ClientType, SameClient
<1> HIDE DEF cl
<1>6. QED
  BY <1>1, <1>2, <1>3, <1>4, <1>5, Sha256Truth, EncryptedTruth

(***************************************************************************)
(* A step of the client's keeps what is known (connections.py 830-1020,    *)
(* _auth.py 118-266).                                                      *)
(***************************************************************************)
LEMMA ClientTruth ==
    ASSUME LoginAssumption, LoginTypes, SessionInv, TruthInv, ClientStep
    PROVE  TruthInv'
<1>1. down' = Tail(down) /\ UNCHANGED <<server, attempts, changes>> /\ down # <<>>
      /\ client.pc \in Waiting
  BY DEF ClientStep, RequestAuthentication, AuthSwitch, StartDialog, AuthContinues, FastPathAnswered,
         KeyReceived, LoggedIn, Refused, Reads, Waiting
<1>2. /\ up = <<>> /\ (FastAnswered \/ Reading)
      /\ FastAnswered => M.kind = "fast"
  BY <1>1, ReadingStep
<1>3. CASE RequestAuthentication
  <2>1. Reading
    BY <1>2, <1>3 DEF RequestAuthentication, Reads, SessionInv, GreetingInv, Got, M
  <2>2. QED
    BY <1>3, <2>1, RequestTruth
<1>4. CASE AuthSwitch
  <2>1. /\ client.pc = "auth" /\ M.kind = "switch" /\ Switch
    BY <1>4 DEF AuthSwitch, Reads
  <2>2. /\ Reading /\ server.pc = "data" /\ M.plugin = server.plugin
        /\ client.name = server.default
    BY <1>2, <2>1 DEF SessionInv, AuthInv, Asked, Answered, Prompted, Got, M
  <2>3. /\ server.switched /\ M.n = Nonce
        /\ server.default = "" => server.plugin = "mysql_old_password"
    BY <1>1, <2>1 DEF TruthInv, MessageInv
  <2>4. QED
    BY <2>1, <2>2, <2>3, SwitchTruth
<1>5. CASE StartDialog
  <2>1. Reading /\ Prompted /\ Prompt /\ client.pc \in {"auth", "dialog"}
    BY <1>2, <1>5 DEF StartDialog, Reads, SessionInv, AuthInv, DialogInv, Asked, Answered, Got, M
  <2>2. QED
    BY <2>1, PromptTruth
<1>6. CASE AuthContinues
  BY <1>1, <1>2, <1>6, ContinuesTruth
<1>7. CASE FastPathAnswered
  <2>1. client.pc = "sha2" /\ M.kind # "err" /\ Sha2Result
    BY <1>7 DEF FastPathAnswered, Reads
  <2>2. CASE FastAnswered
    BY <1>1, <2>1, <2>2, FastTruth
  <2>3. CASE Reading /\ ~FastAnswered
    <3>1. M.kind # "ok"
      BY <1>1, <2>1 DEF TruthInv, PhaseInv
    <3>2. M.kind = "full" /\ server.pc = "full"
      BY <1>1, <2>1, <2>3, <3>1 DEF SessionInv, Sha2Inv, Asked, Answered, Got, M
    <3>3. Sha2Full
      BY <2>1, <3>2 DEF Sha2Result
    <3>4. client.salt.n = Nonce /\ client.password # NoPassword
      BY <2>1 DEF TruthInv, PhaseInv
    <3>5. QED
      BY <2>1, <2>3, <3>2, <3>3, <3>4, Sha2FullTruth
  <2>4. QED
    BY <1>2, <2>2, <2>3
<1>8. CASE KeyReceived
  <2>1. Reading
    BY <1>2, <1>8 DEF KeyReceived, Reads, SessionInv, KeyInv, Asked, Got, M
  <2>2. QED
    BY <1>8, <2>1, KeyTruth
<1>9. CASE LoggedIn
  <2>1. client' = [client EXCEPT !.pc = "in"]
    BY <1>9 DEF LoggedIn
  <2>2. client'.pc = "in" /\ SameClient(client')
    BY <2>1 DEF LoginTypes, ClientType, SameClient
  <2>3. RefusedInv' /\ OnlyUnsupportedRaises'
    BY <2>2 DEF RefusedInv, OnlyUnsupportedRaises
  <2>4. QED
    BY <1>1, <2>2, <2>3, OverTruth DEF Done
<1>10. CASE Refused
  <2>1. client' = [client EXCEPT !.pc = "refused"] /\ M.kind = "err"
    BY <1>10 DEF Refused
  <2>2. client'.pc = "refused" /\ SameClient(client') /\ client'.key = client.key
    BY <2>1 DEF LoginTypes, ClientType, SameClient
  <2>3. Mistaken
    BY <1>1, <2>1 DEF TruthInv, MessageInv
  <2>4. RefusedInv' /\ OnlyUnsupportedRaises'
    BY <1>1, <2>2, <2>3 DEF RefusedInv, OnlyUnsupportedRaises, Mistaken, SameClient
  <2>5. QED
    BY <1>1, <2>2, <2>4, OverTruth DEF Done
<1>11. QED
  BY <1>3, <1>4, <1>5, <1>6, <1>7, <1>8, <1>9, <1>10 DEF ClientStep

(***************************************************************************)
(* Nothing has been said yet (connections.py 190-362).                     *)
(***************************************************************************)
LEMMA InitTruth == ASSUME LoginInit PROVE TruthInv
<1>1. PICK ssl, tls, extras \in BOOLEAN, mine, theirs \in AnyPassword, default \in Defaults :
        \E plugin \in PluginsOf(default) :
         /\ client = [pc |-> "idle", ssl |-> ssl, extras |-> extras, password |-> mine,
                      secure |-> FALSE, key |-> 0, salt |-> NoSalt, name |-> ""]
         /\ server = [pc |-> "idle", tls |-> tls, default |-> default,
                      plugin |-> plugin, password |-> theirs,
                      key |-> 1, cached |-> FALSE, switched |-> FALSE]
  BY Zenon DEF LoginInit
<1>2. PICK plugin \in PluginsOf(default) :
         /\ client = [pc |-> "idle", ssl |-> ssl, extras |-> extras, password |-> mine,
                      secure |-> FALSE, key |-> 0, salt |-> NoSalt, name |-> ""]
         /\ server = [pc |-> "idle", tls |-> tls, default |-> default,
                      plugin |-> plugin, password |-> theirs,
                      key |-> 1, cached |-> FALSE, switched |-> FALSE]
  BY <1>1, Zenon
<1>3. client.pc = "idle" /\ client.secure = FALSE
  BY <1>2
<1>4. /\ server.pc = "idle" /\ server.key = 1 /\ server.default = default
      /\ server.plugin = plugin /\ server.cached = FALSE
  BY <1>2
<1>5. server.default = "" => server.plugin \in {"mysql_native_password", "mysql_old_password"}
  BY <1>2, <1>4 DEF PluginsOf
<1>6. AccountInv
  <2>1. server.key # 0
    BY <1>4
  <2>2. ~client.secure /\ client.pc \notin Waiting
    BY <1>3 DEF Waiting
  <2>3. QED
    BY <1>4, <1>5, <2>1, <2>2 DEF AccountInv
<1>7. TurnInv /\ FastPathWhenCached
  BY <1>4 DEF TurnInv, FastPathWhenCached
<1>8. MessageInv /\ PhaseInv /\ DataInv /\ RefusedInv /\ OnlyUnsupportedRaises
  BY <1>3 DEF MessageInv, PhaseInv, DataInv, RefusedInv, OnlyUnsupportedRaises, Waiting
<1>9. QED
  BY <1>6, <1>7, <1>8 DEF TruthInv

(***************************************************************************)
(* While the application has no session only the server changes: what is   *)
(* known of a message is about none (connections.py 394-431).              *)
(***************************************************************************)
LEMMA IdleTruth ==
    ASSUME client'.pc = "idle", server'.pc = "idle", server'.key # 0,
           server'.default = "" => server'.plugin \in {"mysql_native_password", "mysql_old_password"},
           client'.secure => client'.ssl /\ server'.tls
    PROVE  TruthInv'
<1>1. AccountInv' /\ TurnInv' /\ FastPathWhenCached'
  BY DEF AccountInv, TurnInv, FastPathWhenCached, Waiting
<1>2. MessageInv' /\ PhaseInv' /\ DataInv' /\ RefusedInv' /\ OnlyUnsupportedRaises'
  BY DEF MessageInv, PhaseInv, DataInv, RefusedInv, OnlyUnsupportedRaises, Waiting
<1>3. QED
  BY <1>1, <1>2 DEF TruthInv

(***************************************************************************)
(* A new session starts with a greeting of its own salt                    *)
(* (connections.py 595-641, 1031-1104).                                    *)
(***************************************************************************)
LEMMA ConnectTruth == ASSUME LoginInv, TruthInv, Connect PROVE TruthInv'
<1>1. client'.pc = "greeting" /\ SameClient(client')
  BY DEF Connect, LoginInv, LoginTypes, ClientType, SameClient
<1>2. server'.pc = "response" /\ ~server'.switched /\ SameAccount
  BY DEF Connect, LoginInv, LoginTypes, ServerType, SameAccount
<1> DEFINE m == Message("greeting", server.default, 2 * attempts)
<1>3. m.kind = "greeting" /\ m.n = 2 * attempts
  BY DEF Message
<1>4. up' = <<>> /\ down' = <<m>>
  BY DEF Connect
<1> HIDE DEF m
<1>5. Head(down') = m
  BY <1>4, OneMessage
<1>6. 2 * attempts = 2 * (attempts' - 1)
  BY DEF Connect, LoginInv, LoginTypes
<1>7. MessageInv'
  BY <1>3, <1>5, <1>6 DEF MessageInv, M
<1>8. AccountInv' /\ TurnInv' /\ FastPathWhenCached'
  BY <1>1, <1>2 DEF TruthInv, AccountInv, TurnInv, FastPathWhenCached, SameClient, SameAccount
<1>9. PhaseInv' /\ DataInv' /\ RefusedInv' /\ OnlyUnsupportedRaises'
  BY <1>1, <1>4 DEF PhaseInv, DataInv, RefusedInv, OnlyUnsupportedRaises
<1>10. QED
  BY <1>7, <1>8, <1>9 DEF TruthInv

(***************************************************************************)
(* Public keys are numbered from 1, and 0 stands for none.                 *)
(***************************************************************************)
LEMMA NextKey == \A k \in Nat : k + 1 # 0
OBVIOUS

(***************************************************************************)
(* Every step keeps what is known (connections.py 595-1020).               *)
(***************************************************************************)
LEMMA TruthStep ==
    ASSUME LoginAssumption, LoginInv, TruthInv, [LoginNext]_vars
    PROVE  TruthInv'
<1>1. CASE Connect
  BY <1>1, ConnectTruth
<1>2. CASE ClientStep
  BY <1>2, ClientTruth DEF LoginInv
<1>3. CASE ServerStep
  BY <1>3, ServerTruth DEF LoginInv
<1>4. CASE Finish
  <2>1. client' = [client EXCEPT !.pc = "idle"] /\ server' = [server EXCEPT !.pc = "idle"]
    BY <1>4 DEF Finish
  <2>2. client'.pc = "idle" /\ server'.pc = "idle" /\ SameClient(client') /\ SameAccount
    BY <2>1 DEF LoginInv, LoginTypes, ClientType, ServerType, SameClient, SameAccount
  <2>3. QED
    BY <2>2, IdleTruth DEF TruthInv, AccountInv, SameClient, SameAccount
<1>5. CASE ConnectionBreaks
  <2>1. client' = [client EXCEPT !.pc = "lost"] /\ UNCHANGED <<server, attempts>>
    BY <1>5 DEF ConnectionBreaks
  <2>2. client'.pc = "lost" /\ SameClient(client')
    BY <2>1 DEF LoginInv, LoginTypes, ClientType, SameClient
  <2>3. RefusedInv' /\ OnlyUnsupportedRaises'
    BY <2>2 DEF RefusedInv, OnlyUnsupportedRaises
  <2>4. QED
    BY <2>1, <2>2, <2>3, OverTruth DEF Done
<1>6. CASE Restart
  <2>1. client.pc = "idle" /\ client' = client
        /\ server' = [server EXCEPT !.key = server.key + 1, !.cached = FALSE]
    BY <1>6 DEF Restart
  <2>2. server.key \in Nat /\ server.key + 1 # 0
    <3>1. server.key \in Nat
      BY DEF LoginInv, LoginTypes, ServerType
    <3>2. QED
      BY <3>1, NextKey, Zenon
  <2>3. /\ server'.pc = server.pc /\ server'.key # 0 /\ server'.default = server.default
        /\ server'.plugin = server.plugin /\ server'.tls = server.tls
    BY <2>1, <2>2 DEF LoginInv, LoginTypes, ServerType
  <2>4. QED
    BY <2>1, <2>3, IdleTruth DEF TruthInv, AccountInv
<1>7. CASE AlterUser
  <2>1. PICK plugin \in PluginsOf(server.default), pw \in AnyPassword :
          server' = [server EXCEPT !.plugin = plugin, !.password = pw, !.cached = FALSE]
    BY <1>7 DEF AlterUser
  <2>2. client.pc = "idle" /\ client' = client
    BY <1>7 DEF AlterUser
  <2>3. /\ server'.pc = server.pc /\ server'.key = server.key /\ server'.default = server.default
        /\ server'.plugin = plugin /\ server'.tls = server.tls
    BY <2>1 DEF LoginInv, LoginTypes, ServerType
  <2>4. server.default = "" => plugin \in {"mysql_native_password", "mysql_old_password"}
    BY DEF PluginsOf
  <2>5. QED
    BY <2>2, <2>3, <2>4, IdleTruth DEF TruthInv, AccountInv
<1>8. CASE UNCHANGED vars
  <2>1. Nonce' = Nonce /\ M' = M /\ D' = D /\ Mistaken' = Mistaken
    BY <1>8 DEF vars, Nonce, M, D, Mistaken
  <2>2. /\ Encrypts(client, D)' = Encrypts(client, D)
        /\ Sincere(client, D)' = Sincere(client, D)
    BY <1>8, <2>1 DEF vars, Sincere, Encrypts
  <2>3. AccountInv' /\ TurnInv' /\ FastPathWhenCached' /\ OnlyUnsupportedRaises'
    BY <1>8 DEF vars, TruthInv, AccountInv, TurnInv, FastPathWhenCached, OnlyUnsupportedRaises
  <2>4. MessageInv' /\ PhaseInv' /\ RefusedInv'
    BY <1>8, <2>1 DEF vars, TruthInv, MessageInv, PhaseInv, RefusedInv
  <2>5. FirstData(client.name, Salt(Nonce, FALSE))' = FirstData(client.name, Salt(Nonce, FALSE))
    BY <1>8, <2>1 DEF vars, FirstData
  <2>6. DataInv'
    BY <1>8, <2>1, <2>2, <2>5 DEF vars, TruthInv, DataInv
  <2>7. QED
    BY <2>3, <2>4, <2>6 DEF TruthInv
<1>9. QED
  BY <1>1, <1>2, <1>3, <1>4, <1>5, <1>6, <1>7, <1>8 DEF LoginNext

(***************************************************************************)
(* All that is proved of the login.                                        *)
(***************************************************************************)
LEMMA TruthInvariant == LoginSpec => [](LoginInv /\ TruthInv)
<1>1. LoginInit => LoginInv /\ TruthInv
  BY LoginAssumption, LoginInitInv, InitTruth
<1>2. LoginInv /\ TruthInv /\ [LoginNext]_vars => (LoginInv /\ TruthInv)'
  BY LoginAssumption, LoginStepInv, TruthStep
<1>3. QED
  BY <1>1, <1>2, PTL DEF LoginSpec

(***************************************************************************)
(* The right password is refused only when the Connection encrypted it     *)
(* with a public key the server no longer has (_auth.py 167, 254).         *)
(***************************************************************************)
THEOREM RightPasswordCorrect == LoginSpec => []RightPasswordLogsIn
<1>1. LoginInv /\ TruthInv => RightPasswordLogsIn
  BY DEF TruthInv, RefusedInv, Mistaken, RightPasswordLogsIn, RightPasswordRefused
<1>2. QED
  BY <1>1, TruthInvariant, PTL

(***************************************************************************)
(* The client raises only for a method it cannot do (_auth.py 180,         *)
(* 223-226, 243-244, 256-259; connections.py 936-939).                     *)
(***************************************************************************)
THEOREM RaisesCorrect == LoginSpec => []OnlyUnsupportedRaises
<1>1. LoginInv /\ TruthInv => OnlyUnsupportedRaises
  BY DEF TruthInv
<1>2. QED
  BY <1>1, TruthInvariant, PTL

(***************************************************************************)
(* A cached password that is proved with the salt of the greeting is       *)
(* accepted at once (connections.py 1078-1104, _auth.py 126).              *)
(***************************************************************************)
THEOREM FastPathCorrect == LoginSpec => []FastPathWhenCached
<1>1. LoginInv /\ TruthInv => FastPathWhenCached
  BY DEF TruthInv
<1>2. QED
  BY <1>1, TruthInvariant, PTL

=============================================================================
