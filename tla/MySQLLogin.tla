----------------------------- MODULE MySQLLogin -----------------------------
(***************************************************************************)
(* The connection phase of pymysql 1.0.2: what connect() does between the  *)
(* server's greeting and the first command                                 *)
(* (src/lambdas/primary-db-setup/package/pymysql/connections.py            *)
(* _get_server_information, _request_authentication, _process_auth, and    *)
(* _auth.py), against a MySQL server whose account uses one of the         *)
(* authentication plugins.  The server is external, modelled from what the *)
(* client expects of it.                                                   *)
(*                                                                         *)
(* A proof of the password is a term that says what it was computed from:  *)
(* two are equal when the bytes are.  The Connection object outlives the   *)
(* attempt: a public key it has learnt and _secure are kept.               *)
(***************************************************************************)
EXTENDS Integers, Sequences, FiniteSets

CONSTANTS
    Passwords,          \* the passwords that are not empty
    Defaults,           \* plugins the greeting may name; "" when the server
                        \* has no plugins
    Plugins,            \* plugins the account may use
    MaxAttempts,        \* bound on the calls of connect
    MaxChanges          \* bound on restarts of the server, changes of the
                        \* account and connections lost

NoPassword == "no password"

PluginNames ==
    {"mysql_native_password", "caching_sha2_password", "sha256_password", "client_ed25519",
     "mysql_clear_password", "mysql_old_password", "dialog"}

ASSUME LoginAssumption ==
    /\ NoPassword \notin Passwords
    /\ Defaults \subseteq PluginNames \cup {""}
    /\ Plugins \subseteq PluginNames
    /\ {MaxAttempts, MaxChanges} \subseteq Nat

VARIABLES
    client,     \* the Connection object and where connect() is
    up, down,   \* packets on their way to the server and to the client
    server,     \* the server, its account and this session
    attempts,   \* calls of connect
    changes

vars == <<client, up, down, server, attempts, changes>>

-----------------------------------------------------------------------------
(* What is sent.                                                           *)

Salt(n, nul) == [n |-> n, nul |-> nul]
NoSalt == Salt(0, FALSE)

Term(kind, pw, salt, key) == [kind |-> kind, pw |-> pw, salt |-> salt, key |-> key]

EmptyData == Term("empty", NoPassword, NoSalt, 0)
RequestKey(byte) == Term(byte, NoPassword, NoSalt, 0)
Plain(pw) == Term("plain", pw, NoSalt, 0)           \* ended by a NUL

\* Only the first 20 bytes of the salt count ...
ScrambleNative(pw, salt) ==
    IF pw = NoPassword THEN EmptyData ELSE Term("native", pw, Salt(salt.n, FALSE), 0)

\* ... here all of them do.
ScrambleCachingSha2(pw, salt) ==
    IF pw = NoPassword THEN EmptyData ELSE Term("sha2", pw, salt, 0)

\* (mutant of Sha2RsaEncrypt) the salt is not cut to its length.
Sha2RsaEncryptWholeSalt(pw, salt, key) == Term("rsa", pw, salt, key)

Sha2RsaEncrypt(pw, salt, key) == Term("rsa", pw, Salt(salt.n, FALSE), key)

Ed25519Password(pw, salt) == Term("ed25519", pw, salt, 0)

\* The plugin a response names, "" for none.
Response(plugin, data) == [plugin |-> plugin, data |-> data]

Message(kind, plugin, n) == [kind |-> kind, plugin |-> plugin, n |-> n]

ExtraAuthData == {"fast", "full", "key"}

\* (mutant of SaltLength) the filler is not left out.
SaltLengthWithFiller(field) == 9 + (IF field - 9 > 12 THEN field - 9 ELSE 12)

\* The greeting has the salt in two parts, and a length that counts a NUL.
SaltLength(field) == 8 + (IF field - 9 > 12 THEN field - 9 ELSE 12)

GreetingSalt(n) == Salt(n, SaltLength(21) > 20)

-----------------------------------------------------------------------------
(* The client.                                                             *)

Waiting == {"greeting", "auth", "sha256 key", "sha2", "sha2 key", "dialog",
            "last prompt", "final"}
Done == {"in", "refused", "raised", "lost"}

AnyPassword == Passwords \cup {NoPassword}

\* A server without plugins has accounts of the two oldest kinds.
PluginsOf(default) ==
    IF default = "" THEN Plugins \cap {"mysql_native_password", "mysql_old_password"}
                    ELSE Plugins

LoginInit ==
    /\ \E ssl, tls, extras \in BOOLEAN, mine, theirs \in AnyPassword, default \in Defaults :
        \E plugin \in PluginsOf(default) :
         /\ client = [pc |-> "idle", ssl |-> ssl, extras |-> extras, password |-> mine,
                      secure |-> FALSE, key |-> 0, salt |-> NoSalt, name |-> ""]
         /\ server = [pc |-> "idle", tls |-> tls, default |-> default,
                      plugin |-> plugin, password |-> theirs,
                      key |-> 1, cached |-> FALSE, switched |-> FALSE]
    /\ up = <<>>
    /\ down = <<>>
    /\ attempts = 0
    /\ changes = 0

M == Head(down)

\* The data sent, and what the client reads next.
Sends(cl, data, pc) ==
    /\ client' = [cl EXCEPT !.pc = pc]
    /\ up' = Append(up, Response("", data))

Raises(cl) ==
    /\ client' = [cl EXCEPT !.pc = "raised"]
    /\ UNCHANGED up

\* (mutant of SendsEncrypted) the key is asked for again at the same time.
SendsEncryptedAndAsks(cl) ==
    /\ client' = [cl EXCEPT !.pc = "final"]
    /\ up' = <<Response("", RequestKey("2")),
               Response("", Sha2RsaEncrypt(cl.password, cl.salt, cl.key))>>

\* sha2_rsa_encrypt needs the package `cryptography'; the key stays learnt.
SendsEncrypted(cl) ==
    IF client.extras
      THEN Sends(cl, Sha2RsaEncrypt(cl.password, cl.salt, cl.key), "final")
      ELSE Raises(cl)

Reads(pc) == client.pc = pc /\ down # <<>> /\ M.kind # "err"

Connect ==
    /\ client.pc = "idle"
    /\ attempts < MaxAttempts
    /\ attempts' = attempts + 1
    /\ client' = [client EXCEPT !.pc = "greeting"]
    /\ server' = [server EXCEPT !.pc = "response", !.switched = FALSE]
    /\ down' = <<Message("greeting", server.default, 2 * attempts)>>
    /\ up' = <<>>
    /\ UNCHANGED changes

\* The first proof goes with the response, for the plugin the greeting names.
FirstData(plugin, salt) ==
    LET pw == client.password IN
    CASE plugin \in {"", "mysql_native_password"} -> ScrambleNative(pw, salt)
      [] plugin = "caching_sha2_password" -> ScrambleCachingSha2(pw, salt)
      [] plugin = "sha256_password" ->
            IF client.ssl /\ server.tls THEN Plain(pw)
            ELSE IF pw # NoPassword THEN RequestKey("1") ELSE Plain(NoPassword)
      [] OTHER -> EmptyData

Named(plugin) ==
    IF plugin \in {"mysql_native_password", "caching_sha2_password", "sha256_password"}
      THEN plugin ELSE ""

RequestAuthentication ==
    /\ Reads("greeting")
    /\ LET salt == GreetingSalt(M.n) IN
         /\ client' = [client EXCEPT !.pc = "auth", !.salt = salt, !.name = M.plugin,
                          !.secure = client.secure \/ (client.ssl /\ server.tls)]
         /\ up' = <<Response(Named(M.plugin), FirstData(M.plugin, salt))>>

\* The end of sha256_password_auth.
Sha256Data(cl) ==
    IF cl.password = NoPassword THEN Sends(cl, EmptyData, "final")
    ELSE IF cl.key = 0 THEN Raises(client) ELSE SendsEncrypted(cl)

\* (mutant of Sha2Full) the key is waited for and never asked for.
Sha2FullUnasked ==
    IF client.secure THEN Sends(client, Plain(client.password), "final")
    ELSE IF client.key = 0 THEN client' = [client EXCEPT !.pc = "sha2 key"] /\ UNCHANGED up
    ELSE SendsEncrypted(client)

\* What caching_sha2_password_auth does with the answer to the fast path.
Sha2Full ==
    IF client.secure THEN Sends(client, Plain(client.password), "final")
    ELSE IF client.key = 0 THEN Sends(client, RequestKey("2"), "sha2 key")
    ELSE SendsEncrypted(client)

\* (mutant of Sha2Result) the OK packet after the fast path is left unread.
Sha2ResultAtOnce ==
    CASE M.kind = "fast" -> client' = [client EXCEPT !.pc = "in"] /\ UNCHANGED up
      [] M.kind = "full" -> Sha2Full
      [] OTHER -> Raises(client)

Sha2Result ==
    CASE M.kind = "fast" -> client' = [client EXCEPT !.pc = "final"] /\ UNCHANGED up
      [] M.kind = "full" -> Sha2Full
      [] OTHER -> Raises(client)

\* A prompt of the plugin `dialog', n = 1 in the last one.
Prompt ==
    IF M.plugin = "Password: "
      THEN Sends(client, Plain(client.password), IF M.n = 1 THEN "last prompt" ELSE "dialog")
      ELSE Raises(client)

\* _process_auth: the server asks for another plugin.
Switch ==
    LET pw == client.password
        salt == Salt(M.n, TRUE)
    IN  CASE client.name = "" -> Raises(client)     \* no plugins: scramble_old_password
          [] M.plugin = "caching_sha2_password" ->
               IF pw = NoPassword THEN Sends(client, EmptyData, "final")
               ELSE Sends([client EXCEPT !.salt = salt], ScrambleCachingSha2(pw, salt), "sha2")
          [] M.plugin = "sha256_password" ->
               IF client.secure THEN Sends(client, Plain(pw), "final")
               ELSE IF client.key = 0 /\ pw # NoPassword
                 THEN Sends([client EXCEPT !.salt = salt], RequestKey("1"), "sha256 key")
                 ELSE Sha256Data([client EXCEPT !.salt = salt])
          [] M.plugin = "mysql_native_password" -> Sends(client, ScrambleNative(pw, salt), "final")
          [] M.plugin = "client_ed25519" ->
               IF client.extras THEN Sends(client, Ed25519Password(pw, salt), "final")
               ELSE Raises(client)
          [] M.plugin = "mysql_clear_password" -> Sends(client, Plain(pw), "final")
          [] OTHER -> Raises(client)                  \* ... which does not exist

AuthSwitch ==
    /\ Reads("auth")
    /\ M.kind = "switch"
    /\ Switch

StartDialog ==
    /\ Reads("auth") \/ Reads("dialog")
    /\ M.kind = "prompt"
    /\ Prompt

AuthContinues ==
    /\ Reads("auth")
    /\ M.kind \in ExtraAuthData
    /\ CASE client.name = "caching_sha2_password" /\ client.password = NoPassword ->
               Sends(client, EmptyData, "final")
         [] client.name = "caching_sha2_password" -> Sha2Result
         [] client.name = "sha256_password" /\ client.secure ->
               Sends(client, Plain(client.password), "final")
         [] client.name = "sha256_password" -> Sha256Data([client EXCEPT !.key = M.n])
         [] OTHER -> Raises(client)

FastPathAnswered ==
    /\ Reads("sha2")
    /\ Sha2Result

\* (mutant of KeyReceived) the key is not kept.
KeyReceivedAndDropped ==
    \/ Reads("sha256 key") /\ Sha256Data(client)
    \/ Reads("sha2 key") /\ SendsEncrypted([client EXCEPT !.key = M.n])

KeyReceived ==
    \/ /\ Reads("sha256 key")
       /\ Sha256Data(IF M.kind = "key" THEN [client EXCEPT !.key = M.n] ELSE client)
    \/ /\ Reads("sha2 key")
       /\ IF M.kind = "key" THEN SendsEncrypted([client EXCEPT !.key = M.n]) ELSE Raises(client)

\* Any packet that is no error is taken for the OK packet, the one after the
\* last prompt too.
LoggedIn ==
    /\ \/ Reads("auth") /\ M.kind = "ok"
       \/ Reads("dialog") /\ M.kind = "ok"
       \/ Reads("last prompt")
       \/ Reads("final")
    /\ client' = [client EXCEPT !.pc = "in"]
    /\ UNCHANGED up

Refused ==
    /\ client.pc \in Waiting
    /\ down # <<>>
    /\ M.kind = "err"
    /\ client' = [client EXCEPT !.pc = "refused"]
    /\ UNCHANGED up

ClientStep ==
    /\ \/ RequestAuthentication \/ AuthSwitch \/ StartDialog \/ AuthContinues
       \/ FastPathAnswered \/ KeyReceived \/ LoggedIn \/ Refused
    /\ down' = Tail(down)
    /\ UNCHANGED <<server, attempts, changes>>

\* The application closes the session, or drops the exception.
Finish ==
    /\ client.pc \in Done
    /\ client' = [client EXCEPT !.pc = "idle"]
    /\ server' = [server EXCEPT !.pc = "idle"]
    /\ up' = <<>>
    /\ down' = <<>>
    /\ UNCHANGED <<attempts, changes>>

-----------------------------------------------------------------------------
(* The server (external).                                                  *)

Nonce == 2 * (attempts - 1) + (IF server.switched THEN 1 ELSE 0)

Replies(pc, messages) ==
    /\ server' = [server EXCEPT !.pc = pc]
    /\ down' = down \o messages

Verdict(right) ==
    IF right
      THEN /\ server' = [server EXCEPT !.pc = "in",
                            !.cached = server.cached \/ server.plugin = "caching_sha2_password"]
           /\ down' = Append(down, Message("ok", "", 0))
      ELSE Replies("closed", <<Message("err", "", 0)>>)

ThePassword == server.password
Encrypted == Sha2RsaEncrypt(ThePassword, Salt(Nonce, FALSE), server.key)
SendKey == Replies("rsa", <<Message("key", "", server.key)>>)

\* Data of the account's own plugin.
Judge(d) ==
    CASE server.plugin = "mysql_native_password" ->
           Verdict(d = ScrambleNative(ThePassword, Salt(Nonce, FALSE)))
      [] server.plugin = "caching_sha2_password" ->
           IF d = EmptyData \/ ThePassword = NoPassword
             THEN Verdict(d = EmptyData /\ ThePassword = NoPassword)
           ELSE IF server.cached /\ d = ScrambleCachingSha2(ThePassword, Salt(Nonce, FALSE))
             THEN /\ server' = [server EXCEPT !.pc = "in"]
                  /\ down' = down \o <<Message("fast", "", 0), Message("ok", "", 0)>>
           ELSE Replies("full", <<Message("full", "", 0)>>)
      [] server.plugin = "sha256_password" ->
           IF d = RequestKey("1") THEN SendKey
           ELSE IF d = EmptyData \/ d = Plain(NoPassword) THEN Verdict(ThePassword = NoPassword)
           ELSE IF d.kind = "plain" THEN Verdict(client.secure /\ d = Plain(ThePassword))
           ELSE Verdict(d = Encrypted)
      [] server.plugin = "client_ed25519" -> Verdict(d = Ed25519Password(ThePassword, Salt(Nonce, TRUE)))
      [] OTHER -> Verdict(d = Plain(ThePassword))

D == Head(up).data

GetResponse ==
    /\ server.pc = "response"
    /\ IF Head(up).plugin = server.plugin
            \/ (server.default = "" /\ server.plugin = "mysql_native_password")
         THEN Judge(D)
       ELSE IF server.plugin = "dialog"
         THEN \E last \in {0, 1}, text \in {"Password: ", "PIN: "} :
                Replies(IF last = 1 THEN "data" ELSE "prompted", <<Message("prompt", text, last)>>)
       ELSE /\ server' = [server EXCEPT !.pc = "data", !.switched = TRUE]
            /\ down' = Append(down, Message("switch", server.plugin, 2 * (attempts - 1) + 1))

GetData ==
    \/ /\ server.pc \in {"data", "prompted"}
       /\ Judge(D)
    \/ /\ server.pc = "prompted"
       /\ Replies("data", <<Message("prompt", "Password: ", 1)>>)

GetFull ==
    /\ server.pc = "full"
    /\ IF D = RequestKey("2") THEN SendKey
       ELSE Verdict(D = Encrypted \/ (client.secure /\ D = Plain(ThePassword)))

GetEncrypted ==
    /\ server.pc = "rsa"
    /\ Verdict(D = Encrypted)

ServerStep ==
    /\ up # <<>>
    /\ GetResponse \/ GetData \/ GetFull \/ GetEncrypted
    /\ up' = Tail(up)
    /\ UNCHANGED <<client, attempts, changes>>

Change ==
    /\ changes < MaxChanges
    /\ changes' = changes + 1

Restart ==
    /\ Change
    /\ client.pc = "idle"
    /\ server' = [server EXCEPT !.key = server.key + 1, !.cached = FALSE]
    /\ UNCHANGED <<client, up, down, attempts>>

AlterUser ==
    /\ Change
    /\ client.pc = "idle"
    /\ \E plugin \in PluginsOf(server.default), pw \in AnyPassword :
         server' = [server EXCEPT !.plugin = plugin, !.password = pw, !.cached = FALSE]
    /\ UNCHANGED <<client, up, down, attempts>>

\* _read_bytes and _write_bytes raise, whatever the server had decided.
ConnectionBreaks ==
    /\ Change
    /\ client.pc \in Waiting
    /\ client' = [client EXCEPT !.pc = "lost"]
    /\ up' = <<>>
    /\ down' = <<>>
    /\ UNCHANGED <<server, attempts>>

LoginNext ==
    \/ Connect \/ ClientStep \/ Finish
    \/ ServerStep \/ Restart \/ AlterUser \/ ConnectionBreaks

LoginSpec == LoginInit /\ [][LoginNext]_vars

\* Both ends answer what they have received.
LoginFairSpec == LoginSpec /\ WF_vars(ClientStep) /\ WF_vars(ServerStep)

-----------------------------------------------------------------------------
(* Properties.                                                             *)

\* Every variable keeps its type, and the two speak in turn: at most one message
\* of the client's and two of the server's are on their way.
LoginTypeOK ==
    /\ client \in [pc : Waiting \cup Done \cup {"idle"}, ssl : BOOLEAN, extras : BOOLEAN,
                   password : AnyPassword, secure : BOOLEAN, key : Nat,
                   salt : [n : Nat, nul : BOOLEAN], name : Defaults \cup {""}]
    /\ server \in [pc : {"idle", "response", "data", "prompted", "full", "rsa", "in", "closed"},
                   tls : BOOLEAN, default : Defaults, plugin : Plugins,
                   password : AnyPassword, key : Nat, cached : BOOLEAN, switched : BOOLEAN]
    /\ Len(up) <= 1 /\ Len(down) <= 2
    /\ {attempts, changes} \subseteq Nat

\* connect() returns only into a session the server has granted, and with
\* nothing left to read that the first command would take for its answer,
\* though the client takes any packet that is no error for the final one
\* (connections.py 907, 1007-1010, 1017-1020; _auth.py 118-122, 236-241).
LoginAgrees == client.pc = "in" => server.pc = "in" /\ up = <<>> /\ down = <<>>

RightPasswordRefused ==
    /\ client.pc = "refused"
    /\ client.password = server.password

\* The right password is refused on one ground only, a public key that the
\* server has changed since this Connection learnt it (_auth.py 167, 254): not
\* for the order of plugins tried, a second switch of salt, or an empty
\* password sent in the form of another plugin.
RightPasswordLogsIn ==
    RightPasswordRefused => client.key \notin {0, server.key}

\* An exception of the client's own means a method it cannot do at all: it
\* never loses its way in a conversation with a server that speaks the
\* protocol (_auth.py 180, 223-226, 243-244, 256-259; connections.py 936-939).
OnlyUnsupportedRaises ==
    client.pc = "raised" =>
        \/ server.plugin \in {"mysql_old_password", "dialog"}
        \/ /\ ~client.extras
           /\ \/ server.plugin = "client_ed25519"
              \/ /\ server.plugin \in {"sha256_password", "caching_sha2_password"}
                 /\ ~client.secure

\* A password the server has cached is accepted without the full exchange
\* (scramble_caching_sha2 with the salt put together in 1078-1104).  After a
\* switch it never is: that salt keeps its NUL (_auth.py 126, 218-219).
FastPathWhenCached ==
    server.pc = "full" /\ server.cached =>
        client.password # server.password \/ server.switched

\* Every call of connect ends: the two never wait for each other.
LoginEnds == client.pc \in Waiting ~> client.pc \in Done
=============================================================================
