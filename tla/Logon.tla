------------------------------- MODULE Logon --------------------------------
(***************************************************************************)
(* The challenge and the answer of the logon, src/pyora/auth_object.py:    *)
(* the dictionary of keys the server sends, the keys both sides derive     *)
(* from the password, and the message with the encrypted password.         *)
(*                                                                         *)
(* Cryptography is symbolic: a hash is the tuple of what is hashed, what   *)
(* is encrypted is a box, and opening a box with another key gives noise.  *)
(* On the wire a key or a value is a string of one token.                  *)
(***************************************************************************)
EXTENDS Replies

Verifier5x == 2361
Verifier11g == 6949
Verifier12c == 18453
Verifiers == {Verifier5x, Verifier11g, Verifier12c}

Box(key, content) == [key |-> key, content |-> content]

Open(key, box) ==
  IF box.key = key THEN box.content ELSE [noise |-> key, of |-> box]

-----------------------------------------------------------------------------
(* The challenge.                                                          *)

\* AuthObject.__init__.
NoChallenge ==
  [sessKey |-> <<>>, salt |-> <<>>, verifier |-> 0, cskSalt |-> <<>>,
   vgen |-> 0, sder |-> 0]

\* A count out of its range becomes the least.
Clipped(n, least) == IF n \in least .. 100000000 THEN n ELSE least

\* What one pair adds: of two values for a key the first counts.
Learn(c, key, val, num) ==
  CASE key = <<"AUTH_SESSKEY">> /\ c.sessKey = <<>> -> [c EXCEPT !.sessKey = val]
    [] key = <<"AUTH_VFR_DATA">> /\ c.salt = <<>> ->
         [c EXCEPT !.salt = val, !.verifier = num]
    [] key = <<"AUTH_PBKDF2_CSK_SALT">> /\ c.cskSalt = <<>> -> [c EXCEPT !.cskSalt = val]
    [] key = <<"AUTH_PBKDF2_VGEN_COUNT">> /\ c.vgen = 0 ->
         [c EXCEPT !.vgen = Clipped(val[1], 4096)]
    [] key = <<"AUTH_PBKDF2_SDER_COUNT">> /\ c.sder = 0 ->
         [c EXCEPT !.sder = Clipped(val[1], 3)]
    [] OTHER -> c

\* The checks of the lengths and of the type of the verifier.
Usable(c) ==
  /\ c.sessKey # <<>> /\ c.sessKey[1].length \in {64, 96}
  /\ c.cskSalt # <<>> => c.cskSalt[1].length = 32
  /\ c.verifier \in Verifiers

\* AuthObject._create, up to the keys: dictionaries (8) up to the summary (4).
\* Messages of other kinds are those of Handshake.
ReadChallenge(s, session) ==
  LET from[n \in Nat] ==
        Then(GetByte(SubSeq(s, Len(s) - n + 1, Len(s))), LAMBDA message, t :
          CASE message = 8 ->
                 Then(GetInt(t, 4, TRUE, TRUE), LAMBDA count, u :
                   Then(GetMany(u, count, LAMBDA v : GetKeyVal(v, session.big)),
                     LAMBDA pairs, w :
                       Then(from[Len(w)], LAMBDA more, x : Got(pairs \o more, x))))
            [] message = 4 ->
                 Then(ReadSummary(t, session), LAMBDA summary, u :
                   IF summary.code \notin {0, 1403} THEN Raised ELSE Got(<<>>, u))
            [] OTHER -> Raised)
  IN  Then(from[Len(s)], LAMBDA pairs, rest :
        LET c == FoldLeft(LAMBDA d, pair : Learn(d, pair[1], pair[2], pair[3]),
                          NoChallenge, pairs)
        IN  IF Usable(c) THEN Got(c, rest) ELSE Raised)

-----------------------------------------------------------------------------
(* The keys.                                                               *)

Upper(name) ==
  [i \in DOMAIN name |-> IF name[i] \in 97 .. 122 THEN name[i] - 32 ELSE name[i]]

\* generate_speedy_key.
SpeedyKey(password, c) == <<"speedy", password, c.salt, c.vgen>>

\* The key of the password, by the kind of verifier the server has of it.
PasswordKey(user, password, c) ==
  CASE c.verifier = Verifier5x -> <<"des", Upper(user) \o Upper(password)>>
    [] c.verifier = Verifier11g -> <<"sha1", password, c.salt>>
    [] c.verifier = Verifier12c -> <<"sha512", SpeedyKey(password, c), c.salt>>

\* Only with the custom hash is there a key for the newest verifier.
Derivable(c, customHash) == customHash \/ c.verifier # Verifier12c

\* generate_password_enc_key.
PasswordEncKey(serverKey, clientKey, c, customHash) ==
  IF customHash
  THEN <<"speedy", clientKey, serverKey, c.verifier, c.cskSalt, c.sder>>
  ELSE <<"md5", {clientKey, serverKey}, c.verifier>>

-----------------------------------------------------------------------------
(* The answer.                                                             *)

ClientKey == [secret |-> "client"]
ServerKey == [secret |-> "server"]
UserAndPassword == 256
NoNewPassword == 1

\* What the client tells of itself; a proxy client's name is optional.
About ==
  <<"AUTH_TERMINAL", "AUTH_PROGRAM_NM", "AUTH_MACHINE", "AUTH_PID", "AUTH_SID",
    "AUTH_CONNECT_STRING", "SESSION_CLIENT_CHARSET", "SESSION_CLIENT_LIB_TYPE",
    "SESSION_CLIENT_DRIVER_NAME", "SESSION_CLIENT_VERSION", "SESSION_CLIENT_LOBATTR",
    "AUTH_ALTER_SESSION">>

\* Mutant: under the key it is a part of.
SessionKeyBox_EncKey(key, encKey) == Box(encKey, ClientKey)

\* The client's session key, encrypted with the key of the password.
SessionKeyBox(key, encKey) == Box(key, ClientKey)

\* The pairs of AuthObject.write, with their flags.
LogonPairs(user, password, c, customHash, proxy) ==
  LET key == PasswordKey(user, password, c)
      serverKey == Open(key, c.sessKey[1].box)
      encKey == PasswordEncKey(serverKey, ClientKey, c, customHash)
  IN  <<<<<<"AUTH_SESSKEY">>, <<SessionKeyBox(key, encKey)>>, 1>>,
        <<<<"AUTH_PASSWORD">>, <<Box(encKey, [text |-> password])>>, 0>>>>
        \o If(c.verifier = Verifier12c,
              <<<<<<"AUTH_PBKDF2_SPEEDY_KEY">>,
                  <<Box(encKey, [speedy |-> SpeedyKey(password, c)])>>, 0>>>>)
        \o [i \in DOMAIN About |->
              <<<<About[i]>>, <<"text">>, IF About[i] = "AUTH_ALTER_SESSION" THEN 1 ELSE 0>>]
        \o If(proxy, <<<<<<"PROXY_CLIENT_NAME">>, <<"text">>, 0>>>>)

\* AuthObject.write.
WriteLogon(user, pairs, big) ==
  <<3, 115, 0>>
    \o (IF user # <<>> THEN <<1>> \o PutInt(Len(user), 4, TRUE, TRUE) ELSE <<0, 0>>)
    \o PutUint(NoNewPassword + (IF user # <<>> THEN UserAndPassword ELSE 0), 4, TRUE, TRUE)
    \o <<1>> \o PutUint(Len(pairs), 4, TRUE, TRUE) \o <<1, 1>>
    \o If(user # <<>>, PutClr(user, big))
    \o FlattenSeq([i \in DOMAIN pairs |->
         PutKeyVal(pairs[i][1], pairs[i][2], pairs[i][3], big)])

-----------------------------------------------------------------------------
(* The server (external).                                                  *)

\* Its pairs: in any order, in one dictionary or two.
PutPairs(pairs, big) ==
  <<8>> \o PutCompressed(Len(pairs))
    \o FlattenSeq([i \in DOMAIN pairs |->
         PutKeyVal(pairs[i][1], pairs[i][2], pairs[i][3], big)])

Challenge(dictionaries, summary, session) ==
  FlattenSeq([i \in DOMAIN dictionaries |-> PutPairs(dictionaries[i], session.big)])
    \o <<4>> \o PutSummary(summary, session)

\* The pairs of a logon and its user.
TakeLogon(s, big) ==
  Then(GetBytes(s, 3), LAMBDA code, t :
    Then(GetByte(t), LAMBDA named, u :
      Then(GetField(u, "int", big), LAMBDA length, v :
        Then(GetFields(v, <<"int", "byte", "int", "byte", "byte">>, big), LAMBDA f, w :
          Then(IF named = 1 THEN GetClr(w, big) ELSE Got(<<>>, w), LAMBDA user, x :
            Then(GetMany(x, f[3], LAMBDA y : GetKeyVal(y, big)), LAMBDA pairs, rest :
              Got([user |-> user, pairs |-> pairs], rest)))))))

\* Does the server, which knows the password, let the client in?
Accepts(logon, user, password, c, customHash) ==
  LET key == PasswordKey(user, password, c)
      clientKey == Open(key, logon.pairs[1][2][1])
      encKey == PasswordEncKey(ServerKey, clientKey, c, customHash)
      sent == Open(encKey, logon.pairs[2][2][1])
      same(name) == IF c.verifier = Verifier5x THEN Upper(name) ELSE name
  IN  "text" \in DOMAIN sent /\ same(sent.text) = same(password)
=============================================================================
