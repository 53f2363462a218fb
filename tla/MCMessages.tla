----------------------------- MODULE MCMessages -----------------------------
EXTENDS Messages

MCDigit == {0, 1, 9}

\* Both sides of zero and of the range, weights of both parities, and one with
\* which three digits are on both sides of 2^63.
MCScale == {-132, -131, -2, -1, 0, 1, 16, 122, 123}

Newest == [ttc |-> 11, eos |-> TRUE, fsap |-> TRUE, big |-> TRUE]
Small == [Newest EXCEPT !.big = FALSE]
Sessions == [ttc : {2, 3, 4, 6, 7, 8, 11}, eos : BOOLEAN, fsap : BOOLEAN, big : BOOLEAN]

Field(kind, form, value) == [kind |-> kind, form |-> form, value |-> value]

Data(n) == [i \in 1 .. n |-> i % 256]

\* Both sides of the widths of 1, 2 and 4 bytes.
Integer == {0, 1, 127, 128, 255, 256, 65535, 65536, 16777215, 16777216}
IntForm == [size : {1, 2, 4}, bigEndian : BOOLEAN, compress : BOOLEAN]
Ints ==
  {Field("int", form, n) : form \in IntForm, n \in Integer}
    \cup {Field("int", [size |-> 4, bigEndian |-> TRUE, compress |-> TRUE], n) :
            n \in {-1, -127, -128, -65536}}
    \cup {Field("uint", form, n) : form \in IntForm, n \in Integer}

\* Both sides of the longest short string and of one and two chunks.
Clrs ==
  {Field("clr", 0, Data(n)) : n \in {0, 1, 64, 252, 253, 254, 255, 256, 300, 301, 600, 601}}
KeyVals ==
  {Field("keyval", 0, <<Data(n), Data(m), num>>) :
     n \in {0, 1, 253}, m \in {0, 1, 301}, num \in {0, 1, 6949}}

Column(type, charset, maxLen) ==
  [type |-> type, charset |-> charset, connCharset |-> 873, maxLen |-> maxLen,
   maxCharLen |-> maxLen, bind |-> 0]
Bound(bind, type) == [Column(type, 0, 30) EXCEPT !.bind = bind]

\* 2^63 - 1 and its negative, -2^63, and what is no number of digits.
Extremes ==
  {[TwoTo63 EXCEPT !.digits[19] = 7, !.negative = negative] : negative \in BOOLEAN}
    \cup {[TwoTo63 EXCEPT !.negative = TRUE]} \cup Infinities
Numbers ==
  {Field("bind", Bound(2, 2), v) : v \in Value}
    \cup {Field("value", Column(2, 0, 22), v) : v \in Extremes}

\* ASCII, and characters of two and three bytes in UTF-8.
Texts ==
  LET text == {<<>>, <<65>>, <<65, 233>>, <<8364, 65>>, [i \in 1 .. 90 |-> 8364]} IN
  {Field("value", Column(type, charset, max), t) :
     type \in {1, 96}, charset \in {0, 1, 31, 873, 2000, 2002}, max \in {0, 30}, t \in text}
    \cup {Field("bind", Bound(bind, type), t) :
            bind \in {1, 8, 9, 94, 96, 97, 112}, type \in {1, 8, 94, 96, 208}, t \in text}

\* Ends of months, centuries and years, and years Python does not have.
Moment(y, mo, d, h, us, offset) ==
  [year |-> y, month |-> mo, day |-> d, hour |-> h, minute |-> h, second |-> h,
   micro |-> us, offset |-> offset]
Instants ==
  {Moment(y, md[1], md[2], h, us, offset) :
     y \in {1, 99, 100, 1999, 2000, 9999}, md \in {<<1, 1>>, <<12, 31>>}, h \in {0, 23},
     us \in {0, 1, 999999}, offset \in {Naive, 0, 330, -300, -210, 845, -225}}
    \cup {Moment(2024, 2, 29, 12, 1, offset) : offset \in -720 .. 840}
    \cup {Moment(-99, 2, 28, 0, 0, Naive), Moment(0, 2, 28, 0, 0, Naive)}
Dated ==
  {Field("value", Column(type, 0, 13), m) : type \in {12, 180, 181}, m \in Instants}
    \cup {Field("bind", Bound(type, type), Moment(1999, 12, 31, 23, 999999, offset)) :
            type \in Dates \cup Timestamps \cup ZonedTimestamps, offset \in {Naive, 0, -300}}

Others ==
  {Field("bind", Bound(252, 252), [truth |-> t]) : t \in BOOLEAN}
    \cup {Field("bind", Bound(bind, type), Data(n)) :
            bind \in {15, 23, 24}, type \in {23, 24, 95}, n \in {0, 1, 253}}
    \cup {Field("value", Column(type, 0, max), Data(n)) :
            type \in {23, 95, 101, 112, 127, 182}, max \in {0, 30}, n \in {0, 4, 8}}
    \cup {Field("value", Column(100, 0, 4), Data(n)) : n \in {0, 1, 4}}
    \cup {Field("bind", Bound(type, type), Null) : type \in {2, 12, 181, 252}}

Services ==
  {Field("services", 0, <<<<>>, encryption, integrity, <<>>>>) :
     encryption \in {<<0>>, <<0, 1, 8, 10, 6, 2, 15, 16, 17>>},
     integrity \in {<<0>>, <<0, 1, 3, 4, 5, 6>>}}
Answers ==
  {Field("answer", 0,
     <<auth, [type |-> 2, algo |-> 0], [type |-> 3, algo |-> 4],
       [type |-> 4, array |-> array]>>) :
     auth \in {[type |-> 1, name |-> <<>>, more |-> FALSE],
               [type |-> 1, name |-> <<78, 84, 83>>, more |-> FALSE],
               [type |-> 1, name |-> <<78, 84, 83>>, more |-> TRUE]},
     array \in {<<>>, <<1>>, ServArray}}

\* Every length of the capabilities that decides over one of them.
Protocols ==
  {Field("protocol", 0,
     [version |-> version, name |-> name, charset |-> 873, flags |-> 1,
      elements |-> elements, parts |-> parts, nationalCharset |-> 2000,
      n |-> n, ttc |-> 6, eos |-> eos, fsap |-> fsap, big |-> big, runtime |-> Data(2)]) :
     version \in {3, 6}, name \in {<<>>, <<76, 105>>}, elements \in {0, 2},
     parts \in {<<0, 0>>, <<3, 1>>}, n \in {0, 7, 8, 15, 16, 17, 37, 38, 42},
     eos \in BOOLEAN, fsap \in BOOLEAN, big \in BOOLEAN}

Caps ==
  [wide : BOOLEAN, zone : BOOLEAN, zoneFiles : BOOLEAN, charset : {873},
   nationalCharset : {2000}]
Zones ==
  {Field(kind, caps, seconds) :
     kind \in {"types", "zone"}, caps \in Caps, seconds \in {0, 19800, -12600, -18000, 1}}

Columns ==
  {Field("column", 0,
     [type |-> type, subtype |-> 1, precision |-> p, scale |-> s, maxLen |-> 22,
      contFlag |-> 0, charset |-> 873, maxCharLen |-> 10, nullable |-> null,
      name |-> name, typeName |-> <<>>]) :
     type \in {1, 2, 12, 181}, p \in {0, 126}, s \in {0, 2, 255},
     null \in BOOLEAN, name \in {<<>>, <<65, 66>>}}
    \cup {Field("column", 0,
            [type |-> 2, subtype |-> 1, precision |-> p, scale |-> -127, maxLen |-> 22,
             contFlag |-> 0, charset |-> 0, maxCharLen |-> 0, nullable |-> TRUE,
             name |-> <<65>>, typeName |-> <<>>]) : p \in {0, 1, 126}}

Error(code, offset) == [code |-> code, offset |-> offset, message |-> <<69, 82>>]
Ended(code, errors, chunked) ==
  [rows |-> 300, code |-> code, cursor |-> 7, position |-> 14, errors |-> errors,
   chunked |-> chunked, message |-> IF code = 0 THEN <<>> ELSE <<79, 82, 65>>]
Summaries ==
  {Field("summary", 0, Ended(code, <<>>, FALSE)) : code \in {0, 1, 1403}}
    \cup {Field("summary", 0, Ended(code, errors, chunked)) :
            code \in {1, BindErrors}, chunked \in BOOLEAN,
            errors \in {<<Error(1400, 1)>>, <<Error(1400, 0), Error(1, 300)>>}}

\* Passwords that differ, or differ in case only; the user's are letters.
Passwords == {<<97>>, <<65>>, <<98>>}
User == <<115, 121>>
Meant(verifier, user, known) ==
  [sessKey |-> <<[length |-> 64, box |-> Box(PasswordKey(user, known,
                   [verifier |-> verifier, salt |-> <<"salt">>, vgen |-> 4096]), ServerKey)]>>,
   salt |-> <<"salt">>, verifier |-> verifier, cskSalt |-> <<[length |-> 32]>>,
   vgen |-> 4096, sder |-> 3]

Commands ==
  {Field("command", 0,
     [type |-> type, returns |-> returns, autoCommit |-> auto, cursor |-> cursor,
      rows |-> rows, scn |-> <<0, 65536>>, text |-> Data(n)]) :
     type \in {"SELECT", "DML", "PLSQL", "OTHERS"}, returns \in BOOLEAN,
     auto \in BOOLEAN, cursor \in {0, 1, 65535}, rows \in {25, 65535}, n \in {0, 1, 253}}
    \cup {Field("fetch", 0, [cursor |-> cursor, count |-> count]) :
            cursor \in {1, 255, 65535, 65536}, count \in {1, 256, 65535}}
    \cup {Field("askVersion", 0, [size |-> 256])}
Versions ==
  {Field("version", 0, [info |-> Data(n), parts |-> parts]) :
     n \in {0, 60, 253},
     parts \in {<<19, 0, 0, 0, 0>>, <<11, 2, 0, 4, 0>>, <<9, 15, 15, 15, 15>>}}

\* Nine columns need two bytes of a bit vector; the last two have no value.
Nine ==
  [i \in 1 .. 9 |->
     CASE i = 2 -> Column(2, 0, 22) [] i = 8 -> Column(23, 0, 0) [] i = 9 -> Column(1, 0, 0)
       [] OTHER -> Column(1, 873, 30)]
Form(reader, columns, marked) ==
  [reader |-> reader, columns |-> columns, marked |-> marked, summary |-> FALSE]
RowValue(column) ==
  CASE column.maxLen = 0 -> Null
    [] column.type = 2 -> [negative |-> FALSE, digits |-> <<1>>, scale |-> 0]
    [] OTHER -> <<65>>
Row(marked, null) ==
  [code |-> 7,
   values |-> [k \in 1 .. Cardinality(marked) |->
                 LET i == CHOOSE i \in marked : Cardinality({j \in marked : j < i}) = k - 1 IN
                 IF i \in null THEN Null ELSE RowValue(Nine[i])]]
MarkedSets == {{}, {1}, {2, 9}, {8, 9}, 1 .. 8, 1 .. 9}
Answered(code, marked, vector, count) ==
  [code |-> code, rows |-> 300, count |-> count, marked |-> marked, vector |-> vector]
Defined(type, scale) ==
  [type |-> type, subtype |-> 1, precision |-> 0, scale |-> scale, maxLen |-> 22,
   contFlag |-> 0, charset |-> 873, maxCharLen |-> 10, nullable |-> TRUE,
   name |-> <<65, 66>>, typeName |-> <<>>]
Pairs ==
  {<<>>, <<<<<<65>>, <<43>>, 163>>>>,
   <<<<<<65>>, <<43>>, 163>>, <<<<>>, <<45>>, 163>>, <<<<66>>, <<>>, 0>>>>}

CallReplies ==
  {Field("reply", Form("command", Nine, former), Answered(code, marked, vector, 9)) :
     former \in {{}, 1 .. 9}, code \in {6, 11}, marked \in MarkedSets, vector \in BOOLEAN}
    \cup {Field("reply", Form("command", <<>>, {}), Answered(code, {}, FALSE, count)) :
            code \in {6, 11}, count \in {0, 1, 300}}
    \cup {Field("reply", Form("command", SubSeq(Nine, 1, n), former \cap 1 .. n),
                [code |-> 21, marked |-> marked \cap 1 .. n]) :
            n \in {1, 8, 9}, former \in {{}, 1 .. 9}, marked \in MarkedSets}
    \cup {Field("reply", Form("command", Nine, marked), Row(marked, null)) :
            marked \in MarkedSets, null \in {{}, {1, 2}, 3 .. 7}}
    \cup {Field("reply", Form("command", <<>>, {}),
                [code |-> 16, maxRowSize |-> 300, columns |-> columns]) :
            columns \in {<<>>, <<Defined(2, 0)>>, <<Defined(1, 0), Defined(2, -127)>>}}
    \cup {Field("reply", Form("command", <<>>, {}),
                [code |-> 8, scn |-> <<1, 65536>>, more |-> more, pairs |-> pairs,
                 zone |-> ResultZone(pairs), id |-> id]) :
            more \in {<<>>, <<0, 300>>}, pairs \in Pairs, id \in {<<>>, Data(4), Data(8)}}
    \cup {Field("reply", Form("connection", <<>>, {}),
                [code |-> 8, more |-> more, pairs |-> pairs, counts |-> counts]) :
            more \in {<<>>, <<0, 300>>}, pairs \in Pairs, counts \in {<<>>, <<1, 300>>}}
    \cup {Field("reply", Form("logon", <<>>, {}),
                [code |-> 8, pairs |-> SelectSeq(pairs, LAMBDA pair : pair[1] # <<>>)]) :
            pairs \in Pairs}
    \cup {Field("reply", [Form(reader, <<>>, {}) EXCEPT !.summary = summary], value) :
            reader \in {"command", "connection"}, summary \in BOOLEAN,
            value \in {[code |-> 9]}
              \cup [code : {15}, warning : {0, 24344}, message : {<<>>, <<87>>}]
              \cup [code : {23}, operation : {0, 1, 2, 4}, nls : Pairs]}

Logons ==
  {Field("logon", [challenge |-> Meant(verifier, user, known), known |-> known,
                   customHash |-> custom, proxy |-> proxy],
         [user |-> user, password |-> password]) :
     verifier \in Verifiers, known \in Passwords, password \in Passwords,
     custom \in BOOLEAN, proxy \in BOOLEAN, user \in {User, <<83>>}}

\* The pairs in both orders, in one dictionary and in two, and repeated.
PairsOf(c) ==
  <<<<<<"AUTH_SESSKEY">>, c.sessKey, 0>>,
    <<<<"AUTH_VFR_DATA">>, c.salt, c.verifier>>,
    <<<<"AUTH_PBKDF2_CSK_SALT">>, c.cskSalt, 0>>,
    <<<<"AUTH_PBKDF2_VGEN_COUNT">>, <<c.vgen>>, 0>>,
    <<<<"AUTH_PBKDF2_SDER_COUNT">>, <<c.sder>>, 0>>,
    <<<<"AUTH_GLOBALLY_UNIQUE_DBID">>, <<"id">>, 0>>>>
Dictionaries(c) ==
  LET pairs == PairsOf(c)
      other == PairsOf([c EXCEPT !.salt = <<"other salt">>, !.verifier = Verifier5x])
  IN  {<<pairs>>, <<Reverse(pairs)>>, <<SubSeq(pairs, 1, 3), SubSeq(pairs, 4, 6)>>,
       <<pairs, other>>}
ChallengeForm(code, means) == Ended(code, <<>>, FALSE) @@ [means |-> means]
Challenges ==
  UNION {{Field("challenge", ChallengeForm(0, c), d) : d \in Dictionaries(c)} :
           c \in {Meant(verifier, User, <<97>>) : verifier \in Verifiers}}
    \cup UNION {{Field("challenge", ChallengeForm(code, NoChallenge), <<PairsOf(c)>>) :
                   code \in {0, 1017}} :
                  c \in {[Meant(Verifier12c, User, <<97>>) EXCEPT !.verifier = 1],
                         [Meant(Verifier12c, User, <<97>>) EXCEPT !.sessKey[1].length = 48],
                         [Meant(Verifier12c, User, <<97>>) EXCEPT !.cskSalt[1].length = 16]}}
    \cup {Field("challenge", ChallengeForm(1017, NoChallenge),
                <<PairsOf(Meant(Verifier12c, User, <<97>>))>>)}

Context(complete, version) == [complete |-> complete, version |-> version]
Dialing == Context(FALSE, 317)
Accepted == {Context(TRUE, version) : version \in {314, 315, 317}}

\* Descriptors on both sides of the longest that fits, units on both sides of
\* 16 bits, and everything a listener may answer.
Connects ==
  {Field("connect", Dialing,
     [descriptor |-> Data(n), sdu |-> sdu, tdu |-> 65536, oob |-> oob, isRedirect |-> r]) :
     n \in {1, 229, 230, 231, 300}, sdu \in {8192, 65535, 2097152},
     oob \in BOOLEAN, r \in BOOLEAN}
    \cup {Field("accept", Dialing,
            [version |-> version, sdu |-> sdu, tdu |-> tdu, sid |-> sid, data |-> Data(n),
             counted |-> counted, acfl |-> <<65, 1>>]) :
            version \in {300, 314, 315, 317}, sdu \in {512, 8192}, tdu \in {8192, 65535},
            sid \in {<<>>, Data(16)}, n \in {0, 3}, counted \in BOOLEAN}
    \cup {Field("accept", Dialing,
            [version |-> 317, sdu |-> 2097152, tdu |-> tdu, sid |-> <<>>, data |-> <<>>,
             counted |-> FALSE, acfl |-> <<0, 0>>]) : tdu \in {65536, 2097152}}
    \cup {Field("refuse", Dialing, message) :
            message \in UNION {[1 .. n -> {[tag |-> "ERR", code |-> 12514],
                                          [tag |-> "CODE", code |-> 12505],
                                          [tag |-> "TEXT", code |-> 0]}] : n \in 0 .. 3}}
    \cup {Field("redirect", Dialing,
            [addr |-> Data(n), reconnect |-> reconnect, separate |-> separate]) :
            n \in {1, 40}, reconnect \in {<<>>, Data(20)}, separate \in BOOLEAN}
Framed ==
  {Field("data", ctx, Data(n)) : ctx \in {Dialing} \cup Accepted, n \in {0, 1, 255, 256}}
    \cup {Field("marker", ctx, [type |-> type, data |-> data]) :
            ctx \in Accepted, type \in {0, 1}, data \in {1, 2}}

Exchange(sessions, fieldSet) ==
  [session : sessions, fields : {<<f>> : f \in fieldSet}]

\* Fields of which another follows: what the first leaves, the second gets.
Firsts ==
  {Field("int", [size |-> 2, bigEndian |-> TRUE, compress |-> c], n) :
     c \in BOOLEAN, n \in {256, 65536}}
    \cup {Field("uint", [size |-> 2, bigEndian |-> TRUE, compress |-> TRUE], 65536)}
    \cup {Field("clr", 0, Data(n)) : n \in {0, 253, 254}}
    \cup {Field("value", Column(type, 0, max), <<65>>) : type \in {1, 23}, max \in {0, 30}}
    \cup {Field("value", Column(12, 0, 7), Moment(2024, 2, 29, 12, 0, Naive))}
    \cup {Field("value", Column(2, 0, 22), v) : v \in {u \in Value : u.scale = 0}}
Seconds ==
  {Field("int", [size |-> 4, bigEndian |-> TRUE, compress |-> TRUE], n) : n \in {0, -65536}}
    \cup {Field("value", Column(1, 873, 30), <<8364, 65>>),
          Field("keyval", 0, <<Data(1), Data(0), 1>>)}

MCExchanges ==
  Exchange({Newest}, Ints \cup Numbers \cup Dated \cup Others \cup Services \cup Answers
                       \cup Protocols \cup Zones)
    \cup Exchange({Newest, Small}, Clrs \cup KeyVals \cup Texts \cup Logons)
    \cup Exchange(Sessions, Summaries)
    \cup Exchange({s \in Sessions : s.eos /\ s.fsap},
                  Columns \cup Challenges \cup Commands \cup Versions \cup CallReplies)
    \cup Exchange({s \in Sessions : s.ttc = 11 /\ ~s.big},
                  {f \in CallReplies : f.value.code = 9})
    \cup [session : {Newest, Small}, fields : Firsts \X Seconds]
    \cup Exchange({Newest}, Connects \cup Framed)
    \cup [session : {Newest}, fields : Framed \X {f \in Framed : f.kind = "marker"}]
=============================================================================
