---------------------------- MODULE ProtocolNego ----------------------------
(***************************************************************************)
(* The server's message of the protocol negotiation, as new_tcp_nego of    *)
(* src/pyora/tcp_protocol_nego.py reads it: versions and character sets,   *)
(* arrays that say themselves how long they are, and the capabilities that *)
(* decide the format of all later messages.                                *)
(***************************************************************************)
EXTENDS WireCodec

Bit(byte, value) == (byte \div value) % 2 = 1

\* A capability: an array that is too short has none.  Indices count from 0.
Capable(caps, index, value) == index < Len(caps) /\ Bit(caps[index + 1], value)

SupportedVersions == {4, 5, 6}

\* The national character set stands behind two parts of an array that tells
\* their sizes.  (A slice behind the end is empty, and the number 0.)
NationalCharset(array) ==
  LET n == 6 + array[6] + array[7] IN
  FromBigEndian(SubSeq(array, n + 4, Min({n + 5, Len(array)})))

\* new_tcp_nego, from the answer on.
ReadProtocol(s) ==
  Then(GetBytes(s, 3), LAMBDA head, s1 :
    IF head[1] # 1 \/ head[2] \notin SupportedVersions THEN Raised
    ELSE
    Then(GetNullTerm(s1), LAMBDA name, s2 :
    Then(GetInt(s2, 2, FALSE, FALSE), LAMBDA charset, s3 :
    Then(GetByte(s3), LAMBDA flags, s4 :
    Then(GetInt(s4, 2, FALSE, FALSE), LAMBDA elements, s5 :
    Then(GetBytes(s5, 5 * elements), LAMBDA skipped, s6 :
    Then(GetInt(s6, 2, FALSE, TRUE), LAMBDA size, s7 :
    Then(GetBytes(s7, size), LAMBDA array, s8 :
    IF size < 7 THEN Raised
    ELSE
    Then(GetByte(s8), LAMBDA n, s9 :
    Then(GetBytes(s9, n), LAMBDA compile, s10 :
    Then(GetByte(s10), LAMBDA m, s11 :
    Then(GetBytes(s11, m), LAMBDA runtime, s12 :
    IF n < 8 THEN Raised
    ELSE Got([name |-> name, charset |-> charset, flags |-> flags,
              nationalCharset |-> NationalCharset(array), runtime |-> runtime,
              ttc |-> compile[8], eos |-> Capable(compile, 15, 1),
              fsap |-> Capable(compile, 16, 1), big |-> Capable(compile, 37, 32)],
             s12)))))))))))))

-----------------------------------------------------------------------------
(* The server (external).                                                  *)

\* The capabilities of a server that has an array of n bytes of them, and sets
\* in some other bits that are not looked at.
CompileCaps(v) ==
  [i \in 1 .. v.n |->
     CASE i = 8 -> v.ttc
       [] i = 16 -> (IF v.eos THEN 1 ELSE 0) + 2
       [] i = 17 -> (IF v.fsap THEN 1 ELSE 0) + 128
       [] i = 38 -> (IF v.big THEN 32 ELSE 0) + 31
       [] OTHER -> 255]

PutProtocol(v) ==
  LET array == Zeros(5) \o v.parts \o Zeros(v.parts[1] + v.parts[2]) \o <<1, 1>>
                 \o BigEndian(v.nationalCharset, 2)
  IN
  <<1, v.version, 0>> \o v.name \o <<0>>
    \o PutInt(v.charset, 2, FALSE, FALSE) \o <<v.flags>>
    \o PutInt(v.elements, 2, FALSE, FALSE) \o Zeros(5 * v.elements)
    \o PutInt(Len(array), 2, TRUE, FALSE) \o array
    \o <<v.n>> \o CompileCaps(v) \o <<Len(v.runtime)>> \o v.runtime
=============================================================================
