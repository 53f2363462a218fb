---------------------------- MODULE NegoPackets ----------------------------
(***************************************************************************)
(* The two messages of the advanced negotiation, as they are packed in     *)
(* src/pyora/advanced_nego.py: a header, and per service a header and      *)
(* sub-packets, each under its length and type.  The lengths are computed  *)
(* apart from what is written.                                             *)
(***************************************************************************)
EXTENDS WireCodec

Deadbeef == <<222, 173, 190, 239>>
NegoVersion == <<11, 32, 2, 0>>

AuthStatus == 64767        \* 0xFCFF, and of an answer:
Activated == 64255         \* 0xFAFF
NotActivated == 64511      \* 0xFBFF
SupervisorStatus == 31

Cid == <<0, 0, 16, 28, 102, 236, 40, 234>>
ServArray == <<4, 1, 2, 3>>

-----------------------------------------------------------------------------
(* Writing.                                                                *)

\* write_packet_header and what follows it.
SubPacket(length, type, payload) == Ub2(length) \o Ub2(type) \o payload

WriteUb1(n) == SubPacket(1, 2, <<n>>)
WriteUb2(n) == SubPacket(2, 3, Ub2(n))
WriteStatus(n) == SubPacket(2, 6, Ub2(n))
WriteVersion == SubPacket(4, 5, NegoVersion)
WriteBytes(bytes) == SubPacket(Len(bytes), 1, bytes)

WriteUb2Array(array) ==
  SubPacket(10 + 2 * Len(array), 1,
    Deadbeef \o Ub2(3) \o Ub4(Len(array))
      \o FlattenSeq([i \in DOMAIN array |-> Ub2(array[i])]))

\* write_header.
ServiceHeader(type, subPackets, error) == Ub2(type) \o Ub2(subPackets) \o Ub4(error)

\* write_service_data: authentication, which selects no service; the ids of
\* the algorithms for encryption and integrity; the supervisor.
WriteService(type, ids) ==
  CASE type = 1 -> ServiceHeader(1, 3, 0)
                     \o WriteVersion \o WriteUb2(57569) \o WriteStatus(AuthStatus)
    [] type = 2 -> ServiceHeader(2, 3, 0)
                     \o WriteVersion \o WriteBytes(ids) \o WriteUb1(1)
    [] type = 3 -> ServiceHeader(3, 2, 0) \o WriteVersion \o WriteBytes(ids)
    [] type = 4 -> ServiceHeader(4, 3, 0)
                     \o WriteVersion \o WriteBytes(Cid) \o WriteUb2Array(ServArray)

\* get_service_data_length.
DataLength(type, ids) ==
  CASE type = 1 -> 20
    [] type = 2 -> 17 + Len(ids)
    [] type = 3 -> 12 + Len(ids)
    [] type = 4 -> 12 + Len(Cid) + 4 + 10 + 2 * Len(ServArray)

NegoHeader(length, count) ==
  Deadbeef \o Ub2(length) \o NegoVersion \o Ub2(count) \o <<0>>

\* AdvNego.write: ids[type] are the algorithms the service offers.
WriteRequest(ids) ==
  NegoHeader(13 + FoldLeft(LAMBDA n, type : n + 8 + DataLength(type, ids[type]),
                           0, <<1, 2, 3, 4>>), 4)
    \o FlattenSeq([type \in 1 .. 4 |-> WriteService(type, ids[type])])

-----------------------------------------------------------------------------
(* Reading.                                                                *)

\* validate_packet_header.
ValidLength(length, type) ==
  CASE type \in {0, 1} -> TRUE
    [] type = 2 -> length <= 1
    [] type \in {3, 6} -> length <= 2
    [] type \in {4, 5} -> length <= 4
    [] type = 7 -> length >= 10
    [] OTHER -> FALSE

GetUb2(s) == GetInt(s, 2, FALSE, TRUE)
GetUb4(s) == GetInt(s, 4, FALSE, TRUE)

\* read_packet_header.
ReadHeader(s, type) ==
  Then(GetUb2(s), LAMBDA length, t :
    Then(GetUb2(t), LAMBDA received, u :
      IF received # type \/ ~ValidLength(length, type) THEN Raised
      ELSE Got(length, u)))

\* read_ub1, read_ub2, read_ub4, read_status: the type tells the size.
ReadNumber(s, type) ==
  Then(ReadHeader(s, type), LAMBDA length, t :
    CASE type = 2 -> GetByte(t)
      [] type \in {3, 6} -> GetUb2(t)
      [] type = 4 -> GetUb4(t))

\* read_version.
ReadVersion(s) == Then(ReadHeader(s, 5), LAMBDA length, t : GetBytes(t, 4))

\* read_string and read_bytes.
ReadBytes(s, type) ==
  Then(ReadHeader(s, type), LAMBDA length, t : GetBytes(t, length))

ReadUb2Array(s) ==
  Then(ReadHeader(s, 1), LAMBDA length, t :
    Then(GetBytes(t, 4), LAMBDA magic, u :
      Then(GetUb2(u), LAMBDA three, v :
        Then(GetUb4(v), LAMBDA size, w :
          IF magic # Deadbeef \/ three # 3 THEN Raised
          ELSE GetMany(w, size, GetUb2)))))

\* AuthService.read_service_data.
ReadAuth(s, subPackets) ==
  Then(ReadVersion(s), LAMBDA version, t :
    Then(ReadNumber(t, 6), LAMBDA status, u :
      IF status = Activated /\ subPackets > 2
      THEN Then(ReadNumber(u, 2), LAMBDA id, v :
             Then(ReadBytes(v, 0), LAMBDA name, w :
               IF subPackets <= 4
               THEN Got([type |-> 1, name |-> name, more |-> FALSE], w)
               ELSE Then(ReadVersion(w), LAMBDA version2, x :
                      Then(ReadNumber(x, 4), LAMBDA n, y :
                        Then(ReadNumber(y, 4), LAMBDA m, z :
                          Got([type |-> 1, name |-> name, more |-> TRUE], z))))))
      ELSE IF status = NotActivated
      THEN Got([type |-> 1, name |-> <<>>, more |-> FALSE], u)
      ELSE Raised))

\* EncryptService and DataIntegrityService.
ReadAlgorithm(s, type) ==
  Then(ReadVersion(s), LAMBDA version, t :
    Then(ReadNumber(t, 2), LAMBDA id, u : Got([type |-> type, algo |-> id], u)))

\* SupervisorService.
ReadSupervisor(s) ==
  Then(ReadVersion(s), LAMBDA version, t :
    Then(ReadNumber(t, 6), LAMBDA status, u :
      IF status # SupervisorStatus THEN Raised
      ELSE Then(ReadUb2Array(u), LAMBDA array, v :
             Got([type |-> 4, array |-> array], v))))

\* One turn of the loop of read_full.
ReadService(s) ==
  Then(GetUb2(s), LAMBDA type, t :
    Then(GetUb2(t), LAMBDA subPackets, u :
      Then(GetUb4(u), LAMBDA error, v :
        CASE error # 0 -> Raised
          [] error = 0 /\ type = 1 -> ReadAuth(v, subPackets)
          [] error = 0 /\ type \in {2, 3} -> ReadAlgorithm(v, type)
          [] error = 0 /\ type = 4 -> ReadSupervisor(v)
          [] OTHER -> Got([type |-> type], v))))

\* _read_header: the number of services.
ReadNegoHeader(s) ==
  Then(GetBytes(s, 4), LAMBDA magic, t :
    IF magic # Deadbeef THEN Raised
    ELSE Then(GetUb2(t), LAMBDA length, u :
           Then(GetBytes(u, 4), LAMBDA version, v :
             Then(GetUb2(v), LAMBDA count, w :
               Then(GetByte(w), LAMBDA flags, x : Got(count, x))))))

\* read_full.
ReadResponse(s) ==
  Then(ReadNegoHeader(s), LAMBDA count, t : GetMany(t, count, ReadService))

-----------------------------------------------------------------------------
(* The server (external): it takes as many bytes, services and sub-packets  *)
(* as are declared, and answers with services.                             *)

TakeSubPacket(s) ==
  Then(GetUb2(s), LAMBDA length, t :
    Then(GetUb2(t), LAMBDA type, u : GetBytes(u, length)))

TakeService(s) ==
  Then(GetUb2(s), LAMBDA type, t :
    Then(GetUb2(t), LAMBDA subPackets, u :
      Then(GetUb4(u), LAMBDA error, v : GetMany(v, subPackets, TakeSubPacket))))

\* The payloads of the services; what the length leaves over or cuts off raises.
TakeRequest(s) ==
  Then(GetUb2(SubSeq(s, 5, Len(s))), LAMBDA length, t :
    Then(GetBytes(s, length), LAMBDA request, rest :
      Then(ReadNegoHeader(request), LAMBDA count, u :
        Then(GetMany(u, count, TakeService), LAMBDA services, v :
          IF v # <<>> THEN Raised ELSE Got(services, rest)))))

AnswerService(service) ==
  CASE service.type = 1 /\ service.name = <<>> ->
         ServiceHeader(1, 2, 0) \o WriteVersion \o WriteStatus(NotActivated)
    [] service.type = 1 /\ service.name # <<>> ->
         ServiceHeader(1, IF service.more THEN 7 ELSE 4, 0)
           \o WriteVersion \o WriteStatus(Activated) \o WriteUb1(1)
           \o SubPacket(Len(service.name), 0, service.name)
           \o (IF ~service.more THEN <<>>
               ELSE WriteVersion \o SubPacket(4, 4, Ub4(0)) \o SubPacket(4, 4, Ub4(0)))
    [] service.type \in {2, 3} ->
         ServiceHeader(service.type, 2, 0) \o WriteVersion \o WriteUb1(service.algo)
    [] service.type = 4 ->
         ServiceHeader(4, 3, 0) \o WriteVersion
           \o WriteStatus(SupervisorStatus) \o WriteUb2Array(service.array)

AnswerRequest(services) ==
  LET answers == FlattenSeq([i \in DOMAIN services |-> AnswerService(services[i])])
  IN  NegoHeader(13 + Len(answers), Len(services)) \o answers
=============================================================================
