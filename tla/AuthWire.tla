------------------------------ MODULE AuthWire ------------------------------
(***************************************************************************)
(* The packets of the auth protocol (auth/protocol.go).  Requests and      *)
(* answers are sequences of bytes: a type byte and fields, numbers in      *)
(* little-endian order, strings behind a two-byte length.  They travel on  *)
(* one TCP stream, and the client parses what a single conn.Read returns:  *)
(* a part of an answer, an answer, or several of them.                     *)
(***************************************************************************)
EXTENDS Integers, Sequences, FiniteSets, SequencesExt

CONSTANTS
    Strings,        \* strings of the messages, sequences of bytes
    Numbers16,      \* numbers of two bytes
    Numbers64,      \* numbers of eight bytes
    Codes,          \* result, error and has-key bytes
    MaxModelLen,    \* MaxRegisterModelLen
    MaxPending      \* bound on answers that wait to be read

ASSUME WireAssumption ==
    /\ Strings \subseteq Seq(0..255) /\ \A t \in Strings : Len(t) < 65536
    /\ Numbers16 \subseteq [1..2 -> 0..255] /\ Numbers64 \subseteq [1..8 -> 0..255]
    /\ Codes \subseteq 0..255 /\ 0 \in Codes
    /\ MaxModelLen \in 0..255 /\ MaxPending \in Nat

Width == [u8 |-> 1, u16 |-> 2, u64 |-> 8]

(* A number is its bytes, the most significant one first.                  *)
Domain(f) == CASE f = "str" -> Strings [] f = "u8" -> {<<c>> : c \in Codes}
               [] f = "u16" -> Numbers16 [] f = "u64" -> Numbers64

Zero(f) == IF f = "str" THEN <<>> ELSE [i \in 1..Width[f] |-> 0]

(* A length as binary.LittleEndian.PutUint16 writes and Uint16 reads it.   *)
PutLength(n) == <<n % 256, (n \div 256) % 256>>

Length(data, o) == data[o + 1] + 256 * data[o + 2]

(* Mutant: a string without its length.                                    *)
PutBare(f, v) == IF f = "str" THEN v ELSE Reverse(v)

Put(f, v) == IF f = "str" THEN PutLength(Len(v)) \o v ELSE Reverse(v)

PutAll(fields, v) == FlattenSeq([i \in 1..Len(fields) |-> Put(fields[i], v[i])])

(* All values of these fields.                                             *)
Fill(fields) ==
    {v \in [1..Len(fields) -> UNION {Domain(fields[i]) : i \in 1..Len(fields)}] :
        \A i \in 1..Len(fields) : v[i] \in Domain(fields[i])}
-----------------------------------------------------------------------------
(* Requests: type byte and fields.                                         *)

RequestType == [
    AuthInit |-> 1, AuthResponse |-> 3, SessionRequest |-> 16, SessionRefresh |-> 18,
    APIKeyRequest |-> 32, APIKeyRevoke |-> 34, APIKeyStatus |-> 36, APIKeyDelete |-> 38,
    RegisterInit |-> 160, RegisterResponse |-> 162, VPNProvisionRequest |-> 176]

SerializeAuthInit == <<"str">>                          \* uuid
SerializeAuthResponse == <<"str", "str", "u64", "str">> \* uuid, hmac, timestamp, ip
SerializeSessionRequest == <<"str", "str">>             \* uuid, old token
SerializeSessionRefresh == <<"str", "str">>             \* token, uuid
SerializeAPIKeyRequest == <<"str", "str", "u16">>       \* uuid, token, hours
SerializeAPIKeyRevoke == <<"str", "str">>               \* uuid, token
SerializeAPIKeyStatus == <<"str", "str">>
SerializeAPIKeyDelete == <<"str", "str">>
SerializeRegisterInit == <<"str", "u8", "str">>         \* uuid, vehicle type, model
SerializeRegisterResponse == <<"str", "str", "u64">>    \* uuid, hmac, timestamp
SerializeVPNProvisionRequest == <<"str", "str", "str">> \* uuid, token, public key

RequestFields == [
    AuthInit |-> SerializeAuthInit, AuthResponse |-> SerializeAuthResponse,
    SessionRequest |-> SerializeSessionRequest, SessionRefresh |-> SerializeSessionRefresh,
    APIKeyRequest |-> SerializeAPIKeyRequest, APIKeyRevoke |-> SerializeAPIKeyRevoke,
    APIKeyStatus |-> SerializeAPIKeyStatus, APIKeyDelete |-> SerializeAPIKeyDelete,
    RegisterInit |-> SerializeRegisterInit, RegisterResponse |-> SerializeRegisterResponse,
    VPNProvisionRequest |-> SerializeVPNProvisionRequest]

(* The trailer of REGISTER_INIT has a one-byte length, cuts the model off  *)
(* and is left out when it says nothing.                                   *)
Trailer(vehicle, model) ==
    LET cut == SubSeq(model, 1, IF Len(model) > MaxModelLen THEN MaxModelLen ELSE Len(model))
    IN  IF vehicle # <<0>> \/ cut # <<>> THEN vehicle \o <<Len(cut)>> \o cut ELSE <<>>

Serialize(k, v) ==
    <<RequestType[k]>> \o
        IF k = "RegisterInit" THEN Put("str", v[1]) \o Trailer(v[2], v[3])
                              ELSE PutAll(RequestFields[k], v)
-----------------------------------------------------------------------------
(* Answers: type byte, the fields every answer of the type has, the fields *)
(* of a success, and the fields that may be missing: of a failure, or of a *)
(* status with an active key.                                              *)

AnswerType == [
    AuthChallenge |-> 2, AuthAck |-> 4, SessionAck |-> 17, SessionRefreshAck |-> 19,
    APIKeyResponse |-> 33, APIKeyRevokeAck |-> 35, APIKeyStatusResponse |-> 37,
    APIKeyDeleteAck |-> 39, RegisterChallenge |-> 161, RegisterAck |-> 163,
    VPNProvisionAck |-> 177]

Shape(first, success, rest) == [first |-> first, success |-> success, rest |-> rest]

ParseAuthChallenge == Shape(<<"str", "u16">>, <<>>, <<>>)      \* nonce, timeout
ParseAuthAck == Shape(<<"u8">>, <<"str", "u64", "u16">>, <<"u8", "u16">>)
ParseSessionAck == Shape(<<"u8">>, <<"str", "u64", "u16">>, <<"u8">>)
ParseSessionRefreshAck == Shape(<<"u8">>, <<"u64", "u16">>, <<"u8">>)
ParseAPIKeyResponse == Shape(<<"u8", "u8">>, <<"str", "u64">>, <<>>)
ParseAPIKeyRevokeAck == Shape(<<"u8">>, <<>>, <<"u8">>)
ParseAPIKeyStatusResponse ==
    Shape(<<"u8", "str", "str">>, <<>>, <<"u64", "u64", "str", "u64">>)
ParseAPIKeyDeleteAck == Shape(<<"u8", "u8">>, <<>>, <<>>)
ParseRegisterChallenge == Shape(<<"str", "u16">>, <<>>, <<>>)
ParseRegisterAck == Shape(<<"u8">>, <<"str", "str", "u64", "u16">>, <<"u8">>)
ParseVPNProvisionAck == Shape(<<"u8">>, <<"str", "str", "str">>, <<"u8">>)

AnswerFields == [
    AuthChallenge |-> ParseAuthChallenge, AuthAck |-> ParseAuthAck,
    SessionAck |-> ParseSessionAck, SessionRefreshAck |-> ParseSessionRefreshAck,
    APIKeyResponse |-> ParseAPIKeyResponse, APIKeyRevokeAck |-> ParseAPIKeyRevokeAck,
    APIKeyStatusResponse |-> ParseAPIKeyStatusResponse, APIKeyDeleteAck |-> ParseAPIKeyDeleteAck,
    RegisterChallenge |-> ParseRegisterChallenge, RegisterAck |-> ParseRegisterAck,
    VPNProvisionAck |-> ParseVPNProvisionAck]

Kinds == DOMAIN AnswerType
Challenges == {"AuthChallenge", "RegisterChallenge"}

Succeeds(k, v) == k \notin Challenges /\ v[1] = <<0>>
HasRest(k, v) == k \notin Challenges /\ IF k = "APIKeyStatusResponse" THEN v[1] = <<1>> ELSE v[1] # <<0>>

(* A read position in data: ok is FALSE after a parse error.               *)
At(o, v) == [ok |-> TRUE, o |-> o, v |-> v]
Failed == [ok |-> FALSE, o |-> 0, v |-> <<>>]

(* Whether w bytes follow offset o.                                        *)
Holds(data, o, w) == Len(data) >= o + w

(* One field with its length checks: the packet is refused when it is      *)
(* short.                                                                  *)
Get(data, p, f) ==
    IF ~p.ok THEN Failed
    ELSE IF f # "str"
    THEN IF Holds(data, p.o, Width[f])
         THEN At(p.o + Width[f], Append(p.v, Reverse(SubSeq(data, p.o + 1, p.o + Width[f])))) ELSE Failed
    ELSE IF Holds(data, p.o, 2) /\ Holds(data, p.o + 2, Length(data, p.o))
         THEN LET n == Length(data, p.o)
              IN  At(p.o + 2 + n, Append(p.v, SubSeq(data, p.o + 3, p.o + 2 + n)))
         ELSE Failed

(* A field that may be missing keeps its zero value; of a string that is   *)
(* cut off the length is consumed.                                         *)
Try(data, p, f) ==
    LET q == Get(data, p, f)
    IN  IF q.ok THEN q
        ELSE At(IF f = "str" /\ Holds(data, p.o, 2) THEN p.o + 2 ELSE p.o, Append(p.v, Zero(f)))

(* Also a mutant of GetAll: no field has to be there.                      *)
TryAll(data, p, fields) ==
    LET try[i \in 0..Len(fields)] == IF i = 0 THEN p ELSE Try(data, try[i - 1], fields[i])
    IN  try[Len(fields)]

GetAll(data, p, fields) ==
    LET get[i \in 0..Len(fields)] == IF i = 0 THEN p ELSE Get(data, get[i - 1], fields[i])
    IN  get[Len(fields)]

ParseFrom(k, data, start) ==
    LET p == IF Holds(data, start, 1) /\ data[start + 1] = AnswerType[k]
             THEN GetAll(data, At(start + 1, <<>>), AnswerFields[k].first) ELSE Failed
    IN  IF ~p.ok THEN Failed
        ELSE IF Succeeds(k, p.v) THEN GetAll(data, p, AnswerFields[k].success)
        ELSE IF HasRest(k, p.v) THEN TryAll(data, p, AnswerFields[k].rest)
        ELSE p

(* Mutant: only the old format is known.                                   *)
ParseOld(k, data) == ParseFrom(k, data, 0)

(* An API_KEY_RESPONSE may have a two-byte length in front.                *)
Parse(k, data) ==
    IF k = "APIKeyResponse" /\ Holds(data, 2, 1) /\ data[3] = AnswerType[k]
    THEN IF Holds(data, 2, Length(data, 0)) THEN ParseFrom(k, data, 2) ELSE Failed
    ELSE ParseFrom(k, data, 0)

(* What the router sends: the fields every answer has and the ones that    *)
(* these call for, with a length in front or not.                          *)
More(k, head) ==
    IF Succeeds(k, head) THEN AnswerFields[k].success
    ELSE IF HasRest(k, head) THEN AnswerFields[k].rest ELSE <<>>

Formats(k) == IF k = "APIKeyResponse" THEN BOOLEAN ELSE {FALSE}

Messages(k) ==
    UNION {{[k |-> k, head |-> a, more |-> b, long |-> l] :
                b \in Fill(More(k, a)), l \in Formats(k)} : a \in Fill(AnswerFields[k].first)}

Body(m) == <<AnswerType[m.k]>> \o PutAll(AnswerFields[m.k].first, m.head)
                              \o PutAll(More(m.k, m.head), m.more)

Bytes(m) == IF m.long THEN PutLength(Len(Body(m))) \o Body(m) ELSE Body(m)
-----------------------------------------------------------------------------
VARIABLES
    asked,      \* the request that waits for an answer, if any
    pending     \* answers on the stream, none of them read in part

vars == <<asked, pending>>

Requests(k) == {[k |-> k, v |-> v] : v \in Fill(RequestFields[k])}

Stream == FlattenSeq([i \in 1..Len(pending) |-> Bytes(pending[i])])

Init == asked = <<>> /\ pending = <<>>

Ask ==
    /\ asked = <<>> /\ pending = <<>>
    /\ \E k \in DOMAIN RequestType : \E r \in Requests(k) : asked' = <<r>>
    /\ UNCHANGED pending

Answer ==
    /\ Len(pending) < MaxPending
    /\ \E k \in Kinds : \E m \in Messages(k) : pending' = Append(pending, m)
    /\ asked' = <<>>

(* conn.Read returns the bytes of the answers that have arrived.           *)
Read == pending # <<>> /\ pending' = <<>> /\ UNCHANGED asked

Next == Ask \/ Answer \/ Read

Spec == Init /\ [][Next]_vars
-----------------------------------------------------------------------------
(* The first answer on the stream looks like one of kind k in the other    *)
(* format: it has a length in front whose first byte is the type byte of   *)
(* k; or it has none, and the third byte of the stream happens to be the   *)
(* type byte of API_KEY_RESPONSE, which that parser takes for an answer    *)
(* with a length.                                                          *)
Misleading(k) ==
    IF pending[1].long THEN k # "APIKeyResponse" /\ Stream[1] = AnswerType[k]
    ELSE k = "APIKeyResponse" /\ Holds(Stream, 2, 1) /\ Stream[3] = AnswerType[k]

(* Whatever part of the stream a conn.Read returns, a parser accepts it    *)
(* only when it starts with the whole answer the parser is for, and gives  *)
(* the fields the router sent: a cut-off answer, a late answer to another  *)
(* request and the bytes of a second answer are never taken for fields.    *)
(* Of a failure and of a status with a key, the head must be there.        *)
AcceptsOnlyWhole ==
    \A k \in Kinds, n \in 0..Len(Stream) :
        LET p == Parse(k, SubSeq(Stream, 1, n))
            m == pending[1]
        IN  p.ok => \/ Misleading(k)
                    \/ /\ m.k = k
                       /\ IF HasRest(k, m.head) THEN SubSeq(p.v, 1, Len(m.head)) = m.head
                          ELSE p.v = m.head \o m.more /\ n >= Len(Bytes(m))

(* An answer that has arrived in full is accepted with all its fields,     *)
(* also when other answers follow it in the same read.                     *)
AcceptsEveryWhole ==
    pending # <<>> /\ ~Misleading(pending[1].k) =>
       \A n \in Len(Bytes(pending[1]))..Len(Stream) :
        LET p == Parse(pending[1].k, SubSeq(Stream, 1, n))
        IN  p.ok /\ p.v = pending[1].head \o pending[1].more

(* The requests delimit themselves: no request is the beginning of another *)
(* one, so the router can tell where one ends.  (REGISTER_INIT is left     *)
(* out: without its trailer it is the beginning of one with a trailer.)    *)
RequestsDelimited ==
    asked # <<>> /\ asked[1].k # "RegisterInit" =>
        \A k \in DOMAIN RequestType : \A r \in Requests(k) :
            IsPrefix(Serialize(asked[1].k, asked[1].v), Serialize(k, r.v)) => r = asked[1]
=============================================================================
