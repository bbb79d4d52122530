------------------------------ MODULE NASCodec ------------------------------
(***************************************************************************)
(* The wire formats of pkg/nas/messages.go, the elements that              *)
(* pkg/ngap/decoder.go takes out of an NGAP message or puts into one, and  *)
(* the messages that cmd/sctp-proxy builds and dispatches, on sequences of *)
(* octets.  A decoded text (an IMSI, a DNN) is the sequence of its digits  *)
(* or labels; an error, whatever its wording, is Error.  An NGAP PDU is a  *)
(* record: APER is the library's.                                          *)
(*                                                                         *)
(* Offsets are those of the Go code, from 0.                               *)
(***************************************************************************)
EXTENDS Integers, Sequences, FiniteSets
LOCAL INSTANCE SequencesExt
LOCAL INSTANCE TLC

Error == [ok |-> FALSE]
Ignored == [ok |-> TRUE, what |-> "ignored"]
Absent == <<>>     \* a field that stays nil or empty
Unknown == <<-1>>  \* the text put for an identity that is not decoded

EPD5GMM == 126
EPD5GSM == 46
RegistrationRequest == 65
RegistrationAccept == 66
AuthenticationRequest == 86
AuthenticationResponse == 87
SecurityModeCommand == 93
SecurityModeComplete == 94
ULNASTransport == 103
DLNASTransport == 104
PDUSessionEstablishmentRequest == 193

SUCI == 1
GUTI == 2
IMEISV == 5
IETag5GGUTI == 119
IETagAllowedNSSAI == 21
IETagT3512Value == 94

At(d, i) == d[i + 1]
Part(d, i, n) == SubSeq(d, i + 1, i + n)
Uint16(d, i) == At(d, i) * 256 + At(d, i + 1)
Lo(b) == b % 16
Hi(b) == b \div 16

-----------------------------------------------------------------------------
(* Values of information elements.                                         *)

\* Digits in half-octets, the low one first; a high 15 is filler.
Digits(d) ==
    FlattenSeq([i \in DOMAIN d |->
        IF Hi(d[i]) = 15 THEN <<Lo(d[i])>> ELSE <<Lo(d[i]), Hi(d[i])>>])

\* Mutant of decodePLMN: the third MNC digit comes first.
decodePLMNRotated(a, b, c) ==
    <<Lo(a), Hi(a), Lo(b)>> \o (IF Hi(b) = 15 THEN <<>> ELSE <<Hi(b)>>) \o <<Lo(c), Hi(c)>>

\* MCC and MNC, of two or three digits, from three octets.
decodePLMN(a, b, c) ==
    <<Lo(a), Hi(a), Lo(b)>> \o <<Lo(c), Hi(c)>> \o (IF Hi(b) = 15 THEN <<>> ELSE <<Hi(b)>>)

decodeSUCI(d) ==
    IF Len(d) < 9 THEN Unknown
    ELSE decodePLMN(At(d, 1), At(d, 2), At(d, 3)) \o Digits(Part(d, 8, Len(d) - 8))

decodeGUTI(d) == IF Len(d) < 10 THEN Unknown ELSE Part(d, 1, 5)

decodeMobileIdentity(d) ==
    LET type == At(d, 0) % 8 IN
    [type |-> type,
     value |-> CASE type = SUCI -> decodeSUCI(d)
                 [] type = GUTI -> decodeGUTI(d)
                 [] OTHER -> Append(Unknown, type)]

decodeIMEISV(d) == Digits(Tail(d))

\* Algorithm k is the bit 7 - k of its octet.
Algorithms(b) == {k \in 0 .. 3 : (b \div 2^(7 - k)) % 2 = 1}
decodeUESecCap(v) == [ea |-> Algorithms(v[1]), ia |-> Algorithms(v[2]), raw |-> v]

\* The capabilities are replayed as they came.
encodeUESecCap(cap) == cap.raw

\* An S-NSSAI of four octets or more has an SD.
decodeSNSSAI(v) == [sst |-> v[1], sd |-> IF Len(v) >= 4 THEN SubSeq(v, 2, 4) ELSE Absent]

RECURSIVE decodeNSSAIList(_)
decodeNSSAIList(d) ==
    IF d = <<>> \/ d[1] < 1 \/ 1 + d[1] > Len(d) THEN <<>>
    ELSE <<decodeSNSSAI(Part(d, 1, d[1]))>>
           \o decodeNSSAIList(SubSeq(d, d[1] + 2, Len(d)))

encodeNSSAIList(list) ==
    FlattenSeq([i \in DOMAIN list |->
        IF list[i].sd # Absent THEN <<4, list[i].sst>> \o list[i].sd ELSE <<1, list[i].sst>>])

RECURSIVE decodeDNN(_)
decodeDNN(d) ==
    IF d = <<>> \/ d[1] = 0 \/ 1 + d[1] > Len(d) THEN <<>>
    ELSE <<Part(d, 1, d[1])>> \o decodeDNN(SubSeq(d, d[1] + 2, Len(d)))

\* A unit in bits 7-5 and a count of it in bits 4-0.
encodeGPRSTimer3(seconds) ==
    CASE seconds <= 62   -> 96 + seconds \div 2
      [] seconds <= 930  -> 128 + seconds \div 30
      [] seconds <= 1860 -> 160 + seconds \div 60
      [] OTHER           -> (seconds \div 600) % 256

\* The PLMN identity the proxy puts in its NGAP messages.
PLMNBytes(mcc, mnc) ==
    IF Len(mcc) # 3 THEN <<0, 0, 0>>
    ELSE IF Len(mnc) = 2
      THEN <<mcc[2] * 16 + mcc[1], 240 + mcc[3], mnc[2] * 16 + mnc[1]>>
      ELSE <<mcc[2] * 16 + mcc[1], mnc[1] * 16 + mcc[3], mnc[3] * 16 + mnc[2]>>

-----------------------------------------------------------------------------
(* Uplink messages.                                                        *)

Header(d, min, epd, at, type) == Len(d) >= min /\ At(d, 0) = epd /\ At(d, at) = type

\* Tag, one octet of length and value, up to the first that is not complete.
RECURSIVE TLVs(_, _)
TLVs(d, offset) ==
    IF offset >= Len(d) - 1 \/ offset + 2 + At(d, offset + 1) > Len(d) THEN <<>>
    ELSE LET n == At(d, offset + 1) IN
         <<[tag |-> At(d, offset), val |-> Part(d, offset + 2, n)]>> \o TLVs(d, offset + 2 + n)

\* The last of the elements that Fits, decoded.
LastIE(ies, Fits(_), Decode(_)) ==
    LET fitting == SelectSeq(ies, Fits) IN
    IF fitting = <<>> THEN Absent ELSE Decode(Last(fitting).val)

DecodeRegistrationRequest(d) ==
    IF ~Header(d, 7, EPD5GMM, 2, RegistrationRequest) THEN Error
    ELSE LET idLen == Uint16(d, 4)
             ies == TLVs(d, 6 + idLen)
         IN
         IF Len(d) < 6 + idLen \/ idLen < 1 THEN Error
         ELSE [ok |-> TRUE, type |-> At(d, 3) % 8, ksi |-> Hi(At(d, 3)) % 8,
               id |-> decodeMobileIdentity(Part(d, 6, idLen)),
               cap |-> LastIE(ies, LAMBDA e : e.tag = 46 /\ Len(e.val) >= 2, decodeUESecCap),
               nssai |-> LastIE(ies, LAMBDA e : e.tag = IETagAllowedNSSAI, decodeNSSAIList)]

DecodeSecurityModeComplete(d) ==
    IF ~Header(d, 3, EPD5GMM, 2, SecurityModeComplete) THEN Error
    ELSE [ok |-> TRUE, imeisv |->
            LastIE(TLVs(d, 3), LAMBDA e : /\ e.tag = IETag5GGUTI /\ Len(e.val) >= 1
                                          /\ At(e.val, 0) % 8 = IMEISV, decodeIMEISV)]

\* RES* is in element 45; an EAP message, 120, is skipped; others are errors.
RECURSIVE AuthIEs(_, _)
AuthIEs(d, offset) ==
    LET n == At(d, offset + 1) IN
    IF offset >= Len(d) THEN Error
    ELSE CASE At(d, offset) = 45 ->
                 IF offset + 1 >= Len(d) \/ offset + 2 + n > Len(d) THEN Error
                 ELSE [ok |-> TRUE, res |-> Part(d, offset + 2, n)]
           [] At(d, offset) = 120 ->
                 IF offset + 3 > Len(d) THEN Error
                 ELSE AuthIEs(d, offset + 3 + Uint16(d, offset + 1))
           [] OTHER -> Error

DecodeAuthenticationResponse(d) ==
    IF ~Header(d, 3, EPD5GMM, 2, AuthenticationResponse) THEN Error ELSE AuthIEs(d, 3)

\* The PDU session type, IPv4 unless an element says otherwise.
RECURSIVE SessionType(_, _, _)
SessionType(d, offset, type) ==
    IF offset >= Len(d) THEN type
    ELSE CASE Hi(At(d, offset)) = 9  -> SessionType(d, offset + 1, Lo(At(d, offset)))
           [] Hi(At(d, offset)) = 10 -> SessionType(d, offset + 1, type)
           [] OTHER -> IF offset + 1 >= Len(d) THEN type
                       ELSE SessionType(d, offset + 2 + At(d, offset + 1), type)

DecodePDUSessionEstablishmentRequest(d) ==
    IF ~Header(d, 6, EPD5GSM, 3, PDUSessionEstablishmentRequest) THEN Error
    ELSE [ok |-> TRUE, id |-> At(d, 1), type |-> SessionType(d, 6, 1)]

\* Mutant of ULIEs: an element that is cut off is taken as far as it goes.
RECURSIVE ULIEsClipped(_, _, _)
ULIEsClipped(d, offset, r) ==
    IF offset >= Len(d) THEN r
    ELSE LET iei == At(d, offset) IN
    CASE Hi(iei) \in {8, 10, 15} -> ULIEsClipped(d, offset + 1, r)
      [] iei \in {18, 89} -> ULIEsClipped(d, offset + 2,
             IF iei = 18 /\ offset + 1 < Len(d) THEN [r EXCEPT !.id = At(d, offset + 1)] ELSE r)
      [] OTHER ->
          IF offset + 1 >= Len(d) THEN r
          ELSE LET end == offset + 2 + At(d, offset + 1)
                   v == SubSeq(d, offset + 3, IF end > Len(d) THEN Len(d) ELSE end) IN
               ULIEsClipped(d, offset + 2 + At(d, offset + 1),
                    CASE iei = 34 /\ v # <<>> -> [r EXCEPT !.snssai = decodeSNSSAI(v)]
                      [] iei = 37 /\ v # <<>> -> [r EXCEPT !.dnn = decodeDNN(v)]
                      [] OTHER -> r)

\* Half-octet elements, the fixed-length session identifiers, then TLVs.
RECURSIVE ULIEs(_, _, _)
ULIEs(d, offset, r) ==
    IF offset >= Len(d) THEN r
    ELSE LET iei == At(d, offset) IN
    CASE Hi(iei) \in {8, 10, 15} -> ULIEs(d, offset + 1, r)
      [] iei \in {18, 89} -> ULIEs(d, offset + 2,
             IF iei = 18 /\ offset + 1 < Len(d) THEN [r EXCEPT !.id = At(d, offset + 1)] ELSE r)
      [] OTHER ->
          IF offset + 1 >= Len(d) \/ offset + 2 + At(d, offset + 1) > Len(d) THEN r
          ELSE LET v == Part(d, offset + 2, At(d, offset + 1)) IN
               ULIEs(d, offset + 2 + Len(v),
                     CASE iei = 34 /\ v # <<>> -> [r EXCEPT !.snssai = decodeSNSSAI(v)]
                       [] iei = 37 /\ v # <<>> -> [r EXCEPT !.dnn = decodeDNN(v)]
                       [] OTHER -> r)

DecodeULNASTransport(d) ==
    IF ~Header(d, 6, EPD5GMM, 2, ULNASTransport) THEN Error
    ELSE LET n == Uint16(d, 4) IN
         IF Len(d) < 6 + n THEN Error
         ELSE ULIEs(d, 6 + n, [ok |-> TRUE, payload |-> Part(d, 6, n), id |-> 0,
                               dnn |-> Absent, snssai |-> Absent])

\* A protected message is stripped of seven octets, if it has more.
StripSecurityHeader(d) ==
    IF Len(d) < 2 \/ Lo(At(d, 1)) = 0 \/ Len(d) <= 7 THEN d ELSE SubSeq(d, 8, Len(d))

WrapSecurityHeader(inner, type, sqn) == <<EPD5GMM, type, 0, 0, 0, 0, sqn>> \o inner

-----------------------------------------------------------------------------
(* Downlink messages.                                                      *)

\* One GUTI for every UE: PLMN 001/01, region 1, set 1, pointer 0, TMSI 1.
encodeGUTIValue(guti) == <<242, 0, 241, 16, 1, 0, 64, 0, 0, 0, 1>>

EncodeRegistrationAccept(accept) ==
    <<EPD5GMM, 0, RegistrationAccept, 1, accept.result>>
      \o (IF accept.guti = Absent THEN <<>>
          ELSE LET guti == encodeGUTIValue(accept.guti) IN
               <<IETag5GGUTI, Len(guti) \div 256, Len(guti) % 256>> \o guti)
      \o (IF accept.nssai = <<>> THEN <<>>
          ELSE LET list == encodeNSSAIList(accept.nssai) IN
               <<IETagAllowedNSSAI, Len(list) % 256>> \o list)
      \o (IF accept.t3512 = 0 THEN <<>>
          ELSE <<IETagT3512Value, 1, encodeGPRSTimer3(accept.t3512)>>)

EncodeSecurityModeCommand(smc) ==
    <<EPD5GMM, 0, SecurityModeCommand, smc.ea * 16 + smc.ia, smc.ksi % 8>>
      \o (IF smc.cap = Absent THEN <<>>
          ELSE <<Len(encodeUESecCap(smc.cap)) % 256>> \o encodeUESecCap(smc.cap))

\* ngKSI 0 and an ABBA of two octets, then RAND by position and AUTN with its length.
EncodeAuthenticationRequest(rand, autn) ==
    <<EPD5GMM, 0, AuthenticationRequest, 0, 2, 0, 0>>
      \o <<33>> \o SubSeq(rand, 1, 16) \o <<32, 16>> \o SubSeq(autn, 1, 16)

\* The proxy's command: EA0 and IA2, the UE's capabilities or F0 F0, a request
\* for the IMEISV and additional security information.
ProxySecurityModeCommand(cap) ==
    EncodeSecurityModeCommand(
        [ea |-> 0, ia |-> 2, ksi |-> 0,
         cap |-> IF cap = Absent THEN decodeUESecCap(<<240, 240>>) ELSE cap])
      \o <<225, 54, 1, 0>>

\* Mutant of buildPDUSessionAcceptNAS: the transaction is not echoed.
buildPDUSessionAcceptNASNoPTI(id, pti) ==
    LET inner == <<EPD5GSM, id, 0, 194, 17, 0, 6, 1, 0, 3, 33, 1, 6,
                   6, 1, 0, 0, 1, 0, 0, 41, 5, 1, 10, 10, 0, 1>>
    IN <<EPD5GMM, 0, DLNASTransport, 1, Len(inner) \div 256, Len(inner) % 256>>
         \o inner \o <<18, id>>

\* A fixed QoS rule, session AMBR and address, in a DL NAS transport.
buildPDUSessionAcceptNAS(id, pti) ==
    LET inner == <<EPD5GSM, id, pti, 194, 17, 0, 6, 1, 0, 3, 33, 1, 6,
                   6, 1, 0, 0, 1, 0, 0, 41, 5, 1, 10, 10, 0, 1>>
    IN <<EPD5GMM, 0, DLNASTransport, 1, Len(inner) \div 256, Len(inner) % 256>>
         \o inner \o <<18, id>>

-----------------------------------------------------------------------------
(* NGAP: a PDU is a procedure and its information elements, in any order.  *)

\* The last element of a kind counts; an InitialUEMessage has no AMF identifier.
extractInitiatingIEs(msg) ==
    LET Value(id, default) ==
            LET found == SelectSeq(msg.ies, LAMBDA e : e.id = id) IN
            IF found = <<>> THEN default ELSE Last(found).val
    IN [ran |-> Value("RANUENGAPID", 0),
        amf |-> IF msg.proc = "InitialUEMessage" THEN 0 ELSE Value("AMFUENGAPID", 0),
        nas |-> Value("NASPDU", Absent)]

BuildDownlinkNASTransport(amf, ran, nas) ==
    [proc |-> "DownlinkNASTransport",
     ies |-> <<[id |-> "AMFUENGAPID", val |-> amf], [id |-> "RANUENGAPID", val |-> ran],
               [id |-> "NASPDU", val |-> nas]>>]

GUAMI(plmn) == [plmn |-> plmn, region |-> 1, set |-> 1, pointer |-> 0]

BuildNGSetupResponse(plmn, sst, sd) ==
    [proc |-> "NGSetupResponse",
     ies |-> <<[id |-> "ServedGUAMIList", val |-> GUAMI(plmn)],
               [id |-> "PLMNSupportList", val |-> [plmn |-> plmn, sst |-> sst, sd |-> sd]]>>]

BuildInitialContextSetupRequest(amf, ran, nas, plmn, sst, sd) ==
    [proc |-> "InitialContextSetupRequest",
     ies |-> <<[id |-> "AMFUENGAPID", val |-> amf], [id |-> "RANUENGAPID", val |-> ran],
               [id |-> "GUAMI", val |-> GUAMI(plmn)],
               [id |-> "AllowedNSSAI", val |-> [sst |-> sst, sd |-> sd]],
               [id |-> "NASPDU", val |-> nas]>>]

-----------------------------------------------------------------------------
(* What the proxy makes of an uplink message: the handler it chooses and   *)
(* what that handler acts on.  The UE's state, which decides whether the   *)
(* handler goes on, is in module SCTPProxy.                                *)

handlePDUSessionEstablishment(ul, config) ==
    [ok |-> TRUE, what |-> "session", id |-> ul.id, pti |-> At(ul.payload, 2),
     dnn |-> IF ul.dnn = Absent THEN config.dnn ELSE ul.dnn,
     sst |-> IF ul.snssai = Absent THEN config.sst ELSE ul.snssai.sst,
     sd |-> IF ul.snssai = Absent \/ ul.snssai.sd = Absent THEN config.sd ELSE ul.snssai.sd]

handleULNASTransport(ul, config) ==
    IF ~ul.ok \/ Len(ul.payload) < 4 THEN Error
    ELSE IF At(ul.payload, 0) = EPD5GSM /\ At(ul.payload, 3) = PDUSessionEstablishmentRequest
      THEN handlePDUSessionEstablishment(ul, config)
      ELSE Ignored

handleUplinkNASTransport(d, config) ==
    CASE Len(d) < 3 -> Error
      [] Header(d, 3, EPD5GMM, 2, AuthenticationResponse) ->
             LET r == DecodeAuthenticationResponse(d) IN
             IF r.ok THEN [ok |-> TRUE, what |-> "authentication", res |-> r.res] ELSE Error
      [] Header(d, 3, EPD5GMM, 2, SecurityModeComplete) -> [ok |-> TRUE, what |-> "security"]
      [] Header(d, 3, EPD5GMM, 2, ULNASTransport) ->
             handleULNASTransport(DecodeULNASTransport(d), config)
      [] OTHER -> Ignored

handleNGAPMessage(msg, config) ==
    LET ctx == extractInitiatingIEs(msg)
        reg == DecodeRegistrationRequest(ctx.nas)
    IN
    CASE msg.proc = "InitialUEMessage" ->
             IF ctx.nas = Absent \/ ~reg.ok THEN Error
             ELSE [ok |-> TRUE, what |-> "registration", ran |-> ctx.ran, says |-> reg]
      [] msg.proc = "UplinkNASTransport" ->
             IF Len(ctx.nas) < 3 THEN Error
             ELSE LET did == handleUplinkNASTransport(StripSecurityHeader(ctx.nas), config) IN
                  IF did.ok THEN did @@ [ran |-> ctx.ran] ELSE Error
      [] OTHER -> Ignored
=============================================================================
