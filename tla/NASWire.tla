------------------------------ MODULE NASWire ------------------------------
(***************************************************************************)
(* A UE and the SCTP proxy over the wire formats of NASCodec.  The UE      *)
(* composes a message: its mandatory part and then optional elements, each *)
(* at most once and in any order; the gNB carries it in an NGAP message    *)
(* whose elements are in any order, whole or cut short; the proxy reads it *)
(* and answers, and the UE reads the answer.                               *)
(*                                                                         *)
(* The UE's encoders and its reader are independent of the code: they are  *)
(* written from what an element says, and the properties compare the two.  *)
(* An element is the octets it takes and what it says, a record of the     *)
(* fields it sets.                                                         *)
(***************************************************************************)
EXTENDS NASCodec, TLC
LOCAL INSTANCE SequencesExt

CONSTANTS
    Starts,    \* [kind -> the mandatory parts a UE may begin a message with]
    Elements,  \* [kind -> the optional elements a UE may add to it]
    MaxIEs,    \* bound: optional elements in one message
    Config,    \* the proxy's MCC, MNC, slice and default DNN
    Timers,    \* values of T3512, in seconds: the code's own is 3240
    Allowed    \* lists of allowed S-NSSAIs: the proxy's accept has none, the
               \* AMF's registration function puts in the subscriber's

VARIABLES
    kind,      \* the message being composed, or "none"
    start,     \* its mandatory part
    ies,       \* its optional elements so far
    keep,      \* the octets of it that arrived; 0 while it is composed
    cap,       \* the capabilities the proxy keeps for the UE
    known,     \* the capabilities the UE sent with its last registration
    heard,     \* what the proxy made of the message
    offer,     \* the timer and the slices of the subscriber's registration
    answer     \* what it sent back, or Absent
vars == <<kind, start, ies, keep, cap, known, heard, offer, answer>>

Octets(x, list) == x.octets \o FlattenSeq([i \in DOMAIN list |-> list[i].octets])

\* What a mandatory part and the elements after it say, later ones first.
Says(x, list) == FoldLeft(LAMBDA m, e : e.says @@ m, x.says, list)

\* The optional elements that end within the first n octets.
Arrived(n) ==
    SubSeq(ies, 1, Cardinality({i \in DOMAIN ies : Len(Octets(start, SubSeq(ies, 1, i))) <= n}))

RAN == 7
AMF == 9

\* Elements of the NGAP message in every order, the location among them.
Carried(proc, nas) ==
    LET list == <<[id |-> "RANUENGAPID", val |-> RAN], [id |-> "NASPDU", val |-> nas],
                  IF proc = "InitialUEMessage" THEN [id |-> "UserLocationInformation", val |-> 0]
                                               ELSE [id |-> "AMFUENGAPID", val |-> AMF]>>
    IN {[proc |-> proc, ies |-> [i \in 1 .. 3 |-> list[p[i]]]] : p \in Permutations(1 .. 3)}

RAND == [i \in 1 .. 16 |-> i]
AUTN == [i \in 1 .. 16 |-> 100 + i]
PLMN == PLMNBytes(Config.mcc, Config.mnc)

\* The proxy's answer to what it heard.  The MAC of a protected message, zero
\* while there is no key, is left zero: nothing reads it here.
Answer(did, o) ==
    CASE ~did.ok \/ did.what = "ignored" -> Absent
      [] did.what = "registration" ->
             BuildDownlinkNASTransport(AMF, did.ran, EncodeAuthenticationRequest(RAND, AUTN))
      [] did.what = "authentication" ->
             BuildDownlinkNASTransport(AMF, did.ran,
                 WrapSecurityHeader(ProxySecurityModeCommand(cap), 3, 0))
      [] did.what = "security" ->
             BuildInitialContextSetupRequest(AMF, did.ran,
                 WrapSecurityHeader(EncodeRegistrationAccept(
                     [result |-> 1, guti |-> <<1>>, nssai |-> o.nssai, t3512 |-> o.t3512]), 2, 1),
                 PLMN, Config.sst, Config.sd)
      [] did.what = "session" ->
             BuildDownlinkNASTransport(AMF, did.ran,
                 WrapSecurityHeader(buildPDUSessionAcceptNAS(did.id, did.pti), 2, 1))

-----------------------------------------------------------------------------
NoOffer == [t3512 |-> 0, nssai |-> <<>>]

Init ==
    /\ kind = "none" /\ start = Absent /\ ies = <<>> /\ keep = 0
    /\ cap = Absent /\ known = Absent
    /\ heard = Error /\ offer = NoOffer /\ answer = Absent

Compose(k, x) ==
    /\ kind = "none"
    /\ kind' = k /\ start' = x
    /\ UNCHANGED <<ies, keep, cap, known, heard, offer, answer>>

AddIE(e) ==
    /\ kind # "none" /\ keep = 0 /\ Len(ies) < MaxIEs
    /\ \A i \in DOMAIN ies : ies[i].name # e.name
    /\ ies' = Append(ies, e)
    /\ UNCHANGED <<kind, start, keep, cap, known, heard, offer, answer>>

\* The first n octets arrive.  A registration is sent plain in an
\* InitialUEMessage, everything later may have a security header.
Deliver(n, protected, o) ==
    /\ kind # "none" /\ keep = 0
    /\ keep' = n /\ offer' = o
    /\ LET plain == SubSeq(Octets(start, ies), 1, n)
           proc == IF kind = "registration" THEN "InitialUEMessage" ELSE "UplinkNASTransport"
           nas == IF protected THEN WrapSecurityHeader(plain, 2, 5) ELSE plain
       IN \E msg \in Carried(proc, nas) :
              /\ heard' = handleNGAPMessage(msg, Config)
              /\ answer' = Answer(heard', o)
              /\ cap' = IF heard'.ok /\ heard'.what = "registration" THEN heard'.says.cap ELSE cap
    /\ known' = IF kind = "registration" /\ n >= Len(start.octets)
                THEN Says(start, Arrived(n)).cap ELSE known
    /\ UNCHANGED <<kind, start, ies>>

\* The UE goes on to its next message.
Done ==
    /\ keep > 0
    /\ kind' = "none" /\ start' = Absent /\ ies' = <<>> /\ keep' = 0
    /\ heard' = Error /\ offer' = NoOffer /\ answer' = Absent
    /\ UNCHANGED <<cap, known>>

Next ==
    \/ \E k \in DOMAIN Starts : \E x \in Starts[k] : Compose(k, x)
    \/ \E k \in {kind} \cap DOMAIN Elements : \E e \in Elements[k] : AddIE(e)
    \/ kind # "none" /\ \E n \in 1 .. Len(Octets(start, ies)),
                           protected \in IF kind = "registration" THEN {FALSE} ELSE BOOLEAN,
                           o \in IF kind = "security" THEN [t3512 : Timers, nssai : Allowed]
                                                     ELSE {NoOffer} :
                           Deliver(n, protected, o)
    \/ Done

Spec == Init /\ [][Next]_vars

-----------------------------------------------------------------------------
(* What the proxy should make of the elements that arrived.                *)

Meant(list) ==
    LET s == Says(start, list) IN
    CASE keep < Len(start.octets) -> Error
      [] kind = "registration" -> [ok |-> TRUE, what |-> kind, ran |-> RAN, says |-> s]
      [] kind = "authentication" ->
             IF s.res = Absent THEN Error
             ELSE [ok |-> TRUE, what |-> kind, ran |-> RAN, res |-> s.res]
      [] kind = "security" -> [ok |-> TRUE, what |-> kind, ran |-> RAN]
      [] kind = "session" ->
             [ok |-> TRUE, what |-> kind, ran |-> RAN, id |-> s.id, pti |-> s.pti, dnn |-> s.dnn,
              sst |-> s.sst, sd |-> s.sd]

\* What the decoders that the proxy does not call make of it.
DetailMeant(list) ==
    LET plain == SubSeq(Octets(start, ies), 1, keep)
        s == Says(start, list)
    IN /\ kind = "security" /\ keep >= 3 =>
              DecodeSecurityModeComplete(plain) = [ok |-> TRUE, imeisv |-> s.imeisv]
       /\ kind = "session" /\ keep >= Len(start.octets) =>
              DecodePDUSessionEstablishmentRequest(DecodeULNASTransport(plain).payload)
                  = [ok |-> TRUE, id |-> s.innerId, type |-> s.type]

Whole == keep = Len(Octets(start, ies))

\* A message that arrives whole, its optional elements and the elements of the
\* NGAP message in any order, with a security header or without one, reaches
\* the handler of its kind with exactly the identity, capabilities, slices,
\* RES*, session, transaction and DNN the UE put in it (the decoders of
\* pkg/nas/messages.go, extractInitiatingIEs and handleUplinkNASTransport).
Understood == kind # "none" /\ keep > 0 /\ Whole => heard = Meant(ies) /\ DetailMeant(ies)

\* Of a message that is cut short the proxy reads the elements that arrived
\* whole and nothing else: no part of an element that was cut, no octet of a
\* value taken for a tag; without its mandatory part it is an error (the
\* length checks of the decoding loops).
Truncated == kind # "none" /\ keep > 0 /\ ~Whole => heard = Meant(Arrived(keep)) /\ DetailMeant(Arrived(keep))

-----------------------------------------------------------------------------
(* The UE's reader of a downlink message.                                  *)

\* Elements of a downlink message by their formats: half an octet, RAND by
\* position, the two-octet length of a GUTI, the session identifier, TLV.
RECURSIVE UEElements(_)
UEElements(d) ==
    IF d = <<>> THEN <<>>
    ELSE LET Size == CASE d[1] >= 128 -> 1
                       [] d[1] = 33   -> 17
                       [] d[1] = 18   -> 2
                       [] d[1] = 119  -> 3 + d[2] * 256 + d[3]
                       [] OTHER       -> 2 + d[2]
             Skip == CASE d[1] \in {33, 18} -> 1 [] d[1] = 119 -> 3 [] OTHER -> 2
         IN IF Size > Len(d) THEN <<[tag |-> -1, val |-> d]>>
            ELSE <<[tag |-> d[1], val |-> SubSeq(d, Skip + 1, Size)]>>
                   \o UEElements(SubSeq(d, Size + 1, Len(d)))

UEReads(d, from) == {<<e.tag, e.val>> : e \in ToSet(UEElements(SubSeq(d, from, Len(d))))}

\* Seconds per count of a GPRS timer 3, by its unit.
UEUnit == (0 :> 600) @@ (3 :> 2) @@ (4 :> 30) @@ (5 :> 60)

\* A list of S-NSSAIs as the UE knows it, each with its length.
UESlices(list) ==
    FlattenSeq([i \in DOMAIN list |->
        LET v == <<list[i].sst>> \o list[i].sd IN <<Len(v)>> \o v])

UEAccepts(d) ==
    LET read == UEReads(d, 6)
        guami == (CHOOSE e \in ToSet(answer.ies) : e.id = "GUAMI").val
        announced == BuildNGSetupResponse(PLMN, Config.sst, Config.sd).ies[1].val
    IN /\ SubSeq(d, 1, 5) = <<126, 0, 66, 1, 1>>
       /\ guami = announced
       /\ \E e \in read : /\ e[1] = 119 /\ e[2][1] = 242
                          /\ SubSeq(e[2], 2, 4) = guami.plmn
                          /\ e[2][5] = guami.region
                          /\ e[2][6] * 256 + e[2][7] = guami.set * 64 + guami.pointer
       /\ \E e \in read :
              /\ e[1] = 94 /\ Len(e[2]) = 1
              /\ LET unit == UEUnit[e[2][1] \div 32] IN
                 (e[2][1] % 32) * unit \in (offer.t3512 - unit + 1) .. offer.t3512
       /\ {e \in read : e[1] \notin {94, 119}} =
              IF offer.nssai = <<>> THEN {} ELSE {<<21, UESlices(offer.nssai)>>}

\* The UE can read every answer with the formats of the standard and finds in
\* it what belongs to its own message: the challenge, the capabilities it sent
\* when it registered, an accept whose GUTI names the AMF that NG setup
\* announced and whose timer is the configured one up to its unit, or its own
\* session and transaction (the encoders of pkg/nas/messages.go and
\* pkg/ngap/decoder.go, buildPDUSessionAcceptNAS).
DownlinkReadable ==
    kind # "none" /\ answer # Absent =>
      LET nas == (CHOOSE e \in ToSet(answer.ies) : e.id = "NASPDU").val
          d == IF kind = "registration" THEN nas ELSE SubSeq(nas, 8, Len(nas))
          Id(name) == (CHOOSE e \in ToSet(answer.ies) : e.id = name).val
      IN /\ Id("AMFUENGAPID") = AMF /\ Id("RANUENGAPID") = RAN
         /\ CASE kind = "registration" ->
                     /\ SubSeq(d, 1, 7) = <<126, 0, 86, 0, 2, 0, 0>>
                     /\ UEReads(d, 8) = {<<33, RAND>>, <<32, AUTN>>}
              [] kind = "authentication" ->
                     /\ SubSeq(d, 1, 5) = <<126, 0, 93, 2, 0>>
                     /\ SubSeq(d, 7, 6 + d[6]) = IF known = Absent THEN <<240, 240>> ELSE known.raw
                     /\ UEReads(d, 7 + d[6]) = {<<225, <<>>>>, <<54, <<0>>>>}
              [] kind = "security" -> UEAccepts(d)
              [] kind = "session" ->
                     LET n == d[5] * 256 + d[6] IN
                     /\ SubSeq(d, 1, 4) = <<126, 0, 104, 1>>
                     /\ SubSeq(d, 7, 10) = <<46, Says(start, Arrived(keep)).id, start.says.pti, 194>>
                     /\ UEReads(d, 7 + n) = {<<18, <<Says(start, Arrived(keep)).id>>>>}
                     /\ UEReads(SubSeq(d, 1, 6 + n), 27) = {<<41, <<1, 10, 10, 0, 1>>>>}
=============================================================================
