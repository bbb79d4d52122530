----------------------------- MODULE SCTPProxy ------------------------------
(***************************************************************************)
(* cmd/sctp-proxy: the bridge between gNBs (N2, NGAP over SCTP) and the    *)
(* functions.  One goroutine per SCTP association handles the messages of  *)
(* its gNB one after the other, and blocks in the backend calls they make. *)
(* All goroutines share ueMap, which leads from a RAN-UE-NGAP-ID to a      *)
(* *UEContext; a handler keeps the pointer it looked up across the calls.  *)
(* Contexts are told apart by the AMF-UE-NGAP-ID they were created with.   *)
(*                                                                         *)
(* Between two calls a handler is one step.  RegistrationComplete, NAS     *)
(* messages of other types and messages that cannot be decoded change      *)
(* nothing and get no answer, and a RES* that is not XRES* is only logged: *)
(* none of them is a step here.                                            *)
(*                                                                         *)
(* UEs and gNBs are the environment: a UE follows TS 24.501, sending the   *)
(* next message of the procedure when it gets the answer to the last one,  *)
(* and begins again when there is none.                                    *)
(***************************************************************************)
EXTENDS Integers, FiniteSets

CONSTANTS
    UEs,         \* the UEs, which are also their SUPIs
    Gnbs,        \* the gNBs
    Conns,       \* SCTP associations, each with its goroutine
    GnbOf,       \* GnbOf[u] is the gNB of u
    RanIDOf,     \* RanIDOf[u] is the RAN-UE-NGAP-ID its gNB gives u
    SeqMod,      \* 256: DLSeqNum is a byte
    MaxIDs,      \* bound on contexts created
    MaxCount,    \* bound on downlink messages of a context
    MaxFaults,   \* bound on failed backend calls and Redis reads
    MaxDrops,    \* bound on lost associations
    None

RanIDs == {RanIDOf[u] : u \in UEs}

\* A gNB does not give two of its UEs the same RAN-UE-NGAP-ID.
ASSUME ConstantsAssumption ==
    /\ GnbOf \in [UEs -> Gnbs]
    /\ None \notin UEs \cup Conns
    /\ SeqMod \in Nat \ {0, 1}
    /\ MaxIDs \in Nat /\ MaxCount \in Nat /\ MaxFaults \in Nat /\ MaxDrops \in Nat
    /\ \A u, v \in UEs : u # v /\ GnbOf[u] = GnbOf[v] => RanIDOf[u] # RanIDOf[v]

UEStates == {"IDLE", "AUTH_SENT", "SMC_SENT", "REGISTERED", "PDU_SESSION_ACTIVE"}
UEContext == [SUPI : UEs, RANUeNgapID : RanIDs, State : UEStates,
              DLSeqNum : 0 .. SeqMod - 1, DLCount : Nat, keys : BOOLEAN]
IDs == 1 .. MaxIDs

Uplinks == {"registration", "authResponse", "smComplete", "pduRequest"}
Downlinks == {"authRequest", "smCommand", "regAccept", "pduAccept"}
Nothing == [msg |-> "none"]
Downlink == [msg : Downlinks, sqn : 0 .. SeqMod - 1, count : Nat, mac : BOOLEAN]

VARIABLES
    ueMap,              \* RAN-UE-NGAP-ID to the context's ID, 0 where absent
    ctxs,               \* ID to context
    amfUeNgapIDCounter, \* the last ID given
    conn,               \* the goroutines
    live,               \* live[g]: the association of g, or None
    phase,              \* where each UE is in its procedure
    up,                 \* the uplink message each UE has in flight
    down,               \* the downlink message on its way to each UE
    received,           \* protected downlinks each UE got since it attached
    registered,         \* SUPIs the AMF has registered
    sessions,           \* SUPIs for which the SMF has created a session
    faults, drops

proxyVars == <<ueMap, ctxs, amfUeNgapIDCounter>>
coreVars == <<registered, sessions>>
ueVars == <<phase, received>>
vars == <<ueMap, ctxs, amfUeNgapIDCounter, conn, live, phase, up, down, received,
          registered, sessions, faults, drops>>

Phases == {"off", "registering", "authenticating", "securing", "registered",
           "requesting", "up"}
Goroutine == [pc : {"read", "auth", "pending", "register", "create"},
              ue : UEs \cup {None}, id : 0 .. MaxIDs]
Reading == [pc |-> "read", ue |-> None, id |-> 0]

TypeOK ==
    /\ ueMap \in [RanIDs -> 0 .. amfUeNgapIDCounter]
    /\ amfUeNgapIDCounter \in 0 .. MaxIDs
    /\ ctxs \in [1 .. amfUeNgapIDCounter -> UEContext]
    /\ conn \in [Conns -> Goroutine]
    /\ live \in [Gnbs -> Conns \cup {None}]
    /\ phase \in [UEs -> Phases]
    /\ up \in [UEs -> Uplinks \cup {"none"}]
    /\ down \in [UEs -> Downlink \cup {Nothing}]
    /\ received \in [UEs -> Nat]
    /\ registered \in SUBSET UEs /\ sessions \in SUBSET UEs
    /\ faults \in 0 .. MaxFaults /\ drops \in 0 .. MaxDrops

Init ==
    /\ ueMap = [r \in RanIDs |-> 0]
    /\ ctxs = [i \in {} |-> 0]
    /\ amfUeNgapIDCounter = 0
    /\ conn = [c \in Conns |-> Reading]
    /\ live = [g \in Gnbs |-> None]
    /\ phase = [u \in UEs |-> "off"]
    /\ up = [u \in UEs |-> "none"]
    /\ down = [u \in UEs |-> Nothing]
    /\ received = [u \in UEs |-> 0]
    /\ registered = {} /\ sessions = {}
    /\ faults = 0 /\ drops = 0

-----------------------------------------------------------------------------
(* The goroutine of an association.                                        *)

\* The goroutine c reads message m of UE u, whose gNB it serves.
Reads(c, u, m) ==
    /\ conn[c].pc = "read" /\ live[GnbOf[u]] = c
    /\ up[u] = m
    /\ up' = [up EXCEPT ![u] = "none"]

Calls(c, pc, u, i) == conn' = [conn EXCEPT ![c] = [pc |-> pc, ue |-> u, id |-> i]]
Returns(c) == conn' = [conn EXCEPT ![c] = Reading]

\* The answer goes out on c and is lost if c is no longer the gNB's association.
Answers(c, u, m) ==
    down' = IF live[GnbOf[u]] = c THEN [down EXCEPT ![u] = m] ELSE down

\* A backend call or a Redis read that fails.
Fault == faults < MaxFaults /\ faults' = faults + 1

\* buildSecurityProtectedNAS, without a MAC if there is no key.
Protected(m, sqn, ctx) ==
    [msg |-> m, sqn |-> sqn, count |-> ctx.DLCount, mac |-> ctx.keys]

getUE(r) == ueMap[r]

\* Mutant of InitialUEMessage: a RAN-UE-NGAP-ID that is in the map is refused.
InitialRefuseKnown(c, u) ==
    LET i == amfUeNgapIDCounter + 1 IN
    /\ Reads(c, u, "registration")
    /\ i \in IDs
    /\ IF ueMap[RanIDOf[u]] # 0
         THEN UNCHANGED <<ueMap, ctxs, amfUeNgapIDCounter, conn>>
         ELSE /\ amfUeNgapIDCounter' = i
              /\ ctxs' = [j \in 1 .. i |-> IF j < i THEN ctxs[j]
                            ELSE [SUPI |-> u, RANUeNgapID |-> RanIDOf[u], State |-> "IDLE",
                                  DLSeqNum |-> 0, DLCount |-> 0, keys |-> FALSE]]
              /\ ueMap' = [ueMap EXCEPT ![RanIDOf[u]] = i]
              /\ Calls(c, "auth", u, i)
    /\ UNCHANGED <<live, ueVars, down, coreVars, faults, drops>>

\* Mutant of InitialUEMessage: the UE's earlier context is used again.
InitialReuse(c, u) ==
    LET old == ueMap[RanIDOf[u]]
        i == IF old = 0 THEN amfUeNgapIDCounter + 1 ELSE old
    IN
    /\ Reads(c, u, "registration")
    /\ i \in IDs
    /\ amfUeNgapIDCounter' = IF old = 0 THEN i ELSE amfUeNgapIDCounter
    /\ ctxs' = [j \in 1 .. amfUeNgapIDCounter' |-> IF j # i THEN ctxs[j]
                  ELSE [SUPI |-> u, RANUeNgapID |-> RanIDOf[u], State |-> "IDLE",
                        DLSeqNum |-> 0, DLCount |-> 0, keys |-> FALSE]]
    /\ ueMap' = [ueMap EXCEPT ![RanIDOf[u]] = i]
    /\ Calls(c, "auth", u, i)
    /\ UNCHANGED <<live, ueVars, down, coreVars, faults, drops>>

\* A new context takes the place of the one the RAN-UE-NGAP-ID led to.
InitialUEMessage(c, u) ==
    LET i == amfUeNgapIDCounter + 1 IN
    /\ Reads(c, u, "registration")
    /\ i \in IDs
    /\ amfUeNgapIDCounter' = i
    /\ ctxs' = [j \in 1 .. i |-> IF j < i THEN ctxs[j]
                  ELSE [SUPI |-> u, RANUeNgapID |-> RanIDOf[u], State |-> "IDLE",
                        DLSeqNum |-> 0, DLCount |-> 0, keys |-> FALSE]]
    /\ ueMap' = [ueMap EXCEPT ![RanIDOf[u]] = i]
    /\ Calls(c, "auth", u, i)
    /\ UNCHANGED <<live, ueVars, down, coreVars, faults, drops>>

\* amf-auth-initiate answers or fails.
AuthInitiate(c) ==
    /\ conn[c].pc = "auth"
    /\ \/ Calls(c, "pending", conn[c].ue, conn[c].id) /\ UNCHANGED faults
       \/ Returns(c) /\ Fault
    /\ UNCHANGED <<proxyVars, live, ueVars, up, down, coreVars, drops>>

\* XRES* and KAUSF are read from Redis, and the keys derived, or not; the
\* Authentication Request, which is not protected, is sent all the same.
AuthPending(c) ==
    LET i == conn[c].id IN
    /\ conn[c].pc = "pending"
    /\ \E found \in BOOLEAN :
         /\ IF found THEN UNCHANGED faults ELSE Fault
         /\ ctxs' = [ctxs EXCEPT ![i].keys = found, ![i].State = "AUTH_SENT"]
    /\ Answers(c, conn[c].ue, [msg |-> "authRequest", sqn |-> 0, count |-> 0, mac |-> FALSE])
    /\ Returns(c)
    /\ UNCHANGED <<ueMap, amfUeNgapIDCounter, live, ueVars, up, coreVars, drops>>

\* An uplink message for which there is no context, or that the context's
\* state does not allow, is an error: the goroutine reads on.
Refused(m, i) ==
    \/ i = 0
    \/ m = "authResponse" /\ ctxs[i].State # "AUTH_SENT"
    \/ m = "smComplete" /\ ctxs[i].State # "SMC_SENT"

UplinkRefused(c, u, m) ==
    /\ Reads(c, u, m)
    /\ m # "registration"
    /\ Refused(m, getUE(RanIDOf[u]))
    /\ UNCHANGED <<proxyVars, conn, live, ueVars, down, coreVars, faults, drops>>

\* Mutant of AuthResponse: the sequence number is not set.
AuthResponseNoSeq(c, u) ==
    LET i == getUE(RanIDOf[u]) IN
    /\ Reads(c, u, "authResponse")
    /\ ~Refused("authResponse", i)
    /\ ctxs' = [ctxs EXCEPT ![i].DLCount = @ + 1, ![i].State = "SMC_SENT"]
    /\ Answers(c, u, Protected("smCommand", 0, ctxs[i]))
    /\ UNCHANGED <<ueMap, amfUeNgapIDCounter, conn, live, ueVars, coreVars, faults, drops>>

AuthResponse(c, u) ==
    LET i == getUE(RanIDOf[u]) IN
    /\ Reads(c, u, "authResponse")
    /\ ~Refused("authResponse", i)
    /\ ctxs' = [ctxs EXCEPT ![i].DLCount = @ + 1, ![i].DLSeqNum = 1, ![i].State = "SMC_SENT"]
    /\ Answers(c, u, Protected("smCommand", 0, ctxs[i]))
    /\ UNCHANGED <<ueMap, amfUeNgapIDCounter, conn, live, ueVars, coreVars, faults, drops>>

SecurityModeComplete(c, u) ==
    LET i == getUE(RanIDOf[u]) IN
    /\ Reads(c, u, "smComplete")
    /\ ~Refused("smComplete", i)
    /\ Calls(c, "register", u, i)
    /\ UNCHANGED <<proxyVars, live, ueVars, down, coreVars, faults, drops>>

\* What the two handlers below do with the context when the backend is done.
Protect(i, state) ==
    ctxs' = [ctxs EXCEPT ![i].DLSeqNum = (@ + 1) % SeqMod, ![i].DLCount = @ + 1,
                         ![i].State = state]

\* Mutant of Register: the context is marked before the answer is looked at.
RegisterMarkedFirst(c) ==
    LET i == conn[c].id IN
    /\ conn[c].pc = "register"
    /\ \/ /\ registered' = registered \cup {ctxs[i].SUPI}
          /\ UNCHANGED faults
       \/ Fault /\ UNCHANGED registered
    /\ Protect(i, "REGISTERED")
    /\ Answers(c, conn[c].ue, Protected("regAccept", ctxs[i].DLSeqNum, ctxs[i]))
    /\ Returns(c)
    /\ UNCHANGED <<ueMap, amfUeNgapIDCounter, live, ueVars, up, sessions, drops>>

\* amf-initial-registration answers; or the call fails, which the AMF may
\* have served all the same, and the context stays SMC_SENT.
Register(c) ==
    LET i == conn[c].id IN
    /\ conn[c].pc = "register"
    /\ \/ /\ registered' = registered \cup {ctxs[i].SUPI}
          /\ Protect(i, "REGISTERED")
          /\ Answers(c, conn[c].ue, Protected("regAccept", ctxs[i].DLSeqNum, ctxs[i]))
          /\ UNCHANGED faults
       \/ /\ Fault
          /\ registered' \in {registered, registered \cup {ctxs[i].SUPI}}
          /\ UNCHANGED <<ctxs, down>>
    /\ Returns(c)
    /\ UNCHANGED <<ueMap, amfUeNgapIDCounter, live, ueVars, up, sessions, drops>>

\* Mutant of ULNASTransport: the oldest context is taken, not the UE's own.
ULNASTransportFirst(c, u) ==
    /\ Reads(c, u, "pduRequest")
    /\ ~Refused("pduRequest", getUE(RanIDOf[u]))
    /\ ctxs[1].DLCount < MaxCount
    /\ Calls(c, "create", u, 1)
    /\ UNCHANGED <<proxyVars, live, ueVars, down, coreVars, faults, drops>>

\* A PDU Session Establishment Request: the context's state is not looked at.
ULNASTransport(c, u) ==
    LET i == getUE(RanIDOf[u]) IN
    /\ Reads(c, u, "pduRequest")
    /\ ~Refused("pduRequest", i)
    /\ ctxs[i].DLCount < MaxCount
    /\ Calls(c, "create", u, i)
    /\ UNCHANGED <<proxyVars, live, ueVars, down, coreVars, faults, drops>>

\* Mutant of PDUSessionCreate: the session is not noted in the context.
PDUSessionNotNoted(c) ==
    LET i == conn[c].id IN
    /\ conn[c].pc = "create"
    /\ sessions' = sessions \cup {ctxs[i].SUPI}
    /\ Protect(i, ctxs[i].State)
    /\ Answers(c, conn[c].ue, Protected("pduAccept", ctxs[i].DLSeqNum, ctxs[i]))
    /\ Returns(c)
    /\ UNCHANGED <<ueMap, amfUeNgapIDCounter, live, ueVars, up, registered, faults, drops>>

PDUSessionCreate(c) ==
    LET i == conn[c].id IN
    /\ conn[c].pc = "create"
    /\ \/ /\ sessions' = sessions \cup {ctxs[i].SUPI}
          /\ Protect(i, "PDU_SESSION_ACTIVE")
          /\ Answers(c, conn[c].ue, Protected("pduAccept", ctxs[i].DLSeqNum, ctxs[i]))
          /\ UNCHANGED faults
       \/ /\ Fault
          /\ sessions' \in {sessions, sessions \cup {ctxs[i].SUPI}}
          /\ UNCHANGED <<ctxs, down>>
    /\ Returns(c)
    /\ UNCHANGED <<ueMap, amfUeNgapIDCounter, live, ueVars, up, registered, drops>>

-----------------------------------------------------------------------------
(* gNBs: a new association is accepted and its NG Setup answered; one that *)
(* is lost takes the UEs' connections with it, while its goroutine may     *)
(* still wait for a backend.                                               *)

Connect(g, c) ==
    /\ live[g] = None
    /\ conn[c].pc = "read" /\ \A h \in Gnbs : live[h] # c
    /\ live' = [live EXCEPT ![g] = c]
    /\ UNCHANGED <<proxyVars, conn, ueVars, up, down, coreVars, faults, drops>>

Drop(g) ==
    /\ live[g] # None
    /\ drops < MaxDrops
    /\ drops' = drops + 1
    /\ live' = [live EXCEPT ![g] = None]
    /\ phase' = [u \in UEs |-> IF GnbOf[u] = g THEN "off" ELSE phase[u]]
    /\ up' = [u \in UEs |-> IF GnbOf[u] = g THEN "none" ELSE up[u]]
    /\ down' = [u \in UEs |-> IF GnbOf[u] = g THEN Nothing ELSE down[u]]
    /\ UNCHANGED <<proxyVars, conn, received, coreVars, faults>>

-----------------------------------------------------------------------------
(* UEs.                                                                    *)

\* Nothing of u is on its way, in its gNB's goroutine or in the queues.
Unanswered(u) ==
    /\ up[u] = "none" /\ down[u] = Nothing
    /\ \A c \in Conns : live[GnbOf[u]] = c => conn[c].ue # u

Sends(u, p, m) ==
    /\ live[GnbOf[u]] # None
    /\ phase' = [phase EXCEPT ![u] = p]
    /\ up' = [up EXCEPT ![u] = m]

\* Registration, for the first time or again when there was no answer.
Attach(u) ==
    /\ phase[u] \in {"off", "registering", "authenticating", "securing"}
    /\ Unanswered(u)
    /\ Sends(u, "registering", "registration")
    /\ received' = [received EXCEPT ![u] = 0]
    /\ UNCHANGED <<proxyVars, conn, live, down, coreVars, faults, drops>>

\* Or the lower layers repeat the answer the UE gave last.
Repeat(u) ==
    /\ Unanswered(u)
    /\ \/ phase[u] = "authenticating" /\ Sends(u, phase[u], "authResponse")
       \/ phase[u] = "securing" /\ Sends(u, phase[u], "smComplete")
    /\ UNCHANGED <<proxyVars, conn, live, down, received, coreVars, faults, drops>>

\* A PDU session is asked for, again when there was no answer, or another one.
RequestSession(u) ==
    /\ phase[u] \in {"registered", "requesting", "up"}
    /\ Unanswered(u)
    /\ Sends(u, "requesting", "pduRequest")
    /\ UNCHANGED <<proxyVars, conn, live, down, received, coreVars, faults, drops>>

Awaits(p) == CASE p = "registering" -> "authRequest" [] p = "authenticating" -> "smCommand"
               [] p = "securing" -> "regAccept" [] p = "requesting" -> "pduAccept"
               [] OTHER -> "none"

\* The UE gets the message it awaits; a protected one must have a MAC.
Receive(u) ==
    LET m == down[u] IN
    /\ m # Nothing
    /\ down' = [down EXCEPT ![u] = Nothing]
    /\ IF m.msg = Awaits(phase[u]) /\ (m.mac \/ m.msg = "authRequest")
         THEN /\ received' = [received EXCEPT ![u] = IF m.mac THEN @ + 1 ELSE @]
              /\ \/ m.msg = "authRequest" /\ Sends(u, "authenticating", "authResponse")
                 \/ m.msg = "smCommand" /\ Sends(u, "securing", "smComplete")
                 \/ /\ m.msg \in {"regAccept", "pduAccept"}
                    /\ phase' = [phase EXCEPT ![u] = IF m.msg = "regAccept" THEN "registered" ELSE "up"]
                    /\ UNCHANGED up
         ELSE UNCHANGED <<phase, up, received>>
    /\ UNCHANGED <<proxyVars, conn, live, coreVars, faults, drops>>

-----------------------------------------------------------------------------
Handle(c) ==
    \/ \E u \in UEs :
         \/ InitialUEMessage(c, u) \/ AuthResponse(c, u) \/ SecurityModeComplete(c, u)
         \/ ULNASTransport(c, u) \/ \E m \in Uplinks : UplinkRefused(c, u, m)
    \/ AuthInitiate(c) \/ AuthPending(c) \/ Register(c) \/ PDUSessionCreate(c)

Connects(g) == \E c \in Conns : Connect(g, c)

Next ==
    \/ \E c \in Conns : Handle(c)
    \/ \E g \in Gnbs : Connects(g) \/ Drop(g)
    \/ \E u \in UEs : Attach(u) \/ Repeat(u) \/ RequestSession(u) \/ Receive(u)

Spec == Init /\ [][Next]_vars

(***************************************************************************)
(* A goroutine goes on reading, also when several UEs have sent something, *)
(* and a backend answers or fails; a gNB reconnects; a UE receives what it *)
(* is sent, and its timers make it register again however often the last   *)
(* answer is repeated, and ask again.  A UE whose session is up may leave  *)
(* it at that.                                                             *)
(***************************************************************************)
Fairness ==
    /\ \A c \in Conns : WF_vars(AuthInitiate(c) \/ AuthPending(c) \/ Register(c)
                                  \/ PDUSessionCreate(c))
    /\ \A u \in UEs :
         /\ SF_vars(\E c \in Conns :
              \/ InitialUEMessage(c, u) \/ AuthResponse(c, u) \/ SecurityModeComplete(c, u)
              \/ ULNASTransport(c, u) \/ \E m \in Uplinks : UplinkRefused(c, u, m))
         /\ WF_vars(Receive(u)) /\ SF_vars(Attach(u))
         /\ WF_vars(phase[u] # "up" /\ RequestSession(u))
    /\ \A g \in Gnbs : WF_vars(Connects(g))

FairSpec == Spec /\ Fairness

-----------------------------------------------------------------------------
(* What makes the proxy correct.                                           *)

(* A handler works on the context of the UE that sent the message, "a      *)
(* per-UE state machine", also while it waits for a backend and when the   *)
(* association of a stale handler has been replaced.                       *)
OwnContext ==
    \A c \in Conns : conn[c].ue # None => ctxs[conn[c].id].SUPI = conn[c].ue

(* No two goroutines hold the same context, whose fields have no lock.     *)
NotShared ==
    \A c, d \in Conns : c # d /\ conn[c].id # 0 => conn[c].id # conn[d].id

(* The NAS COUNT and the sequence number of a protected downlink message   *)
(* are the ones its UE expects: the number of messages it has got.         *)
NextInSequence ==
    \A u \in UEs : down[u] # Nothing /\ down[u].mac =>
        /\ down[u].count = received[u]
        /\ down[u].sqn = received[u] % SeqMod

(* A UE that believes itself registered or connected has a context in that *)
(* state, which its RAN-UE-NGAP-ID leads to.                               *)
PhasesAgree ==
    \A u \in UEs : phase[u] \in {"registered", "requesting", "up"} =>
        LET i == ueMap[RanIDOf[u]] IN
        /\ i # 0 /\ ctxs[i].SUPI = u
        /\ ctxs[i].State \in {"REGISTERED", "PDU_SESSION_ACTIVE"}
        /\ phase[u] = "up" => ctxs[i].State = "PDU_SESSION_ACTIVE"

(* The signalling flow of cmd/sctp-proxy/main.go: the SMF is asked for a   *)
(* session of a subscriber only after the AMF has registered it.           *)
FlowOrder == sessions \subseteq registered

(* Every UE gets its session in the end, whatever failed on the way.       *)
EventuallyUp == \A u \in UEs : <>(phase[u] = "up")
=============================================================================
