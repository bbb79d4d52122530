----------------------------- MODULE UEContext ------------------------------
(***************************************************************************)
(* The UE context of the serverless AMF: the record "ue:<supi>" in Redis   *)
(* and the handlers that read and write it,                                *)
(*     functions/amf/registration      functions/amf/deregistration        *)
(*     functions/amf/service-request   functions/amf/handover              *)
(*     functions/amf/pdu-session-relay                                     *)
(* with the per-slice UE counters that registration and deregistration     *)
(* keep through functions/nsacf, and the state machine of pkg/statemachine *)
(* from which registration takes the states it stores.                     *)
(*                                                                         *)
(* A request is one handler invocation; a step is one Redis command or one *)
(* call of another function.  How 5G-AKA succeeds or fails is the subject  *)
(* of module Authentication: here it has one of three outcomes.            *)
(***************************************************************************)
EXTENDS Integers, Sequences, FiniteSets

CONSTANTS
    Reqs,           \* the requests, each one an invocation
    Supis,          \* subscribers
    Gnbs,           \* gNBs a UE registers at or is handed over to
    Slices,         \* the S-NSSAIs
    NSSAI,          \* NSSAI[u] is the list of slices of u's subscription
    MaxUEs,         \* MaxUEs of every slice's admission policy
    NSACF,          \* ENABLE_NSACF
    Reregister,     \* TRUE iff a registered UE may register again
    Serial,         \* "none", "ue": one request of a UE at a time, "all"
    Faults,         \* what may fail: see FaultKinds
    MaxRestarts     \* bound on restarts of the registration function

(***************************************************************************)
(* "Get", "Put", "Delete": a Redis command fails; "SBI": a call of another *)
(* function fails; "Auth": the UE does not pass authentication.            *)
(***************************************************************************)
FaultKinds == {"Get", "Put", "Delete", "SBI", "Auth"}

ASSUME ConstantsAssumption ==
    /\ NSSAI \in [Supis -> Seq(Slices)]
    /\ MaxUEs \in Nat
    /\ NSACF \in BOOLEAN
    /\ Reregister \in BOOLEAN
    /\ Serial \in {"none", "ue", "all"}
    /\ Faults \subseteq FaultKinds
    /\ MaxRestarts \in Nat

NoGnb == "none"   \* what a request that names no gNB carries
Kinds == {"register", "deregister", "service", "handover", "relay"}

-----------------------------------------------------------------------------
(* pkg/statemachine: a transition to the state the machine is in, and a CM *)
(* transition of a UE that is not registered, are refused and change       *)
(* nothing; leaving RM-REGISTERED forces CM-IDLE.                          *)

RMStates == {"DEREGISTERED", "REGISTERED"}
CMStates == {"IDLE", "CONNECTED"}

NewUEStateMachine == [rm |-> "DEREGISTERED", cm |-> "IDLE"]

TransitionRM(sm, target) ==
    IF sm.rm = target THEN sm
    ELSE [rm |-> target, cm |-> IF target = "DEREGISTERED" THEN "IDLE" ELSE sm.cm]

TransitionCM(sm, target) ==
    IF sm.rm # "REGISTERED" THEN sm ELSE [sm EXCEPT !.cm = target]

\* The states registration stores in the context.
Registered == TransitionCM(TransitionRM(NewUEStateMachine, "REGISTERED"), "CONNECTED")

-----------------------------------------------------------------------------
Context == [rm : RMStates, cm : CMStates, gnb : Gnbs, id : Nat \ {0},
            nssai : {NSSAI[u] : u \in Supis}]
NoContext == [rm |-> "none"]

VARIABLES
    ue,          \* Redis "ue:<supi>"
    counters,    \* CurrentUEs of each slice in Redis "nsacf-counters/<slice>"
    sessions,    \* the relay requests whose PDU session the SMF created
    amfUeNgapIDCounter, \* the registration function's counter
    restarts,    \* restarts of the registration function
    drifted,     \* history: slices whose counter a fault or an overlap has touched
    req          \* the invocations

vars == <<ue, counters, sessions, amfUeNgapIDCounter, restarts, drifted, req>>

PC == {"idle", "auth", "sdm", "check", "incGet", "incPut", "put",
       "dGet", "decGet", "decPut", "dDel", "sGet", "sPut", "hGet", "hPut",
       "lGet", "lCall", "done"}
Request == [pc : PC, kind : Kinds, supi : Supis, gnb : Gnbs \cup {NoGnb}, id : Nat,
            code : {0, 200, 403, 404, 409, 500, 502},
            ctx : Context \cup {NoContext}, i : Nat, cnt : Nat]
Fresh == [pc |-> "idle", code |-> 0]

TypeOK ==
    /\ ue \in [Supis -> Context \cup {NoContext}]
    /\ counters \in [Slices -> Nat]
    /\ sessions \in SUBSET Reqs
    /\ amfUeNgapIDCounter \in Nat
    /\ restarts \in 0 .. MaxRestarts
    /\ drifted \in SUBSET Slices
    /\ req \in [Reqs -> Request \cup {Fresh}]

Init ==
    /\ ue = [u \in Supis |-> NoContext]
    /\ counters = [s \in Slices |-> 0]
    /\ sessions = {}
    /\ amfUeNgapIDCounter = 0
    /\ restarts = 0
    /\ drifted = {}
    /\ req = [x \in Reqs |-> Fresh]

Runs(x) == req[x].pc \notin {"idle", "done"}
Stored(u) == ue[u] # NoContext

\* When a client sends a request: see Serial and Reregister.
MayStart(k, u) ==
    /\ Serial = "all" => \A x \in Reqs : ~Runs(x)
    /\ Serial = "ue" => \A x \in Reqs : Runs(x) => req[x].supi # u
    /\ k = "register" /\ ~Reregister => ~Stored(u)

At(x, pc) == [req EXCEPT ![x].pc = pc]
Reply(x, code) == [req EXCEPT ![x].pc = "done", ![x].code = code]

\* The first step of each handler, and what the request carries.
Start(x, k, u, g, first, id) ==
    /\ req[x].pc = "idle"
    /\ MayStart(k, u)
    /\ req' = [req EXCEPT ![x] =
                 [pc |-> first, kind |-> k, supi |-> u, gnb |-> g, id |-> id,
                  code |-> 0, ctx |-> NoContext, i |-> 1, cnt |-> 0]]

-----------------------------------------------------------------------------
(* NSACF, as the AMF handlers call it.                                     *)

CallOK(status) == status < 400
CheckStatus(count) == IF count >= MaxUEs THEN 403 ELSE 200

\* update-counters reads the slice's counters, zero when Redis fails.
CounterGet(x, s, next) ==
    \/ req' = [req EXCEPT ![x].pc = next, ![x].cnt = counters[s]]
    \/ "Get" \in Faults /\ req' = [req EXCEPT ![x].pc = next, ![x].cnt = 0]

\* ... and writes them; the caller ignores the outcome and takes the next slice.
CounterPut(x, s, value, again) ==
    /\ \/ counters' = [counters EXCEPT ![s] = value]
       \/ "Put" \in Faults /\ UNCHANGED counters
    /\ req' = [req EXCEPT ![x].pc = again, ![x].i = @ + 1]

-----------------------------------------------------------------------------
(* amf/registration                                                        *)

\* Mutant of RegisterStart: the counter is read and never advanced.
RegisterSameID(x, u, g) ==
    /\ \E skipAuth \in BOOLEAN :
          Start(x, "register", u, g, IF skipAuth THEN "sdm" ELSE "auth",
                amfUeNgapIDCounter + 1)
    /\ UNCHANGED <<ue, counters, sessions, amfUeNgapIDCounter, restarts>>

\* SkipAuth is what the SCTP proxy asks for: it has authenticated the UE.
RegisterStart(x, u, g) ==
    /\ \E skipAuth \in BOOLEAN :
          Start(x, "register", u, g, IF skipAuth THEN "sdm" ELSE "auth",
                amfUeNgapIDCounter + 1)
    /\ amfUeNgapIDCounter' = amfUeNgapIDCounter + 1
    /\ UNCHANGED <<ue, counters, sessions, restarts>>

RegisterAuth(x) ==
    /\ req[x].pc = "auth"
    /\ \/ req' = At(x, "sdm")
       \/ "Auth" \in Faults /\ req' = Reply(x, 403)
       \/ "SBI" \in Faults /\ req' = Reply(x, 500)
    /\ UNCHANGED <<ue, counters, sessions, amfUeNgapIDCounter, restarts>>

\* udm-get-subscriber-data, by what Redis answers it.
SubscriberStatus(get) == CASE get = "found" -> 200 [] get = "missing" -> 404 [] get = "error" -> 500

\* Nudm_SDM_Get, and the best-effort Nudm_UECM_Registration after it.
RegisterSubscription(x) ==
    /\ req[x].pc = "sdm"
    /\ \/ \E get \in {"found"} \cup (IF "Get" \in Faults THEN {"missing", "error"} ELSE {}) :
            IF CallOK(SubscriberStatus(get))
              THEN req' = At(x, IF NSACF THEN "check" ELSE "put")
              ELSE req' = Reply(x, 500)
       \/ "SBI" \in Faults /\ req' = Reply(x, 500)
    /\ UNCHANGED <<ue, counters, sessions, amfUeNgapIDCounter, restarts>>

\* One slice's admission check: refused on a reply that is no error and says no.
RegisterCheck(x) ==
    LET nssai == NSSAI[req[x].supi]
        next == [req EXCEPT ![x].i = @ + 1]
    IN
    /\ req[x].pc = "check"
    /\ IF req[x].i <= Len(nssai)
         THEN \/ LET status == CheckStatus(counters[nssai[req[x].i]]) IN
                   req' = IF CallOK(status) /\ status = 403 THEN Reply(x, 403) ELSE next
              \/ "SBI" \in Faults /\ req' = next
         ELSE req' = [req EXCEPT ![x].pc = "incGet", ![x].i = 1]
    /\ UNCHANGED <<ue, counters, sessions, amfUeNgapIDCounter, restarts>>

\* One slice's INCREMENT; a failed call is ignored.
RegisterIncGet(x) ==
    LET nssai == NSSAI[req[x].supi] IN
    /\ req[x].pc = "incGet"
    /\ IF req[x].i <= Len(nssai)
         THEN \/ CounterGet(x, nssai[req[x].i], "incPut")
              \/ "SBI" \in Faults /\ req' = [req EXCEPT ![x].i = @ + 1]
         ELSE req' = At(x, "put")
    /\ UNCHANGED <<ue, counters, sessions, amfUeNgapIDCounter, restarts>>

RegisterIncPut(x) ==
    /\ req[x].pc = "incPut"
    /\ CounterPut(x, NSSAI[req[x].supi][req[x].i], req[x].cnt + 1, "incGet")
    /\ UNCHANGED <<ue, sessions, amfUeNgapIDCounter, restarts>>

\* Store the context over whatever was there, and accept.
RegisterPut(x) ==
    LET u == req[x].supi IN
    /\ req[x].pc = "put"
    /\ \/ /\ ue' = [ue EXCEPT ![u] = [rm |-> Registered.rm, cm |-> Registered.cm,
                      gnb |-> req[x].gnb, id |-> req[x].id, nssai |-> NSSAI[u]]]
          /\ req' = Reply(x, 200)
       \/ "Put" \in Faults /\ req' = Reply(x, 500) /\ UNCHANGED ue
    /\ UNCHANGED <<counters, sessions, amfUeNgapIDCounter, restarts>>

\* The function is restarted: its counter begins again.
Restart ==
    /\ restarts < MaxRestarts
    /\ restarts' = restarts + 1
    /\ amfUeNgapIDCounter' = 0
    /\ req' = [x \in Reqs |-> IF Runs(x) /\ req[x].kind = "register"
                                THEN [req[x] EXCEPT !.pc = "done"] ELSE req[x]]
    /\ UNCHANGED <<ue, counters, sessions>>

-----------------------------------------------------------------------------
(* The handlers that begin with the context: any error of the Get is 404,  *)
(* and a context they cannot serve is a conflict.                          *)

Keep(x, ctx, next) == req' = [req EXCEPT ![x].ctx = ctx, ![x].pc = next]

ContextOf(x) == ue[req[x].supi]
ReadContext(x, from, conflict, next) ==
    /\ req[x].pc = from
    /\ \/ ContextOf(x) = NoContext /\ req' = Reply(x, 404)
       \/ /\ ContextOf(x) # NoContext
          /\ IF conflict THEN req' = Reply(x, 409) ELSE Keep(x, ContextOf(x), next)
       \/ "Get" \in Faults /\ req' = Reply(x, 404)
    /\ UNCHANGED <<ue, counters, sessions, amfUeNgapIDCounter, restarts>>

\* service-request and handover write the context back as a whole.
WriteContext(x, from, new) ==
    /\ req[x].pc = from
    /\ \/ ue' = [ue EXCEPT ![req[x].supi] = new] /\ req' = Reply(x, 200)
       \/ "Put" \in Faults /\ req' = Reply(x, 500) /\ UNCHANGED ue
    /\ UNCHANGED <<counters, sessions, amfUeNgapIDCounter, restarts>>

(* amf/deregistration *)
DeregisterStart(x, u) ==
    /\ Start(x, "deregister", u, NoGnb, "dGet", 0)
    /\ UNCHANGED <<ue, counters, sessions, amfUeNgapIDCounter, restarts>>

\* Mutant of DeregisterGet: the slices of the context are not counted down.
DeregisterGetNoDec(x) == ReadContext(x, "dGet", FALSE, "dDel")

DeregisterGet(x) ==
    ReadContext(x, "dGet", FALSE, IF NSACF THEN "decGet" ELSE "dDel")

DeregisterDecGet(x) ==
    LET nssai == req[x].ctx.nssai IN
    /\ req[x].pc = "decGet"
    /\ IF req[x].i <= Len(nssai)
         THEN \/ CounterGet(x, nssai[req[x].i], "decPut")
              \/ "SBI" \in Faults /\ req' = [req EXCEPT ![x].i = @ + 1]
         ELSE req' = At(x, "dDel")
    /\ UNCHANGED <<ue, counters, sessions, amfUeNgapIDCounter, restarts>>

\* Mutant of DeregisterDecPut: nothing stops the decrement at 0.
DeregisterDecUnfloored(x) ==
    /\ req[x].pc = "decPut"
    /\ CounterPut(x, req[x].ctx.nssai[req[x].i], req[x].cnt - 1, "decGet")
    /\ UNCHANGED <<ue, sessions, amfUeNgapIDCounter, restarts>>

\* The decrement stops at 0.
DeregisterDecPut(x) ==
    LET n == req[x].cnt - 1 IN
    /\ req[x].pc = "decPut"
    /\ CounterPut(x, req[x].ctx.nssai[req[x].i], IF n < 0 THEN 0 ELSE n, "decGet")
    /\ UNCHANGED <<ue, sessions, amfUeNgapIDCounter, restarts>>

DeregisterDelete(x) ==
    /\ req[x].pc = "dDel"
    /\ \/ ue' = [ue EXCEPT ![req[x].supi] = NoContext] /\ req' = Reply(x, 200)
       \/ "Delete" \in Faults /\ req' = Reply(x, 500) /\ UNCHANGED ue
    /\ UNCHANGED <<counters, sessions, amfUeNgapIDCounter, restarts>>

(* amf/service-request *)
ServiceStart(x, u) ==
    /\ Start(x, "service", u, NoGnb, "sGet", 0)
    /\ UNCHANGED <<ue, counters, sessions, amfUeNgapIDCounter, restarts>>

\* Mutant of ServiceGet: a UE without a context gets a new one.
ServiceGetUpsert(x) ==
    /\ req[x].pc = "sGet"
    /\ \E g \in Gnbs :
          Keep(x, [rm |-> "REGISTERED", cm |-> "IDLE", gnb |-> g, id |-> 1,
                   nssai |-> NSSAI[req[x].supi]], "sPut")
    /\ UNCHANGED <<ue, counters, sessions, amfUeNgapIDCounter, restarts>>

ServiceGet(x) ==
    ReadContext(x, "sGet", ContextOf(x).rm # "REGISTERED", "sPut")

\* Mutant of ServicePut: the context takes the gNB the request came through.
ServicePutGnb(x) ==
    \E g \in Gnbs :
       WriteContext(x, "sPut", [req[x].ctx EXCEPT !.cm = "CONNECTED", !.gnb = g])

ServicePut(x) == WriteContext(x, "sPut", [req[x].ctx EXCEPT !.cm = "CONNECTED"])

(* amf/handover *)
HandoverStart(x, u, g) ==
    /\ Start(x, "handover", u, g, "hGet", 0)
    /\ UNCHANGED <<ue, counters, sessions, amfUeNgapIDCounter, restarts>>

HandoverGet(x) ==
    ReadContext(x, "hGet",
                ContextOf(x).rm # "REGISTERED" \/ ContextOf(x).cm # "CONNECTED", "hPut")

HandoverPut(x) == WriteContext(x, "hPut", [req[x].ctx EXCEPT !.gnb = req[x].gnb])

(* amf/pdu-session-relay *)
RelayStart(x, u) ==
    /\ Start(x, "relay", u, NoGnb, "lGet", 0)
    /\ UNCHANGED <<ue, counters, sessions, amfUeNgapIDCounter, restarts>>

\* Mutant of RelayGet: a UE without a context is not turned away.
RelayGetUnchecked(x) ==
    /\ req[x].pc = "lGet"
    /\ req' = At(x, "lCall")
    /\ UNCHANGED <<ue, counters, sessions, amfUeNgapIDCounter, restarts>>

RelayGet(x) ==
    ReadContext(x, "lGet", ContextOf(x).rm # "REGISTERED", "lCall")

\* Nsmf_PDUSession_CreateSMContext; its reply may be lost after it succeeded.
RelayCall(x) ==
    /\ req[x].pc = "lCall"
    /\ \/ sessions' = sessions \cup {x} /\ req' = Reply(x, 200)
       \/ "SBI" \in Faults /\ sessions' \in {sessions, sessions \cup {x}} /\ req' = Reply(x, 502)
    /\ UNCHANGED <<ue, counters, amfUeNgapIDCounter, restarts>>

-----------------------------------------------------------------------------
Arrive(x) == \E u \in Supis :
    \/ DeregisterStart(x, u) \/ ServiceStart(x, u) \/ RelayStart(x, u)
    \/ \E g \in Gnbs : RegisterStart(x, u, g) \/ HandoverStart(x, u, g)

Step(x) ==
    \/ RegisterAuth(x) \/ RegisterSubscription(x) \/ RegisterCheck(x)
    \/ RegisterIncGet(x) \/ RegisterIncPut(x) \/ RegisterPut(x)
    \/ DeregisterGet(x) \/ DeregisterDecGet(x) \/ DeregisterDecPut(x) \/ DeregisterDelete(x)
    \/ ServiceGet(x) \/ ServicePut(x) \/ HandoverGet(x) \/ HandoverPut(x)
    \/ RelayGet(x) \/ RelayCall(x)

(* History: what makes a slice's counter drift from the contexts.  An       *)
(* update is lost, or based on a value that is no longer stored; a call is  *)
(* skipped; a registration counts a UE that is counted already, or counts   *)
(* one and then stores no context; a deregistration fails at the delete.    *)
SliceOf(x) == NSSAI[req[x].supi][req[x].i]
Drifts(x, s) ==
    \/ /\ req[x].pc \in {"incPut", "decPut"} /\ req'[x].pc # req[x].pc /\ SliceOf(x) = s
       /\ req[x].cnt # counters[s] \/ counters' = counters
    \/ /\ req[x].pc \in {"incGet", "decGet"} /\ req'[x].pc = req[x].pc
       /\ req'[x].i # req[x].i /\ SliceOf(x) = s
    \/ req[x].pc = "put" /\ req'[x].code = 200 /\ Stored(req[x].supi)
    \/ /\ req[x].pc \in {"incGet", "incPut", "put", "dDel"}
       /\ req'[x].pc = "done" /\ req'[x].code # 200

Next ==
    /\ Restart \/ \E x \in Reqs : Arrive(x) \/ Step(x)
    /\ drifted' = drifted \cup {s \in Slices : \E x \in Reqs : Drifts(x, s)}

Spec == Init /\ [][Next]_vars

-----------------------------------------------------------------------------
(* What makes the AMF's handling of contexts correct.                      *)

(* A context appears only when a registration stores it: no other handler  *)
(* that read the context before a deregistration writes it back after      *)
(* ("Verify UE context is gone", test/integration/registration_test.go).   *)
OnlyRegistrationAdmits ==
    [][\A u \in Supis : ~Stored(u) /\ ue'[u] # NoContext =>
          \E x \in Reqs : /\ req[x].pc = "put" /\ req[x].supi = u
                          /\ req'[x].code = 200]_vars

(* A UE that stays registered changes its gNB by handover or registration  *)
(* only: a service request does not write back the gNB it read before.     *)
OnlyHandoverMoves ==
    [][\A u \in Supis : Stored(u) /\ ue'[u] # NoContext /\ ue'[u].gnb # ue[u].gnb =>
          \E x \in Reqs : /\ req[x].pc \in {"put", "hPut"} /\ req[x].supi = u
                          /\ req[x].gnb = ue'[u].gnb /\ req'[x].code = 200]_vars

(* A PDU session is created for a UE that has a context at that moment:    *)
(* the relay's check still holds when the SMF is called.                   *)
RelayedRegistered ==
    [][\A x \in sessions' \ sessions : Stored(req[x].supi)]_vars

(* Once nothing runs, a slice counts exactly the UEs whose context lists   *)
(* it: "SliceCounters tracks current UE/session counts per S-NSSAI"        *)
(* (pkg/models/types.go); it goes wrong in the ways of Drifts only.        *)
Lists(u, s) == Stored(u) /\ \E i \in DOMAIN ue[u].nssai : ue[u].nssai[i] = s
CountersExact ==
    NSACF /\ (\A x \in Reqs : ~Runs(x)) =>
        \A s \in Slices \ drifted :
           counters[s] = Cardinality({u \in Supis : Lists(u, s)})

(* Two UEs never have the same AMF-UE-NGAP-ID (TS 38.413 section 9.3.3.1,  *)
(* quoted where registration allocates it), unless the function restarts.  *)
NgapIDsUnique ==
    restarts = 0 =>
      \A u, v \in Supis : u # v /\ Stored(u) /\ Stored(v) => ue[u].id # ue[v].id
=============================================================================
