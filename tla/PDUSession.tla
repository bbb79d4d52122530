----------------------------- MODULE PDUSession -----------------------------
(***************************************************************************)
(* The PDU session life cycle of the serverless SMF: the three OpenFaaS    *)
(* handlers                                                                *)
(*     functions/smf/pdu-session-create                                    *)
(*     functions/smf/pdu-session-update                                    *)
(*     functions/smf/pdu-session-release                                   *)
(* and what they share: the Redis records "pdu-sessions/<id>" and          *)
(* "ip-pool/allocated/<ip>", the UPF reached over PFCP, the binding,       *)
(* charging and slice-counter records kept by BSF, CHF and NSACF, and the  *)
(* in-memory IP cursor, pool mutex and SEID counter of every replica of    *)
(* the create function.                                                    *)
(*                                                                         *)
(* A handler invocation is a process.  Each of its steps contains one      *)
(* access to state that another invocation can see (one Redis command, one *)
(* PFCP message, one call of another function); what it does between two   *)
(* such accesses is local and belongs to the step.  An invocation serves   *)
(* one request and stops.                                                  *)
(***************************************************************************)
EXTENDS Integers, FiniteSets

CONSTANTS
    Replicas,       \* the running instances of pdu-session-create
    Creates,        \* the create requests, each one an invocation
    Ops,            \* the update and release requests
    Supis,          \* subscribers
    QoS,            \* QoS values an update may ask for; 0 is the policy's
    MaxSubnet,      \* last third octet of the pool (255 in the code)
    MaxHost,        \* last fourth octet of the pool (254 in the code)
    MaxSEID,        \* bound on the SEIDs one replica may hand out
    MaxRestarts,    \* bound on replica restarts
    MaxSessions,    \* the slice's MaxSessions in the NSACF policy
    Features,       \* what is wired: "SBI", "PFCP", "NSACF", "BSF", "CHARGING"
    Faults,         \* what may fail: see FaultKinds
    SerialClients,  \* TRUE iff requests on one session never overlap
    None            \* no create: a free mutex, an empty identifier

(***************************************************************************)
(* "Get", "Put" and "Delete" are Redis commands returning an error that is *)
(* not "key not found"; "PFCP" is a PFCP client error and "Loss" a PFCP    *)
(* datagram that is sent and lost; "SBI" is a failed CallFunction and      *)
(* "Crash" the end of an update or release invocation half way.            *)
(***************************************************************************)
FeatureKinds == {"SBI", "PFCP", "NSACF", "BSF", "CHARGING"}
FaultKinds == {"Get", "Put", "Delete", "PFCP", "Loss", "SBI", "Crash"}

ASSUME ConstantsAssumption ==
    /\ MaxSubnet \in Nat
    /\ MaxHost \in Nat \ {0}
    /\ MaxSEID \in Nat
    /\ MaxRestarts \in Nat
    /\ MaxSessions \in Nat
    /\ QoS \subseteq Nat \ {0}
    /\ Features \subseteq FeatureKinds
    /\ Faults \subseteq FaultKinds
    /\ SerialClients \in BOOLEAN
    /\ None \notin Creates

-----------------------------------------------------------------------------
(* The address pool, and the records the handlers exchange.                *)

IPs == (0 .. MaxSubnet) \X (1 .. MaxHost)
FirstIP == <<0, 1>>
PoolSize == (MaxSubnet + 1) * MaxHost
NoIP == <<0, 0>>

\* Mutant of NextIP: the third octet never wraps.
NextIPUnwrapped(a) ==
    IF a[2] + 1 > MaxHost THEN <<a[1] + 1, 1>> ELSE <<a[1], a[2] + 1>>

\* The cursor: ipPoolHost++, carried into ipPoolSubnet, which wraps to 0.
NextIP(a) ==
    IF a[2] + 1 > MaxHost
      THEN <<IF a[1] + 1 > MaxSubnet THEN 0 ELSE a[1] + 1, 1>>
      ELSE <<a[1], a[2] + 1>>

SEIDs == 1 .. MaxSEID

\* "pdu-<supi>-<seid>"; extractSEID reads the SEID back from the name.
SessionIDs == Supis \X SEIDs
extractSEID(sid) == sid[2]

\* models.PDUSession.  A binding or charging identifier is the create that
\* asked for it; None is the empty string of a field never filled in.
Session == [ip : IPs \cup {NoIP}, qos : Nat,
            bsf : Creates \cup {None}, chg : Creates \cup {None}]
NoSession == [ip |-> NoIP, qos |-> 0, bsf |-> None, chg |-> None]

\* What the UPF keeps for an SEID.
Forwarding == [ip : IPs \cup {NoIP}, qos : Nat]
NoForwarding == [ip |-> NoIP, qos |-> 0]

VARIABLES
    sessions,    \* Redis "pdu-sessions/<id>", NoSession where there is no key
    allocated,   \* the addresses with a Redis key "ip-pool/allocated/<ip>"
    upf,         \* the UPF's sessions, by SEID
    bindings,    \* BSF bindings
    charging,    \* CHF charging sessions
    sliceCount,  \* CurrentSessions of the slice's NSACF counters
    cursor,      \* ipPoolSubnet, ipPoolHost of each replica
    ipPoolMu,    \* the create that holds each replica's pool mutex
    seidCounter, \* each replica's SEID counter
    restarts,    \* restarts so far
    cr,          \* the create invocations
    op           \* the update and release invocations

redisVars == <<sessions, allocated>>
nfVars == <<bindings, charging, sliceCount>>
poolVars == <<cursor, ipPoolMu>>
replicaVars == <<cursor, ipPoolMu, seidCounter>>
vars == <<sessions, allocated, upf, bindings, charging, sliceCount,
          cursor, ipPoolMu, seidCounter, restarts, cr, op>>

CreatePC == {"idle", "pcf", "check", "lock", "poolGet", "poolPut", "n4",
             "store", "undo", "bsf", "bsfPut", "chf", "chfPut",
             "incGet", "incPut", "done", "crashed"}
OpPC == {"idle", "uGet", "uN4", "uPut", "rGet", "rN4", "rIP", "rChf", "rBsf",
         "rDecGet", "rDecPut", "rDel", "done", "crashed"}
Codes == {0, 200, 201, 403, 404, 500}

CreateState == [pc : CreatePC, code : Codes, rep : Replicas \cup {None},
                supi : Supis \cup {None}, ip : IPs \cup {NoIP},
                seid : Nat, bsf : Creates \cup {None},
                chg : Creates \cup {None}, tries : Nat, cnt : Nat]
IdleCreate == [pc |-> "idle", code |-> 0, rep |-> None, supi |-> None,
               ip |-> NoIP, seid |-> 0, bsf |-> None, chg |-> None,
               tries |-> 0, cnt |-> 0]

\* qos is what an update asks for, and 0 in a release.
OpState == [pc : OpPC, code : Codes, sid : SessionIDs \cup {None}, qos : Nat,
            rec : Session, cnt : Nat]
IdleOp == [pc |-> "idle", code |-> 0, sid |-> None, qos |-> 0,
           rec |-> NoSession, cnt |-> 0]

TypeOK ==
    /\ sessions \in [SessionIDs -> Session]
    /\ allocated \in SUBSET IPs
    /\ upf \in [SEIDs -> Forwarding]
    /\ bindings \in SUBSET Creates
    /\ charging \in SUBSET Creates
    /\ sliceCount \in Nat
    /\ cursor \in [Replicas -> IPs]
    /\ ipPoolMu \in [Replicas -> Creates \cup {None}]
    /\ seidCounter \in [Replicas -> 0 .. MaxSEID]
    /\ restarts \in 0 .. MaxRestarts
    /\ cr \in [Creates -> CreateState]
    /\ op \in [Ops -> OpState]

Init ==
    /\ sessions = [s \in SessionIDs |-> NoSession]
    /\ allocated = {}
    /\ upf = [n \in SEIDs |-> NoForwarding]
    /\ bindings = {}
    /\ charging = {}
    /\ sliceCount = 0
    /\ cursor = [r \in Replicas |-> FirstIP]
    /\ ipPoolMu = [r \in Replicas |-> None]
    /\ seidCounter = [r \in Replicas |-> 0]
    /\ restarts = 0
    /\ cr = [c \in Creates |-> IdleCreate]
    /\ op = [x \in Ops |-> IdleOp]

-----------------------------------------------------------------------------
(* The SBI client.  CallFunction turns every status of 400 or more into an *)
(* error; the reply's body is decoded only on success.                     *)

CallOK(status) == status < 400

\* nsacf-slice-availability-check: 403 when the counter has reached MaxSessions.
CheckStatus(count) == IF count >= MaxSessions THEN 403 ELSE 200

\* pcf-policy-create: a policy that cannot be read is replaced by a default,
\* and nobody looks at the error of storing the decision.
PolicyStatus == 201

\* nsacf-update-counters: the decrement stops at 0.
Decrement(n) == IF n - 1 < 0 THEN 0 ELSE n - 1

-----------------------------------------------------------------------------
(* The PFCP client: what each request, when it arrives, makes of the UPF's *)
(* sessions.  Nobody waits for a response.                                 *)

EstablishSession(n, a) == [upf EXCEPT ![n] = [ip |-> a, qos |-> 0]]
ModifySession(n, q) ==
    IF upf[n] = NoForwarding THEN upf ELSE [upf EXCEPT ![n].qos = q]
DeleteSession(n) == [upf EXCEPT ![n] = NoForwarding]

-----------------------------------------------------------------------------
(* pdu-session-create                                                      *)

sidOf(c) == <<cr[c].supi, cr[c].seid>>

\* The record a create writes: it writes it again when BSF and CHF answered.
record(c) == [ip |-> cr[c].ip, qos |-> 0, bsf |-> cr[c].bsf, chg |-> cr[c].chg]

Wired(f) == "SBI" \in Features /\ f \in Features

\* The steps that follow the store, the BSF and the CHF calls.
AfterCharging == IF Wired("NSACF") THEN "incGet" ELSE "done"
AfterBinding == IF Wired("CHARGING") THEN "chf" ELSE AfterCharging
AfterStore == IF Wired("BSF") THEN "bsf" ELSE AfterBinding

\* Go on at step p; the create that gets to the end answers 201.
Go(c, p) == [cr[c] EXCEPT !.pc = p, !.code = IF p = "done" THEN 201 ELSE 0]
Fail(c, code) == [cr[c] EXCEPT !.pc = "done", !.code = code]

CreateStart(c, r, u) ==
    /\ cr[c].pc = "idle"
    /\ cr' = [cr EXCEPT ![c] = [@ EXCEPT !.rep = r, !.supi = u,
                !.pc = IF "SBI" \in Features THEN "pcf" ELSE "lock"]]
    /\ UNCHANGED <<redisVars, upf, nfVars, replicaVars, restarts, op>>

\* Npcf_SMPolicyControl_Create: its failure ends the request.
CreatePolicy(c) ==
    /\ cr[c].pc = "pcf"
    /\ \/ /\ CallOK(PolicyStatus)
          /\ cr' = [cr EXCEPT ![c] =
                      Go(c, IF "NSACF" \in Features THEN "check" ELSE "lock")]
       \/ "SBI" \in Faults /\ cr' = [cr EXCEPT ![c] = Fail(c, 500)]
    /\ UNCHANGED <<redisVars, upf, nfVars, replicaVars, restarts, op>>

\* The admission check: refused only on a reply that is no error and says no.
CreateCheck(c) ==
    /\ cr[c].pc = "check"
    /\ \/ LET status == CheckStatus(sliceCount) IN
            cr' = [cr EXCEPT ![c] = IF CallOK(status) /\ status = 403
                                      THEN Fail(c, 403)
                                      ELSE Go(c, "lock")]
       \/ "SBI" \in Faults /\ cr' = [cr EXCEPT ![c] = Go(c, "lock")]
    /\ UNCHANGED <<redisVars, upf, nfVars, replicaVars, restarts, op>>

\* Mutant of PoolLock: allocateIP takes no mutex.
PoolLockFree(c) ==
    /\ cr[c].pc = "lock"
    /\ ipPoolMu' = [ipPoolMu EXCEPT ![cr[c].rep] = c]
    /\ cr' = [cr EXCEPT ![c] = Go(c, "poolGet")]
    /\ UNCHANGED <<redisVars, upf, nfVars, cursor, seidCounter, restarts, op>>

\* allocateIP: the mutex of this replica is held from here to PoolPut.
PoolLock(c) ==
    /\ cr[c].pc = "lock"
    /\ ipPoolMu[cr[c].rep] = None
    /\ ipPoolMu' = [ipPoolMu EXCEPT ![cr[c].rep] = c]
    /\ cr' = [cr EXCEPT ![c] = Go(c, "poolGet")]
    /\ UNCHANGED <<redisVars, upf, nfVars, cursor, seidCounter, restarts, op>>

\* Mutant of PoolGetFree: the cursor is trusted and the key not looked at.
PoolGetUnchecked(c) ==
    LET r == cr[c].rep IN
    /\ cr[c].pc = "poolGet"
    /\ cr' = [cr EXCEPT ![c] = [Go(c, "poolPut") EXCEPT !.ip = cursor[r]]]
    /\ cursor' = [cursor EXCEPT ![r] = NextIP(@)]
    /\ UNCHANGED <<redisVars, upf, nfVars, ipPoolMu, seidCounter, restarts, op>>

\* The key is not there, or Redis failed: either way the address is taken.
PoolGetFree(c) ==
    LET r == cr[c].rep IN
    /\ cr[c].pc = "poolGet"
    /\ cursor[r] \notin allocated \/ "Get" \in Faults
    /\ cr' = [cr EXCEPT ![c] = [Go(c, "poolPut") EXCEPT !.ip = cursor[r]]]
    /\ cursor' = [cursor EXCEPT ![r] = NextIP(@)]
    /\ UNCHANGED <<redisVars, upf, nfVars, ipPoolMu, seidCounter, restarts, op>>

\* The key is there: try the next address, PoolSize times at most.
PoolGetTaken(c) ==
    LET r == cr[c].rep IN
    /\ cr[c].pc = "poolGet"
    /\ cursor[r] \in allocated
    /\ cursor' = [cursor EXCEPT ![r] = NextIP(@)]
    /\ IF cr[c].tries + 1 < PoolSize
         THEN /\ cr' = [cr EXCEPT ![c].tries = @ + 1]
              /\ UNCHANGED ipPoolMu
         ELSE /\ cr' = [cr EXCEPT ![c] = Fail(c, 500)]
              /\ ipPoolMu' = [ipPoolMu EXCEPT ![r] = None]
    /\ UNCHANGED <<redisVars, upf, nfVars, seidCounter, restarts, op>>

\* Mutant of PoolPut: the error return leaves the mutex locked.
PoolPutNoUnlock(c) ==
    /\ cr[c].pc = "poolPut"
    /\ \/ /\ allocated' = allocated \cup {cr[c].ip}
          /\ ipPoolMu' = [ipPoolMu EXCEPT ![cr[c].rep] = None]
          /\ cr' = [cr EXCEPT ![c] = Go(c, "n4")]
       \/ /\ "Put" \in Faults
          /\ cr' = [cr EXCEPT ![c] = Fail(c, 500)]
          /\ UNCHANGED <<allocated, ipPoolMu>>
    /\ UNCHANGED <<sessions, upf, nfVars, cursor, seidCounter, restarts, op>>

\* Record the allocation and unlock.
PoolPut(c) ==
    /\ cr[c].pc = "poolPut"
    /\ ipPoolMu' = [ipPoolMu EXCEPT ![cr[c].rep] = None]
    /\ \/ /\ allocated' = allocated \cup {cr[c].ip}
          /\ cr' = [cr EXCEPT ![c] = Go(c, "n4")]
       \/ /\ "Put" \in Faults
          /\ cr' = [cr EXCEPT ![c] = Fail(c, 500)]
          /\ UNCHANGED allocated
    /\ UNCHANGED <<sessions, upf, nfVars, cursor, seidCounter, restarts, op>>

\* Mutant of CreateN4: the SEID counter is read and not advanced.
CreateN4SameSEID(c) ==
    /\ cr[c].pc = "n4"
    /\ cr' = [cr EXCEPT ![c] = [Go(c, "store") EXCEPT !.seid = seidCounter[cr[c].rep] + 1]]
    /\ UNCHANGED <<redisVars, upf, nfVars, replicaVars, restarts, op>>

\* nextSEID, then the PFCP establishment; when that fails the address is undone.
CreateN4(c) ==
    LET r == cr[c].rep
        n == seidCounter[r] + 1
    IN
    /\ cr[c].pc = "n4"
    /\ n <= MaxSEID
    /\ seidCounter' = [seidCounter EXCEPT ![r] = n]
    /\ \/ /\ cr' = [cr EXCEPT ![c] = [Go(c, "store") EXCEPT !.seid = n]]
          /\ \/ /\ "PFCP" \in Features
                /\ upf' = EstablishSession(n, cr[c].ip)
             \/ /\ "PFCP" \notin Features \/ "Loss" \in Faults
                /\ UNCHANGED upf
       \/ /\ "PFCP" \in Features \cap Faults
          /\ cr' = [cr EXCEPT ![c] = [Go(c, "undo") EXCEPT !.seid = n]]
          /\ UNCHANGED upf
    /\ UNCHANGED <<redisVars, nfVars, poolVars, restarts, op>>

\* Mutant of CreateStore: the error return forgets to release the address.
CreateStoreNoUndo(c) ==
    /\ cr[c].pc = "store"
    /\ \/ /\ sessions' = [sessions EXCEPT ![sidOf(c)] = record(c)]
          /\ cr' = [cr EXCEPT ![c] = Go(c, AfterStore)]
       \/ /\ "Put" \in Faults
          /\ cr' = [cr EXCEPT ![c] = Fail(c, 500)]
          /\ UNCHANGED sessions
    /\ UNCHANGED <<allocated, upf, nfVars, replicaVars, restarts, op>>

\* Store the session record; when that fails the address is undone.
CreateStore(c) ==
    /\ cr[c].pc = "store"
    /\ \/ /\ sessions' = [sessions EXCEPT ![sidOf(c)] = record(c)]
          /\ cr' = [cr EXCEPT ![c] = Go(c, AfterStore)]
       \/ /\ "Put" \in Faults
          /\ cr' = [cr EXCEPT ![c] = Go(c, "undo")]
          /\ UNCHANGED sessions
    /\ UNCHANGED <<allocated, upf, nfVars, replicaVars, restarts, op>>

\* releaseIP ignores the store's error; the request has failed anyway.
CreateUndo(c) ==
    /\ cr[c].pc = "undo"
    /\ \/ allocated' = allocated \ {cr[c].ip}
       \/ "Delete" \in Faults /\ UNCHANGED allocated
    /\ cr' = [cr EXCEPT ![c] = Fail(c, 500)]
    /\ UNCHANGED <<sessions, upf, nfVars, replicaVars, restarts, op>>

\* Register a BSF binding; a failed call, or a lost reply, is ignored.
CreateBind(c) ==
    /\ cr[c].pc = "bsf"
    /\ \/ /\ bindings' = bindings \cup {c}
          /\ cr' = [cr EXCEPT ![c] = [Go(c, "bsfPut") EXCEPT !.bsf = c]]
       \/ /\ "SBI" \in Faults
          /\ cr' = [cr EXCEPT ![c] = Go(c, AfterBinding)]
          /\ bindings' \in {bindings, bindings \cup {c}}
    /\ UNCHANGED <<redisVars, upf, charging, sliceCount, replicaVars, restarts, op>>

\* Mutant of CreateBindPut: the binding identifier is not written back.
CreateBindNoPut(c) ==
    /\ cr[c].pc = "bsfPut"
    /\ cr' = [cr EXCEPT ![c] = [Go(c, AfterBinding) EXCEPT !.bsf = None]]
    /\ UNCHANGED <<redisVars, upf, nfVars, replicaVars, restarts, op>>

\* Write the record again with the binding identifier, ignoring errors.
CreateBindPut(c) ==
    /\ cr[c].pc = "bsfPut"
    /\ \/ sessions' = [sessions EXCEPT ![sidOf(c)] = record(c)]
       \/ "Put" \in Faults /\ UNCHANGED sessions
    /\ cr' = [cr EXCEPT ![c] = Go(c, AfterBinding)]
    /\ UNCHANGED <<allocated, upf, nfVars, replicaVars, restarts, op>>

\* Open a CHF charging session; a failed call, or a lost reply, is ignored.
CreateCharge(c) ==
    /\ cr[c].pc = "chf"
    /\ \/ /\ charging' = charging \cup {c}
          /\ cr' = [cr EXCEPT ![c] = [Go(c, "chfPut") EXCEPT !.chg = c]]
       \/ /\ "SBI" \in Faults
          /\ cr' = [cr EXCEPT ![c] = Go(c, AfterCharging)]
          /\ charging' \in {charging, charging \cup {c}}
    /\ UNCHANGED <<redisVars, upf, bindings, sliceCount, replicaVars, restarts, op>>

\* Write the record again with the charging identifier, ignoring errors.
CreateChargePut(c) ==
    /\ cr[c].pc = "chfPut"
    /\ \/ sessions' = [sessions EXCEPT ![sidOf(c)] = record(c)]
       \/ "Put" \in Faults /\ UNCHANGED sessions
    /\ cr' = [cr EXCEPT ![c] = Go(c, AfterCharging)]
    /\ UNCHANGED <<allocated, upf, nfVars, replicaVars, restarts, op>>

\* nsacf-update-counters INCREMENT reads the counter, 0 when Redis fails; a
\* call that does not get there is ignored, and the request answers 201.
CreateIncGet(c) ==
    /\ cr[c].pc = "incGet"
    /\ \/ cr' = [cr EXCEPT ![c] = [Go(c, "incPut") EXCEPT !.cnt = sliceCount]]
       \/ "Get" \in Faults /\ cr' = [cr EXCEPT ![c] = [Go(c, "incPut") EXCEPT !.cnt = 0]]
       \/ "SBI" \in Faults /\ cr' = [cr EXCEPT ![c] = Go(c, "done")]
    /\ UNCHANGED <<redisVars, upf, nfVars, replicaVars, restarts, op>>

\* ... and writes it back, one higher.
CreateIncPut(c) ==
    /\ cr[c].pc = "incPut"
    /\ \/ sliceCount' = cr[c].cnt + 1
       \/ "Put" \in Faults /\ UNCHANGED sliceCount
    /\ cr' = [cr EXCEPT ![c] = Go(c, "done")]
    /\ UNCHANGED <<redisVars, upf, bindings, charging, replicaVars, restarts, op>>

CreateStep(c) ==
    \/ CreatePolicy(c) \/ CreateCheck(c)
    \/ PoolLock(c) \/ PoolGetFree(c) \/ PoolGetTaken(c) \/ PoolPut(c)
    \/ CreateN4(c) \/ CreateStore(c) \/ CreateUndo(c)
    \/ CreateBind(c) \/ CreateBindPut(c)
    \/ CreateCharge(c) \/ CreateChargePut(c)
    \/ CreateIncGet(c) \/ CreateIncPut(c)

CreateRuns(c) == cr[c].pc \notin {"idle", "done", "crashed"}

(* A replica is restarted, or scaled to zero and back: the counters and the *)
(* mutex are those of a fresh process, and the requests it was serving die. *)
Restart(r) ==
    /\ restarts < MaxRestarts
    /\ restarts' = restarts + 1
    /\ cursor' = [cursor EXCEPT ![r] = FirstIP]
    /\ ipPoolMu' = [ipPoolMu EXCEPT ![r] = None]
    /\ seidCounter' = [seidCounter EXCEPT ![r] = 0]
    /\ cr' = [c \in Creates |-> IF cr[c].rep = r /\ CreateRuns(c)
                                  THEN [cr[c] EXCEPT !.pc = "crashed"]
                                  ELSE cr[c]]
    /\ UNCHANGED <<redisVars, upf, nfVars, op>>

-----------------------------------------------------------------------------
(* pdu-session-update and pdu-session-release                              *)

OpRuns(x) == op[x].pc \notin {"idle", "done", "crashed"}

\* A client names a session that a 201 response gave it.
Issued == {sidOf(c) : c \in {d \in Creates : cr[d].code = 201}}
Busy(s) == \E x \in Ops : OpRuns(x) /\ op[x].sid = s

OpGo(x, p) == [op EXCEPT ![x].pc = p]
Reply(x, code) == [op EXCEPT ![x].pc = "done", ![x].code = code]

\* Mutant of OpGet: a missing record is not answered 404.
OpGetNo404(x, from, to) ==
    LET rec == sessions[op[x].sid] IN
    /\ op[x].pc = from
    /\ op' = [op EXCEPT ![x].pc = to, ![x].rec =
                IF op[x].qos = 0 THEN rec ELSE [rec EXCEPT !.qos = op[x].qos]]
    /\ UNCHANGED <<redisVars, upf, nfVars, replicaVars, restarts, cr>>

\* Fetch the record: 404 when there is none, 500 when Redis fails.
OpGet(x, from, to) ==
    LET rec == sessions[op[x].sid] IN
    /\ op[x].pc = from
    /\ \/ /\ rec = NoSession
          /\ op' = Reply(x, 404)
       \/ /\ rec # NoSession
          /\ op' = [op EXCEPT ![x].pc = to, ![x].rec =
                      IF op[x].qos = 0 THEN rec ELSE [rec EXCEPT !.qos = op[x].qos]]
       \/ "Get" \in Faults /\ op' = Reply(x, 500)
    /\ UNCHANGED <<redisVars, upf, nfVars, replicaVars, restarts, cr>>

UpdateStart(x, s, q) ==
    /\ op[x].pc = "idle"
    /\ SerialClients => ~Busy(s)
    /\ op' = [op EXCEPT ![x].pc = "uGet", ![x].sid = s, ![x].qos = q]
    /\ UNCHANGED <<redisVars, upf, nfVars, replicaVars, restarts, cr>>

UpdateGet(x) == OpGet(x, "uGet", IF "PFCP" \in Features THEN "uN4" ELSE "uPut")

\* Mutant of UpdateN4: the record is stored before the UPF has agreed.
UpdateN4StoredFirst(x) ==
    /\ op[x].pc = "uN4"
    /\ sessions' = [sessions EXCEPT ![op[x].sid] = op[x].rec]
    /\ \/ /\ upf' = ModifySession(extractSEID(op[x].sid), op[x].rec.qos)
          /\ op' = OpGo(x, "uPut")
       \/ "PFCP" \in Faults /\ op' = Reply(x, 500) /\ UNCHANGED upf
    /\ UNCHANGED <<allocated, nfVars, replicaVars, restarts, cr>>

\* PFCP Session Modification; the UPF ignores an SEID it does not know.
UpdateN4(x) ==
    /\ op[x].pc = "uN4"
    /\ \/ /\ upf' = ModifySession(extractSEID(op[x].sid), op[x].rec.qos)
          /\ op' = OpGo(x, "uPut")
       \/ "Loss" \in Faults /\ op' = OpGo(x, "uPut") /\ UNCHANGED upf
       \/ "PFCP" \in Faults /\ op' = Reply(x, 500) /\ UNCHANGED upf
    /\ UNCHANGED <<redisVars, nfVars, replicaVars, restarts, cr>>

UpdatePut(x) ==
    /\ op[x].pc = "uPut"
    /\ \/ /\ sessions' = [sessions EXCEPT ![op[x].sid] = op[x].rec]
          /\ op' = Reply(x, 200)
       \/ "Put" \in Faults /\ op' = Reply(x, 500) /\ UNCHANGED sessions
    /\ UNCHANGED <<allocated, upf, nfVars, replicaVars, restarts, cr>>

ReleaseStart(x, s) ==
    /\ op[x].pc = "idle"
    /\ SerialClients => ~Busy(s)
    /\ op' = [op EXCEPT ![x].pc = "rGet", ![x].sid = s]
    /\ UNCHANGED <<redisVars, upf, nfVars, replicaVars, restarts, cr>>

ReleaseGet(x) == OpGet(x, "rGet", IF "PFCP" \in Features THEN "rN4" ELSE "rIP")

\* Mutant of ReleaseN4: the address is freed before the UPF has agreed.
ReleaseN4FreesFirst(x) ==
    /\ op[x].pc = "rN4"
    /\ allocated' = allocated \ {op[x].rec.ip}
    /\ \/ /\ upf' = DeleteSession(extractSEID(op[x].sid))
          /\ op' = OpGo(x, "rIP")
       \/ "PFCP" \in Faults /\ op' = Reply(x, 500) /\ UNCHANGED upf
    /\ UNCHANGED <<sessions, nfVars, replicaVars, restarts, cr>>

\* PFCP Session Deletion: its error ends the request, and nothing is released.
ReleaseN4(x) ==
    /\ op[x].pc = "rN4"
    /\ \/ /\ upf' = DeleteSession(extractSEID(op[x].sid))
          /\ op' = OpGo(x, "rIP")
       \/ "Loss" \in Faults /\ op' = OpGo(x, "rIP") /\ UNCHANGED upf
       \/ "PFCP" \in Faults /\ op' = Reply(x, 500) /\ UNCHANGED upf
    /\ UNCHANGED <<redisVars, nfVars, replicaVars, restarts, cr>>

\* The steps that follow the release of the address, of charging, of binding.
AfterUnbind == IF Wired("NSACF") THEN "rDecGet" ELSE "rDel"
AfterUncharge == IF Wired("BSF") THEN "rBsf" ELSE AfterUnbind
AfterFree == IF Wired("CHARGING") THEN "rChf" ELSE AfterUncharge

\* The address goes back to the pool; an error is ignored.
ReleaseIP(x) ==
    /\ op[x].pc = "rIP"
    /\ \/ allocated' = allocated \ {op[x].rec.ip}
       \/ "Delete" \in Faults /\ UNCHANGED allocated
    /\ op' = OpGo(x, AfterFree)
    /\ UNCHANGED <<sessions, upf, nfVars, replicaVars, restarts, cr>>

\* Charging and binding are released when the record names them.
ReleaseCharge(x) ==
    /\ op[x].pc = "rChf"
    /\ \/ charging' = charging \ {op[x].rec.chg}
       \/ "SBI" \in Faults /\ UNCHANGED charging
    /\ op' = OpGo(x, AfterUncharge)
    /\ UNCHANGED <<redisVars, upf, bindings, sliceCount, replicaVars, restarts, cr>>

ReleaseBind(x) ==
    /\ op[x].pc = "rBsf"
    /\ \/ bindings' = bindings \ {op[x].rec.bsf}
       \/ "SBI" \in Faults /\ UNCHANGED bindings
    /\ op' = OpGo(x, AfterUnbind)
    /\ UNCHANGED <<redisVars, upf, charging, sliceCount, replicaVars, restarts, cr>>

ReleaseDecGet(x) ==
    /\ op[x].pc = "rDecGet"
    /\ \/ op' = [op EXCEPT ![x].pc = "rDecPut", ![x].cnt = sliceCount]
       \/ "Get" \in Faults /\ op' = [op EXCEPT ![x].pc = "rDecPut", ![x].cnt = 0]
       \/ "SBI" \in Faults /\ op' = OpGo(x, "rDel")
    /\ UNCHANGED <<redisVars, upf, nfVars, replicaVars, restarts, cr>>

ReleaseDecPut(x) ==
    /\ op[x].pc = "rDecPut"
    /\ \/ sliceCount' = Decrement(op[x].cnt)
       \/ "Put" \in Faults /\ UNCHANGED sliceCount
    /\ op' = OpGo(x, "rDel")
    /\ UNCHANGED <<redisVars, upf, bindings, charging, replicaVars, restarts, cr>>

\* Last of all the record itself: on an error it stays, its address released.
ReleaseDelete(x) ==
    /\ op[x].pc = "rDel"
    /\ \/ /\ sessions' = [sessions EXCEPT ![op[x].sid] = NoSession]
          /\ op' = Reply(x, 200)
       \/ "Delete" \in Faults /\ op' = Reply(x, 500) /\ UNCHANGED sessions
    /\ UNCHANGED <<allocated, upf, nfVars, replicaVars, restarts, cr>>

\* The process serving an update or a release dies.
OpCrash(x) ==
    /\ "Crash" \in Faults
    /\ OpRuns(x)
    /\ op' = OpGo(x, "crashed")
    /\ UNCHANGED <<redisVars, upf, nfVars, replicaVars, restarts, cr>>

OpStep(x) ==
    \/ UpdateGet(x) \/ UpdateN4(x) \/ UpdatePut(x)
    \/ ReleaseGet(x) \/ ReleaseN4(x) \/ ReleaseIP(x)
    \/ ReleaseCharge(x) \/ ReleaseBind(x)
    \/ ReleaseDecGet(x) \/ ReleaseDecPut(x) \/ ReleaseDelete(x)

-----------------------------------------------------------------------------
Next ==
    \/ \E c \in Creates, r \in Replicas, u \in Supis : CreateStart(c, r, u)
    \/ \E c \in Creates : CreateStep(c)
    \/ \E r \in Replicas : Restart(r)
    \/ \E x \in Ops, s \in Issued :
          ReleaseStart(x, s) \/ \E q \in QoS : UpdateStart(x, s, q)
    \/ \E x \in Ops : OpStep(x) \/ OpCrash(x)

Spec == Init /\ [][Next]_vars

(* A handler that has been started runs on: nothing in it waits for more    *)
(* than the pool mutex.  Whether a request arrives is the client's choice.  *)
FairSpec ==
    /\ Spec
    /\ \A c \in Creates : WF_vars(CreateStep(c))
    /\ \A x \in Ops : WF_vars(OpStep(x))

-----------------------------------------------------------------------------
(* What makes the life cycle correct.                                      *)

Stored(s) == sessions[s] # NoSession

\* The points of a release at which it has already freed the address.
AddressFreed == {"rChf", "rBsf", "rDecGet", "rDecPut", "rDel"}
Settled(s) == Stored(s) /\ \A x \in Ops : op[x].sid = s => op[x].pc \notin AddressFreed

\* A create that has reserved an address and not yet stored it in a record,
\* one that has, and the ones that have a session identifier.
Uncommitted == {"n4", "store", "undo"}
Committed == {"bsf", "bsfPut", "chf", "chfPut", "incGet", "incPut"}
HasRecord(c) == cr[c].pc \in Committed \/ cr[c].code = 201
Named(c) == HasRecord(c) \/ cr[c].pc \in {"store", "undo"}

\* An update or a release that holds a copy of the record.
Fetched == {"uN4", "uPut", "rN4", "rIP"} \cup AddressFreed

(* No two stored sessions have the same UE address, but for one whose      *)
(* release is under way: "tracks allocated IPs in Redis to prevent         *)
(* duplicates" (pdu-session-create/handler.go, above ipPoolMu).            *)
AddressExclusive ==
    \A s, t \in SessionIDs :
        s # t /\ Settled(s) /\ Settled(t) => sessions[s].ip # sessions[t].ip

(* The address of a stored session is marked as allocated until a release  *)
(* of that very session frees it: nobody else's rollback or release does.  *)
AddressReserved ==
    \A s \in SessionIDs : Settled(s) => sessions[s].ip \in allocated

(* Every allocated address is that of a stored session, or of a create     *)
(* that is on its way to store one or to undo the allocation: an error     *)
(* return of the create handler never loses an address of the pool.        *)
NoAddressLeak ==
    \A a \in allocated :
        \/ \E s \in SessionIDs : Settled(s) /\ sessions[s].ip = a
        \/ \E c \in Creates : cr[c].pc \in Uncommitted /\ cr[c].ip = a

(* Two answered creates never carry the same session identifier            *)
(* (pdu-session-create names sessions after its SEID counter).             *)
SessionIDsUnique ==
    \A c, d \in Creates :
        c # d /\ cr[c].code = 201 /\ cr[d].code = 201 => sidOf(c) # sidOf(d)

(* A session whose release answered 200 is not in the store: no write of a *)
(* create or an update that read it earlier brings it back.                *)
ReleasedStaysReleased ==
    \A x \in Ops : op[x].code = 200 /\ op[x].qos = 0 => ~Stored(op[x].sid)

(* The address pool is exact: what a session has is reserved, and what is  *)
(* reserved some session has or is about to get.                           *)
PoolExact == AddressReserved /\ NoAddressLeak

(***************************************************************************)
(* The life cycle as a client sees it.  A session is active from the write *)
(* of its record until a release has freed its address, and has ended from *)
(* then on; it shows the address and QoS of its record while it is active. *)
(***************************************************************************)
Ended(s) ==
    \E x \in Ops : /\ op[x].sid = s /\ op[x].qos = 0
                   /\ op[x].pc \in AddressFreed \/ op[x].code = 200

Service == INSTANCE SessionService WITH
    IDs <- SessionIDs, Addresses <- IPs, NoAddress <- NoIP,
    status <- [s \in SessionIDs |->
                 IF Settled(s) THEN "active" ELSE IF Ended(s) THEN "ended" ELSE "none"],
    address <- [s \in SessionIDs |-> IF Settled(s) THEN sessions[s].ip ELSE NoIP],
    qos <- [s \in SessionIDs |-> IF Settled(s) THEN sessions[s].qos ELSE 0]

(* The handlers implement SessionService, whatever their interleaving and  *)
(* at whichever call they fail: every Redis write and message is one of    *)
(* Establish, Modify and End of the session it is about, or not visible.   *)
ImplementsService == Service!Spec

(***************************************************************************)
(* Why the properties above hold for one replica that does not restart,    *)
(* clients that serialise their requests on a session, and a Redis that    *)
(* may refuse a write but answers reads and deletes.                       *)
(***************************************************************************)
SteadyDeployment ==
    /\ \A r1, r2 \in Replicas : r1 = r2
    /\ MaxRestarts = 0
    /\ SerialClients
    /\ Faults \cap {"Get", "Delete", "Crash"} = {}

\* An invocation that runs knows what it works on.
LocalInv ==
    /\ \A c \in Creates :
          /\ cr[c].pc # "idle" => cr[c].rep \in Replicas /\ cr[c].supi \in Supis
          /\ cr[c].pc = "poolPut" => cr[c].ip \in IPs
          /\ Named(c) => cr[c].seid \in SEIDs
          /\ cr[c].code # 0 => cr[c].pc = "done"
    /\ \A x \in Ops :
          /\ op[x].pc # "idle" => op[x].sid \in SessionIDs
          /\ op[x].pc \in {"uGet", "uN4", "uPut"} => op[x].qos # 0
          /\ op[x].code # 0 => op[x].pc = "done"

\* The create that looks for an address holds its replica's mutex, and the
\* address it has chosen is still free.
MutexInv ==
    \A c \in Creates :
        /\ cr[c].pc \in {"poolGet", "poolPut"} => ipPoolMu[cr[c].rep] = c
        /\ cr[c].pc = "poolPut" => cr[c].ip \notin allocated

\* An address reserved by a create is its own, and no session's.
ReservationInv ==
    /\ \A c \in Creates : cr[c].pc \in Uncommitted => cr[c].ip \in allocated
    /\ \A c, d \in Creates :
          c # d /\ cr[c].pc \in Uncommitted /\ cr[d].pc \in Uncommitted =>
            cr[c].ip # cr[d].ip
    /\ \A c \in Creates, s \in SessionIDs :
          cr[c].pc \in Uncommitted /\ Settled(s) => cr[c].ip # sessions[s].ip

\* A session identifier belongs to the create that made it, and clients know
\* it only when that create has answered.
NameInv ==
    /\ \A c \in Creates : Named(c) => cr[c].seid <= seidCounter[cr[c].rep]
    /\ \A c, d \in Creates : c # d /\ Named(c) /\ Named(d) => cr[c].seid # cr[d].seid
    /\ \A s \in SessionIDs : Stored(s) =>
          sessions[s].ip \in IPs /\ \E c \in Creates : HasRecord(c) /\ sidOf(c) = s
    /\ \A c \in Creates : cr[c].pc \in Committed =>
          Stored(sidOf(c)) /\ sessions[sidOf(c)].ip = cr[c].ip
    /\ \A x \in Ops : op[x].pc # "idle" => op[x].sid \in Issued

\* A fetched record stays current: nobody else works on that session.
CopyInv ==
    /\ \A x, y \in Ops : x # y /\ OpRuns(x) /\ OpRuns(y) => op[x].sid # op[y].sid
    /\ \A x \in Ops : op[x].pc \in Fetched =>
          Stored(op[x].sid) /\ op[x].rec.ip = sessions[op[x].sid].ip

(* The inductive invariant behind AddressExclusive, AddressReserved,       *)
(* NoAddressLeak, SessionIDsUnique and ReleasedStaysReleased.              *)
AddressInv ==
    /\ TypeOK /\ LocalInv /\ MutexInv /\ ReservationInv /\ NameInv /\ CopyInv
    /\ AddressExclusive /\ AddressReserved /\ NoAddressLeak
    /\ ReleasedStaysReleased

\* The QoS of a record is the policy's until its create has answered, and an
\* update stores one of the values a client may ask for.
QosInv ==
    /\ \A c \in Creates : cr[c].pc \in Committed => sessions[sidOf(c)].qos = 0
    /\ \A x \in Ops :
          /\ op[x].pc \in {"uGet", "uN4", "uPut"} => op[x].qos \in QoS
          /\ op[x].pc \in {"uN4", "uPut"} => op[x].rec.qos = op[x].qos
          /\ op[x].pc \in {"idle", "rGet", "rN4", "rIP"} \cup AddressFreed => op[x].qos = 0

(* The inductive invariant behind ImplementsService: what AddressInv says  *)
(* of addresses and names, and which QoS a record or a copy of it holds.   *)
LifeCycleInv == AddressInv /\ QosInv

(* A create that finds the slice full goes no further: the check is there  *)
(* "to determine whether a network slice can admit a new UE or PDU         *)
(* session" (nsacf/slice-availability-check).                              *)
FullSliceRefuses ==
    [][\A c \in Creates :
          cr[c].pc = "check" /\ cr'[c].pc = "lock" => sliceCount < MaxSessions]_vars

(* Every request that has started is answered, unless its process dies:    *)
(* no error path of allocateIP keeps the pool mutex.                       *)
AllAnswered ==
    /\ \A c \in Creates : cr[c].pc # "idle" ~> cr[c].pc \in {"done", "crashed"}
    /\ \A x \in Ops : op[x].pc # "idle" ~> op[x].pc \in {"done", "crashed"}
=============================================================================
