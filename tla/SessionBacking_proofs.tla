----------------------- MODULE SessionBacking_proofs ------------------------
(***************************************************************************)
(* Proofs about SessionBacking: who has an address and where the BSF's     *)
(* indexes lead, for any number of replicas, restarts and failures, when   *)
(* requests on a session do not overlap; and, for one replica until it     *)
(* restarts, that the UPF, BSF and CHF hold what the records say.          *)
(***************************************************************************)
EXTENDS SessionBacking, PDUSession_proofs

-----------------------------------------------------------------------------
(* Every step is one of PDUSession, and the histories only grow.           *)

LEMMA BackingStep == BackingNext => Next
  BY DEF BackingNext, Quiet, BackedCreate, BackedOp, Register, Deregister, Next, CreateStep, OpStep

LEMMA TypeBacking == BackingSpec => []TypeInv
  <1>1. TypeInv /\ [BackingNext]_backingVars => TypeInv'
    <2> SUFFICES ASSUME TypeInv, [BackingNext]_backingVars PROVE TypeInv'
      OBVIOUS
    <2>1. [Next]_vars
      BY BackingStep DEF backingVars
    <2> QED
      BY <2>1, TypeNext
  <1> QED
    BY <1>1, TypeInit, PTL DEF BackingSpec, BackingInit

LEMMA HistoryGrows ==
    ASSUME [BackingNext]_backingVars
    PROVE  /\ overtook \subseteq overtook' /\ half \subseteq half'
           /\ spoiled \subseteq spoiled' /\ unheard \subseteq unheard'
  BY DEF BackingNext, Noted, NoteOvertaking, NoteHalf, NoteSpoiled, NoteUnheard,
         backingVars, historyVars

-----------------------------------------------------------------------------
(* A create names itself, and only once the BSF has answered.              *)

Holding == Uncommitted \cup Committed
Past(c) == cr[c].pc \in {"bsfPut", "chf", "chfPut", "incGet", "incPut", "done", "crashed"}

FieldInv ==
    \A c \in Creates :
        /\ cr[c].pc \in Holding => cr[c].ip \in IPs
        /\ cr[c].bsf \in {None, c}
        /\ cr[c].bsf = c => Past(c)

\* What a step makes of the create's own name for its binding and charging.
LEMMA CreateNames ==
    ASSUME TypeInv, NEW c \in Creates, CreateStep(c)
    PROVE  /\ \/ cr'[c].bsf = cr[c].bsf
              \/ CreateBind(c) /\ cr'[c].bsf = c /\ cr'[c].pc = "bsfPut" /\ bindings' = bindings \cup {c}
           /\ \/ cr'[c].chg = cr[c].chg
              \/ CreateCharge(c) /\ cr'[c].chg = c /\ cr'[c].pc = "chfPut" /\ charging' = charging \cup {c}
  <1> USE DEF TypeInv
  <1>1. cr[c] \in CreateState /\ cr \in [Creates -> CreateState] /\ sliceCount \in Nat
    BY DEF TypeOK
  <1>2. ASSUME NEW p \in CreatePC, cr' = [cr EXCEPT ![c] = Go(c, p)]
        PROVE  cr'[c].bsf = cr[c].bsf /\ cr'[c].chg = cr[c].chg
    BY <1>1, <1>2, GoType
  <1>3. ASSUME NEW k \in Codes, cr' = [cr EXCEPT ![c] = Fail(c, k)]
        PROVE  cr'[c].bsf = cr[c].bsf /\ cr'[c].chg = cr[c].chg
    BY <1>1, <1>3, FailType
  <1>4. ASSUME NEW p \in CreatePC, NEW n, cr' = [cr EXCEPT ![c] = [Go(c, p) EXCEPT !.cnt = n]]
        PROVE  cr'[c].bsf = cr[c].bsf /\ cr'[c].chg = cr[c].chg
    <2>1. Go(c, p) \in CreateState /\ Go(c, p).bsf = cr[c].bsf /\ Go(c, p).chg = cr[c].chg
      BY <1>1, GoType
    <2> QED
      BY <1>1, <1>4, <2>1 DEF CreateState
  <1>5. ASSUME NEW p \in CreatePC, NEW n, cr' = [cr EXCEPT ![c] = [Go(c, p) EXCEPT !.seid = n]]
        PROVE  cr'[c].bsf = cr[c].bsf /\ cr'[c].chg = cr[c].chg
    <2>1. Go(c, p) \in CreateState /\ Go(c, p).bsf = cr[c].bsf /\ Go(c, p).chg = cr[c].chg
      BY <1>1, GoType
    <2> QED
      BY <1>1, <1>5, <2>1 DEF CreateState
  <1>7. /\ {"check", "lock", "poolGet", "poolPut", "n4", "store", "undo", "bsfPut", "chfPut", "incPut", "done",
             AfterStore, AfterBinding, AfterCharging} \subseteq CreatePC
        /\ {403, 500} \subseteq Codes
    BY AfterPC DEF CreatePC, Codes
  <1>8. CASE CreatePolicy(c) \/ CreateCheck(c)
    BY <1>2, <1>3, <1>7, <1>8 DEF CreatePolicy, CreateCheck
  <1>9. CASE PoolLock(c) \/ PoolPut(c) \/ CreateStore(c) \/ CreateUndo(c)
    BY <1>2, <1>3, <1>7, <1>9 DEF PoolLock, PoolPut, CreateStore, CreateUndo
  <1>10. CASE PoolGetFree(c)
    <2>1. Go(c, "poolPut") \in CreateState /\ Go(c, "poolPut").bsf = cr[c].bsf /\ Go(c, "poolPut").chg = cr[c].chg
      BY <1>1, <1>7, GoType
    <2>2. PICK a : cr' = [cr EXCEPT ![c] = [Go(c, "poolPut") EXCEPT !.ip = a]]
      BY <1>10 DEF PoolGetFree
    <2>3. cr'[c].bsf = cr[c].bsf /\ cr'[c].chg = cr[c].chg
      BY <1>1, <2>1, <2>2 DEF CreateState
    <2> QED
      BY <2>3
  <1>11. CASE PoolGetTaken(c)
    <2>0. 500 \in Codes
      BY DEF Codes
    <2>1. CASE cr' = [cr EXCEPT ![c] = Fail(c, 500)]
      <3>1. Fail(c, 500).bsf = cr[c].bsf /\ Fail(c, 500).chg = cr[c].chg
        BY <1>1, <2>0, FailType
      <3>2. cr'[c] = Fail(c, 500)
        BY <1>1, <2>1
      <3> QED
        BY <3>1, <3>2
    <2>2. CASE cr' = [cr EXCEPT ![c].tries = @ + 1]
      BY <1>1, <2>2 DEF CreateState
    <2> QED
      BY <1>11, <2>1, <2>2 DEF PoolGetTaken
  <1>12. CASE CreateN4(c)
    BY <1>5, <1>7, <1>12 DEF CreateN4
  <1>13. CASE CreateBindPut(c) \/ CreateChargePut(c) \/ CreateIncPut(c)
    BY <1>2, <1>7, <1>13 DEF CreateBindPut, CreateChargePut, CreateIncPut
  <1>14. CASE CreateIncGet(c)
    BY <1>2, <1>4, <1>7, <1>14 DEF CreateIncGet
  <1>15. CASE CreateBind(c)
    <2>1. CASE cr' = [cr EXCEPT ![c] = Go(c, AfterBinding)]
      <3>1. Go(c, AfterBinding).bsf = cr[c].bsf /\ Go(c, AfterBinding).chg = cr[c].chg
        BY <1>1, <1>7, GoType
      <3>2. cr'[c] = Go(c, AfterBinding)
        BY <1>1, <2>1
      <3> QED
        BY <3>1, <3>2
    <2>2. CASE bindings' = bindings \cup {c} /\ cr' = [cr EXCEPT ![c] = [Go(c, "bsfPut") EXCEPT !.bsf = c]]
      <3>1. /\ Go(c, "bsfPut") \in CreateState /\ Go(c, "bsfPut").chg = cr[c].chg
            /\ Go(c, "bsfPut").pc = "bsfPut"
        BY <1>1, <1>7, GoType
      <3> QED
        BY <1>1, <1>15, <2>2, <3>1 DEF CreateState
    <2> QED
      BY <1>15, <2>1, <2>2 DEF CreateBind
  <1>16. CASE CreateCharge(c)
    <2>1. CASE cr' = [cr EXCEPT ![c] = Go(c, AfterCharging)]
      <3>1. Go(c, AfterCharging).bsf = cr[c].bsf /\ Go(c, AfterCharging).chg = cr[c].chg
        BY <1>1, <1>7, GoType
      <3>2. cr'[c] = Go(c, AfterCharging)
        BY <1>1, <2>1
      <3> QED
        BY <3>1, <3>2
    <2>2. CASE charging' = charging \cup {c} /\ cr' = [cr EXCEPT ![c] = [Go(c, "chfPut") EXCEPT !.chg = c]]
      <3>1. /\ Go(c, "chfPut") \in CreateState /\ Go(c, "chfPut").bsf = cr[c].bsf
            /\ Go(c, "chfPut").pc = "chfPut"
        BY <1>1, <1>7, GoType
      <3> QED
        BY <1>1, <1>16, <2>2, <3>1 DEF CreateState
    <2> QED
      BY <1>16, <2>1, <2>2 DEF CreateCharge
  <1> QED
    BY <1>8, <1>9, <1>10, <1>11, <1>12, <1>13, <1>14, <1>15, <1>16 DEF CreateStep

\* Where a step of a create leads to, and what it leaves alone on the way.
LEMMA CreateProgress ==
    ASSUME TypeInv, NEW c \in Creates, CreateStep(c)
    PROVE  /\ Alone(c) /\ CreateRuns(c)
           /\ cr'[c].rep = cr[c].rep /\ cr'[c].supi = cr[c].supi
           /\ cr'[c].pc \in Holding => cr[c].pc \in Holding \cup {"poolPut"}
           /\ cr'[c].pc \in Holding => cr'[c].ip = cr[c].ip
           /\ cr'[c].pc \in Committed => cr[c].pc \in Committed \cup {"store"}
           /\ cr'[c].pc \in Uncommitted => cr[c].pc \in Uncommitted \cup {"poolPut"}
           /\ cr[c].pc \in Holding => cr'[c].ip = cr[c].ip
           /\ cr[c].pc \in Committed => cr'[c].pc \in (Committed \ {"bsf"}) \cup {"done"}
           /\ cr[c].pc \in Committed \cup {"store", "undo"} => cr'[c].seid = cr[c].seid
           /\ Past(c) => Past(c)'
  <1> USE DEF TypeInv, Holding, Uncommitted, Committed, Past, CreateRuns, At, Keeps, Commits
  <1>1. CASE CreatePolicy(c) \/ CreateCheck(c)
    BY <1>1, PolicyEffect
  <1>2. CASE PoolLock(c)
    BY <1>2, LockEffect
  <1>3. CASE PoolGetFree(c)
    BY <1>3, GetFreeEffect
  <1>4. CASE PoolGetTaken(c)
    BY <1>4, GetTakenEffect
  <1>5. CASE PoolPut(c)
    BY <1>5, PoolPutEffect
  <1>6. CASE CreateN4(c)
    BY <1>6, N4Effect
  <1>7. CASE CreateStore(c)
    BY <1>7, StoreEffect
  <1>8. CASE CreateUndo(c)
    BY <1>8, UndoEffect
  <1>9. CASE CommittedStep(c)
    BY <1>9, CommittedEffect
  <1> QED
    BY <1>1, <1>2, <1>3, <1>4, <1>5, <1>6, <1>7, <1>8, <1>9 DEF CreateStep, CommittedStep

LEMMA RestartEffect ==
    ASSUME TypeOK, NEW r \in Replicas, Restart(r)
    PROVE  /\ restarts' = restarts + 1
           /\ UNCHANGED <<redisVars, upf, nfVars, op>>
           /\ \A c \in Creates :
                 /\ cr'[c].ip = cr[c].ip /\ cr'[c].supi = cr[c].supi /\ cr'[c].seid = cr[c].seid
                 /\ cr'[c].bsf = cr[c].bsf /\ cr'[c].chg = cr[c].chg /\ cr'[c].code = cr[c].code
                 /\ \/ cr'[c].pc = cr[c].pc
                    \/ CreateRuns(c) /\ cr'[c].pc = "crashed"
  <1>1. restarts' = restarts + 1 /\ UNCHANGED <<redisVars, upf, nfVars, op>>
    BY DEF Restart
  <1>2. ASSUME NEW c \in Creates
        PROVE  /\ cr'[c].ip = cr[c].ip /\ cr'[c].supi = cr[c].supi /\ cr'[c].seid = cr[c].seid
               /\ cr'[c].bsf = cr[c].bsf /\ cr'[c].chg = cr[c].chg /\ cr'[c].code = cr[c].code
               /\ \/ cr'[c].pc = cr[c].pc
                  \/ CreateRuns(c) /\ cr'[c].pc = "crashed"
    <2>1. cr[c] \in CreateState
      BY DEF TypeOK
    <2>2. cr'[c] = cr[c] \/ (CreateRuns(c) /\ cr'[c] = [cr[c] EXCEPT !.pc = "crashed"])
      BY DEF Restart
    <2> QED
      BY <2>1, <2>2 DEF CreateState
  <1> QED
    BY <1>1, <1>2

LEMMA StartFields ==
    ASSUME TypeInv, NEW c \in Creates, NEW r \in Replicas, NEW u \in Supis, CreateStart(c, r, u)
    PROVE  cr'[c].bsf = cr[c].bsf /\ cr'[c].chg = cr[c].chg
  BY DEF TypeInv, TypeOK, CreateStart, CreateState

LEMMA FieldInit == Init => FieldInv
  BY ConstantsAssumption DEF Init, FieldInv, IdleCreate, Holding, Uncommitted, Committed, Past

\* Updates and releases write to no create.
LEMMA OpsLeaveCreates ==
    ASSUME NEW x \in Ops, OpStep(x) \/ OpCrash(x)
    PROVE  UNCHANGED cr
  <1>1. CASE UpdateGet(x) \/ UpdateN4(x) \/ UpdatePut(x) \/ ReleaseGet(x)
    BY <1>1 DEF UpdateGet, UpdateN4, UpdatePut, ReleaseGet, OpGet
  <1>2. CASE ReleaseN4(x) \/ ReleaseIP(x) \/ ReleaseCharge(x) \/ ReleaseBind(x)
    BY <1>2 DEF ReleaseN4, ReleaseIP, ReleaseCharge, ReleaseBind
  <1>3. CASE ReleaseDecGet(x) \/ ReleaseDecPut(x) \/ ReleaseDelete(x) \/ OpCrash(x)
    BY <1>3 DEF ReleaseDecGet, ReleaseDecPut, ReleaseDelete, OpCrash
  <1> QED
    BY <1>1, <1>2, <1>3 DEF OpStep

LEMMA FieldNext == ASSUME TypeInv, FieldInv, [Next]_vars PROVE FieldInv'
  <1> USE DEF FieldInv
  <1>1. ASSUME NEW c \in Creates, CreateStep(c) PROVE FieldInv'
    <2>1. ASSUME NEW d \in Creates, d # c PROVE cr'[d] = cr[d]
      BY <1>1, <2>1, CreateProgress DEF Alone
    <2>2. cr'[c].pc \in Holding => cr'[c].ip \in IPs
      <3>1. cr[c].pc \in Holding \cup {"poolPut"} => cr[c].ip \in IPs
        BY DEF TypeInv, LocalInv
      <3> QED
        BY <1>1, <3>1, CreateProgress
    <2>3. cr'[c].bsf \in {None, c} /\ (cr'[c].bsf = c => Past(c)')
      BY <1>1, CreateProgress, CreateNames DEF Past
    <2> QED
      BY <2>1, <2>2, <2>3 DEF Past
  <1>2. ASSUME NEW c \in Creates, NEW r \in Replicas, NEW u \in Supis, CreateStart(c, r, u)
        PROVE  FieldInv'
    BY <1>2, StartEffect, StartFields DEF TypeInv, Alone, Past, Holding, Uncommitted, Committed
  <1>3. ASSUME NEW r \in Replicas, Restart(r) PROVE FieldInv'
    BY <1>3, RestartEffect DEF TypeInv, Past, Holding, Uncommitted, Committed
  <1>4. CASE UNCHANGED cr
    BY <1>4 DEF Past
  <1>5. CASE \E x \in Ops, s \in Issued : ReleaseStart(x, s) \/ \E q \in QoS : UpdateStart(x, s, q)
    BY <1>4, <1>5 DEF ReleaseStart, UpdateStart
  <1>6. CASE \E x \in Ops : OpStep(x) \/ OpCrash(x)
    BY <1>4, <1>6, OpsLeaveCreates
  <1> QED
    BY <1>1, <1>2, <1>3, <1>4, <1>5, <1>6 DEF Next, vars

-----------------------------------------------------------------------------
(* What a step does to the creates' names, the records and the copies of   *)
(* them, whichever step it is.                                             *)

LEMMA PastKept ==
    ASSUME TypeInv, [Next]_vars, NEW c \in Creates, Past(c)
    PROVE  Past(c)' /\ cr'[c].ip = cr[c].ip /\ cr'[c].supi = cr[c].supi
  <1>1. ASSUME NEW d \in Creates, CreateStep(d)
        PROVE  Past(c)' /\ cr'[c].ip = cr[c].ip /\ cr'[c].supi = cr[c].supi
    BY <1>1, CreateProgress DEF Past, Alone, CreateRuns, Holding, Uncommitted, Committed
  <1>2. ASSUME NEW d \in Creates, NEW r \in Replicas, NEW u \in Supis, CreateStart(d, r, u)
        PROVE  Past(c)' /\ cr'[c].ip = cr[c].ip /\ cr'[c].supi = cr[c].supi
    BY <1>2, StartEffect DEF TypeInv, Alone, Past
  <1>3. ASSUME NEW r \in Replicas, Restart(r)
        PROVE  Past(c)' /\ cr'[c].ip = cr[c].ip /\ cr'[c].supi = cr[c].supi
    BY <1>3, RestartEffect DEF TypeInv, Past
  <1>4. CASE UNCHANGED cr
    BY <1>4 DEF Past
  <1>5. CASE \E x \in Ops, s \in Issued : ReleaseStart(x, s) \/ \E q \in QoS : UpdateStart(x, s, q)
    BY <1>4, <1>5 DEF ReleaseStart, UpdateStart
  <1>6. CASE \E x \in Ops : OpStep(x) \/ OpCrash(x)
    BY <1>4, <1>6, OpsLeaveCreates
  <1> QED
    BY <1>1, <1>2, <1>3, <1>4, <1>5, <1>6 DEF Next, vars

\* A create that writes its record, for the first time or again.
Writes(c, s) ==
    /\ cr[c].pc \in {"store"} \cup Committed
    /\ s = sidOf(c) /\ sessions'[s] = record(c)

LEMMA CreateWrites ==
    ASSUME TypeInv, NEW c \in Creates, CreateStep(c), NEW s \in SessionIDs
    PROVE  sessions'[s] = sessions[s] \/ Writes(c, s)
  <1>1. CASE CreateStore(c)
    BY <1>1, StoreEffect DEF TypeInv, TypeOK, Writes
  <1>2. CASE CommittedStep(c)
    BY <1>2, CommittedEffect DEF TypeInv, TypeOK, Writes
  <1>3. CASE UNCHANGED sessions
    BY <1>3
  <1> QED
    BY <1>1, <1>2, <1>3 DEF CreateStep, CommittedStep, CreatePolicy, CreateCheck, PoolLock, PoolGetFree,
         PoolGetTaken, PoolPut, CreateN4, CreateUndo, redisVars

OpWrites(x, s) == op[x].pc = "uPut" /\ s = op[x].sid /\ sessions'[s] = op[x].rec
OpDeletes(x, s) == op[x].pc = "rDel" /\ s = op[x].sid /\ sessions'[s] = NoSession

LEMMA OpWritten ==
    ASSUME TypeInv, NEW x \in Ops, OpStep(x), NEW s \in SessionIDs
    PROVE  sessions'[s] = sessions[s] \/ OpWrites(x, s) \/ OpDeletes(x, s)
  <1>1. CASE UpdatePut(x)
    BY <1>1, UpdatePutEffect DEF TypeInv, TypeOK, OpWrites
  <1>2. CASE ReleaseDelete(x)
    BY <1>2, ReleaseDeleteEffect DEF TypeInv, TypeOK, OpDeletes
  <1>3. CASE UNCHANGED sessions
    BY <1>3
  <1> QED
    BY <1>1, <1>2, <1>3 DEF OpStep, UpdateGet, UpdateN4, ReleaseGet, ReleaseN4, ReleaseIP,
         ReleaseCharge, ReleaseBind, ReleaseDecGet, ReleaseDecPut, OpGet, redisVars

\* An operation that fetches the record, and one that goes on with its copy.
Fetches(x) ==
    /\ op[x].pc \in {"uGet", "rGet"} /\ op'[x].pc \in {"uN4", "uPut", "rN4", "rIP"}
    /\ op'[x].sid = op[x].sid /\ Stored(op[x].sid)
    /\ op'[x].rec.ip = sessions[op[x].sid].ip
    /\ op'[x].rec.bsf = sessions[op[x].sid].bsf
    /\ op'[x].rec.chg = sessions[op[x].sid].chg
    /\ UNCHANGED sessions
Holds(x) ==
    /\ op[x].pc \in Fetched
    /\ op'[x].sid = op[x].sid /\ op'[x].rec = op[x].rec

LEMMA OpProgress ==
    ASSUME TypeInv, NEW x \in Ops, OpStep(x) \/ OpCrash(x)
    PROVE  /\ OpAlone(x) /\ OpRuns(x)
           /\ op'[x].sid = op[x].sid
           /\ op'[x].pc \in Fetched => Fetches(x) \/ Holds(x)
           /\ op'[x].pc \in AddressFreed => op[x].pc \in AddressFreed \cup {"rIP"}
           /\ op[x].pc \in AddressFreed /\ op'[x].pc \notin AddressFreed =>
                 \/ OpDeletes(x, op[x].sid)
                 \/ op'[x].pc \in {"done", "crashed"} /\ op'[x].code # 200
           /\ op[x].pc \in AddressFreed => op'[x].pc \in AddressFreed \cup {"done", "crashed"}
           /\ op'[x].pc # "idle"
  <1> USE DEF TypeInv, Fetched, AddressFreed, OpRuns
  <1>0. op[x].code # 0 => op[x].pc = "done"
    BY DEF LocalInv
  <1>1. CASE UpdateGet(x) \/ ReleaseGet(x)
    BY <1>1, OpGetEffect DEF Fetches, redisVars
  <1>2. CASE OpMove(x)
    BY <1>2, OpMoveEffect DEF OpKeeps, Holds
  <1>3. CASE UpdatePut(x)
    BY <1>3, UpdatePutEffect DEF OpKeeps, Holds
  <1>4. CASE ReleaseIP(x)
    BY <1>4, ReleaseIPEffect DEF OpKeeps, Holds
  <1>5. CASE ReleaseDelete(x)
    <2>1. op[x].sid \in SessionIDs /\ sessions \in [SessionIDs -> Session]
      BY <1>5, ReleaseDeleteEffect DEF LocalInv, TypeOK
    <2> QED
      BY <1>5, <2>1, ReleaseDeleteEffect DEF OpKeeps, Holds, OpDeletes
  <1>6. CASE OpCrash(x)
    BY <1>0, <1>6, OpCrashEffect DEF OpKeeps, Holds
  <1> QED
    BY <1>1, <1>2, <1>3, <1>4, <1>5, <1>6 DEF OpStep, OpMove

-----------------------------------------------------------------------------
(* The indexes lead to bindings that exist, of that address or subscriber: *)
(* no hypothesis is needed, for a deregistration deletes what its record   *)
(* names and a name belongs to one create.                                 *)

\* A record, or a copy of one, that names a binding has the binding's address.
OwnAddress(r) == r.bsf # None => Past(r.bsf) /\ cr[r.bsf].ip = r.ip

IndexInv ==
    /\ byIP \in [IPs -> Creates \cup {None}]
    /\ bySupi \in [Supis -> Creates \cup {None}]
    /\ \A c \in bindings : Past(c)
    /\ \A s \in SessionIDs : OwnAddress(sessions[s])
    /\ \A x \in Ops : op[x].pc \in Fetched => OwnAddress(op[x].rec)
    /\ \A a \in IPs : byIP[a] # None => byIP[a] \in bindings /\ cr[byIP[a]].ip = a
    /\ \A u \in Supis : bySupi[u] # None => bySupi[u] \in bindings /\ cr[bySupi[u]].supi = u

LEMMA OwnAddressKept ==
    ASSUME TypeInv, [Next]_vars, NEW r \in Session, OwnAddress(r)
    PROVE  r.bsf # None => Past(r.bsf)' /\ cr'[r.bsf].ip = r.ip
  <1>1. r.bsf \in Creates \cup {None}
    BY DEF Session
  <1> QED
    BY <1>1, PastKept DEF OwnAddress

LEMMA IndexesKept ==
    ASSUME TypeInv, IndexInv, [Next]_vars, UNCHANGED <<indexVars, bindings>>,
           \A s \in SessionIDs : OwnAddress(sessions[s])',
           \A x \in Ops : (op[x].pc \in Fetched => OwnAddress(op[x].rec))'
    PROVE  IndexInv'
  <1>1. bindings \subseteq Creates
    BY DEF TypeInv, TypeOK
  <1>2. /\ \A c \in bindings' : Past(c)'
        /\ \A a \in IPs : byIP'[a] # None => byIP'[a] \in bindings' /\ cr'[byIP'[a]].ip = a
        /\ \A u \in Supis : bySupi'[u] # None => bySupi'[u] \in bindings' /\ cr'[bySupi'[u]].supi = u
    BY <1>1, PastKept DEF IndexInv, indexVars
  <1>3. byIP' \in [IPs -> Creates \cup {None}] /\ bySupi' \in [Supis -> Creates \cup {None}]
    BY DEF IndexInv, indexVars
  <1> QED
    BY <1>2, <1>3 DEF IndexInv

LEMMA SameBindings ==
    ASSUME NEW c, CreateStep(c), cr[c].pc # "bsf"
    PROVE  UNCHANGED bindings
  BY DEF CreateStep, CreateBind, CreateBindPut, CreateCharge, CreateChargePut, CreateIncGet, CreateIncPut,
         CreatePolicy, CreateCheck, PoolLock, PoolGetFree, PoolGetTaken, PoolPut, CreateN4, CreateStore,
         CreateUndo, nfVars

LEMMA SameBindingsOp ==
    ASSUME NEW x, OpStep(x) \/ OpCrash(x), op[x].pc # "rBsf"
    PROVE  UNCHANGED bindings
  BY DEF OpStep, OpCrash, UpdateGet, UpdateN4, UpdatePut, ReleaseGet, ReleaseN4, ReleaseIP,
         ReleaseCharge, ReleaseBind, ReleaseDecGet, ReleaseDecPut, ReleaseDelete, OpGet, nfVars

LEMMA IndexCreate ==
    ASSUME TypeInv, FieldInv, IndexInv, NEW c \in Creates, CreateStep(c), cr[c].pc # "bsf",
           UNCHANGED indexVars
    PROVE  IndexInv'
  <1>0. [Next]_vars /\ UNCHANGED bindings
    BY SameBindings DEF Next
  <1>1. ASSUME NEW s \in SessionIDs PROVE OwnAddress(sessions[s])'
    <2>1. sessions[s] \in Session /\ OwnAddress(sessions[s])
      BY DEF TypeInv, TypeOK, IndexInv
    <2>2. record(c).bsf = cr[c].bsf /\ record(c).ip = cr[c].ip
      BY DEF record
    <2>3. CASE Writes(c, s)
      <3>1. cr[c].bsf # None => Past(c) /\ cr[c].bsf = c
        BY DEF FieldInv
      <3> QED
        BY <1>0, <2>2, <2>3, <3>1, PastKept DEF OwnAddress, Writes
    <2>4. CASE sessions'[s] = sessions[s]
      BY <1>0, <2>1, <2>4, OwnAddressKept DEF OwnAddress
    <2> QED
      BY <2>3, <2>4, CreateWrites
  <1>2. ASSUME NEW x \in Ops, (op[x].pc \in Fetched)' PROVE OwnAddress(op[x].rec)'
    <2>1. op'[x] = op[x] /\ op[x].rec \in Session
      BY CreateProgress DEF Alone, TypeInv, TypeOK, OpState
    <2> QED
      BY <1>0, <1>2, <2>1, OwnAddressKept DEF OwnAddress, IndexInv
  <1> QED
    BY <1>0, <1>1, <1>2, IndexesKept

LEMMA IndexOther ==
    ASSUME TypeInv, IndexInv, [Next]_vars, UNCHANGED <<indexVars, bindings, sessions>>,
           \A x \in Ops : op'[x].pc \in Fetched => Holds(x) \/ op'[x] = op[x]
    PROVE  IndexInv'
  <1>1. ASSUME NEW s \in SessionIDs PROVE OwnAddress(sessions[s])'
    <2>1. sessions[s] \in Session /\ OwnAddress(sessions[s])
      BY DEF TypeInv, TypeOK, IndexInv
    <2> QED
      BY <2>1, OwnAddressKept DEF OwnAddress
  <1>2. ASSUME NEW x \in Ops, (op[x].pc \in Fetched)' PROVE OwnAddress(op[x].rec)'
    <2>1. op'[x].rec = op[x].rec /\ op[x].pc \in Fetched /\ op[x].rec \in Session
      BY <1>2 DEF Holds, TypeInv, TypeOK, OpState
    <2> QED
      BY <2>1, OwnAddressKept DEF OwnAddress, IndexInv
  <1> QED
    BY <1>1, <1>2, IndexesKept

LEMMA IndexOp ==
    ASSUME TypeInv, IndexInv, NEW x \in Ops, OpStep(x) \/ OpCrash(x), op[x].pc # "rBsf",
           UNCHANGED indexVars
    PROVE  IndexInv'
  <1>0. [Next]_vars /\ UNCHANGED bindings
    BY SameBindingsOp DEF Next
  <1>1. ASSUME NEW y \in Ops PROVE op[y].rec \in Session
    BY DEF TypeInv, TypeOK, OpState
  <1>2. ASSUME NEW s \in SessionIDs PROVE OwnAddress(sessions[s])'
    <2>1. sessions[s] \in Session /\ OwnAddress(sessions[s])
      BY DEF TypeInv, TypeOK, IndexInv
    <2>2. CASE sessions'[s] = sessions[s]
      BY <1>0, <2>1, <2>2, OwnAddressKept DEF OwnAddress
    <2>3. CASE OpWrites(x, s)
      <3>1. OwnAddress(op[x].rec)
        BY <2>3 DEF OpWrites, IndexInv, Fetched
      <3> QED
        BY <1>0, <1>1, <2>3, <3>1, OwnAddressKept DEF OwnAddress, OpWrites
    <2>4. CASE OpDeletes(x, s)
      BY <2>4 DEF OpDeletes, OwnAddress, NoSession
    <2>5. OpCrash(x) => UNCHANGED sessions
      BY DEF OpCrash, redisVars
    <2> QED
      BY <2>2, <2>3, <2>4, <2>5, OpWritten
  <1>3. ASSUME NEW y \in Ops, (op[y].pc \in Fetched)' PROVE OwnAddress(op[y].rec)'
    <2>1. CASE op[y].pc \in Fetched /\ op'[y].rec = op[y].rec
      BY <1>0, <1>1, <2>1, OwnAddressKept DEF OwnAddress, IndexInv
    <2>2. CASE y = x /\ Fetches(x)
      <3>1. op[x].sid \in SessionIDs
        BY <2>2 DEF Fetches, TypeInv, LocalInv
      <3> QED
        BY <1>2, <2>2, <3>1 DEF Fetches, OwnAddress
    <2> QED
      BY <1>3, <2>1, <2>2, OpProgress DEF OpAlone, Holds
  <1> QED
    BY <1>0, <1>2, <1>3, IndexesKept

\* A registration writes the create's own keys, in a call that may fail half way.
LEMMA RegisterEffect ==
    ASSUME TypeInv, FieldInv, NEW c \in Creates, Register(c)
    PROVE  /\ CreateStep(c) /\ cr[c].pc = "bsf" /\ cr[c].bsf = None
           /\ cr[c].ip \in IPs /\ cr[c].supi \in Supis
           /\ Past(c)' /\ cr'[c].pc \in Committed \cup {"done"}
           /\ cr'[c].ip = cr[c].ip /\ cr'[c].supi = cr[c].supi /\ cr'[c].seid = cr[c].seid
           /\ bindings' = bindings \/ bindings' = bindings \cup {c}
           /\ \/ byIP' = byIP
              \/ c \in bindings' /\ byIP' = [byIP EXCEPT ![cr[c].ip] = c]
           /\ bySupi' = bySupi \/ (c \in bindings' /\ bySupi' = [bySupi EXCEPT ![cr[c].supi] = c])
           /\ \/ cr'[c].bsf = None
              \/ cr'[c].bsf = c /\ c \in bindings' /\ byIP' = [byIP EXCEPT ![cr[c].ip] = c]
           /\ UNCHANGED <<redisVars, op>>
  <1>1. CreateBind(c) /\ CreateStep(c) /\ cr[c].pc = "bsf"
    BY DEF Register, CreateStep, CreateBind
  <1>2. /\ bindings' = bindings \/ bindings' = bindings \cup {c}
        /\ UNCHANGED <<redisVars, op>>
    BY <1>1 DEF CreateBind
  <1>3. cr[c].bsf = None /\ cr[c].ip \in IPs /\ cr[c].supi \in Supis /\ None # c
    BY <1>1, ConstantsAssumption DEF FieldInv, Past, Holding, Committed, TypeInv, LocalInv
  <1>4. cr'[c].bsf = None \/ (cr'[c].bsf = c /\ c \in bindings')
    BY <1>1, <1>3, CreateNames
  <1>5. /\ byIP' = byIP \/ (c \in bindings' /\ byIP' = [byIP EXCEPT ![cr[c].ip] = c])
        /\ bySupi' = bySupi \/ (c \in bindings' /\ bySupi' = [bySupi EXCEPT ![cr[c].supi] = c])
        /\ cr'[c].bsf = None \/ byIP' = [byIP EXCEPT ![cr[c].ip] = c]
    BY DEF Register
  <1>6. /\ Past(c)' /\ cr'[c].ip = cr[c].ip /\ cr'[c].supi = cr[c].supi /\ cr'[c].seid = cr[c].seid
        /\ cr'[c].pc \in Committed \cup {"done"}
    BY <1>1, CreateProgress DEF Holding, Committed, Past
  <1> QED
    BY <1>1, <1>2, <1>3, <1>4, <1>5, <1>6

LEMMA IndexRegister ==
    ASSUME TypeInv, FieldInv, IndexInv, NEW c \in Creates, Register(c)
    PROVE  IndexInv'
  <1>0. [Next]_vars /\ CreateStep(c)
    BY RegisterEffect DEF Next
  <1>1. /\ cr[c].ip \in IPs /\ cr[c].supi \in Supis /\ Past(c)'
        /\ cr'[c].ip = cr[c].ip /\ cr'[c].supi = cr[c].supi
        /\ bindings' = bindings \/ bindings' = bindings \cup {c}
        /\ byIP' = byIP \/ (c \in bindings' /\ byIP' = [byIP EXCEPT ![cr[c].ip] = c])
        /\ bySupi' = bySupi \/ (c \in bindings' /\ bySupi' = [bySupi EXCEPT ![cr[c].supi] = c])
        /\ UNCHANGED <<sessions, op>>
    BY RegisterEffect DEF redisVars
  <1>2. ASSUME NEW d \in bindings
        PROVE  d \in bindings' /\ Past(d)' /\ cr'[d].ip = cr[d].ip /\ cr'[d].supi = cr[d].supi
    <2>1. d \in Creates /\ Past(d)
      BY DEF TypeInv, TypeOK, IndexInv
    <2> QED
      BY <1>0, <1>1, <2>1, PastKept
  <1>3. \A d \in bindings' : Past(d)'
    BY <1>1, <1>2
  <1>4. /\ byIP' \in [IPs -> Creates \cup {None}]
        /\ \A a \in IPs : byIP'[a] # None => byIP'[a] \in bindings' /\ cr'[byIP'[a]].ip = a
    BY <1>1, <1>2 DEF IndexInv
  <1>5. /\ bySupi' \in [Supis -> Creates \cup {None}]
        /\ \A u \in Supis : bySupi'[u] # None => bySupi'[u] \in bindings' /\ cr'[bySupi'[u]].supi = u
    BY <1>1, <1>2 DEF IndexInv
  <1>6. ASSUME NEW s \in SessionIDs PROVE OwnAddress(sessions[s])'
    <2>1. sessions[s] \in Session /\ OwnAddress(sessions[s])
      BY DEF TypeInv, TypeOK, IndexInv
    <2> QED
      BY <1>0, <1>1, <2>1, OwnAddressKept DEF OwnAddress
  <1>7. ASSUME NEW x \in Ops, (op[x].pc \in Fetched)' PROVE OwnAddress(op[x].rec)'
    <2>1. op[x].rec \in Session /\ op[x].pc \in Fetched
      BY <1>1, <1>7 DEF TypeInv, TypeOK, OpState
    <2> QED
      BY <1>0, <1>1, <2>1, OwnAddressKept DEF OwnAddress, IndexInv
  <1> QED
    BY <1>3, <1>4, <1>5, <1>6, <1>7 DEF IndexInv

\* A deregistration deletes the keys of the binding that its copy names.
LEMMA DeregisterEffect ==
    ASSUME TypeInv, IndexInv, NEW x \in Ops, Deregister(x)
    PROVE  /\ OpStep(x) /\ op[x].pc = "rBsf" /\ op'[x].pc \in {"rDecGet", "rDel"}
           /\ op'[x].code = op[x].code
           /\ Holds(x) /\ OpAlone(x) /\ UNCHANGED redisVars
           /\ \/ UNCHANGED <<bindings, indexVars>>
              \/ /\ op[x].rec.bsf \in bindings /\ bindings' = bindings \ {op[x].rec.bsf}
                 /\ cr[op[x].rec.bsf].ip = op[x].rec.ip
                 /\ byIP' = [byIP EXCEPT ![op[x].rec.ip] = None]
                 /\ bySupi' = [bySupi EXCEPT ![cr[op[x].rec.bsf].supi] = None]
  <1>1. ReleaseBind(x) /\ OpStep(x) /\ op[x].pc = "rBsf" /\ op' = OpGo(x, AfterUnbind)
    BY DEF Deregister, OpStep, ReleaseBind
  <1>2. /\ op'[x].pc \in {"rDecGet", "rDel"} /\ op'[x].code = op[x].code
        /\ op'[x].sid = op[x].sid /\ op'[x].rec = op[x].rec
    <2>1. AfterUnbind \in {"rDecGet", "rDel"} /\ {"rDecGet", "rDel"} \subseteq OpPC
      BY AfterPC DEF OpPC
    <2> QED
      BY <1>1, <2>1, OpGoType DEF TypeInv
  <1>3. Holds(x) /\ OpAlone(x) /\ UNCHANGED redisVars
    BY <1>1, <1>2, OpProgress DEF Holds, Fetched, AddressFreed, ReleaseBind
  <1>4. CASE op[x].rec.bsf \in bindings \ bindings'
    <2>1. bindings' = bindings \ {op[x].rec.bsf}
      BY <1>1, <1>4 DEF ReleaseBind
    <2>2. op[x].rec.bsf \in Creates
      BY <1>4 DEF TypeInv, TypeOK
    <2>3. cr[op[x].rec.bsf].ip = op[x].rec.ip
      BY <1>1, <2>2, ConstantsAssumption DEF IndexInv, OwnAddress, Fetched, AddressFreed
    <2> QED
      BY <1>1, <1>2, <1>3, <1>4, <2>1, <2>3 DEF Deregister
  <1>5. CASE op[x].rec.bsf \notin bindings \ bindings'
    <2>1. UNCHANGED indexVars
      BY <1>5 DEF Deregister
    <2>2. UNCHANGED bindings
      BY <1>1, <1>5 DEF ReleaseBind
    <2> QED
      BY <1>1, <1>2, <1>3, <2>1, <2>2
  <1> QED
    BY <1>4, <1>5

LEMMA IndexDeregister ==
    ASSUME TypeInv, IndexInv, NEW x \in Ops, Deregister(x)
    PROVE  IndexInv'
  <1>0. /\ [Next]_vars /\ UNCHANGED sessions
        /\ \A y \in Ops : op'[y].pc \in Fetched => Holds(y) \/ op'[y] = op[y]
    BY DeregisterEffect DEF Next, redisVars, OpAlone
  <1>1. CASE UNCHANGED <<bindings, indexVars>>
    BY <1>0, <1>1, IndexOther
  <1>2. ASSUME NEW b \in bindings, b = op[x].rec.bsf, bindings' = bindings \ {b},
               cr[b].ip = op[x].rec.ip,
               byIP' = [byIP EXCEPT ![op[x].rec.ip] = None],
               bySupi' = [bySupi EXCEPT ![cr[b].supi] = None]
        PROVE  IndexInv'
    <2>1. ASSUME NEW d \in bindings
          PROVE  d \in Creates /\ Past(d)' /\ cr'[d].ip = cr[d].ip /\ cr'[d].supi = cr[d].supi
      <3>1. d \in Creates /\ Past(d)
        BY DEF TypeInv, TypeOK, IndexInv
      <3> QED
        BY <1>0, <3>1, PastKept
    <2>2. /\ byIP' \in [IPs -> Creates \cup {None}]
          /\ \A a \in IPs : byIP'[a] # None => byIP'[a] \in bindings' /\ cr'[byIP'[a]].ip = a
      <3>1. ASSUME NEW a \in IPs, byIP'[a] # None PROVE byIP'[a] \in bindings' /\ cr'[byIP'[a]].ip = a
        <4>1. a # op[x].rec.ip /\ byIP'[a] = byIP[a]
          BY <1>2, <3>1 DEF IndexInv
        <4>2. byIP[a] \in bindings /\ cr[byIP[a]].ip = a
          BY <3>1, <4>1 DEF IndexInv
        <4> QED
          BY <1>2, <2>1, <4>1, <4>2
      <3> QED
        BY <1>2, <3>1 DEF IndexInv
    <2>3. /\ bySupi' \in [Supis -> Creates \cup {None}]
          /\ \A u \in Supis : bySupi'[u] # None => bySupi'[u] \in bindings' /\ cr'[bySupi'[u]].supi = u
      <3>1. ASSUME NEW u \in Supis, bySupi'[u] # None PROVE bySupi'[u] \in bindings' /\ cr'[bySupi'[u]].supi = u
        <4>1. u # cr[b].supi /\ bySupi'[u] = bySupi[u]
          BY <1>2, <3>1 DEF IndexInv
        <4>2. bySupi[u] \in bindings /\ cr[bySupi[u]].supi = u
          BY <3>1, <4>1 DEF IndexInv
        <4> QED
          BY <1>2, <2>1, <4>1, <4>2
      <3> QED
        BY <1>2, <3>1 DEF IndexInv
    <2>4. ASSUME NEW s \in SessionIDs PROVE OwnAddress(sessions[s])'
      <3>1. sessions[s] \in Session /\ OwnAddress(sessions[s])
        BY DEF TypeInv, TypeOK, IndexInv
      <3> QED
        BY <1>0, <3>1, OwnAddressKept DEF OwnAddress
    <2>5. ASSUME NEW y \in Ops, (op[y].pc \in Fetched)' PROVE OwnAddress(op[y].rec)'
      <3>1. op[y].rec \in Session /\ op[y].pc \in Fetched /\ op'[y].rec = op[y].rec
        BY <1>0, <2>5 DEF TypeInv, TypeOK, OpState, Holds
      <3> QED
        BY <1>0, <3>1, OwnAddressKept DEF OwnAddress, IndexInv
    <2> QED
      BY <1>2, <2>1, <2>2, <2>3, <2>4, <2>5 DEF IndexInv
  <1> QED
    BY <1>1, <1>2, DeregisterEffect

LEMMA IndexInit == BackingInit => IndexInv
  BY DEF BackingInit, Init, IndexInv, OwnAddress, NoSession, IdleOp, Fetched, AddressFreed

\* The starts of requests, and a restart.
Begins ==
    \/ \E c \in Creates, r \in Replicas, u \in Supis : CreateStart(c, r, u)
    \/ \E r \in Replicas : Restart(r)
    \/ \E x \in Ops, s \in Issued : ReleaseStart(x, s) \/ \E q \in QoS : UpdateStart(x, s, q)

LEMMA BeginsEffect ==
    ASSUME TypeInv, Begins
    PROVE  /\ Next /\ UNCHANGED <<redisVars, upf, nfVars>>
           /\ \/ UNCHANGED op
              \/ \E x \in Ops, s \in Issued :
                    /\ OpAlone(x) /\ op[x].pc = "idle" /\ op'[x].pc \in {"uGet", "rGet"}
                    /\ op'[x].sid = s /\ (SerialClients => ~Busy(s))
  <1>0. Next
    BY DEF Begins, Next
  <1>1. CASE \E x \in Ops, s \in Issued : ReleaseStart(x, s) \/ \E q \in QoS : UpdateStart(x, s, q)
    BY <1>0, <1>1, OpStartEffect DEF TypeInv
  <1>2. CASE \E c \in Creates, r \in Replicas, u \in Supis : CreateStart(c, r, u)
    BY <1>0, <1>2 DEF CreateStart
  <1>3. CASE \E r \in Replicas : Restart(r)
    BY <1>0, <1>3 DEF Restart
  <1> QED
    BY <1>1, <1>2, <1>3 DEF Begins

LEMMA IndexBegins ==
    ASSUME TypeInv, IndexInv, Begins, UNCHANGED indexVars
    PROVE  IndexInv'
  <1>1. \A x \in Ops : op'[x].pc \in Fetched => op'[x] = op[x]
    BY BeginsEffect DEF OpAlone, Fetched, AddressFreed
  <1> QED
    BY <1>1, BeginsEffect, IndexOther DEF redisVars, nfVars

\* The steps of BackingSpec, sorted for the proofs.
LEMMA BackingCases ==
    ASSUME [BackingNext]_backingVars
    PROVE  \/ \E c \in Creates : Register(c)
           \/ \E c \in Creates : CreateStep(c) /\ cr[c].pc # "bsf" /\ UNCHANGED indexVars
           \/ \E x \in Ops : Deregister(x)
           \/ \E x \in Ops : (OpStep(x) \/ OpCrash(x)) /\ op[x].pc # "rBsf" /\ UNCHANGED indexVars
           \/ \E x \in Ops : OpCrash(x) /\ UNCHANGED indexVars
           \/ Begins /\ UNCHANGED indexVars
           \/ UNCHANGED backingVars
  BY DEF BackingNext, Quiet, BackedCreate, BackedOp, Begins

LEMMA IndexNext ==
    ASSUME TypeInv, FieldInv, IndexInv, [BackingNext]_backingVars
    PROVE  IndexInv'
  <1>1. ASSUME NEW x \in Ops, OpCrash(x), UNCHANGED indexVars PROVE IndexInv'
    <2>1. [Next]_vars /\ UNCHANGED <<bindings, sessions>>
      BY <1>1 DEF Next, OpCrash, redisVars, nfVars
    <2>2. \A y \in Ops : op'[y].pc \in Fetched => Holds(y) \/ op'[y] = op[y]
      BY <1>1, OpCrashEffect DEF TypeInv, OpAlone, Fetched, AddressFreed
    <2> QED
      BY <1>1, <2>1, <2>2, IndexOther
  <1>2. CASE UNCHANGED backingVars
    <2>1. [Next]_vars /\ UNCHANGED <<indexVars, bindings, sessions, op>>
      BY <1>2 DEF backingVars, vars
    <2> QED
      BY <2>1, IndexOther
  <1> QED
    BY <1>1, <1>2, BackingCases, IndexRegister, IndexCreate, IndexDeregister, IndexOp, IndexBegins

-----------------------------------------------------------------------------
(* Who has an address, when requests on one session do not overlap.  A     *)
(* session that is not half released claims the address of its record, of  *)
(* the copies that operations will write back or free, and of the creates  *)
(* that will write the record again.  A claim names the binding too.       *)

SerialOps == \A x, y \in Ops : x # y /\ OpRuns(x) /\ OpRuns(y) => op[x].sid # op[y].sid

Carrying == {"uN4", "uPut", "rN4", "rIP"}
Claim(s, a, b) ==
    \/ Settled(s) /\ sessions[s].ip = a /\ sessions[s].bsf = b
    \/ \E x \in Ops : /\ op[x].pc \in Carrying /\ op[x].sid = s
                      /\ op[x].rec.ip = a /\ op[x].rec.bsf = b
    \/ \E c \in Creates : cr[c].pc \in Committed /\ sidOf(c) = s /\ cr[c].ip = a /\ cr[c].bsf = b

\* The index of the address leads to b, or to nothing because an earlier holder
\* of the address deregistered after b; such holders may be about to.
Led(a, b) ==
    /\ byIP[a] = b \/ (byIP[a] = None /\ b \in overtook)
    /\ Deregistering(a) => b \in overtook

\* An address that a create has is reserved, and no other create has it.
HolderInv ==
    \A c \in Creates : cr[c].pc \in Holding /\ cr[c].ip \notin spoiled =>
        /\ cr[c].ip \in allocated
        /\ \A d \in Creates : cr[d].pc \in Holding /\ cr[d].ip = cr[c].ip => d = c
        /\ cr[c].bsf # None => Led(cr[c].ip, cr[c].bsf)

\* An address is claimed for one session; by a create only under that name.
ClaimInv ==
    \A s \in SessionIDs \ half, a \in (IPs \cup {NoIP}) \ spoiled, b \in Creates \cup {None} :
        Claim(s, a, b) =>
          /\ a \in allocated
          /\ b # None => Led(a, b)
          /\ \A t \in SessionIDs \ half, d \in Creates \cup {None} : Claim(t, a, d) => t = s
          /\ \A c \in Creates : cr[c].pc \in Holding /\ cr[c].ip = a =>
                cr[c].pc \in Committed /\ sidOf(c) = s /\ b \in {None, cr[c].bsf}

LEMMA ClaimKept ==
    ASSUME TypeInv, FieldInv, HolderInv, ClaimInv,
           half \subseteq half', spoiled \subseteq spoiled', allocated \subseteq allocated',
           \A s \in SessionIDs \ half', a \in IPs \cup {NoIP}, b \in Creates \cup {None} :
              Claim(s, a, b)' => Claim(s, a, b),
           \A c \in Creates : cr'[c].pc \in Holding =>
              /\ cr[c].pc \in Holding /\ cr'[c].ip = cr[c].ip /\ cr'[c].bsf = cr[c].bsf
              /\ cr[c].pc \in Committed => cr'[c].pc \in Committed /\ sidOf(c)' = sidOf(c),
           \A a \in IPs, b \in Creates : Led(a, b) => Led(a, b)'
    PROVE  HolderInv' /\ ClaimInv'
  <1>0. allocated \subseteq IPs /\ \A c \in Creates : cr[c].bsf \in {None, c}
    BY DEF TypeInv, TypeOK, FieldInv
  <1>1. HolderInv'
    <2> SUFFICES ASSUME NEW c \in Creates, cr'[c].pc \in Holding, cr'[c].ip \notin spoiled'
                 PROVE  /\ cr'[c].ip \in allocated'
                        /\ \A d \in Creates : cr'[d].pc \in Holding /\ cr'[d].ip = cr'[c].ip => d = c
                        /\ cr'[c].bsf # None => Led(cr[c].ip, cr[c].bsf)'
      BY DEF HolderInv
    <2>1. /\ cr[c].pc \in Holding /\ cr[c].ip \notin spoiled /\ cr'[c].ip = cr[c].ip
          /\ cr'[c].bsf = cr[c].bsf
      OBVIOUS
    <2>2. /\ cr[c].ip \in allocated
          /\ \A d \in Creates : cr[d].pc \in Holding /\ cr[d].ip = cr[c].ip => d = c
          /\ cr[c].bsf # None => Led(cr[c].ip, cr[c].bsf)
      BY <2>1 DEF HolderInv
    <2>3. cr'[c].bsf # None => Led(cr[c].ip, cr[c].bsf)'
      <3>1. ASSUME NEW a \in IPs, NEW b \in Creates, a = cr[c].ip, b = cr[c].bsf, Led(a, b)
            PROVE  Led(cr[c].ip, cr[c].bsf)'
        BY <2>1, <3>1 DEF Led, Deregistering
      <3> QED
        BY <1>0, <2>1, <2>2, <3>1
    <2> QED
      BY <2>1, <2>2, <2>3
  <1>2. ClaimInv'
    <2> SUFFICES ASSUME NEW s \in SessionIDs \ half', NEW a \in (IPs \cup {NoIP}) \ spoiled',
                        NEW b \in Creates \cup {None}, Claim(s, a, b)'
                 PROVE  /\ a \in allocated'
                        /\ b # None => Led(a, b)'
                        /\ \A t \in SessionIDs \ half', d \in Creates \cup {None} : Claim(t, a, d)' => t = s
                        /\ \A c \in Creates : cr'[c].pc \in Holding /\ cr'[c].ip = a =>
                             cr'[c].pc \in Committed /\ sidOf(c)' = s /\ b \in {None, cr'[c].bsf}
      BY DEF ClaimInv
    <2>1. Claim(s, a, b) /\ s \in SessionIDs \ half /\ a \in (IPs \cup {NoIP}) \ spoiled
      OBVIOUS
    <2>2. /\ a \in allocated
          /\ b # None => Led(a, b)
          /\ \A t \in SessionIDs \ half, d \in Creates \cup {None} : Claim(t, a, d) => t = s
          /\ \A c \in Creates : cr[c].pc \in Holding /\ cr[c].ip = a =>
                cr[c].pc \in Committed /\ sidOf(c) = s /\ b \in {None, cr[c].bsf}
      BY <2>1 DEF ClaimInv
    <2>3. a \in allocated' /\ (b # None => Led(a, b)')
      BY <1>0, <2>2
    <2>4. ASSUME NEW t \in SessionIDs \ half', NEW d \in Creates \cup {None}, Claim(t, a, d)'
          PROVE  t = s
      BY <2>2, <2>4
    <2> QED
      BY <2>2, <2>3, <2>4
  <1> QED
    BY <1>1, <1>2

\* Which operations have still to deregister: a release passes there once.
LEMMA OpOrder ==
    ASSUME TypeInv, NEW x \in Ops, OpStep(x) \/ OpCrash(x), op'[x].pc \in {"rChf", "rBsf"}
    PROVE  op[x].pc \in {"rChf", "rIP"}
  <1> USE DEF TypeInv
  <1>1. CASE UpdateGet(x) \/ ReleaseGet(x)
    BY <1>1, OpGetEffect
  <1>2. CASE UpdatePut(x) \/ ReleaseDelete(x) \/ OpCrash(x)
    BY <1>2, UpdatePutEffect, ReleaseDeleteEffect, OpCrashEffect
  <1>3. CASE ReleaseIP(x) \/ ReleaseCharge(x)
    BY <1>3 DEF ReleaseIP, ReleaseCharge
  <1>4. CASE UpdateN4(x) \/ ReleaseN4(x)
    <2>1. {"uPut", "rIP"} \subseteq OpPC /\ 500 \in Codes
      BY DEF OpPC, Codes
    <2> QED
      BY <1>4, <2>1, OpGoType, ReplyType DEF UpdateN4, ReleaseN4
  <1>5. CASE ReleaseBind(x) \/ ReleaseDecPut(x)
    <2>1. AfterUnbind \in {"rDecGet", "rDel"} /\ {"rDecGet", "rDel"} \subseteq OpPC
      BY AfterPC DEF OpPC
    <2> QED
      BY <1>5, <2>1, OpGoType DEF ReleaseBind, ReleaseDecPut
  <1>6. CASE ReleaseDecGet(x)
    <2>1. "rDel" \in OpPC
      BY DEF OpPC
    <2>2. \/ op' = OpGo(x, "rDel")
          \/ \E n : op' = [op EXCEPT ![x].pc = "rDecPut", ![x].cnt = n]
      BY <1>6 DEF ReleaseDecGet
    <2>3. CASE \E n : op' = [op EXCEPT ![x].pc = "rDecPut", ![x].cnt = n]
      BY <2>3 DEF TypeOK, OpState
    <2> QED
      BY <2>1, <2>2, <2>3, OpGoType
  <1> QED
    BY <1>1, <1>2, <1>3, <1>4, <1>5, <1>6 DEF OpStep

LEMMA OpClaims ==
    ASSUME TypeInv, SerialOps, NEW x \in Ops, OpStep(x) \/ OpCrash(x), NoteHalf,
           NEW s \in SessionIDs \ half', NEW a, NEW b, Claim(s, a, b)'
    PROVE  Claim(s, a, b)
  <1>1. /\ OpAlone(x) /\ OpRuns(x) /\ op'[x].sid = op[x].sid
        /\ op'[x].pc \in Fetched => Fetches(x) \/ Holds(x)
        /\ op[x].pc \in AddressFreed /\ op'[x].pc \notin AddressFreed =>
              \/ OpDeletes(x, op[x].sid)
              \/ op'[x].pc \in {"done", "crashed"} /\ op'[x].code # 200
        /\ op[x].pc \in AddressFreed => op'[x].pc \in AddressFreed \cup {"done", "crashed"}
    BY OpProgress
  <1>2. UNCHANGED cr /\ \A y \in Ops : y # x => op'[y] = op[y]
    BY <1>1 DEF OpAlone
  <1>3. ASSUME NEW y \in Ops, op'[y].pc \in Carrying, op'[y].sid = s,
               op'[y].rec.ip = a, op'[y].rec.bsf = b
        PROVE  Claim(s, a, b)
    <2>1. CASE y # x
      BY <1>2, <1>3, <2>1 DEF Claim
    <2>2. CASE y = x /\ Holds(x)
      <3>1. op[x].pc \in Carrying
        BY <1>1, <1>3, <2>2 DEF Holds, Fetched, Carrying, AddressFreed
      <3> QED
        BY <1>3, <2>2, <3>1 DEF Holds, Claim
    <2>3. CASE y = x /\ Fetches(x)
      <3>1. \A z \in Ops : op[z].sid = s => op[z].pc \notin AddressFreed
        BY <1>1, <1>3, <2>3 DEF SerialOps, OpRuns, AddressFreed, Fetches
      <3>2. Settled(s)
        BY <1>3, <2>3, <3>1 DEF Settled, Fetches
      <3> QED
        BY <1>3, <2>3, <3>2 DEF Claim, Fetches
    <2> QED
      BY <1>1, <1>3, <2>1, <2>2, <2>3 DEF Carrying, Fetched
  <1>4. ASSUME Settled(s)', sessions'[s].ip = a, sessions'[s].bsf = b
        PROVE  Claim(s, a, b)
    <2>1. OpCrash(x) => sessions' = sessions
      BY DEF OpCrash, redisVars
    <2>2. sessions'[s] # NoSession /\ \A y \in Ops : op'[y].sid = s => op'[y].pc \notin AddressFreed
      BY <1>4 DEF Settled, Stored
    <2>3. CASE sessions'[s] = sessions[s]
      <3>1. ASSUME NEW y \in Ops, op[y].sid = s, op[y].pc \in AddressFreed PROVE FALSE
        <4>1. y = x
          BY <1>2, <2>2, <3>1
        <4>2. op'[x].pc \notin AddressFreed /\ op[x].sid = s
          BY <1>1, <2>2, <3>1, <4>1
        <4>3. ~OpDeletes(x, op[x].sid)
          BY <2>2, <4>2 DEF OpDeletes
        <4>4. Stopped(x)
          BY <1>1, <3>1, <4>1, <4>2, <4>3 DEF Stopped
        <4> QED
          BY <4>2, <4>4 DEF NoteHalf
      <3>2. Settled(s)
        BY <2>2, <2>3, <3>1 DEF Settled, Stored
      <3> QED
        BY <1>4, <2>3, <3>2 DEF Claim
    <2>4. CASE OpWrites(x, s)
      BY <1>4, <2>4 DEF OpWrites, Claim, Carrying
    <2>5. CASE OpDeletes(x, s)
      BY <2>2, <2>5 DEF OpDeletes
    <2> QED
      BY <2>1, <2>3, <2>4, <2>5, OpWritten
  <1>5. ASSUME NEW c \in Creates, cr'[c].pc \in Committed, sidOf(c)' = s, cr'[c].ip = a, cr'[c].bsf = b
        PROVE  Claim(s, a, b)
    BY <1>2, <1>5 DEF Claim, sidOf
  <1> QED
    BY <1>3, <1>4, <1>5 DEF Claim

\* A step of a create claims what it has claimed before, but for its first
\* write of the record and the answer of the BSF.
LEMMA CreateClaims ==
    ASSUME TypeInv, NEW c \in Creates, CreateStep(c),
           NEW s \in SessionIDs, NEW a, NEW b, Claim(s, a, b)'
    PROVE  \/ Claim(s, a, b)
           \/ /\ cr[c].pc \in {"store", "bsf"} /\ s = sidOf(c) /\ a = cr[c].ip
              /\ b \in {cr[c].bsf, cr'[c].bsf}
              /\ cr'[c].pc # "undo"
  <1>1. /\ Alone(c) /\ cr'[c].supi = cr[c].supi
        /\ cr'[c].pc \in Committed => /\ cr[c].pc \in Committed \cup {"store"}
                                      /\ cr'[c].ip = cr[c].ip /\ cr'[c].seid = cr[c].seid
    BY CreateProgress DEF Holding
  <1>2. UNCHANGED op /\ \A d \in Creates : d # c => cr'[d] = cr[d]
    BY <1>1 DEF Alone
  <1>3. ASSUME NEW d \in Creates, cr'[d].pc \in Committed, sidOf(d)' = s, cr'[d].ip = a, cr'[d].bsf = b
        PROVE  \/ Claim(s, a, b)
               \/ /\ cr[c].pc \in {"store", "bsf"} /\ s = sidOf(c) /\ a = cr[c].ip
                  /\ b \in {cr[c].bsf, cr'[c].bsf} /\ cr'[c].pc # "undo"
    <2>1. CASE d # c
      BY <1>2, <1>3, <2>1 DEF Claim, sidOf
    <2>2. CASE d = c
      <3>1. sidOf(c) = s /\ a = cr[c].ip /\ cr'[c].pc # "undo" /\ b = cr'[c].bsf
        BY <1>1, <1>3, <2>2 DEF sidOf, Committed
      <3>2. cr[c].pc \notin {"store", "bsf"} => cr[c].pc \in Committed /\ cr'[c].bsf = cr[c].bsf
        BY <1>1, <1>3, <2>2, CreateNames DEF CreateBind
      <3> QED
        BY <1>3, <2>2, <3>1, <3>2 DEF Claim
    <2> QED
      BY <2>1, <2>2
  <1>4. ASSUME Settled(s)', sessions'[s].ip = a, sessions'[s].bsf = b
        PROVE  \/ Claim(s, a, b)
               \/ /\ cr[c].pc \in {"store", "bsf"} /\ s = sidOf(c) /\ a = cr[c].ip
                  /\ b \in {cr[c].bsf, cr'[c].bsf} /\ cr'[c].pc # "undo"
    <2>1. CASE sessions'[s] = sessions[s]
      BY <1>2, <1>4, <2>1 DEF Claim, Settled, Stored
    <2>2. CASE Writes(c, s) /\ cr[c].pc # "store"
      BY <1>4, <2>2 DEF Writes, record, Claim
    <2>3. CASE Writes(c, s) /\ cr[c].pc = "store" /\ sessions'[s] # sessions[s]
      <3>1. CreateStore(c)
        BY <2>3 DEF CreateStep, CreatePolicy, CreateCheck, PoolLock, PoolGetFree, PoolGetTaken, PoolPut,
             CreateN4, CreateUndo, CreateBind, CreateBindPut, CreateCharge, CreateChargePut, CreateIncGet,
             CreateIncPut
      <3>2. cr'[c].pc # "undo"
        BY <2>3, <3>1, StoreEffect DEF TypeInv, Commits, At, Committed
      <3> QED
        BY <1>4, <2>3, <3>2 DEF Writes, record
    <2> QED
      BY <2>1, <2>2, <2>3, CreateWrites
  <1>5. ASSUME NEW x \in Ops, op'[x].pc \in Carrying, op'[x].sid = s, op'[x].rec.ip = a, op'[x].rec.bsf = b
        PROVE  Claim(s, a, b)
    BY <1>2, <1>5 DEF Claim
  <1> QED
    BY <1>3, <1>4, <1>5 DEF Claim

LEMMA BeginsClaims ==
    ASSUME TypeInv, Begins, NEW s \in SessionIDs, NEW a, NEW b, Claim(s, a, b)'
    PROVE  Claim(s, a, b)
  <1>1. UNCHANGED sessions
    BY BeginsEffect DEF redisVars
  <1>2. ASSUME NEW x \in Ops
        PROVE  op'[x] = op[x] \/ (op[x].pc = "idle" /\ op'[x].pc \in {"uGet", "rGet"})
    BY BeginsEffect DEF OpAlone
  <1>3. ASSUME NEW c \in Creates, cr'[c].pc \in Committed
        PROVE  /\ cr[c].pc \in Committed /\ sidOf(c)' = sidOf(c) /\ cr'[c].ip = cr[c].ip
               /\ cr'[c].bsf = cr[c].bsf
    <2>1. CASE UNCHANGED cr
      BY <1>3, <2>1 DEF sidOf
    <2>2. CASE \E d \in Creates, r \in Replicas, u \in Supis : CreateStart(d, r, u)
      BY <1>3, <2>2, StartEffect DEF TypeInv, Alone, Committed, sidOf
    <2>3. CASE \E r \in Replicas : Restart(r)
      BY <1>3, <2>3, RestartEffect DEF TypeInv, Committed, sidOf
    <2> QED
      BY <2>1, <2>2, <2>3 DEF Begins, ReleaseStart, UpdateStart
  <1>4. Settled(s)' => Settled(s)
    BY <1>1, <1>2 DEF Settled, Stored, AddressFreed
  <1>5. \A x \in Ops : op'[x].pc \in Carrying => op'[x] = op[x]
    BY <1>2 DEF Carrying
  <1> QED
    BY <1>1, <1>3, <1>4, <1>5 DEF Claim

LEMMA LedKept ==
    ASSUME UNCHANGED byIP, overtook \subseteq overtook', NEW a, NEW b,
           Deregistering(a)' => Deregistering(a), Led(a, b)
    PROVE  Led(a, b)'
  BY DEF Led

LEMMA SameOps ==
    ASSUME UNCHANGED <<op, byIP>>, overtook \subseteq overtook'
    PROVE  \A a, b : Led(a, b) => Led(a, b)'
  BY DEF Led, Deregistering

\* A create that does not change who has which address.
LEMMA ClaimQuietCreate ==
    ASSUME TypeInv, FieldInv, HolderInv, ClaimInv, NEW c \in Creates, CreateStep(c),
           cr[c].pc # "bsf", cr[c].pc = "poolPut" => cr'[c].pc # "n4",
           cr[c].pc = "store" => cr'[c].pc = "undo", cr[c].pc # "undo",
           half \subseteq half', spoiled \subseteq spoiled', overtook \subseteq overtook', UNCHANGED indexVars
    PROVE  HolderInv' /\ ClaimInv'
  <1>1. /\ Alone(c) /\ cr'[c].supi = cr[c].supi
        /\ cr'[c].pc \in Holding => cr[c].pc \in Holding \cup {"poolPut"} /\ cr'[c].ip = cr[c].ip
        /\ cr[c].pc \in Committed => cr'[c].pc \in Committed \cup {"done"} /\ cr'[c].seid = cr[c].seid
    BY CreateProgress
  <1>2. UNCHANGED op /\ \A d \in Creates : d # c => cr'[d] = cr[d]
    BY <1>1 DEF Alone
  <1>3. cr'[c].bsf = cr[c].bsf
    BY CreateNames DEF CreateBind
  <1>4. cr'[c].pc \in Holding => cr[c].pc # "poolPut"
    <2>1. cr[c].pc = "poolPut" => PoolPut(c)
      BY DEF CreateStep, CreatePolicy, CreateCheck, PoolLock, PoolGetFree, PoolGetTaken, CreateStore,
             CreateN4, CreateUndo, CreateBind, CreateBindPut, CreateCharge, CreateChargePut, CreateIncGet,
             CreateIncPut
    <2> QED
      BY <2>1, PoolPutEffect DEF TypeInv, At, Holding, Uncommitted, Committed
  <1>5. allocated \subseteq allocated'
    BY DEF CreateStep, CreatePolicy, CreateCheck, PoolLock, PoolGetFree, PoolGetTaken, PoolPut, CreateStore,
             CreateN4, CreateUndo, CreateBind, CreateBindPut, CreateCharge, CreateChargePut, CreateIncGet,
             CreateIncPut, redisVars
  <1>6. ASSUME NEW s \in SessionIDs \ half', NEW a \in IPs \cup {NoIP}, NEW b \in Creates \cup {None},
               Claim(s, a, b)'
        PROVE  Claim(s, a, b)
    BY <1>6, CreateClaims
  <1>7. ASSUME NEW d \in Creates, cr'[d].pc \in Holding
        PROVE  /\ cr[d].pc \in Holding /\ cr'[d].ip = cr[d].ip /\ cr'[d].bsf = cr[d].bsf
               /\ cr[d].pc \in Committed => cr'[d].pc \in Committed /\ sidOf(d)' = sidOf(d)
    <2>1. CASE d # c
      BY <1>2, <1>7, <2>1 DEF sidOf
    <2>2. CASE d = c
      BY <1>1, <1>3, <1>4, <1>7, <2>2 DEF sidOf, Holding, Uncommitted, Committed
    <2> QED
      BY <2>1, <2>2
  <1>8. \A a \in IPs, b \in Creates : Led(a, b) => Led(a, b)'
    BY <1>2, SameOps DEF indexVars
  <1> QED
    BY <1>5, <1>6, <1>7, <1>8, ClaimKept

\* A create reserves an address: nobody has it, or it is noted.
LEMMA ClaimReserve ==
    ASSUME TypeInv, FieldInv, HolderInv, ClaimInv, NEW c \in Creates, PoolPut(c), cr'[c].pc = "n4",
           half \subseteq half', NoteSpoiled, overtook \subseteq overtook', UNCHANGED indexVars
    PROVE  HolderInv' /\ ClaimInv'
  <1> DEFINE ip == cr[c].ip
  <1>0. CreateStep(c)
    BY DEF CreateStep
  <1>1. /\ Alone(c) /\ cr[c].pc = "poolPut" /\ cr'[c].ip = ip /\ allocated' = allocated \cup {ip}
    BY PoolPutEffect DEF TypeInv, At, Keeps
  <1>2. UNCHANGED op /\ \A d \in Creates : d # c => cr'[d] = cr[d]
    BY <1>1 DEF Alone
  <1>3. spoiled \subseteq spoiled' /\ (ip \in allocated => ip \in spoiled')
    BY <1>1 DEF NoteSpoiled, Retaken
  <1>4. cr'[c].bsf = None
    <2>1. cr[c].bsf = None
      BY <1>1 DEF FieldInv, Past
    <2> QED
      BY <1>0, <1>1, <2>1, CreateNames DEF CreateBind
  <1>5. \A a, b : Led(a, b) => Led(a, b)'
    BY <1>2, SameOps DEF indexVars
  <1>6. ASSUME NEW s \in SessionIDs, NEW a, NEW b, Claim(s, a, b)' PROVE Claim(s, a, b)
    BY <1>0, <1>1, <1>6, CreateClaims
  <1>7. HolderInv'
    <2> SUFFICES ASSUME NEW d \in Creates, cr'[d].pc \in Holding, cr'[d].ip \notin spoiled'
                 PROVE  /\ cr'[d].ip \in allocated'
                        /\ \A e \in Creates : cr'[e].pc \in Holding /\ cr'[e].ip = cr'[d].ip => e = d
                        /\ cr'[d].bsf # None => Led(cr[d].ip, cr[d].bsf)'
      BY DEF HolderInv
    <2>1. CASE d = c
      <3>1. ip \notin allocated
        BY <1>1, <1>3, <2>1
      <3>2. \A e \in Creates : e # c /\ cr[e].pc \in Holding => cr[e].ip # ip
        BY <1>1, <1>3, <2>1, <3>1 DEF HolderInv
      <3> QED
        BY <1>1, <1>2, <1>4, <2>1, <3>2
    <2>2. CASE d # c
      <3>1. /\ cr'[d] = cr[d] /\ cr[d].ip \in allocated
            /\ \A e \in Creates : cr[e].pc \in Holding /\ cr[e].ip = cr[d].ip => e = d
            /\ cr[d].bsf # None => Led(cr[d].ip, cr[d].bsf)
        BY <1>2, <1>3, <2>2 DEF HolderInv
      <3>2. cr[d].ip # ip
        BY <1>3, <3>1
      <3>3. cr'[d].bsf # None => Led(cr[d].ip, cr[d].bsf)'
        BY <1>2, <3>1 DEF Led, Deregistering, indexVars
      <3> QED
        BY <1>1, <1>2, <3>1, <3>2, <3>3
    <2> QED
      BY <2>1, <2>2
  <1>8. ClaimInv'
    <2> SUFFICES ASSUME NEW s \in SessionIDs \ half', NEW a \in (IPs \cup {NoIP}) \ spoiled',
                        NEW b \in Creates \cup {None}, Claim(s, a, b)'
                 PROVE  /\ a \in allocated'
                        /\ b # None => Led(a, b)'
                        /\ \A t \in SessionIDs \ half', d \in Creates \cup {None} : Claim(t, a, d)' => t = s
                        /\ \A d \in Creates : cr'[d].pc \in Holding /\ cr'[d].ip = a =>
                             cr'[d].pc \in Committed /\ sidOf(d)' = s /\ b \in {None, cr'[d].bsf}
      BY DEF ClaimInv
    <2>1. Claim(s, a, b) /\ s \in SessionIDs \ half /\ a \in (IPs \cup {NoIP}) \ spoiled
      BY <1>3, <1>6
    <2>2. /\ a \in allocated
          /\ b # None => Led(a, b)
          /\ \A t \in SessionIDs \ half, d \in Creates \cup {None} : Claim(t, a, d) => t = s
          /\ \A d \in Creates : cr[d].pc \in Holding /\ cr[d].ip = a =>
                cr[d].pc \in Committed /\ sidOf(d) = s /\ b \in {None, cr[d].bsf}
      BY <2>1 DEF ClaimInv
    <2>3. a # ip
      BY <1>3, <2>2
    <2>4. \A t \in SessionIDs \ half', d \in Creates \cup {None} : Claim(t, a, d)' => t = s
      BY <1>6, <2>2
    <2> QED
      BY <1>1, <1>2, <1>5, <2>2, <2>3, <2>4 DEF sidOf
  <1> QED
    BY <1>7, <1>8

\* A create stores its record: its own address becomes the session's.
LEMMA ClaimStore ==
    ASSUME TypeInv, FieldInv, HolderInv, ClaimInv, NEW c \in Creates, CreateStore(c), cr'[c].pc # "undo",
           half \subseteq half', spoiled \subseteq spoiled', overtook \subseteq overtook', UNCHANGED indexVars
    PROVE  HolderInv' /\ ClaimInv'
  <1> DEFINE ip == cr[c].ip
             own == sidOf(c)
  <1>0. CreateStep(c)
    BY DEF CreateStep
  <1>1. /\ Alone(c) /\ cr[c].pc = "store" /\ cr[c].pc \in Holding
        /\ cr'[c].pc \in Committed \cup {"done"} /\ cr'[c].ip = ip
        /\ cr'[c].supi = cr[c].supi /\ cr'[c].seid = cr[c].seid /\ UNCHANGED allocated
    BY StoreEffect DEF TypeInv, At, Keeps, Commits, Holding, Uncommitted
  <1>2. UNCHANGED op /\ \A d \in Creates : d # c => cr'[d] = cr[d]
    BY <1>1 DEF Alone
  <1>3. cr[c].bsf = None /\ cr'[c].bsf = None
    <2>1. cr[c].bsf = None
      BY <1>1 DEF FieldInv, Past
    <2> QED
      BY <1>0, <1>1, <2>1, CreateNames DEF CreateBind
  <1>4. \A a, b : Led(a, b) => Led(a, b)'
    BY <1>2, SameOps DEF indexVars
  <1>5. ASSUME NEW s \in SessionIDs, NEW a, NEW b, Claim(s, a, b)'
        PROVE  Claim(s, a, b) \/ (s = own /\ a = ip /\ b = None)
    BY <1>0, <1>3, <1>5, CreateClaims
  <1>6. ip \notin spoiled =>
          /\ ip \in allocated
          /\ \A d \in Creates : cr[d].pc \in Holding /\ cr[d].ip = ip => d = c
          /\ \A s \in SessionIDs \ half, b \in Creates \cup {None} : ~Claim(s, ip, b)
    <2>1. ip \in IPs /\ cr[c].pc \notin Committed
      BY <1>1 DEF FieldInv, Committed
    <2> QED
      BY <1>1, <2>1 DEF HolderInv, ClaimInv
  <1>7. HolderInv'
    <2> SUFFICES ASSUME NEW d \in Creates, cr'[d].pc \in Holding, cr'[d].ip \notin spoiled'
                 PROVE  /\ cr'[d].ip \in allocated'
                        /\ \A e \in Creates : cr'[e].pc \in Holding /\ cr'[e].ip = cr'[d].ip => e = d
                        /\ cr'[d].bsf # None => Led(cr[d].ip, cr[d].bsf)'
      BY DEF HolderInv
    <2>1. CASE d = c
      BY <1>1, <1>2, <1>3, <1>6, <2>1
    <2>2. CASE d # c
      <3>1. /\ cr'[d] = cr[d] /\ cr[d].ip \in allocated
            /\ \A e \in Creates : cr[e].pc \in Holding /\ cr[e].ip = cr[d].ip => e = d
            /\ cr[d].bsf # None => Led(cr[d].ip, cr[d].bsf)
        BY <1>2, <2>2 DEF HolderInv
      <3>2. cr[d].ip # ip
        BY <1>1, <2>2, <3>1
      <3>3. cr'[d].bsf # None => Led(cr[d].ip, cr[d].bsf)'
        BY <1>2, <3>1 DEF Led, Deregistering, indexVars
      <3> QED
        BY <1>1, <1>2, <3>1, <3>2, <3>3
    <2> QED
      BY <2>1, <2>2
  <1>8. ClaimInv'
    <2> SUFFICES ASSUME NEW s \in SessionIDs \ half', NEW a \in (IPs \cup {NoIP}) \ spoiled',
                        NEW b \in Creates \cup {None}, Claim(s, a, b)'
                 PROVE  /\ a \in allocated'
                        /\ b # None => Led(a, b)'
                        /\ \A t \in SessionIDs \ half', d \in Creates \cup {None} : Claim(t, a, d)' => t = s
                        /\ \A d \in Creates : cr'[d].pc \in Holding /\ cr'[d].ip = a =>
                             cr'[d].pc \in Committed /\ sidOf(d)' = s /\ b \in {None, cr'[d].bsf}
      BY DEF ClaimInv
    <2>1. CASE a # ip
      <3>1. Claim(s, a, b) /\ s \in SessionIDs \ half /\ a \in (IPs \cup {NoIP}) \ spoiled
        BY <1>5, <2>1
      <3>2. /\ a \in allocated
            /\ b # None => Led(a, b)
            /\ \A t \in SessionIDs \ half, d \in Creates \cup {None} : Claim(t, a, d) => t = s
            /\ \A d \in Creates : cr[d].pc \in Holding /\ cr[d].ip = a =>
                  cr[d].pc \in Committed /\ sidOf(d) = s /\ b \in {None, cr[d].bsf}
        BY <3>1 DEF ClaimInv
      <3>3. \A t \in SessionIDs \ half', d \in Creates \cup {None} : Claim(t, a, d)' => t = s
        BY <1>5, <2>1, <3>2
      <3> QED
        BY <1>1, <1>2, <1>4, <2>1, <3>2, <3>3 DEF sidOf
    <2>2. CASE a = ip
      <3>1. s = own /\ b = None
        BY <1>5, <1>6, <2>2
      <3>2. \A t \in SessionIDs \ half', d \in Creates \cup {None} : Claim(t, a, d)' => t = s
        BY <1>5, <1>6, <2>2, <3>1
      <3>3. ASSUME NEW d \in Creates, cr'[d].pc \in Holding, cr'[d].ip = a
            PROVE  cr'[d].pc \in Committed /\ sidOf(d)' = s /\ b \in {None, cr'[d].bsf}
        <4>1. d = c
          BY <1>2, <1>6, <2>2, <3>3
        <4> QED
          BY <1>1, <3>1, <3>3, <4>1 DEF sidOf, Holding, Uncommitted, Committed
      <3> QED
        BY <1>1, <1>6, <2>2, <3>1, <3>2, <3>3
    <2> QED
      BY <2>1, <2>2
  <1> QED
    BY <1>7, <1>8

\* A create undoes its reservation: it is its own.
LEMMA ClaimUndo ==
    ASSUME TypeInv, FieldInv, HolderInv, ClaimInv, NEW c \in Creates, CreateUndo(c),
           half \subseteq half', spoiled \subseteq spoiled', overtook \subseteq overtook', UNCHANGED indexVars
    PROVE  HolderInv' /\ ClaimInv'
  <1> DEFINE ip == cr[c].ip
  <1>0. CreateStep(c)
    BY DEF CreateStep
  <1>1. /\ Alone(c) /\ cr[c].pc = "undo" /\ cr[c].pc \in Holding /\ cr'[c].pc \notin Holding
        /\ allocated \ {ip} \subseteq allocated'
    BY UndoEffect DEF TypeInv, At, Holding, Uncommitted, Committed
  <1>2. UNCHANGED op /\ \A d \in Creates : d # c => cr'[d] = cr[d]
    BY <1>1 DEF Alone
  <1>4. \A a, b : Led(a, b) => Led(a, b)'
    BY <1>2, SameOps DEF indexVars
  <1>5. ASSUME NEW s \in SessionIDs, NEW a, NEW b, Claim(s, a, b)'
        PROVE  Claim(s, a, b)
    BY <1>0, <1>1, <1>5, CreateClaims
  <1>6. ip \notin spoiled =>
          /\ \A d \in Creates : cr[d].pc \in Holding /\ cr[d].ip = ip => d = c
          /\ \A s \in SessionIDs \ half, b \in Creates \cup {None} : ~Claim(s, ip, b)
    <2>1. ip \in IPs /\ cr[c].pc \notin Committed
      BY <1>1 DEF FieldInv, Committed
    <2> QED
      BY <1>1, <2>1 DEF HolderInv, ClaimInv
  <1>7. HolderInv'
    <2> SUFFICES ASSUME NEW d \in Creates, cr'[d].pc \in Holding, cr'[d].ip \notin spoiled'
                 PROVE  /\ cr'[d].ip \in allocated'
                        /\ \A e \in Creates : cr'[e].pc \in Holding /\ cr'[e].ip = cr'[d].ip => e = d
                        /\ cr'[d].bsf # None => Led(cr[d].ip, cr[d].bsf)'
      BY DEF HolderInv
    <2>1. d # c
      BY <1>1
    <2>2. /\ cr'[d] = cr[d] /\ cr[d].ip \in allocated
          /\ \A e \in Creates : cr[e].pc \in Holding /\ cr[e].ip = cr[d].ip => e = d
          /\ cr[d].bsf # None => Led(cr[d].ip, cr[d].bsf)
      BY <1>2, <2>1 DEF HolderInv
    <2>3. cr[d].ip # ip
      BY <1>1, <2>1, <2>2
    <2>4. cr'[d].bsf # None => Led(cr[d].ip, cr[d].bsf)'
      BY <1>2, <2>2 DEF Led, Deregistering, indexVars
    <2> QED
      BY <1>1, <1>2, <2>1, <2>2, <2>3, <2>4
  <1>8. ClaimInv'
    <2> SUFFICES ASSUME NEW s \in SessionIDs \ half', NEW a \in (IPs \cup {NoIP}) \ spoiled',
                        NEW b \in Creates \cup {None}, Claim(s, a, b)'
                 PROVE  /\ a \in allocated'
                        /\ b # None => Led(a, b)'
                        /\ \A t \in SessionIDs \ half', d \in Creates \cup {None} : Claim(t, a, d)' => t = s
                        /\ \A d \in Creates : cr'[d].pc \in Holding /\ cr'[d].ip = a =>
                             cr'[d].pc \in Committed /\ sidOf(d)' = s /\ b \in {None, cr'[d].bsf}
      BY DEF ClaimInv
    <2>1. Claim(s, a, b) /\ s \in SessionIDs \ half /\ a \in (IPs \cup {NoIP}) \ spoiled /\ a # ip
      BY <1>5, <1>6
    <2>2. /\ a \in allocated
          /\ b # None => Led(a, b)
          /\ \A t \in SessionIDs \ half, d \in Creates \cup {None} : Claim(t, a, d) => t = s
          /\ \A d \in Creates : cr[d].pc \in Holding /\ cr[d].ip = a =>
                cr[d].pc \in Committed /\ sidOf(d) = s /\ b \in {None, cr[d].bsf}
      BY <2>1 DEF ClaimInv
    <2>3. \A t \in SessionIDs \ half', d \in Creates \cup {None} : Claim(t, a, d)' => t = s
      BY <1>5, <2>2
    <2> QED
      BY <1>1, <1>2, <1>4, <2>1, <2>2, <2>3 DEF sidOf
  <1> QED
    BY <1>7, <1>8

\* A create registers its binding: the index of its address leads to it.
LEMMA ClaimRegister ==
    ASSUME TypeInv, FieldInv, IndexInv, HolderInv, ClaimInv, NEW c \in Creates, Register(c),
           half \subseteq half', spoiled \subseteq spoiled', NoteOvertaking
    PROVE  HolderInv' /\ ClaimInv'
  <1> DEFINE ip == cr[c].ip
             own == sidOf(c)
  <1>1. /\ CreateStep(c) /\ cr[c].pc = "bsf" /\ cr[c].bsf = None /\ ip \in IPs
        /\ cr'[c].pc \in Committed \cup {"done"}
        /\ cr'[c].ip = ip /\ cr'[c].supi = cr[c].supi /\ cr'[c].seid = cr[c].seid
        /\ \/ byIP' = byIP
           \/ c \in bindings' /\ byIP' = [byIP EXCEPT ![ip] = c]
        /\ \/ cr'[c].bsf = None
           \/ cr'[c].bsf = c /\ c \in bindings' /\ byIP' = [byIP EXCEPT ![ip] = c]
        /\ UNCHANGED <<allocated, op>>
    BY RegisterEffect DEF redisVars
  <1>2. cr[c].pc \in Holding /\ \A d \in Creates : d # c => cr'[d] = cr[d]
    BY <1>1, CreateProgress DEF Alone, Holding, Committed
  <1>3. byIP \in [IPs -> Creates \cup {None}] /\ c \notin bindings /\ overtook \subseteq overtook'
    BY <1>1 DEF IndexInv, Past, NoteOvertaking
  <1>4. cr'[c].bsf # None => Led(ip, c)'
    <2>1. c \in bindings' /\ Deregistering(ip) => c \in overtook'
      BY <1>3 DEF NoteOvertaking
    <2>2. Deregistering(ip)' <=> Deregistering(ip)
      BY <1>1 DEF Deregistering
    <2> QED
      BY <1>1, <1>3, <2>1, <2>2 DEF Led
  <1>5. ASSUME NEW a \in IPs, a # ip, NEW b, Led(a, b) PROVE Led(a, b)'
    <2>1. byIP'[a] = byIP[a]
      BY <1>1, <1>3, <1>5
    <2> QED
      BY <1>1, <1>3, <1>5, <2>1 DEF Led, Deregistering
  <1>6. ASSUME NEW s \in SessionIDs, NEW a, NEW b, Claim(s, a, b)'
        PROVE  Claim(s, a, b) \/ (s = own /\ a = ip /\ b \in {None, cr'[c].bsf})
    BY <1>1, <1>6, CreateClaims
  <1>7. ip \notin spoiled =>
          /\ ip \in allocated
          /\ \A d \in Creates : cr[d].pc \in Holding /\ cr[d].ip = ip => d = c
          /\ \A s \in SessionIDs \ half, b \in Creates \cup {None} : Claim(s, ip, b) => s = own /\ b = None
    BY <1>1, <1>2 DEF HolderInv, ClaimInv
  <1>8. HolderInv'
    <2> SUFFICES ASSUME NEW d \in Creates, cr'[d].pc \in Holding, cr'[d].ip \notin spoiled'
                 PROVE  /\ cr'[d].ip \in allocated'
                        /\ \A e \in Creates : cr'[e].pc \in Holding /\ cr'[e].ip = cr'[d].ip => e = d
                        /\ cr'[d].bsf # None => Led(cr[d].ip, cr[d].bsf)'
      BY DEF HolderInv
    <2>1. CASE d = c
      <3>1. cr'[c].bsf # None => Led(cr[c].ip, cr[c].bsf)'
        BY <1>1, <1>4 DEF Led, Deregistering
      <3> QED
        BY <1>1, <1>2, <1>7, <2>1, <3>1
    <2>2. CASE d # c
      <3>1. /\ cr'[d] = cr[d] /\ cr[d].ip \in allocated /\ cr[d].ip \in IPs
            /\ \A e \in Creates : cr[e].pc \in Holding /\ cr[e].ip = cr[d].ip => e = d
            /\ cr[d].bsf # None => Led(cr[d].ip, cr[d].bsf)
        BY <1>2, <2>2 DEF HolderInv, FieldInv
      <3>2. cr[d].ip # ip
        BY <1>2, <2>2, <3>1
      <3>3. cr'[d].bsf # None => Led(cr[d].ip, cr[d].bsf)'
        <4>1. ASSUME NEW a \in IPs, NEW b, a = cr[d].ip, b = cr[d].bsf, Led(a, b)'
              PROVE  Led(cr[d].ip, cr[d].bsf)'
          BY <3>1, <4>1 DEF Led, Deregistering
        <4> QED
          BY <1>5, <3>1, <3>2, <4>1
      <3> QED
        BY <1>1, <1>2, <3>1, <3>2, <3>3
    <2> QED
      BY <2>1, <2>2
  <1>9. ClaimInv'
    <2> SUFFICES ASSUME NEW s \in SessionIDs \ half', NEW a \in (IPs \cup {NoIP}) \ spoiled',
                        NEW b \in Creates \cup {None}, Claim(s, a, b)'
                 PROVE  /\ a \in allocated'
                        /\ b # None => Led(a, b)'
                        /\ \A t \in SessionIDs \ half', d \in Creates \cup {None} : Claim(t, a, d)' => t = s
                        /\ \A d \in Creates : cr'[d].pc \in Holding /\ cr'[d].ip = a =>
                             cr'[d].pc \in Committed /\ sidOf(d)' = s /\ b \in {None, cr'[d].bsf}
      BY DEF ClaimInv
    <2>1. CASE a # ip
      <3>1. Claim(s, a, b) /\ s \in SessionIDs \ half /\ a \in (IPs \cup {NoIP}) \ spoiled
        BY <1>6, <2>1
      <3>2. /\ a \in allocated /\ allocated \subseteq IPs
            /\ b # None => Led(a, b)
            /\ \A t \in SessionIDs \ half, d \in Creates \cup {None} : Claim(t, a, d) => t = s
            /\ \A d \in Creates : cr[d].pc \in Holding /\ cr[d].ip = a =>
                  cr[d].pc \in Committed /\ sidOf(d) = s /\ b \in {None, cr[d].bsf}
        BY <3>1 DEF ClaimInv, TypeInv, TypeOK
      <3>3. \A t \in SessionIDs \ half', d \in Creates \cup {None} : Claim(t, a, d)' => t = s
        BY <1>6, <2>1, <3>2
      <3>4. ASSUME NEW d \in Creates, cr'[d].pc \in Holding, cr'[d].ip = a
            PROVE  cr'[d].pc \in Committed /\ sidOf(d)' = s /\ b \in {None, cr'[d].bsf}
        <4>1. d # c
          BY <1>1, <2>1, <3>4
        <4> QED
          BY <1>2, <3>2, <3>4, <4>1 DEF sidOf
      <3> QED
        BY <1>1, <1>5, <2>1, <3>2, <3>3, <3>4
    <2>2. CASE a = ip
      <3>1. s = own /\ b \in {None, cr'[c].bsf}
        BY <1>6, <1>7, <2>2
      <3>2. \A t \in SessionIDs \ half', d \in Creates \cup {None} : Claim(t, a, d)' => t = s
        BY <1>6, <1>7, <2>2, <3>1
      <3>3. ASSUME NEW d \in Creates, cr'[d].pc \in Holding, cr'[d].ip = a
            PROVE  cr'[d].pc \in Committed /\ sidOf(d)' = s /\ b \in {None, cr'[d].bsf}
        <4>1. d = c
          BY <1>2, <1>7, <2>2, <3>3
        <4> QED
          BY <1>1, <3>1, <3>3, <4>1 DEF sidOf, Holding, Uncommitted, Committed
      <3>4. b # None => Led(a, b)'
        <4>1. b # None => b = c
          BY <1>1, <3>1
        <4> QED
          BY <1>1, <1>4, <2>2, <3>1, <4>1 DEF Led, Deregistering
      <3> QED
        BY <1>1, <1>7, <2>2, <3>1, <3>2, <3>3, <3>4
    <2> QED
      BY <2>1, <2>2
  <1> QED
    BY <1>8, <1>9

\* An operation that does not free the address.
LEMMA ClaimOp ==
    ASSUME TypeInv, FieldInv, IndexInv, SerialOps, HolderInv, ClaimInv, NEW x \in Ops,
           \/ (OpStep(x) \/ OpCrash(x)) /\ op[x].pc # "rIP" /\ UNCHANGED indexVars
           \/ OpCrash(x) /\ UNCHANGED indexVars
           \/ Deregister(x),
           NoteHalf, spoiled \subseteq spoiled', overtook \subseteq overtook'
    PROVE  HolderInv' /\ ClaimInv'
  <1>0. OpStep(x) \/ OpCrash(x)
    BY DeregisterEffect
  <1>1. OpAlone(x) /\ op'[x].sid = op[x].sid /\ (op'[x].pc \in Fetched => Fetches(x) \/ Holds(x))
    BY <1>0, OpProgress
  <1>2. UNCHANGED <<cr, allocated>>
    <2>1. UNCHANGED cr
      BY <1>1 DEF OpAlone
    <2>2. op[x].pc # "rIP" \/ OpCrash(x)
      BY DeregisterEffect
    <2> QED
      BY <1>0, <2>1, <2>2 DEF OpStep, OpCrash, UpdateGet, UpdateN4, UpdatePut, ReleaseGet, ReleaseN4, ReleaseIP,
         ReleaseCharge, ReleaseBind, ReleaseDecGet, ReleaseDecPut, ReleaseDelete, OpGet, redisVars
  <1>3. half \subseteq half'
    BY DEF NoteHalf
  <1>4. \A s \in SessionIDs \ half', a \in IPs \cup {NoIP}, b \in Creates \cup {None} :
           Claim(s, a, b)' => Claim(s, a, b)
    BY <1>0, OpClaims
  <1>5. ASSUME NEW a, Deregistering(a)' PROVE Deregistering(a)
    <2>1. PICK y \in Ops : op'[y].pc \in {"rChf", "rBsf"} /\ op'[y].rec.ip = a
      BY <1>5 DEF Deregistering
    <2>2. CASE y # x
      BY <1>1, <2>1, <2>2 DEF OpAlone, Deregistering
    <2>3. CASE y = x
      <3>1. op[x].pc \in {"rChf", "rIP"}
        BY <1>0, <2>1, <2>3, OpOrder
      <3>2. op[x].pc # "rIP"
        BY <2>1, <2>3, <3>1, DeregisterEffect, OpCrashEffect DEF TypeInv
      <3>3. op'[x].rec = op[x].rec
        BY <1>1, <2>1, <2>3, <3>1 DEF Fetched, AddressFreed, Fetches, Holds
      <3> QED
        BY <2>1, <2>3, <3>1, <3>2, <3>3 DEF Deregistering
    <2> QED
      BY <2>2, <2>3
  <1>6. ASSUME NEW a \in IPs, NEW b \in Creates, Led(a, b) PROVE Led(a, b)'
    <2>1. CASE byIP'[a] = byIP[a]
      BY <1>5, <1>6, <2>1 DEF Led
    <2>2. CASE byIP'[a] # byIP[a]
      <3>1. Deregister(x) /\ byIP' = [byIP EXCEPT ![op[x].rec.ip] = None] /\ op[x].pc = "rBsf"
        BY <2>2, DeregisterEffect DEF indexVars
      <3>2. a = op[x].rec.ip /\ byIP'[a] = None
        BY <2>2, <3>1 DEF IndexInv
      <3>3. b \in overtook
        BY <1>6, <3>1, <3>2 DEF Led, Deregistering
      <3> QED
        BY <3>2, <3>3 DEF Led
    <2> QED
      BY <2>1, <2>2
  <1>7. \A c \in Creates : cr'[c].pc \in Holding =>
          /\ cr[c].pc \in Holding /\ cr'[c].ip = cr[c].ip /\ cr'[c].bsf = cr[c].bsf
          /\ cr[c].pc \in Committed => cr'[c].pc \in Committed /\ sidOf(c)' = sidOf(c)
    BY <1>2 DEF sidOf
  <1> QED
    BY <1>2, <1>3, <1>4, <1>6, <1>7, ClaimKept

\* A release frees the address: its session was alone to claim it, and does
\* so no more, or it is noted.
LEMMA ClaimFree ==
    ASSUME TypeInv, FieldInv, SerialOps, HolderInv, ClaimInv, NEW x \in Ops, ReleaseIP(x),
           NoteHalf, NoteSpoiled, overtook \subseteq overtook', UNCHANGED indexVars
    PROVE  HolderInv' /\ ClaimInv'
  <1> DEFINE ip == op[x].rec.ip
             own == op[x].sid
  <1>0. OpStep(x)
    BY DEF OpStep
  <1>1. /\ OpAlone(x) /\ op[x].pc = "rIP" /\ op'[x].pc \in AddressFreed
        /\ op'[x].sid = own /\ op'[x].rec = op[x].rec
        /\ allocated \ {ip} \subseteq allocated'
    BY ReleaseIPEffect DEF TypeInv, OpKeeps
  <1>2. UNCHANGED cr /\ \A y \in Ops : y # x => op'[y] = op[y]
    BY <1>1 DEF OpAlone
  <1>3. half \subseteq half' /\ spoiled \subseteq spoiled'
    BY DEF NoteHalf, NoteSpoiled
  <1>4. own \in SessionIDs /\ op[x].rec \in Session /\ ip \in IPs \cup {NoIP}
        /\ op[x].rec.bsf \in Creates \cup {None}
    BY <1>1 DEF TypeInv, TypeOK, LocalInv, OpState, Session
  <1>5. ip \notin spoiled' =>
          /\ own \notin half
          /\ \A c \in Creates : cr[c].pc \in Holding => cr[c].ip # ip
          /\ \A s \in SessionIDs \ half, b \in Creates \cup {None} : Claim(s, ip, b) => s = own
    <2> SUFFICES ASSUME ip \notin spoiled'
                 PROVE  /\ own \notin half
                        /\ \A c \in Creates : cr[c].pc \in Holding => cr[c].ip # ip
                        /\ \A s \in SessionIDs \ half, b \in Creates \cup {None} : Claim(s, ip, b) => s = own
      OBVIOUS
    <2>1. ~Snatched(x)
      BY DEF NoteSpoiled
    <2>2. own \notin half /\ \A c \in Creates : cr[c].pc \in Committed => cr[c].ip # ip
      BY <1>1, <2>1 DEF Snatched
    <2>3. Claim(own, ip, op[x].rec.bsf)
      BY <1>1 DEF Claim, Carrying
    <2>4. ip \in (IPs \cup {NoIP}) \ spoiled
      BY <1>3, <1>4
    <2>5. /\ \A t \in SessionIDs \ half, d \in Creates \cup {None} : Claim(t, ip, d) => t = own
          /\ \A c \in Creates : cr[c].pc \in Holding /\ cr[c].ip = ip => cr[c].pc \in Committed
      BY <1>4, <2>2, <2>3, <2>4 DEF ClaimInv
    <2> QED
      BY <2>2, <2>5
  <1>6. \A c \in Creates : cr[c].ip = ip /\ cr[c].pc \in Committed => ip \in spoiled'
    BY <1>5 DEF Holding
  <1>7. ASSUME NEW s, s = own, NEW a, a = ip, NEW b, Claim(s, a, b)' PROVE a \in spoiled'
    <2>1. ~Settled(s)'
      BY <1>1, <1>7 DEF Settled
    <2>2. \A y \in Ops : op'[y].pc \in Carrying => op'[y].sid # s
      <3>1. op'[x].pc \notin Carrying /\ OpRuns(x)
        BY <1>1 DEF Carrying, AddressFreed, OpRuns
      <3>2. \A y \in Ops : y # x /\ op[y].pc \in Carrying => op[y].sid # own
        BY <3>1 DEF SerialOps, OpRuns, Carrying
      <3> QED
        BY <1>2, <1>7, <3>1, <3>2
    <2>3. PICK c \in Creates : cr'[c].pc \in Committed /\ cr'[c].ip = a
      BY <1>7, <2>1, <2>2 DEF Claim
    <2> QED
      BY <1>2, <1>6, <1>7, <2>3
  <1>8. ASSUME NEW a, a # ip, NEW b, Led(a, b) PROVE Led(a, b)'
    <2>1. Deregistering(a)' => Deregistering(a)
      BY <1>1, <1>2, <1>8 DEF Deregistering
    <2> QED
      BY <1>8, <2>1, LedKept DEF indexVars
  <1>9. HolderInv'
    <2> SUFFICES ASSUME NEW c \in Creates, cr[c].pc \in Holding, cr[c].ip \notin spoiled'
                 PROVE  /\ cr[c].ip \in allocated'
                        /\ \A d \in Creates : cr[d].pc \in Holding /\ cr[d].ip = cr[c].ip => d = c
                        /\ cr[c].bsf # None => Led(cr[c].ip, cr[c].bsf)'
      BY <1>2 DEF HolderInv
    <2>1. cr[c].ip # ip
      BY <1>5
    <2>2. /\ cr[c].ip \in allocated
          /\ \A d \in Creates : cr[d].pc \in Holding /\ cr[d].ip = cr[c].ip => d = c
          /\ cr[c].bsf # None => Led(cr[c].ip, cr[c].bsf)
      BY <1>3 DEF HolderInv
    <2>3. cr[c].bsf # None => Led(cr[c].ip, cr[c].bsf)'
      <3>1. ASSUME NEW a, NEW b, a = cr[c].ip, b = cr[c].bsf, Led(a, b)' PROVE Led(cr[c].ip, cr[c].bsf)'
        BY <1>2, <3>1 DEF Led, Deregistering
      <3> QED
        BY <1>8, <2>1, <2>2, <3>1
    <2> QED
      BY <1>1, <2>1, <2>2, <2>3
  <1>10. ClaimInv'
    <2> SUFFICES ASSUME NEW s \in SessionIDs \ half', NEW a \in (IPs \cup {NoIP}) \ spoiled',
                        NEW b \in Creates \cup {None}, Claim(s, a, b)'
                 PROVE  /\ a \in allocated'
                        /\ b # None => Led(a, b)'
                        /\ \A t \in SessionIDs \ half', d \in Creates \cup {None} : Claim(t, a, d)' => t = s
                        /\ \A c \in Creates : cr'[c].pc \in Holding /\ cr'[c].ip = a =>
                             cr'[c].pc \in Committed /\ sidOf(c)' = s /\ b \in {None, cr'[c].bsf}
      BY DEF ClaimInv
    <2>0. \A t \in SessionIDs \ half', d \in Creates \cup {None} : Claim(t, a, d)' => Claim(t, a, d)
      BY <1>0, OpClaims
    <2>1. Claim(s, a, b) /\ s \in SessionIDs \ half /\ a \in (IPs \cup {NoIP}) \ spoiled
      BY <1>3, <2>0
    <2>2. /\ a \in allocated
          /\ b # None => Led(a, b)
          /\ \A t \in SessionIDs \ half, d \in Creates \cup {None} : Claim(t, a, d) => t = s
          /\ \A c \in Creates : cr[c].pc \in Holding /\ cr[c].ip = a =>
                cr[c].pc \in Committed /\ sidOf(c) = s /\ b \in {None, cr[c].bsf}
      BY <2>1 DEF ClaimInv
    <2>3. a # ip
      BY <1>5, <1>7, <2>1
    <2>4. \A t \in SessionIDs \ half', d \in Creates \cup {None} : Claim(t, a, d)' => t = s
      BY <1>3, <2>0, <2>2
    <2>5. b # None => Led(a, b)'
      BY <1>8, <2>2, <2>3
    <2> QED
      BY <1>1, <1>2, <2>2, <2>3, <2>4, <2>5 DEF sidOf
  <1> QED
    BY <1>9, <1>10

LEMMA BeginsHolders ==
    ASSUME TypeInv, Begins, NEW c \in Creates, cr'[c].pc \notin {"pcf", "lock", "crashed"}
    PROVE  cr'[c] = cr[c]
  <1>1. CASE UNCHANGED cr
    BY <1>1
  <1>2. CASE \E d \in Creates, r \in Replicas, u \in Supis : CreateStart(d, r, u)
    BY <1>2, StartEffect DEF TypeInv, Alone
  <1>3. CASE \E r \in Replicas : Restart(r)
    <2>1. cr[c] \in CreateState
      BY DEF TypeInv, TypeOK
    <2> QED
      BY <1>3, <2>1 DEF Restart, CreateState
  <1> QED
    BY <1>1, <1>2, <1>3 DEF Begins, ReleaseStart, UpdateStart

LEMMA ClaimBegins ==
    ASSUME TypeInv, FieldInv, HolderInv, ClaimInv, Begins, UNCHANGED indexVars,
           half \subseteq half', spoiled \subseteq spoiled', overtook \subseteq overtook'
    PROVE  HolderInv' /\ ClaimInv'
  <1>1. UNCHANGED allocated
    BY BeginsEffect DEF redisVars
  <1>2. \A c \in Creates : cr'[c].pc \in Holding =>
          /\ cr[c].pc \in Holding /\ cr'[c].ip = cr[c].ip /\ cr'[c].bsf = cr[c].bsf
          /\ cr[c].pc \in Committed => cr'[c].pc \in Committed /\ sidOf(c)' = sidOf(c)
    BY BeginsHolders DEF Holding, Uncommitted, Committed, sidOf
  <1>3. ASSUME NEW a, Deregistering(a)' PROVE Deregistering(a)
    <2>1. \A x \in Ops : op'[x] = op[x] \/ op'[x].pc \in {"uGet", "rGet"}
      BY BeginsEffect DEF OpAlone
    <2> QED
      BY <1>3, <2>1 DEF Deregistering
  <1>4. \A a \in IPs, b \in Creates : Led(a, b) => Led(a, b)'
    BY <1>3, LedKept DEF indexVars
  <1>5. \A s \in SessionIDs \ half', a \in IPs \cup {NoIP}, b \in Creates \cup {None} :
           Claim(s, a, b)' => Claim(s, a, b)
    BY BeginsClaims
  <1> QED
    BY <1>1, <1>2, <1>4, <1>5, ClaimKept

LEMMA SerialNext ==
    ASSUME SerialClients, TypeInv, SerialOps, [Next]_vars
    PROVE  SerialOps'
  <1>1. CASE UNCHANGED op
    BY <1>1 DEF SerialOps, OpRuns
  <1>2. ASSUME NEW c \in Creates, CreateStep(c) PROVE SerialOps'
    BY <1>1, <1>2, CreateProgress DEF Alone
  <1>3. ASSUME NEW x \in Ops, OpStep(x) \/ OpCrash(x) PROVE SerialOps'
    BY <1>3, OpProgress DEF OpAlone, SerialOps, OpRuns
  <1>4. CASE Begins
    BY <1>1, <1>4, BeginsEffect DEF OpAlone, SerialOps, OpRuns, Busy
  <1> QED
    BY <1>1, <1>2, <1>3, <1>4 DEF Next, Begins, vars

\* What an address claimed by a session or held by a create promises, with
\* what it takes to keep the promise.
OwnerInv == TypeInv /\ FieldInv /\ IndexInv /\ SerialOps /\ HolderInv /\ ClaimInv

LEMMA OwnerInit == BackingInit => OwnerInv
  <1> SUFFICES ASSUME BackingInit PROVE OwnerInv
    OBVIOUS
  <1>1. TypeInv /\ FieldInv /\ IndexInv
    BY TypeInit, FieldInit, IndexInit DEF BackingInit
  <1>2. SerialOps
    BY DEF BackingInit, Init, SerialOps, OpRuns, IdleOp
  <1>3. HolderInv
    BY DEF BackingInit, Init, HolderInv, IdleCreate, Holding, Uncommitted, Committed
  <1>4. ClaimInv
    <2>1. \A s \in SessionIDs : ~Settled(s)
      BY DEF BackingInit, Init, Settled, Stored
    <2>2. \A x \in Ops : op[x].pc \notin Carrying
      BY DEF BackingInit, Init, IdleOp, Carrying
    <2>3. \A c \in Creates : cr[c].pc \notin Committed
      BY DEF BackingInit, Init, IdleCreate, Committed
    <2> QED
      BY <2>1, <2>2, <2>3 DEF ClaimInv, Claim
  <1> QED
    BY <1>1, <1>2, <1>3, <1>4 DEF OwnerInv

LEMMA OwnerNext ==
    ASSUME SerialClients, OwnerInv, [BackingNext]_backingVars
    PROVE  OwnerInv'
  <1> USE DEF OwnerInv
  <1>0. [Next]_vars
    BY BackingStep DEF backingVars
  <1>1. TypeInv' /\ FieldInv' /\ IndexInv' /\ SerialOps'
    BY <1>0, TypeNext, FieldNext, IndexNext, SerialNext
  <1>2. /\ half \subseteq half' /\ spoiled \subseteq spoiled' /\ overtook \subseteq overtook'
    BY HistoryGrows
  <1>3. CASE UNCHANGED backingVars
    <2>1. UNCHANGED <<sessions, allocated, byIP, cr, op, half, spoiled, overtook>>
      BY <1>3 DEF backingVars, vars, indexVars, historyVars
    <2>2. \A s, a, b : Claim(s, a, b)' <=> Claim(s, a, b)
      BY <2>1 DEF Claim, Settled, Stored, sidOf
    <2>3. \A a, b : Led(a, b)' <=> Led(a, b)
      BY <2>1 DEF Led, Deregistering
    <2>4. \A c \in Creates : sidOf(c)' = sidOf(c)
      BY <2>1 DEF sidOf
    <2>5. HolderInv' /\ ClaimInv'
      BY <2>1, <2>2, <2>3, <2>4, <1>2, ClaimKept
    <2> QED
      BY <1>1, <2>5
  <1>4. CASE BackingNext
    <2>0. NoteOvertaking /\ NoteHalf /\ NoteSpoiled
      BY <1>4 DEF BackingNext, Noted
    <2>1. ASSUME NEW c \in Creates, CreateStep(c), cr[c].pc # "bsf", UNCHANGED indexVars
          PROVE  HolderInv' /\ ClaimInv'
      <3>1. /\ cr[c].pc = "poolPut" => PoolPut(c)
            /\ cr[c].pc = "store" => CreateStore(c)
            /\ cr[c].pc = "undo" => CreateUndo(c)
        BY <2>1 DEF CreateStep, CreatePolicy, CreateCheck, PoolLock, PoolGetFree, PoolGetTaken, PoolPut,
             CreateStore, CreateN4, CreateUndo, CreateBind, CreateBindPut, CreateCharge, CreateChargePut,
             CreateIncGet, CreateIncPut
      <3>2. CASE cr[c].pc = "poolPut" /\ cr'[c].pc = "n4"
        BY <1>2, <2>0, <2>1, <3>1, <3>2, ClaimReserve
      <3>3. CASE cr[c].pc = "store" /\ cr'[c].pc # "undo"
        BY <1>2, <2>1, <3>1, <3>3, ClaimStore
      <3>4. CASE cr[c].pc = "undo"
        BY <1>2, <2>1, <3>1, <3>4, ClaimUndo
      <3> QED
        BY <1>2, <2>1, <3>2, <3>3, <3>4, ClaimQuietCreate
    <2>2. ASSUME NEW c \in Creates, Register(c) PROVE HolderInv' /\ ClaimInv'
      BY <1>2, <2>0, <2>2, ClaimRegister
    <2>3. ASSUME NEW x \in Ops, Deregister(x) PROVE HolderInv' /\ ClaimInv'
      BY <1>2, <2>0, <2>3, ClaimOp
    <2>4. ASSUME NEW x \in Ops, OpCrash(x), UNCHANGED indexVars PROVE HolderInv' /\ ClaimInv'
      BY <1>2, <2>0, <2>4, ClaimOp
    <2>5. ASSUME NEW x \in Ops, OpStep(x) \/ OpCrash(x), UNCHANGED indexVars PROVE HolderInv' /\ ClaimInv'
      <3>1. CASE op[x].pc # "rIP"
        BY <1>2, <2>0, <2>5, <3>1, ClaimOp
      <3>2. CASE ReleaseIP(x)
        BY <1>2, <2>0, <2>5, <3>2, ClaimFree
      <3>3. op[x].pc = "rIP" => ReleaseIP(x) \/ OpCrash(x)
        <4>1. OpStep(x) /\ op[x].pc = "rIP" => ReleaseIP(x)
          BY DEF OpStep, UpdateGet, UpdateN4, UpdatePut, ReleaseGet, ReleaseN4, ReleaseCharge, ReleaseBind,
                 ReleaseDecGet, ReleaseDecPut, ReleaseDelete, OpGet
        <4> QED
          BY <2>5, <4>1
      <3> QED
        BY <2>4, <2>5, <3>1, <3>2, <3>3
    <2>6. CASE Begins /\ UNCHANGED indexVars
      BY <1>1, <1>2, <2>6, ClaimBegins
    <2> QED
      BY <1>1, <1>3, <2>1, <2>2, <2>3, <2>4, <2>5, <2>6, BackingCases
  <1> QED
    BY <1>3, <1>4

LEMMA Owners == ASSUME SerialClients PROVE BackingSpec => []OwnerInv
  <1>1. OwnerInv /\ [BackingNext]_backingVars => OwnerInv'
    BY OwnerNext
  <1> QED
    BY <1>1, OwnerInit, PTL DEF BackingSpec

(* Whichever replicas restart and whichever calls fail or processes die, a *)
(* session that is not half released has its reserved address to itself    *)
(* unless the address is spoiled, when requests on one session are not     *)
(* sent before the last was answered.                                      *)
THEOREM AddressesUnspoiled == ASSUME SerialClients PROVE BackingSpec => []UnspoiledExclusive
  <1>1. OwnerInv => UnspoiledExclusive
    <2> SUFFICES ASSUME OwnerInv, NEW s \in SessionIDs \ half, Settled(s), sessions[s].ip \notin spoiled
                 PROVE  /\ sessions[s].ip \in allocated
                        /\ \A t \in SessionIDs \ half :
                              t # s /\ Settled(t) => sessions[t].ip # sessions[s].ip
      BY DEF UnspoiledExclusive
    <2>1. \A t \in SessionIDs : sessions[t].ip \in IPs \cup {NoIP} /\ sessions[t].bsf \in Creates \cup {None}
      BY DEF OwnerInv, TypeInv, TypeOK, Session
    <2>2. \A t \in SessionIDs : Settled(t) => Claim(t, sessions[t].ip, sessions[t].bsf)
      BY DEF Claim
    <2> QED
      BY <2>1, <2>2 DEF OwnerInv, ClaimInv
  <1> QED
    BY <1>1, Owners, PTL

(* Under the same hypothesis the BSF's indexes lead where they should: to  *)
(* the session that has the address, unless it overtook a deregistration,  *)
(* and never to a binding that is gone or is another's.                    *)
THEOREM DiscoveryLeads == ASSUME SerialClients PROVE BackingSpec => []DiscoveryFollows
  <1>1. OwnerInv => DiscoveryFollows
    <2> SUFFICES ASSUME OwnerInv PROVE DiscoveryFollows
      OBVIOUS
    <2>1. ASSUME NEW s \in SessionIDs \ half, Settled(s), sessions[s].bsf # None, sessions[s].ip \notin spoiled
          PROVE  \/ byIP[sessions[s].ip] = sessions[s].bsf
                 \/ byIP[sessions[s].ip] = None /\ sessions[s].bsf \in overtook
      <3>1. sessions[s].ip \in IPs \cup {NoIP} /\ sessions[s].bsf \in Creates \cup {None}
        BY DEF OwnerInv, TypeInv, TypeOK, Session
      <3>2. Claim(s, sessions[s].ip, sessions[s].bsf)
        BY <2>1 DEF Claim
      <3>3. Led(sessions[s].ip, sessions[s].bsf)
        BY <2>1, <3>1, <3>2 DEF OwnerInv, ClaimInv
      <3> QED
        BY <3>3 DEF Led
    <2>2. /\ \A a \in IPs : byIP[a] # None => byIP[a] \in bindings /\ cr[byIP[a]].ip = a
          /\ \A u \in Supis : bySupi[u] # None => bySupi[u] \in bindings /\ cr[bySupi[u]].supi = u
      BY DEF OwnerInv, IndexInv
    <2> QED
      BY <2>1, <2>2 DEF DiscoveryFollows
  <1> QED
    BY <1>1, Owners, PTL

-----------------------------------------------------------------------------
(* One replica, until it restarts: an identifier belongs to one create,    *)
(* and an operation works on a session whose create has answered.          *)

OneReplica == \A r1, r2 \in Replicas : r1 = r2

Names ==
    /\ \A c \in Creates : Named(c) => cr[c].seid <= seidCounter[cr[c].rep]
    /\ \A c, d \in Creates : c # d /\ Named(c) /\ Named(d) => cr[c].seid # cr[d].seid
    /\ \A s \in SessionIDs : Stored(s) => \E c \in Creates : HasRecord(c) /\ sidOf(c) = s
    /\ \A x \in Ops : op[x].pc # "idle" => op[x].sid \in Issued

\* What a step of a create makes of its name.
LEMMA CreateNamed ==
    ASSUME TypeInv, NEW c \in Creates, CreateStep(c)
    PROVE  /\ \/ /\ UNCHANGED seidCounter
                 /\ Named(c)' => Named(c) /\ cr'[c].seid = cr[c].seid
              \/ CreateN4(c)
           /\ cr[c].code = 0
           /\ HasRecord(c) => HasRecord(c)' /\ sidOf(c)' = sidOf(c)
           /\ \A s : Writes(c, s) /\ sessions'[s] # sessions[s] => HasRecord(c)' /\ sidOf(c)' = s
  <1> USE DEF TypeInv, Uncommitted, Committed, CreateRuns, At, Keeps, Commits, Named, HasRecord, sidOf
  <1>0. cr[c].code = 0
    <2>1. CreateRuns(c)
      BY CreateProgress
    <2> QED
      BY <2>1 DEF LocalInv
  <1>1. CASE CreatePolicy(c) \/ CreateCheck(c)
    BY <1>0, <1>1, PolicyEffect DEF redisVars, replicaVars
  <1>2. CASE PoolLock(c)
    BY <1>0, <1>2, LockEffect DEF redisVars
  <1>3. CASE PoolGetFree(c)
    BY <1>0, <1>3, GetFreeEffect DEF redisVars
  <1>4. CASE PoolGetTaken(c)
    BY <1>0, <1>4, GetTakenEffect DEF redisVars
  <1>5. CASE PoolPut(c)
    BY <1>0, <1>5, PoolPutEffect
  <1>6. CASE CreateN4(c)
    BY <1>0, <1>6, N4Effect DEF redisVars
  <1>7. CASE CreateStore(c)
    <2>1. Keeps(c) /\ cr[c].pc = "store" /\ UNCHANGED seidCounter
      BY <1>7, StoreEffect DEF replicaVars
    <2>2. \/ Commits(c)
          \/ At(c, "undo", 0) /\ UNCHANGED sessions
      BY <1>7, StoreEffect
    <2>3. CASE Commits(c)
      BY <1>0, <2>1, <2>3 DEF Writes
    <2>4. CASE At(c, "undo", 0) /\ UNCHANGED sessions
      BY <1>0, <2>1, <2>4 DEF Writes
    <2> QED
      BY <2>2, <2>3, <2>4
  <1>8. CASE CreateUndo(c)
    BY <1>0, <1>8, UndoEffect DEF replicaVars
  <1>9. CASE CommittedStep(c)
    <2>1. /\ Keeps(c) /\ cr[c].pc \in Committed /\ UNCHANGED seidCounter
          /\ Commits(c)
      BY <1>9, CommittedEffect DEF replicaVars
    <2>2. HasRecord(c) /\ HasRecord(c)' /\ sidOf(c)' = sidOf(c)
      BY <2>1
    <2> QED
      BY <1>0, <2>1, <2>2 DEF Writes
  <1> QED
    BY <1>1, <1>2, <1>3, <1>4, <1>5, <1>6, <1>7, <1>8, <1>9 DEF CreateStep, CommittedStep

\* A create that is named holds an identifier of its own.
LEMMA OwnName ==
    ASSUME TypeInv, NEW c \in Creates, Named(c)
    PROVE  sidOf(c) \in SessionIDs /\ extractSEID(sidOf(c)) = cr[c].seid
  <1>1. cr[c].supi \in Supis /\ cr[c].seid \in SEIDs
    BY DEF TypeInv, LocalInv, Named, HasRecord, Committed
  <1> QED
    BY <1>1 DEF sidOf, SessionIDs, extractSEID

LEMMA SameName ==
    ASSUME TypeInv, Names, NEW c \in Creates, NEW d \in Creates, Named(c), Named(d), sidOf(c) = sidOf(d)
    PROVE  c = d
  <1>1. cr[c].seid = cr[d].seid
    BY OwnName
  <1> QED
    BY <1>1 DEF Names

LEMMA Answered ==
    ASSUME TypeInv, Names, NEW c \in Creates, Named(c), sidOf(c) \in Issued
    PROVE  cr[c].code = 201 /\ cr[c].pc = "done"
  <1>1. PICK d \in Creates : cr[d].code = 201 /\ sidOf(c) = sidOf(d)
    BY DEF Issued
  <1>2. c = d
    BY <1>1, SameName DEF Named, HasRecord
  <1> QED
    BY <1>1, <1>2 DEF TypeInv, LocalInv

LEMMA IssuedKept ==
    ASSUME TypeInv, NEW c \in Creates, CreateStep(c)
    PROVE  Issued \subseteq Issued'
  <1>1. ASSUME NEW d \in Creates, cr[d].code = 201 PROVE cr'[d].code = 201 /\ sidOf(d)' = sidOf(d)
    <2>1. d # c
      BY <1>1, CreateNamed
    <2> QED
      BY <1>1, <2>1, CreateProgress DEF Alone, sidOf
  <1> QED
    BY <1>1 DEF Issued

LEMMA NamesCreate ==
    ASSUME OneReplica, TypeInv, Names, NEW c \in Creates, CreateStep(c)
    PROVE  Names'
  <1>1. UNCHANGED op /\ cr'[c].rep = cr[c].rep /\ \A d \in Creates : d # c => cr'[d] = cr[d]
    BY CreateProgress DEF Alone
  <1>2. \A d \in Creates : d # c => (Named(d)' <=> Named(d)) /\ (HasRecord(d)' <=> HasRecord(d)) /\ sidOf(d)' = sidOf(d)
    BY <1>1 DEF Named, HasRecord, sidOf
  <1>3. /\ \A d \in Creates : Named(d)' => cr'[d].seid <= seidCounter'[cr'[d].rep]
        /\ \A d, e \in Creates : d # e /\ Named(d)' /\ Named(e)' => cr'[d].seid # cr'[e].seid
    <2>1. CASE UNCHANGED seidCounter /\ (Named(c)' => Named(c) /\ cr'[c].seid = cr[c].seid)
      BY <1>1, <1>2, <2>1 DEF Names
    <2>2. CASE CreateN4(c)
      <3>1. /\ cr'[c].seid = seidCounter[cr[c].rep] + 1 /\ cr[c].rep \in Replicas
            /\ seidCounter' = [seidCounter EXCEPT ![cr[c].rep] = cr'[c].seid]
            /\ seidCounter \in [Replicas -> 0 .. MaxSEID] /\ MaxSEID \in Nat
        BY <2>2, N4Effect, ConstantsAssumption DEF TypeInv, TypeOK, LocalInv
      <3>2. \A d \in Creates : Named(d) => cr[d].rep \in Replicas /\ cr[d].seid \in SEIDs
        BY DEF TypeInv, LocalInv, Named, HasRecord, Committed
      <3>3. \A d \in Creates : Named(d) => cr[d].rep = cr[c].rep /\ cr[d].seid <= seidCounter[cr[c].rep]
        BY <3>1, <3>2 DEF OneReplica, Names
      <3>4. seidCounter[cr[c].rep] \in Nat /\ \A d \in Creates : Named(d) => cr[d].seid \in Nat
        BY <3>1, <3>2 DEF SEIDs
      <3>5. seidCounter'[cr[c].rep] = seidCounter[cr[c].rep] + 1
        BY <3>1
      <3>6. \A d \in Creates : d # c /\ Named(d)' =>
               cr'[d].rep = cr[c].rep /\ cr'[d].seid \in Nat /\ cr'[d].seid <= seidCounter[cr[c].rep]
        BY <1>1, <1>2, <3>3, <3>4
      <3>7. cr'[c].seid = seidCounter[cr[c].rep] + 1
        BY <3>1
      <3>8. ASSUME NEW d \in Creates, Named(d)' PROVE cr'[d].seid <= seidCounter'[cr'[d].rep]
        <4>1. CASE d = c
          BY <1>1, <3>4, <3>5, <3>7, <4>1
        <4>2. CASE d # c
          BY <3>4, <3>5, <3>6, <3>8, <4>2
        <4> QED
          BY <4>1, <4>2
      <3>9. ASSUME NEW d \in Creates, NEW e \in Creates, d # e, Named(d)', Named(e)'
            PROVE  cr'[d].seid # cr'[e].seid
        <4>1. CASE d # c /\ e # c
          BY <1>1, <1>2, <3>9, <4>1 DEF Names
        <4>2. CASE d = c \/ e = c
          BY <3>4, <3>6, <3>7, <3>9, <4>2
        <4> QED
          BY <4>1, <4>2
      <3> QED
        BY <3>8, <3>9
    <2> QED
      BY <2>1, <2>2, CreateNamed
  <1>4. ASSUME NEW s \in SessionIDs, sessions'[s] # NoSession
        PROVE  \E d \in Creates : HasRecord(d)' /\ sidOf(d)' = s
    <2>1. CASE sessions'[s] = sessions[s]
      <3>1. PICK d \in Creates : HasRecord(d) /\ sidOf(d) = s
        BY <1>4, <2>1 DEF Names, Stored
      <3> QED
        BY <1>2, <3>1, CreateNamed
    <2>2. CASE Writes(c, s) /\ sessions'[s] # sessions[s]
      BY <2>2, CreateNamed
    <2> QED
      BY <2>1, <2>2, CreateWrites
  <1>5. \A x \in Ops : op'[x].pc # "idle" => op'[x].sid \in Issued'
    BY <1>1, IssuedKept DEF Names
  <1> QED
    BY <1>3, <1>4, <1>5 DEF Names, Stored

LEMMA NamesOp ==
    ASSUME TypeInv, Names, NEW x \in Ops, OpStep(x) \/ OpCrash(x)
    PROVE  Names'
  <1>1. /\ OpAlone(x) /\ OpRuns(x) /\ op'[x].sid = op[x].sid
    BY OpProgress
  <1>2. UNCHANGED <<cr, seidCounter>> /\ \A y \in Ops : y # x => op'[y] = op[y]
    BY <1>1 DEF OpAlone, replicaVars
  <1>3. /\ Issued' = Issued
        /\ \A c \in Creates : /\ (Named(c)' <=> Named(c)) /\ (HasRecord(c)' <=> HasRecord(c))
                              /\ sidOf(c)' = sidOf(c)
    BY <1>2 DEF Issued, Named, HasRecord, sidOf
  <1>4. ASSUME NEW s \in SessionIDs, sessions'[s] # NoSession
        PROVE  \E d \in Creates : HasRecord(d) /\ sidOf(d) = s
    <2>1. CASE sessions'[s] = sessions[s]
      BY <1>4, <2>1 DEF Names, Stored
    <2>2. CASE OpWrites(x, s)
      <3>1. s \in Issued
        BY <2>2 DEF OpWrites, Names
      <3> QED
        BY <3>1 DEF Issued, HasRecord
    <2>3. CASE OpDeletes(x, s)
      BY <1>4, <2>3 DEF OpDeletes
    <2>4. OpCrash(x) => UNCHANGED sessions
      BY DEF OpCrash, redisVars
    <2> QED
      BY <2>1, <2>2, <2>3, <2>4, OpWritten
  <1>5. \A y \in Ops : op'[y].pc # "idle" => op'[y].sid \in Issued
    BY <1>1, <1>2 DEF Names, OpRuns
  <1> QED
    BY <1>2, <1>3, <1>4, <1>5 DEF Names, Stored

\* A request that starts is one of a client that has an identifier, or of one
\* that has none yet.
LEMMA StartedNames ==
    ASSUME TypeInv, Begins, restarts' = 0
    PROVE  /\ UNCHANGED seidCounter
           /\ \A c \in Creates :
                 \/ cr'[c] = cr[c]
                 \/ /\ ~Named(c) /\ ~Named(c)' /\ cr'[c].pc \in {"pcf", "lock"} /\ cr[c].pc = "idle"
                    /\ ~HasRecord(c) /\ ~HasRecord(c)' /\ cr'[c].bsf = cr[c].bsf /\ cr'[c].chg = cr[c].chg
           /\ Issued' = Issued
  <1>1. ~\E r \in Replicas : Restart(r)
    BY RestartEffect DEF TypeInv, TypeOK
  <1>2. UNCHANGED seidCounter
    BY <1>1 DEF Begins, CreateStart, ReleaseStart, UpdateStart, replicaVars
  <1>3. ASSUME NEW c \in Creates, cr'[c] # cr[c]
        PROVE  /\ ~Named(c) /\ ~Named(c)' /\ cr'[c].pc \in {"pcf", "lock"} /\ cr[c].pc = "idle"
               /\ ~HasRecord(c) /\ ~HasRecord(c)' /\ cr'[c].bsf = cr[c].bsf /\ cr'[c].chg = cr[c].chg
    <2>1. PICK d \in Creates, r \in Replicas, u \in Supis : CreateStart(d, r, u)
      BY <1>1, <1>3 DEF Begins, ReleaseStart, UpdateStart
    <2>2. d = c
      BY <1>3, <2>1, StartEffect DEF TypeInv, Alone
    <2>3. cr[c].pc = "idle" /\ cr'[c].pc \in {"pcf", "lock"} /\ cr'[c].code = cr[c].code
      BY <2>1, <2>2, StartEffect DEF TypeInv
    <2>4. cr[c].code # 201
      BY <2>3 DEF TypeInv, LocalInv
    <2> QED
      BY <2>1, <2>2, <2>3, <2>4, StartFields DEF Named, HasRecord, Committed
  <1>4. Issued' = Issued
    <2>1. \A c \in Creates : cr'[c] = cr[c] \/ (cr[c].code # 201 /\ cr'[c].code # 201)
      BY <1>3 DEF HasRecord
    <2>2. \A c \in Creates : cr[c].code = 201 \/ cr'[c].code = 201 =>
             sidOf(c)' = sidOf(c) /\ cr[c].code = 201 /\ cr'[c].code = 201
      BY <2>1 DEF sidOf
    <2> QED
      BY <2>2 DEF Issued
  <1> QED
    BY <1>2, <1>3, <1>4

LEMMA NamesBegins ==
    ASSUME TypeInv, Names, Begins, restarts' = 0
    PROVE  Names'
  <1>1. UNCHANGED sessions /\ UNCHANGED seidCounter /\ Issued' = Issued
    BY BeginsEffect, StartedNames DEF redisVars
  <1>2. ASSUME NEW c \in Creates
        PROVE  /\ Named(c)' <=> Named(c) /\ (Named(c)' => cr'[c] = cr[c] /\ sidOf(c)' = sidOf(c))
               /\ HasRecord(c)' <=> HasRecord(c)
    BY StartedNames DEF Named, HasRecord, sidOf
  <1>3. \A x \in Ops : op'[x].pc # "idle" => op'[x].sid \in Issued
    BY BeginsEffect DEF OpAlone, Names
  <1>4. ASSUME NEW s \in SessionIDs, sessions'[s] # NoSession
        PROVE  \E d \in Creates : HasRecord(d)' /\ sidOf(d)' = s
    <2>1. PICK d \in Creates : HasRecord(d) /\ sidOf(d) = s
      BY <1>1, <1>4 DEF Names, Stored
    <2> QED
      BY <1>2, <2>1 DEF Named
  <1> QED
    BY <1>1, <1>2, <1>3, <1>4 DEF Names, Stored

\* Before the first restart there was none, and the step is not one.
LEMMA StillSteady ==
    ASSUME TypeInv, [BackingNext]_backingVars, restarts' = 0
    PROVE  restarts = 0
  <1>1. CASE UNCHANGED restarts
    BY <1>1
  <1>2. CASE \E r \in Replicas : Restart(r)
    BY <1>2, RestartEffect DEF TypeInv, TypeOK
  <1>3. ASSUME NEW c \in Creates, CreateStep(c) PROVE UNCHANGED restarts
    BY <1>3, CreateProgress DEF Alone
  <1>4. ASSUME NEW x \in Ops, OpStep(x) \/ OpCrash(x) PROVE UNCHANGED restarts
    BY <1>4, OpProgress DEF OpAlone
  <1>5. [Next]_vars
    BY BackingStep DEF backingVars
  <1> QED
    BY <1>1, <1>2, <1>3, <1>4, <1>5 DEF Next, vars, CreateStart, ReleaseStart, UpdateStart

LEMMA NamesInit == Init => Names
  BY DEF Init, Names, Named, HasRecord, Committed, IdleCreate, IdleOp, Stored

LEMMA NamesNext ==
    ASSUME OneReplica, TypeInv, Names, [BackingNext]_backingVars, restarts' = 0
    PROVE  Names'
  <1>1. CASE UNCHANGED backingVars
    BY <1>1 DEF backingVars, vars, Names, Named, HasRecord, Stored, sidOf, Issued
  <1>2. ASSUME NEW c \in Creates, Register(c) PROVE CreateStep(c)
    BY <1>2 DEF Register, CreateStep
  <1>3. ASSUME NEW x \in Ops, Deregister(x) PROVE OpStep(x)
    BY <1>3 DEF Deregister, OpStep
  <1> QED
    BY <1>1, <1>2, <1>3, BackingCases, NamesCreate, NamesOp, NamesBegins

-----------------------------------------------------------------------------
(* What BSF and CHF keep for a session, its record names: with one replica *)
(* until it restarts, and a Redis and an SBI that answer writes and calls. *)

CallsAnswered == Faults \cap {"Put", "SBI"} = {}

\* A create calls BSF and CHF where they are wired.
WireInv ==
    \A c \in Creates : /\ cr[c].pc = "bsf" => Wired("BSF")
                       /\ cr[c].pc = "chf" => Wired("CHARGING")

BoundInv(c) ==
    c \in bindings =>
      /\ Wired("BSF") /\ cr[c].bsf = c /\ HasRecord(c) /\ cr[c].pc # "bsf"
      /\ cr[c].pc # "bsfPut" => sessions[sidOf(c)].bsf = c
ChargedInv(c) ==
    c \in charging =>
      /\ Wired("CHARGING") /\ cr[c].chg = c /\ HasRecord(c) /\ cr[c].pc \notin {"bsf", "bsfPut", "chf"}
      /\ cr[c].pc # "chfPut" => sessions[sidOf(c)].chg = c

\* A release comes to the counter when it has closed the binding and charging.
Unbound == {"rDecGet", "rDecPut", "rDel"}
CopyNames(x) ==
    op[x].pc \in Fetched =>
      \A c \in Creates : HasRecord(c) /\ sidOf(c) = op[x].sid =>
        /\ c \in bindings => op[x].rec.bsf = c /\ op[x].pc \notin Unbound
        /\ c \in charging => op[x].rec.chg = c /\ op[x].pc \notin Unbound \cup {"rBsf"}

TraceInv ==
    /\ WireInv
    /\ \A c \in Creates : BoundInv(c) /\ ChargedInv(c)
    /\ \A x \in Ops : CopyNames(x)

LEMMA CalledAfter ==
    /\ AfterStore = "bsf" => Wired("BSF")
    /\ AfterStore = "chf" \/ AfterBinding = "chf" => Wired("CHARGING")
    /\ AfterFree # "rChf" => ~Wired("CHARGING")
    /\ AfterUncharge # "rBsf" => ~Wired("BSF")
    /\ AfterFree \notin {"rChf", "rBsf"} => ~Wired("BSF")
  BY DEF AfterStore, AfterBinding, AfterCharging, AfterFree, AfterUncharge, AfterUnbind

\* The steps of a create from the store on.
LEMMA CreateCalls ==
    ASSUME CallsAnswered, TypeInv, NEW c \in Creates, CreateStep(c)
    PROVE  \/ /\ cr'[c].pc \notin {"bsf", "bsfPut", "chf", "chfPut"} /\ cr[c].pc \notin Committed
              /\ UNCHANGED <<sessions, bindings, charging>>
           \/ /\ cr[c].pc = "store" /\ cr'[c].pc = AfterStore
              /\ sessions' = [sessions EXCEPT ![sidOf(c)] = record(c)]
              /\ UNCHANGED <<bindings, charging>>
           \/ /\ cr[c].pc = "bsf" /\ cr'[c].pc = "bsfPut" /\ cr'[c].bsf = c
              /\ bindings' = bindings \cup {c} /\ UNCHANGED <<sessions, charging>>
           \/ /\ cr[c].pc = "bsfPut" /\ cr'[c].pc = AfterBinding
              /\ sessions' = [sessions EXCEPT ![sidOf(c)] = record(c)]
              /\ UNCHANGED <<bindings, charging>>
           \/ /\ cr[c].pc = "chf" /\ cr'[c].pc = "chfPut" /\ cr'[c].chg = c
              /\ charging' = charging \cup {c} /\ UNCHANGED <<sessions, bindings>>
           \/ /\ cr[c].pc = "chfPut" /\ cr'[c].pc = AfterCharging
              /\ sessions' = [sessions EXCEPT ![sidOf(c)] = record(c)]
              /\ UNCHANGED <<bindings, charging>>
           \/ /\ cr[c].pc \in {"incGet", "incPut"} /\ cr'[c].pc \in {"incPut", "done"}
              /\ UNCHANGED <<sessions, bindings, charging>>
  <1> USE DEF TypeInv
  <1>0. cr[c] \in CreateState /\ cr \in [Creates -> CreateState] /\ sliceCount \in Nat
    BY DEF TypeOK
  <1>1. "Put" \notin Faults /\ "SBI" \notin Faults
    BY DEF CallsAnswered
  <1>2. {"bsfPut", "chfPut", "incPut", "done", "undo", AfterStore, AfterBinding, AfterCharging} \subseteq CreatePC
    BY AfterPC DEF CreatePC
  <1>3. CASE CreatePolicy(c) \/ CreateCheck(c)
    BY <1>3, PolicyEffect DEF At, Committed, redisVars, nfVars
  <1>4. CASE PoolLock(c) \/ PoolGetFree(c) \/ PoolGetTaken(c)
    BY <1>4, LockEffect, GetFreeEffect, GetTakenEffect DEF At, Committed, redisVars, nfVars
  <1>5. CASE PoolPut(c) \/ CreateN4(c) \/ CreateUndo(c)
    BY <1>5, PoolPutEffect, N4Effect, UndoEffect DEF At, Committed, redisVars, nfVars
  <1>6. CASE CreateStore(c)
    BY <1>0, <1>1, <1>2, <1>6, GoType DEF CreateStore, nfVars
  <1>7. CASE CreateBind(c)
    <2>1. CreateBind(c) /\ cr' = [cr EXCEPT ![c] = [Go(c, "bsfPut") EXCEPT !.bsf = c]]
          /\ bindings' = bindings \cup {c} /\ UNCHANGED <<sessions, charging>>
      BY <1>1, <1>7 DEF CreateBind, redisVars
    <2>2. Go(c, "bsfPut") \in CreateState /\ Go(c, "bsfPut").pc = "bsfPut"
      BY <1>0, <1>2, GoType
    <2>3. cr'[c].pc = "bsfPut" /\ cr'[c].bsf = c
      BY <1>0, <2>1, <2>2 DEF CreateState
    <2> QED
      BY <1>7, <2>1, <2>3 DEF CreateBind
  <1>8. CASE CreateCharge(c)
    <2>1. CreateCharge(c) /\ cr' = [cr EXCEPT ![c] = [Go(c, "chfPut") EXCEPT !.chg = c]]
          /\ charging' = charging \cup {c} /\ UNCHANGED <<sessions, bindings>>
      BY <1>1, <1>8 DEF CreateCharge, redisVars
    <2>2. Go(c, "chfPut") \in CreateState /\ Go(c, "chfPut").pc = "chfPut"
      BY <1>0, <1>2, GoType
    <2>3. cr'[c].pc = "chfPut" /\ cr'[c].chg = c
      BY <1>0, <2>1, <2>2 DEF CreateState
    <2> QED
      BY <1>8, <2>1, <2>3 DEF CreateCharge
  <1>9. CASE CreateBindPut(c)
    BY <1>0, <1>1, <1>2, <1>9, GoType DEF CreateBindPut, nfVars
  <1>10. CASE CreateChargePut(c)
    BY <1>0, <1>1, <1>2, <1>10, GoType DEF CreateChargePut, nfVars
  <1>11. CASE CreateIncPut(c)
    BY <1>0, <1>2, <1>11, GoType DEF CreateIncPut, redisVars
  <1>12. CASE CreateIncGet(c)
    <2>1. \E n : cr' = [cr EXCEPT ![c] = [Go(c, "incPut") EXCEPT !.cnt = n]]
      BY <1>1, <1>12 DEF CreateIncGet
    <2>2. Go(c, "incPut") \in CreateState /\ Go(c, "incPut").pc = "incPut"
      BY <1>0, <1>2, GoType
    <2>3. cr'[c].pc = "incPut"
      BY <1>0, <2>1, <2>2 DEF CreateState
    <2> QED
      BY <1>12, <2>3 DEF CreateIncGet, redisVars, nfVars
  <1> QED
    BY <1>3, <1>4, <1>5, <1>6, <1>7, <1>8, <1>9, <1>10, <1>11, <1>12 DEF CreateStep

LEMMA TraceCreate ==
    ASSUME CallsAnswered, TypeInv, Names, TraceInv, NEW c \in Creates, CreateStep(c)
    PROVE  TraceInv'
  <1> USE DEF TraceInv
  <1>1. /\ UNCHANGED op /\ \A d \in Creates : d # c => cr'[d] = cr[d]
        /\ CreateRuns(c) /\ (Named(c) => cr'[c].seid = cr[c].seid) /\ cr[c].code = 0
    BY CreateProgress, CreateNamed DEF Alone, Named, HasRecord
  <1>2. HasRecord(c) => HasRecord(c)' /\ sidOf(c)' = sidOf(c)
    BY CreateNamed
  <1>3. HasRecord(c) <=> cr[c].pc \in Committed
    BY <1>1 DEF HasRecord
  <1>4. WireInv'
    <2>1. cr'[c].pc = "bsf" => Wired("BSF")
      BY CreateCalls, CalledAfter, AfterPC
    <2>2. cr'[c].pc = "chf" => Wired("CHARGING")
      BY CreateCalls, CalledAfter, AfterPC
    <2> QED
      BY <1>1, <2>1, <2>2 DEF WireInv, Wired
  <1>5. bindings' \subseteq bindings \cup {c} /\ charging' \subseteq charging \cup {c}
    BY CreateCalls
  <1>6. ASSUME NEW d \in Creates, d # c, HasRecord(d)
        PROVE  /\ HasRecord(d)' /\ cr'[d] = cr[d] /\ sidOf(d)' = sidOf(d)
               /\ sessions'[sidOf(d)] = sessions[sidOf(d)]
    <2>1. ~Writes(c, sidOf(d))
      BY <1>6, SameName DEF Writes, Named, HasRecord
    <2> QED
      BY <1>1, <1>6, <2>1, CreateWrites, OwnName DEF HasRecord, Named, sidOf
  <1>7. ASSUME NEW d \in Creates, d # c PROVE BoundInv(d)' /\ ChargedInv(d)'
    BY <1>5, <1>6, <1>7 DEF BoundInv, ChargedInv, Wired
  <1>8. BoundInv(c)' /\ ChargedInv(c)'
    <2>1. HasRecord(c) \/ cr[c].pc = "store" => sidOf(c) \in SessionIDs /\ sessions \in [SessionIDs -> Session]
      BY OwnName DEF Named, TypeInv, TypeOK
    <2>2. record(c).bsf = cr[c].bsf /\ record(c).chg = cr[c].chg
      BY DEF record
    <2>3. /\ cr'[c].bsf = cr[c].bsf \/ (cr[c].pc = "bsf" /\ cr'[c].bsf = c)
          /\ cr'[c].chg = cr[c].chg \/ (cr[c].pc = "chf" /\ cr'[c].chg = c)
      BY CreateNames DEF CreateBind, CreateCharge
    <2>4. WireInv /\ BoundInv(c) /\ ChargedInv(c)
      OBVIOUS
    <2>5. CASE cr[c].pc \notin Committed /\ UNCHANGED <<bindings, charging>>
      BY <1>3, <2>4, <2>5 DEF BoundInv, ChargedInv
    <2>6. CASE /\ cr[c].pc = "bsf" /\ cr'[c].pc = "bsfPut" /\ cr'[c].bsf = c
               /\ bindings' = bindings \cup {c} /\ UNCHANGED <<sessions, charging>>
      <3>1. HasRecord(c) /\ c \notin charging /\ Wired("BSF")
        BY <1>3, <2>4, <2>6 DEF Committed, ChargedInv, WireInv
      <3> QED
        BY <1>2, <2>6, <3>1 DEF BoundInv, ChargedInv, Wired
    <2>7. CASE /\ cr[c].pc = "chf" /\ cr'[c].pc = "chfPut" /\ cr'[c].chg = c
               /\ charging' = charging \cup {c} /\ UNCHANGED <<sessions, bindings>>
      <3>1. HasRecord(c) /\ Wired("CHARGING") /\ cr'[c].bsf = cr[c].bsf
        BY <1>3, <2>3, <2>4, <2>7 DEF Committed, WireInv
      <3> QED
        BY <1>2, <2>4, <2>7, <3>1 DEF BoundInv, ChargedInv, Wired
    <2>8. CASE /\ cr[c].pc \in {"bsfPut", "chfPut"} /\ cr'[c].pc \in {AfterBinding, AfterCharging}
               /\ cr[c].pc = "chfPut" => cr'[c].pc = AfterCharging
               /\ sessions' = [sessions EXCEPT ![sidOf(c)] = record(c)]
               /\ UNCHANGED <<bindings, charging>>
      <3>1. /\ HasRecord(c) /\ HasRecord(c)' /\ sidOf(c)' = sidOf(c)
            /\ cr'[c].bsf = cr[c].bsf /\ cr'[c].chg = cr[c].chg
            /\ sessions'[sidOf(c)] = record(c)
            /\ cr'[c].pc \in {"chf", "incGet", "done"} /\ (cr[c].pc = "chfPut" => cr'[c].pc # "chf")
        BY <1>2, <1>3, <2>1, <2>3, <2>8, AfterPC DEF Committed
      <3> QED
        BY <2>2, <2>4, <2>8, <3>1 DEF BoundInv, ChargedInv, Wired
    <2>9. CASE /\ cr[c].pc \in {"incGet", "incPut"} /\ cr'[c].pc \in {"incPut", "done"}
               /\ UNCHANGED <<sessions, bindings, charging>>
      <3>1. /\ HasRecord(c) /\ HasRecord(c)' /\ sidOf(c)' = sidOf(c)
            /\ cr'[c].bsf = cr[c].bsf /\ cr'[c].chg = cr[c].chg
        BY <1>2, <1>3, <2>3, <2>9 DEF Committed
      <3> QED
        BY <2>4, <2>9, <3>1 DEF BoundInv, ChargedInv, Wired
    <2>10. CASE cr[c].pc = "store" /\ UNCHANGED <<bindings, charging>>
      BY <2>5, <2>10 DEF Committed
    <2> QED
      BY <2>5, <2>6, <2>7, <2>8, <2>9, <2>10, CreateCalls
  <1>9. ASSUME NEW x \in Ops PROVE CopyNames(x)'
    <2> SUFFICES ASSUME op[x].pc \in Fetched, NEW d \in Creates, HasRecord(d)', sidOf(d)' = op[x].sid
                 PROVE  /\ d \in bindings' => op[x].rec.bsf = d /\ op[x].pc \notin Unbound
                        /\ d \in charging' => op[x].rec.chg = d /\ op[x].pc \notin Unbound \cup {"rBsf"}
      BY <1>1 DEF CopyNames
    <2>1. op[x].sid \in Issued
      BY DEF Names, Fetched, AddressFreed
    <2>2. CASE d # c
      <3>1. HasRecord(d) /\ sidOf(d) = op[x].sid
        BY <1>1, <2>2 DEF HasRecord, sidOf
      <3> QED
        BY <1>5, <2>2, <3>1 DEF CopyNames
    <2>3. CASE d = c
      <3>1. PICK e \in Creates : cr[e].code = 201 /\ sidOf(e) = op[x].sid
        BY <2>1 DEF Issued
      <3>2. e # c /\ Named(e)' /\ Named(c)' /\ sidOf(e)' = sidOf(e)
        BY <1>1, <2>3, <3>1 DEF Named, HasRecord, sidOf
      <3>3. c \notin bindings' /\ c \notin charging'
        <4>1. CASE HasRecord(c)
          BY <1>2, <1>3, <2>3, <3>1, <3>2, <4>1, SameName DEF Named, HasRecord
        <4>2. CASE ~HasRecord(c)
          <5>1. UNCHANGED <<bindings, charging>>
            BY <1>3, <4>2, CreateCalls DEF Committed
          <5> QED
            BY <4>2, <5>1 DEF BoundInv, ChargedInv
        <4> QED
          BY <4>1, <4>2
      <3> QED
        BY <2>3, <3>3
    <2> QED
      BY <2>2, <2>3
  <1> QED
    BY <1>4, <1>7, <1>8, <1>9

\* What an operation closes, and where a release goes on.
LEMMA OpCloses ==
    ASSUME CallsAnswered, TypeInv, NEW x \in Ops, OpStep(x) \/ OpCrash(x)
    PROVE  /\ bindings' \subseteq bindings /\ charging' \subseteq charging
           /\ op'[x].pc \in Unbound /\ op[x].pc \notin Unbound =>
                /\ op[x].rec.bsf \notin bindings' \/ ~Wired("BSF")
                /\ op[x].pc = "rBsf" \/ op[x].rec.chg \notin charging' \/ ~Wired("CHARGING")
           /\ op'[x].pc = "rBsf" => op[x].rec.chg \notin charging' \/ ~Wired("CHARGING")
  <1> USE DEF TypeInv, Unbound
  <1>0. "SBI" \notin Faults /\ {"rChf", "rBsf", "rDecGet", "rDecPut", "rDel", "uPut", "rIP"} \subseteq OpPC /\ 500 \in Codes
    BY DEF CallsAnswered, OpPC, Codes
  <1>1. CASE UpdateGet(x) \/ ReleaseGet(x)
    BY <1>1, OpGetEffect DEF nfVars
  <1>2. CASE UpdatePut(x) \/ ReleaseDelete(x) \/ OpCrash(x)
    BY <1>2, UpdatePutEffect, ReleaseDeleteEffect, OpCrashEffect DEF nfVars
  <1>3. CASE UpdateN4(x) \/ ReleaseN4(x)
    BY <1>0, <1>3, OpGoType, ReplyType DEF UpdateN4, ReleaseN4, nfVars
  <1>4. CASE ReleaseIP(x)
    <2>1. op'[x].pc = AfterFree /\ UNCHANGED <<bindings, charging>>
      BY <1>0, <1>4, OpGoType, AfterPC DEF ReleaseIP, nfVars
    <2> QED
      BY <2>1, CalledAfter, AfterPC
  <1>5. CASE ReleaseCharge(x)
    <2>1. op'[x].pc = AfterUncharge /\ UNCHANGED bindings /\ charging' = charging \ {op[x].rec.chg}
      BY <1>0, <1>5, OpGoType, AfterPC DEF ReleaseCharge
    <2> QED
      BY <2>1, CalledAfter, AfterPC
  <1>6. CASE ReleaseBind(x)
    <2>1. op'[x].pc = AfterUnbind /\ UNCHANGED charging /\ bindings' = bindings \ {op[x].rec.bsf}
          /\ op[x].pc = "rBsf"
      BY <1>0, <1>6, OpGoType, AfterPC DEF ReleaseBind
    <2> QED
      BY <2>1, AfterPC
  <1>7. CASE ReleaseDecGet(x)
    <2>1. UNCHANGED <<bindings, charging>> /\ op[x].pc = "rDecGet" /\ op'[x].pc # "rBsf"
      BY <1>7, OpOrder DEF ReleaseDecGet, nfVars
    <2> QED
      BY <2>1
  <1>8. CASE ReleaseDecPut(x)
    BY <1>0, <1>8, OpGoType DEF ReleaseDecPut
  <1> QED
    BY <1>1, <1>2, <1>3, <1>4, <1>5, <1>6, <1>7, <1>8 DEF OpStep

LEMMA TraceOp ==
    ASSUME CallsAnswered, TypeInv, Names, TraceInv, NEW x \in Ops, OpStep(x) \/ OpCrash(x)
    PROVE  TraceInv'
  <1> USE DEF TraceInv
  <1>1. /\ OpAlone(x) /\ op'[x].sid = op[x].sid /\ OpRuns(x)
        /\ op'[x].pc \in Fetched => Fetches(x) \/ Holds(x)
    BY OpProgress
  <1>2. UNCHANGED cr /\ \A y \in Ops : y # x => op'[y] = op[y]
    BY <1>1 DEF OpAlone
  <1>3. bindings' \subseteq bindings /\ charging' \subseteq charging
    BY OpCloses
  <1>4. WireInv'
    BY <1>2 DEF WireInv, Wired
  <1>5. \A c \in Creates : (HasRecord(c)' <=> HasRecord(c)) /\ sidOf(c)' = sidOf(c)
    BY <1>2 DEF HasRecord, sidOf
  <1>6. ASSUME NEW c \in Creates PROVE BoundInv(c)' /\ ChargedInv(c)'
    <2>1. ASSUME c \in bindings', HasRecord(c), sessions[sidOf(c)].bsf = c
          PROVE  sessions'[sidOf(c)].bsf = c
      <3>1. sidOf(c) \in SessionIDs /\ c \in bindings
        BY <1>3, <2>1, OwnName DEF Named
      <3>2. CASE OpWrites(x, sidOf(c))
        BY <2>1, <3>1, <3>2 DEF OpWrites, CopyNames, Fetched
      <3>3. ~OpDeletes(x, sidOf(c))
        BY <2>1, <3>1 DEF OpDeletes, CopyNames, Fetched, AddressFreed, Unbound
      <3>4. OpCrash(x) => UNCHANGED sessions
        BY DEF OpCrash, redisVars
      <3> QED
        BY <2>1, <3>1, <3>2, <3>3, <3>4, OpWritten
    <2>2. ASSUME c \in charging', HasRecord(c), sessions[sidOf(c)].chg = c
          PROVE  sessions'[sidOf(c)].chg = c
      <3>1. sidOf(c) \in SessionIDs /\ c \in charging
        BY <1>3, <2>2, OwnName DEF Named
      <3>2. CASE OpWrites(x, sidOf(c))
        BY <2>2, <3>1, <3>2 DEF OpWrites, CopyNames, Fetched
      <3>3. ~OpDeletes(x, sidOf(c))
        BY <2>2, <3>1 DEF OpDeletes, CopyNames, Fetched, AddressFreed, Unbound
      <3>4. OpCrash(x) => UNCHANGED sessions
        BY DEF OpCrash, redisVars
      <3> QED
        BY <2>2, <3>1, <3>2, <3>3, <3>4, OpWritten
    <2> QED
      BY <1>2, <1>3, <1>5, <2>1, <2>2 DEF BoundInv, ChargedInv, Wired
  <1>7. ASSUME NEW y \in Ops PROVE CopyNames(y)'
    <2> SUFFICES ASSUME op'[y].pc \in Fetched, NEW c \in Creates, HasRecord(c), sidOf(c) = op'[y].sid
                 PROVE  /\ c \in bindings' => op'[y].rec.bsf = c /\ op'[y].pc \notin Unbound
                        /\ c \in charging' => op'[y].rec.chg = c /\ op'[y].pc \notin Unbound \cup {"rBsf"}
      BY <1>5 DEF CopyNames
    <2>1. CASE y # x
      BY <1>2, <1>3, <2>1 DEF CopyNames
    <2>2. CASE y = x /\ Fetches(x)
      <3>1. sidOf(c) = op[x].sid /\ op[x].sid \in Issued
        BY <1>1, <2>2 DEF Names, OpRuns
      <3>2. cr[c].pc = "done"
        BY <3>1, Answered DEF Named
      <3> QED
        BY <1>3, <2>2, <3>1, <3>2 DEF Fetches, BoundInv, ChargedInv, Unbound
    <2>3. CASE y = x /\ Holds(x)
      <3>1. /\ c \in bindings => op[x].rec.bsf = c /\ op[x].pc \notin Unbound /\ Wired("BSF")
            /\ c \in charging => op[x].rec.chg = c /\ op[x].pc \notin Unbound \cup {"rBsf"} /\ Wired("CHARGING")
        BY <2>3 DEF Holds, CopyNames, BoundInv, ChargedInv
      <3>2. op'[x].rec = op[x].rec
        BY <2>3 DEF Holds
      <3>3. c \in bindings' => op'[x].pc \notin Unbound
        BY <1>3, <3>1, OpCloses
      <3>4. c \in charging' => op'[x].pc \notin Unbound \cup {"rBsf"}
        BY <1>3, <3>1, OpCloses
      <3> QED
        BY <1>3, <2>3, <3>1, <3>2, <3>3, <3>4
    <2> QED
      BY <1>1, <2>1, <2>2, <2>3
  <1> QED
    BY <1>4, <1>6, <1>7

LEMMA TraceBegins ==
    ASSUME TypeInv, TraceInv, Begins, restarts' = 0
    PROVE  TraceInv'
  <1> USE DEF TraceInv
  <1>1. UNCHANGED <<sessions, bindings, charging>>
    BY BeginsEffect DEF redisVars, nfVars
  <1>2. ASSUME NEW c \in Creates
        PROVE  \/ cr'[c] = cr[c] /\ (HasRecord(c)' <=> HasRecord(c)) /\ sidOf(c)' = sidOf(c)
               \/ /\ ~HasRecord(c) /\ ~HasRecord(c)' /\ cr'[c].pc \in {"pcf", "lock"}
    BY StartedNames DEF HasRecord, sidOf
  <1>3. WireInv'
    BY <1>2 DEF WireInv, Wired
  <1>4. \A c \in Creates : BoundInv(c)' /\ ChargedInv(c)'
    BY <1>1, <1>2 DEF BoundInv, ChargedInv, Wired
  <1>5. \A x \in Ops : op'[x].pc \in Fetched => op'[x] = op[x]
    BY BeginsEffect DEF OpAlone, Fetched, AddressFreed
  <1>6. ASSUME NEW x \in Ops PROVE CopyNames(x)'
    BY <1>1, <1>2, <1>5 DEF CopyNames
  <1> QED
    BY <1>3, <1>4, <1>6

SteadyTraces == TypeInv /\ (restarts = 0 => Names /\ TraceInv)

LEMMA TracesNext ==
    ASSUME OneReplica, CallsAnswered, SteadyTraces, [BackingNext]_backingVars
    PROVE  SteadyTraces'
  <1> SUFFICES ASSUME restarts' = 0 PROVE Names' /\ TraceInv'
    <2>1. [Next]_vars
      BY BackingStep DEF backingVars
    <2> QED
      BY <2>1, TypeNext DEF SteadyTraces
  <1>1. TypeInv /\ Names /\ TraceInv
    BY StillSteady DEF SteadyTraces
  <1>2. Names'
    BY <1>1, NamesNext
  <1>3. CASE UNCHANGED backingVars
    <2>1. UNCHANGED <<sessions, bindings, charging, cr, op>>
      BY <1>3 DEF backingVars, vars
    <2>2. WireInv' /\ \A c \in Creates : BoundInv(c)' /\ ChargedInv(c)'
      BY <1>1, <2>1 DEF TraceInv, WireInv, BoundInv, ChargedInv, Wired, HasRecord, sidOf
    <2>3. \A x \in Ops : CopyNames(x)'
      BY <1>1, <2>1 DEF TraceInv, CopyNames, HasRecord, sidOf
    <2> QED
      BY <1>2, <2>2, <2>3 DEF TraceInv
  <1>4. ASSUME NEW c \in Creates, Register(c) PROVE CreateStep(c)
    BY <1>4 DEF Register, CreateStep
  <1>5. ASSUME NEW x \in Ops, Deregister(x) PROVE OpStep(x)
    BY <1>5 DEF Deregister, OpStep
  <1> QED
    BY <1>1, <1>2, <1>3, <1>4, <1>5, BackingCases, TraceCreate, TraceOp, TraceBegins

(* Until the replica restarts, whichever reads, deletes and PFCP calls     *)
(* fail and however the requests on a session overlap, release finds in    *)
(* the record the binding and the charging session it has to close.        *)
THEOREM NothingOrphaned ==
    ASSUME OneReplica, CallsAnswered
    PROVE  BackingSpec => []NoOrphans
  <1>1. BackingInit => SteadyTraces
    <2> SUFFICES ASSUME BackingInit PROVE SteadyTraces
      OBVIOUS
    <2>1. TypeInv /\ Names
      BY TypeInit, NamesInit DEF BackingInit
    <2>2. TraceInv
      BY DEF BackingInit, Init, TraceInv, WireInv, BoundInv, ChargedInv, CopyNames, IdleCreate, IdleOp,
             Fetched, AddressFreed
    <2> QED
      BY <2>1, <2>2 DEF SteadyTraces
  <1>2. SteadyTraces /\ [BackingNext]_backingVars => SteadyTraces'
    BY TracesNext
  <1>3. SteadyTraces => NoOrphans
    <2> SUFFICES ASSUME SteadyTraces, restarts = 0
                 PROVE  /\ \A c \in bindings : CreateRuns(c) \/ \E s \in SessionIDs : sessions[s].bsf = c
                        /\ \A c \in charging : CreateRuns(c) \/ \E s \in SessionIDs : sessions[s].chg = c
      BY DEF NoOrphans
    <2>1. TypeInv /\ TraceInv /\ bindings \subseteq Creates /\ charging \subseteq Creates
      BY DEF SteadyTraces, TypeInv, TypeOK
    <2>2. ASSUME NEW c \in bindings, ~CreateRuns(c) PROVE \E s \in SessionIDs : sessions[s].bsf = c
      <3>1. HasRecord(c) /\ sessions[sidOf(c)].bsf = c
        BY <2>1, <2>2 DEF TraceInv, BoundInv, CreateRuns
      <3> QED
        BY <2>1, <3>1, OwnName DEF Named
    <2>3. ASSUME NEW c \in charging, ~CreateRuns(c) PROVE \E s \in SessionIDs : sessions[s].chg = c
      <3>1. HasRecord(c) /\ sessions[sidOf(c)].chg = c
        BY <2>1, <2>3 DEF TraceInv, ChargedInv, CreateRuns
      <3> QED
        BY <2>1, <3>1, OwnName DEF Named
    <2> QED
      BY <2>2, <2>3
  <1> QED
    BY <1>1, <1>2, <1>3, PTL DEF BackingSpec

-----------------------------------------------------------------------------
(* What the UPF keeps: with one replica until it restarts, requests on a   *)
(* session one after the other, a Redis that answers writes, and update    *)
(* and release processes that do not die.                                  *)

WritesAnswered == Faults \cap {"Put", "Crash"} = {}

\* The UPF forwards for an SEID so, or not at all, unless a request was lost.
ShownAs(n, a, q) == n \in unheard \/ upf[n] = [ip |-> a, qos |-> q]
Silent(n) == n \in unheard \/ upf[n] = NoForwarding

\* The points of an operation after its N4 message.
Silenced == {"rIP"} \cup AddressFreed
AfterN4 == {"uPut"} \cup Silenced

CreateShown(c) ==
    /\ cr[c].pc \in Committed => /\ Stored(sidOf(c)) /\ sessions[sidOf(c)].ip = cr[c].ip
                                 /\ sessions[sidOf(c)].qos = 0
    /\ cr[c].pc = "store" => ShownAs(cr[c].seid, cr[c].ip, 0)
    /\ cr[c].pc = "undo" => Silent(cr[c].seid)
    /\ Named(c) /\ "PFCP" \notin Features => cr[c].seid \in unheard
SessionShown(s) ==
    /\ Stored(s) => sessions[s].ip # NoIP
    /\ s \in half => Silent(extractSEID(s))
    /\ Stored(s) /\ s \notin half /\ (\A x \in Ops : op[x].sid = s => op[x].pc \notin AfterN4) =>
          ShownAs(extractSEID(s), sessions[s].ip, sessions[s].qos)
OpShown(x) ==
    /\ op[x].pc \in Fetched => Stored(op[x].sid) /\ op[x].rec.ip = sessions[op[x].sid].ip
    /\ op[x].pc = "uPut" /\ op[x].sid \notin half =>
          ShownAs(extractSEID(op[x].sid), op[x].rec.ip, op[x].rec.qos)
    /\ op[x].pc \in Silenced => Silent(extractSEID(op[x].sid))

\* Somebody the UPF forwards for: a create about to store, or its session.
Serves(c) ==
    cr[c].pc = "store" \/ (HasRecord(c) /\ Stored(sidOf(c)) /\ sidOf(c) \notin half)
SeidShown(n) ==
    /\ \A r \in Replicas : n > seidCounter[r] => upf[n] = NoForwarding
    /\ Silent(n) \/ \E c \in Creates : cr[c].seid = n /\ Serves(c)

N4Inv ==
    /\ half \subseteq Issued
    /\ \A c \in Creates : CreateShown(c)
    /\ \A s \in SessionIDs : SessionShown(s)
    /\ \A x \in Ops : OpShown(x)
    /\ \A n \in SEIDs : SeidShown(n)

\* A session in Redis or known to a client is some create's, and has an SEID
\* to itself.
Owned(s) == \E c \in Creates : HasRecord(c) /\ sidOf(c) = s

LEMMA OwnedSessions ==
    ASSUME TypeInv, Names, NEW s \in SessionIDs, Stored(s) \/ s \in Issued
    PROVE  Owned(s)
  BY DEF Names, Issued, Owned, HasRecord

LEMMA OwnSeid ==
    ASSUME TypeInv, Names, NEW s, NEW t, Owned(s), Owned(t), s # t
    PROVE  extractSEID(s) # extractSEID(t)
  <1>1. PICK c \in Creates : HasRecord(c) /\ sidOf(c) = s
    BY DEF Owned
  <1>2. PICK d \in Creates : HasRecord(d) /\ sidOf(d) = t
    BY DEF Owned
  <1>3. c # d /\ Named(c) /\ Named(d)
    BY <1>1, <1>2 DEF Named
  <1> QED
    BY <1>1, <1>2, <1>3, OwnName DEF Names

LEMMA IssuedSeid ==
    ASSUME TypeInv, Names, NEW s \in Issued, NEW c \in Creates, Named(c), cr[c].code # 201
    PROVE  cr[c].seid # extractSEID(s)
  <1>1. PICK d \in Creates : cr[d].code = 201 /\ s = sidOf(d)
    BY DEF Issued
  <1>2. Named(d) /\ c # d
    BY <1>1 DEF Named, HasRecord
  <1> QED
    BY <1>1, <1>2, OwnName DEF Names

LEMMA SeidOf == ASSUME NEW s \in SessionIDs PROVE extractSEID(s) \in SEIDs
  BY DEF SessionIDs, extractSEID

\* A step that leaves the UPF, the records and the SEIDs as they are.
SameRecords ==
    \A s \in SessionIDs : /\ Stored(s)' <=> Stored(s)
                          /\ sessions'[s].ip = sessions[s].ip /\ sessions'[s].qos = sessions[s].qos

LEMMA SessionsShown ==
    ASSUME N4Inv, UNCHANGED <<upf, seidCounter, half>>, unheard \subseteq unheard', SameRecords,
           \A x \in Ops : op[x].pc \in AfterN4 => op'[x].pc \in AfterN4 /\ op'[x].sid = op[x].sid,
           \A c \in Creates : Serves(c) => Serves(c)' /\ cr'[c].seid = cr[c].seid
    PROVE  (\A s \in SessionIDs : SessionShown(s)') /\ (\A n \in SEIDs : SeidShown(n)')
  <1>1. ASSUME NEW s \in SessionIDs PROVE SessionShown(s)'
    <2>1. SessionShown(s)
      BY DEF N4Inv
    <2>2. (s \in half => Silent(extractSEID(s))') /\ (Stored(s)' => sessions'[s].ip # NoIP)
      BY <2>1 DEF SessionShown, Silent, SameRecords
    <2>3. ASSUME Stored(s)', s \notin half, \A x \in Ops : op'[x].sid = s => op'[x].pc \notin AfterN4
          PROVE  ShownAs(extractSEID(s), sessions[s].ip, sessions[s].qos)'
      <3>1. \A x \in Ops : op[x].sid = s => op[x].pc \notin AfterN4
        BY <2>3
      <3> QED
        BY <2>1, <2>3, <3>1 DEF SessionShown, ShownAs, SameRecords, extractSEID
    <2> QED
      BY <2>2, <2>3 DEF SessionShown
  <1>2. ASSUME NEW n \in SEIDs PROVE SeidShown(n)'
    <2>1. SeidShown(n)
      BY DEF N4Inv
    <2>2. Silent(n) => Silent(n)'
      BY DEF Silent
    <2> QED
      BY <2>1, <2>2 DEF SeidShown
  <1> QED
    BY <1>1, <1>2

LEMMA OpsShown ==
    ASSUME N4Inv, TypeInv, UNCHANGED <<upf, half>>, unheard \subseteq unheard', SameRecords, NEW x \in Ops,
           op'[x].pc \in Fetched => Holds(x) \/ op'[x] = op[x],
           op'[x].pc = "uPut" => op[x].pc = "uPut",
           op'[x].pc \in Silenced => op[x].pc \in Silenced
    PROVE  OpShown(x)'
  <1> SUFFICES ASSUME op'[x].pc \in Fetched PROVE OpShown(x)'
    BY DEF OpShown, Fetched, Silenced
  <1>1. op[x].pc \in Fetched /\ op'[x].sid = op[x].sid /\ op'[x].rec = op[x].rec
    BY DEF Holds
  <1>2. op[x].sid \in SessionIDs
    BY <1>1 DEF TypeInv, LocalInv, Fetched, AddressFreed
  <1>3. OpShown(x)
    BY DEF N4Inv
  <1> QED
    BY <1>1, <1>2, <1>3 DEF OpShown, ShownAs, Silent, SameRecords, Stored

LEMMA CreatesShown ==
    ASSUME N4Inv, TypeInv, UNCHANGED upf, unheard \subseteq unheard', SameRecords, NEW c \in Creates,
           cr'[c].pc \in Committed => cr[c].pc \in Committed /\ sidOf(c)' = sidOf(c) /\ cr'[c].ip = cr[c].ip,
           cr'[c].pc \in {"store", "undo"} => cr'[c] = cr[c],
           Named(c)' => Named(c) /\ cr'[c].seid = cr[c].seid
    PROVE  CreateShown(c)'
  <1>1. CreateShown(c)
    BY DEF N4Inv
  <1>2. cr[c].pc \in Committed => sidOf(c) \in SessionIDs
    BY OwnName DEF Named, HasRecord
  <1>3. cr'[c].pc \in Committed => /\ Stored(sidOf(c))' /\ sessions'[sidOf(c)'].ip = cr'[c].ip
                                   /\ sessions'[sidOf(c)'].qos = 0
    BY <1>1, <1>2 DEF CreateShown, SameRecords, Stored
  <1>4. /\ cr'[c].pc = "store" => ShownAs(cr[c].seid, cr[c].ip, 0)'
        /\ cr'[c].pc = "undo" => Silent(cr[c].seid)'
        /\ Named(c)' /\ "PFCP" \notin Features => cr'[c].seid \in unheard'
    BY <1>1 DEF CreateShown, ShownAs, Silent
  <1> QED
    BY <1>3, <1>4 DEF CreateShown

LEMMA NothingHalved ==
    ASSUME NoteHalf, \A x \in Ops : op[x].pc \in AddressFreed => op'[x].pc \notin {"done", "crashed"}
    PROVE  half' = half
  BY DEF NoteHalf, Stopped

LEMMA RecordStored ==
    ASSUME TypeInv, FieldInv, NEW c \in Creates, cr[c].pc \in Holding
    PROVE  record(c) # NoSession /\ record(c).ip = cr[c].ip /\ record(c).qos = 0
  <1>1. cr[c].ip # NoIP
    BY NoIPNotInPool DEF FieldInv
  <1> QED
    BY <1>1 DEF record, NoSession

\* A create before its N4 message, after its store, or giving up.
LEMMA N4Quiet ==
    ASSUME TypeInv, FieldInv, Names, N4Inv, NEW c \in Creates, CreateStep(c),
           cr[c].pc \notin {"n4", "store"}, NoteHalf, unheard \subseteq unheard'
    PROVE  N4Inv'
  <1>1. /\ UNCHANGED op /\ \A d \in Creates : d # c => cr'[d] = cr[d]
        /\ cr'[c].supi = cr[c].supi
        /\ cr'[c].pc \in Committed => cr[c].pc \in Committed /\ cr'[c].ip = cr[c].ip
        /\ cr[c].pc \in Committed => cr'[c].seid = cr[c].seid
    BY CreateProgress DEF Alone, Holding
  <1>2. half' = half
    BY <1>1, NothingHalved DEF AddressFreed
  <1>3. UNCHANGED <<upf, seidCounter>> /\ (Named(c)' => Named(c) /\ cr'[c].seid = cr[c].seid)
    <2>1. ~CreateN4(c)
      BY DEF CreateN4
    <2> QED
      BY <2>1, CreateNamed DEF CreateStep, CreatePolicy, CreateCheck, PoolLock, PoolGetFree, PoolGetTaken,
         PoolPut, CreateStore, CreateUndo, CreateBind, CreateBindPut, CreateCharge, CreateChargePut,
         CreateIncGet, CreateIncPut
  <1>4. cr'[c].pc \notin {"store", "undo"}
    <2>1. CASE PoolPut(c) \/ CreateUndo(c)
      BY <2>1, PoolPutEffect, UndoEffect DEF TypeInv, At
    <2>2. cr[c].pc \in {"poolPut", "undo"} => PoolPut(c) \/ CreateUndo(c)
      BY DEF CreateStep, CreatePolicy, CreateCheck, PoolLock, PoolGetFree, PoolGetTaken, CreateN4,
         CreateStore, CreateBind, CreateBindPut, CreateCharge, CreateChargePut, CreateIncGet, CreateIncPut
    <2> QED
      BY <2>1, <2>2, CreateProgress DEF Uncommitted
  <1>5. SameRecords
    <2> SUFFICES ASSUME NEW s \in SessionIDs
                 PROVE  /\ Stored(s)' <=> Stored(s)
                        /\ sessions'[s].ip = sessions[s].ip /\ sessions'[s].qos = sessions[s].qos
      BY DEF SameRecords
    <2>1. CASE Writes(c, s)
      <3>1. cr[c].pc \in Committed /\ s = sidOf(c) /\ sessions'[s] = record(c)
        BY <2>1 DEF Writes
      <3>2. Stored(s) /\ sessions[s].ip = cr[c].ip /\ sessions[s].qos = 0
        BY <3>1 DEF N4Inv, CreateShown
      <3> QED
        BY <3>1, <3>2, RecordStored DEF Holding, Stored
    <2>2. CASE sessions'[s] = sessions[s]
      BY <2>2 DEF Stored
    <2> QED
      BY <2>1, <2>2, CreateWrites
  <1>6. ASSUME NEW d \in Creates PROVE CreateShown(d)'
    <2>1. CASE d # c
      BY <1>1, <1>3, <1>5, <2>1, CreatesShown DEF Named, HasRecord, sidOf
    <2>2. CASE d = c
      BY <1>1, <1>3, <1>4, <1>5, <2>2, CreatesShown DEF sidOf
    <2> QED
      BY <2>1, <2>2
  <1>7. ASSUME NEW x \in Ops PROVE OpShown(x)'
    BY <1>1, <1>2, <1>3, <1>5, OpsShown
  <1>8. ASSUME NEW d \in Creates, Serves(d) PROVE Serves(d)' /\ cr'[d].seid = cr[d].seid
    <2>1. CASE d # c
      <3>1. cr'[d] = cr[d] /\ (HasRecord(d)' <=> HasRecord(d)) /\ sidOf(d)' = sidOf(d)
        BY <1>1, <2>1 DEF HasRecord, sidOf
      <3>2. HasRecord(d) => sidOf(d) \in SessionIDs
        BY OwnName DEF Named
      <3> QED
        BY <1>2, <1>5, <1>8, <3>1, <3>2 DEF Serves, SameRecords, Stored
    <2>2. CASE d = c
      <3>1. HasRecord(c) /\ Stored(sidOf(c)) /\ sidOf(c) \notin half
        BY <1>8, <2>2 DEF Serves
      <3>2. HasRecord(c)' /\ sidOf(c)' = sidOf(c) /\ sidOf(c) \in SessionIDs
        BY <3>1, CreateNamed, OwnName DEF Named
      <3>3. cr'[c].seid = cr[c].seid
        BY <1>1, <3>1, CreateNamed DEF HasRecord
      <3> QED
        BY <1>2, <1>5, <2>2, <3>1, <3>2, <3>3 DEF Serves, SameRecords, Stored
    <2> QED
      BY <2>1, <2>2
  <1>9. (\A s \in SessionIDs : SessionShown(s)') /\ (\A n \in SEIDs : SeidShown(n)')
    BY <1>1, <1>2, <1>3, <1>5, <1>8, SessionsShown
  <1>10. half' \subseteq Issued'
    BY <1>2, IssuedKept DEF N4Inv
  <1> QED
    BY <1>6, <1>7, <1>9, <1>10 DEF N4Inv

\* The establishment: an SEID nobody has had.
LEMMA N4Establish ==
    ASSUME OneReplica, TypeInv, Names, N4Inv, NEW c \in Creates, CreateN4(c), NoteHalf, NoteUnheard
    PROVE  N4Inv'
  <1> DEFINE m == cr'[c].seid
             r == cr[c].rep
  <1>0. CreateStep(c)
    BY DEF CreateStep
  <1>1. /\ Alone(c) /\ cr[c].pc = "n4" /\ cr'[c].pc \in {"store", "undo"} /\ cr'[c].ip = cr[c].ip
        /\ m = seidCounter[r] + 1 /\ m \in SEIDs /\ r \in Replicas
        /\ seidCounter' = [seidCounter EXCEPT ![r] = m]
        /\ UNCHANGED sessions /\ cr'[c].code = 0 /\ cr[c].code = 0
    BY N4Effect DEF TypeInv, LocalInv, redisVars
  <1>2. UNCHANGED op /\ \A d \in Creates : d # c => cr'[d] = cr[d]
    BY <1>1 DEF Alone
  <1>3. half' = half /\ unheard \subseteq unheard'
    BY <1>2, NothingHalved DEF AddressFreed, NoteUnheard
  <1>4. /\ seidCounter \in [Replicas -> 0 .. MaxSEID] /\ upf \in [SEIDs -> Forwarding]
        /\ MaxSEID \in Nat /\ \A q \in Replicas : q = r
    BY <1>1, ConstantsAssumption DEF TypeInv, TypeOK, OneReplica
  <1>5. upf[m] = NoForwarding
    <2>1. seidCounter[r] \in Nat
      BY <1>1, <1>4
    <2> QED
      BY <1>1, <1>4, <2>1 DEF N4Inv, SeidShown
  <1>6. /\ \A n \in SEIDs : n # m => upf'[n] = upf[n]
        /\ \/ cr'[c].pc = "undo" /\ upf' = upf
           \/ cr'[c].pc = "store" /\ upf' = upf /\ m \in unheard'
           \/ cr'[c].pc = "store" /\ upf'[m] = [ip |-> cr[c].ip, qos |-> 0] /\ "PFCP" \in Features
    <2>1. {"store", "undo"} \subseteq CreatePC /\ cr[c] \in CreateState /\ cr \in [Creates -> CreateState]
      BY DEF CreatePC, TypeInv, TypeOK
    <2>2. ASSUME NEW p \in {"store", "undo"}, NEW n, cr' = [cr EXCEPT ![c] = [Go(c, p) EXCEPT !.seid = n]]
          PROVE  cr'[c].pc = p /\ cr'[c].seid = n
      <3>1. Go(c, p) \in CreateState /\ Go(c, p).pc = p
        BY <2>1, GoType
      <3> QED
        BY <2>1, <2>2, <3>1 DEF CreateState
    <2>3. upf' = upf /\ cr'[c].pc = "store" => m \in unheard'
      BY <1>1 DEF NoteUnheard
    <2>4. CASE cr'[c].pc = "undo"
      BY <2>2, <2>4 DEF CreateN4
    <2>5. CASE cr'[c].pc = "store" /\ upf' = upf
      BY <2>3, <2>5
    <2>6. CASE cr'[c].pc = "store" /\ upf' # upf
      <3>1. upf' = EstablishSession(m, cr[c].ip) /\ "PFCP" \in Features
        BY <1>1, <2>6 DEF CreateN4
      <3> QED
        BY <1>1, <1>4, <2>6, <3>1 DEF EstablishSession
    <2> QED
      BY <1>1, <2>4, <2>5, <2>6
  <1>7. ASSUME NEW d \in Creates, Named(d) PROVE cr[d].seid \in SEIDs /\ cr[d].seid # m /\ d # c
    <2>1. cr[d].seid \in SEIDs /\ cr[d].rep \in Replicas /\ cr[d].seid <= seidCounter[cr[d].rep]
      BY <1>7 DEF TypeInv, LocalInv, Names, Named, HasRecord, Committed
    <2>2. seidCounter[r] \in Nat /\ cr[d].seid \in Nat /\ cr[d].seid <= seidCounter[r]
      BY <1>1, <1>4, <2>1 DEF SEIDs
    <2> QED
      BY <1>1, <1>7, <2>1, <2>2 DEF Named, HasRecord, Committed
  <1>8. ASSUME NEW s, Owned(s) PROVE extractSEID(s) \in SEIDs /\ extractSEID(s) # m
    BY <1>7, <1>8, OwnName DEF Owned, Named
  <1>9. ASSUME NEW n \in SEIDs, n # m
        PROVE  /\ Silent(n) => Silent(n)'
               /\ \A a, q : ShownAs(n, a, q) => ShownAs(n, a, q)'
    BY <1>3, <1>6, <1>9 DEF Silent, ShownAs
  <1>10. half' \subseteq Issued'
    BY <1>0, <1>3, IssuedKept DEF N4Inv
  <1>11. ASSUME NEW d \in Creates PROVE CreateShown(d)'
    <2>1. CASE d # c
      <3>1. cr'[d] = cr[d] /\ CreateShown(d) /\ sidOf(d)' = sidOf(d) /\ (Named(d)' <=> Named(d))
        BY <1>2, <2>1 DEF N4Inv, sidOf, Named, HasRecord
      <3>2. cr[d].pc \in {"store", "undo"} => cr[d].seid \in SEIDs /\ cr[d].seid # m
        BY <1>7 DEF Named
      <3>3. /\ cr[d].pc = "store" => ShownAs(cr[d].seid, cr[d].ip, 0)'
            /\ cr[d].pc = "undo" => Silent(cr[d].seid)'
        BY <1>3, <1>6, <3>1, <3>2 DEF CreateShown, ShownAs, Silent
      <3> QED
        BY <1>1, <1>3, <3>1, <3>3 DEF CreateShown, Stored
    <2>2. CASE d = c
      <3>1. cr'[c].pc = "store" => ShownAs(cr[c].seid, cr[c].ip, 0)'
        BY <1>1, <1>6 DEF ShownAs
      <3>2. cr'[c].pc = "undo" => Silent(cr[c].seid)'
        BY <1>1, <1>5, <1>6 DEF Silent
      <3>3. "PFCP" \notin Features => m \in unheard'
        <4>1. "PFCP" \notin Features => cr'[c].pc # "undo"
          <5>1. ASSUME cr' = [cr EXCEPT ![c] = [Go(c, "store") EXCEPT !.seid = seidCounter[r] + 1]]
                PROVE  cr'[c].pc = "store"
            <6>1. Go(c, "store") \in CreateState /\ Go(c, "store").pc = "store"
              BY GoType DEF TypeInv, TypeOK, CreatePC
            <6> QED
              BY <5>1, <6>1 DEF TypeInv, TypeOK, CreateState
          <5> QED
            BY <5>1 DEF CreateN4
        <4> QED
          BY <1>6, <4>1
      <3> QED
        BY <1>1, <2>2, <3>1, <3>2, <3>3 DEF CreateShown, Committed
    <2> QED
      BY <2>1, <2>2
  <1>12. ASSUME NEW s \in SessionIDs PROVE SessionShown(s)'
    <2>1. SessionShown(s)
      BY DEF N4Inv
    <2>2. s \in half \/ Stored(s) => extractSEID(s) \in SEIDs /\ extractSEID(s) # m
      BY <1>8, OwnedSessions DEF N4Inv
    <2> QED
      BY <1>1, <1>2, <1>3, <1>6, <2>1, <2>2 DEF SessionShown, Stored, Silent, ShownAs
  <1>13. ASSUME NEW x \in Ops PROVE OpShown(x)'
    <2>1. OpShown(x)
      BY DEF N4Inv
    <2>2. op[x].pc \in Fetched => extractSEID(op[x].sid) \in SEIDs /\ extractSEID(op[x].sid) # m
      <3>1. op[x].pc \in Fetched => op[x].sid \in Issued /\ op[x].sid \in SessionIDs
        BY DEF Names, Fetched, AddressFreed, TypeInv, LocalInv
      <3> QED
        BY <1>8, <3>1, OwnedSessions
    <2>3. op[x].pc = "uPut" \/ op[x].pc \in Silenced => op[x].pc \in Fetched
      BY DEF Fetched, Silenced
    <2> QED
      BY <1>1, <1>2, <1>3, <1>6, <2>1, <2>2, <2>3 DEF OpShown, Stored, Silent, ShownAs
  <1>14. ASSUME NEW n \in SEIDs PROVE SeidShown(n)'
    <2>0. SeidShown(n)
      BY DEF N4Inv
    <2>1. ASSUME NEW q \in Replicas, n > seidCounter'[q] PROVE upf'[n] = NoForwarding
      <3>1. q = r /\ seidCounter'[r] = m /\ seidCounter[r] \in Nat /\ n \in Nat
        BY <1>1, <1>4 DEF SEIDs
      <3>2. n # m /\ n > seidCounter[r]
        BY <1>1, <2>1, <3>1
      <3> QED
        BY <1>1, <1>6, <2>0, <3>2 DEF SeidShown
    <2>2. CASE n # m
      <3>1. ASSUME NEW d \in Creates, cr[d].seid = n, Serves(d) PROVE cr'[d].seid = n /\ Serves(d)'
        <4>1. d # c
          BY <1>1, <3>1 DEF Serves, HasRecord, Committed
        <4> QED
          BY <1>1, <1>2, <1>3, <3>1, <4>1 DEF Serves, HasRecord, Stored, sidOf
      <3> QED
        BY <1>9, <2>0, <2>1, <2>2, <3>1 DEF SeidShown
    <2>3. CASE n = m
      <3>1. cr'[c].pc = "store" => Serves(c)'
        BY DEF Serves
      <3>2. cr'[c].pc = "undo" => upf'[n] = NoForwarding
        BY <1>5, <1>6, <2>3
      <3> QED
        BY <1>1, <2>1, <2>3, <3>1, <3>2 DEF SeidShown, Silent
    <2> QED
      BY <2>2, <2>3
  <1> QED
    BY <1>10, <1>11, <1>12, <1>13, <1>14 DEF N4Inv

\* The store: the record shows what the UPF was told.
LEMMA N4Store ==
    ASSUME WritesAnswered, TypeInv, FieldInv, Names, N4Inv, NEW c \in Creates, CreateStore(c), NoteHalf,
           unheard \subseteq unheard'
    PROVE  N4Inv'
  <1> DEFINE own == sidOf(c)
  <1>0. CreateStep(c) /\ "Put" \notin Faults
    BY DEF CreateStep, WritesAnswered
  <1>1. /\ cr[c].pc = "store" /\ UNCHANGED <<upf, seidCounter, op>>
        /\ sessions' = [sessions EXCEPT ![own] = record(c)]
        /\ \A d \in Creates : d # c => cr'[d] = cr[d]
        /\ cr'[c].supi = cr[c].supi /\ cr'[c].seid = cr[c].seid /\ cr'[c].ip = cr[c].ip
    BY <1>0, StoreEffect DEF CreateStore, TypeInv, Alone, Keeps, replicaVars
  <1>2. Commits(c)
    <2>1. Commits(c) \/ (At(c, "undo", 0) /\ UNCHANGED sessions)
      BY StoreEffect DEF TypeInv
    <2>2. AfterStore \in CreatePC /\ cr[c] \in CreateState /\ cr' = [cr EXCEPT ![c] = Go(c, AfterStore)]
      BY <1>0, AfterPC DEF CreateStore, CreatePC, TypeInv, TypeOK
    <2>3. cr'[c].pc = AfterStore
      BY <2>2, GoType DEF TypeInv, TypeOK
    <2> QED
      BY <2>1, <2>3, AfterPC DEF At
  <1>3. HasRecord(c)' /\ sidOf(c)' = own /\ Named(c)
    BY <1>1, <1>2 DEF Commits, At, HasRecord, sidOf, Named
  <1>4. /\ own \in SessionIDs /\ extractSEID(own) = cr[c].seid /\ sessions \in [SessionIDs -> Session]
        /\ cr[c].code # 201 /\ own \notin Issued
    BY <1>1, <1>3, OwnName, Answered DEF TypeInv, TypeOK, LocalInv
  <1>5. half' = half /\ own \notin half
    BY <1>1, <1>4, NothingHalved DEF AddressFreed, N4Inv
  <1>6. sessions'[own] = record(c) /\ \A s \in SessionIDs : s # own => sessions'[s] = sessions[s]
    BY <1>1, <1>4
  <1>7. record(c) # NoSession /\ record(c).ip = cr[c].ip /\ record(c).qos = 0 /\ cr[c].ip # NoIP
    BY <1>1, RecordStored, NoIPNotInPool DEF Holding, Uncommitted, FieldInv
  <1>8. ASSUME NEW d \in Creates, d # c, HasRecord(d)
        PROVE  /\ cr'[d] = cr[d] /\ HasRecord(d)' /\ sidOf(d)' = sidOf(d)
               /\ sessions'[sidOf(d)] = sessions[sidOf(d)]
    <2>1. sidOf(d) \in SessionIDs /\ sidOf(d) # own
      BY <1>3, <1>8, OwnName, SameName DEF Named
    <2> QED
      BY <1>1, <1>6, <1>8, <2>1 DEF HasRecord, sidOf
  <1>9. ASSUME NEW d \in Creates PROVE CreateShown(d)'
    <2>1. CreateShown(d)
      BY DEF N4Inv
    <2>2. CASE d # c
      <3>1. cr'[d] = cr[d] /\ (Named(d)' <=> Named(d))
        BY <1>1, <2>2 DEF Named, HasRecord
      <3>2. cr[d].pc \in Committed => HasRecord(d)
        BY DEF HasRecord
      <3> QED
        BY <1>1, <1>8, <2>1, <2>2, <3>1, <3>2 DEF CreateShown, Stored, ShownAs, Silent
    <2>3. CASE d = c
      BY <1>1, <1>2, <1>3, <1>6, <1>7, <2>1, <2>3 DEF CreateShown, Stored, Commits, At, Committed
    <2> QED
      BY <2>2, <2>3
  <1>10. ASSUME NEW s \in SessionIDs PROVE SessionShown(s)'
    <2>1. SessionShown(s)
      BY DEF N4Inv
    <2>2. CASE s # own
      BY <1>1, <1>5, <1>6, <2>1, <2>2 DEF SessionShown, Stored, Silent, ShownAs
    <2>3. CASE s = own
      <3>1. ShownAs(cr[c].seid, cr[c].ip, 0)
        BY <1>1 DEF N4Inv, CreateShown
      <3>2. ShownAs(extractSEID(s), sessions[s].ip, sessions[s].qos)'
        BY <1>1, <1>4, <1>6, <1>7, <2>3, <3>1 DEF ShownAs, extractSEID
      <3> QED
        BY <1>5, <1>6, <1>7, <2>3, <3>2 DEF SessionShown
    <2> QED
      BY <2>2, <2>3
  <1>11. ASSUME NEW x \in Ops PROVE OpShown(x)'
    <2>1. OpShown(x)
      BY DEF N4Inv
    <2>2. op[x].pc \in Fetched => op[x].sid \in SessionIDs /\ op[x].sid # own
      BY <1>4 DEF Names, TypeInv, LocalInv, Fetched, AddressFreed
    <2> QED
      BY <1>1, <1>5, <1>6, <2>1, <2>2 DEF OpShown, Stored, ShownAs, Silent
  <1>12. ASSUME NEW n \in SEIDs PROVE SeidShown(n)'
    <2>1. SeidShown(n)
      BY DEF N4Inv
    <2>2. ASSUME NEW d \in Creates, Serves(d) PROVE Serves(d)' /\ cr'[d].seid = cr[d].seid
      <3>1. CASE d = c
        BY <1>1, <1>3, <1>5, <1>6, <1>7, <3>1 DEF Serves, Stored
      <3>2. CASE d # c
        BY <1>1, <1>5, <1>8, <2>2, <3>2 DEF Serves, Stored
      <3> QED
        BY <3>1, <3>2
    <2> QED
      BY <1>1, <2>1, <2>2 DEF SeidShown, Silent
  <1>13. half' \subseteq Issued'
    BY <1>0, <1>5, IssuedKept DEF N4Inv
  <1> QED
    BY <1>9, <1>10, <1>11, <1>12, <1>13 DEF N4Inv

\* An operation that leaves the records and the UPF alone.
LEMMA N4OpFrame ==
    ASSUME TypeInv, N4Inv, NEW x \in Ops, OpAlone(x), op'[x].sid = op[x].sid,
           UNCHANGED <<upf, sessions, half>>, unheard \subseteq unheard',
           OpShown(x)', op[x].pc \in AfterN4 => op'[x].pc \in AfterN4
    PROVE  N4Inv'
  <1>1. UNCHANGED <<cr, seidCounter>> /\ \A y \in Ops : y # x => op'[y] = op[y]
    BY DEF OpAlone, replicaVars
  <1>2. SameRecords
    BY DEF SameRecords, Stored
  <1>3. ASSUME NEW y \in Ops PROVE OpShown(y)'
    BY <1>1, <1>2, OpsShown
  <1>4. ASSUME NEW c \in Creates PROVE CreateShown(c)'
    BY <1>1, <1>2, CreatesShown DEF Named, HasRecord, sidOf
  <1>5. \A c \in Creates : Serves(c) => Serves(c)' /\ cr'[c].seid = cr[c].seid
    BY <1>1 DEF Serves, HasRecord, Stored, sidOf
  <1>6. (\A s \in SessionIDs : SessionShown(s)') /\ (\A n \in SEIDs : SeidShown(n)')
    BY <1>1, <1>2, <1>5, SessionsShown
  <1>7. half' \subseteq Issued'
    BY <1>1 DEF N4Inv, Issued, sidOf
  <1> QED
    BY <1>3, <1>4, <1>6, <1>7 DEF N4Inv

LEMMA N4Get ==
    ASSUME TypeInv, Names, N4Inv, NEW x \in Ops, UpdateGet(x) \/ ReleaseGet(x), NoteHalf,
           unheard \subseteq unheard'
    PROVE  N4Inv'
  <1>1. /\ OpAlone(x) /\ op[x].pc \in {"uGet", "rGet"} /\ op'[x].sid = op[x].sid
        /\ \/ op'[x].pc = "done"
           \/ /\ op'[x].pc \in {"uN4", "uPut", "rN4", "rIP"} /\ Stored(op[x].sid)
              /\ op'[x].rec.ip = sessions[op[x].sid].ip
              /\ op'[x].pc \in {"uPut", "rIP"} => "PFCP" \notin Features
        /\ UNCHANGED <<sessions, upf>>
    BY OpGetEffect DEF TypeInv, redisVars
  <1>2. half' = half
    BY <1>1, NothingHalved DEF OpAlone, AddressFreed
  <1>3. "PFCP" \notin Features => extractSEID(op[x].sid) \in unheard
    <2>1. PICK c \in Creates : cr[c].code = 201 /\ op[x].sid = sidOf(c)
      BY <1>1 DEF Names, Issued
    <2>2. Named(c)
      BY <2>1 DEF Named, HasRecord
    <2> QED
      BY <2>1, <2>2, OwnName DEF N4Inv, CreateShown
  <1>4. OpShown(x)'
    BY <1>1, <1>3 DEF OpShown, Stored, ShownAs, Silent, Fetched, AddressFreed, Silenced
  <1> QED
    BY <1>1, <1>2, <1>4, N4OpFrame DEF AfterN4, Silenced, AddressFreed

\* A release on its way from the N4 deletion to the delete of the record.
LEMMA N4Release ==
    ASSUME TypeInv, N4Inv, NEW x \in Ops, NoteHalf, unheard \subseteq unheard',
           \/ ReleaseIP(x) \/ ReleaseCharge(x) \/ ReleaseBind(x) \/ ReleaseDecGet(x) \/ ReleaseDecPut(x)
    PROVE  N4Inv'
  <1>1. /\ OpAlone(x) /\ op'[x].sid = op[x].sid /\ op'[x].rec = op[x].rec
        /\ op[x].pc \in Silenced /\ op'[x].pc \in AddressFreed
    <2>1. CASE ReleaseIP(x)
      BY <2>1, ReleaseIPEffect DEF TypeInv, OpKeeps, Silenced
    <2>2. CASE ReleaseCharge(x) \/ ReleaseBind(x) \/ ReleaseDecGet(x) \/ ReleaseDecPut(x)
      <3>1. op[x].pc \in AddressFreed
        BY <2>2 DEF ReleaseCharge, ReleaseBind, ReleaseDecGet, ReleaseDecPut, AddressFreed
      <3> QED
        BY <2>2, <3>1, OpMoveEffect DEF TypeInv, OpMove, OpKeeps, Silenced
    <2> QED
      BY <2>1, <2>2
  <1>2. UNCHANGED <<upf, sessions>>
    BY DEF ReleaseIP, ReleaseCharge, ReleaseBind, ReleaseDecGet, ReleaseDecPut, redisVars
  <1>3. half' = half
    BY <1>1, NothingHalved DEF OpAlone, AddressFreed
  <1>4. OpShown(x)'
    <2>1. op[x].pc \in Fetched /\ op'[x].pc # "uPut"
      BY <1>1 DEF Fetched, Silenced, AddressFreed
    <2>2. OpShown(x)
      BY DEF N4Inv
    <2> QED
      BY <1>1, <1>2, <1>3, <2>1, <2>2 DEF OpShown, Stored, Silent
  <1> QED
    BY <1>1, <1>2, <1>3, <1>4, N4OpFrame DEF AfterN4, Silenced

\* A modification or a deletion reaches the UPF, or is lost.
LEMMA N4Message ==
    ASSUME TypeInv, Names, SerialOps, N4Inv, NEW x \in Ops, UpdateN4(x) \/ ReleaseN4(x), NoteHalf, NoteUnheard
    PROVE  N4Inv'
  <1> DEFINE own == op[x].sid
             m == extractSEID(op[x].sid)
  <1>0. {"uPut", "rIP"} \subseteq OpPC /\ 500 \in Codes /\ unheard \subseteq unheard'
    BY DEF OpPC, Codes, NoteUnheard
  <1>1. /\ OpAlone(x) /\ op'[x].sid = own /\ op'[x].rec = op[x].rec /\ UNCHANGED sessions
        /\ op[x].pc \in {"uN4", "rN4"} /\ op[x].pc \in Fetched
    <2>1. OpMove(x)
      BY DEF OpMove
    <2> QED
      BY <2>1, OpMoveEffect DEF TypeInv, OpKeeps, redisVars, UpdateN4, ReleaseN4
  <1>2. \/ op'[x].pc = "done" /\ upf' = upf
        \/ op[x].pc = "uN4" /\ op'[x].pc = "uPut" /\ (upf' = upf \/ upf' = ModifySession(m, op[x].rec.qos))
        \/ op[x].pc = "rN4" /\ op'[x].pc = "rIP" /\ (upf' = upf \/ upf' = DeleteSession(m))
    BY <1>0, OpGoType, ReplyType DEF TypeInv, UpdateN4, ReleaseN4
  <1>3. half' = half
    BY <1>1, NothingHalved DEF OpAlone, AddressFreed
  <1>4. own \in Issued /\ own \in SessionIDs /\ Owned(own) /\ m \in SEIDs /\ OpRuns(x)
    <2>1. own \in Issued /\ own \in SessionIDs /\ OpRuns(x)
      BY <1>1 DEF Names, TypeInv, LocalInv, OpRuns
    <2> QED
      BY <2>1, OwnedSessions, SeidOf
  <1>5. upf \in [SEIDs -> Forwarding] /\ UNCHANGED <<cr, seidCounter>> /\ \A y \in Ops : y # x => op'[y] = op[y]
    BY <1>1 DEF TypeInv, TypeOK, OpAlone, replicaVars
  <1>6. CASE op'[x].pc = "done" /\ upf' = upf
    <2>1. OpShown(x)'
      BY <1>6 DEF OpShown, Fetched, AddressFreed, Silenced
    <2> QED
      BY <1>0, <1>1, <1>3, <1>6, <2>1, N4OpFrame DEF AfterN4, Silenced, AddressFreed
  <1>7. CASE op'[x].pc \in {"uPut", "rIP"}
    <2>1. /\ \A n \in SEIDs : n # m => upf'[n] = upf[n]
          /\ upf[m] = NoForwarding => upf'[m] = NoForwarding
      BY <1>2, <1>4, <1>5 DEF ModifySession, DeleteSession
    <2>2. upf' = upf => m \in unheard'
      BY <1>2, <1>7 DEF NoteUnheard
    <2>3. \A y \in Ops : op[y].pc \in AfterN4 => op[y].sid # own
      BY <1>1, <1>4 DEF SerialOps, OpRuns, AfterN4, Silenced, AddressFreed
    <2>4. OpShown(x)'
      <3>1. Stored(own) /\ op[x].rec.ip = sessions[own].ip
        BY <1>1 DEF N4Inv, OpShown
      <3>2. CASE op'[x].pc = "uPut"
        <4>1. ASSUME own \notin half, m \notin unheard'
              PROVE  upf'[m] = [ip |-> op[x].rec.ip, qos |-> op[x].rec.qos]
          <5>1. m \notin unheard /\ upf' # upf
            BY <1>0, <2>2, <4>1
          <5>2. ShownAs(m, sessions[own].ip, sessions[own].qos)
            BY <1>4, <2>3, <3>1, <4>1 DEF N4Inv, SessionShown
          <5>3. upf' = [upf EXCEPT ![m].qos = op[x].rec.qos]
            BY <1>2, <3>2, <5>1 DEF ModifySession
          <5>4. upf[m] = [ip |-> op[x].rec.ip, qos |-> sessions[own].qos]
            BY <3>1, <5>1, <5>2 DEF ShownAs
          <5> QED
            BY <1>4, <1>5, <5>3, <5>4
        <4> QED
          BY <1>1, <1>3, <3>1, <3>2, <4>1 DEF OpShown, Stored, ShownAs, Silenced, AddressFreed
      <3>3. CASE op'[x].pc = "rIP"
        <4>1. m \notin unheard' => upf'[m] = NoForwarding
          BY <1>2, <1>4, <1>5, <2>2, <3>3 DEF DeleteSession
        <4> QED
          BY <1>1, <3>1, <3>3, <4>1 DEF OpShown, Stored, Silent, Silenced
      <3> QED
        BY <1>7, <3>2, <3>3
    <2>5. ASSUME NEW y \in Ops PROVE OpShown(y)'
      <3>1. CASE y = x
        BY <2>4, <3>1
      <3>2. CASE y # x /\ op[y].pc \in Fetched
        <4>1. op[y].sid \in Issued /\ op[y].sid \in SessionIDs /\ op[y].sid # own
          BY <1>4, <3>2 DEF Names, TypeInv, LocalInv, SerialOps, OpRuns, Fetched, AddressFreed
        <4>2. extractSEID(op[y].sid) \in SEIDs /\ extractSEID(op[y].sid) # m
          BY <1>4, <4>1, OwnedSessions, OwnSeid, SeidOf
        <4>3. OpShown(y)
          BY DEF N4Inv
        <4> QED
          BY <1>0, <1>1, <1>3, <1>5, <2>1, <3>2, <4>2, <4>3 DEF OpShown, Stored, ShownAs, Silent
      <3>3. CASE y # x /\ op[y].pc \notin Fetched
        BY <1>5, <3>3 DEF OpShown, Fetched, Silenced
      <3> QED
        BY <3>1, <3>2, <3>3
    <2>6. ASSUME NEW s \in SessionIDs PROVE SessionShown(s)'
      <3>1. SessionShown(s)
        BY DEF N4Inv
      <3>2. CASE s = own
        <4>1. ~\A y \in Ops : op'[y].sid = s => op'[y].pc \notin AfterN4
          BY <1>1, <1>7, <3>2 DEF AfterN4, Silenced
        <4>2. s \in half => Silent(extractSEID(s))'
          BY <1>0, <2>1, <3>1, <3>2 DEF SessionShown, Silent
        <4> QED
          BY <1>1, <1>3, <3>1, <4>1, <4>2 DEF SessionShown, Stored
      <3>3. CASE s # own
        <4>1. s \in half \/ Stored(s) => extractSEID(s) \in SEIDs /\ extractSEID(s) # m
          BY <1>4, <3>3, OwnedSessions, OwnSeid, SeidOf DEF N4Inv
        <4>2. (\A y \in Ops : op'[y].sid = s => op'[y].pc \notin AfterN4)
                => \A y \in Ops : op[y].sid = s => op[y].pc \notin AfterN4
          BY <1>1, <1>5, <3>3
        <4> QED
          BY <1>0, <1>1, <1>3, <2>1, <3>1, <4>1, <4>2 DEF SessionShown, Stored, ShownAs, Silent
      <3> QED
        BY <3>2, <3>3
    <2>7. ASSUME NEW c \in Creates PROVE CreateShown(c)'
      <3>1. cr[c].pc \in {"store", "undo"} => cr[c].seid \in SEIDs /\ cr[c].seid # m
        BY <1>4, IssuedSeid DEF TypeInv, LocalInv, Named
      <3>2. CreateShown(c) /\ (Named(c)' <=> Named(c)) /\ sidOf(c)' = sidOf(c)
        BY <1>5 DEF N4Inv, Named, HasRecord, sidOf
      <3> QED
        BY <1>0, <1>1, <1>5, <2>1, <3>1, <3>2 DEF CreateShown, Stored, ShownAs, Silent
    <2>8. ASSUME NEW n \in SEIDs PROVE SeidShown(n)'
      <3>1. SeidShown(n) /\ (upf[n] = NoForwarding => upf'[n] = NoForwarding)
        BY <2>1 DEF N4Inv
      <3>2. \A c \in Creates : Serves(c) => Serves(c)'
        BY <1>1, <1>3, <1>5 DEF Serves, HasRecord, Stored, sidOf
      <3> QED
        BY <1>0, <1>5, <3>1, <3>2 DEF SeidShown, Silent
    <2>9. half' \subseteq Issued'
      BY <1>3, <1>5 DEF N4Inv, Issued, sidOf
    <2> QED
      BY <2>5, <2>6, <2>7, <2>8, <2>9 DEF N4Inv
  <1> QED
    BY <1>2, <1>6, <1>7

\* An update stores what it told the UPF; a release deletes a record that the
\* UPF knows nothing of, or leaves it half released.
LEMMA N4Write ==
    ASSUME WritesAnswered, TypeInv, Names, SerialOps, N4Inv, NEW x \in Ops, UpdatePut(x) \/ ReleaseDelete(x),
           NoteHalf, unheard \subseteq unheard'
    PROVE  N4Inv'
  <1> DEFINE own == op[x].sid
             m == extractSEID(op[x].sid)
  <1>1. /\ OpAlone(x) /\ op'[x].sid = own /\ op[x].pc \in {"uPut", "rDel"} /\ op'[x].pc = "done"
        /\ UNCHANGED upf
    BY UpdatePutEffect, ReleaseDeleteEffect DEF TypeInv, OpKeeps
  <1>2. UNCHANGED <<cr, seidCounter>> /\ \A y \in Ops : y # x => op'[y] = op[y]
    BY <1>1 DEF OpAlone, replicaVars
  <1>3. own \in Issued /\ own \in SessionIDs /\ Owned(own) /\ m \in SEIDs /\ OpRuns(x)
    <2>1. own \in Issued /\ own \in SessionIDs /\ OpRuns(x)
      BY <1>1 DEF Names, TypeInv, LocalInv, OpRuns
    <2> QED
      BY <2>1, OwnedSessions, SeidOf
  <1>4. \/ /\ op[x].pc = "uPut" /\ half' = half
           /\ sessions' = [sessions EXCEPT ![own] = op[x].rec]
        \/ /\ op[x].pc = "rDel" /\ half' = half
           /\ sessions' = [sessions EXCEPT ![own] = NoSession]
        \/ /\ op[x].pc = "rDel" /\ half' = half \cup {own} /\ UNCHANGED sessions
    <2>1. \A y \in Ops : Stopped(y) => y = x
      BY <1>2 DEF Stopped, AddressFreed
    <2>2. /\ Stopped(x) => half' = half \cup {own}
          /\ ~Stopped(x) => half' = half
      BY <2>1 DEF NoteHalf
    <2>3. CASE UpdatePut(x)
      <3>1. ~Stopped(x)
        BY <2>3 DEF UpdatePut, Stopped, AddressFreed
      <3> QED
        BY <2>2, <2>3, <3>1 DEF UpdatePut, WritesAnswered
    <2>4. CASE ReleaseDelete(x)
      <3>1. CASE op'[x].code = 200 /\ sessions' = [sessions EXCEPT ![own] = NoSession]
        BY <2>2, <2>4, <3>1 DEF Stopped, ReleaseDelete
      <3>2. CASE op'[x].code = 500 /\ UNCHANGED sessions
        <4>1. Stopped(x)
          BY <1>1, <2>4, <3>2 DEF Stopped, AddressFreed, ReleaseDelete
        <4> QED
          BY <2>2, <2>4, <3>2, <4>1 DEF ReleaseDelete
      <3> QED
        BY <2>4, <3>1, <3>2, ReleaseDeleteEffect DEF TypeInv
    <2> QED
      BY <2>3, <2>4
  <1>5. /\ \A s \in SessionIDs : s # own => sessions'[s] = sessions[s]
        /\ \A s : s # own => (s \in half' <=> s \in half)
        /\ half' \subseteq Issued
    BY <1>3, <1>4 DEF TypeInv, TypeOK, N4Inv
  <1>6. OpShown(x) /\ SessionShown(own) /\ Stored(own) /\ op[x].rec.ip = sessions[own].ip
    <2>1. OpShown(x) /\ SessionShown(own)
      BY <1>3 DEF N4Inv
    <2>2. op[x].pc \in Fetched
      BY <1>1 DEF Fetched, AddressFreed
    <2> QED
      BY <2>1, <2>2 DEF OpShown
  <1>7. op[x].pc = "rDel" => Silent(m)
    BY <1>6 DEF OpShown, Silenced, AddressFreed
  <1>8. op[x].pc = "uPut" => /\ sessions'[own] = op[x].rec /\ op[x].rec.ip # NoIP
                             /\ Stored(own)' /\ half' = half
    <2>1. op[x].pc = "uPut" => sessions'[own] = op[x].rec /\ op[x].rec.ip # NoIP /\ half' = half
      BY <1>3, <1>4, <1>6 DEF TypeInv, TypeOK, SessionShown
    <2> QED
      BY <1>1, <2>1 DEF Stored, NoSession
  <1>9. ASSUME NEW y \in Ops PROVE OpShown(y)'
    <2>1. CASE y = x
      BY <1>1, <2>1 DEF OpShown, Fetched, Silenced, AddressFreed
    <2>2. CASE y # x /\ op[y].pc \in Fetched
      <3>1. op[y].sid \in SessionIDs /\ op[y].sid # own
        BY <1>3, <2>2 DEF TypeInv, LocalInv, SerialOps, OpRuns, Fetched, AddressFreed
      <3>2. OpShown(y)
        BY DEF N4Inv
      <3> QED
        BY <1>1, <1>2, <1>5, <2>2, <3>1, <3>2 DEF OpShown, Stored, ShownAs, Silent
    <2>3. CASE y # x /\ op[y].pc \notin Fetched
      BY <1>2, <2>3 DEF OpShown, Fetched, Silenced
    <2> QED
      BY <2>1, <2>2, <2>3
  <1>10. ASSUME NEW c \in Creates PROVE CreateShown(c)'
    <2>1. CreateShown(c) /\ (Named(c)' <=> Named(c)) /\ sidOf(c)' = sidOf(c)
      BY <1>2 DEF N4Inv, Named, HasRecord, sidOf
    <2>2. cr[c].pc \in Committed => sidOf(c) # own /\ sidOf(c) \in SessionIDs
      BY <1>3, Answered, OwnName DEF Named, HasRecord, Committed
    <2> QED
      BY <1>1, <1>2, <1>5, <2>1, <2>2 DEF CreateShown, Stored, ShownAs, Silent
  <1>11. ASSUME NEW s \in SessionIDs PROVE SessionShown(s)'
    <2>1. SessionShown(s)
      BY DEF N4Inv
    <2>2. CASE s # own
      <3>1. (\A y \in Ops : op'[y].sid = s => op'[y].pc \notin AfterN4)
                => \A y \in Ops : op[y].sid = s => op[y].pc \notin AfterN4
        BY <1>1, <1>2, <2>2
      <3> QED
        BY <1>1, <1>5, <2>1, <2>2, <3>1 DEF SessionShown, Stored, ShownAs, Silent
    <2>3. CASE s = own /\ op[x].pc = "uPut"
      <3>1. own \notin half => ShownAs(m, op[x].rec.ip, op[x].rec.qos)
        BY <1>6, <2>3 DEF OpShown
      <3> QED
        BY <1>1, <1>8, <2>1, <2>3, <3>1 DEF SessionShown, ShownAs, Silent
    <2>4. CASE s = own /\ op[x].pc = "rDel"
      <3>1. Silent(extractSEID(s))'
        BY <1>1, <1>7, <2>4 DEF Silent
      <3>2. ~Stored(s)' \/ (s \in half' /\ UNCHANGED sessions)
        BY <1>3, <1>4, <2>4 DEF TypeInv, TypeOK, Stored
      <3> QED
        BY <1>6, <2>4, <3>1, <3>2 DEF SessionShown, Stored
    <2> QED
      BY <1>1, <2>2, <2>3, <2>4
  <1>12. ASSUME NEW n \in SEIDs PROVE SeidShown(n)'
    <2>1. SeidShown(n) /\ (Silent(n) => Silent(n)')
      BY <1>1 DEF N4Inv, Silent
    <2>2. ASSUME NEW c \in Creates, cr[c].seid = n, Serves(c), ~Silent(n) PROVE Serves(c)'
      <3>1. (HasRecord(c)' <=> HasRecord(c)) /\ sidOf(c)' = sidOf(c)
        BY <1>2 DEF HasRecord, sidOf
      <3>2. CASE HasRecord(c) /\ sidOf(c) # own
        BY <1>2, <1>5, <2>2, <3>1, <3>2, OwnName DEF Serves, Stored, Named
      <3>3. CASE HasRecord(c) /\ sidOf(c) = own
        <4>1. n = m
          BY <2>2, <3>3, OwnName DEF Named
        <4>2. op[x].pc = "uPut"
          BY <1>1, <1>7, <2>2, <4>1
        <4>3. Stored(own)' /\ own' = own /\ half' = half
          BY <1>1, <1>8, <4>2
        <4>4. Stored(sidOf(c))' /\ sidOf(c)' = own
          BY <3>1, <3>3, <4>3 DEF Stored
        <4>5. own \notin half'
          BY <1>6, <2>2, <4>1, <4>3 DEF SessionShown
        <4> QED
          BY <3>1, <3>3, <4>4, <4>5 DEF Serves
      <3>4. CASE ~HasRecord(c)
        BY <1>2, <2>2, <3>4 DEF Serves
      <3> QED
        BY <3>2, <3>3, <3>4
    <2> QED
      BY <1>1, <1>2, <2>1, <2>2 DEF SeidShown
  <1>13. half' \subseteq Issued'
    BY <1>2, <1>5 DEF Issued, sidOf
  <1> QED
    BY <1>9, <1>10, <1>11, <1>12, <1>13 DEF N4Inv

LEMMA N4Begins ==
    ASSUME TypeInv, N4Inv, Begins, restarts' = 0, NoteHalf, unheard \subseteq unheard'
    PROVE  N4Inv'
  <1>1. UNCHANGED <<sessions, upf, seidCounter>> /\ Issued' = Issued
    BY BeginsEffect, StartedNames DEF redisVars
  <1>2. ASSUME NEW x \in Ops
        PROVE  op'[x] = op[x] \/ (op[x].pc = "idle" /\ op'[x].pc \in {"uGet", "rGet"})
    BY BeginsEffect DEF OpAlone
  <1>3. half' = half
    BY <1>2, NothingHalved DEF AddressFreed
  <1>4. SameRecords
    BY <1>1 DEF SameRecords, Stored
  <1>5. ASSUME NEW c \in Creates
        PROVE  \/ cr'[c] = cr[c]
               \/ ~Named(c)' /\ cr'[c].pc \in {"pcf", "lock"} /\ cr[c].pc = "idle" /\ ~HasRecord(c)
    BY StartedNames
  <1>6. ASSUME NEW c \in Creates PROVE CreateShown(c)'
    BY <1>1, <1>4, <1>5, CreatesShown DEF Named, HasRecord, sidOf, Committed
  <1>7. ASSUME NEW x \in Ops PROVE OpShown(x)'
    BY <1>1, <1>2, <1>3, <1>4, OpsShown DEF Fetched, AddressFreed, Silenced
  <1>8. ASSUME NEW c \in Creates, Serves(c) PROVE Serves(c)' /\ cr'[c].seid = cr[c].seid
    <2>1. cr'[c] = cr[c]
      BY <1>5, <1>8 DEF Serves
    <2> QED
      BY <1>1, <1>3, <1>8, <2>1 DEF Serves, HasRecord, Stored, sidOf
  <1>9. \A x \in Ops : op[x].pc \in AfterN4 => op'[x].pc \in AfterN4 /\ op'[x].sid = op[x].sid
    BY <1>2 DEF AfterN4, Silenced, AddressFreed
  <1>10. (\A s \in SessionIDs : SessionShown(s)') /\ (\A n \in SEIDs : SeidShown(n)')
    BY <1>1, <1>3, <1>4, <1>8, <1>9, SessionsShown
  <1> QED
    BY <1>1, <1>3, <1>6, <1>7, <1>10 DEF N4Inv

SteadyN4 == TypeInv /\ FieldInv /\ SerialOps /\ (restarts = 0 => Names /\ N4Inv)

LEMMA N4Init == BackingInit => SteadyN4
  <1> SUFFICES ASSUME BackingInit PROVE SteadyN4
    OBVIOUS
  <1>1. TypeInv /\ FieldInv /\ Names /\ SerialOps
    BY TypeInit, FieldInit, NamesInit, OwnerInit DEF BackingInit, OwnerInv
  <1>2. half = {} /\ (\A c \in Creates : cr[c].pc = "idle" /\ cr[c].code = 0)
        /\ (\A x \in Ops : op[x].pc = "idle") /\ (\A s \in SessionIDs : sessions[s] = NoSession)
        /\ \A n \in SEIDs : upf[n] = NoForwarding
    BY DEF BackingInit, Init, IdleCreate, IdleOp
  <1>3. \A c \in Creates : CreateShown(c)
    BY <1>2 DEF CreateShown, Named, HasRecord, Committed
  <1>4. \A s \in SessionIDs : SessionShown(s)
    BY <1>2 DEF SessionShown, Stored
  <1>5. \A x \in Ops : OpShown(x)
    BY <1>2 DEF OpShown, Fetched, Silenced, AddressFreed
  <1>6. \A n \in SEIDs : SeidShown(n)
    BY <1>2 DEF SeidShown, Silent
  <1> QED
    BY <1>1, <1>2, <1>3, <1>4, <1>5, <1>6 DEF SteadyN4, N4Inv

LEMMA N4Next ==
    ASSUME OneReplica, SerialClients, WritesAnswered, SteadyN4, [BackingNext]_backingVars
    PROVE  SteadyN4'
  <1>0. TypeInv /\ FieldInv /\ SerialOps
    BY DEF SteadyN4
  <1>1. TypeInv' /\ FieldInv' /\ SerialOps'
    <2>1. [Next]_vars
      BY BackingStep DEF backingVars
    <2> QED
      BY <1>0, <2>1, TypeNext, FieldNext, SerialNext
  <1> SUFFICES ASSUME restarts' = 0 PROVE Names' /\ N4Inv'
    BY <1>1 DEF SteadyN4
  <1>2. Names /\ N4Inv
    BY <1>0, StillSteady DEF SteadyN4
  <1>3. Names'
    BY <1>0, <1>2, NamesNext
  <1>4. CASE UNCHANGED backingVars
    <2>1. UNCHANGED <<sessions, upf, seidCounter, half, unheard, cr, op>>
      BY <1>4 DEF backingVars, vars, historyVars
    <2>2. \A c \in Creates : CreateShown(c)'
      BY <1>2, <2>1 DEF N4Inv, CreateShown, Stored, ShownAs, Silent, Named, HasRecord, sidOf
    <2>3. \A s \in SessionIDs : SessionShown(s)'
      BY <1>2, <2>1 DEF N4Inv, SessionShown, Stored, ShownAs, Silent
    <2>4. \A x \in Ops : OpShown(x)'
      BY <1>2, <2>1 DEF N4Inv, OpShown, Stored, ShownAs, Silent
    <2>5. \A n \in SEIDs : SeidShown(n)'
      BY <1>2, <2>1 DEF N4Inv, SeidShown, Silent, Serves, HasRecord, Stored, sidOf
    <2>6. half' \subseteq Issued'
      BY <1>2, <2>1 DEF N4Inv, Issued, sidOf
    <2> QED
      BY <1>3, <2>2, <2>3, <2>4, <2>5, <2>6 DEF N4Inv
  <1>5. CASE BackingNext
    <2>0. NoteHalf /\ NoteUnheard /\ unheard \subseteq unheard'
      BY <1>5, HistoryGrows DEF BackingNext, Noted
    <2>1. ASSUME NEW c \in Creates, CreateStep(c) PROVE N4Inv'
      <3>1. (cr[c].pc = "n4" => CreateN4(c)) /\ (cr[c].pc = "store" => CreateStore(c))
        BY <2>1 DEF CreateStep, CreatePolicy, CreateCheck, PoolLock, PoolGetFree, PoolGetTaken, PoolPut,
             CreateStore, CreateN4, CreateUndo, CreateBind, CreateBindPut, CreateCharge, CreateChargePut,
             CreateIncGet, CreateIncPut
      <3> QED
        BY <1>0, <1>2, <2>0, <2>1, <3>1, N4Establish, N4Store, N4Quiet
    <2>2. ASSUME NEW x \in Ops, OpStep(x) PROVE N4Inv'
      BY <1>0, <1>2, <2>0, <2>2, N4Get, N4Message, N4Write, N4Release DEF OpStep
    <2>3. \A x \in Ops : ~OpCrash(x)
      BY DEF OpCrash, WritesAnswered
    <2>4. CASE Begins
      BY <1>0, <1>2, <1>3, <2>0, <2>4, N4Begins
    <2>5. ASSUME NEW c \in Creates, Register(c) PROVE CreateStep(c)
      BY <2>5 DEF Register, CreateStep
    <2>6. ASSUME NEW x \in Ops, Deregister(x) PROVE OpStep(x)
      BY <2>6 DEF Deregister, OpStep
    <2> QED
      BY <1>3, <1>4, <2>1, <2>2, <2>3, <2>4, <2>5, <2>6, BackingCases
  <1> QED
    BY <1>4, <1>5

(* Until the replica restarts, and whichever reads, deletes, PFCP calls    *)
(* and SBI calls fail, the UPF forwards for a session at rest with the     *)
(* address and QoS of its record and for nobody else, unless a PFCP        *)
(* request left no trace or the session is half released.                  *)
THEOREM RecordsForwarded ==
    ASSUME OneReplica, SerialClients, WritesAnswered
    PROVE  BackingSpec => []N4Agrees
  <1>1. SteadyN4 /\ [BackingNext]_backingVars => SteadyN4'
    BY N4Next
  <1>2. SteadyN4 => N4Agrees
    <2> SUFFICES ASSUME TypeInv, Names, N4Inv
                 PROVE  /\ \A s \in SessionIDs \ half :
                              Stored(s) /\ ~Busy(s) /\ extractSEID(s) \notin unheard =>
                                upf[extractSEID(s)] = [ip |-> sessions[s].ip, qos |-> sessions[s].qos]
                        /\ \A n \in SEIDs \ unheard :
                              upf[n] # NoForwarding /\ ~CreateOn(n) =>
                                \E s \in SessionIDs : extractSEID(s) = n /\ sessions[s].ip = upf[n].ip
      BY DEF SteadyN4, N4Agrees
    <2>1. ASSUME NEW s \in SessionIDs \ half, Stored(s), ~Busy(s), extractSEID(s) \notin unheard
          PROVE  upf[extractSEID(s)] = [ip |-> sessions[s].ip, qos |-> sessions[s].qos]
      <3>1. \A x \in Ops : op[x].sid = s => op[x].pc \notin AfterN4
        BY <2>1 DEF Busy, OpRuns, AfterN4, Silenced, AddressFreed
      <3> QED
        BY <2>1, <3>1 DEF N4Inv, SessionShown, ShownAs
    <2>2. ASSUME NEW n \in SEIDs \ unheard, upf[n] # NoForwarding, ~CreateOn(n)
          PROVE  \E s \in SessionIDs : extractSEID(s) = n /\ sessions[s].ip = upf[n].ip
      <3>1. PICK c \in Creates : cr[c].seid = n /\ Serves(c)
        BY <2>2 DEF N4Inv, SeidShown, Silent
      <3>2. HasRecord(c) /\ Stored(sidOf(c)) /\ sidOf(c) \notin half
        BY <2>2, <3>1 DEF Serves, CreateOn, CreateRuns
      <3>3. PICK s \in SessionIDs \ half : extractSEID(s) = n /\ Stored(s)
        BY <3>1, <3>2, OwnName DEF Named
      <3>4. ASSUME \A x \in Ops : op[x].sid = s => op[x].pc \notin AfterN4
            PROVE  sessions[s].ip = upf[n].ip
        <4>1. SessionShown(s)
          BY DEF N4Inv
        <4>2. ShownAs(n, sessions[s].ip, sessions[s].qos)
          BY <3>3, <3>4, <4>1 DEF SessionShown
        <4> QED
          BY <2>2, <4>2 DEF ShownAs
      <3>5. ASSUME NEW x \in Ops, op[x].sid = s, op[x].pc \in AfterN4 PROVE sessions[s].ip = upf[n].ip
        <4>1. OpShown(x) /\ op[x].pc \in Fetched
          BY <3>5 DEF N4Inv, AfterN4, Silenced, Fetched
        <4>2. op[x].pc = "uPut"
          BY <2>2, <3>3, <3>5, <4>1 DEF OpShown, Silent, AfterN4
        <4> QED
          BY <2>2, <3>3, <3>5, <4>1, <4>2 DEF OpShown, ShownAs
      <3> QED
        BY <3>3, <3>4, <3>5
    <2> QED
      BY <2>1, <2>2
  <1> QED
    BY <1>1, <1>2, N4Init, PTL DEF BackingSpec
=============================================================================
