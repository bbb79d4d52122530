------------------------- MODULE PDUSession_proofs --------------------------
(***************************************************************************)
(* Proofs about PDUSession.  TypeCorrect needs no assumption beyond those  *)
(* on the constants.                                                       *)
(***************************************************************************)
EXTENDS PDUSession, TLAPS

TypeInv == TypeOK /\ LocalInv

(* The cursor never leaves the pool: NextIP wraps both octets.             *)
LEMMA NextIPInPool == \A a \in IPs : NextIP(a) \in IPs
  BY ConstantsAssumption DEF IPs, NextIP

LEMMA FirstIPInPool == FirstIP \in IPs
  BY ConstantsAssumption DEF IPs, FirstIP

LEMMA NoIPNotInPool == NoIP \notin IPs
  BY DEF IPs, NoIP

(* What the updates of a create's local state preserve.                    *)
LEMMA GoType ==
    ASSUME NEW c \in Creates, cr[c] \in CreateState, NEW p \in CreatePC
    PROVE  /\ Go(c, p) \in CreateState
           /\ Go(c, p).pc = p
           /\ Go(c, p).code = IF p = "done" THEN 201 ELSE 0
           /\ Go(c, p).rep = cr[c].rep
           /\ Go(c, p).supi = cr[c].supi
           /\ Go(c, p).ip = cr[c].ip
           /\ Go(c, p).seid = cr[c].seid
           /\ Go(c, p).bsf = cr[c].bsf /\ Go(c, p).chg = cr[c].chg
  <1> DEFINE k == IF p = "done" THEN 201 ELSE 0
  <1>1. k \in Codes
    BY DEF Codes
  <1>2. Go(c, p) = [cr[c] EXCEPT !.pc = p, !.code = k]
    BY DEF Go
  <1> HIDE DEF k
  <1>3. /\ Go(c, p) \in CreateState
        /\ Go(c, p).pc = p /\ Go(c, p).code = k /\ Go(c, p).rep = cr[c].rep
        /\ Go(c, p).supi = cr[c].supi /\ Go(c, p).ip = cr[c].ip
        /\ Go(c, p).seid = cr[c].seid
        /\ Go(c, p).bsf = cr[c].bsf /\ Go(c, p).chg = cr[c].chg
    BY <1>1, <1>2 DEF CreateState
  <1> QED
    BY <1>3 DEF k

LEMMA FailType ==
    ASSUME NEW c \in Creates, cr[c] \in CreateState, NEW k \in Codes
    PROVE  /\ Fail(c, k) \in CreateState
           /\ Fail(c, k).pc = "done"
           /\ Fail(c, k).code = k
           /\ Fail(c, k).rep = cr[c].rep
           /\ Fail(c, k).supi = cr[c].supi
           /\ Fail(c, k).ip = cr[c].ip
           /\ Fail(c, k).seid = cr[c].seid
           /\ Fail(c, k).bsf = cr[c].bsf /\ Fail(c, k).chg = cr[c].chg
  BY DEF Fail, CreateState, CreatePC

LEMMA AfterPC ==
    /\ AfterStore \in {"bsf", "chf", "incGet", "done"}
    /\ AfterBinding \in {"chf", "incGet", "done"}
    /\ AfterCharging \in {"incGet", "done"}
    /\ AfterFree \in {"rChf", "rBsf", "rDecGet", "rDel"}
    /\ AfterUncharge \in {"rBsf", "rDecGet", "rDel"}
    /\ AfterUnbind \in {"rDecGet", "rDel"}
  BY DEF AfterStore, AfterBinding, AfterCharging, AfterFree, AfterUncharge, AfterUnbind

(* A create that has answered 201 has a session identifier.                *)
LEMMA IssuedIDs ==
    ASSUME TypeOK, LocalInv
    PROVE  Issued \subseteq SessionIDs
  BY DEF TypeOK, LocalInv, Issued, Named, HasRecord, sidOf, SessionIDs, CreateState

-----------------------------------------------------------------------------
(* Type correctness.                                                       *)

LEMMA TypeInit == Init => TypeInv
  <1> SUFFICES ASSUME Init PROVE TypeInv
    OBVIOUS
  <1>1. TypeOK
    BY ConstantsAssumption, FirstIPInPool
       DEF Init, TypeOK, Session, NoSession, Forwarding, NoForwarding, CreateState,
           IdleCreate, OpState, IdleOp, CreatePC, OpPC, Codes
  <1>2. LocalInv
    BY DEF Init, LocalInv, Named, HasRecord, Committed, IdleCreate, IdleOp
  <1> QED
    BY <1>1, <1>2 DEF TypeInv

-----------------------------------------------------------------------------
(* What each step does, without the EXCEPTs: the proofs below use these    *)
(* facts and never the actions themselves.                                 *)

\* A step of create c leaves the other creates and all operations alone.
Alone(c) ==
    /\ cr' \in [Creates -> CreateState]
    /\ \A d \in Creates : d # c => cr'[d] = cr[d]
    /\ UNCHANGED <<op, restarts>>
Keeps(c) ==
    /\ cr'[c].rep = cr[c].rep /\ cr'[c].supi = cr[c].supi
    /\ cr'[c].ip = cr[c].ip /\ cr'[c].seid = cr[c].seid
At(c, p, k) == cr'[c].pc = p /\ cr'[c].code = k
Commits(c) == \/ cr'[c].pc \in Committed /\ cr'[c].code = 0
              \/ At(c, "done", 201)

LEMMA SetCreate ==
    ASSUME TypeOK, NEW c \in Creates, NEW v \in CreateState,
           cr' = [cr EXCEPT ![c] = v], UNCHANGED <<op, restarts>>
    PROVE  Alone(c) /\ cr'[c] = v
  BY DEF TypeOK, Alone

LEMMA PolicyEffect ==
    ASSUME TypeOK, NEW c \in Creates, CreatePolicy(c) \/ CreateCheck(c)
    PROVE  /\ Alone(c) /\ Keeps(c)
           /\ cr[c].pc \in {"pcf", "check"}
           /\ \/ \E p \in {"check", "lock"} : At(c, p, 0)
              \/ \E k \in {403, 500} : At(c, "done", k)
           /\ UNCHANGED <<redisVars, upf, nfVars, replicaVars>>
  <1>a. UNCHANGED <<op, restarts>>
    BY DEF CreatePolicy, CreateCheck
  <1>1. cr[c] \in CreateState
    BY DEF TypeOK
  <1>2. {"check", "lock", "done"} \subseteq CreatePC /\ {403, 500} \subseteq Codes
    BY DEF CreatePC, Codes
  <1>3. PICK v : /\ cr' = [cr EXCEPT ![c] = v]
                 /\ v \in {Go(c, "check"), Go(c, "lock"), Fail(c, 403), Fail(c, 500)}
    BY DEF CreatePolicy, CreateCheck
  <1>4. v \in CreateState
    BY <1>1, <1>2, <1>3, GoType, FailType
  <1>5. Alone(c) /\ cr'[c] = v
    BY <1>a, <1>3, <1>4 DEF TypeOK, Alone
  <1>6. /\ v.rep = cr[c].rep /\ v.supi = cr[c].supi /\ v.ip = cr[c].ip /\ v.seid = cr[c].seid
        /\ \/ v.pc \in {"check", "lock"} /\ v.code = 0
           \/ v.pc = "done" /\ v.code \in {403, 500}
    BY <1>1, <1>2, <1>3, GoType, FailType
  <1> QED
    BY <1>5, <1>6 DEF Keeps, At, CreatePolicy, CreateCheck
LEMMA StartEffect ==
    ASSUME TypeOK, NEW c \in Creates, NEW r \in Replicas, NEW u \in Supis,
           CreateStart(c, r, u)
    PROVE  /\ Alone(c)
           /\ cr[c].pc = "idle" /\ cr'[c].pc \in {"pcf", "lock"}
           /\ cr'[c].code = cr[c].code /\ cr'[c].rep = r /\ cr'[c].supi = u
           /\ UNCHANGED <<redisVars, upf, nfVars, replicaVars>>
  <1>a. UNCHANGED <<op, restarts>>
    BY DEF CreateStart
  <1>1. cr[c] \in CreateState
    BY DEF TypeOK
  <1>2. PICK p \in {"pcf", "lock"} :
          cr' = [cr EXCEPT ![c] = [cr[c] EXCEPT !.rep = r, !.supi = u, !.pc = p]]
    BY DEF CreateStart
  <1> DEFINE v == [cr[c] EXCEPT !.rep = r, !.supi = u, !.pc = p]
  <1>3. /\ v \in CreateState
        /\ v.pc = p /\ v.code = cr[c].code /\ v.rep = r /\ v.supi = u
    BY <1>1 DEF CreateState, CreatePC
  <1>4. cr' = [cr EXCEPT ![c] = v]
    BY <1>2
  <1> HIDE DEF v
  <1>5. Alone(c) /\ cr'[c] = v
    BY <1>a, <1>3, <1>4, SetCreate
  <1> QED
    BY <1>3, <1>5 DEF CreateStart

LEMMA LockEffect ==
    ASSUME TypeOK, NEW c \in Creates, PoolLock(c)
    PROVE  /\ Alone(c) /\ Keeps(c) /\ At(c, "poolGet", 0)
           /\ cr[c].pc = "lock"
           /\ ipPoolMu[cr[c].rep] = None
           /\ ipPoolMu' = [ipPoolMu EXCEPT ![cr[c].rep] = c]
           /\ UNCHANGED <<redisVars, upf, nfVars, cursor, seidCounter>>
  <1>a. UNCHANGED <<op, restarts>> /\ cr' = [cr EXCEPT ![c] = Go(c, "poolGet")]
    BY DEF PoolLock
  <1>1. cr[c] \in CreateState /\ "poolGet" \in CreatePC
    BY DEF TypeOK, CreatePC
  <1>2. Alone(c) /\ cr'[c] = Go(c, "poolGet")
    BY <1>a, <1>1, GoType, SetCreate
  <1> QED
    BY <1>1, <1>2, GoType DEF PoolLock, Keeps, At

LEMMA GetFreeEffect ==
    ASSUME TypeOK, LocalInv, NEW c \in Creates, PoolGetFree(c)
    PROVE  /\ Alone(c) /\ At(c, "poolPut", 0)
           /\ cr[c].pc = "poolGet"
           /\ cr'[c].rep = cr[c].rep /\ cr'[c].supi = cr[c].supi
           /\ cr'[c].ip \in IPs
           /\ cr'[c].ip \notin allocated \/ "Get" \in Faults
           /\ cursor' \in [Replicas -> IPs]
           /\ UNCHANGED <<redisVars, upf, nfVars, ipPoolMu, seidCounter>>
  <1> DEFINE a == cursor[cr[c].rep]
             v == [Go(c, "poolPut") EXCEPT !.ip = a]
  <1>a. UNCHANGED <<op, restarts>>
    BY DEF PoolGetFree
  <1>1. cr[c] \in CreateState /\ "poolPut" \in CreatePC /\ a \in IPs
    BY DEF TypeOK, CreatePC, LocalInv, PoolGetFree
  <1>2. /\ v \in CreateState /\ v.pc = "poolPut" /\ v.code = 0
        /\ v.rep = cr[c].rep /\ v.supi = cr[c].supi /\ v.ip = a
    <2>1. /\ Go(c, "poolPut") \in CreateState
          /\ Go(c, "poolPut").pc = "poolPut" /\ Go(c, "poolPut").code = 0
          /\ Go(c, "poolPut").rep = cr[c].rep /\ Go(c, "poolPut").supi = cr[c].supi
      BY <1>1, GoType
    <2> QED
      BY <1>1, <2>1 DEF CreateState
  <1>3. cr' = [cr EXCEPT ![c] = v]
    BY DEF PoolGetFree
  <1>4. a \notin allocated \/ "Get" \in Faults
    BY DEF PoolGetFree
  <1>5. cursor' \in [Replicas -> IPs]
    BY <1>1, NextIPInPool DEF TypeOK, PoolGetFree
  <1> HIDE DEF v
  <1>6. Alone(c) /\ cr'[c] = v
    BY <1>a, <1>2, <1>3, SetCreate
  <1> QED
    BY <1>1, <1>2, <1>4, <1>5, <1>6 DEF PoolGetFree, At

LEMMA GetTakenEffect ==
    ASSUME TypeOK, LocalInv, NEW c \in Creates, PoolGetTaken(c)
    PROVE  /\ Alone(c) /\ Keeps(c)
           /\ cr[c].pc = "poolGet"
           /\ \/ At(c, "poolGet", cr[c].code) /\ UNCHANGED ipPoolMu
              \/ /\ At(c, "done", 500)
                 /\ ipPoolMu' = [ipPoolMu EXCEPT ![cr[c].rep] = None]
           /\ cursor' \in [Replicas -> IPs]
           /\ UNCHANGED <<redisVars, upf, nfVars, seidCounter>>
  <1> DEFINE v == [cr[c] EXCEPT !.tries = cr[c].tries + 1]
  <1>1. cr[c] \in CreateState /\ 500 \in Codes
    BY DEF TypeOK, Codes
  <1>2. /\ v \in CreateState /\ v.pc = cr[c].pc /\ v.code = cr[c].code
        /\ v.rep = cr[c].rep /\ v.supi = cr[c].supi /\ v.ip = cr[c].ip
        /\ v.seid = cr[c].seid
    BY <1>1 DEF CreateState
  <1>3. \/ cr' = [cr EXCEPT ![c] = v] /\ UNCHANGED ipPoolMu
        \/ /\ cr' = [cr EXCEPT ![c] = Fail(c, 500)]
           /\ ipPoolMu' = [ipPoolMu EXCEPT ![cr[c].rep] = None]
    BY DEF PoolGetTaken
  <1>4. cursor' \in [Replicas -> IPs]
    BY NextIPInPool DEF TypeOK, LocalInv, PoolGetTaken
  <1>a. UNCHANGED <<op, restarts>>
    BY DEF PoolGetTaken
  <1> HIDE DEF v
  <1>5. CASE cr' = [cr EXCEPT ![c] = v] /\ UNCHANGED ipPoolMu
    <2>1. Alone(c) /\ cr'[c] = v
      BY <1>a, <1>2, <1>5, SetCreate
    <2> QED
      BY <1>2, <1>4, <1>5, <2>1 DEF PoolGetTaken, At, Keeps
  <1>6. CASE /\ cr' = [cr EXCEPT ![c] = Fail(c, 500)]
             /\ ipPoolMu' = [ipPoolMu EXCEPT ![cr[c].rep] = None]
    <2>0. Fail(c, 500) \in CreateState
      BY <1>1, FailType
    <2>1. Alone(c) /\ cr'[c] = Fail(c, 500)
      BY <1>a, <2>0, <1>6 DEF TypeOK, Alone
    <2> QED
      BY <1>1, <1>4, <1>6, <2>1, FailType DEF PoolGetTaken, At, Keeps
  <1> QED
    BY <1>3, <1>5, <1>6

LEMMA PoolPutEffect ==
    ASSUME TypeOK, NEW c \in Creates, PoolPut(c)
    PROVE  /\ Alone(c) /\ Keeps(c)
           /\ cr[c].pc = "poolPut"
           /\ \/ At(c, "n4", 0) /\ allocated' = allocated \cup {cr[c].ip}
              \/ At(c, "done", 500) /\ UNCHANGED allocated
           /\ ipPoolMu' = [ipPoolMu EXCEPT ![cr[c].rep] = None]
           /\ UNCHANGED <<sessions, upf, nfVars, cursor, seidCounter>>
  <1>a. UNCHANGED <<op, restarts>>
    BY DEF PoolPut
  <1>1. cr[c] \in CreateState /\ "n4" \in CreatePC /\ 500 \in Codes
    BY DEF TypeOK, CreatePC, Codes
  <1>2. CASE /\ cr' = [cr EXCEPT ![c] = Go(c, "n4")]
             /\ allocated' = allocated \cup {cr[c].ip}
    <2>1. Alone(c) /\ cr'[c] = Go(c, "n4")
      BY <1>a, <1>1, <1>2, GoType, SetCreate
    <2> QED
      BY <1>1, <1>2, <2>1, GoType DEF PoolPut, At, Keeps
  <1>3. CASE cr' = [cr EXCEPT ![c] = Fail(c, 500)] /\ UNCHANGED allocated
    <2>0. Fail(c, 500) \in CreateState
      BY <1>1, FailType
    <2>1. Alone(c) /\ cr'[c] = Fail(c, 500)
      BY <1>a, <2>0, <1>3 DEF TypeOK, Alone
    <2> QED
      BY <1>1, <1>3, <2>1, FailType DEF PoolPut, At, Keeps
  <1> QED
    BY <1>2, <1>3 DEF PoolPut

LEMMA N4Effect ==
    ASSUME TypeOK, LocalInv, NEW c \in Creates, CreateN4(c)
    PROVE  /\ Alone(c)
           /\ cr[c].pc = "n4" /\ cr'[c].pc \in {"store", "undo"} /\ cr'[c].code = 0
           /\ cr'[c].rep = cr[c].rep /\ cr'[c].supi = cr[c].supi
           /\ cr'[c].ip = cr[c].ip
           /\ cr'[c].seid = seidCounter[cr[c].rep] + 1 /\ cr'[c].seid \in SEIDs
           /\ seidCounter' = [seidCounter EXCEPT ![cr[c].rep] = cr'[c].seid]
           /\ upf' \in [SEIDs -> Forwarding]
           /\ UNCHANGED <<redisVars, nfVars, poolVars>>
  <1> DEFINE n == seidCounter[cr[c].rep] + 1
             v(p) == [Go(c, p) EXCEPT !.seid = n]
  <1>a. UNCHANGED <<op, restarts>>
    BY DEF CreateN4
  <1>1. /\ cr[c] \in CreateState /\ {"store", "undo"} \subseteq CreatePC
        /\ cr[c].rep \in Replicas /\ n \in SEIDs /\ n \in Nat
    BY ConstantsAssumption DEF TypeOK, CreatePC, LocalInv, CreateN4, SEIDs
  <1>2. ASSUME NEW p \in {"store", "undo"}
        PROVE  /\ v(p) \in CreateState /\ v(p).pc = p /\ v(p).code = 0
               /\ v(p).rep = cr[c].rep /\ v(p).supi = cr[c].supi
               /\ v(p).ip = cr[c].ip /\ v(p).seid = n
    <2>1. /\ Go(c, p) \in CreateState
          /\ Go(c, p).pc = p /\ Go(c, p).code = 0 /\ Go(c, p).ip = cr[c].ip
          /\ Go(c, p).rep = cr[c].rep /\ Go(c, p).supi = cr[c].supi
      BY <1>1, GoType
    <2> QED
      BY <1>1, <2>1 DEF CreateState
  <1>3. PICK p \in {"store", "undo"} : cr' = [cr EXCEPT ![c] = v(p)]
    BY DEF CreateN4
  <1>4. upf' \in [SEIDs -> Forwarding]
    <2>1. [ip |-> cr[c].ip, qos |-> 0] \in Forwarding
      BY <1>1 DEF CreateState, Forwarding
    <2>2. upf' = [upf EXCEPT ![n] = [ip |-> cr[c].ip, qos |-> 0]] \/ UNCHANGED upf
      BY DEF CreateN4, EstablishSession
    <2> QED
      BY <2>1, <2>2 DEF TypeOK
  <1> HIDE DEF v
  <1>5. Alone(c) /\ cr'[c] = v(p)
    BY <1>a, <1>2, <1>3, SetCreate
  <1> QED
    BY <1>1, <1>2, <1>4, <1>5 DEF CreateN4

LEMMA StoreEffect ==
    ASSUME TypeOK, NEW c \in Creates, CreateStore(c)
    PROVE  /\ Alone(c) /\ Keeps(c)
           /\ cr[c].pc = "store"
           /\ \/ /\ Commits(c)
                 /\ sessions' = [sessions EXCEPT ![sidOf(c)] = record(c)]
              \/ At(c, "undo", 0) /\ UNCHANGED sessions
           /\ UNCHANGED <<allocated, upf, nfVars, replicaVars>>
  <1>a. UNCHANGED <<op, restarts>>
    BY DEF CreateStore
  <1>1. cr[c] \in CreateState /\ {"undo", AfterStore} \subseteq CreatePC
    BY AfterPC DEF TypeOK, CreatePC
  <1>2. CASE /\ cr' = [cr EXCEPT ![c] = Go(c, AfterStore)]
             /\ sessions' = [sessions EXCEPT ![sidOf(c)] = record(c)]
    <2>1. Alone(c) /\ cr'[c] = Go(c, AfterStore)
      BY <1>a, <1>1, <1>2, GoType, SetCreate
    <2>2. cr'[c].pc = AfterStore /\ cr'[c].code = IF AfterStore = "done" THEN 201 ELSE 0
      BY <1>1, <2>1, GoType
    <2>3. Commits(c)
      BY <2>2, AfterPC DEF Commits, At, Committed
    <2> QED
      BY <1>1, <1>2, <2>1, <2>3, GoType DEF CreateStore, Keeps
  <1>3. CASE cr' = [cr EXCEPT ![c] = Go(c, "undo")] /\ UNCHANGED sessions
    <2>1. Alone(c) /\ cr'[c] = Go(c, "undo")
      BY <1>a, <1>1, <1>3, GoType, SetCreate
    <2> QED
      BY <1>1, <1>3, <2>1, GoType DEF CreateStore, At, Keeps
  <1> QED
    BY <1>2, <1>3 DEF CreateStore

LEMMA UndoEffect ==
    ASSUME TypeOK, NEW c \in Creates, CreateUndo(c)
    PROVE  /\ Alone(c) /\ Keeps(c) /\ At(c, "done", 500)
           /\ cr[c].pc = "undo"
           /\ \/ allocated' = allocated \ {cr[c].ip}
              \/ "Delete" \in Faults /\ UNCHANGED allocated
           /\ UNCHANGED <<sessions, upf, nfVars, replicaVars>>
  <1>1. cr[c] \in CreateState /\ 500 \in Codes
    BY DEF TypeOK, Codes
  <1>a. UNCHANGED <<op, restarts>> /\ cr' = [cr EXCEPT ![c] = Fail(c, 500)]
    BY DEF CreateUndo
  <1>2. Fail(c, 500) \in CreateState
    BY <1>1, FailType
  <1>3. Alone(c) /\ cr'[c] = Fail(c, 500)
    BY <1>a, <1>2 DEF TypeOK, Alone
  <1> QED
    BY <1>1, <1>3, FailType DEF CreateUndo, At, Keeps

\* The steps of a create whose record is stored.
CommittedStep(c) ==
    \/ CreateBind(c) \/ CreateBindPut(c) \/ CreateCharge(c) \/ CreateChargePut(c)
    \/ CreateIncGet(c) \/ CreateIncPut(c)

LEMMA CommittedEffect ==
    ASSUME TypeOK, NEW c \in Creates, CommittedStep(c)
    PROVE  /\ Alone(c) /\ Keeps(c)
           /\ cr[c].pc \in Committed
           /\ Commits(c) /\ cr'[c].pc # "bsf"
           /\ sessions' = [sessions EXCEPT ![sidOf(c)] = record(c)] \/ UNCHANGED sessions
           /\ bindings' \in SUBSET Creates /\ charging' \in SUBSET Creates
           /\ sliceCount' \in Nat
           /\ UNCHANGED <<allocated, upf, replicaVars>>
  <1> DEFINE P == {"bsfPut", "chf", "chfPut", "incGet", "incPut", "done"}
  <1>1. cr[c] \in CreateState /\ P \subseteq CreatePC
    BY DEF TypeOK, CreatePC
  <1>2. ASSUME NEW p \in P
        PROVE  /\ Go(c, p) \in CreateState
               /\ Go(c, p).pc = p /\ Go(c, p).code = (IF p = "done" THEN 201 ELSE 0)
               /\ Go(c, p).rep = cr[c].rep /\ Go(c, p).supi = cr[c].supi
               /\ Go(c, p).ip = cr[c].ip /\ Go(c, p).seid = cr[c].seid
    BY <1>1, GoType
  <1>3. PICK p, v :
          /\ p \in P
          /\ cr' = [cr EXCEPT ![c] = v]
          /\ \/ v = Go(c, p)
             \/ v = [Go(c, p) EXCEPT !.bsf = c]
             \/ v = [Go(c, p) EXCEPT !.chg = c]
             \/ v = [Go(c, p) EXCEPT !.cnt = sliceCount]
             \/ v = [Go(c, p) EXCEPT !.cnt = 0]
    BY AfterPC DEF CommittedStep, CreateBind, CreateBindPut, CreateCharge,
                   CreateChargePut, CreateIncGet, CreateIncPut
  <1>4. sliceCount \in Nat
    BY DEF TypeOK
  <1> HIDE DEF P
  <1>5. /\ v \in CreateState
        /\ v.pc = p /\ v.code = (IF p = "done" THEN 201 ELSE 0)
        /\ v.rep = cr[c].rep /\ v.supi = cr[c].supi
        /\ v.ip = cr[c].ip /\ v.seid = cr[c].seid
    BY <1>2, <1>3, <1>4 DEF CreateState
  <1>6. UNCHANGED <<op, restarts, allocated, upf, replicaVars>>
    BY DEF CommittedStep, CreateBind, CreateBindPut, CreateCharge, redisVars, nfVars,
           CreateChargePut, CreateIncGet, CreateIncPut
  <1>7. Alone(c) /\ cr'[c] = v
    BY <1>3, <1>5, <1>6, SetCreate
  <1>8. cr[c].pc \in Committed
    BY DEF CommittedStep, CreateBind, CreateBindPut, CreateCharge, Committed,
           CreateChargePut, CreateIncGet, CreateIncPut
  <1>9. Commits(c) /\ cr'[c].pc # "bsf"
    BY <1>3, <1>5, <1>7 DEF Commits, Committed, At, P
  <1>10. sessions' = [sessions EXCEPT ![sidOf(c)] = record(c)] \/ UNCHANGED sessions
    BY DEF CommittedStep, CreateBind, CreateBindPut, CreateCharge, redisVars,
           CreateChargePut, CreateIncGet, CreateIncPut
  <1>11. /\ bindings' \in SUBSET Creates /\ charging' \in SUBSET Creates
         /\ sliceCount' \in Nat
    <2>1. cr[c].cnt \in Nat
      BY <1>1 DEF CreateState
    <2> QED
      BY <2>1 DEF TypeOK, CommittedStep, CreateBind, CreateBindPut, CreateCharge, nfVars,
             CreateChargePut, CreateIncGet, CreateIncPut
  <1> QED
    BY <1>5, <1>6, <1>7, <1>8, <1>9, <1>10, <1>11 DEF Keeps

\* A step of operation x leaves the other operations and all creates alone.
OpAlone(x) ==
    /\ op' \in [Ops -> OpState]
    /\ \A y \in Ops : y # x => op'[y] = op[y]
    /\ UNCHANGED <<cr, restarts, replicaVars>>
OpKeeps(x) ==
    /\ op'[x].sid = op[x].sid /\ op'[x].qos = op[x].qos
    /\ op'[x].rec = op[x].rec

LEMMA OpStartEffect ==
    ASSUME TypeOK, LocalInv, NEW x \in Ops, NEW s \in Issued,
           ReleaseStart(x, s) \/ \E q \in QoS : UpdateStart(x, s, q)
    PROVE  /\ OpAlone(x)
           /\ op[x].pc = "idle" /\ op'[x].pc \in {"uGet", "rGet"}
           /\ op'[x].sid = s /\ op'[x].code = op[x].code
           /\ op'[x].pc = "uGet" => op'[x].qos # 0
           /\ SerialClients => ~Busy(s)
           /\ UNCHANGED <<redisVars, upf, nfVars>>
  <1>1. s \in SessionIDs
    BY IssuedIDs
  <1>2. CASE ReleaseStart(x, s)
    <2> DEFINE v == [op[x] EXCEPT !.pc = "rGet", !.sid = s]
    <2>3. v \in OpState /\ v.pc = "rGet" /\ v.sid = s /\ v.code = op[x].code
      BY <1>1 DEF TypeOK, OpState, OpPC
    <2>4. op' = [op EXCEPT ![x] = v]
      BY <1>2 DEF ReleaseStart, TypeOK
    <2> HIDE DEF v
    <2>5. /\ op' \in [Ops -> OpState] /\ op'[x] = v
          /\ \A y \in Ops : y # x => op'[y] = op[y]
      BY <2>3, <2>4 DEF TypeOK
    <2>6. /\ op[x].pc = "idle"
          /\ SerialClients => ~Busy(s)
          /\ UNCHANGED <<redisVars, upf, nfVars, cr, restarts, replicaVars>>
      BY <1>2 DEF ReleaseStart
    <2> QED
      BY <2>3, <2>5, <2>6 DEF OpAlone
  <1>3. CASE \E q \in QoS : UpdateStart(x, s, q)
    <2>1. PICK q \in QoS : UpdateStart(x, s, q)
      BY <1>3
    <2>2. q \in Nat /\ q # 0
      BY ConstantsAssumption
    <2> DEFINE v == [op[x] EXCEPT !.pc = "uGet", !.sid = s, !.qos = q]
    <2>3. v \in OpState /\ v.pc = "uGet" /\ v.sid = s /\ v.qos = q /\ v.code = op[x].code
      BY <1>1, <2>2 DEF TypeOK, OpState, OpPC
    <2>4. op' = [op EXCEPT ![x] = v]
      BY <2>1 DEF UpdateStart, TypeOK
    <2> HIDE DEF v
    <2>5. /\ op' \in [Ops -> OpState] /\ op'[x] = v
          /\ \A y \in Ops : y # x => op'[y] = op[y]
      BY <2>3, <2>4 DEF TypeOK
    <2> QED
      BY <2>1, <2>2, <2>3, <2>5 DEF UpdateStart, OpAlone
  <1> QED
    BY <1>2, <1>3

LEMMA OpGetEffect ==
    ASSUME TypeOK, LocalInv, NEW x \in Ops, UpdateGet(x) \/ ReleaseGet(x)
    PROVE  /\ OpAlone(x)
           /\ op[x].pc \in {"uGet", "rGet"}
           /\ op'[x].sid = op[x].sid /\ op'[x].qos = op[x].qos
           /\ \/ op'[x].pc = "done" /\ op'[x].code \in {404, 500}
              \/ /\ op'[x].pc \in {"uN4", "uPut", "rN4", "rIP"}
                 /\ op'[x].code = op[x].code
                 /\ op'[x].pc \in {"uN4", "uPut"} => op[x].pc = "uGet"
                 /\ Stored(op[x].sid)
                 /\ op'[x].rec.ip = sessions[op[x].sid].ip
                 /\ op'[x].rec.bsf = sessions[op[x].sid].bsf
                 /\ op'[x].rec.chg = sessions[op[x].sid].chg
                 /\ op'[x].pc \in {"uPut", "rIP"} => "PFCP" \notin Features
           /\ UNCHANGED <<redisVars, upf, nfVars>>
  <1>1. PICK from, to : /\ OpGet(x, from, to)
                        /\ from \in {"uGet", "rGet"}
                        /\ to \in {"uN4", "uPut", "rN4", "rIP"}
                        /\ to \in {"uN4", "uPut"} => from = "uGet"
                        /\ to \in {"uPut", "rIP"} => "PFCP" \notin Features
    BY DEF UpdateGet, ReleaseGet
  <1> DEFINE rec == sessions[op[x].sid]
             new == IF op[x].qos = 0 THEN rec ELSE [rec EXCEPT !.qos = op[x].qos]
  <1>2. /\ rec \in Session /\ op[x] \in OpState /\ op[x].qos \in Nat
        /\ op[x].sid \in SessionIDs
    BY <1>1 DEF OpGet, TypeOK, LocalInv, OpState
  <1>3. new \in Session /\ new.ip = rec.ip /\ new.bsf = rec.bsf /\ new.chg = rec.chg
    BY <1>2 DEF Session
  <1>4. CASE rec # NoSession /\ op' = [op EXCEPT ![x].pc = to, ![x].rec = new]
    <2>1. [op[x] EXCEPT !.pc = to, !.rec = new] \in OpState
      BY <1>1, <1>2, <1>3 DEF OpState, OpPC
    <2>2. op'[x] = [op[x] EXCEPT !.pc = to, !.rec = new]
      BY <1>4 DEF TypeOK
    <2>3. /\ op'[x].pc = to /\ op'[x].rec = new /\ op'[x].sid = op[x].sid
          /\ op'[x].qos = op[x].qos /\ op'[x].code = op[x].code
      BY <1>2, <2>2 DEF OpState
    <2>4. op' \in [Ops -> OpState] /\ \A y \in Ops : y # x => op'[y] = op[y]
      BY <1>4, <2>1 DEF TypeOK
    <2> QED
      BY <1>1, <1>3, <1>4, <2>3, <2>4 DEF OpGet, OpAlone, Stored
  <1>5. CASE \E k \in {404, 500} : op' = Reply(x, k)
    BY <1>1, <1>2, <1>5 DEF OpGet, Reply, TypeOK, OpState, OpPC, Codes, OpAlone
  <1> QED
    BY <1>1, <1>4, <1>5 DEF OpGet

LEMMA OpGoType ==
    ASSUME TypeOK, NEW x \in Ops, NEW p \in OpPC
    PROVE  /\ OpGo(x, p) \in [Ops -> OpState]
           /\ \A y \in Ops : y # x => OpGo(x, p)[y] = op[y]
           /\ OpGo(x, p)[x].pc = p
           /\ OpGo(x, p)[x].code = op[x].code /\ OpGo(x, p)[x].sid = op[x].sid
           /\ OpGo(x, p)[x].qos = op[x].qos /\ OpGo(x, p)[x].rec = op[x].rec
  BY DEF OpGo, TypeOK, OpState

LEMMA ReplyType ==
    ASSUME TypeOK, NEW x \in Ops, NEW k \in Codes
    PROVE  /\ Reply(x, k) \in [Ops -> OpState]
           /\ \A y \in Ops : y # x => Reply(x, k)[y] = op[y]
           /\ Reply(x, k)[x].pc = "done"
           /\ Reply(x, k)[x].code = k /\ Reply(x, k)[x].sid = op[x].sid
           /\ Reply(x, k)[x].qos = op[x].qos /\ Reply(x, k)[x].rec = op[x].rec
  <1>1. "done" \in OpPC
    BY DEF OpPC
  <1> QED
    BY <1>1 DEF Reply, TypeOK, OpState

\* The steps of an operation that change neither the session records nor the
\* allocated addresses, after the record has been fetched.
OpMove(x) ==
    \/ UpdateN4(x) \/ ReleaseN4(x) \/ ReleaseCharge(x) \/ ReleaseBind(x)
    \/ ReleaseDecGet(x) \/ ReleaseDecPut(x)

LEMMA OpMoveEffect ==
    ASSUME TypeOK, NEW x \in Ops, OpMove(x)
    PROVE  /\ OpAlone(x) /\ OpKeeps(x)
           /\ op[x].pc \in Fetched
           /\ \/ /\ op'[x].pc = "done" /\ op'[x].code = 500
                 /\ op[x].pc \notin AddressFreed
              \/ /\ op'[x].pc \in Fetched /\ op'[x].code = op[x].code
                 /\ op'[x].pc \in {"uN4", "uPut"} => op[x].pc = "uN4"
                 /\ op'[x].pc \in AddressFreed <=> op[x].pc \in AddressFreed
           /\ upf' \in [SEIDs -> Forwarding]
           /\ bindings' \in SUBSET Creates /\ charging' \in SUBSET Creates
           /\ sliceCount' \in Nat
           /\ UNCHANGED redisVars
  <1> DEFINE Late == {"rBsf", "rDecGet", "rDecPut", "rDel"}
  <1>0. {"uPut", "rIP"} \cup Late \subseteq OpPC /\ 500 \in Codes
    BY DEF OpPC, Codes
  <1>1. op[x] \in OpState /\ op[x].rec \in Session /\ op[x].cnt \in Nat
    BY DEF TypeOK, OpState
  <1>2. /\ UNCHANGED <<cr, restarts, replicaVars, redisVars>>
        /\ \/ op[x].pc = "uN4" /\ op' = OpGo(x, "uPut")
           \/ op[x].pc = "rN4" /\ op' = OpGo(x, "rIP")
           \/ op[x].pc \in {"uN4", "rN4"} /\ op' = Reply(x, 500)
           \/ op[x].pc \in AddressFreed /\ \E p \in Late : op' = OpGo(x, p)
           \/ /\ op[x].pc = "rDecGet"
              /\ \E n \in Nat : op' = [op EXCEPT ![x].pc = "rDecPut", ![x].cnt = n]
    <2>1. CASE UpdateN4(x) \/ ReleaseN4(x)
      BY <2>1 DEF UpdateN4, ReleaseN4
    <2>2. CASE ReleaseCharge(x) \/ ReleaseBind(x)
      BY <2>2, AfterPC DEF ReleaseCharge, ReleaseBind, AddressFreed
    <2>3. CASE ReleaseDecGet(x)
      <3>1. sliceCount \in Nat
        BY DEF TypeOK
      <3> QED
        BY <2>3, <3>1 DEF ReleaseDecGet, AddressFreed
    <2>4. CASE ReleaseDecPut(x)
      BY <2>4 DEF ReleaseDecPut, AddressFreed
    <2> QED
      BY <2>1, <2>2, <2>3, <2>4 DEF OpMove
  <1>3. upf' \in [SEIDs -> Forwarding]
    <2>1. CASE UpdateN4(x)
      <3>1. op[x].rec.qos \in Nat
        BY <1>1 DEF Session
      <3>2. UNCHANGED upf \/ upf' = [upf EXCEPT ![extractSEID(op[x].sid)].qos = op[x].rec.qos]
        BY <2>1 DEF UpdateN4, ModifySession
      <3> QED
        BY <3>1, <3>2 DEF TypeOK, Forwarding
    <2>2. CASE ReleaseN4(x)
      BY <2>2 DEF TypeOK, Forwarding, NoForwarding, ReleaseN4, DeleteSession
    <2>3. CASE UNCHANGED upf
      BY <2>3 DEF TypeOK
    <2> QED
      BY <2>1, <2>2, <2>3 DEF OpMove, ReleaseCharge, ReleaseBind, ReleaseDecGet, ReleaseDecPut
  <1>4. /\ bindings' \in SUBSET Creates /\ charging' \in SUBSET Creates
        /\ sliceCount' \in Nat
    BY <1>1 DEF TypeOK, OpMove, UpdateN4, ReleaseN4, ReleaseCharge, ReleaseBind, nfVars,
           ReleaseDecGet, ReleaseDecPut, Decrement
  <1>5. CASE \/ op[x].pc = "uN4" /\ op' = OpGo(x, "uPut")
             \/ op[x].pc = "rN4" /\ op' = OpGo(x, "rIP")
    BY <1>0, <1>2, <1>3, <1>4, <1>5, OpGoType DEF OpAlone, OpKeeps, Fetched, AddressFreed
  <1>6. CASE op[x].pc \in {"uN4", "rN4"} /\ op' = Reply(x, 500)
    BY <1>0, <1>2, <1>3, <1>4, <1>6, ReplyType DEF OpAlone, OpKeeps, Fetched, AddressFreed
  <1>7. CASE op[x].pc \in AddressFreed /\ \E p \in Late : op' = OpGo(x, p)
    BY <1>0, <1>2, <1>3, <1>4, <1>7, OpGoType DEF OpAlone, OpKeeps, Fetched, AddressFreed
  <1>8. CASE /\ op[x].pc = "rDecGet"
             /\ \E n \in Nat : op' = [op EXCEPT ![x].pc = "rDecPut", ![x].cnt = n]
    <2>1. PICK n \in Nat : op' = [op EXCEPT ![x].pc = "rDecPut", ![x].cnt = n]
      BY <1>8
    <2>2. /\ op' \in [Ops -> OpState] /\ \A y \in Ops : y # x => op'[y] = op[y]
          /\ op'[x].pc = "rDecPut" /\ op'[x].code = op[x].code
          /\ op'[x].sid = op[x].sid /\ op'[x].qos = op[x].qos /\ op'[x].rec = op[x].rec
      <3>1. "rDecPut" \in OpPC
        BY DEF OpPC
      <3> QED
        BY <2>1, <3>1 DEF TypeOK, OpState
    <2> QED
      BY <1>2, <1>3, <1>4, <1>8, <2>2 DEF OpAlone, OpKeeps, Fetched, AddressFreed
  <1> QED
    BY <1>2, <1>5, <1>6, <1>7, <1>8

LEMMA UpdatePutEffect ==
    ASSUME TypeOK, NEW x \in Ops, UpdatePut(x)
    PROVE  /\ OpAlone(x) /\ OpKeeps(x)
           /\ op[x].pc = "uPut" /\ op'[x].pc = "done"
           /\ \/ /\ op'[x].code = 200
                 /\ sessions' = [sessions EXCEPT ![op[x].sid] = op[x].rec]
              \/ op'[x].code = 500 /\ UNCHANGED sessions
           /\ UNCHANGED <<allocated, upf, nfVars>>
  <1>1. {200, 500} \subseteq Codes
    BY DEF Codes
  <1> QED
    BY <1>1, ReplyType DEF UpdatePut, OpAlone, OpKeeps

LEMMA ReleaseIPEffect ==
    ASSUME TypeOK, NEW x \in Ops, ReleaseIP(x)
    PROVE  /\ OpAlone(x) /\ OpKeeps(x)
           /\ op[x].pc = "rIP" /\ op'[x].pc \in AddressFreed
           /\ op'[x].code = op[x].code
           /\ \/ allocated' = allocated \ {op[x].rec.ip}
              \/ "Delete" \in Faults /\ UNCHANGED allocated
           /\ UNCHANGED <<sessions, upf, nfVars>>
  <1>1. AfterFree \in OpPC /\ AfterFree \in AddressFreed
    BY AfterPC DEF OpPC, AddressFreed
  <1> QED
    BY <1>1, OpGoType DEF ReleaseIP, OpAlone, OpKeeps

LEMMA ReleaseDeleteEffect ==
    ASSUME TypeOK, NEW x \in Ops, ReleaseDelete(x)
    PROVE  /\ OpAlone(x) /\ OpKeeps(x)
           /\ op[x].pc = "rDel" /\ op'[x].pc = "done"
           /\ \/ /\ op'[x].code = 200
                 /\ sessions' = [sessions EXCEPT ![op[x].sid] = NoSession]
              \/ "Delete" \in Faults /\ op'[x].code = 500 /\ UNCHANGED sessions
           /\ UNCHANGED <<allocated, upf, nfVars>>
  <1>1. {200, 500} \subseteq Codes
    BY DEF Codes
  <1> QED
    BY <1>1, ReplyType DEF ReleaseDelete, OpAlone, OpKeeps

LEMMA OpCrashEffect ==
    ASSUME TypeOK, NEW x \in Ops, OpCrash(x)
    PROVE  /\ OpAlone(x) /\ OpKeeps(x)
           /\ "Crash" \in Faults /\ OpRuns(x)
           /\ op'[x].pc = "crashed" /\ op'[x].code = op[x].code
           /\ UNCHANGED <<redisVars, upf, nfVars>>
  <1>1. "crashed" \in OpPC
    BY DEF OpPC
  <1> QED
    BY <1>1, OpGoType DEF OpCrash, OpAlone, OpKeeps

-----------------------------------------------------------------------------
(* Type correctness: every step keeps TypeInv.                             *)

LEMMA RecordType ==
    ASSUME TypeOK, NEW c \in Creates
    PROVE  record(c) \in Session /\ record(c).ip = cr[c].ip
  BY DEF TypeOK, record, CreateState, Session

LEMMA TypeCreate ==
    ASSUME TypeInv, NEW c \in Creates, CreateStep(c)
    PROVE  TypeInv'
  <1> USE DEF TypeInv, Alone
  <1>1. CASE CreatePolicy(c) \/ CreateCheck(c)
    <2>1. TypeOK'
      BY <1>1, PolicyEffect DEF TypeOK, redisVars, nfVars, replicaVars
    <2>2. LocalInv'
      BY <1>1, PolicyEffect DEF LocalInv, Keeps, At, Named, HasRecord, Committed
    <2> QED
      BY <2>1, <2>2
  <1>2. CASE PoolLock(c)
    <2>1. TypeOK'
      BY <1>2, LockEffect DEF TypeOK, LocalInv, redisVars, nfVars
    <2>2. LocalInv'
      BY <1>2, LockEffect DEF LocalInv, Keeps, At, Named, HasRecord, Committed
    <2> QED
      BY <2>1, <2>2
  <1>3. CASE PoolGetFree(c)
    <2>1. TypeOK'
      BY <1>3, GetFreeEffect DEF TypeOK, redisVars, nfVars
    <2>2. LocalInv'
      BY <1>3, GetFreeEffect DEF LocalInv, At, Named, HasRecord, Committed
    <2> QED
      BY <2>1, <2>2
  <1>4. CASE PoolGetTaken(c)
    <2>1. TypeOK'
      BY <1>4, GetTakenEffect DEF TypeOK, redisVars, nfVars
    <2>2. LocalInv'
      BY <1>4, GetTakenEffect DEF LocalInv, Keeps, At, Named, HasRecord, Committed
    <2> QED
      BY <2>1, <2>2
  <1>5. CASE PoolPut(c)
    <2>1. cr[c].pc = "poolPut" => cr[c].ip \in IPs
      BY DEF LocalInv
    <2>2. TypeOK'
      BY <1>5, <2>1, PoolPutEffect DEF TypeOK, nfVars
    <2>3. LocalInv'
      BY <1>5, PoolPutEffect DEF LocalInv, Keeps, At, Named, HasRecord, Committed
    <2> QED
      BY <2>2, <2>3
  <1>6. CASE CreateN4(c)
    <2>1. TypeOK'
      BY <1>6, N4Effect DEF TypeOK, SEIDs, redisVars, nfVars, poolVars
    <2>2. LocalInv'
      BY <1>6, N4Effect DEF LocalInv, Named, HasRecord, Committed
    <2> QED
      BY <2>1, <2>2
  <1>7. CASE CreateStore(c)
    <2>1. TypeOK'
      BY <1>7, StoreEffect, RecordType DEF TypeOK, nfVars, replicaVars
    <2>2. LocalInv'
      BY <1>7, StoreEffect DEF LocalInv, Keeps, At, Commits, Named, HasRecord, Committed
    <2> QED
      BY <2>1, <2>2
  <1>8. CASE CreateUndo(c)
    <2>1. TypeOK'
      BY <1>8, UndoEffect DEF TypeOK, nfVars, replicaVars
    <2>2. LocalInv'
      BY <1>8, UndoEffect DEF LocalInv, Keeps, At, Named, HasRecord, Committed
    <2> QED
      BY <2>1, <2>2
  <1>9. CASE CommittedStep(c)
    <2>1. TypeOK'
      BY <1>9, CommittedEffect, RecordType DEF TypeOK, replicaVars
    <2>2. LocalInv'
      BY <1>9, CommittedEffect DEF LocalInv, Keeps, At, Commits, Named, HasRecord, Committed
    <2> QED
      BY <2>1, <2>2
  <1> QED
    BY <1>1, <1>2, <1>3, <1>4, <1>5, <1>6, <1>7, <1>8, <1>9 DEF CreateStep, CommittedStep

LEMMA TypeStart ==
    ASSUME TypeInv, NEW c \in Creates, NEW r \in Replicas, NEW u \in Supis,
           CreateStart(c, r, u)
    PROVE  TypeInv'
  <1> USE DEF TypeInv, Alone
  <1>1. TypeOK'
    BY StartEffect DEF TypeOK, redisVars, nfVars, replicaVars
  <1>2. LocalInv'
    BY StartEffect DEF LocalInv, Named, HasRecord, Committed
  <1> QED
    BY <1>1, <1>2

LEMMA TypeRestart ==
    ASSUME TypeInv, NEW r \in Replicas, Restart(r)
    PROVE  TypeInv'
  <1> DEFINE v(c) == [cr[c] EXCEPT !.pc = "crashed"]
  <1>1. ASSUME NEW c \in Creates
        PROVE  /\ v(c) \in CreateState /\ cr[c] \in CreateState
               /\ v(c).pc = "crashed" /\ v(c).code = cr[c].code
               /\ v(c).rep = cr[c].rep /\ v(c).supi = cr[c].supi
               /\ v(c).seid = cr[c].seid
    BY DEF TypeInv, TypeOK, CreateState, CreatePC
  <1>2. \A c \in Creates : \/ cr'[c] = cr[c]
                           \/ cr'[c] = v(c) /\ CreateRuns(c)
    BY DEF Restart
  <1>3. cr' \in [Creates -> CreateState]
    BY <1>1 DEF Restart
  <1> HIDE DEF v
  <1>4. TypeOK'
    BY <1>3, FirstIPInPool, ConstantsAssumption
       DEF TypeInv, TypeOK, Restart, redisVars, nfVars
  <1>5. LocalInv'
    BY <1>1, <1>2 DEF TypeInv, LocalInv, Restart, CreateRuns, Named, HasRecord, Committed
  <1> QED
    BY <1>4, <1>5 DEF TypeInv

LEMMA TypeOp ==
    ASSUME TypeInv, NEW x \in Ops, OpStep(x) \/ OpCrash(x)
    PROVE  TypeInv'
  <1> USE DEF TypeInv, OpAlone
  <1>1. CASE UpdateGet(x) \/ ReleaseGet(x)
    <2>1. TypeOK'
      BY <1>1, OpGetEffect DEF TypeOK, redisVars, nfVars, replicaVars
    <2>2. LocalInv'
      BY <1>1, OpGetEffect DEF LocalInv, Named, HasRecord
    <2> QED
      BY <2>1, <2>2
  <1>2. CASE OpMove(x)
    <2>1. TypeOK'
      BY <1>2, OpMoveEffect DEF TypeOK, redisVars, replicaVars
    <2>2. LocalInv'
      BY <1>2, OpMoveEffect DEF LocalInv, Named, HasRecord, OpKeeps, Fetched, AddressFreed
    <2> QED
      BY <2>1, <2>2
  <1>3. CASE UpdatePut(x)
    <2>1. op[x].rec \in Session
      BY DEF TypeOK, OpState
    <2>2. TypeOK'
      BY <1>3, <2>1, UpdatePutEffect DEF TypeOK, nfVars, replicaVars
    <2>3. LocalInv'
      BY <1>3, UpdatePutEffect DEF LocalInv, Named, HasRecord, OpKeeps
    <2> QED
      BY <2>2, <2>3
  <1>4. CASE ReleaseIP(x)
    <2>1. TypeOK'
      BY <1>4, ReleaseIPEffect DEF TypeOK, nfVars, replicaVars
    <2>2. LocalInv'
      BY <1>4, ReleaseIPEffect DEF LocalInv, Named, HasRecord, OpKeeps, AddressFreed
    <2> QED
      BY <2>1, <2>2
  <1>5. CASE ReleaseDelete(x)
    <2>1. NoSession \in Session
      BY DEF NoSession, Session
    <2>2. TypeOK'
      BY <1>5, <2>1, ReleaseDeleteEffect DEF TypeOK, nfVars, replicaVars
    <2>3. LocalInv'
      BY <1>5, ReleaseDeleteEffect DEF LocalInv, Named, HasRecord, OpKeeps
    <2> QED
      BY <2>2, <2>3
  <1>6. CASE OpCrash(x)
    <2>1. TypeOK'
      BY <1>6, OpCrashEffect DEF TypeOK, redisVars, nfVars, replicaVars
    <2>2. LocalInv'
      BY <1>6, OpCrashEffect DEF LocalInv, Named, HasRecord, OpKeeps, OpRuns
    <2> QED
      BY <2>1, <2>2
  <1> QED
    BY <1>1, <1>2, <1>3, <1>4, <1>5, <1>6 DEF OpStep, OpMove

LEMMA TypeOpStart ==
    ASSUME TypeInv, NEW x \in Ops, NEW s \in Issued,
           ReleaseStart(x, s) \/ \E q \in QoS : UpdateStart(x, s, q)
    PROVE  TypeInv'
  <1> USE DEF TypeInv, OpAlone
  <1>1. TypeOK'
    BY OpStartEffect DEF TypeOK, redisVars, nfVars, replicaVars
  <1>2. LocalInv'
    BY OpStartEffect, IssuedIDs DEF LocalInv, Named, HasRecord
  <1> QED
    BY <1>1, <1>2

LEMMA TypeNext == TypeInv /\ [Next]_vars => TypeInv'
  <1> SUFFICES ASSUME TypeInv, [Next]_vars PROVE TypeInv'
    OBVIOUS
  <1>1. CASE Next
    BY <1>1, TypeStart, TypeCreate, TypeRestart, TypeOpStart, TypeOp DEF Next
  <1>2. CASE UNCHANGED vars
    BY <1>2 DEF vars, TypeInv, TypeOK, LocalInv, Named, HasRecord
  <1> QED
    BY <1>1, <1>2

(* Every state of every instance has the types the handlers rely on: the   *)
(* cursor stays inside the pool, session identifiers in use are those of   *)
(* SEIDs that were handed out, however replicas restart and calls fail.    *)
THEOREM TypeCorrect == Spec => []TypeOK
  <1>1. TypeInv => TypeOK
    BY DEF TypeInv
  <1> QED
    BY <1>1, TypeInit, TypeNext, PTL DEF Spec

-----------------------------------------------------------------------------
(* The addresses and names of a steady deployment.                         *)

\* The part of AddressInv that does not speak of the mutex.
OwnershipInv ==
    /\ ReservationInv /\ NameInv /\ CopyInv
    /\ AddressExclusive /\ AddressReserved /\ NoAddressLeak
    /\ ReleasedStaysReleased

(* Nobody else has a create's identifier until the create has answered.    *)
LEMMA NamesDiffer ==
    ASSUME LocalInv, NameInv, NEW c \in Creates, Named(c)
    PROVE  /\ \A d \in Creates : d # c /\ Named(d) => sidOf(d) # sidOf(c)
           /\ \A x \in Ops : op[x].pc # "idle" /\ cr[c].code # 201 => op[x].sid # sidOf(c)
           /\ ~HasRecord(c) => ~(sidOf(c) \in SessionIDs /\ Stored(sidOf(c)))
  <1>1. \A d \in Creates : d # c /\ Named(d) => sidOf(d) # sidOf(c)
    BY DEF NameInv, sidOf
  <1>2. ASSUME NEW x \in Ops, op[x].pc # "idle", cr[c].code # 201
        PROVE  op[x].sid # sidOf(c)
    <2>1. PICK d \in Creates : cr[d].code = 201 /\ op[x].sid = sidOf(d)
      BY <1>2 DEF NameInv, Issued
    <2> QED
      BY <1>1, <1>2, <2>1 DEF Named, HasRecord
  <1>3. ASSUME ~HasRecord(c), sidOf(c) \in SessionIDs, Stored(sidOf(c)) PROVE FALSE
    <2>1. PICK d \in Creates : HasRecord(d) /\ sidOf(d) = sidOf(c)
      BY <1>3 DEF NameInv
    <2> QED
      BY <1>1, <1>3, <2>1 DEF Named
  <1> QED
    BY <1>1, <1>2, <1>3

LEMMA NamedSid ==
    ASSUME TypeInv, NEW c \in Creates, Named(c)
    PROVE  sidOf(c) \in SessionIDs
  BY DEF TypeInv, LocalInv, sidOf, SessionIDs, Named, HasRecord, Committed

(* A step of one create leaves the others' names and every operation's     *)
(* progress as they were.                                                  *)
LEMMA OtherCreates ==
    ASSUME NEW c \in Creates, Alone(c)
    PROVE  /\ \A d \in Creates : d # c => /\ (Named(d))' <=> Named(d)
                                          /\ (HasRecord(d))' <=> HasRecord(d)
                                          /\ (sidOf(d))' = sidOf(d)
           /\ \A x \in Ops : (OpRuns(x))' <=> OpRuns(x)
  BY DEF Alone, Named, HasRecord, sidOf, OpRuns

(* The names are kept by a step that gives no name and stores no record.   *)
LEMMA NamesKept ==
    ASSUME NameInv, NEW c \in Creates, Alone(c), UNCHANGED <<sessions, seidCounter>>,
           (Named(c))' => Named(c) /\ Keeps(c), ~HasRecord(c), ~(HasRecord(c))'
    PROVE  NameInv'
  <1>o. \A d \in Creates : d # c => cr'[d] = cr[d]
    BY DEF Alone
  <1> USE DEF Named, HasRecord, sidOf
  <1>1. (\A d \in Creates : Named(d) => cr[d].seid <= seidCounter[cr[d].rep])'
    BY <1>o DEF NameInv, Keeps
  <1>2. (\A d, e \in Creates : d # e /\ Named(d) /\ Named(e) => cr[d].seid # cr[e].seid)'
    BY <1>o DEF NameInv, Keeps
  <1>3. (\A s \in SessionIDs : Stored(s) =>
           sessions[s].ip \in IPs /\ \E d \in Creates : HasRecord(d) /\ sidOf(d) = s)'
    BY <1>o DEF NameInv, Stored
  <1>4. (\A d \in Creates : cr[d].pc \in Committed =>
           Stored(sidOf(d)) /\ sessions[sidOf(d)].ip = cr[d].ip)'
    BY <1>o DEF NameInv, Stored, HasRecord
  <1>5. (\A x \in Ops : op[x].pc # "idle" => op[x].sid \in Issued)'
    <2>1. Issued \subseteq Issued'
      BY <1>o DEF Issued, HasRecord
    <2> QED
      BY <2>1 DEF NameInv, Alone
  <1> QED
    BY <1>1, <1>2, <1>3, <1>4, <1>5 DEF NameInv

(* Steps of a create that has not reserved an address.                     *)
LEMMA QuietCreate ==
    ASSUME OwnershipInv, NEW c \in Creates, Alone(c),
           UNCHANGED <<sessions, allocated, seidCounter>>,
           ~Named(c), ~(Named(c))',
           cr[c].pc \notin Uncommitted, cr'[c].pc \notin Uncommitted
    PROVE  OwnershipInv'
  <1> USE OtherCreates DEF OwnershipInv, Alone
  <1>0. cr[c].code # 201 /\ cr'[c].code # 201 /\ ~HasRecord(c) /\ ~(HasRecord(c))'
    BY DEF Named, HasRecord
  <1>1. ReservationInv'
    BY DEF ReservationInv, Settled, Stored
  <1>2. NameInv'
    BY <1>0, NamesKept
  <1>3. CopyInv'
    BY DEF CopyInv, Stored
  <1>4. AddressExclusive' /\ AddressReserved'
    BY DEF AddressExclusive, AddressReserved, Settled, Stored
  <1>5. NoAddressLeak'
    BY DEF NoAddressLeak, Settled, Stored
  <1>6. ReleasedStaysReleased'
    BY DEF ReleasedStaysReleased, Stored
  <1> QED
    BY <1>1, <1>2, <1>3, <1>4, <1>5, <1>6

(* PoolPut succeeds: the address was free, so it is nobody else's.         *)
LEMMA ReserveStep ==
    ASSUME OwnershipInv, NEW c \in Creates, Alone(c), Keeps(c),
           cr[c].pc = "poolPut", cr[c].code = 0, At(c, "n4", 0),
           cr[c].ip \notin allocated, allocated' = allocated \cup {cr[c].ip},
           UNCHANGED <<sessions, seidCounter>>
    PROVE  OwnershipInv'
  <1> USE OtherCreates DEF OwnershipInv, Alone, Keeps, At
  <1>0. ~HasRecord(c) /\ ~(HasRecord(c))' /\ ~Named(c) /\ ~(Named(c))'
    BY DEF Named, HasRecord, Committed
  <1>a. \A s \in SessionIDs : (Settled(s))' <=> Settled(s)
    BY DEF Settled, Stored
  <1>1. ReservationInv'
    BY <1>a DEF ReservationInv, AddressReserved, Uncommitted
  <1>2. NameInv'
    BY <1>0, NamesKept
  <1>3. CopyInv'
    BY DEF CopyInv, Stored
  <1>4. AddressExclusive' /\ AddressReserved'
    BY <1>a DEF AddressExclusive, AddressReserved
  <1>5. NoAddressLeak'
    <2> SUFFICES ASSUME NEW a \in allocated'
                 PROVE  \/ \E s \in SessionIDs : (Settled(s))' /\ sessions'[s].ip = a
                        \/ \E d \in Creates : cr'[d].pc \in Uncommitted /\ cr'[d].ip = a
      BY DEF NoAddressLeak
    <2>1. CASE a = cr[c].ip
      BY <2>1 DEF Uncommitted
    <2>2. CASE a \in allocated
      BY <1>a, <2>2 DEF NoAddressLeak, Uncommitted
    <2> QED
      BY <2>1, <2>2
  <1>6. ReleasedStaysReleased'
    BY DEF ReleasedStaysReleased, Stored
  <1> QED
    BY <1>1, <1>2, <1>3, <1>4, <1>5, <1>6

(* CreateN4: one counter numbers all sessions, so the name is fresh.       *)
LEMMA NameStep ==
    ASSUME SteadyDeployment, TypeInv, OwnershipInv, NEW c \in Creates, CreateN4(c)
    PROVE  OwnershipInv'
  <1> USE DEF OwnershipInv, TypeInv
  <1>e. /\ Alone(c)
        /\ cr[c].pc = "n4" /\ cr'[c].pc \in {"store", "undo"} /\ cr'[c].code = 0
        /\ cr'[c].rep = cr[c].rep /\ cr'[c].supi = cr[c].supi /\ cr'[c].ip = cr[c].ip
        /\ cr'[c].seid = seidCounter[cr[c].rep] + 1
        /\ seidCounter' = [seidCounter EXCEPT ![cr[c].rep] = cr'[c].seid]
        /\ UNCHANGED <<sessions, allocated, op>>
    BY N4Effect DEF redisVars, Alone
  <1>o. \A d \in Creates : d # c => cr'[d] = cr[d]
    BY <1>e DEF Alone
  <1>0. ~HasRecord(c) /\ ~(HasRecord(c))' /\ cr[c].code # 201
    BY <1>e DEF HasRecord, Committed, LocalInv
  <1>a. \A s \in SessionIDs : (Settled(s))' <=> Settled(s)
    BY <1>e DEF Settled, Stored
  <1>b. /\ cr[c].rep \in Replicas /\ seidCounter[cr[c].rep] \in Nat
        /\ \A d \in Creates : Named(d) => /\ cr[d].seid \in Nat
                                          /\ cr[d].rep = cr[c].rep
    <2>1. cr[c].rep \in Replicas /\ seidCounter[cr[c].rep] \in Nat
      BY <1>e, ConstantsAssumption DEF TypeOK, LocalInv
    <2>2. ASSUME NEW d \in Creates, Named(d)
          PROVE  cr[d].seid \in Nat /\ cr[d].rep = cr[c].rep
      <3>1. cr[d].rep \in Replicas
        BY <2>2 DEF LocalInv, Named, HasRecord, Committed
      <3> QED
        BY <2>1, <2>2, <3>1 DEF SteadyDeployment, LocalInv, SEIDs
    <2> QED
      BY <2>1, <2>2
  <1> USE DEF Named, HasRecord, sidOf, OpRuns
  <1>1. ReservationInv'
    BY <1>e, <1>o, <1>a DEF ReservationInv, Uncommitted
  <1>2. NameInv'
    <2>0. /\ seidCounter'[cr[c].rep] = seidCounter[cr[c].rep] + 1
          /\ \A d \in Creates : Named(d) => cr[d].seid <= seidCounter[cr[c].rep]
      BY <1>e, <1>b DEF TypeOK, NameInv
    <2>1. (\A d \in Creates : Named(d) => cr[d].seid <= seidCounter[cr[d].rep])'
      <3> SUFFICES ASSUME NEW d \in Creates, (Named(d))'
                   PROVE  cr'[d].seid <= seidCounter'[cr'[d].rep]
        OBVIOUS
      <3>1. CASE d = c
        BY <1>b, <1>e, <2>0, <3>1
      <3>2. CASE d # c
        <4>1. Named(d) /\ cr'[d] = cr[d]
          BY <1>o, <3>2
        <4> QED
          BY <1>b, <2>0, <4>1
      <3> QED
        BY <3>1, <3>2
    <2>2. (\A d, e \in Creates : d # e /\ Named(d) /\ Named(e) => cr[d].seid # cr[e].seid)'
      <3>1. \A d \in Creates : Named(d) => cr[d].seid # cr'[c].seid
        BY <1>b, <1>e, <2>0
      <3> QED
        BY <1>o, <3>1 DEF NameInv
    <2>3. (\A s \in SessionIDs : Stored(s) =>
             sessions[s].ip \in IPs /\ \E d \in Creates : HasRecord(d) /\ sidOf(d) = s)'
      BY <1>0, <1>e, <1>o DEF NameInv, Stored
    <2>4. (\A d \in Creates : cr[d].pc \in Committed =>
             Stored(sidOf(d)) /\ sessions[sidOf(d)].ip = cr[d].ip)'
      BY <1>0, <1>e, <1>o DEF NameInv, Stored, HasRecord
    <2>5. (\A x \in Ops : op[x].pc # "idle" => op[x].sid \in Issued)'
      <3>1. Issued \subseteq Issued'
        BY <1>0, <1>o DEF Issued
      <3> QED
        BY <1>e, <3>1 DEF NameInv
    <2> QED
      BY <2>1, <2>2, <2>3, <2>4, <2>5 DEF NameInv
  <1>3. CopyInv'
    BY <1>e, <1>o DEF CopyInv, Stored
  <1>4. AddressExclusive' /\ AddressReserved'
    BY <1>e, <1>a DEF AddressExclusive, AddressReserved
  <1>5. NoAddressLeak'
    BY <1>e, <1>o, <1>a DEF NoAddressLeak, Uncommitted
  <1>6. ReleasedStaysReleased'
    BY <1>e DEF ReleasedStaysReleased, Stored
  <1> QED
    BY <1>1, <1>2, <1>3, <1>4, <1>5, <1>6

(* CreateStore fails: the create keeps its address until CreateUndo.       *)
LEMMA StoreFailStep ==
    ASSUME OwnershipInv, NEW c \in Creates, Alone(c), Keeps(c),
           cr[c].pc = "store", cr[c].code = 0, At(c, "undo", 0),
           UNCHANGED <<sessions, allocated, seidCounter>>
    PROVE  OwnershipInv'
  <1> USE OtherCreates DEF OwnershipInv, Alone, Keeps, At
  <1>0. /\ ~HasRecord(c) /\ ~(HasRecord(c))' /\ Named(c) /\ (Named(c))'
        /\ (sidOf(c))' = sidOf(c)
    BY DEF Named, HasRecord, Committed, sidOf
  <1>a. \A s \in SessionIDs : (Settled(s))' <=> Settled(s)
    BY DEF Settled, Stored
  <1>1. ReservationInv'
    BY <1>a DEF ReservationInv, Uncommitted
  <1>2. NameInv'
    BY <1>0, NamesKept
  <1>3. CopyInv'
    BY DEF CopyInv, Stored
  <1>4. AddressExclusive' /\ AddressReserved'
    BY <1>a DEF AddressExclusive, AddressReserved
  <1>5. NoAddressLeak'
    BY <1>a DEF NoAddressLeak, Uncommitted
  <1>6. ReleasedStaysReleased'
    BY DEF ReleasedStaysReleased, Stored
  <1> QED
    BY <1>1, <1>2, <1>3, <1>4, <1>5, <1>6

(* CreateStore succeeds: the reserved address becomes the session's.       *)
LEMMA StoreStep ==
    ASSUME TypeInv, OwnershipInv, NEW c \in Creates, Alone(c), Keeps(c), Commits(c),
           cr[c].pc = "store",
           sessions' = [sessions EXCEPT ![sidOf(c)] = record(c)],
           UNCHANGED <<allocated, seidCounter>>
    PROVE  OwnershipInv'
  <1> USE DEF OwnershipInv
  <1>s. PICK s0 : s0 = sidOf(c)
    OBVIOUS
  <1>o. (\A d \in Creates : d # c => cr'[d] = cr[d]) /\ UNCHANGED op
    BY DEF Alone
  <1>0. cr[c].code = 0 /\ Named(c) /\ ~HasRecord(c)
    BY DEF TypeInv, LocalInv, Named, HasRecord, Committed
  <1>1. /\ s0 \in SessionIDs /\ ~Stored(s0)
        /\ \A x \in Ops : op[x].pc # "idle" => op[x].sid # s0
        /\ \A d \in Creates : d # c /\ Named(d) => sidOf(d) # s0
    BY <1>s, <1>0, NamedSid, NamesDiffer DEF TypeInv
  <1>2. /\ cr[c].ip \in allocated /\ cr[c].ip \in IPs
        /\ sessions'[s0] = record(c) /\ record(c).ip = cr[c].ip /\ record(c) # NoSession
    <2>1. cr[c].ip \in allocated /\ cr[c].ip \in IPs
      BY DEF ReservationInv, Uncommitted, TypeInv, TypeOK
    <2>2. record(c).ip = cr[c].ip /\ NoSession.ip = NoIP
      BY RecordType DEF TypeInv, NoSession
    <2> QED
      BY <1>s, <1>1, <2>1, <2>2, NoIPNotInPool DEF TypeInv, TypeOK
  <1>3. \A s \in SessionIDs : s # s0 => sessions'[s] = sessions[s]
    BY <1>s DEF TypeInv, TypeOK
  <1>4. /\ \A s \in SessionIDs : s # s0 => ((Settled(s))' <=> Settled(s))
        /\ (Settled(s0))'
    BY <1>o, <1>1, <1>2, <1>3 DEF Settled, Stored, AddressFreed
  <1>5. /\ cr'[c].pc \notin Uncommitted /\ (HasRecord(c))' /\ (Named(c))' /\ (sidOf(c))' = s0
    BY <1>s DEF Commits, At, Keeps, Uncommitted, Committed, HasRecord, Named, sidOf
  <1>6. \A s \in SessionIDs : s # s0 /\ Settled(s) => sessions[s].ip # cr[c].ip
    BY DEF ReservationInv, Uncommitted
  <1>7. ReservationInv'
    <2>1. ASSUME NEW d \in Creates, cr'[d].pc \in Uncommitted
          PROVE  d # c /\ cr'[d] = cr[d] /\ cr[d].ip # cr[c].ip
      BY <1>o, <1>5, <2>1 DEF ReservationInv, Uncommitted
    <2> QED
      BY <1>2, <1>3, <1>4, <2>1 DEF ReservationInv
  <1>8. NameInv'
    <2> USE DEF Named, HasRecord
    <2>1. (\A d \in Creates : Named(d) => cr[d].seid <= seidCounter[cr[d].rep])'
      BY <1>o, <1>0 DEF NameInv, Keeps
    <2>2. (\A d, e \in Creates : d # e /\ Named(d) /\ Named(e) => cr[d].seid # cr[e].seid)'
      BY <1>o, <1>0 DEF NameInv, Keeps
    <2>3. (\A s \in SessionIDs : Stored(s) =>
             sessions[s].ip \in IPs /\ \E d \in Creates : HasRecord(d) /\ sidOf(d) = s)'
      <3> SUFFICES ASSUME NEW s \in SessionIDs, (Stored(s))'
                   PROVE  /\ sessions'[s].ip \in IPs
                          /\ \E d \in Creates : (HasRecord(d))' /\ (sidOf(d))' = s
        OBVIOUS
      <3>1. CASE s = s0
        BY <1>2, <1>5, <3>1
      <3>2. CASE s # s0
        <4>1. Stored(s) /\ sessions'[s] = sessions[s]
          BY <1>3, <3>2 DEF Stored
        <4>2. PICK d \in Creates : HasRecord(d) /\ sidOf(d) = s
          BY <4>1 DEF NameInv
        <4>3. d # c
          BY <1>0, <4>2
        <4> QED
          BY <1>o, <4>1, <4>2, <4>3 DEF NameInv, sidOf
      <3> QED
        BY <3>1, <3>2
    <2>4. (\A d \in Creates : cr[d].pc \in Committed =>
             Stored(sidOf(d)) /\ sessions[sidOf(d)].ip = cr[d].ip)'
      <3> SUFFICES ASSUME NEW d \in Creates, cr'[d].pc \in Committed
                   PROVE  /\ sessions'[(sidOf(d))'] # NoSession
                          /\ sessions'[(sidOf(d))'].ip = cr'[d].ip
        BY DEF Stored
      <3>1. CASE d = c
        BY <1>2, <1>5, <3>1 DEF Keeps
      <3>2. CASE d # c
        <4>1. cr'[d] = cr[d] /\ Named(d) /\ sidOf(d) # s0 /\ (sidOf(d))' = sidOf(d)
          BY <1>o, <1>1, <3>2 DEF sidOf
        <4>2. sidOf(d) \in SessionIDs
          BY <4>1, NamedSid
        <4> QED
          BY <1>3, <4>1, <4>2 DEF NameInv, Stored
      <3> QED
        BY <3>1, <3>2
    <2>5. (\A x \in Ops : op[x].pc # "idle" => op[x].sid \in Issued)'
      <3>1. Issued \subseteq Issued'
        BY <1>o, <1>0 DEF Issued, sidOf
      <3> QED
        BY <1>o, <3>1 DEF NameInv
    <2> QED
      BY <2>1, <2>2, <2>3, <2>4, <2>5 DEF NameInv
  <1>9. CopyInv'
    <2>1. \A x \in Ops : op[x].pc \in Fetched => sessions'[op[x].sid] = sessions[op[x].sid]
      BY <1>1, <1>3 DEF TypeInv, LocalInv, Fetched, AddressFreed
    <2> QED
      BY <1>o, <2>1 DEF CopyInv, OpRuns, Stored
  <1>10. AddressExclusive' /\ AddressReserved'
    BY <1>2, <1>3, <1>4, <1>6 DEF AddressExclusive, AddressReserved
  <1>11. NoAddressLeak'
    <2> SUFFICES ASSUME NEW a \in allocated
                 PROVE  \/ \E s \in SessionIDs : (Settled(s))' /\ sessions'[s].ip = a
                        \/ \E d \in Creates : cr'[d].pc \in Uncommitted /\ cr'[d].ip = a
      BY DEF NoAddressLeak
    <2>1. CASE \E s \in SessionIDs : Settled(s) /\ sessions[s].ip = a
      <3>1. PICK s \in SessionIDs : Settled(s) /\ sessions[s].ip = a
        BY <2>1
      <3>2. s # s0
        BY <1>1, <3>1 DEF Settled
      <3> QED
        BY <1>3, <1>4, <3>1, <3>2
    <2>2. CASE \E d \in Creates : cr[d].pc \in Uncommitted /\ cr[d].ip = a
      <3>1. PICK d \in Creates : cr[d].pc \in Uncommitted /\ cr[d].ip = a
        BY <2>2
      <3>2. CASE d = c
        BY <1>1, <1>2, <1>4, <3>1, <3>2
      <3>3. CASE d # c
        BY <1>o, <3>1, <3>3
      <3> QED
        BY <3>2, <3>3
    <2> QED
      BY <2>1, <2>2 DEF NoAddressLeak
  <1>12. ReleasedStaysReleased'
    <2>1. \A x \in Ops : op[x].code = 200 => op[x].pc # "idle"
      BY DEF TypeInv, LocalInv
    <2> QED
      BY <1>o, <1>1, <1>3, <2>1 DEF TypeInv, LocalInv, ReleasedStaysReleased, Stored
  <1> QED
    BY <1>7, <1>8, <1>9, <1>10, <1>11, <1>12

(* CreateUndo: the address given back is the create's own.                 *)
LEMMA UndoStep ==
    ASSUME TypeInv, OwnershipInv, NEW c \in Creates, Alone(c), Keeps(c),
           cr[c].pc = "undo", At(c, "done", 500),
           allocated' = allocated \ {cr[c].ip},
           UNCHANGED <<sessions, seidCounter>>
    PROVE  OwnershipInv'
  <1> USE DEF OwnershipInv
  <1>o. (\A d \in Creates : d # c => cr'[d] = cr[d]) /\ UNCHANGED op
    BY DEF Alone
  <1>0. ~HasRecord(c) /\ ~(HasRecord(c))' /\ ~(Named(c))' /\ cr'[c].pc \notin Uncommitted
    BY DEF TypeInv, LocalInv, HasRecord, Committed, Named, At, Uncommitted
  <1>a. \A s \in SessionIDs : (Settled(s))' <=> Settled(s)
    BY <1>o DEF Settled, Stored
  <1>1. ReservationInv'
    BY <1>o, <1>0, <1>a DEF ReservationInv, Uncommitted
  <1>2. NameInv'
    BY <1>0, NamesKept
  <1>3. CopyInv'
    BY <1>o DEF CopyInv, Stored, OpRuns
  <1>4. AddressExclusive' /\ AddressReserved'
    BY <1>a DEF AddressExclusive, AddressReserved, ReservationInv, Uncommitted
  <1>5. NoAddressLeak'
    BY <1>o, <1>a DEF NoAddressLeak, Uncommitted
  <1>6. ReleasedStaysReleased'
    BY <1>o DEF ReleasedStaysReleased, Stored
  <1> QED
    BY <1>1, <1>2, <1>3, <1>4, <1>5, <1>6

(* A step that may rewrite a record with the address it already has.       *)
SameAddresses ==
    \A s \in SessionIDs : /\ sessions'[s].ip = sessions[s].ip
                          /\ sessions'[s] = NoSession <=> sessions[s] = NoSession

LEMMA RewriteSame ==
    ASSUME TypeInv, NameInv, NEW s \in SessionIDs, NEW v \in Session,
           Stored(s), v.ip = sessions[s].ip,
           sessions' = [sessions EXCEPT ![s] = v] \/ UNCHANGED sessions
    PROVE  SameAddresses
  <1>1. v # NoSession
    BY NoIPNotInPool DEF NameInv, NoSession
  <1> QED
    BY <1>1 DEF SameAddresses, Stored, TypeInv, TypeOK

(* BSF, CHF and NSACF steps: the record keeps its address, and the create  *)
(* that ends answers 201 and so makes its identifier known.                *)
LEMMA CommitStep ==
    ASSUME TypeInv, OwnershipInv, NEW c \in Creates, CommittedStep(c)
    PROVE  OwnershipInv'
  <1> USE DEF OwnershipInv
  <1>e. /\ Alone(c) /\ Keeps(c) /\ Commits(c)
        /\ cr[c].pc \in Committed
        /\ sessions' = [sessions EXCEPT ![sidOf(c)] = record(c)] \/ UNCHANGED sessions
        /\ UNCHANGED <<allocated, seidCounter>>
    BY CommittedEffect DEF TypeInv, replicaVars
  <1>o. (\A d \in Creates : d # c => cr'[d] = cr[d]) /\ UNCHANGED op
    BY <1>e DEF Alone
  <1>0. HasRecord(c) /\ Named(c) /\ (HasRecord(c))' /\ (sidOf(c))' = sidOf(c)
    BY <1>e DEF Commits, At, Keeps, HasRecord, Named, sidOf
  <1>1. sidOf(c) \in SessionIDs /\ Stored(sidOf(c)) /\ sessions[sidOf(c)].ip = cr[c].ip
    BY <1>e, <1>0, NamedSid DEF NameInv
  <1>2. SameAddresses
    <2>1. record(c) \in Session /\ record(c).ip = cr[c].ip
      BY RecordType DEF TypeInv
    <2> QED
      BY <1>e, <1>1, <2>1, RewriteSame
  <1>3. cr[c].pc \notin Uncommitted /\ cr'[c].pc \notin Uncommitted
    BY <1>e DEF Commits, At, Committed, Uncommitted
  <1>a. \A s \in SessionIDs : (Settled(s))' <=> Settled(s)
    BY <1>o, <1>2 DEF Settled, Stored, SameAddresses
  <1>4. ReservationInv'
    BY <1>e, <1>o, <1>2, <1>3, <1>a DEF ReservationInv, SameAddresses
  <1>5. NameInv'
    <2> USE DEF Named, HasRecord, sidOf
    <2>1. (\A d \in Creates : Named(d) => cr[d].seid <= seidCounter[cr[d].rep])'
      BY <1>e, <1>o, <1>0 DEF NameInv, Keeps
    <2>2. (\A d, e \in Creates : d # e /\ Named(d) /\ Named(e) => cr[d].seid # cr[e].seid)'
      BY <1>e, <1>o, <1>0 DEF NameInv, Keeps
    <2>3. (\A s \in SessionIDs : Stored(s) =>
             sessions[s].ip \in IPs /\ \E d \in Creates : HasRecord(d) /\ sidOf(d) = s)'
      <3> SUFFICES ASSUME NEW s \in SessionIDs, (Stored(s))'
                   PROVE  /\ sessions'[s].ip \in IPs
                          /\ \E d \in Creates : (HasRecord(d))' /\ (sidOf(d))' = s
        OBVIOUS
      <3>1. PICK d \in Creates : HasRecord(d) /\ sidOf(d) = s /\ sessions'[s].ip \in IPs
        BY <1>2 DEF NameInv, SameAddresses, Stored
      <3>2. CASE d = c
        BY <1>0, <3>1, <3>2
      <3>3. CASE d # c
        BY <1>o, <3>1, <3>3
      <3> QED
        BY <3>2, <3>3
    <2>4. (\A d \in Creates : cr[d].pc \in Committed =>
             Stored(sidOf(d)) /\ sessions[sidOf(d)].ip = cr[d].ip)'
      <3> SUFFICES ASSUME NEW d \in Creates, cr'[d].pc \in Committed
                   PROVE  /\ sessions'[(sidOf(d))'] # NoSession
                          /\ sessions'[(sidOf(d))'].ip = cr'[d].ip
        BY DEF Stored
      <3>1. /\ cr[d].pc \in Committed /\ (sidOf(d))' = sidOf(d) /\ cr'[d].ip = cr[d].ip
        BY <1>e, <1>o DEF Keeps
      <3>2. sidOf(d) \in SessionIDs
        BY <3>1, NamedSid
      <3> QED
        BY <1>2, <3>1, <3>2 DEF NameInv, SameAddresses, Stored
    <2>5. (\A x \in Ops : op[x].pc # "idle" => op[x].sid \in Issued)'
      <3>1. cr[c].code # 201
        BY <1>e DEF TypeInv, LocalInv, Committed
      <3>2. Issued \subseteq Issued'
        BY <1>o, <3>1 DEF Issued
      <3> QED
        BY <1>o, <3>2 DEF NameInv
    <2> QED
      BY <2>1, <2>2, <2>3, <2>4, <2>5 DEF NameInv
  <1>6. CopyInv'
    <2>1. \A x \in Ops : op[x].pc \in Fetched => op[x].sid \in SessionIDs
      BY DEF TypeInv, LocalInv, Fetched, AddressFreed
    <2> QED
      BY <1>o, <1>2, <2>1 DEF CopyInv, SameAddresses, Stored, OpRuns
  <1>7. AddressExclusive' /\ AddressReserved'
    BY <1>e, <1>2, <1>a DEF AddressExclusive, AddressReserved, SameAddresses
  <1>8. NoAddressLeak'
    BY <1>e, <1>o, <1>2, <1>3, <1>a DEF NoAddressLeak, SameAddresses
  <1>9. ReleasedStaysReleased'
    <2>1. \A x \in Ops : op[x].code = 200 => op[x].sid \in SessionIDs
      BY DEF TypeInv, LocalInv
    <2> QED
      BY <1>o, <1>2, <2>1 DEF ReleasedStaysReleased, SameAddresses, Stored
  <1> QED
    BY <1>4, <1>5, <1>6, <1>7, <1>8, <1>9

(* All steps of a create.                                                  *)
LEMMA OwnershipCreate ==
    ASSUME SteadyDeployment, TypeInv, MutexInv, OwnershipInv,
           NEW c \in Creates, CreateStep(c)
    PROVE  OwnershipInv'
  <1>0. cr[c].code # 0 => cr[c].pc = "done"
    BY DEF TypeInv, LocalInv
  <1> USE DEF Named, HasRecord, Committed, Uncommitted, At
  <1>1. CASE CreatePolicy(c) \/ CreateCheck(c)
    BY <1>0, <1>1, PolicyEffect, QuietCreate DEF TypeInv, redisVars, replicaVars
  <1>2. CASE PoolLock(c)
    BY <1>0, <1>2, LockEffect, QuietCreate DEF TypeInv, redisVars
  <1>3. CASE PoolGetFree(c)
    BY <1>0, <1>3, GetFreeEffect, QuietCreate DEF TypeInv, redisVars
  <1>4. CASE PoolGetTaken(c)
    BY <1>0, <1>4, GetTakenEffect, QuietCreate DEF TypeInv, redisVars
  <1>5. CASE PoolPut(c)
    <2>1. cr[c].pc = "poolPut" /\ cr[c].ip \notin allocated /\ cr[c].code = 0
      BY <1>0, <1>5 DEF MutexInv, PoolPut
    <2>2. CASE At(c, "n4", 0) /\ allocated' = allocated \cup {cr[c].ip}
      BY <1>5, <2>1, <2>2, PoolPutEffect, ReserveStep DEF TypeInv
    <2>3. CASE At(c, "done", 500) /\ UNCHANGED allocated
      BY <1>5, <2>1, <2>3, PoolPutEffect, QuietCreate DEF TypeInv
    <2> QED
      BY <1>5, <2>2, <2>3, PoolPutEffect DEF TypeInv
  <1>6. CASE CreateN4(c)
    BY <1>6, NameStep
  <1>7. CASE CreateStore(c)
    <2>1. cr[c].pc = "store" /\ cr[c].code = 0
      BY <1>0, <1>7 DEF CreateStore
    <2>2. CASE Commits(c) /\ sessions' = [sessions EXCEPT ![sidOf(c)] = record(c)]
      BY <1>7, <2>1, <2>2, StoreEffect, StoreStep DEF TypeInv, replicaVars
    <2>3. CASE At(c, "undo", 0) /\ UNCHANGED sessions
      BY <1>7, <2>1, <2>3, StoreEffect, StoreFailStep DEF TypeInv, replicaVars
    <2> QED
      BY <1>7, <2>2, <2>3, StoreEffect DEF TypeInv
  <1>8. CASE CreateUndo(c)
    BY <1>8, UndoEffect, UndoStep DEF TypeInv, replicaVars, SteadyDeployment
  <1>9. CASE CommittedStep(c)
    BY <1>9, CommitStep
  <1> QED
    BY <1>1, <1>2, <1>3, <1>4, <1>5, <1>6, <1>7, <1>8, <1>9 DEF CreateStep, CommittedStep

(* An operation that neither frees an address nor stores or deletes a      *)
(* record leaves all that is said of addresses and names as it was.        *)
LEMMA OpQuiet ==
    ASSUME TypeInv, OwnershipInv, NEW x \in Ops, OpAlone(x),
           SameAddresses, UNCHANGED allocated, op'[x].sid \in Issued,
           op'[x].pc \in AddressFreed <=> op[x].pc \in AddressFreed,
           op[x].pc \in AddressFreed => op'[x].sid = op[x].sid
    PROVE  /\ ReservationInv' /\ NameInv' /\ AddressExclusive'
           /\ AddressReserved' /\ NoAddressLeak'
  <1> USE DEF OwnershipInv
  <1>o. /\ \A y \in Ops : y # x => op'[y] = op[y]
        /\ UNCHANGED <<cr, seidCounter, allocated>>
    BY DEF OpAlone, replicaVars
  <1>s. \A s \in SessionIDs : (Stored(s))' <=> Stored(s)
    BY DEF SameAddresses, Stored
  <1>a. \A s \in SessionIDs : (Settled(s))' <=> Settled(s)
    BY <1>o, <1>s DEF Settled
  <1>1. ReservationInv'
    BY <1>o, <1>a DEF ReservationInv, SameAddresses
  <1>2. NameInv'
    <2> USE DEF Named, HasRecord, sidOf
    <2>1. (\A d \in Creates : Named(d) => cr[d].seid <= seidCounter[cr[d].rep])'
      BY <1>o DEF NameInv
    <2>2. (\A d, e \in Creates : d # e /\ Named(d) /\ Named(e) => cr[d].seid # cr[e].seid)'
      BY <1>o DEF NameInv
    <2>3. (\A s \in SessionIDs : Stored(s) =>
             sessions[s].ip \in IPs /\ \E d \in Creates : HasRecord(d) /\ sidOf(d) = s)'
      BY <1>o, <1>s DEF NameInv, SameAddresses
    <2>4. (\A d \in Creates : cr[d].pc \in Committed =>
             Stored(sidOf(d)) /\ sessions[sidOf(d)].ip = cr[d].ip)'
      <3> SUFFICES ASSUME NEW d \in Creates, cr[d].pc \in Committed
                   PROVE  /\ sessions'[sidOf(d)] # NoSession
                          /\ sessions'[sidOf(d)].ip = cr[d].ip
        BY <1>o DEF Stored
      <3>1. sidOf(d) \in SessionIDs
        BY NamedSid
      <3> QED
        BY <3>1 DEF NameInv, SameAddresses, Stored
    <2>5. (\A y \in Ops : op[y].pc # "idle" => op[y].sid \in Issued)'
      BY <1>o DEF NameInv, Issued
    <2> QED
      BY <2>1, <2>2, <2>3, <2>4, <2>5 DEF NameInv
  <1>3. AddressExclusive' /\ AddressReserved'
    BY <1>o, <1>a DEF AddressExclusive, AddressReserved, SameAddresses
  <1>4. NoAddressLeak'
    BY <1>o, <1>a DEF NoAddressLeak, SameAddresses
  <1> QED
    BY <1>1, <1>2, <1>3, <1>4

(* A client starts a request: it is alone on its session.                  *)
LEMMA OwnershipOpStart ==
    ASSUME SteadyDeployment, TypeInv, OwnershipInv, NEW x \in Ops, NEW s \in Issued,
           ReleaseStart(x, s) \/ \E q \in QoS : UpdateStart(x, s, q)
    PROVE  OwnershipInv'
  <1>e. /\ OpAlone(x) /\ op[x].pc = "idle" /\ op'[x].pc \in {"uGet", "rGet"}
        /\ op'[x].sid = s /\ op'[x].code = op[x].code /\ ~Busy(s)
        /\ UNCHANGED <<sessions, allocated>>
    BY OpStartEffect DEF TypeInv, SteadyDeployment, redisVars
  <1>o. \A y \in Ops : y # x => op'[y] = op[y]
    BY <1>e DEF OpAlone
  <1>1. SameAddresses
    BY <1>e DEF SameAddresses
  <1>2. /\ ReservationInv' /\ NameInv' /\ AddressExclusive'
        /\ AddressReserved' /\ NoAddressLeak'
    BY <1>e, <1>1, OpQuiet DEF AddressFreed
  <1>3. CopyInv'
    <2>1. \A y \in Ops : OpRuns(y) => op[y].sid # s
      BY <1>e DEF Busy
    <2> QED
      BY <1>e, <1>o, <2>1 DEF OwnershipInv, CopyInv, OpRuns, Fetched, AddressFreed, Stored
  <1>4. ReleasedStaysReleased'
    <2>1. op[x].code = 0
      BY <1>e DEF TypeInv, LocalInv
    <2> QED
      BY <1>e, <1>o, <2>1 DEF OwnershipInv, ReleasedStaysReleased, Stored
  <1> QED
    BY <1>2, <1>3, <1>4 DEF OwnershipInv

(* Fetching the record, and the calls that free no address of the pool.    *)
LEMMA OwnershipOpMove ==
    ASSUME TypeInv, OwnershipInv, NEW x \in Ops,
           UpdateGet(x) \/ ReleaseGet(x) \/ OpMove(x)
    PROVE  OwnershipInv'
  <1>e. /\ OpAlone(x) /\ OpRuns(x)
        /\ op'[x].sid = op[x].sid
        /\ op'[x].pc \in AddressFreed <=> op[x].pc \in AddressFreed
        /\ \/ op'[x].pc = "done" /\ op'[x].code # 200
           \/ /\ op'[x].pc \in Fetched /\ op'[x].code = op[x].code
              /\ Stored(op[x].sid) /\ op'[x].rec.ip = sessions[op[x].sid].ip
        /\ UNCHANGED <<sessions, allocated>>
    <2>1. CASE UpdateGet(x) \/ ReleaseGet(x)
      BY <2>1, OpGetEffect DEF TypeInv, redisVars, OpRuns, Fetched, AddressFreed
    <2>2. CASE OpMove(x)
      <3>1. /\ OpAlone(x) /\ OpKeeps(x) /\ op[x].pc \in Fetched
            /\ \/ /\ op'[x].pc = "done" /\ op'[x].code = 500
                  /\ op[x].pc \notin AddressFreed
               \/ /\ op'[x].pc \in Fetched /\ op'[x].code = op[x].code
                  /\ op'[x].pc \in AddressFreed <=> op[x].pc \in AddressFreed
            /\ UNCHANGED <<sessions, allocated>>
        BY <2>2, OpMoveEffect DEF TypeInv, redisVars
      <3>2. Stored(op[x].sid) /\ op[x].rec.ip = sessions[op[x].sid].ip
        BY <3>1 DEF OwnershipInv, CopyInv
      <3> QED
        BY <3>1, <3>2 DEF OpKeeps, OpRuns, Fetched, AddressFreed
    <2> QED
      BY <2>1, <2>2
  <1>o. \A y \in Ops : y # x => op'[y] = op[y]
    BY <1>e DEF OpAlone
  <1>1. SameAddresses
    BY <1>e DEF SameAddresses
  <1>2. /\ ReservationInv' /\ NameInv' /\ AddressExclusive'
        /\ AddressReserved' /\ NoAddressLeak'
    <2>1. op[x].sid \in Issued
      BY <1>e DEF OwnershipInv, NameInv, OpRuns
    <2> QED
      BY <1>e, <1>1, <2>1, OpQuiet
  <1>3. CopyInv'
    BY <1>e, <1>o DEF OwnershipInv, CopyInv, OpRuns, Fetched, AddressFreed, Stored
  <1>4. ReleasedStaysReleased'
    <2>1. op[x].code = 0
      BY <1>e DEF TypeInv, LocalInv, OpRuns
    <2> QED
      BY <1>e, <1>o, <2>1 DEF OwnershipInv, ReleasedStaysReleased, Stored
  <1> QED
    BY <1>2, <1>3, <1>4 DEF OwnershipInv

(* The last write of an update puts back the address it has read.          *)
LEMMA OwnershipUpdatePut ==
    ASSUME TypeInv, OwnershipInv, NEW x \in Ops, UpdatePut(x)
    PROVE  OwnershipInv'
  <1>e. /\ OpAlone(x) /\ OpKeeps(x) /\ op[x].pc = "uPut" /\ op'[x].pc = "done"
        /\ sessions' = [sessions EXCEPT ![op[x].sid] = op[x].rec] \/ UNCHANGED sessions
        /\ UNCHANGED allocated
    BY UpdatePutEffect DEF TypeInv
  <1>o. \A y \in Ops : y # x => op'[y] = op[y]
    BY <1>e DEF OpAlone
  <1>0. /\ op[x].sid \in SessionIDs /\ op[x].rec \in Session /\ op[x].qos # 0
        /\ Stored(op[x].sid) /\ op[x].rec.ip = sessions[op[x].sid].ip
        /\ op[x].sid \in Issued
    BY <1>e DEF TypeInv, TypeOK, LocalInv, OpState, OwnershipInv, CopyInv, NameInv, Fetched
  <1>1. SameAddresses
    BY <1>e, <1>0, RewriteSame DEF OwnershipInv
  <1>2. /\ ReservationInv' /\ NameInv' /\ AddressExclusive'
        /\ AddressReserved' /\ NoAddressLeak'
    BY <1>e, <1>0, <1>1, OpQuiet DEF OpKeeps, AddressFreed
  <1>3. CopyInv'
    <2>1. \A y \in Ops : op[y].pc \in Fetched => op[y].sid \in SessionIDs
      BY DEF TypeInv, LocalInv, Fetched, AddressFreed
    <2> QED
      BY <1>e, <1>o, <1>1, <2>1
         DEF OwnershipInv, CopyInv, SameAddresses, OpRuns, Fetched, AddressFreed, Stored
  <1>4. ReleasedStaysReleased'
    <2>1. \A y \in Ops : op[y].code = 200 => op[y].sid \in SessionIDs
      BY DEF TypeInv, LocalInv
    <2> QED
      BY <1>e, <1>o, <1>0, <1>1, <2>1
         DEF OwnershipInv, ReleasedStaysReleased, SameAddresses, OpKeeps, Stored
  <1> QED
    BY <1>2, <1>3, <1>4 DEF OwnershipInv

(* A release frees the address of its own session and of no other.         *)
LEMMA OwnershipReleaseIP ==
    ASSUME SteadyDeployment, TypeInv, OwnershipInv, NEW x \in Ops, ReleaseIP(x)
    PROVE  OwnershipInv'
  <1> USE DEF OwnershipInv
  <1>e. /\ OpAlone(x) /\ OpKeeps(x) /\ op[x].pc = "rIP"
        /\ op'[x].pc \in AddressFreed /\ op'[x].code = op[x].code
        /\ allocated' = allocated \ {op[x].rec.ip}
        /\ UNCHANGED sessions
    BY ReleaseIPEffect DEF TypeInv, SteadyDeployment
  <1>o. (\A y \in Ops : y # x => op'[y] = op[y]) /\ UNCHANGED <<cr, seidCounter>>
    BY <1>e DEF OpAlone, replicaVars
  <1>k. op'[x].sid = op[x].sid /\ op'[x].rec.ip = op[x].rec.ip
    BY <1>e DEF OpKeeps
  <1> PICK t : t = op[x].sid
    OBVIOUS
  <1>0. t \in SessionIDs /\ Stored(t) /\ op[x].rec.ip = sessions[t].ip
    BY <1>e DEF TypeInv, LocalInv, CopyInv, Fetched
  <1>1. Settled(t) /\ ~(Settled(t))'
    <2>1. \A y \in Ops : op[y].sid = t => op[y].pc \notin AddressFreed
      BY <1>e DEF CopyInv, OpRuns, AddressFreed
    <2> QED
      BY <1>e, <1>k, <1>0, <2>1 DEF Settled
  <1>a. \A s \in SessionIDs : s # t => ((Settled(s))' <=> Settled(s))
    BY <1>e, <1>o, <1>k DEF Settled, Stored
  <1>2. \A s \in SessionIDs : Settled(s) /\ s # t => sessions[s].ip # sessions[t].ip
    BY <1>0, <1>1 DEF AddressExclusive
  <1>3. \A c \in Creates : cr[c].pc \in Uncommitted => cr[c].ip # sessions[t].ip
    BY <1>0, <1>1 DEF ReservationInv
  <1>4. ReservationInv'
    BY <1>e, <1>o, <1>0, <1>1, <1>a, <1>3 DEF ReservationInv
  <1>5. NameInv'
    BY <1>e, <1>o, <1>k DEF NameInv, Named, HasRecord, sidOf, Issued, Stored
  <1>6. CopyInv'
    BY <1>e, <1>o, <1>k DEF CopyInv, OpRuns, Fetched, AddressFreed, Stored
  <1>7. AddressExclusive' /\ AddressReserved'
    BY <1>e, <1>0, <1>1, <1>a, <1>2 DEF AddressExclusive, AddressReserved
  <1>8. NoAddressLeak'
    BY <1>e, <1>o, <1>0, <1>a DEF NoAddressLeak
  <1>9. ReleasedStaysReleased'
    <2>1. op[x].code = 0
      BY <1>e DEF TypeInv, LocalInv
    <2> QED
      BY <1>e, <1>o, <2>1 DEF ReleasedStaysReleased, Stored
  <1> QED
    BY <1>4, <1>5, <1>6, <1>7, <1>8, <1>9

(* The record goes when its address is no longer its own, and the create   *)
(* that wrote it has answered and writes no more.                          *)
LEMMA OwnershipReleaseDelete ==
    ASSUME SteadyDeployment, TypeInv, OwnershipInv, NEW x \in Ops, ReleaseDelete(x)
    PROVE  OwnershipInv'
  <1> USE DEF OwnershipInv
  <1>e. /\ OpAlone(x) /\ OpKeeps(x) /\ op[x].pc = "rDel" /\ op'[x].pc = "done"
        /\ sessions' = [sessions EXCEPT ![op[x].sid] = NoSession]
        /\ UNCHANGED allocated
    BY ReleaseDeleteEffect DEF TypeInv, SteadyDeployment
  <1>o. (\A y \in Ops : y # x => op'[y] = op[y]) /\ UNCHANGED <<cr, seidCounter>>
    BY <1>e DEF OpAlone, replicaVars
  <1>k. op'[x].sid = op[x].sid
    BY <1>e DEF OpKeeps
  <1> PICK t : t = op[x].sid
    OBVIOUS
  <1>0. t \in SessionIDs /\ ~Settled(t) /\ t \in Issued
    BY <1>e DEF TypeInv, LocalInv, Settled, AddressFreed, NameInv
  <1>s. /\ \A s \in SessionIDs : s # t => sessions'[s] = sessions[s]
        /\ sessions'[t] = NoSession
    BY <1>e, <1>0 DEF TypeInv, TypeOK
  <1>a. \A s \in SessionIDs : (Settled(s))' <=> Settled(s) /\ s # t
    BY <1>e, <1>o, <1>k, <1>0, <1>s DEF Settled, Stored, AddressFreed
  <1>4. ReservationInv'
    BY <1>e, <1>o, <1>s, <1>a DEF ReservationInv
  <1>5. NameInv'
    <2>1. (\A d \in Creates : Named(d) => cr[d].seid <= seidCounter[cr[d].rep])'
      BY <1>o DEF NameInv, Named, HasRecord
    <2>2. (\A d, e \in Creates : d # e /\ Named(d) /\ Named(e) => cr[d].seid # cr[e].seid)'
      BY <1>o DEF NameInv, Named, HasRecord
    <2>3. (\A s \in SessionIDs : Stored(s) =>
             sessions[s].ip \in IPs /\ \E d \in Creates : HasRecord(d) /\ sidOf(d) = s)'
      BY <1>o, <1>s DEF NameInv, Stored, HasRecord, sidOf
    <2>4. (\A d \in Creates : cr[d].pc \in Committed =>
             Stored(sidOf(d)) /\ sessions[sidOf(d)].ip = cr[d].ip)'
      <3> SUFFICES ASSUME NEW d \in Creates, cr[d].pc \in Committed
                   PROVE  /\ sessions'[sidOf(d)] # NoSession
                          /\ sessions'[sidOf(d)].ip = cr[d].ip
        BY <1>o DEF Stored, sidOf
      <3>1. Named(d) /\ sidOf(d) \in SessionIDs /\ cr[d].code # 201
        BY NamedSid DEF Named, HasRecord, TypeInv, LocalInv, Committed
      <3>2. t # sidOf(d)
        BY <1>e, <3>1, NamesDiffer DEF TypeInv
      <3> QED
        BY <1>s, <3>1, <3>2 DEF NameInv, Stored
    <2>5. (\A y \in Ops : op[y].pc # "idle" => op[y].sid \in Issued)'
      BY <1>e, <1>o, <1>k DEF NameInv, Issued, sidOf
    <2> QED
      BY <2>1, <2>2, <2>3, <2>4, <2>5 DEF NameInv
  <1>6. CopyInv'
    <2>1. \A y \in Ops : y # x /\ OpRuns(y) => op[y].sid # t
      BY <1>e DEF CopyInv, OpRuns
    <2>2. \A y \in Ops : op[y].pc \in Fetched => op[y].sid \in SessionIDs /\ OpRuns(y)
      BY DEF TypeInv, LocalInv, Fetched, AddressFreed, OpRuns
    <2>3. op'[x].pc \notin Fetched
      BY <1>e DEF Fetched, AddressFreed
    <2> QED
      BY <1>e, <1>o, <1>s, <2>1, <2>2, <2>3 DEF CopyInv, OpRuns, Stored
  <1>7. AddressExclusive' /\ AddressReserved'
    BY <1>e, <1>s, <1>a DEF AddressExclusive, AddressReserved
  <1>8. NoAddressLeak'
    BY <1>e, <1>o, <1>0, <1>s, <1>a DEF NoAddressLeak
  <1>9. ReleasedStaysReleased'
    <2>1. \A y \in Ops : op[y].code = 200 => op[y].sid \in SessionIDs
      BY DEF TypeInv, LocalInv
    <2> QED
      BY <1>e, <1>o, <1>k, <1>s, <2>1 DEF ReleasedStaysReleased, Stored
  <1> QED
    BY <1>4, <1>5, <1>6, <1>7, <1>8, <1>9

LEMMA OwnershipStart ==
    ASSUME TypeInv, OwnershipInv, NEW c \in Creates, NEW r \in Replicas, NEW u \in Supis,
           CreateStart(c, r, u)
    PROVE  OwnershipInv'
  <1>1. cr[c].code = 0
    BY DEF CreateStart, TypeInv, LocalInv
  <1> QED
    BY <1>1, StartEffect, QuietCreate
       DEF TypeInv, redisVars, replicaVars, Named, HasRecord, Committed, Uncommitted

-----------------------------------------------------------------------------
(* The pool mutex.                                                         *)

(* A step that leaves the mutexes and the set of allocated addresses, and  *)
(* brings no create into the section the mutex guards.                     *)
LEMMA MutexKept ==
    ASSUME MutexInv, UNCHANGED ipPoolMu, allocated' \subseteq allocated,
           \A c \in Creates : cr'[c].pc \in {"poolGet", "poolPut"} =>
              cr'[c].pc = cr[c].pc /\ cr'[c].rep = cr[c].rep /\ cr'[c].ip = cr[c].ip
    PROVE  MutexInv'
  BY DEF MutexInv

LEMMA MutexCreate ==
    ASSUME SteadyDeployment, TypeInv, MutexInv, NEW c \in Creates, CreateStep(c)
    PROVE  MutexInv'
  <1>r. \A d \in Creates : cr[d].pc # "idle" => cr[d].rep = cr[c].rep
    BY DEF TypeInv, LocalInv, SteadyDeployment, CreateStep, CreatePolicy, CreateCheck,
           PoolLock, PoolGetFree, PoolGetTaken, PoolPut, CreateN4, CreateStore, CreateUndo,
           CreateBind, CreateBindPut, CreateCharge, CreateChargePut, CreateIncGet, CreateIncPut
  <1>t. cr[c].pc # "idle" => cr[c].rep \in Replicas
    BY DEF TypeInv, LocalInv
  <1>1. CASE CreatePolicy(c) \/ CreateCheck(c)
    <2>1. /\ Alone(c) /\ cr'[c].pc \notin {"poolGet", "poolPut"}
          /\ UNCHANGED <<ipPoolMu, allocated>>
      BY <1>1, PolicyEffect DEF TypeInv, At, redisVars, replicaVars
    <2> QED
      BY <2>1, MutexKept DEF Alone
  <1>2. CASE PoolLock(c)
    <2>1. /\ Alone(c) /\ Keeps(c) /\ cr'[c].pc = "poolGet" /\ cr[c].pc = "lock"
          /\ ipPoolMu[cr[c].rep] = None
          /\ ipPoolMu' = [ipPoolMu EXCEPT ![cr[c].rep] = c]
          /\ UNCHANGED allocated
      BY <1>2, LockEffect DEF TypeInv, At, redisVars, PoolLock
    <2>2. ipPoolMu'[cr[c].rep] = c
      BY <1>t, <2>1 DEF TypeInv, TypeOK
    <2>3. \A d \in Creates : d # c => cr[d].pc \notin {"poolGet", "poolPut"}
      BY <1>r, <2>1, ConstantsAssumption DEF MutexInv
    <2> QED
      BY <2>1, <2>2, <2>3 DEF MutexInv, Alone, Keeps
  <1>3. CASE PoolGetFree(c)
    <2>1. /\ Alone(c) /\ cr'[c].rep = cr[c].rep /\ cr[c].pc = "poolGet"
          /\ cr'[c].ip \notin allocated
          /\ UNCHANGED <<ipPoolMu, allocated>>
      BY <1>3, GetFreeEffect DEF TypeInv, redisVars, SteadyDeployment
    <2> QED
      BY <2>1 DEF MutexInv, Alone
  <1>4. CASE PoolGetTaken(c)
    <2>1. /\ Alone(c) /\ Keeps(c) /\ cr[c].pc = "poolGet" /\ UNCHANGED allocated
          /\ \/ cr'[c].pc = "poolGet" /\ UNCHANGED ipPoolMu
             \/ /\ cr'[c].pc = "done"
                /\ ipPoolMu' = [ipPoolMu EXCEPT ![cr[c].rep] = None]
      BY <1>4, GetTakenEffect DEF TypeInv, redisVars, At
    <2>2. \A d \in Creates : d # c => cr[d].pc \notin {"poolGet", "poolPut"}
      BY <1>r, <2>1 DEF MutexInv
    <2> QED
      BY <2>1, <2>2 DEF MutexInv, Alone, Keeps
  <1>5. CASE PoolPut(c)
    <2>1. Alone(c) /\ cr[c].pc = "poolPut" /\ cr'[c].pc \in {"n4", "done"}
      <3>1. TypeOK /\ cr[c].pc = "poolPut"
        BY <1>5 DEF TypeInv, PoolPut
      <3> QED
        BY <1>5, <3>1, PoolPutEffect DEF At
    <2>2. \A d \in Creates : d # c => cr[d].pc \notin {"poolGet", "poolPut"}
      BY <1>r, <2>1 DEF MutexInv
    <2> QED
      BY <2>1, <2>2 DEF MutexInv, Alone
  <1>6. CASE CreateN4(c)
    <2>1. /\ Alone(c) /\ cr'[c].pc \notin {"poolGet", "poolPut"}
          /\ UNCHANGED <<ipPoolMu, allocated>>
      BY <1>6, N4Effect DEF TypeInv, At, redisVars, poolVars
    <2> QED
      BY <2>1, MutexKept DEF Alone
  <1>7. CASE CreateStore(c)
    <2>1. /\ Alone(c) /\ cr'[c].pc \notin {"poolGet", "poolPut"}
          /\ UNCHANGED <<ipPoolMu, allocated>>
      BY <1>7, StoreEffect DEF TypeInv, At, Commits, Committed, replicaVars
    <2> QED
      BY <2>1, MutexKept DEF Alone
  <1>8. CASE CreateUndo(c)
    <2>1. /\ Alone(c) /\ cr'[c].pc \notin {"poolGet", "poolPut"}
          /\ UNCHANGED ipPoolMu /\ allocated' \subseteq allocated
      BY <1>8, UndoEffect DEF TypeInv, At, replicaVars
    <2> QED
      BY <2>1, MutexKept DEF Alone
  <1>9. CASE CommittedStep(c)
    <2>1. /\ Alone(c) /\ cr'[c].pc \notin {"poolGet", "poolPut"}
          /\ UNCHANGED <<ipPoolMu, allocated>>
      BY <1>9, CommittedEffect DEF TypeInv, At, Commits, Committed, replicaVars
    <2> QED
      BY <2>1, MutexKept DEF Alone
  <1> QED
    BY <1>1, <1>2, <1>3, <1>4, <1>5, <1>6, <1>7, <1>8, <1>9 DEF CreateStep, CommittedStep

(* Updates and releases only ever give addresses back.                     *)
LEMMA MutexOp ==
    ASSUME TypeInv, MutexInv, NEW x \in Ops, OpStep(x) \/ OpCrash(x)
    PROVE  MutexInv'
  <1>1. UNCHANGED <<cr, ipPoolMu>> /\ allocated' \subseteq allocated
    <2>1. CASE UpdateGet(x) \/ ReleaseGet(x)
      BY <2>1, OpGetEffect DEF TypeInv, OpAlone, redisVars, replicaVars
    <2>2. CASE OpMove(x)
      BY <2>2, OpMoveEffect DEF TypeInv, OpAlone, redisVars, replicaVars
    <2>3. CASE UpdatePut(x)
      BY <2>3, UpdatePutEffect DEF TypeInv, OpAlone, replicaVars
    <2>4. CASE ReleaseIP(x)
      BY <2>4, ReleaseIPEffect DEF TypeInv, OpAlone, replicaVars
    <2>5. CASE ReleaseDelete(x)
      BY <2>5, ReleaseDeleteEffect DEF TypeInv, OpAlone, replicaVars
    <2>6. CASE OpCrash(x)
      BY <2>6, OpCrashEffect DEF TypeInv, OpAlone, redisVars, replicaVars
    <2> QED
      BY <2>1, <2>2, <2>3, <2>4, <2>5, <2>6 DEF OpStep, OpMove
  <1> QED
    BY <1>1, MutexKept

-----------------------------------------------------------------------------
(* The inductive invariant.                                                *)

LEMMA AddressInit == Init => AddressInv
  <1> SUFFICES ASSUME Init PROVE AddressInv
    OBVIOUS
  <1>1. TypeOK /\ LocalInv
    BY TypeInit DEF TypeInv
  <1>2. /\ \A s \in SessionIDs : ~Stored(s)
        /\ \A c \in Creates : cr[c].pc = "idle" /\ ~Named(c) /\ ~HasRecord(c)
        /\ \A x \in Ops : op[x].pc = "idle" /\ op[x].code = 0 /\ ~OpRuns(x)
        /\ allocated = {}
    BY DEF Init, Stored, Named, HasRecord, Committed, OpRuns, IdleCreate, IdleOp
  <1>3. MutexInv /\ ReservationInv /\ NameInv /\ CopyInv
    BY <1>2 DEF MutexInv, ReservationInv, NameInv, CopyInv, Uncommitted, Committed, Fetched,
           AddressFreed
  <1>4. AddressExclusive /\ AddressReserved /\ NoAddressLeak /\ ReleasedStaysReleased
    BY <1>2 DEF AddressExclusive, AddressReserved, NoAddressLeak, ReleasedStaysReleased, Settled
  <1> QED
    BY <1>1, <1>3, <1>4 DEF AddressInv

LEMMA AddressNext ==
    ASSUME SteadyDeployment, AddressInv, [Next]_vars
    PROVE  AddressInv'
  <1>1. TypeInv /\ MutexInv /\ OwnershipInv
    BY DEF AddressInv, TypeInv, OwnershipInv
  <1>2. TypeInv'
    BY <1>1, TypeNext
  <1>3. MutexInv' /\ OwnershipInv'
    <2>1. ASSUME NEW c \in Creates, NEW r \in Replicas, NEW u \in Supis, CreateStart(c, r, u)
          PROVE  MutexInv' /\ OwnershipInv'
      <3>1. /\ Alone(c) /\ cr'[c].pc \notin {"poolGet", "poolPut"}
            /\ UNCHANGED <<ipPoolMu, allocated>>
        BY <1>1, <2>1, StartEffect DEF TypeInv, redisVars, replicaVars
      <3> QED
        BY <1>1, <2>1, <3>1, MutexKept, OwnershipStart DEF Alone
    <2>2. ASSUME NEW c \in Creates, CreateStep(c)
          PROVE  MutexInv' /\ OwnershipInv'
      BY <1>1, <2>2, MutexCreate, OwnershipCreate
    <2>3. ASSUME NEW r \in Replicas, Restart(r)
          PROVE  FALSE
      BY <1>1, <2>3 DEF Restart, TypeInv, TypeOK, SteadyDeployment
    <2>4. ASSUME NEW x \in Ops, NEW s \in Issued,
                 ReleaseStart(x, s) \/ \E q \in QoS : UpdateStart(x, s, q)
          PROVE  MutexInv' /\ OwnershipInv'
      <3>1. UNCHANGED <<cr, ipPoolMu, allocated>>
        BY <2>4 DEF ReleaseStart, UpdateStart, redisVars, replicaVars
      <3> QED
        BY <1>1, <2>4, <3>1, MutexKept, OwnershipOpStart
    <2>5. ASSUME NEW x \in Ops, OpStep(x)
          PROVE  MutexInv' /\ OwnershipInv'
      <3>1. OwnershipInv'
        BY <1>1, <2>5, OwnershipOpMove, OwnershipUpdatePut, OwnershipReleaseIP,
           OwnershipReleaseDelete DEF OpStep, OpMove
      <3> QED
        BY <1>1, <2>5, <3>1, MutexOp
    <2>6. ASSUME NEW x \in Ops, OpCrash(x)
          PROVE  FALSE
      BY <2>6 DEF OpCrash, SteadyDeployment
    <2>7. CASE UNCHANGED vars
      BY <1>1, <2>7 DEF vars, OwnershipInv, MutexInv, ReservationInv, NameInv, CopyInv,
             AddressExclusive, AddressReserved, NoAddressLeak, ReleasedStaysReleased,
             Settled, Stored, Named, HasRecord, sidOf, Issued, OpRuns
    <2> QED
      BY <2>1, <2>2, <2>3, <2>4, <2>5, <2>6, <2>7 DEF Next
  <1> QED
    BY <1>2, <1>3 DEF AddressInv, TypeInv, OwnershipInv

(* In a steady deployment the inductive invariant holds in every reachable *)
(* state, whatever the pool, the number of requests and the write and PFCP *)
(* failures of the handlers.                                               *)
THEOREM AddressesOwned == ASSUME SteadyDeployment PROVE Spec => []AddressInv
  BY AddressInit, AddressNext, PTL DEF Spec

(* No two sessions share a UE address (allocateIP's look-up and mutex).    *)
THEOREM AddressesSafe == ASSUME SteadyDeployment PROVE Spec => []AddressExclusive
  <1>1. AddressInv => AddressExclusive
    BY DEF AddressInv
  <1> QED
    BY <1>1, AddressesOwned, PTL

(* A session's address stays reserved, and no error path of the create     *)
(* handler, at whichever call it fails, loses an address of the pool.      *)
THEOREM PoolConserved == ASSUME SteadyDeployment PROVE Spec => []PoolExact
  <1>1. AddressInv => PoolExact
    BY DEF AddressInv, PoolExact
  <1> QED
    BY <1>1, AddressesOwned, PTL

(* Two sessions a client has been given never have the same identifier.    *)
THEOREM IdentifiersUnique == ASSUME SteadyDeployment PROVE Spec => []SessionIDsUnique
  <1>1. AddressInv => SessionIDsUnique
    BY DEF AddressInv, NameInv, SessionIDsUnique, Named, HasRecord, sidOf
  <1> QED
    BY <1>1, AddressesOwned, PTL

(* A session whose release was confirmed stays out of the store.           *)
THEOREM ReleaseFinal == ASSUME SteadyDeployment PROVE Spec => []ReleasedStaysReleased
  <1>1. AddressInv => ReleasedStaysReleased
    BY DEF AddressInv
  <1> QED
    BY <1>1, AddressesOwned, PTL

-----------------------------------------------------------------------------
(***************************************************************************)
(* In a steady deployment the three SMF handlers implement SessionService: *)
(* the record's write is Establish, an update's write is Modify, freeing   *)
(* the address is End, and every other step of every handler, failed calls *)
(* included, leaves what a client sees as it was.                          *)
(***************************************************************************)
\* What a client sees of session s: the refinement mapping, point by point.
StatusOf(s) == IF Settled(s) THEN "active" ELSE IF Ended(s) THEN "ended" ELSE "none"
AddressOf(s) == IF Settled(s) THEN sessions[s].ip ELSE NoIP
QosOf(s) == IF Settled(s) THEN sessions[s].qos ELSE 0

\* A step that no client sees.
Unseen == \A s \in SessionIDs :
    /\ StatusOf(s)' = StatusOf(s)
    /\ AddressOf(s)' = AddressOf(s)
    /\ QosOf(s)' = QosOf(s)
UnseenBut(t) == \A s \in SessionIDs \ {t} :
    /\ StatusOf(s)' = StatusOf(s)
    /\ AddressOf(s)' = AddressOf(s)
    /\ QosOf(s)' = QosOf(s)

LEMMA UnseenStutters ==
    ASSUME Unseen
    PROVE  UNCHANGED Service!vars
  BY DEF Unseen, Service!vars, StatusOf, AddressOf, QosOf

LEMMA SeenEstablish ==
    ASSUME NEW s \in SessionIDs, NEW a \in IPs, UnseenBut(s),
           StatusOf(s) = "none", StatusOf(s)' = "active",
           AddressOf(s)' = a, QosOf(s)' = QosOf(s),
           \A t \in SessionIDs : Settled(t) => sessions[t].ip # a
    PROVE  Service!Next
  <1>1. Service!Establish(s, a)
    BY DEF UnseenBut, Service!Establish, Service!Active, StatusOf, AddressOf, QosOf
  <1> QED
    BY <1>1 DEF Service!Next

LEMMA SeenModify ==
    ASSUME NEW s \in SessionIDs, NEW q \in QoS, UnseenBut(s),
           StatusOf(s) = "active", StatusOf(s)' = "active",
           AddressOf(s)' = AddressOf(s), QosOf(s)' = q
    PROVE  Service!Next
  <1>1. Service!Modify(s, q)
    BY DEF UnseenBut, Service!Modify, Service!Active, StatusOf, AddressOf, QosOf
  <1> QED
    BY <1>1 DEF Service!Next

LEMMA SeenEnd ==
    ASSUME NEW s \in SessionIDs, UnseenBut(s),
           StatusOf(s) = "active", StatusOf(s)' = "ended",
           AddressOf(s)' = NoIP, QosOf(s)' = 0
    PROVE  Service!Next
  <1>1. Service!End(s)
    BY DEF UnseenBut, Service!End, Service!Active, StatusOf, AddressOf, QosOf
  <1> QED
    BY <1>1 DEF Service!Next

-----------------------------------------------------------------------------
(* The QoS part of the inductive invariant.                                *)

(* What the op steps do to the QoS that the lemmas on addresses leave out. *)
LEMMA OpStartQos ==
    ASSUME TypeOK, NEW x \in Ops, NEW s \in Issued,
           ReleaseStart(x, s) \/ \E q \in QoS : UpdateStart(x, s, q)
    PROVE  \/ op'[x].pc = "rGet" /\ op'[x].qos = op[x].qos
           \/ op'[x].pc = "uGet" /\ op'[x].qos \in QoS
  BY DEF TypeOK, OpState, ReleaseStart, UpdateStart

LEMMA OpGetQos ==
    ASSUME TypeOK, LocalInv, NEW x \in Ops, UpdateGet(x) \/ ReleaseGet(x)
    PROVE  \/ op'[x].pc = "done"
           \/ op[x].pc = "rGet" /\ op'[x].pc \in {"rN4", "rIP"}
           \/ /\ op[x].pc = "uGet" /\ op'[x].pc \in {"uN4", "uPut"}
              /\ op'[x].rec.qos = op[x].qos
  <1>1. CASE UpdateGet(x)
    <2>1. op[x].pc = "uGet" /\ op[x].qos # 0 /\ op[x].sid \in SessionIDs
      BY <1>1 DEF UpdateGet, OpGet, LocalInv
    <2> DEFINE rec == sessions[op[x].sid]
    <2>2. rec \in Session
      BY <2>1 DEF TypeOK
    <2>3. CASE \E k \in {404, 500} : op' = Reply(x, k)
      BY <2>3 DEF Reply, TypeOK, OpState
    <2>4. CASE \E to \in {"uN4", "uPut"} :
                 op' = [op EXCEPT ![x].pc = to, ![x].rec = [rec EXCEPT !.qos = op[x].qos]]
      BY <2>1, <2>2, <2>4 DEF TypeOK, OpState, Session
    <2> QED
      BY <1>1, <2>1, <2>3, <2>4 DEF UpdateGet, OpGet
  <1>2. CASE ReleaseGet(x)
    <2>1. CASE \E k \in {404, 500} : op' = Reply(x, k)
      BY <2>1 DEF Reply, TypeOK, OpState
    <2>2. CASE \E to \in {"rN4", "rIP"} : \E v : op' = [op EXCEPT ![x].pc = to, ![x].rec = v]
      BY <1>2, <2>2 DEF TypeOK, OpState, ReleaseGet, OpGet
    <2> QED
      BY <1>2, <2>1, <2>2 DEF ReleaseGet, OpGet
  <1> QED
    BY <1>1, <1>2

LEMMA OpMoveQos ==
    ASSUME TypeOK, NEW x \in Ops, OpMove(x)
    PROVE  /\ op'[x].qos = op[x].qos /\ op'[x].rec = op[x].rec
           /\ \/ op'[x].pc = "done"
              \/ op[x].pc = "uN4" /\ op'[x].pc = "uPut"
              \/ op[x].pc = "rN4" /\ op'[x].pc = "rIP"
              \/ op[x].pc \in AddressFreed /\ op'[x].pc \in AddressFreed
  <1>1. PICK p \in {"done", "uPut", "rIP", "rBsf", "rDecGet", "rDecPut", "rDel"} :
          /\ \/ op' = OpGo(x, p)
             \/ op' = Reply(x, 500) /\ p = "done"
             \/ \E n : op' = [op EXCEPT ![x].pc = p, ![x].cnt = n]
          /\ \/ p = "done"
             \/ op[x].pc = "uN4" /\ p = "uPut"
             \/ op[x].pc = "rN4" /\ p = "rIP"
             \/ op[x].pc \in AddressFreed /\ p \in AddressFreed
    BY AfterPC DEF OpMove, UpdateN4, ReleaseN4, ReleaseCharge, ReleaseBind, ReleaseDecGet,
                   ReleaseDecPut, AddressFreed
  <1>2. /\ op'[x].qos = op[x].qos /\ op'[x].rec = op[x].rec /\ op'[x].pc = p
    BY <1>1 DEF OpGo, Reply, TypeOK, OpState
  <1> QED
    BY <1>1, <1>2

(* No operation works on the session of a create that has not answered.    *)
LEMMA UnansweredAlone ==
    ASSUME TypeInv, NameInv, NEW c \in Creates, Named(c), cr[c].code # 201
    PROVE  \A x \in Ops : op[x].pc # "idle" => op[x].sid # sidOf(c)
  BY NamesDiffer DEF TypeInv

LEMMA QosInit == Init => QosInv
  BY DEF Init, QosInv, IdleCreate, IdleOp, Committed, AddressFreed

\* The part of QosInv about operations, and the part about creates.
OpQos(x) ==
    /\ op[x].pc \in {"uGet", "uN4", "uPut"} => op[x].qos \in QoS
    /\ op[x].pc \in {"uN4", "uPut"} => op[x].rec.qos = op[x].qos
    /\ op[x].pc \in {"idle", "rGet", "rN4", "rIP"} \cup AddressFreed => op[x].qos = 0
CreateQos(c) == cr[c].pc \in Committed => sessions[sidOf(c)].qos = 0

LEMMA QosParts ==
    QosInv <=> (\A c \in Creates : CreateQos(c)) /\ (\A x \in Ops : OpQos(x))
  BY DEF QosInv, OpQos, CreateQos

LEMMA QosCreate ==
    ASSUME TypeInv, NameInv, QosInv, NEW c \in Creates, Alone(c),
           cr'[c].pc \in Committed => Keeps(c),
           \/ UNCHANGED sessions
           \/ Named(c) /\ sessions' = [sessions EXCEPT ![sidOf(c)] = record(c)],
           cr'[c].pc \in Committed => cr[c].pc \in Committed
                                      \/ (Named(c) /\ sessions'[sidOf(c)] = record(c))
    PROVE  QosInv'
  <1>1. \A x \in Ops : OpQos(x)'
    BY QosParts DEF Alone, OpQos
  <1>2. record(c).qos = 0
    BY DEF record
  <1>3. ASSUME NEW d \in Creates, d # c PROVE CreateQos(d)'
    <2>1. cr'[d] = cr[d] /\ sidOf(d)' = sidOf(d)
      BY <1>3 DEF Alone, sidOf
    <2>2. SUFFICES ASSUME cr[d].pc \in Committed
                   PROVE  sessions'[sidOf(d)].qos = 0
      BY <2>1 DEF CreateQos
    <2>3. Named(d) /\ sidOf(d) \in SessionIDs /\ sessions[sidOf(d)].qos = 0
      BY <2>2, NamedSid DEF Named, HasRecord, QosInv
    <2>4. Named(c) => sidOf(d) # sidOf(c)
      BY <1>3, <2>3, NamesDiffer DEF TypeInv
    <2> QED
      BY <2>3, <2>4 DEF TypeInv, TypeOK
  <1>4. CreateQos(c)'
    <2>2. SUFFICES ASSUME cr'[c].pc \in Committed
                   PROVE  sessions'[sidOf(c)].qos = 0
      BY DEF CreateQos, Keeps, sidOf
    <2>3. CASE Named(c) /\ sessions'[sidOf(c)] = record(c)
      BY <1>2, <2>3
    <2>4. CASE cr[c].pc \in Committed
      <3>1. Named(c) /\ sidOf(c) \in SessionIDs /\ sessions[sidOf(c)].qos = 0
        BY <2>4, NamedSid DEF Named, HasRecord, QosInv
      <3> QED
        BY <1>2, <3>1 DEF TypeInv, TypeOK
    <2> QED
      BY <2>2, <2>3, <2>4
  <1> QED
    BY <1>1, <1>3, <1>4 DEF QosInv, OpQos, CreateQos

LEMMA QosOp ==
    ASSUME TypeInv, NameInv, QosInv, NEW x \in Ops, OpAlone(x), OpQos(x)',
           \/ UNCHANGED sessions
           \/ op[x].pc # "idle" /\ \E v : sessions' = [sessions EXCEPT ![op[x].sid] = v]
    PROVE  QosInv'
  <1>1. \A y \in Ops : OpQos(y)'
    BY QosParts DEF OpAlone, OpQos
  <1>2. ASSUME NEW d \in Creates PROVE CreateQos(d)'
    <2>1. SUFFICES ASSUME cr[d].pc \in Committed
                   PROVE  sessions'[sidOf(d)].qos = 0
      BY DEF CreateQos, OpAlone, sidOf
    <2>2. Named(d) /\ sidOf(d) \in SessionIDs /\ sessions[sidOf(d)].qos = 0 /\ cr[d].code # 201
      BY <2>1, NamedSid DEF Named, HasRecord, QosInv, TypeInv, LocalInv, Committed
    <2>3. op[x].pc # "idle" => op[x].sid # sidOf(d)
      BY <2>2, UnansweredAlone
    <2> QED
      BY <2>2, <2>3 DEF TypeInv, TypeOK
  <1> QED
    BY <1>1, <1>2 DEF QosInv, OpQos, CreateQos

LEMMA QosCreateStep ==
    ASSUME TypeInv, NameInv, QosInv, NEW c \in Creates, CreateStep(c)
    PROVE  QosInv'
  <1>1. CASE CreatePolicy(c) \/ CreateCheck(c)
    BY <1>1, PolicyEffect, QosCreate DEF TypeInv, At, Committed, redisVars
  <1>2. CASE PoolLock(c)
    BY <1>2, LockEffect, QosCreate DEF TypeInv, At, Committed, redisVars
  <1>3. CASE PoolGetFree(c)
    BY <1>3, GetFreeEffect, QosCreate DEF TypeInv, At, Committed, redisVars
  <1>4. CASE PoolGetTaken(c)
    BY <1>4, GetTakenEffect, QosCreate DEF TypeInv, At, Committed, redisVars
  <1>5. CASE PoolPut(c)
    BY <1>5, PoolPutEffect, QosCreate DEF TypeInv, At, Committed
  <1>6. CASE CreateN4(c)
    BY <1>6, N4Effect, QosCreate DEF TypeInv, Committed, redisVars
  <1>7. CASE CreateStore(c)
    <2>1. /\ Alone(c) /\ Keeps(c) /\ Named(c)
          /\ \/ sessions' = [sessions EXCEPT ![sidOf(c)] = record(c)]
             \/ At(c, "undo", 0) /\ UNCHANGED sessions
      BY <1>7, StoreEffect DEF TypeInv, Named
    <2>2. sidOf(c) \in SessionIDs
      BY <2>1, NamedSid
    <2> QED
      BY <2>1, <2>2, QosCreate DEF TypeInv, TypeOK, At, Committed
  <1>8. CASE CreateUndo(c)
    BY <1>8, UndoEffect, QosCreate DEF TypeInv, At, Committed
  <1>9. CASE CommittedStep(c)
    BY <1>9, CommittedEffect, QosCreate DEF TypeInv, Named, HasRecord
  <1> QED
    BY <1>1, <1>2, <1>3, <1>4, <1>5, <1>6, <1>7, <1>8, <1>9 DEF CreateStep, CommittedStep

LEMMA QosOpStep ==
    ASSUME TypeInv, NameInv, QosInv, NEW x \in Ops, OpStep(x)
    PROVE  QosInv'
  <1>q. OpQos(x)
    BY QosParts
  <1>1. CASE UpdateGet(x) \/ ReleaseGet(x)
    <2>1. OpQos(x)'
      BY <1>1, <1>q, OpGetEffect, OpGetQos DEF TypeInv, OpQos, AddressFreed
    <2> QED
      BY <1>1, <2>1, OpGetEffect, QosOp DEF TypeInv, redisVars
  <1>2. CASE OpMove(x)
    <2>1. OpQos(x)'
      BY <1>2, <1>q, OpMoveQos DEF TypeInv, OpQos, AddressFreed
    <2> QED
      BY <1>2, <2>1, OpMoveEffect, QosOp DEF TypeInv, redisVars
  <1>3. CASE UpdatePut(x)
    <2>1. OpQos(x)'
      BY <1>3, UpdatePutEffect DEF TypeInv, OpQos, AddressFreed
    <2> QED
      BY <1>3, <2>1, UpdatePutEffect, QosOp DEF TypeInv
  <1>4. CASE ReleaseIP(x)
    <2>1. OpQos(x)'
      BY <1>4, <1>q, ReleaseIPEffect DEF TypeInv, OpQos, OpKeeps, AddressFreed
    <2> QED
      BY <1>4, <2>1, ReleaseIPEffect, QosOp DEF TypeInv
  <1>5. CASE ReleaseDelete(x)
    <2>1. OpQos(x)'
      BY <1>5, ReleaseDeleteEffect DEF TypeInv, OpQos, AddressFreed
    <2> QED
      BY <1>5, <2>1, ReleaseDeleteEffect, QosOp DEF TypeInv
  <1> QED
    BY <1>1, <1>2, <1>3, <1>4, <1>5 DEF OpStep, OpMove

LEMMA QosNext ==
    ASSUME SteadyDeployment, AddressInv, QosInv, [Next]_vars
    PROVE  QosInv'
  <1>0. TypeInv /\ NameInv
    BY DEF AddressInv, TypeInv
  <1>1. ASSUME NEW c \in Creates, NEW r \in Replicas, NEW u \in Supis, CreateStart(c, r, u)
        PROVE  QosInv'
    BY <1>0, <1>1, StartEffect, QosCreate DEF TypeInv, redisVars, Committed
  <1>2. ASSUME NEW c \in Creates, CreateStep(c) PROVE QosInv'
    BY <1>0, <1>2, QosCreateStep
  <1>3. ASSUME NEW r \in Replicas, Restart(r) PROVE FALSE
    BY <1>0, <1>3 DEF Restart, TypeInv, TypeOK, SteadyDeployment
  <1>4. ASSUME NEW x \in Ops, NEW s \in Issued,
               ReleaseStart(x, s) \/ \E q \in QoS : UpdateStart(x, s, q)
        PROVE  QosInv'
    <2>0. OpAlone(x) /\ op[x].pc = "idle" /\ UNCHANGED sessions
      BY <1>0, <1>4, OpStartEffect DEF TypeInv, redisVars
    <2>1. OpQos(x)'
      <3>1. op[x].qos = 0
        BY <2>0 DEF QosInv
      <3> QED
        BY <1>0, <1>4, <3>1, OpStartQos DEF TypeInv, OpQos, AddressFreed
    <2> QED
      BY <1>0, <2>0, <2>1, QosOp
  <1>5. ASSUME NEW x \in Ops, OpStep(x) PROVE QosInv'
    BY <1>0, <1>5, QosOpStep
  <1>6. ASSUME NEW x \in Ops, OpCrash(x) PROVE FALSE
    BY <1>6 DEF OpCrash, SteadyDeployment
  <1>7. CASE UNCHANGED vars
    BY <1>7 DEF vars, QosInv, sidOf
  <1> QED
    BY <1>1, <1>2, <1>3, <1>4, <1>5, <1>6, <1>7 DEF Next

(* In a steady deployment every reachable state satisfies the invariant    *)
(* behind the refinement: names and addresses are owned, a record has the  *)
(* policy's QoS until its create answers, and an update writes back the    *)
(* QoS its client asked for.                                               *)
THEOREM LifeCycleOwned == ASSUME SteadyDeployment PROVE Spec => []LifeCycleInv
  <1>1. Init => LifeCycleInv
    BY AddressInit, QosInit DEF LifeCycleInv
  <1>2. LifeCycleInv /\ [Next]_vars => LifeCycleInv'
    BY AddressNext, QosNext DEF LifeCycleInv
  <1> QED
    BY <1>1, <1>2, PTL DEF Spec

-----------------------------------------------------------------------------
(* Which steps a client sees.                                              *)

LEMMA QuietUnseen ==
    ASSUME UNCHANGED <<sessions, op>>
    PROVE  Unseen
  BY DEF Unseen, StatusOf, AddressOf, QosOf, Settled, Stored, Ended

\* The release that ends its session.
Ends(x) == op[x].qos = 0 /\ (op[x].pc \in AddressFreed \/ op[x].code = 200)

(* A step of an operation that frees no address, answers no release and    *)
(* writes no record.                                                       *)
LEMMA OpUnseen ==
    ASSUME NEW x \in Ops, OpAlone(x), UNCHANGED sessions,
           \/ /\ op'[x].sid = op[x].sid
              /\ op'[x].pc \in AddressFreed <=> op[x].pc \in AddressFreed
              /\ Ends(x)' <=> Ends(x)
           \/ /\ op[x].pc \notin AddressFreed /\ op'[x].pc \notin AddressFreed
              /\ ~Ends(x) /\ ~Ends(x)'
    PROVE  Unseen
  <1>1. ASSUME NEW s \in SessionIDs
        PROVE  (Settled(s)' <=> Settled(s)) /\ (Ended(s)' <=> Ended(s))
    <2>1. Settled(s)' <=> Settled(s)
      BY DEF OpAlone, Settled, Stored
    <2>2. \A t \in SessionIDs : Ended(t) <=> \E y \in Ops : op[y].sid = t /\ Ends(y)
      BY DEF Ended, Ends
    <2>3. Ended(s)' <=> \E y \in Ops : op'[y].sid = s /\ Ends(y)'
      BY DEF Ended, Ends
    <2>4. \A y \in Ops : y # x => (op'[y] = op[y] /\ (Ends(y)' <=> Ends(y)))
      BY DEF OpAlone, Ends
    <2>5. (\E y \in Ops : op'[y].sid = s /\ Ends(y)') <=> \E y \in Ops : op[y].sid = s /\ Ends(y)
      BY <2>4
    <2> QED
      BY <2>1, <2>2, <2>3, <2>5
  <1> QED
    BY <1>1 DEF Unseen, StatusOf, AddressOf, QosOf

(* A session that an operation holds a copy of, before it has freed the    *)
(* address, is settled: nobody else is releasing it.                       *)
LEMMA HeldSettled ==
    ASSUME CopyInv, NEW x \in Ops, op[x].pc \in {"uN4", "uPut", "rN4", "rIP"}
    PROVE  Settled(op[x].sid)
  <1>1. OpRuns(x) /\ Stored(op[x].sid)
    BY DEF CopyInv, OpRuns, Fetched
  <1>2. \A y \in Ops : op[y].pc \in AddressFreed => OpRuns(y)
    BY DEF OpRuns, AddressFreed
  <1> QED
    BY <1>1, <1>2 DEF CopyInv, Settled, AddressFreed

(* pdu-session-create's first write of the record is Establish.            *)
LEMMA StoreSeen ==
    ASSUME AddressInv, NEW c \in Creates, CreateStore(c)
    PROVE  [Service!Next]_(Service!vars)
  <1>0. TypeInv /\ NameInv /\ ReservationInv
    BY DEF AddressInv, TypeInv
  <1>1. Alone(c) /\ cr[c].pc = "store" /\ Named(c) /\ cr[c].code = 0 /\ ~HasRecord(c)
    BY <1>0, StoreEffect DEF TypeInv, LocalInv, Named, HasRecord, Committed
  <1>s. PICK s \in SessionIDs : s = sidOf(c)
    BY <1>0, <1>1, NamedSid
  <1>2. CASE UNCHANGED sessions
    BY <1>1, <1>2, QuietUnseen, UnseenStutters DEF Alone
  <1>3. CASE sessions' = [sessions EXCEPT ![s] = record(c)]
    <2>1. ~Stored(s)
      BY <1>0, <1>1, <1>s, NamesDiffer DEF TypeInv
    <2>2. \A x \in Ops : op[x].pc # "idle" => op[x].sid # s
      BY <1>0, <1>1, <1>s, UnansweredAlone
    <2>3. \A x \in Ops : op[x].sid = s => op[x].pc \notin AddressFreed /\ op[x].code # 200
      BY <1>0, <2>2 DEF AddressFreed, TypeInv, LocalInv
    <2>4. StatusOf(s) = "none" /\ QosOf(s) = 0
      BY <2>1, <2>3 DEF StatusOf, QosOf, Settled, Ended
    <2>5. cr[c].ip \in IPs /\ \A t \in SessionIDs : Settled(t) => sessions[t].ip # cr[c].ip
      BY <1>0, <1>1 DEF ReservationInv, Uncommitted, TypeInv, TypeOK
    <2>6. sessions'[s].ip = cr[c].ip /\ sessions'[s].qos = 0
      BY <1>0, <1>3, <2>1 DEF record, TypeInv, TypeOK
    <2>7. Settled(s)'
      <3>1. sessions'[s] # NoSession
        BY <2>5, <2>6, NoIPNotInPool DEF NoSession
      <3> QED
        BY <1>1, <2>3, <3>1 DEF Settled, Stored, Alone
    <2>8. StatusOf(s)' = "active" /\ AddressOf(s)' = cr[c].ip /\ QosOf(s)' = 0
      BY <2>6, <2>7 DEF StatusOf, AddressOf, QosOf
    <2>9. UnseenBut(s)
      BY <1>0, <1>1, <1>3
         DEF UnseenBut, StatusOf, AddressOf, QosOf, Settled, Stored, Ended, Alone, TypeInv, TypeOK
    <2> QED
      BY <2>4, <2>5, <2>8, <2>9, SeenEstablish
  <1> QED
    BY <1>0, <1>s, <1>2, <1>3, StoreEffect DEF TypeInv

(* Its later writes of the record change neither address nor QoS.          *)
LEMMA CommitUnseen ==
    ASSUME LifeCycleInv, NEW c \in Creates, CommittedStep(c)
    PROVE  Unseen
  <1>0. TypeInv /\ NameInv /\ QosInv
    BY DEF LifeCycleInv, AddressInv, TypeInv
  <1> DEFINE s == sidOf(c)
  <1>1. /\ Alone(c) /\ cr[c].pc \in Committed /\ Named(c)
        /\ sessions' = [sessions EXCEPT ![s] = record(c)] \/ UNCHANGED sessions
    BY <1>0, CommittedEffect DEF TypeInv, Named, HasRecord
  <1>2. s \in SessionIDs /\ Stored(s) /\ sessions[s].ip = cr[c].ip /\ sessions[s].qos = 0
    BY <1>0, <1>1, NamedSid DEF NameInv, QosInv
  <1>3. cr[c].ip \in IPs
    BY <1>0, <1>2 DEF NameInv
  <1>4. record(c) # NoSession /\ record(c).ip = cr[c].ip /\ record(c).qos = 0
    BY <1>3, NoIPNotInPool DEF record, NoSession
  <1>5. \A t \in SessionIDs : /\ Stored(t)' <=> Stored(t)
                              /\ sessions'[t].ip = sessions[t].ip
                              /\ sessions'[t].qos = sessions[t].qos
    BY <1>0, <1>1, <1>2, <1>4 DEF Stored, TypeInv, TypeOK
  <1> QED
    BY <1>1, <1>5 DEF Unseen, StatusOf, AddressOf, QosOf, Settled, Ended, Alone

LEMMA CreateSeen ==
    ASSUME LifeCycleInv, NEW c \in Creates, CreateStep(c)
    PROVE  [Service!Next]_(Service!vars)
  <1>1. CASE CreateStore(c)
    BY <1>1, StoreSeen DEF LifeCycleInv
  <1>2. CASE CommittedStep(c)
    BY <1>2, CommitUnseen, UnseenStutters
  <1>3. CASE UNCHANGED <<sessions, op>>
    BY <1>3, QuietUnseen, UnseenStutters
  <1> QED
    BY <1>1, <1>2, <1>3
       DEF CreateStep, CommittedStep, CreatePolicy, CreateCheck, PoolLock, PoolGetFree,
           PoolGetTaken, PoolPut, CreateN4, CreateUndo, redisVars

(* pdu-session-update's write is Modify.                                   *)
LEMMA UpdatePutSeen ==
    ASSUME LifeCycleInv, NEW x \in Ops, UpdatePut(x)
    PROVE  [Service!Next]_(Service!vars)
  <1>0. TypeInv /\ NameInv /\ CopyInv /\ QosInv
    BY DEF LifeCycleInv, AddressInv, TypeInv
  <1>s. PICK s \in SessionIDs : s = op[x].sid
    BY <1>0 DEF UpdatePut, TypeInv, LocalInv
  <1>1. /\ OpAlone(x) /\ OpKeeps(x) /\ op[x].pc = "uPut" /\ op'[x].pc = "done"
        /\ \/ op'[x].code = 200 /\ sessions' = [sessions EXCEPT ![s] = op[x].rec]
           \/ op'[x].code = 500 /\ UNCHANGED sessions
    BY <1>0, <1>s, UpdatePutEffect DEF TypeInv
  <1>2. /\ op[x].qos \in QoS /\ op[x].qos # 0 /\ op'[x].qos # 0
        /\ op[x].rec.qos = op[x].qos /\ op'[x].sid = s
    BY <1>0, <1>1, <1>s, ConstantsAssumption DEF QosInv, OpKeeps
  <1>3. op[x].pc \notin AddressFreed /\ op'[x].pc \notin AddressFreed
    BY <1>1 DEF AddressFreed
  <1>4. CASE UNCHANGED sessions
    BY <1>1, <1>2, <1>3, <1>4, <1>s, OpUnseen, UnseenStutters DEF Ends
  <1>5. CASE sessions' = [sessions EXCEPT ![s] = op[x].rec]
    <2>1. Settled(s) /\ op[x].rec.ip = sessions[s].ip /\ sessions[s].ip \in IPs
      BY <1>0, <1>1, <1>s, HeldSettled DEF CopyInv, Fetched, NameInv
    <2>2. op[x].rec # NoSession
      BY <2>1, NoIPNotInPool DEF NoSession
    <2>3. sessions'[s] = op[x].rec /\ \A t \in SessionIDs \ {s} : sessions'[t] = sessions[t]
      BY <1>0, <1>5, <2>1 DEF TypeInv, TypeOK
    <2>4. Settled(s)' /\ \A t \in SessionIDs : Settled(t)' <=> Settled(t)
      BY <1>1, <1>2, <1>3, <1>s, <2>1, <2>2, <2>3 DEF Settled, Stored, OpAlone
    <2>5. \A t \in SessionIDs : Ended(t)' <=> Ended(t)
      BY <1>1, <1>2 DEF Ended, OpAlone
    <2>6. UnseenBut(s)
      BY <2>3, <2>4, <2>5 DEF UnseenBut, StatusOf, AddressOf, QosOf
    <2>7. /\ StatusOf(s) = "active" /\ StatusOf(s)' = "active"
          /\ AddressOf(s)' = AddressOf(s) /\ QosOf(s)' = op[x].qos
      BY <1>2, <2>1, <2>3, <2>4 DEF StatusOf, AddressOf, QosOf
    <2> QED
      BY <1>2, <2>1, <2>6, <2>7, SeenModify
  <1> QED
    BY <1>1, <1>4, <1>5

(* pdu-session-release ends the session when it frees the address ...      *)
LEMMA ReleaseIPSeen ==
    ASSUME LifeCycleInv, NEW x \in Ops, ReleaseIP(x)
    PROVE  [Service!Next]_(Service!vars)
  <1>0. TypeInv /\ CopyInv /\ QosInv
    BY DEF LifeCycleInv, AddressInv, TypeInv
  <1>s. PICK s \in SessionIDs : s = op[x].sid
    BY <1>0 DEF ReleaseIP, TypeInv, LocalInv
  <1>1. /\ OpAlone(x) /\ OpKeeps(x) /\ op[x].pc = "rIP" /\ op'[x].pc \in AddressFreed
        /\ op'[x].code = op[x].code /\ UNCHANGED sessions
    BY <1>0, ReleaseIPEffect DEF TypeInv
  <1>2. Settled(s) /\ op'[x].sid = s /\ op'[x].qos = 0
    BY <1>0, <1>1, <1>s, HeldSettled DEF QosInv, OpKeeps
  <1>3. ~Settled(s)' /\ Ended(s)'
    BY <1>1, <1>2 DEF Settled, Ended
  <1>4. \A t \in SessionIDs \ {s} : (Settled(t)' <=> Settled(t)) /\ (Ended(t)' <=> Ended(t))
    BY <1>1, <1>2, <1>s DEF Settled, Stored, Ended, OpAlone
  <1>5. UnseenBut(s)
    BY <1>1, <1>4 DEF UnseenBut, StatusOf, AddressOf, QosOf
  <1>6. /\ StatusOf(s) = "active" /\ StatusOf(s)' = "ended"
        /\ AddressOf(s)' = NoIP /\ QosOf(s)' = 0
    BY <1>2, <1>3 DEF StatusOf, AddressOf, QosOf
  <1> QED
    BY <1>5, <1>6, SeenEnd

(* ... and deleting the record later is not seen.                          *)
LEMMA ReleaseDeleteUnseen ==
    ASSUME SteadyDeployment, LifeCycleInv, NEW x \in Ops, ReleaseDelete(x)
    PROVE  Unseen
  <1>0. TypeInv /\ QosInv
    BY DEF LifeCycleInv, AddressInv, TypeInv
  <1>s. PICK s \in SessionIDs : s = op[x].sid
    BY <1>0 DEF ReleaseDelete, TypeInv, LocalInv
  <1>1. /\ OpAlone(x) /\ OpKeeps(x) /\ op[x].pc = "rDel" /\ op'[x].pc = "done"
        /\ op'[x].code = 200 /\ sessions' = [sessions EXCEPT ![s] = NoSession]
    BY <1>0, <1>s, ReleaseDeleteEffect DEF TypeInv, SteadyDeployment
  <1>2. /\ op'[x].sid = s /\ op'[x].qos = 0 /\ op[x].qos = 0
        /\ op[x].pc \in AddressFreed
    BY <1>0, <1>1, <1>s DEF QosInv, OpKeeps, AddressFreed
  <1>3. ~Settled(s) /\ Ended(s) /\ Ended(s)'
    BY <1>1, <1>2, <1>s DEF Settled, Ended
  <1>4. ~Settled(s)'
    BY <1>0, <1>1, <1>2 DEF Settled, Stored, TypeInv, TypeOK
  <1>5. \A t \in SessionIDs \ {s} : /\ Settled(t)' <=> Settled(t)
                                    /\ Ended(t)' <=> Ended(t)
                                    /\ sessions'[t] = sessions[t]
    BY <1>0, <1>1, <1>2, <1>s DEF Settled, Stored, Ended, OpAlone, TypeInv, TypeOK
  <1> QED
    BY <1>3, <1>4, <1>5 DEF Unseen, StatusOf, AddressOf, QosOf

LEMMA OpSeen ==
    ASSUME SteadyDeployment, LifeCycleInv, NEW x \in Ops, OpStep(x)
    PROVE  [Service!Next]_(Service!vars)
  <1>0. TypeInv
    BY DEF LifeCycleInv, AddressInv, TypeInv
  <1>1. CASE UpdateGet(x) \/ ReleaseGet(x)
    <2>1. /\ OpAlone(x) /\ UNCHANGED sessions
          /\ op[x].pc \notin AddressFreed /\ op'[x].pc \notin AddressFreed
          /\ op[x].code # 200 /\ op'[x].code # 200
      BY <1>0, <1>1, OpGetEffect DEF TypeInv, LocalInv, redisVars, AddressFreed
    <2> QED
      BY <2>1, OpUnseen, UnseenStutters DEF Ends
  <1>2. CASE OpMove(x)
    <2>1. /\ OpAlone(x) /\ OpKeeps(x) /\ UNCHANGED sessions
          /\ op'[x].pc \in AddressFreed <=> op[x].pc \in AddressFreed
          /\ op[x].code # 200 /\ op'[x].code # 200
      BY <1>0, <1>2, OpMoveEffect DEF TypeInv, LocalInv, redisVars, AddressFreed, Fetched
    <2> QED
      BY <2>1, OpUnseen, UnseenStutters DEF Ends, OpKeeps
  <1>3. CASE ReleaseDelete(x)
    BY <1>3, ReleaseDeleteUnseen, UnseenStutters
  <1> QED
    BY <1>1, <1>2, <1>3, UpdatePutSeen, ReleaseIPSeen DEF OpStep, OpMove

LEMMA ServiceInit == Init => Service!Init
  BY DEF Init, Service!Init, Settled, Stored, Ended, IdleOp, AddressFreed

LEMMA ServiceNext ==
    ASSUME SteadyDeployment, LifeCycleInv, [Next]_vars
    PROVE  [Service!Next]_(Service!vars)
  <1>0. TypeInv
    BY DEF LifeCycleInv, AddressInv, TypeInv
  <1>1. ASSUME NEW c \in Creates, NEW r \in Replicas, NEW u \in Supis, CreateStart(c, r, u)
        PROVE  UNCHANGED <<sessions, op>>
    BY <1>1 DEF CreateStart, redisVars
  <1>2. ASSUME NEW r \in Replicas, Restart(r) PROVE FALSE
    BY <1>0, <1>2 DEF Restart, TypeInv, TypeOK, SteadyDeployment
  <1>3. ASSUME NEW x \in Ops, NEW s \in Issued,
               ReleaseStart(x, s) \/ \E q \in QoS : UpdateStart(x, s, q)
        PROVE  Unseen
    <2>1. /\ OpAlone(x) /\ UNCHANGED sessions
          /\ op[x].pc \notin AddressFreed /\ op'[x].pc \notin AddressFreed
          /\ op[x].code # 200 /\ op'[x].code # 200
      BY <1>0, <1>3, OpStartEffect DEF TypeInv, LocalInv, redisVars, AddressFreed
    <2> QED
      BY <2>1, OpUnseen DEF Ends
  <1>4. ASSUME NEW x \in Ops, OpCrash(x) PROVE FALSE
    BY <1>4 DEF OpCrash, SteadyDeployment
  <1>5. CASE UNCHANGED vars
    BY <1>5, QuietUnseen, UnseenStutters DEF vars
  <1> QED
    BY <1>1, <1>2, <1>3, <1>4, <1>5, CreateSeen, OpSeen, QuietUnseen, UnseenStutters DEF Next

(* In a steady deployment the create, update and release handlers, in any  *)
(* number, however interleaved and at whichever write, PFCP or SBI call    *)
(* they fail, implement SessionService: a session is established once,     *)
(* keeps its own address while it is modified, and ends for good.          *)
THEOREM HandlersImplementService == ASSUME SteadyDeployment PROVE Spec => ImplementsService
  <1>1. LifeCycleInv /\ [Next]_vars => [Service!Next]_(Service!vars)
    BY ServiceNext
  <1> QED
    BY <1>1, ServiceInit, LifeCycleOwned, PTL DEF Spec, ImplementsService, Service!Spec
=============================================================================
