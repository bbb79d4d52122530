-------------------------- MODULE Charging_proofs ---------------------------
(***************************************************************************)
(* Proofs about Charging.                                                  *)
(***************************************************************************)
EXTENDS Charging, FiniteSetTheorems, TLAPS

-----------------------------------------------------------------------------
(* What a request knows of itself: which commands its kind has, that it    *)
(* names a session once it has begun and holds one once it has read it,    *)
(* and that it is not answered before it ends.                             *)

Known(x) ==
    /\ req[x].pc = "idle" => req[x].kind = "none" /\ req[x].code = 0
    /\ req[x].pc # "idle" => req[x].id \in ChargingIDs /\ req[x].kind # "none"
    /\ req[x].pc = "cPut" => req[x].kind = "create"
    /\ req[x].pc \in {"uGet", "uPut"} => req[x].kind = "update"
    /\ req[x].pc \in {"rGet", "rPut", "rDel"} => req[x].kind = "release"
    /\ req[x].pc \in {"uPut", "rPut", "rDel"} => req[x].ses \in ChargingSession
    /\ Runs(x) => req[x].code = 0
    /\ req[x].code = 201 => req[x].kind = "create" /\ req[x].pc = "done"

TypeInv == TypeOK /\ \A x \in Reqs : Known(x)

-----------------------------------------------------------------------------
(* What each step does, without the EXCEPTs.                               *)

\* Request x alone goes on, to pc, with this code and this copy in hand.
Alone(x) ==
    /\ req' \in [Reqs -> Request]
    /\ \A y \in Reqs : y # x => req'[y] = req[y]
Acts(x, pc, code, s) ==
    /\ Alone(x)
    /\ req'[x].kind = req[x].kind /\ req'[x].id = req[x].id /\ req'[x].vol = req[x].vol
    /\ req'[x].pc = pc /\ req'[x].code = code /\ req'[x].ses = s

Codes == {0, 200, 201, 404, 500}

LEMMA SetPC ==
    ASSUME NEW r \in Request, NEW pc \in PC
    PROVE  LET v == [r EXCEPT !.pc = pc] IN
           /\ v \in Request /\ v.pc = pc /\ v.kind = r.kind /\ v.id = r.id
           /\ v.vol = r.vol /\ v.code = r.code /\ v.ses = r.ses
  BY DEF Request

LEMMA SetCode ==
    ASSUME NEW r \in Request, NEW code \in Codes
    PROVE  LET v == [r EXCEPT !.code = code] IN
           /\ v \in Request /\ v.code = code /\ v.kind = r.kind /\ v.id = r.id
           /\ v.vol = r.vol /\ v.pc = r.pc /\ v.ses = r.ses
  BY DEF Request, Codes

LEMMA SetSes ==
    ASSUME NEW r \in Request, NEW s \in ChargingSession \cup {NoSession}
    PROVE  LET v == [r EXCEPT !.ses = s] IN
           /\ v \in Request /\ v.ses = s /\ v.kind = r.kind /\ v.id = r.id
           /\ v.vol = r.vol /\ v.pc = r.pc /\ v.code = r.code
  BY DEF Request

LEMMA SetKind ==
    ASSUME NEW r \in Request, NEW kind \in Kinds
    PROVE  LET v == [r EXCEPT !.kind = kind] IN
           /\ v \in Request /\ v.kind = kind /\ v.ses = r.ses /\ v.id = r.id
           /\ v.vol = r.vol /\ v.pc = r.pc /\ v.code = r.code
  BY DEF Request

LEMMA SetID ==
    ASSUME NEW r \in Request, NEW i \in ChargingIDs
    PROVE  LET v == [r EXCEPT !.id = i] IN
           /\ v \in Request /\ v.id = i /\ v.kind = r.kind /\ v.ses = r.ses
           /\ v.vol = r.vol /\ v.pc = r.pc /\ v.code = r.code
  BY DEF Request

LEMMA SetVol ==
    ASSUME NEW r \in Request, NEW n \in Volumes \cup {0}
    PROVE  LET v == [r EXCEPT !.vol = n] IN
           /\ v \in Request /\ v.vol = n /\ v.kind = r.kind /\ v.id = r.id
           /\ v.ses = r.ses /\ v.pc = r.pc /\ v.code = r.code
  BY DEF Request

LEMMA SetRequest ==
    ASSUME TypeOK, NEW x \in Reqs, NEW v \in Request, req' = [req EXCEPT ![x] = v]
    PROVE  Alone(x) /\ req'[x] = v
  BY DEF TypeOK, Alone

LEMMA AtEffect ==
    ASSUME TypeOK, NEW x \in Reqs, NEW pc \in PC, req' = At(x, pc)
    PROVE  Acts(x, pc, req[x].code, req[x].ses)
  <1> DEFINE v == [req[x] EXCEPT !.pc = pc]
  <1>1. req[x] \in Request
    BY DEF TypeOK
  <1>2. /\ v \in Request /\ v.pc = pc /\ v.kind = req[x].kind /\ v.id = req[x].id
        /\ v.vol = req[x].vol /\ v.code = req[x].code /\ v.ses = req[x].ses
    BY <1>1, SetPC
  <1>3. req' = [req EXCEPT ![x] = v]
    BY DEF TypeOK, At
  <1> HIDE DEF v
  <1> QED
    BY <1>2, <1>3, SetRequest DEF Acts

LEMMA ReplyEffect ==
    ASSUME TypeOK, NEW x \in Reqs, NEW code \in Codes, req' = Reply(x, code)
    PROVE  Acts(x, "done", code, req[x].ses)
  <1> DEFINE w == [req[x] EXCEPT !.pc = "done"]
             v == [w EXCEPT !.code = code]
  <1>1. req[x] \in Request /\ "done" \in PC /\ DOMAIN req = Reqs
    BY DEF TypeOK, PC
  <1>2. /\ w \in Request /\ w.pc = "done" /\ w.kind = req[x].kind /\ w.id = req[x].id
        /\ w.vol = req[x].vol /\ w.code = req[x].code /\ w.ses = req[x].ses
    BY <1>1, SetPC
  <1>3. req' = [req EXCEPT ![x] = v]
    BY <1>1, Zenon DEF Reply
  <1> HIDE DEF w
  <1>4. /\ v \in Request /\ v.code = code /\ v.kind = w.kind /\ v.id = w.id
        /\ v.vol = w.vol /\ v.pc = w.pc /\ v.ses = w.ses
    BY <1>2, SetCode
  <1> HIDE DEF v
  <1> QED
    BY <1>2, <1>3, <1>4, SetRequest DEF Acts

LEMMA CopyEffect ==
    ASSUME TypeOK, NEW x \in Reqs, NEW pc \in PC, NEW s \in ChargingSession,
           req' = [req EXCEPT ![x].pc = pc, ![x].ses = s]
    PROVE  Acts(x, pc, req[x].code, s)
  <1> DEFINE w == [req[x] EXCEPT !.pc = pc]
             v == [w EXCEPT !.ses = s]
  <1>1. req[x] \in Request /\ DOMAIN req = Reqs
    BY DEF TypeOK
  <1>2. /\ w \in Request /\ w.pc = pc /\ w.kind = req[x].kind /\ w.id = req[x].id
        /\ w.vol = req[x].vol /\ w.code = req[x].code /\ w.ses = req[x].ses
    BY <1>1, SetPC, Zenon
  <1>3. req' = [req EXCEPT ![x] = v]
    BY <1>1, Zenon
  <1> HIDE DEF w
  <1>4. /\ v \in Request /\ v.ses = s /\ v.kind = w.kind /\ v.id = w.id
        /\ v.vol = w.vol /\ v.pc = w.pc /\ v.code = w.code
    BY <1>2, SetSes, Zenon
  <1> HIDE DEF v
  <1>5. Alone(x) /\ req'[x] = v
    BY <1>3, <1>4, SetRequest, Zenon
  <1> QED
    BY <1>2, <1>4, <1>5, Zenon DEF Acts

LEMMA CreateStartEffect ==
    ASSUME TypeOK, NEW x \in Reqs, NEW u \in Supis, CreateStart(x, u)
    PROVE  /\ Alone(x) /\ req[x].pc = "idle"
           /\ req'[x].kind = "create" /\ req'[x].pc = "cPut"
           /\ req'[x].id = <<u, chargingCounter + 1>> /\ req'[x].id \in ChargingIDs
           /\ req'[x].code = req[x].code
           /\ chargingCounter' = chargingCounter + 1 /\ chargingCounter' \in 0 .. MaxID
           /\ UNCHANGED <<sessions, records, restarts>>
  <1> DEFINE i == <<u, chargingCounter + 1>>
             w1 == [req[x] EXCEPT !.kind = "create"]
             w2 == [w1 EXCEPT !.pc = "cPut"]
             v == [w2 EXCEPT !.id = i]
  <1>1. req[x] \in Request /\ DOMAIN req = Reqs /\ "create" \in Kinds /\ "cPut" \in PC
    BY DEF TypeOK, Kinds, PC
  <1>2. /\ i \in ChargingIDs /\ chargingCounter + 1 \in 0 .. MaxID
        /\ req[x].pc = "idle" /\ chargingCounter' = chargingCounter + 1
        /\ UNCHANGED <<sessions, records, restarts>>
    <2>1. chargingCounter < MaxID /\ req[x].pc = "idle" /\ chargingCounter' = chargingCounter + 1
          /\ UNCHANGED <<sessions, records, restarts>>
      BY Zenon DEF CreateStart
    <2>2. chargingCounter \in 0 .. MaxID
      BY DEF TypeOK
    <2> QED
      BY <2>1, <2>2, ConstantsAssumption DEF ChargingIDs
  <1>3. req' = [req EXCEPT ![x] = v]
    BY <1>1, Zenon DEF CreateStart
  <1> HIDE DEF i
  <1>4. /\ w1 \in Request /\ w1.kind = "create" /\ w1.code = req[x].code
    BY <1>1, SetKind
  <1> HIDE DEF w1
  <1>5. w2 \in Request /\ w2.kind = w1.kind /\ w2.pc = "cPut" /\ w2.code = w1.code
    BY <1>1, <1>4, SetPC
  <1> HIDE DEF w2
  <1>6. v \in Request /\ v.kind = w2.kind /\ v.pc = w2.pc /\ v.id = i /\ v.code = w2.code
    BY <1>2, <1>5, SetID
  <1> HIDE DEF v
  <1>7. Alone(x) /\ req'[x] = v
    BY <1>3, <1>6, SetRequest
  <1>8. req'[x].id = <<u, chargingCounter + 1>>
    BY <1>6, <1>7 DEF i
  <1> QED
    BY <1>2, <1>4, <1>5, <1>6, <1>7, <1>8

LEMMA StartEffect ==
    ASSUME TypeOK, NEW x \in Reqs, NEW kind \in Kinds, NEW i \in ChargingIDs,
           NEW n \in Volumes \cup {0}, NEW pc \in PC, Start(x, kind, i, n, pc)
    PROVE  /\ Alone(x) /\ req[x].pc = "idle"
           /\ req'[x].kind = kind /\ req'[x].pc = pc /\ req'[x].id = i
           /\ req'[x].code = req[x].code
           /\ Serial => ~Busy(i)
           /\ UNCHANGED <<sessions, records, chargingCounter, restarts>>
  <1> DEFINE w1 == [req[x] EXCEPT !.kind = kind]
             w2 == [w1 EXCEPT !.pc = pc]
             w3 == [w2 EXCEPT !.id = i]
             v == [w3 EXCEPT !.vol = n]
  <1>1. req[x] \in Request /\ DOMAIN req = Reqs
    BY DEF TypeOK
  <1>2. /\ req[x].pc = "idle"
        /\ Serial => ~Busy(i)
        /\ UNCHANGED <<sessions, records, chargingCounter, restarts>>
    BY Zenon DEF Start
  <1>3. req' = [req EXCEPT ![x] = v]
    BY <1>1, Zenon DEF Start
  <1>4. /\ w1 \in Request /\ w1.kind = kind /\ w1.code = req[x].code
    BY <1>1, SetKind
  <1> HIDE DEF w1
  <1>5. w2 \in Request /\ w2.kind = w1.kind /\ w2.pc = pc /\ w2.code = w1.code
    BY <1>1, <1>4, SetPC
  <1> HIDE DEF w2
  <1>6. w3 \in Request /\ w3.kind = w2.kind /\ w3.pc = w2.pc /\ w3.id = i /\ w3.code = w2.code
    BY <1>5, SetID
  <1> HIDE DEF w3
  <1>7. v \in Request /\ v.kind = w3.kind /\ v.pc = w3.pc /\ v.id = w3.id /\ v.code = w3.code
    BY <1>6, SetVol
  <1> HIDE DEF v
  <1>8. Alone(x) /\ req'[x] = v
    BY <1>3, <1>7, SetRequest
  <1> QED
    BY <1>2, <1>4, <1>5, <1>6, <1>7, <1>8

\* A request fails and leaves everything as it was.
Fails(x) ==
    /\ \/ \E code \in {404, 500} : Acts(x, "done", code, req[x].ses)
       \/ Acts(x, "crashed", req[x].code, req[x].ses)
    /\ UNCHANGED <<sessions, records>>
\* A request has done its work.
Answered(x, code) ==
    \/ Acts(x, "done", code, req[x].ses)
    \/ Acts(x, "lost", req[x].code, req[x].ses)

LEMMA AnswerEffect ==
    ASSUME TypeOK, NEW x \in Reqs, NEW code \in {200, 201}, Answer(x, code)
    PROVE  Answered(x, code)
  BY AtEffect, ReplyEffect DEF Answer, Answered, PC, Codes

LEMMA FailEffect ==
    ASSUME TypeOK, NEW x \in Reqs, NEW code \in {404, 500}, req' = Reply(x, code),
           UNCHANGED <<sessions, records>>
    PROVE  Fails(x)
  BY ReplyEffect DEF Fails, Codes

LEMMA CreatePutEffect ==
    ASSUME TypeOK, NEW x \in Reqs, CreatePut(x)
    PROVE  /\ req[x].pc = "cPut"
           /\ \/ /\ sessions' = [sessions EXCEPT ![req[x].id] = Opened]
                 /\ Answered(x, 201)
                 /\ UNCHANGED records
              \/ Fails(x)
           /\ UNCHANGED <<chargingCounter, restarts>>
  BY AnswerEffect, FailEffect DEF CreatePut, Store

LEMMA ChargeType ==
    ASSUME NEW s \in ChargingSession, NEW n \in Nat
    PROVE  /\ Charge(s, n) \in ChargingSession
           /\ Charge(s, n).used = s.used + n
           /\ s.used + n > s.granted => Charge(s, n).granted = s.granted + QuotaIncrement
           /\ ~(s.used + n > s.granted) => Charge(s, n).granted = s.granted
  BY ConstantsAssumption DEF ChargingSession, Charge

LEMMA GetEffect ==
    ASSUME TypeInv, NEW x \in Reqs, NEW from, NEW to \in PC, NEW s,
           sessions[req[x].id] # NoSession => s \in ChargingSession, Get(x, from, to, s)
    PROVE  /\ req[x].pc = from
           /\ \/ /\ sessions[req[x].id] # NoSession
                 /\ Acts(x, to, req[x].code, s)
                 /\ UNCHANGED <<sessions, records>>
              \/ Fails(x)
           /\ UNCHANGED <<chargingCounter, restarts>>
  <1>0. TypeOK /\ req[x].pc = from /\ UNCHANGED <<sessions, records, chargingCounter, restarts>>
    BY Zenon DEF Get, TypeInv
  <1>1. CASE /\ sessions[req[x].id] # NoSession
             /\ req' = [req EXCEPT ![x].pc = to, ![x].ses = s]
    BY <1>0, <1>1, CopyEffect, Zenon
  <1>2. CASE req' = Reply(x, 404)
    BY <1>0, <1>2, FailEffect
  <1>3. CASE req' = Reply(x, 500)
    BY <1>0, <1>3, FailEffect
  <1> QED
    BY <1>1, <1>2, <1>3, Zenon DEF Get

LEMMA VolumeType ==
    ASSUME TypeOK, NEW x \in Reqs
    PROVE  req[x].vol \in Volumes \cup {0} /\ req[x].vol \in Nat
  <1> DEFINE n == req[x].vol
  <1>1. n \in Volumes \cup {0}
    BY DEF TypeOK, Request
  <1> HIDE DEF n
  <1>2. n \in Nat
    BY <1>1, ConstantsAssumption
  <1> QED
    BY <1>1, <1>2 DEF n

LEMMA ReadSession ==
    ASSUME TypeInv, NEW x \in Reqs, req[x].pc # "idle", sessions[req[x].id] # NoSession
    PROVE  sessions[req[x].id] \in ChargingSession /\ req[x].vol \in Nat
  <1>1. req[x] \in Request /\ req[x].id \in ChargingIDs
    BY DEF TypeInv, TypeOK, Known
  <1>2. req[x].vol \in Nat
    BY VolumeType DEF TypeInv
  <1> QED
    BY <1>1, <1>2 DEF TypeInv, TypeOK

LEMMA UpdateGetEffect ==
    ASSUME TypeInv, NEW x \in Reqs, UpdateGet(x)
    PROVE  /\ req[x].pc = "uGet"
           /\ \/ /\ sessions[req[x].id] # NoSession
                 /\ Acts(x, "uPut", req[x].code, Charge(sessions[req[x].id], req[x].vol))
                 /\ UNCHANGED <<sessions, records>>
              \/ Fails(x)
           /\ UNCHANGED <<chargingCounter, restarts>>
  <1> DEFINE s == Charge(sessions[req[x].id], req[x].vol)
  <1>1. req[x].pc = "uGet" /\ "uPut" \in PC
    BY DEF UpdateGet, Get, PC
  <1>2. sessions[req[x].id] # NoSession => s \in ChargingSession
    BY <1>1, ReadSession, ChargeType
  <1>3. Get(x, "uGet", "uPut", s)
    BY DEF UpdateGet
  <1> HIDE DEF s
  <1>4. /\ req[x].pc = "uGet"
        /\ \/ /\ sessions[req[x].id] # NoSession
              /\ Acts(x, "uPut", req[x].code, s)
              /\ UNCHANGED <<sessions, records>>
           \/ Fails(x)
        /\ UNCHANGED <<chargingCounter, restarts>>
    BY <1>1, <1>2, <1>3, GetEffect, Zenon
  <1> QED
    BY <1>4, Zenon DEF s

LEMMA ReleaseGetEffect ==
    ASSUME TypeInv, NEW x \in Reqs, ReleaseGet(x)
    PROVE  /\ req[x].pc = "rGet"
           /\ \/ /\ sessions[req[x].id] # NoSession
                 /\ Acts(x, "rPut", req[x].code, sessions[req[x].id])
                 /\ UNCHANGED <<sessions, records>>
              \/ Fails(x)
           /\ UNCHANGED <<chargingCounter, restarts>>
  <1>1. req[x].pc = "rGet" /\ "rPut" \in PC
    BY DEF ReleaseGet, Get, PC
  <1>2. sessions[req[x].id] # NoSession => sessions[req[x].id] \in ChargingSession
    BY <1>1, ReadSession
  <1> QED
    BY <1>1, <1>2, GetEffect, Zenon DEF ReleaseGet

LEMMA UpdatePutEffect ==
    ASSUME TypeOK, NEW x \in Reqs, UpdatePut(x)
    PROVE  /\ req[x].pc = "uPut"
           /\ \/ /\ sessions' = [sessions EXCEPT ![req[x].id] = req[x].ses]
                 /\ Answered(x, 200)
                 /\ UNCHANGED records
              \/ Fails(x)
           /\ UNCHANGED <<chargingCounter, restarts>>
  BY AnswerEffect, FailEffect DEF UpdatePut, Store

LEMMA ReleasePutEffect ==
    ASSUME TypeOK, NEW x \in Reqs, ReleasePut(x)
    PROVE  /\ req[x].pc = "rPut"
           /\ \/ /\ records' = [records EXCEPT ![req[x].id] = req[x].ses.used]
                 /\ Acts(x, "rDel", req[x].code, req[x].ses)
                 /\ UNCHANGED sessions
              \/ Fails(x)
           /\ UNCHANGED <<chargingCounter, restarts>>
  BY AtEffect, FailEffect DEF ReleasePut, PC

LEMMA ReleaseDeleteEffect ==
    ASSUME TypeOK, NEW x \in Reqs, ReleaseDelete(x)
    PROVE  /\ req[x].pc = "rDel"
           /\ \/ /\ sessions' = [sessions EXCEPT ![req[x].id] = NoSession]
                 /\ Answered(x, 200)
                 /\ UNCHANGED records
              \/ Fails(x)
           /\ UNCHANGED <<chargingCounter, restarts>>
  BY AnswerEffect, FailEffect DEF ReleaseDelete, Store

LEMMA CrashEffect ==
    ASSUME TypeOK, NEW x \in Reqs, Crash(x)
    PROVE  Runs(x) /\ Fails(x) /\ UNCHANGED <<chargingCounter, restarts>>
  BY AtEffect DEF Crash, Fails, PC

\* What Restart does to a request.
Restarts(x) ==
    /\ req'[x].kind = req[x].kind /\ req'[x].id = req[x].id /\ req'[x].vol = req[x].vol
    /\ req'[x].code = req[x].code /\ req'[x].ses = req[x].ses
    /\ req[x].pc # "cPut" => req'[x].pc = req[x].pc
    /\ req[x].pc = "cPut" => req'[x].pc = "crashed"

LEMMA RestartEffect ==
    ASSUME TypeOK, Restart
    PROVE  /\ req' \in [Reqs -> Request] /\ \A x \in Reqs : Restarts(x)
           /\ chargingCounter' = 0 /\ restarts' = restarts + 1 /\ restarts' \in 0 .. MaxRestarts
           /\ UNCHANGED <<sessions, records>>
  <1> DEFINE v(x) == IF req[x].pc = "cPut" THEN [req[x] EXCEPT !.pc = "crashed"] ELSE req[x]
  <1>1. ASSUME NEW x \in Reqs
        PROVE  /\ v(x) \in Request /\ v(x).kind = req[x].kind /\ v(x).id = req[x].id
               /\ v(x).vol = req[x].vol /\ v(x).code = req[x].code /\ v(x).ses = req[x].ses
               /\ req[x].pc # "cPut" => v(x).pc = req[x].pc
               /\ req[x].pc = "cPut" => v(x).pc = "crashed"
    <2>1. req[x] \in Request /\ "crashed" \in PC
      BY DEF TypeOK, PC
    <2> QED
      BY <2>1, SetPC
  <1>2. req' = [x \in Reqs |-> v(x)]
    BY DEF Restart
  <1> HIDE DEF v
  <1>3. req' \in [Reqs -> Request] /\ \A x \in Reqs : Restarts(x)
    BY <1>1, <1>2 DEF Restarts
  <1> QED
    BY <1>3, ConstantsAssumption DEF Restart, TypeOK

-----------------------------------------------------------------------------
(* Type correctness.                                                       *)

LEMMA TypeInit == Init => TypeInv
  BY ConstantsAssumption
     DEF Init, TypeInv, TypeOK, Known, Runs, Idle, Request, Kinds, PC, NoSession, NoRecord

\* A request that alone goes on keeps the others' knowledge.
LEMMA KnownAlone ==
    ASSUME TypeInv, NEW x \in Reqs, Alone(x), Known(x)'
    PROVE  \A y \in Reqs : Known(y)'
  BY DEF TypeInv, Alone, Known, Runs

LEMMA KnownEnds ==
    ASSUME TypeInv, NEW x \in Reqs, Runs(x), Fails(x) \/ Answered(x, 200)
    PROVE  Alone(x) /\ Known(x)'
  <1>1. req[x].id \in ChargingIDs /\ req[x].kind # "none" /\ req[x].code = 0
    BY DEF TypeInv, Known, Runs
  <1> QED
    BY <1>1 DEF Fails, Answered, Acts, Known, Runs

LEMMA TypeStep ==
    ASSUME TypeInv, NEW x \in Reqs, Step(x)
    PROVE  TypeInv' /\ Alone(x) /\ Runs(x)
  <1>0. TypeOK /\ Known(x) /\ req[x] \in Request
    BY DEF TypeInv, TypeOK
  <1>1. ASSUME Alone(x), Known(x)', UNCHANGED <<chargingCounter, restarts>>,
               sessions' \in [ChargingIDs -> ChargingSession \cup {NoSession}],
               records' \in [ChargingIDs -> Nat \cup {NoRecord}]
        PROVE  TypeInv'
    BY <1>0, <1>1, KnownAlone DEF TypeInv, TypeOK, Alone
  <1>2. ASSUME Runs(x), Fails(x), UNCHANGED <<chargingCounter, restarts>>
        PROVE  TypeInv' /\ Alone(x)
    BY <1>0, <1>1, <1>2, KnownEnds DEF Fails, TypeOK
  <1>3. CASE CreatePut(x)
    <2>1. req[x].pc = "cPut" /\ Runs(x) /\ UNCHANGED <<chargingCounter, restarts>>
      BY <1>0, <1>3, CreatePutEffect DEF Runs
    <2>2. CASE /\ sessions' = [sessions EXCEPT ![req[x].id] = Opened]
               /\ Answered(x, 201) /\ UNCHANGED records
      <3>1. Alone(x) /\ Known(x)'
        BY <1>0, <2>1, <2>2 DEF Answered, Acts, Known, Runs
      <3>2. Opened \in ChargingSession
        BY ConstantsAssumption DEF Opened, ChargingSession
      <3> QED
        BY <1>0, <1>1, <2>1, <2>2, <3>1, <3>2 DEF TypeOK
    <2> QED
      BY <1>0, <1>2, <1>3, <2>1, <2>2, CreatePutEffect
  <1>4. CASE UpdateGet(x)
    <2>1. req[x].pc = "uGet" /\ Runs(x) /\ UNCHANGED <<chargingCounter, restarts>>
      BY <1>4, UpdateGetEffect DEF Runs
    <2> DEFINE s == Charge(sessions[req[x].id], req[x].vol)
    <2>2. CASE /\ sessions[req[x].id] # NoSession /\ Acts(x, "uPut", req[x].code, s)
               /\ UNCHANGED <<sessions, records>>
      <3>1. s \in ChargingSession
        BY <2>1, <2>2, ReadSession, ChargeType
      <3> HIDE DEF s
      <3>2. Alone(x) /\ Known(x)'
        BY <1>0, <2>1, <2>2, <3>1 DEF Acts, Known, Runs
      <3> QED
        BY <1>0, <1>1, <2>1, <2>2, <3>2 DEF TypeOK
    <2> QED
      BY <1>2, <1>4, <2>1, <2>2, UpdateGetEffect
  <1>5. CASE UpdatePut(x)
    <2>1. req[x].pc = "uPut" /\ Runs(x) /\ UNCHANGED <<chargingCounter, restarts>>
      BY <1>0, <1>5, UpdatePutEffect DEF Runs
    <2>2. CASE /\ sessions' = [sessions EXCEPT ![req[x].id] = req[x].ses]
               /\ Answered(x, 200) /\ UNCHANGED records
      BY <1>0, <1>1, <2>1, <2>2, KnownEnds DEF TypeOK, Known
    <2> QED
      BY <1>0, <1>2, <1>5, <2>1, <2>2, UpdatePutEffect
  <1>6. CASE ReleaseGet(x)
    <2>1. req[x].pc = "rGet" /\ Runs(x) /\ UNCHANGED <<chargingCounter, restarts>>
      BY <1>6, ReleaseGetEffect DEF Runs
    <2>2. CASE /\ sessions[req[x].id] # NoSession
               /\ Acts(x, "rPut", req[x].code, sessions[req[x].id])
               /\ UNCHANGED <<sessions, records>>
      <3>1. sessions[req[x].id] \in ChargingSession
        BY <2>1, <2>2, ReadSession
      <3>2. Alone(x) /\ Known(x)'
        BY <1>0, <2>1, <2>2, <3>1 DEF Acts, Known, Runs
      <3> QED
        BY <1>0, <1>1, <2>1, <2>2, <3>2 DEF TypeOK
    <2> QED
      BY <1>2, <1>6, <2>1, <2>2, ReleaseGetEffect
  <1>7. CASE ReleasePut(x)
    <2>1. req[x].pc = "rPut" /\ Runs(x) /\ UNCHANGED <<chargingCounter, restarts>>
      BY <1>0, <1>7, ReleasePutEffect DEF Runs
    <2>2. CASE /\ records' = [records EXCEPT ![req[x].id] = req[x].ses.used]
               /\ Acts(x, "rDel", req[x].code, req[x].ses) /\ UNCHANGED sessions
      <3>1. Alone(x) /\ Known(x)'
        BY <1>0, <2>1, <2>2 DEF Acts, Known, Runs
      <3>2. req[x].ses.used \in Nat
        BY <1>0, <2>1 DEF Known, ChargingSession
      <3> QED
        BY <1>0, <1>1, <2>1, <2>2, <3>1, <3>2 DEF TypeOK
    <2> QED
      BY <1>0, <1>2, <1>7, <2>1, <2>2, ReleasePutEffect
  <1>8. CASE ReleaseDelete(x)
    <2>1. req[x].pc = "rDel" /\ Runs(x) /\ UNCHANGED <<chargingCounter, restarts>>
      BY <1>0, <1>8, ReleaseDeleteEffect DEF Runs
    <2>2. CASE /\ sessions' = [sessions EXCEPT ![req[x].id] = NoSession]
               /\ Answered(x, 200) /\ UNCHANGED records
      BY <1>0, <1>1, <2>1, <2>2, KnownEnds DEF TypeOK
    <2> QED
      BY <1>0, <1>2, <1>8, <2>1, <2>2, ReleaseDeleteEffect
  <1>9. CASE Crash(x)
    BY <1>0, <1>2, <1>9, CrashEffect
  <1> QED
    BY <1>3, <1>4, <1>5, <1>6, <1>7, <1>8, <1>9 DEF Step

\* A request begins: what its action does, whichever kind it is of.
Begins(x, kind, i, pc) ==
    /\ Alone(x) /\ req[x].pc = "idle"
    /\ req'[x].kind = kind /\ req'[x].pc = pc /\ req'[x].id = i /\ i \in ChargingIDs
    /\ req'[x].code = req[x].code
    /\ UNCHANGED <<sessions, records, restarts>>

LEMMA BeginType ==
    ASSUME TypeInv, NEW x \in Reqs, NEW kind, NEW i, NEW pc, Begins(x, kind, i, pc),
           \/ kind = "create" /\ pc = "cPut"
           \/ kind = "update" /\ pc = "uGet"
           \/ kind = "release" /\ pc = "rGet",
           chargingCounter' \in 0 .. MaxID
    PROVE  TypeInv'
  <1>1. TypeOK /\ Known(x)
    BY DEF TypeInv
  <1>2. Known(x)'
    BY <1>1 DEF Begins, Known, Runs
  <1>3. \A y \in Reqs : Known(y)'
    BY <1>2, KnownAlone DEF Begins
  <1> QED
    BY <1>1, <1>3 DEF Begins, Alone, TypeInv, TypeOK

LEMMA IssuedIDs == TypeInv => Issued \subseteq ChargingIDs
  BY DEF TypeInv, Known, Issued

\* The ways in which a step begins, continues or ends requests.
LEMMA StepCases ==
    ASSUME TypeInv, [Next]_vars
    PROVE  \/ UNCHANGED vars
           \/ Restart
           \/ \E x \in Reqs : Step(x)
           \/ \E x \in Reqs, u \in Supis :
                /\ Begins(x, "create", <<u, chargingCounter + 1>>, "cPut")
                /\ chargingCounter' = chargingCounter + 1 /\ chargingCounter' \in 0 .. MaxID
           \/ \E x \in Reqs, i \in Issued :
                /\ Begins(x, "update", i, "uGet") \/ Begins(x, "release", i, "rGet")
                /\ Serial => ~Busy(i)
                /\ UNCHANGED chargingCounter
  <1>0. TypeOK /\ Issued \subseteq ChargingIDs
    BY IssuedIDs DEF TypeInv
  <1>1. ASSUME NEW x \in Reqs, NEW u \in Supis, CreateStart(x, u)
        PROVE  /\ Begins(x, "create", <<u, chargingCounter + 1>>, "cPut")
               /\ chargingCounter' = chargingCounter + 1 /\ chargingCounter' \in 0 .. MaxID
    BY <1>0, <1>1, CreateStartEffect DEF Begins
  <1>2. ASSUME NEW x \in Reqs, NEW i \in Issued, ReleaseStart(x, i)
        PROVE  /\ Begins(x, "release", i, "rGet")
               /\ Serial => ~Busy(i)
               /\ UNCHANGED chargingCounter
    <2>1. i \in ChargingIDs /\ "release" \in Kinds /\ "rGet" \in PC /\ 0 \in Volumes \cup {0}
      BY <1>0 DEF Kinds, PC
    <2>2. Start(x, "release", i, 0, "rGet")
      BY <1>2 DEF ReleaseStart
    <2> QED
      BY <1>0, <2>1, <2>2, StartEffect DEF Begins
  <1>3. ASSUME NEW x \in Reqs, NEW i \in Issued, NEW v \in Volumes, UpdateStart(x, i, v)
        PROVE  /\ Begins(x, "update", i, "uGet")
               /\ Serial => ~Busy(i)
               /\ UNCHANGED chargingCounter
    <2>1. i \in ChargingIDs /\ "update" \in Kinds /\ "uGet" \in PC /\ v \in Volumes \cup {0}
      BY <1>0 DEF Kinds, PC
    <2>2. Start(x, "update", i, v, "uGet")
      BY <1>3 DEF UpdateStart
    <2> QED
      BY <1>0, <2>1, <2>2, StartEffect DEF Begins
  <1> QED
    BY <1>1, <1>2, <1>3 DEF Next

LEMMA TypeNext == TypeInv /\ [Next]_vars => TypeInv'
  <1> SUFFICES ASSUME TypeInv, [Next]_vars PROVE TypeInv'
    OBVIOUS
  <1>0. TypeOK
    BY DEF TypeInv
  <1>1. CASE UNCHANGED vars
    BY <1>1 DEF vars, TypeInv, TypeOK, Known, Runs
  <1>2. CASE Restart
    <2>1. ASSUME NEW x \in Reqs PROVE Known(x)'
      BY <1>0, <1>2, RestartEffect DEF Restarts, TypeInv, Known, Runs
    <2>2. chargingCounter' \in 0 .. MaxID
      BY <1>0, <1>2, RestartEffect, ConstantsAssumption
    <2> QED
      BY <1>0, <1>2, <2>1, <2>2, RestartEffect DEF TypeInv, TypeOK
  <1>3. ASSUME NEW x \in Reqs, NEW u \in Supis,
               Begins(x, "create", <<u, chargingCounter + 1>>, "cPut"),
               chargingCounter' \in 0 .. MaxID
        PROVE  TypeInv'
    BY <1>3, BeginType
  <1>4. ASSUME NEW x \in Reqs, NEW i \in Issued,
               Begins(x, "update", i, "uGet") \/ Begins(x, "release", i, "rGet"),
               UNCHANGED chargingCounter
        PROVE  TypeInv'
    BY <1>0, <1>4, BeginType DEF TypeOK
  <1> QED
    BY <1>1, <1>2, <1>3, <1>4, StepCases, TypeStep

(* Every state has the types the CHF relies on, whatever overlaps, fails   *)
(* or restarts: an update or release writes a session it has read.         *)
THEOREM TypeCorrect == Spec => []TypeOK
  <1>1. TypeInv => TypeOK
    BY DEF TypeInv
  <1> QED
    BY <1>1, TypeInit, TypeNext, PTL DEF Spec

-----------------------------------------------------------------------------
(* Quota.  Every session that is stored or about to be has been opened, or *)
(* charged from one whose quota covered its usage: that is so even where   *)
(* reports overlap and one of them is lost.                                *)

SmallReports == \A v \in Volumes : v <= QuotaIncrement
Covered(s) ==
    s # NoSession =>
      /\ s.used <= s.granted
      /\ \/ s.granted = DefaultGrantedUnits
         \/ s.used > s.granted - QuotaIncrement
QuotaInv ==
    /\ \A i \in ChargingIDs : Covered(sessions[i])
    /\ \A x \in Reqs : req[x].pc = "uPut" => Covered(req[x].ses)

LEMMA OpenedCovered == Covered(Opened) /\ Covered(NoSession)
  BY ConstantsAssumption DEF Covered, Opened

LEMMA ChargeCovered ==
    ASSUME NEW s \in ChargingSession, s # NoSession, Covered(s),
           NEW n \in Nat, n <= QuotaIncrement
    PROVE  Covered(Charge(s, n))
  <1> DEFINE t == Charge(s, n)
  <1>1. /\ t.used = s.used + n
        /\ s.used + n > s.granted => t.granted = s.granted + QuotaIncrement
        /\ ~(s.used + n > s.granted) => t.granted = s.granted
    BY ChargeType
  <1>2. s.used \in Nat /\ s.granted \in Nat /\ QuotaIncrement \in Nat
    BY ConstantsAssumption DEF ChargingSession
  <1> HIDE DEF t
  <1>3. t.used <= t.granted
    BY <1>1, <1>2 DEF Covered
  <1>4. t.granted = DefaultGrantedUnits \/ t.used > t.granted - QuotaIncrement
    BY <1>1, <1>2 DEF Covered
  <1> QED
    BY <1>3, <1>4 DEF Covered, t

LEMMA QuotaStep ==
    ASSUME SmallReports, TypeInv, QuotaInv, NEW x \in Reqs, Step(x)
    PROVE  QuotaInv'
  <1>0. TypeOK /\ Known(x) /\ Alone(x) /\ Runs(x)
    BY TypeStep DEF TypeInv
  <1>1. ASSUME \A i \in ChargingIDs : Covered(sessions'[i]),
               req'[x].pc = "uPut" => Covered(req'[x].ses)
        PROVE  QuotaInv'
    BY <1>0, <1>1 DEF QuotaInv, Alone, Covered
  <1>2. ASSUME Fails(x) PROVE QuotaInv'
    BY <1>1, <1>2 DEF Fails, Acts, QuotaInv
  <1>3. ASSUME NEW s, Covered(s), sessions' = [sessions EXCEPT ![req[x].id] = s],
               NEW code \in {200, 201}, Answered(x, code)
        PROVE  QuotaInv'
    BY <1>0, <1>1, <1>3 DEF Answered, Acts, QuotaInv, TypeOK
  <1>4. CASE CreatePut(x)
    BY <1>0, <1>2, <1>3, <1>4, CreatePutEffect, OpenedCovered
  <1>5. CASE UpdateGet(x)
    <2> DEFINE s == sessions[req[x].id]
    <2>1. CASE /\ s # NoSession /\ Acts(x, "uPut", req[x].code, Charge(s, req[x].vol))
               /\ UNCHANGED <<sessions, records>>
      <3>1. s \in ChargingSession /\ req[x].vol \in Nat /\ Covered(s)
        BY <1>0, <2>1, ReadSession DEF Runs, Known, QuotaInv
      <3>2. req[x].vol <= QuotaIncrement
        <4> DEFINE n == req[x].vol
        <4>1. n \in Volumes \cup {0}
          BY <1>0, VolumeType
        <4> HIDE DEF n
        <4>2. n <= QuotaIncrement
          BY <4>1, ConstantsAssumption DEF SmallReports
        <4> QED
          BY <4>2 DEF n
      <3>3. Covered(Charge(s, req[x].vol))
        BY <2>1, <3>1, <3>2, ChargeCovered
      <3> QED
        BY <1>1, <2>1, <3>3 DEF Acts, QuotaInv
    <2> QED
      BY <1>2, <1>5, <2>1, UpdateGetEffect
  <1>6. CASE UpdatePut(x)
    BY <1>0, <1>2, <1>3, <1>6, UpdatePutEffect DEF QuotaInv
  <1>7. CASE ReleaseGet(x)
    BY <1>1, <1>2, <1>7, ReleaseGetEffect DEF Acts, QuotaInv
  <1>8. CASE ReleasePut(x)
    BY <1>0, <1>1, <1>2, <1>8, ReleasePutEffect DEF Acts, QuotaInv
  <1>9. CASE ReleaseDelete(x)
    BY <1>0, <1>2, <1>3, <1>9, ReleaseDeleteEffect, OpenedCovered
  <1>10. CASE Crash(x)
    BY <1>0, <1>2, <1>10, CrashEffect
  <1> QED
    BY <1>4, <1>5, <1>6, <1>7, <1>8, <1>9, <1>10 DEF Step

LEMMA QuotaNext ==
    ASSUME SmallReports, TypeInv, QuotaInv, [Next]_vars
    PROVE  QuotaInv'
  <1>0. TypeOK
    BY DEF TypeInv
  <1>1. CASE UNCHANGED vars
    BY <1>1 DEF vars, QuotaInv, Covered
  <1>2. CASE Restart
    BY <1>0, <1>2, RestartEffect DEF Restarts, QuotaInv, Covered
  <1>3. ASSUME NEW x \in Reqs, NEW kind, NEW i, NEW pc, pc # "uPut", Begins(x, kind, i, pc)
        PROVE  QuotaInv'
    BY <1>3 DEF Begins, Alone, QuotaInv, Covered
  <1> QED
    BY <1>1, <1>2, <1>3, StepCases, QuotaStep

(* As long as no report is larger than the increment, a session's quota    *)
(* covers its usage and was never extended without need, whatever overlaps *)
(* or fails in charging-update.                                            *)
THEOREM QuotaCovers == Spec => []QuotaFollowsUsage
  <1>1. SmallReports /\ QuotaInv => QuotaFollowsUsage
    BY DEF QuotaInv, Covered, QuotaFollowsUsage
  <1>2. ~SmallReports => QuotaFollowsUsage
    BY DEF SmallReports, QuotaFollowsUsage
  <1>3. Init => QuotaInv
    BY OpenedCovered DEF Init, Idle, QuotaInv
  <1>4. SmallReports /\ TypeInv /\ QuotaInv /\ [Next]_vars => QuotaInv'
    BY QuotaNext
  <1>5. CASE SmallReports
    <2>1. QuotaInv => QuotaFollowsUsage
      BY <1>1, <1>5
    <2>2. TypeInv /\ QuotaInv /\ [Next]_vars => QuotaInv'
      BY <1>4, <1>5
    <2> QED
      BY <1>3, <2>1, <2>2, TypeInit, TypeNext, PTL DEF Spec
  <1>6. CASE ~SmallReports
    <2>1. QuotaFollowsUsage
      BY <1>2, <1>6
    <2> QED
      BY <2>1, PTL
  <1> QED
    BY <1>5, <1>6

-----------------------------------------------------------------------------
(* Usage.  Serial clients, and identifiers that name one session: then a   *)
(* request is alone with its session, and what it has read is current.     *)

Distinct ==
    \A x, y \in Reqs :
      req[x].kind = "create" /\ req[y].kind = "create" /\ x # y => req[x].id # req[y].id

\* As long as it has not restarted, charging-create counts on.  A session that
\* is charged or recorded is one that a client has been given.
Counted ==
    restarts = 0 =>
      Distinct /\ \A x \in Reqs : req[x].kind = "create" => req[x].id[2] <= chargingCounter
Given ==
    /\ \A x \in Reqs : req[x].kind \in {"update", "release"} => req[x].id \in Issued
    /\ \A i \in ChargingIDs : records[i] # NoRecord => i \in Issued

\* At most one request works on a session.
Exclusive ==
    \A x, y \in Reqs : x # y /\ Runs(x) /\ Runs(y) => req[x].id # req[y].id

\* What a request has in hand agrees with what is stored.
Current(x) ==
    LET s == sessions[req[x].id] IN
    /\ req[x].pc = "uPut" => s # NoSession /\ req[x].ses = Charge(s, req[x].vol)
    /\ req[x].pc = "rPut" => s # NoSession /\ req[x].ses = s
    /\ req[x].pc = "rDel" => s # NoSession /\ records[req[x].id] = s.used

Charged(i) == IF sessions[i] # NoSession THEN sessions[i].used ELSE records[i]

NameInv == Counted /\ Given
UsageInv ==
    Distinct => /\ Exclusive
                /\ \A x \in Reqs : Current(x)
                /\ \A i \in Issued : IsFiniteSet(Units(i)) /\ Reported(i) = Charged(i)

LEMMA StepActs ==
    ASSUME TypeInv, NEW x \in Reqs, Step(x)
    PROVE  /\ \E pc, code, s : Acts(x, pc, code, s)
           /\ req[x].kind # "create" => req'[x].code # 201
           /\ UNCHANGED <<chargingCounter, restarts>>
  <1>0. TypeOK /\ Known(x) /\ Runs(x)
    BY TypeStep DEF TypeInv
  <1>1. ASSUME Fails(x)
        PROVE  (\E pc, code, s : Acts(x, pc, code, s)) /\ req'[x].code # 201
    BY <1>0, <1>1 DEF Fails, Acts, Known
  <1>2. ASSUME NEW code \in {200, 201}, Answered(x, code)
        PROVE  (\E pc, c, s : Acts(x, pc, c, s)) /\ req'[x].code \in {0, code}
    BY <1>0, <1>2 DEF Answered, Acts, Known
  <1>3. ASSUME NEW pc, NEW s, Acts(x, pc, req[x].code, s)
        PROVE  req'[x].code # 201
    BY <1>0, <1>3 DEF Acts, Known
  <1>4. CASE CreatePut(x)
    BY <1>0, <1>1, <1>2, <1>4, CreatePutEffect DEF Known
  <1>5. CASE UpdateGet(x)
    BY <1>1, <1>3, <1>5, UpdateGetEffect
  <1>6. CASE UpdatePut(x)
    BY <1>0, <1>1, <1>2, <1>6, UpdatePutEffect
  <1>7. CASE ReleaseGet(x)
    BY <1>1, <1>3, <1>7, ReleaseGetEffect
  <1>8. CASE ReleasePut(x)
    BY <1>0, <1>1, <1>3, <1>8, ReleasePutEffect
  <1>9. CASE ReleaseDelete(x)
    BY <1>0, <1>1, <1>2, <1>9, ReleaseDeleteEffect
  <1>10. CASE Crash(x)
    BY <1>0, <1>1, <1>10, CrashEffect
  <1> QED
    BY <1>4, <1>5, <1>6, <1>7, <1>8, <1>9, <1>10 DEF Step

\* Kind, identifier and volume of a request that has begun stay, and so does
\* the answer of a create; a request that runs ran before or begins now.
Stays ==
    \A y \in Reqs :
      /\ req[y].kind # "none" => /\ req'[y].kind = req[y].kind /\ req'[y].id = req[y].id
                                 /\ req'[y].vol = req[y].vol
      /\ req[y].code = 201 => req'[y].code = 201

LEMMA StepStays ==
    ASSUME TypeInv, NEW x \in Reqs, Step(x)
    PROVE  Stays
  <1>1. PICK pc, code, s : Acts(x, pc, code, s)
    BY StepActs
  <1>2. Known(x) /\ Runs(x)
    BY TypeStep DEF TypeInv
  <1> QED
    BY <1>1, <1>2 DEF Acts, Alone, Stays, Known

LEMMA BeginStays ==
    ASSUME TypeInv, NEW x \in Reqs, NEW kind, NEW i, NEW pc, Begins(x, kind, i, pc)
    PROVE  Stays
  BY DEF Begins, Alone, Stays, TypeInv, Known

LEMMA NamesStay ==
    ASSUME TypeInv, [Next]_vars
    PROVE  Stays /\ Issued \subseteq Issued' /\ (Distinct' => Distinct)
  <1>1. Stays
    <2>1. CASE UNCHANGED vars
      BY <2>1 DEF vars, Stays
    <2>2. CASE Restart
      BY <2>2, RestartEffect DEF TypeInv, Restarts, Stays
    <2> QED
      BY <2>1, <2>2, StepCases, StepStays, BeginStays
  <1>2. ASSUME NEW i \in Issued PROVE i \in Issued'
    <2>1. PICK y \in Reqs : req[y].code = 201 /\ req[y].id = i
      BY <1>2 DEF Issued
    <2>2. req'[y].code = 201 /\ req'[y].id = i
      BY <1>1, <2>1 DEF Stays, TypeInv, Known
    <2> QED
      BY <2>2 DEF Issued
  <1>3. Distinct' => Distinct
    BY <1>1 DEF Stays, Distinct
  <1> QED
    BY <1>1, <1>2, <1>3

\* Only a release writes a record, of the session it was asked to release.
LEMMA RecordsWritten ==
    ASSUME TypeInv, NEW x \in Reqs, Step(x), NEW i \in ChargingIDs
    PROVE  \/ records'[i] = records[i]
           \/ /\ i = req[x].id /\ req[x].pc = "rPut" /\ req[x].kind = "release"
              /\ records'[i] = req[x].ses.used
  <1>0. TypeOK /\ Known(x)
    BY DEF TypeInv
  <1>1. CASE ReleasePut(x)
    BY <1>0, <1>1, ReleasePutEffect DEF Fails, Known, TypeOK
  <1> QED
    BY <1>1 DEF Step, CreatePut, UpdateGet, UpdatePut, ReleaseGet, ReleaseDelete, Crash, Get

LEMMA NameInit == Init => NameInv
  BY DEF Init, Idle, NameInv, Counted, Given, Distinct

LEMMA NameNext ==
    ASSUME TypeInv, NameInv, [Next]_vars
    PROVE  NameInv'
  <1>0. /\ TypeOK /\ Stays /\ Issued \subseteq Issued'
        /\ \A y \in Reqs : Known(y)
        /\ Counted /\ Given
    BY NamesStay DEF TypeInv, NameInv
  <1>1. CASE UNCHANGED vars
    BY <1>1 DEF vars, NameInv, Counted, Given, Distinct, Issued
  <1>2. CASE Restart
    <2>1. restarts' # 0
      BY <1>0, <1>2, RestartEffect, ConstantsAssumption DEF TypeOK
    <2>2. Given'
      BY <1>0, <1>2, RestartEffect DEF Given, Restarts
    <2> QED
      BY <2>1, <2>2 DEF NameInv, Counted
  <1>3. ASSUME NEW x \in Reqs, Step(x)
        PROVE  NameInv'
    <2>1. PICK pc, code, s : Acts(x, pc, code, s)
      BY <1>3, StepActs
    <2>2. \A y \in Reqs : req'[y].kind = req[y].kind /\ req'[y].id = req[y].id
      BY <2>1 DEF Acts, Alone
    <2>3. UNCHANGED <<chargingCounter, restarts>>
      BY <1>3, StepActs
    <2>4. Counted'
      BY <1>0, <2>2, <2>3 DEF Counted, Distinct
    <2>5. Given'
      BY <1>0, <1>3, <2>2, RecordsWritten DEF Given
    <2> QED
      BY <2>4, <2>5 DEF NameInv
  <1>4. ASSUME NEW x \in Reqs, NEW u \in Supis,
               Begins(x, "create", <<u, chargingCounter + 1>>, "cPut"),
               chargingCounter' = chargingCounter + 1
        PROVE  NameInv'
    <2>1. ASSUME restarts' = 0
          PROVE  Distinct' /\ \A y \in Reqs : req'[y].kind = "create" => req'[y].id[2] <= chargingCounter'
      <3>1. restarts = 0 /\ chargingCounter \in Nat
        BY <1>0, <1>4, <2>1, ConstantsAssumption DEF Begins, TypeOK
      <3>2. ASSUME NEW y \in Reqs, y # x, req'[y].kind = "create"
            PROVE  req'[y].id[2] <= chargingCounter /\ req'[y].id = req[y].id /\ req'[y].id[2] \in Nat
        <4>1. req'[y] = req[y] /\ req[y].id \in ChargingIDs
          BY <1>0, <1>4, <3>2 DEF Begins, Alone, Known
        <4> QED
          BY <1>0, <3>1, <3>2, <4>1 DEF Counted, ChargingIDs
      <3>3. req'[x].id[2] = chargingCounter + 1
        BY <1>4 DEF Begins
      <3>4. \A y \in Reqs : req'[y].kind = "create" => req'[y].id[2] <= chargingCounter'
        BY <1>4, <3>1, <3>2, <3>3
      <3>5. ASSUME NEW y \in Reqs, NEW z \in Reqs, y # z,
                   req'[y].kind = "create", req'[z].kind = "create"
            PROVE  req'[y].id # req'[z].id
        <4>1. CASE y = x
          BY <3>1, <3>2, <3>3, <3>5, <4>1
        <4>2. CASE z = x
          BY <3>1, <3>2, <3>3, <3>5, <4>2
        <4>3. CASE y # x /\ z # x
          BY <1>0, <1>4, <3>1, <3>5, <4>3 DEF Begins, Alone, Counted, Distinct
        <4> QED
          BY <4>1, <4>2, <4>3
      <3> QED
        BY <3>4, <3>5 DEF Distinct
    <2>2. Given'
      BY <1>0, <1>4 DEF Begins, Alone, Given
    <2> QED
      BY <2>1, <2>2 DEF NameInv, Counted
  <1>5. ASSUME NEW x \in Reqs, NEW i \in Issued,
               Begins(x, "update", i, "uGet") \/ Begins(x, "release", i, "rGet"),
               UNCHANGED chargingCounter
        PROVE  NameInv'
    <2>1. \A y \in Reqs : req'[y].kind = "create" => req'[y] = req[y] /\ req[y].kind = "create"
      BY <1>5 DEF Begins, Alone
    <2>2. Counted'
      BY <1>0, <1>5, <2>1 DEF Begins, Counted, Distinct
    <2>3. Given'
      BY <1>0, <1>5 DEF Begins, Alone, Given
    <2> QED
      BY <2>2, <2>3 DEF NameInv
  <1> QED
    BY <1>1, <1>2, <1>3, <1>4, <1>5, StepCases

\* An identifier that is being created has not been given to a client yet, so
\* that no update or release names it and no record has it.
LEMMA CreatedAlone ==
    ASSUME TypeInv, NameInv, Distinct, NEW x \in Reqs, req[x].pc = "cPut"
    PROVE  /\ req[x].id \in ChargingIDs /\ req[x].id \notin Issued
           /\ records[req[x].id] = NoRecord
           /\ \A y \in Reqs : y # x /\ req[y].kind # "none" => req[y].id # req[x].id
  <1>1. req[x].kind = "create" /\ req[x].id \in ChargingIDs /\ req[x].code # 201
    BY DEF TypeInv, Known, Runs
  <1>2. req[x].id \notin Issued
    BY <1>1 DEF Issued, Distinct, TypeInv, Known
  <1>3. ASSUME NEW y \in Reqs, y # x, req[y].kind # "none" PROVE req[y].id # req[x].id
    <2>1. CASE req[y].kind = "create"
      BY <1>1, <1>3, <2>1 DEF Distinct
    <2>2. CASE req[y].kind \in {"update", "release"}
      BY <1>2, <2>2 DEF NameInv, Given
    <2> QED
      BY <1>3, <2>1, <2>2 DEF TypeInv, TypeOK, Request, Kinds
  <1> QED
    BY <1>1, <1>2, <1>3 DEF NameInv, Given

LEMMA ExclusiveNext ==
    ASSUME Serial, TypeInv, NameInv, Distinct', Exclusive, [Next]_vars
    PROVE  Exclusive'
  <1>0. /\ TypeOK /\ Stays /\ TypeInv' /\ NameInv'
        /\ \A y \in Reqs : Known(y)
    BY NamesStay, TypeNext, NameNext DEF TypeInv
  <1>1. ASSUME \A y \in Reqs : Runs(y)' => Runs(y)
        PROVE  Exclusive'
    BY <1>0, <1>1 DEF Exclusive, Stays, Known, Runs
  <1>2. CASE UNCHANGED vars
    BY <1>1, <1>2 DEF vars, Runs
  <1>3. CASE Restart
    BY <1>0, <1>1, <1>3, RestartEffect DEF Restarts, Runs
  <1>4. ASSUME NEW x \in Reqs, Step(x) PROVE Exclusive'
    BY <1>1, <1>4, TypeStep DEF Alone, Runs
  <1>5. ASSUME NEW x \in Reqs, NEW kind, NEW i, NEW pc, Begins(x, kind, i, pc),
               \A y \in Reqs : y # x /\ Runs(y) => req[y].id # i
        PROVE  Exclusive'
    BY <1>5 DEF Begins, Alone, Exclusive, Runs
  <1>6. ASSUME NEW x \in Reqs, NEW u \in Supis,
               Begins(x, "create", <<u, chargingCounter + 1>>, "cPut")
        PROVE  Exclusive'
    <2>1. req'[x].pc = "cPut" /\ req'[x].id = <<u, chargingCounter + 1>>
      BY <1>6 DEF Begins
    <2>2. \A y \in Reqs : y # x /\ req'[y].kind # "none" => req'[y].id # req'[x].id
      <3>1. ASSUME NEW y \in Reqs, y # x, req'[y].kind = "create"
            PROVE  req'[y].id # req'[x].id
        BY <1>6, <3>1 DEF Begins, Distinct
      <3>2. ASSUME NEW y \in Reqs, y # x, req'[y].kind \in {"update", "release"}
            PROVE  req'[y].id # req'[x].id
        <4>1. PICK z \in Reqs : req[z].code = 201 /\ req[z].id = req[y].id
          BY <1>6, <3>2 DEF Begins, Alone, NameInv, Given, Issued
        <4>2. req[z].kind = "create" /\ z # x
          BY <1>0, <1>6, <4>1 DEF Begins, Known
        <4>3. req'[z].id # req'[x].id
          BY <1>0, <3>1, <4>2 DEF Stays
        <4> QED
          BY <1>6, <3>2, <4>1, <4>2, <4>3 DEF Begins, Alone
      <3> QED
        BY <1>0, <3>1, <3>2 DEF TypeInv, TypeOK, Request, Kinds
    <2>3. ASSUME NEW y \in Reqs, y # x, Runs(y) PROVE req[y].id # <<u, chargingCounter + 1>>
      BY <1>0, <1>6, <2>1, <2>2, <2>3 DEF Begins, Alone, Known, Runs
    <2> QED
      BY <1>5, <1>6, <2>3
  <1>7. ASSUME NEW x \in Reqs, NEW i \in Issued,
               Begins(x, "update", i, "uGet") \/ Begins(x, "release", i, "rGet"), ~Busy(i)
        PROVE  Exclusive'
    BY <1>5, <1>7 DEF Busy
  <1> QED
    BY <1>2, <1>3, <1>4, <1>6, <1>7, StepCases

\* A step of x leaves the sessions and records of other requests alone.
LEMMA OthersSame ==
    ASSUME TypeInv, NEW x \in Reqs, Step(x), NEW i \in ChargingIDs, i # req[x].id
    PROVE  sessions'[i] = sessions[i] /\ records'[i] = records[i]
  <1>0. TypeOK
    BY DEF TypeInv
  <1>1. records'[i] = records[i]
    BY RecordsWritten
  <1>2. sessions'[i] = sessions[i]
    BY <1>0 DEF TypeOK, Step, CreatePut, UpdateGet, UpdatePut, ReleaseGet, ReleasePut,
                ReleaseDelete, Crash, Get, Store
  <1> QED
    BY <1>1, <1>2

LEMMA CurrentStep ==
    ASSUME TypeInv, Exclusive, \A y \in Reqs : Current(y), NEW x \in Reqs, Step(x)
    PROVE  \A y \in Reqs : Current(y)'
  <1>0. TypeOK /\ Known(x) /\ Alone(x) /\ Runs(x) /\ req[x].id \in ChargingIDs
    BY TypeStep DEF TypeInv, Known, Runs
  <1>1. ASSUME NEW y \in Reqs, y # x PROVE Current(y)'
    <2>1. req'[y] = req[y]
      BY <1>0, <1>1 DEF Alone
    <2>2. CASE Runs(y)
      <3>1. req[y].id \in ChargingIDs /\ req[y].id # req[x].id
        BY <1>0, <1>1, <2>2 DEF Exclusive, TypeInv, Known, Runs
      <3>2. sessions'[req[y].id] = sessions[req[y].id] /\ records'[req[y].id] = records[req[y].id]
        BY <3>1, OthersSame
      <3> QED
        BY <2>1, <3>2 DEF Current
    <2>3. CASE ~Runs(y)
      BY <2>1, <2>3 DEF Current, Runs
    <2> QED
      BY <2>2, <2>3
  <1>2. Current(x)'
    <2>1. ASSUME req'[x].pc \notin {"uPut", "rPut", "rDel"} PROVE Current(x)'
      BY <2>1 DEF Current
    <2>2. ASSUME Fails(x) PROVE Current(x)'
      BY <2>1, <2>2 DEF Fails, Acts
    <2>3. ASSUME NEW code, Answered(x, code) PROVE Current(x)'
      BY <2>1, <2>3 DEF Answered, Acts
    <2>4. CASE CreatePut(x)
      BY <1>0, <2>2, <2>3, <2>4, CreatePutEffect
    <2>5. CASE UpdateGet(x)
      BY <2>2, <2>5, UpdateGetEffect DEF Acts, Current
    <2>6. CASE UpdatePut(x)
      BY <1>0, <2>2, <2>3, <2>6, UpdatePutEffect
    <2>7. CASE ReleaseGet(x)
      BY <2>2, <2>7, ReleaseGetEffect DEF Acts, Current
    <2>8. CASE ReleasePut(x)
      BY <1>0, <2>2, <2>8, ReleasePutEffect DEF Acts, Current, TypeOK
    <2>9. CASE ReleaseDelete(x)
      BY <1>0, <2>2, <2>3, <2>9, ReleaseDeleteEffect
    <2>10. CASE Crash(x)
      BY <1>0, <2>2, <2>10, CrashEffect
    <2> QED
      BY <2>4, <2>5, <2>6, <2>7, <2>8, <2>9, <2>10 DEF Step
  <1> QED
    BY <1>1, <1>2

LEMMA CurrentNext ==
    ASSUME TypeInv, Exclusive, \A y \in Reqs : Current(y), [Next]_vars
    PROVE  \A y \in Reqs : Current(y)'
  <1>0. TypeOK
    BY DEF TypeInv
  <1>1. CASE UNCHANGED vars
    BY <1>1 DEF vars, Current
  <1>2. CASE Restart
    BY <1>0, <1>2, RestartEffect DEF Restarts, Current
  <1>3. ASSUME NEW x \in Reqs, NEW kind, NEW i, NEW pc, pc \in {"cPut", "uGet", "rGet"},
               Begins(x, kind, i, pc)
        PROVE  \A y \in Reqs : Current(y)'
    BY <1>3 DEF Begins, Alone, Current
  <1> QED
    BY <1>1, <1>2, <1>3, StepCases, CurrentStep

-----------------------------------------------------------------------------
(* The units of the reports that took effect.                              *)

InEffect(x) == req[x].kind = "update" /\ (req[x].code = 200 \/ req[x].pc = "lost")

LEMMA UnitsIn ==
    ASSUME NEW i, NEW p
    PROVE  p \in Units(i) <=>
             \E x \in Reqs : req[x].id = i /\ InEffect(x) /\ p \in {x} \X (1 .. req[x].vol)
  BY DEF Units, InEffect

\* They stay while the reports in effect do.
LEMMA UnitsStay ==
    ASSUME NEW i, \A x \in Reqs : /\ InEffect(x)' <=> InEffect(x)
                                  /\ InEffect(x) => req'[x].id = req[x].id /\ req'[x].vol = req[x].vol
    PROVE  Units(i)' = Units(i)
  <1>1. ASSUME NEW p PROVE p \in Units(i)' <=> p \in Units(i)
    BY UnitsIn DEF Units, InEffect
  <1> QED
    BY <1>1 DEF Units

\* A report that takes effect adds its volume.
LEMMA UnitsAdded ==
    ASSUME NEW x \in Reqs, NEW i, Alone(x), req[x].id = i, req'[x].id = i,
           req'[x].vol = req[x].vol, req[x].vol \in Nat, ~InEffect(x), InEffect(x)',
           IsFiniteSet(Units(i))
    PROVE  /\ IsFiniteSet(Units(i)')
           /\ Cardinality(Units(i)') = Cardinality(Units(i)) + req[x].vol
  <1> DEFINE n == req[x].vol
             T == {x} \X (1 .. n)
  <1>1. ASSUME NEW p PROVE p \in Units(i)' <=> p \in Units(i) \cup T
    <2>1. p \in Units(i)' <=>
            \E y \in Reqs : req'[y].id = i /\ InEffect(y)' /\ p \in {y} \X (1 .. req'[y].vol)
      BY DEF Units, InEffect
    <2>2. \A y \in Reqs : y # x =>
            /\ (InEffect(y)' <=> InEffect(y))
            /\ req'[y].id = req[y].id /\ req'[y].vol = req[y].vol
      BY DEF Alone, InEffect
    <2> QED
      BY <2>1, <2>2, UnitsIn
  <1>2. Units(i)' = Units(i) \cup T
    BY <1>1 DEF Units
  <1>3. Units(i) \cap T = {}
    <2>1. ASSUME NEW p \in Units(i), p \in T PROVE FALSE
      <3>1. PICK y \in Reqs : InEffect(y) /\ p \in {y} \X (1 .. req[y].vol)
        BY <2>1, UnitsIn
      <3> QED
        BY <2>1, <3>1
    <2> QED
      BY <2>1
  <1>4. n \in Nat
    OBVIOUS
  <1> HIDE DEF n
  <1>5. IsFiniteSet(T) /\ Cardinality(T) = n
    <2>1. IsFiniteSet({x}) /\ Cardinality({x}) = 1
      BY FS_Singleton
    <2>2. IsFiniteSet(1 .. n) /\ Cardinality(1 .. n) = n
      BY <1>4, FS_Interval
    <2>3. IsFiniteSet(T) /\ Cardinality(T) = Cardinality({x}) * Cardinality(1 .. n)
      BY <2>1, <2>2, FS_Product
    <2> QED
      BY <1>4, <2>1, <2>2, <2>3
  <1> HIDE DEF T
  <1>6. Cardinality(Units(i)) \in Nat /\ Cardinality(Units(i) \cap T) = 0
    BY <1>3, FS_CardinalityType, FS_EmptySet
  <1>7. /\ IsFiniteSet(Units(i) \cup T)
        /\ Cardinality(Units(i) \cup T) =
             Cardinality(Units(i)) + Cardinality(T) - Cardinality(Units(i) \cap T)
    BY <1>5, FS_Union
  <1>8. Cardinality(Units(i) \cup T) = Cardinality(Units(i)) + n
    BY <1>4, <1>5, <1>6, <1>7
  <1> QED
    BY <1>2, <1>7, <1>8 DEF n

-----------------------------------------------------------------------------
(* Each step keeps reported and charged volume equal.                      *)

Balanced(i) == IsFiniteSet(Units(i)) /\ Reported(i) = Charged(i)

\* Where neither the units nor what is charged changes.
LEMMA BalanceStays ==
    ASSUME NEW i, Balanced(i), Units(i)' = Units(i), Charged(i)' = Charged(i)
    PROVE  Balanced(i)'
  BY DEF Balanced, Reported

\* A step of a request that is no update, or of one that fails, and one that
\* begins a request, adds no units.
LEMMA UnitsSame ==
    ASSUME NEW i, Stays, NEW x \in Reqs, Alone(x), ~InEffect(x), ~InEffect(x)'
    PROVE  Units(i)' = Units(i)
  <1>1. \A y \in Reqs : /\ InEffect(y)' <=> InEffect(y)
                        /\ InEffect(y) => req'[y].id = req[y].id /\ req'[y].vol = req[y].vol
    BY DEF Stays, Alone, InEffect
  <1> QED
    BY <1>1, UnitsStay

LEMMA RunsNotInEffect ==
    ASSUME TypeInv, NEW x \in Reqs, Runs(x) \/ req[x].pc = "idle"
    PROVE  ~InEffect(x)
  BY DEF TypeInv, Known, InEffect, Runs

LEMMA IssuedSame ==
    ASSUME TypeInv, TypeInv', NEW x \in Reqs, Alone(x), req'[x].code # 201
    PROVE  Issued' \subseteq Issued
  BY DEF Alone, Issued

LEMMA UsageStep ==
    ASSUME TypeInv, NameInv, Distinct, Exclusive, \A y \in Reqs : Current(y),
           \A i \in Issued : Balanced(i), NEW x \in Reqs, Step(x)
    PROVE  \A i \in Issued' : Balanced(i)'
  <1>0. /\ TypeOK /\ Known(x) /\ Alone(x) /\ Runs(x) /\ TypeInv' /\ Stays
        /\ req[x].kind # "none" /\ req[x].id \in ChargingIDs /\ ~InEffect(x)
        /\ Issued \subseteq ChargingIDs
    BY TypeStep, StepStays, RunsNotInEffect, IssuedIDs DEF TypeInv, Known, Runs
  <1> DEFINE k == req[x].id
  <1>1. req'[x].id = k /\ req'[x].kind = req[x].kind /\ req'[x].vol = req[x].vol
    BY <1>0 DEF Stays
  <1>2. PICK j \in ChargingIDs : j = k
    BY <1>0
  <1> HIDE DEF k
  <1>k. k = req[x].id
    BY DEF k
  \* The sessions that x does not work on.
  <1>3. ASSUME NEW i \in Issued', i # j PROVE Balanced(i)'
    <2>1. i \in Issued
      BY <1>0, <1>1, <1>2, <1>3 DEF Alone, Issued
    <2>2. sessions'[i] = sessions[i] /\ records'[i] = records[i]
      BY <1>0, <1>2, <1>3, <1>k, <2>1, OthersSame
    <2>3. Units(i)' = Units(i)
      <3>1. ASSUME NEW p PROVE p \in Units(i)' <=> p \in Units(i)
        <4>1. p \in Units(i)' <=>
                \E y \in Reqs : req'[y].id = i /\ InEffect(y)' /\ p \in {y} \X (1 .. req'[y].vol)
          BY DEF Units, InEffect
        <4>2. \A y \in Reqs :
                req'[y].id = i /\ InEffect(y)' /\ p \in {y} \X (1 .. req'[y].vol) <=>
                req[y].id = i /\ InEffect(y) /\ p \in {y} \X (1 .. req[y].vol)
          BY <1>0, <1>1, <1>2, <1>3, <1>k DEF Alone, InEffect
        <4> QED
          BY <4>1, <4>2, UnitsIn
      <3> QED
        BY <3>1 DEF Units
    <2>4. Charged(i)' = Charged(i)
      BY <2>2 DEF Charged
    <2> QED
      BY <2>1, <2>3, <2>4, BalanceStays
  \* The one it does.
  <1>4. ASSUME j \in Issued, ~InEffect(x)', Charged(j)' = Charged(j) PROVE Balanced(j)'
    <2>1. Units(j)' = Units(j)
      BY <1>0, <1>4, UnitsSame
    <2> QED
      BY <1>4, <2>1, BalanceStays
  <1>5. ASSUME req'[x].code # 201, j \in Issued' PROVE j \in Issued
    BY <1>0, <1>5, IssuedSame
  <1>6. ASSUME Fails(x), j \in Issued' PROVE Balanced(j)'
    <2>1. req'[x].code # 201 /\ ~InEffect(x)' /\ UNCHANGED <<sessions, records>>
      BY <1>0, <1>6 DEF Fails, Acts, Known, InEffect
    <2>2. Charged(j)' = Charged(j)
      BY <2>1 DEF Charged
    <2> QED
      BY <1>4, <1>5, <1>6, <2>1, <2>2
  <1>7. ASSUME CreatePut(x), j \in Issued' PROVE Balanced(j)'
    <2>1. req[x].pc = "cPut"
      BY <1>0, <1>7, CreatePutEffect
    <2>2. /\ j \notin Issued
          /\ \A y \in Reqs : y # x /\ req[y].kind # "none" => req[y].id # j
      BY <1>2, <1>k, <2>1, CreatedAlone
    <2>3. CASE Fails(x)
      BY <1>6, <1>7, <2>3
    <2>4. CASE sessions' = [sessions EXCEPT ![req[x].id] = Opened]
      <3>1. sessions'[j] = Opened /\ Opened.used = 0 /\ Opened # NoSession
        BY <1>0, <1>2, <1>k, <2>4, ConstantsAssumption DEF TypeOK, Opened, NoSession
      <3>2. Charged(j)' = 0
        BY <3>1 DEF Charged
      <3>3. ASSUME NEW p \in Units(j)' PROVE FALSE
        <4>1. PICK y \in Reqs : req'[y].id = j /\ req'[y].kind = "update"
          BY <3>3 DEF Units
        <4> QED
          BY <1>0, <1>1, <2>1, <2>2, <4>1 DEF Alone, Known
      <3>4. Units(j)' = {}
        BY <3>3
      <3>5. IsFiniteSet(Units(j)') /\ Cardinality(Units(j)') = 0
        BY <3>4, FS_EmptySet
      <3> QED
        BY <3>2, <3>5 DEF Balanced, Reported
    <2> QED
      BY <1>0, <1>7, <2>3, <2>4, CreatePutEffect
  <1>8. ASSUME UpdateGet(x) \/ ReleaseGet(x), j \in Issued' PROVE Balanced(j)'
    <2>1. CASE Fails(x)
      BY <1>6, <1>8, <2>1
    <2>2. CASE /\ \E pc \in {"uPut", "rPut"} : \E s : Acts(x, pc, req[x].code, s)
               /\ UNCHANGED <<sessions, records>>
      <3>1. req'[x].code # 201 /\ ~InEffect(x)'
        BY <1>0, <2>2 DEF Acts, Known, InEffect
      <3>2. Charged(j)' = Charged(j)
        BY <2>2 DEF Charged
      <3> QED
        BY <1>4, <1>5, <1>8, <3>1, <3>2
    <2> QED
      BY <1>8, <2>1, <2>2, UpdateGetEffect, ReleaseGetEffect
  <1>9. ASSUME UpdatePut(x), j \in Issued' PROVE Balanced(j)'
    <2>1. CASE Fails(x)
      BY <1>6, <1>9, <2>1
    <2>2. CASE sessions' = [sessions EXCEPT ![req[x].id] = req[x].ses] /\ Answered(x, 200)
      <3>1. req[x].pc = "uPut" /\ req[x].kind = "update" /\ req[x].vol \in Nat
        BY <1>0, <1>9, UpdatePutEffect, VolumeType DEF Known
      <3>2. req'[x].code # 201 /\ InEffect(x)'
        BY <1>0, <1>1, <2>2, <3>1 DEF Answered, Acts, Known, InEffect
      <3>3. j \in Issued /\ Balanced(j)
        BY <1>5, <1>9, <3>2
      <3>4. /\ IsFiniteSet(Units(j)')
            /\ Cardinality(Units(j)') = Cardinality(Units(j)) + req[x].vol
        BY <1>0, <1>1, <1>2, <1>k, <3>1, <3>2, <3>3, UnitsAdded DEF Balanced
      <3> DEFINE s == sessions[j]
      <3>5. /\ s \in ChargingSession /\ s # NoSession
            /\ sessions'[j] = Charge(s, req[x].vol)
        <4>1. Current(x)
          OBVIOUS
        <4>2. s # NoSession /\ req[x].ses = Charge(s, req[x].vol)
          BY <1>2, <1>k, <3>1, <4>1 DEF Current
        <4>3. s \in ChargingSession
          BY <1>2, <1>k, <3>1, <4>2, ReadSession
        <4> QED
          BY <1>0, <1>2, <1>k, <2>2, <4>2, <4>3 DEF TypeOK
      <3>6. sessions'[j].used = s.used + req[x].vol /\ sessions'[j] \in ChargingSession
        BY <3>1, <3>5, ChargeType
      <3>7. Charged(j)' = s.used + req[x].vol /\ Charged(j) = s.used
        BY <3>5, <3>6 DEF Charged, ChargingSession, NoSession
      <3> QED
        BY <3>3, <3>4, <3>7 DEF Balanced, Reported
    <2> QED
      BY <1>0, <1>9, <2>1, <2>2, UpdatePutEffect
  <1>10. ASSUME ReleasePut(x), j \in Issued' PROVE Balanced(j)'
    <2>1. CASE Fails(x)
      BY <1>6, <1>10, <2>1
    <2>2. CASE Acts(x, "rDel", req[x].code, req[x].ses) /\ UNCHANGED sessions
      <3>1. req'[x].code # 201 /\ ~InEffect(x)'
        BY <1>0, <2>2 DEF Acts, Known, InEffect
      <3>2. sessions[j] # NoSession
        BY <1>0, <1>2, <1>10, <1>k, ReleasePutEffect DEF Current
      <3>3. Charged(j)' = Charged(j)
        BY <2>2, <3>2 DEF Charged
      <3> QED
        BY <1>4, <1>5, <1>10, <3>1, <3>3
    <2> QED
      BY <1>0, <1>10, <2>1, <2>2, ReleasePutEffect
  <1>11. ASSUME ReleaseDelete(x), j \in Issued' PROVE Balanced(j)'
    <2>1. CASE Fails(x)
      BY <1>6, <1>11, <2>1
    <2>2. CASE /\ sessions' = [sessions EXCEPT ![req[x].id] = NoSession]
               /\ Answered(x, 200) /\ UNCHANGED records
      <3>1. req[x].pc = "rDel" /\ req[x].kind = "release"
        BY <1>0, <1>11, ReleaseDeleteEffect DEF Known
      <3>2. req'[x].code # 201 /\ ~InEffect(x)'
        BY <1>0, <1>1, <2>2, <3>1 DEF Answered, Acts, Known, InEffect
      <3>3. sessions[j] # NoSession /\ records[j] = sessions[j].used
        BY <1>2, <1>k, <3>1 DEF Current
      <3>4. sessions'[j] = NoSession
        BY <1>0, <1>2, <1>k, <2>2 DEF TypeOK
      <3>5. Charged(j)' = Charged(j)
        BY <2>2, <3>3, <3>4 DEF Charged
      <3> QED
        BY <1>4, <1>5, <1>11, <3>2, <3>5
    <2> QED
      BY <1>0, <1>11, <2>1, <2>2, ReleaseDeleteEffect
  <1>12. ASSUME Crash(x), j \in Issued' PROVE Balanced(j)'
    BY <1>0, <1>6, <1>12, CrashEffect
  <1> QED
    BY <1>3, <1>7, <1>8, <1>9, <1>10, <1>11, <1>12 DEF Step

LEMMA UsageNext ==
    ASSUME Serial, TypeInv, NameInv, UsageInv, [Next]_vars
    PROVE  UsageInv'
  <1> SUFFICES ASSUME Distinct'
               PROVE  /\ Exclusive'
                      /\ \A x \in Reqs : Current(x)'
                      /\ \A i \in Issued' : Balanced(i)'
    BY DEF UsageInv, Balanced
  <1>0. /\ TypeOK /\ TypeInv' /\ Stays /\ Distinct
        /\ Exclusive /\ \A x \in Reqs : Current(x)
        /\ \A i \in Issued : Balanced(i)
    BY NamesStay, TypeNext DEF TypeInv, UsageInv, Balanced
  <1>1. Exclusive' /\ \A x \in Reqs : Current(x)'
    BY <1>0, ExclusiveNext, CurrentNext
  <1>2. ASSUME UNCHANGED <<sessions, records>>, Issued' \subseteq Issued,
               \A x \in Reqs : InEffect(x)' <=> InEffect(x)
        PROVE  \A i \in Issued' : Balanced(i)'
    <2>1. \A x \in Reqs : InEffect(x) => req'[x].id = req[x].id /\ req'[x].vol = req[x].vol
      BY <1>0 DEF Stays, InEffect
    <2>2. ASSUME NEW i \in Issued' PROVE Balanced(i)'
      <3>1. Units(i)' = Units(i)
        BY <1>2, <2>1, UnitsStay
      <3>2. Charged(i)' = Charged(i)
        BY <1>2 DEF Charged
      <3> QED
        BY <1>0, <1>2, <3>1, <3>2, BalanceStays
    <2> QED
      BY <2>2
  <1>3. ASSUME UNCHANGED vars PROVE \A i \in Issued' : Balanced(i)'
    <2>1. UNCHANGED <<sessions, records>> /\ Issued' \subseteq Issued
      BY <1>3 DEF vars, Issued
    <2>2. \A x \in Reqs : InEffect(x)' <=> InEffect(x)
      BY <1>3 DEF vars, InEffect
    <2> QED
      BY <1>2, <2>1, <2>2
  <1>4. ASSUME Restart PROVE \A i \in Issued' : Balanced(i)'
    <2>1. UNCHANGED <<sessions, records>> /\ Issued' \subseteq Issued
      BY <1>0, <1>4, RestartEffect DEF Restarts, Issued
    <2>2. \A x \in Reqs : InEffect(x)' <=> InEffect(x)
      BY <1>0, <1>4, RestartEffect DEF Restarts, InEffect
    <2> QED
      BY <1>2, <2>1, <2>2
  <1>5. ASSUME NEW x \in Reqs, NEW kind, NEW i, NEW pc, Begins(x, kind, i, pc), pc # "lost"
        PROVE  \A j \in Issued' : Balanced(j)'
    <2>1. req[x].code = 0 /\ req'[x].code = 0 /\ ~InEffect(x)
      BY <1>5 DEF Begins, TypeInv, Known, InEffect
    <2>2. ~InEffect(x)'
      BY <1>5, <2>1 DEF Begins, InEffect
    <2>3. \A y \in Reqs : InEffect(y)' <=> InEffect(y)
      BY <1>5, <2>1, <2>2 DEF Begins, Alone, InEffect
    <2>4. Issued' \subseteq Issued
      BY <1>0, <1>5, <2>1, IssuedSame DEF Begins
    <2> QED
      BY <1>2, <1>5, <2>3, <2>4 DEF Begins
  <1>6. \A i \in Issued' : Balanced(i)'
    BY <1>0, <1>3, <1>4, <1>5, StepCases, UsageStep
  <1> QED
    BY <1>1, <1>6

LEMMA UsageInit == Init => UsageInv
  BY DEF Init, Idle, UsageInv, Exclusive, Runs, Current, Issued

LEMMA UsageHolds ==
    ASSUME Serial
    PROVE  Spec => [](TypeInv /\ NameInv /\ UsageInv)
  <1>1. Init => TypeInv /\ NameInv /\ UsageInv
    BY TypeInit, NameInit, UsageInit
  <1>2. TypeInv /\ NameInv /\ UsageInv /\ [Next]_vars => (TypeInv /\ NameInv /\ UsageInv)'
    BY TypeNext, NameNext, UsageNext
  <1> QED
    BY <1>1, <1>2, PTL DEF Spec

LEMMA FreshDistinct == NameInv /\ NamesFresh => Distinct
  BY DEF NameInv, Counted, NamesFresh, Distinct

(* If requests on a session do not overlap, each report that took effect   *)
(* is charged exactly once, by the session or by the record that           *)
(* charging-release made of it, whatever failed in between.                *)
THEOREM ReportsCharged ==
    ASSUME Serial
    PROVE  Spec => []UsageCharged
  <1>1. NameInv /\ UsageInv => UsageCharged
    BY FreshDistinct DEF UsageInv, UsageCharged, Charged
  <1> QED
    BY <1>1, UsageHolds, PTL

\* No step touches the record of a session that is gone, or brings it back.
LEMMA RecordStep ==
    ASSUME TypeInv, NameInv, UsageInv, [Next]_vars, NamesFresh',
           NEW i \in ChargingIDs, records[i] # NoRecord, sessions[i] = NoSession
    PROVE  records'[i] = records[i] /\ sessions'[i] = NoSession
  <1>0. Distinct /\ \A x \in Reqs : Current(x)
    <2>1. NameInv'
      BY NameNext
    <2>2. Distinct'
      BY <2>1 DEF NameInv, Counted, NamesFresh, Distinct
    <2> QED
      BY <2>2, NamesStay DEF UsageInv
  <1>1. ASSUME NEW x \in Reqs, Step(x)
        PROVE  records'[i] = records[i] /\ sessions'[i] = NoSession
    <2>0. TypeOK
      BY DEF TypeInv
    <2>1. CASE i # req[x].id
      BY <1>1, <2>1, OthersSame
    <2>2. CASE i = req[x].id
      <3>1. req[x].pc \notin {"cPut", "uPut", "rPut", "rDel"}
        BY <1>0, <2>2, CreatedAlone DEF Current
      <3> QED
        BY <1>1, <3>1 DEF Step, CreatePut, UpdateGet, UpdatePut, ReleaseGet, ReleasePut,
                          ReleaseDelete, Crash, Get
    <2> QED
      BY <2>1, <2>2
  <1>2. CASE UNCHANGED <<sessions, records>>
    BY <1>2
  <1>3. Restart \/ UNCHANGED vars => UNCHANGED <<sessions, records>>
    BY DEF Restart, vars
  <1> QED
    BY <1>1, <1>2, <1>3, StepCases DEF Begins

(* If requests on a session do not overlap, a session that                 *)
(* charging-release has turned into a record stays so: no late report      *)
(* stores it again and no repeated release rewrites the record.            *)
THEOREM RecordsFinal ==
    ASSUME Serial
    PROVE  Spec => RecordFinal
  <1>1. TypeInv /\ NameInv /\ UsageInv /\ [Next]_vars =>
          [NamesFresh' =>
             \A i \in ChargingIDs :
               records[i] # NoRecord /\ sessions[i] = NoSession =>
                 records'[i] = records[i] /\ sessions'[i] = NoSession]_vars
    BY RecordStep
  <1> QED
    BY <1>1, UsageHolds, PTL DEF Spec, RecordFinal
=============================================================================
