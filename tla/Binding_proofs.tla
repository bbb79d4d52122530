--------------------------- MODULE Binding_proofs ---------------------------
(***************************************************************************)
(* Proofs about Binding.                                                   *)
(***************************************************************************)
EXTENDS Binding, FiniteSetTheorems, TLAPS

-----------------------------------------------------------------------------
(* What a request knows of itself: which commands its kind has, what it    *)
(* has in hand at each of them, and that it is not answered before it ends.*)
(* binding-register has counted no further than it has been called.        *)
Known(x) ==
    /\ req[x].pc = "idle" => req[x].kind = "none" /\ req[x].code = 0
    /\ req[x].pc # "idle" => req[x].kind # "none"
    /\ req[x].pc \in {"rPut", "rIP", "rSupi"} => req[x].kind = "register"
    /\ req[x].pc \in {"dGet", "dIP", "dSupi", "dDel"} => req[x].kind = "deregister"
    /\ req[x].pc \in {"qIP", "qSupi", "qGet"} => req[x].kind = "discover"
    /\ req[x].kind = "register" => req[x].id \in BindingIDs /\ req[x].rec \in PCFBinding
    /\ req[x].kind = "deregister" => req[x].id \in BindingIDs
    /\ req[x].pc \in {"dIP", "dSupi", "dDel"} => req[x].rec \in PCFBinding
    /\ req[x].pc \in {"rIP", "dIP"} => req[x].rec.ip # None
    /\ req[x].pc = "qIP" => req[x].ask \in Addrs
    /\ req[x].pc = "qSupi" => req[x].ask \in SupiKeys
    /\ req[x].pc = "qGet" => req[x].id \in BindingIDs
    /\ Runs(x) => req[x].code = 0
    /\ req[x].code # 0 => req[x].pc = "done"
    /\ req[x].code = 201 => req[x].kind = "register"

Counted == bindingCounter <= Registrations

TypeInv ==
    /\ TypeOK /\ Counted
    /\ \A x \in Reqs : Known(x)

LEMMA BindingIsSome == \A b \in PCFBinding : b # NoBinding
  BY DEF PCFBinding, NoBinding

LEMMA KeysOf ==
    ASSUME NEW b \in PCFBinding
    PROVE  supiKey(b) \in SupiKeys /\ (b.ip # None => b.ip \in Addrs)
  BY DEF PCFBinding, supiKey, SupiKeys

-----------------------------------------------------------------------------
(* What each step does, without the EXCEPTs.                               *)

\* Request x alone goes on; what is left is its command, answer, identifier
\* and record.
Alone(x) ==
    /\ req' \in [Reqs -> Request]
    /\ \A y \in Reqs : y # x => req'[y] = req[y]
Acts(x, pc, code, i, b) ==
    /\ Alone(x)
    /\ req'[x].kind = req[x].kind /\ req'[x].ask = req[x].ask
    /\ req'[x].pc = pc /\ req'[x].code = code /\ req'[x].id = i /\ req'[x].rec = b
Moves(x, pc) == Acts(x, pc, req[x].code, req[x].id, req[x].rec)
Ends(x, code) == Acts(x, "done", code, req[x].id, req[x].rec)

Codes == {0, 200, 201, 404, 500}

LEMMA SetPC ==
    ASSUME NEW r \in Request, NEW pc \in PC
    PROVE  LET v == [r EXCEPT !.pc = pc] IN
           /\ v \in Request /\ v.pc = pc /\ v.kind = r.kind /\ v.code = r.code
           /\ v.id = r.id /\ v.rec = r.rec /\ v.ask = r.ask
  BY DEF Request

LEMMA SetCode ==
    ASSUME NEW r \in Request, NEW code \in Codes
    PROVE  LET v == [r EXCEPT !.code = code] IN
           /\ v \in Request /\ v.code = code /\ v.kind = r.kind /\ v.pc = r.pc
           /\ v.id = r.id /\ v.rec = r.rec /\ v.ask = r.ask
  BY DEF Request, Codes

LEMMA SetID ==
    ASSUME NEW r \in Request, NEW i \in BindingIDs
    PROVE  LET v == [r EXCEPT !.id = i] IN
           /\ v \in Request /\ v.id = i /\ v.kind = r.kind /\ v.pc = r.pc
           /\ v.code = r.code /\ v.rec = r.rec /\ v.ask = r.ask
  BY DEF Request

LEMMA SetRec ==
    ASSUME NEW r \in Request, NEW b \in PCFBinding
    PROVE  LET v == [r EXCEPT !.rec = b] IN
           /\ v \in Request /\ v.rec = b /\ v.kind = r.kind /\ v.pc = r.pc
           /\ v.code = r.code /\ v.id = r.id /\ v.ask = r.ask
  BY DEF Request

LEMMA SetKind ==
    ASSUME NEW r \in Request, NEW kind \in {"register", "deregister", "discover"}
    PROVE  LET v == [r EXCEPT !.kind = kind] IN
           /\ v \in Request /\ v.kind = kind /\ v.rec = r.rec /\ v.pc = r.pc
           /\ v.code = r.code /\ v.id = r.id /\ v.ask = r.ask
  BY DEF Request

LEMMA SetAsk ==
    ASSUME NEW r \in Request, NEW k \in Addrs \cup SupiKeys
    PROVE  LET v == [r EXCEPT !.ask = k] IN
           /\ v \in Request /\ v.ask = k /\ v.kind = r.kind /\ v.pc = r.pc
           /\ v.code = r.code /\ v.id = r.id /\ v.rec = r.rec
  BY DEF Request

LEMMA SetRequest ==
    ASSUME TypeOK, NEW x \in Reqs, NEW v \in Request, req' = [req EXCEPT ![x] = v]
    PROVE  Alone(x) /\ req'[x] = v
  BY DEF TypeOK, Alone

LEMMA AtEffect ==
    ASSUME TypeOK, NEW x \in Reqs, NEW pc \in PC, req' = At(x, pc)
    PROVE  Moves(x, pc)
  <1> DEFINE v == [req[x] EXCEPT !.pc = pc]
  <1>1. req[x] \in Request /\ DOMAIN req = Reqs
    BY DEF TypeOK
  <1>2. /\ v \in Request /\ v.pc = pc /\ v.kind = req[x].kind /\ v.code = req[x].code
        /\ v.id = req[x].id /\ v.rec = req[x].rec /\ v.ask = req[x].ask
    BY <1>1, SetPC
  <1>3. req' = [req EXCEPT ![x] = v]
    BY <1>1, Zenon DEF At
  <1> HIDE DEF v
  <1> QED
    BY <1>2, <1>3, SetRequest DEF Acts, Moves

LEMMA ReplyEffect ==
    ASSUME TypeOK, NEW x \in Reqs, NEW code \in Codes, req' = Reply(x, code)
    PROVE  Ends(x, code)
  <1> DEFINE w == [req[x] EXCEPT !.pc = "done"]
             v == [w EXCEPT !.code = code]
  <1>1. req[x] \in Request /\ DOMAIN req = Reqs /\ "done" \in PC
    BY DEF TypeOK, PC
  <1>2. /\ w \in Request /\ w.pc = "done" /\ w.kind = req[x].kind
        /\ w.id = req[x].id /\ w.rec = req[x].rec /\ w.ask = req[x].ask
    BY <1>1, SetPC
  <1>3. req' = [req EXCEPT ![x] = v]
    BY <1>1, Zenon DEF Reply
  <1> HIDE DEF w
  <1>4. /\ v \in Request /\ v.code = code /\ v.kind = w.kind /\ v.pc = w.pc
        /\ v.id = w.id /\ v.rec = w.rec /\ v.ask = w.ask
    BY <1>2, SetCode
  <1> HIDE DEF v
  <1> QED
    BY <1>2, <1>3, <1>4, SetRequest DEF Acts, Ends

LEMMA ReadEffect ==
    ASSUME TypeOK, NEW x \in Reqs, NEW pc \in PC, NEW b \in PCFBinding,
           req' = [req EXCEPT ![x].pc = pc, ![x].rec = b]
    PROVE  Acts(x, pc, req[x].code, req[x].id, b)
  <1> DEFINE w == [req[x] EXCEPT !.pc = pc]
             v == [w EXCEPT !.rec = b]
  <1>1. req[x] \in Request /\ DOMAIN req = Reqs
    BY DEF TypeOK
  <1>2. /\ w \in Request /\ w.pc = pc /\ w.kind = req[x].kind /\ w.code = req[x].code
        /\ w.id = req[x].id /\ w.ask = req[x].ask
    BY <1>1, SetPC, Zenon
  <1>3. req' = [req EXCEPT ![x] = v]
    BY <1>1, Zenon
  <1> HIDE DEF w
  <1>4. /\ v \in Request /\ v.rec = b /\ v.kind = w.kind /\ v.pc = w.pc
        /\ v.code = w.code /\ v.id = w.id /\ v.ask = w.ask
    BY <1>2, SetRec, Zenon
  <1> HIDE DEF v
  <1>5. Alone(x) /\ req'[x] = v
    BY <1>3, <1>4, SetRequest, Zenon
  <1> QED
    BY <1>2, <1>4, <1>5, Zenon DEF Acts

LEMMA FollowEffect ==
    ASSUME TypeOK, NEW x \in Reqs, NEW pc \in PC, NEW i \in BindingIDs,
           req' = [req EXCEPT ![x].pc = pc, ![x].id = i]
    PROVE  Acts(x, pc, req[x].code, i, req[x].rec)
  <1> DEFINE w == [req[x] EXCEPT !.pc = pc]
             v == [w EXCEPT !.id = i]
  <1>1. req[x] \in Request /\ DOMAIN req = Reqs
    BY DEF TypeOK
  <1>2. /\ w \in Request /\ w.pc = pc /\ w.kind = req[x].kind /\ w.code = req[x].code
        /\ w.rec = req[x].rec /\ w.ask = req[x].ask
    BY <1>1, SetPC, Zenon
  <1>3. req' = [req EXCEPT ![x] = v]
    BY <1>1, Zenon
  <1> HIDE DEF w
  <1>4. /\ v \in Request /\ v.id = i /\ v.kind = w.kind /\ v.pc = w.pc
        /\ v.code = w.code /\ v.rec = w.rec /\ v.ask = w.ask
    BY <1>2, SetID, Zenon
  <1> HIDE DEF v
  <1>5. Alone(x) /\ req'[x] = v
    BY <1>3, <1>4, SetRequest, Zenon
  <1> QED
    BY <1>2, <1>4, <1>5, Zenon DEF Acts

LEMMA FoundEffect ==
    ASSUME TypeOK, NEW x \in Reqs, NEW b \in PCFBinding,
           req' = [Reply(x, 200) EXCEPT ![x].rec = b]
    PROVE  Acts(x, "done", 200, req[x].id, b)
  <1> DEFINE w1 == [req[x] EXCEPT !.pc = "done"]
             w2 == [w1 EXCEPT !.code = 200]
             v == [w2 EXCEPT !.rec = b]
  <1>1. req[x] \in Request /\ DOMAIN req = Reqs /\ "done" \in PC /\ 200 \in Codes
    BY DEF TypeOK, PC, Codes
  <1>2. /\ w1 \in Request /\ w1.pc = "done" /\ w1.kind = req[x].kind
        /\ w1.id = req[x].id /\ w1.ask = req[x].ask
    BY <1>1, SetPC, Zenon
  <1>3. req' = [req EXCEPT ![x] = v]
    <2>1. Reply(x, 200) = [req EXCEPT ![x] = w2]
      BY <1>1, Zenon DEF Reply
    <2>2. Reply(x, 200)[x] = w2 /\ DOMAIN Reply(x, 200) = Reqs
      BY <1>1, <2>1, Zenon
    <2>3. req' = [[req EXCEPT ![x] = w2] EXCEPT ![x] = v]
      BY <1>1, <2>1, <2>2, Zenon
    <2> HIDE DEF w1, w2, v
    <2> QED
      BY <1>1, <2>3
  <1> HIDE DEF w1
  <1>4. /\ w2 \in Request /\ w2.code = 200 /\ w2.kind = w1.kind /\ w2.pc = w1.pc
        /\ w2.id = w1.id /\ w2.ask = w1.ask
    BY <1>1, <1>2, SetCode, Zenon
  <1> HIDE DEF w2
  <1>5. /\ v \in Request /\ v.rec = b /\ v.kind = w2.kind /\ v.pc = w2.pc
        /\ v.code = w2.code /\ v.id = w2.id /\ v.ask = w2.ask
    BY <1>4, SetRec
  <1> HIDE DEF v
  <1>6. Alone(x) /\ req'[x] = v
    BY <1>3, <1>5, SetRequest, Zenon
  <1> QED
    BY <1>2, <1>4, <1>5, <1>6, Zenon DEF Acts

\* A request has done its work; or it fails, and leaves everything as it was.
Answered(x, code) == Ends(x, code) \/ Moves(x, "lost")
Fails(x) ==
    /\ (\E code \in {404, 500} : Ends(x, code)) \/ Moves(x, "crashed")
    /\ UNCHANGED keys

LEMMA AnswerEffect ==
    ASSUME TypeOK, NEW x \in Reqs, NEW code \in {200, 201}, Answer(x, code)
    PROVE  Answered(x, code)
  BY AtEffect, ReplyEffect DEF Answer, Answered, PC, Codes

LEMMA FailEffect ==
    ASSUME TypeOK, NEW x \in Reqs, NEW code \in {404, 500}, req' = Reply(x, code), UNCHANGED keys
    PROVE  Fails(x)
  BY ReplyEffect DEF Fails, Codes

LEMMA RegisterPutEffect ==
    ASSUME TypeOK, NEW x \in Reqs, RegisterPut(x)
    PROVE  /\ req[x].pc = "rPut"
           /\ \/ /\ bindings' = [bindings EXCEPT ![req[x].id] = req[x].rec]
                 /\ Moves(x, IF req[x].rec.ip # None THEN "rIP" ELSE "rSupi")
                 /\ UNCHANGED <<byIP, bySupi, kept>>
              \/ Fails(x)
           /\ UNCHANGED <<bindingCounter, restarts>>
  BY AtEffect, FailEffect DEF RegisterPut, PC, keys

LEMMA RegisterIPEffect ==
    ASSUME TypeOK, NEW x \in Reqs, RegisterIP(x)
    PROVE  /\ req[x].pc = "rIP"
           /\ \/ /\ byIP' = [byIP EXCEPT ![req[x].rec.ip] = req[x].id]
                 /\ kept' = kept \ {req[x].rec.ip}
                 /\ Moves(x, "rSupi")
                 /\ UNCHANGED <<bindings, bySupi>>
              \/ Fails(x)
           /\ UNCHANGED <<bindingCounter, restarts>>
  BY AtEffect, FailEffect DEF RegisterIP, PC, keys

LEMMA RegisterSupiEffect ==
    ASSUME TypeOK, NEW x \in Reqs, RegisterSupi(x)
    PROVE  /\ req[x].pc = "rSupi"
           /\ \/ /\ bySupi' = [bySupi EXCEPT ![supiKey(req[x].rec)] = req[x].id]
                 /\ kept' = kept \ {supiKey(req[x].rec)}
                 /\ Answered(x, 201)
                 /\ UNCHANGED <<bindings, byIP>>
              \/ Fails(x)
           /\ UNCHANGED <<bindingCounter, restarts>>
  BY AnswerEffect, FailEffect DEF RegisterSupi, keys

LEMMA DeregisterGetEffect ==
    ASSUME TypeInv, NEW x \in Reqs, DeregisterGet(x)
    PROVE  LET b == bindings[req[x].id] IN
           /\ req[x].pc = "dGet"
           /\ \/ /\ b \in PCFBinding /\ b # NoBinding
                 /\ Acts(x, IF b.ip # None THEN "dIP" ELSE "dSupi", req[x].code, req[x].id, b)
                 /\ UNCHANGED keys
              \/ Fails(x)
           /\ UNCHANGED <<bindingCounter, restarts>>
  <1> DEFINE b == bindings[req[x].id]
             pc == IF b.ip # None THEN "dIP" ELSE "dSupi"
  <1>0. /\ TypeOK /\ req[x].pc = "dGet" /\ UNCHANGED <<keys, bindingCounter, restarts>>
    BY Zenon DEF DeregisterGet, TypeInv
  <1>1. CASE b # NoBinding /\ req' = [req EXCEPT ![x].pc = pc, ![x].rec = b]
    <2>1. Known(x) /\ TypeOK
      BY Zenon DEF TypeInv
    <2>2. req[x].id \in BindingIDs
      BY <1>0, <2>1, Zenon DEF Known
    <2>3. b \in PCFBinding /\ pc \in PC
      BY <1>1, <2>1, <2>2, Zenon DEF TypeOK, PC
    <2>4. b # NoBinding /\ req' = [req EXCEPT ![x].pc = pc, ![x].rec = b]
      BY <1>1
    <2> HIDE DEF b, pc
    <2>5. Acts(x, pc, req[x].code, req[x].id, b)
      BY <1>0, <2>3, <2>4, ReadEffect, Zenon
    <2> QED
      BY <1>0, <2>3, <2>4, <2>5, Zenon DEF b, pc
  <1>2. CASE req' = Reply(x, 404)
    BY <1>0, <1>2, FailEffect DEF keys
  <1>3. CASE req' = Reply(x, 500)
    BY <1>0, <1>3, FailEffect DEF keys
  <1> QED
    BY <1>1, <1>2, <1>3, Zenon DEF DeregisterGet

LEMMA DeregisterIPEffect ==
    ASSUME TypeOK, NEW x \in Reqs, DeregisterIP(x)
    PROVE  /\ req[x].pc = "dIP"
           /\ \/ byIP' = [byIP EXCEPT ![req[x].rec.ip] = None] /\ kept' = kept \ {req[x].rec.ip}
              \/ kept' = kept \cup {req[x].rec.ip} /\ UNCHANGED byIP
           /\ Moves(x, "dSupi")
           /\ UNCHANGED <<bindings, bySupi, bindingCounter, restarts>>
  BY AtEffect DEF DeregisterIP, PC

LEMMA DeregisterSupiEffect ==
    ASSUME TypeOK, NEW x \in Reqs, DeregisterSupi(x)
    PROVE  /\ req[x].pc = "dSupi"
           /\ \/ /\ bySupi' = [bySupi EXCEPT ![supiKey(req[x].rec)] = None]
                 /\ kept' = kept \ {supiKey(req[x].rec)}
              \/ kept' = kept \cup {supiKey(req[x].rec)} /\ UNCHANGED bySupi
           /\ Moves(x, "dDel")
           /\ UNCHANGED <<bindings, byIP, bindingCounter, restarts>>
  BY AtEffect DEF DeregisterSupi, PC

LEMMA DeregisterDeleteEffect ==
    ASSUME TypeOK, NEW x \in Reqs, DeregisterDelete(x)
    PROVE  /\ req[x].pc = "dDel"
           /\ \/ bindings' = [bindings EXCEPT ![req[x].id] = NoBinding]
              \/ UNCHANGED bindings
           /\ Answered(x, 200)
           /\ UNCHANGED <<byIP, bySupi, kept, bindingCounter, restarts>>
  BY AnswerEffect DEF DeregisterDelete

\* The index that a discovery reads.
Leads(x) == IF req[x].pc = "qIP" THEN byIP[req[x].ask] ELSE bySupi[req[x].ask]

LEMMA DiscoverIndexEffect ==
    ASSUME TypeInv, NEW x \in Reqs, DiscoverIndex(x)
    PROVE  /\ req[x].pc \in {"qIP", "qSupi"}
           /\ \/ /\ Leads(x) # None /\ Leads(x) \in BindingIDs
                 /\ Acts(x, "qGet", req[x].code, Leads(x), req[x].rec)
                 /\ UNCHANGED keys
              \/ Fails(x)
           /\ UNCHANGED <<bindingCounter, restarts>>
  <1> DEFINE i == IF req[x].pc = "qIP" THEN byIP[req[x].ask] ELSE bySupi[req[x].ask]
  <1>0. /\ TypeOK /\ Known(x) /\ req[x].pc \in {"qIP", "qSupi"}
        /\ UNCHANGED <<keys, bindingCounter, restarts>>
    BY Zenon DEF DiscoverIndex, TypeInv
  <1>1. CASE i # None /\ req' = [req EXCEPT ![x].pc = "qGet", ![x].id = i]
    <2>1. i \in BindingIDs
      <3>1. CASE req[x].pc = "qIP"
        <4>1. req[x].ask \in Addrs
          BY <1>0, <3>1, Zenon DEF Known
        <4>2. byIP[req[x].ask] \in BindingIDs \cup {None}
          BY <1>0, <4>1, Zenon DEF TypeOK
        <4> QED
          BY <1>1, <3>1, <4>2, Zenon
      <3>2. CASE req[x].pc = "qSupi"
        <4>1. req[x].ask \in SupiKeys
          BY <1>0, <3>2, Zenon DEF Known
        <4>2. bySupi[req[x].ask] \in BindingIDs \cup {None} /\ req[x].pc # "qIP"
          BY <1>0, <3>2, <4>1, Zenon DEF TypeOK
        <4> QED
          BY <1>1, <3>2, <4>2, Zenon
      <3> QED
        BY <1>0, <3>1, <3>2, Zenon
    <2>2. "qGet" \in PC
      BY DEF PC
    <2>3. i # None /\ req' = [req EXCEPT ![x].pc = "qGet", ![x].id = i]
      BY <1>1
    <2> HIDE DEF i
    <2>4. Acts(x, "qGet", req[x].code, i, req[x].rec)
      BY <1>0, <2>1, <2>2, <2>3, FollowEffect, Zenon
    <2> QED
      BY <1>0, <2>1, <2>3, <2>4, Zenon DEF i, Leads
  <1>2. CASE req' = Reply(x, 404)
    BY <1>0, <1>2, FailEffect DEF keys
  <1>3. CASE req' = Reply(x, 500)
    BY <1>0, <1>3, FailEffect DEF keys
  <1> QED
    BY <1>1, <1>2, <1>3, Zenon DEF DiscoverIndex

LEMMA DiscoverGetEffect ==
    ASSUME TypeInv, NEW x \in Reqs, DiscoverGet(x)
    PROVE  LET b == bindings[req[x].id] IN
           /\ req[x].pc = "qGet"
           /\ \/ /\ b \in PCFBinding /\ b # NoBinding
                 /\ Acts(x, "done", 200, req[x].id, b)
                 /\ UNCHANGED keys
              \/ Fails(x)
           /\ UNCHANGED <<bindingCounter, restarts>>
  <1> DEFINE b == bindings[req[x].id]
  <1>0. /\ TypeOK /\ Known(x) /\ req[x].pc = "qGet" /\ UNCHANGED <<keys, bindingCounter, restarts>>
    BY Zenon DEF DiscoverGet, TypeInv
  <1>1. CASE b # NoBinding /\ req' = [Reply(x, 200) EXCEPT ![x].rec = b]
    <2>1. req[x].id \in BindingIDs
      BY <1>0, Zenon DEF Known
    <2>2. b \in PCFBinding
      BY <1>0, <1>1, <2>1, Zenon DEF TypeOK
    <2>3. b # NoBinding /\ req' = [Reply(x, 200) EXCEPT ![x].rec = b]
      BY <1>1
    <2> HIDE DEF b
    <2>4. Acts(x, "done", 200, req[x].id, b)
      BY <1>0, <2>2, <2>3, FoundEffect, Zenon
    <2> QED
      BY <1>0, <2>2, <2>3, <2>4, Zenon DEF b
  <1>2. CASE req' = Reply(x, 404)
    BY <1>0, <1>2, FailEffect DEF keys
  <1>3. CASE req' = Reply(x, 500)
    BY <1>0, <1>3, FailEffect DEF keys
  <1> QED
    BY <1>1, <1>2, <1>3, Zenon DEF DiscoverGet

LEMMA CrashEffect ==
    ASSUME TypeOK, NEW x \in Reqs, Crash(x)
    PROVE  req[x].pc \in {"dSupi", "dDel"} /\ Fails(x) /\ UNCHANGED <<bindingCounter, restarts>>
  BY AtEffect DEF Crash, Fails, PC, keys

\* A request begins, of the kind, with the first command, identifier, record
\* and question that follow.
Begins(x, kind, pc) ==
    /\ Alone(x) /\ req[x].pc = "idle"
    /\ req'[x].kind = kind /\ req'[x].pc = pc /\ req'[x].code = req[x].code
    /\ UNCHANGED <<keys, restarts>>

LEMMA RegistrationsNat ==
    /\ IsFiniteSet({x \in Reqs : req[x].kind = "register"})
    /\ Registrations \in Nat
  <1>1. IsFiniteSet({x \in Reqs : req[x].kind = "register"})
    BY ConstantsAssumption, FS_Subset
  <1> QED
    BY <1>1, FS_CardinalityType DEF Registrations

LEMMA RegisterStartEffect ==
    ASSUME TypeInv, NEW x \in Reqs, NEW b \in PCFBinding, RegisterStart(x, b)
    PROVE  /\ Begins(x, "register", "rPut")
           /\ req'[x].id = <<b.supi, bindingCounter + 1>> /\ req'[x].id \in BindingIDs
           /\ req'[x].rec = b
           /\ bindingCounter' = bindingCounter + 1 /\ bindingCounter' \in 0 .. MaxID
           /\ Serial => Free(b)
  <1> DEFINE i == <<b.supi, bindingCounter + 1>>
             w1 == [req[x] EXCEPT !.kind = "register"]
             w2 == [w1 EXCEPT !.pc = "rPut"]
             w3 == [w2 EXCEPT !.id = i]
             v == [w3 EXCEPT !.rec = b]
  <1>1. /\ TypeOK /\ Counted /\ req[x] \in Request /\ DOMAIN req = Reqs
        /\ "register" \in {"register", "deregister", "discover"} /\ "rPut" \in PC
    BY Zenon DEF TypeInv, TypeOK, PC
  <1>2. /\ req[x].pc = "idle" /\ Registrations < MaxID /\ bindingCounter' = bindingCounter + 1
        /\ UNCHANGED <<keys, restarts>>
        /\ Serial => Free(b)
    BY Zenon DEF RegisterStart
  <1>3. req' = [req EXCEPT ![x] = v]
    BY <1>1, Zenon DEF RegisterStart
  <1>4. bindingCounter + 1 \in 1 .. MaxID
    <2>1. bindingCounter \in Nat /\ MaxID \in Nat
      BY <1>1, ConstantsAssumption DEF TypeOK
    <2> QED
      BY <1>1, <1>2, <2>1, RegistrationsNat DEF Counted
  <1>5. i \in BindingIDs
    BY <1>4 DEF BindingIDs, PCFBinding
  <1> HIDE DEF i
  <1>6. w1 \in Request /\ w1.kind = "register" /\ w1.code = req[x].code
    BY <1>1, SetKind, Zenon
  <1> HIDE DEF w1
  <1>7. w2 \in Request /\ w2.kind = w1.kind /\ w2.pc = "rPut" /\ w2.code = w1.code
    BY <1>1, <1>6, SetPC, Zenon
  <1> HIDE DEF w2
  <1>8. w3 \in Request /\ w3.kind = w2.kind /\ w3.pc = w2.pc /\ w3.code = w2.code /\ w3.id = i
    BY <1>5, <1>7, SetID, Zenon
  <1> HIDE DEF w3
  <1>9. /\ v \in Request /\ v.kind = w3.kind /\ v.pc = w3.pc /\ v.code = w3.code
        /\ v.id = w3.id /\ v.rec = b
    BY <1>8, SetRec, Zenon
  <1> HIDE DEF v
  <1>10. Alone(x) /\ req'[x] = v
    BY <1>1, <1>3, <1>9, SetRequest, Zenon
  <1>11. Begins(x, "register", "rPut")
    BY <1>2, <1>6, <1>7, <1>8, <1>9, <1>10, Zenon DEF Begins
  <1>12. req'[x].id = i /\ req'[x].rec = b
    BY <1>8, <1>9, <1>10, Zenon
  <1>13. bindingCounter' \in 0 .. MaxID
    BY <1>2, <1>4
  <1> QED
    BY <1>2, <1>5, <1>11, <1>12, <1>13, Zenon DEF i

LEMMA DeregisterStartEffect ==
    ASSUME TypeOK, NEW x \in Reqs, NEW i \in BindingIDs, DeregisterStart(x, i)
    PROVE  /\ Begins(x, "deregister", "dGet") /\ req'[x].id = i
           /\ UNCHANGED bindingCounter
  <1> DEFINE w1 == [req[x] EXCEPT !.kind = "deregister"]
             w2 == [w1 EXCEPT !.pc = "dGet"]
             v == [w2 EXCEPT !.id = i]
  <1>1. /\ req[x] \in Request /\ DOMAIN req = Reqs
        /\ "deregister" \in {"register", "deregister", "discover"} /\ "dGet" \in PC
    BY Zenon DEF TypeOK, PC
  <1>2. req[x].pc = "idle" /\ UNCHANGED <<keys, bindingCounter, restarts>>
    BY Zenon DEF DeregisterStart
  <1>3. req' = [req EXCEPT ![x] = v]
    BY <1>1, Zenon DEF DeregisterStart
  <1>4. w1 \in Request /\ w1.kind = "deregister" /\ w1.code = req[x].code
    BY <1>1, SetKind, Zenon
  <1> HIDE DEF w1
  <1>5. w2 \in Request /\ w2.kind = w1.kind /\ w2.pc = "dGet" /\ w2.code = w1.code
    BY <1>1, <1>4, SetPC, Zenon
  <1> HIDE DEF w2
  <1>6. v \in Request /\ v.kind = w2.kind /\ v.pc = w2.pc /\ v.code = w2.code /\ v.id = i
    BY <1>5, SetID, Zenon
  <1> HIDE DEF v
  <1>7. Alone(x) /\ req'[x] = v
    BY <1>3, <1>6, SetRequest, Zenon
  <1> QED
    BY <1>2, <1>4, <1>5, <1>6, <1>7, Zenon DEF Begins

LEMMA DiscoverStartEffect ==
    ASSUME TypeOK, NEW x \in Reqs, NEW k \in Addrs \cup SupiKeys, DiscoverStart(x, k)
    PROVE  /\ Begins(x, "discover", IF k \in Addrs THEN "qIP" ELSE "qSupi")
           /\ req'[x].ask = k
           /\ UNCHANGED bindingCounter
  <1> DEFINE pc == IF k \in Addrs THEN "qIP" ELSE "qSupi"
             w1 == [req[x] EXCEPT !.kind = "discover"]
             w2 == [w1 EXCEPT !.ask = k]
             v == [w2 EXCEPT !.pc = pc]
  <1>1. /\ req[x] \in Request /\ DOMAIN req = Reqs
        /\ "discover" \in {"register", "deregister", "discover"} /\ pc \in PC
    BY Zenon DEF TypeOK, PC
  <1>2. req[x].pc = "idle" /\ UNCHANGED <<keys, bindingCounter, restarts>>
    BY Zenon DEF DiscoverStart
  <1>3. req' = [req EXCEPT ![x] = v]
    BY <1>1, Zenon DEF DiscoverStart
  <1> HIDE DEF pc
  <1>4. w1 \in Request /\ w1.kind = "discover" /\ w1.code = req[x].code
    BY <1>1, SetKind, Zenon
  <1> HIDE DEF w1
  <1>5. w2 \in Request /\ w2.kind = w1.kind /\ w2.ask = k /\ w2.code = w1.code
    BY <1>4, SetAsk, Zenon
  <1> HIDE DEF w2
  <1>6. v \in Request /\ v.kind = w2.kind /\ v.pc = pc /\ v.code = w2.code /\ v.ask = w2.ask
    BY <1>1, <1>5, SetPC, Zenon
  <1> HIDE DEF v
  <1>7. Alone(x) /\ req'[x] = v
    BY <1>3, <1>6, SetRequest, Zenon
  <1> QED
    BY <1>2, <1>4, <1>5, <1>6, <1>7, Zenon DEF Begins, pc

\* What Restart does to a request.
Restarts(x) ==
    /\ req'[x].kind = req[x].kind /\ req'[x].id = req[x].id /\ req'[x].rec = req[x].rec
    /\ req'[x].code = req[x].code /\ req'[x].ask = req[x].ask
    /\ req[x].kind = "register" /\ Runs(x) => req'[x].pc = "crashed"
    /\ ~(req[x].kind = "register" /\ Runs(x)) => req'[x].pc = req[x].pc

LEMMA RestartEffect ==
    ASSUME TypeOK, Restart
    PROVE  /\ req' \in [Reqs -> Request] /\ \A x \in Reqs : Restarts(x)
           /\ bindingCounter' = 0 /\ restarts' = restarts + 1 /\ restarts' \in 0 .. MaxRestarts
           /\ UNCHANGED keys
  <1> DEFINE v(x) == IF req[x].kind = "register" /\ Runs(x)
                       THEN [req[x] EXCEPT !.pc = "crashed"] ELSE req[x]
  <1>1. ASSUME NEW x \in Reqs
        PROVE  /\ v(x) \in Request /\ v(x).kind = req[x].kind /\ v(x).id = req[x].id
               /\ v(x).rec = req[x].rec /\ v(x).code = req[x].code /\ v(x).ask = req[x].ask
               /\ req[x].kind = "register" /\ Runs(x) => v(x).pc = "crashed"
               /\ ~(req[x].kind = "register" /\ Runs(x)) => v(x).pc = req[x].pc
    <2>1. req[x] \in Request /\ "crashed" \in PC
      BY DEF TypeOK, PC
    <2> QED
      BY <2>1, SetPC
  <1>2. req' = [x \in Reqs |-> v(x)]
    BY DEF Restart
  <1> HIDE DEF v
  <1>3. req' \in [Reqs -> Request] /\ \A x \in Reqs : Restarts(x)
    BY <1>1, <1>2 DEF Restarts
  <1> QED
    BY <1>3, ConstantsAssumption DEF Restart, TypeOK

\* The ways in which a step begins, continues or ends requests.
LEMMA StepCases ==
    ASSUME TypeInv, [Next]_vars
    PROVE  \/ UNCHANGED vars
           \/ Restart
           \/ \E x \in Reqs : Step(x)
           \/ \E x \in Reqs, b \in PCFBinding : RegisterStart(x, b)
           \/ \E x \in Reqs, y \in Reqs :
                /\ Bound(y) /\ (Serial => Closable(y)) /\ req[y].id \in BindingIDs
                /\ DeregisterStart(x, req[y].id)
           \/ \E x \in Reqs, k \in Addrs \cup SupiKeys : DiscoverStart(x, k)
  BY DEF Next, Bound, TypeInv, Known

-----------------------------------------------------------------------------
(* Type correctness.                                                       *)

KeyTypes ==
    /\ bindings \in [BindingIDs -> PCFBinding \cup {NoBinding}]
    /\ byIP \in [Addrs -> BindingIDs \cup {None}]
    /\ bySupi \in [SupiKeys -> BindingIDs \cup {None}]
    /\ kept \subseteq Addrs \cup SupiKeys

LEMMA TypeInit == Init => TypeInv
  <1> SUFFICES ASSUME Init PROVE TypeInv
    OBVIOUS
  <1>1. TypeOK
    BY ConstantsAssumption DEF Init, TypeOK, Idle, Request, PC
  <1>2. \A x \in Reqs : Known(x)
    BY DEF Init, Idle, Known, Runs
  <1>3. Counted
    BY RegistrationsNat DEF Init, Counted
  <1> QED
    BY <1>1, <1>2, <1>3 DEF TypeInv

LEMMA RegistrationsSame ==
    ASSUME \A x \in Reqs : req'[x].kind = "register" <=> req[x].kind = "register"
    PROVE  Registrations' = Registrations
  <1>1. {x \in Reqs : req'[x].kind = "register"} = {x \in Reqs : req[x].kind = "register"}
    OBVIOUS
  <1> QED
    BY <1>1 DEF Registrations

\* A request that goes on keeps its kind and what it asked for.
LEMMA GoOn ==
    ASSUME TypeInv, NEW x \in Reqs, Alone(x), req'[x].kind = req[x].kind, Known(x)',
           KeyTypes', UNCHANGED <<bindingCounter, restarts>>
    PROVE  TypeInv'
  <1>1. TypeOK'
    BY DEF TypeInv, TypeOK, KeyTypes, Alone
  <1>2. \A y \in Reqs : Known(y)'
    BY DEF TypeInv, Alone, Known, Runs
  <1>3. Counted'
    BY RegistrationsSame DEF TypeInv, Alone, Counted
  <1> QED
    BY <1>1, <1>2, <1>3 DEF TypeInv

LEMMA EndKnown ==
    ASSUME TypeInv, NEW x \in Reqs, Runs(x),
           Fails(x) \/ Answered(x, 200) \/ (Answered(x, 201) /\ req[x].kind = "register")
    PROVE  Alone(x) /\ req'[x].kind = req[x].kind /\ Known(x)'
  <1>1. Known(x) /\ req[x].code = 0
    BY DEF TypeInv, Known
  <1> QED
    BY <1>1 DEF Fails, Answered, Ends, Moves, Acts, Known, Runs

LEMMA TypeStep ==
    ASSUME TypeInv, NEW x \in Reqs, Step(x)
    PROVE  /\ TypeInv' /\ Alone(x) /\ Runs(x) /\ req'[x].kind = req[x].kind
           /\ UNCHANGED <<bindingCounter, restarts>>
  <1>0. TypeOK /\ KeyTypes /\ Known(x)
    BY DEF TypeInv, TypeOK, KeyTypes
  <1>1. ASSUME Runs(x), Fails(x), UNCHANGED <<bindingCounter, restarts>>
        PROVE  TypeInv' /\ Alone(x) /\ req'[x].kind = req[x].kind
    BY <1>0, <1>1, EndKnown, GoOn DEF Fails, keys, KeyTypes
  <1>2. CASE RegisterPut(x)
    <2>1. /\ req[x].pc = "rPut" /\ Runs(x) /\ UNCHANGED <<bindingCounter, restarts>>
          /\ req[x].id \in BindingIDs /\ req[x].rec \in PCFBinding
      BY <1>0, <1>2, RegisterPutEffect DEF Runs, Known
    <2>2. CASE /\ bindings' = [bindings EXCEPT ![req[x].id] = req[x].rec]
               /\ Moves(x, IF req[x].rec.ip # None THEN "rIP" ELSE "rSupi")
               /\ UNCHANGED <<byIP, bySupi, kept>>
      <3>1. Alone(x) /\ req'[x].kind = req[x].kind /\ Known(x)'
        BY <1>0, <2>1, <2>2 DEF Moves, Acts, Known, Runs
      <3>2. KeyTypes'
        BY <1>0, <2>1, <2>2 DEF KeyTypes
      <3> QED
        BY <2>1, <3>1, <3>2, GoOn
    <2> QED
      BY <1>0, <1>1, <1>2, <2>1, <2>2, RegisterPutEffect
  <1>3. CASE RegisterIP(x)
    <2>1. /\ req[x].pc = "rIP" /\ Runs(x) /\ UNCHANGED <<bindingCounter, restarts>>
          /\ req[x].id \in BindingIDs /\ req[x].rec \in PCFBinding /\ req[x].rec.ip \in Addrs
      BY <1>0, <1>3, RegisterIPEffect, KeysOf DEF Runs, Known
    <2>2. CASE /\ byIP' = [byIP EXCEPT ![req[x].rec.ip] = req[x].id]
               /\ kept' = kept \ {req[x].rec.ip}
               /\ Moves(x, "rSupi") /\ UNCHANGED <<bindings, bySupi>>
      <3>1. Alone(x) /\ req'[x].kind = req[x].kind /\ Known(x)'
        BY <1>0, <2>1, <2>2 DEF Moves, Acts, Known, Runs
      <3>2. KeyTypes'
        BY <1>0, <2>1, <2>2 DEF KeyTypes
      <3> QED
        BY <2>1, <3>1, <3>2, GoOn
    <2> QED
      BY <1>0, <1>1, <1>3, <2>1, <2>2, RegisterIPEffect
  <1>4. CASE RegisterSupi(x)
    <2>1. /\ req[x].pc = "rSupi" /\ Runs(x) /\ UNCHANGED <<bindingCounter, restarts>>
          /\ req[x].kind = "register"
          /\ req[x].id \in BindingIDs /\ supiKey(req[x].rec) \in SupiKeys
      BY <1>0, <1>4, RegisterSupiEffect, KeysOf DEF Runs, Known
    <2>2. CASE /\ bySupi' = [bySupi EXCEPT ![supiKey(req[x].rec)] = req[x].id]
               /\ kept' = kept \ {supiKey(req[x].rec)}
               /\ Answered(x, 201) /\ UNCHANGED <<bindings, byIP>>
      <3>1. Alone(x) /\ req'[x].kind = req[x].kind /\ Known(x)'
        BY <2>1, <2>2, EndKnown
      <3>2. KeyTypes'
        BY <1>0, <2>1, <2>2 DEF KeyTypes
      <3> QED
        BY <2>1, <3>1, <3>2, GoOn
    <2> QED
      BY <1>0, <1>1, <1>4, <2>1, <2>2, RegisterSupiEffect
  <1>5. CASE DeregisterGet(x)
    <2> DEFINE b == bindings[req[x].id]
    <2>1. req[x].pc = "dGet" /\ Runs(x) /\ UNCHANGED <<bindingCounter, restarts>>
      BY <1>5, DeregisterGetEffect DEF Runs
    <2>2. CASE /\ b \in PCFBinding
               /\ Acts(x, IF b.ip # None THEN "dIP" ELSE "dSupi", req[x].code, req[x].id, b)
               /\ UNCHANGED keys
      <3> HIDE DEF b
      <3>1. Alone(x) /\ req'[x].kind = req[x].kind /\ Known(x)'
        BY <1>0, <2>1, <2>2 DEF Acts, Known, Runs
      <3>2. KeyTypes'
        BY <1>0, <2>2 DEF KeyTypes, keys
      <3> QED
        BY <2>1, <3>1, <3>2, GoOn
    <2> QED
      BY <1>1, <1>5, <2>1, <2>2, DeregisterGetEffect
  <1>6. CASE DeregisterIP(x)
    <2>1. /\ req[x].pc = "dIP" /\ Runs(x) /\ UNCHANGED <<bindingCounter, restarts>>
          /\ req[x].rec \in PCFBinding /\ req[x].rec.ip \in Addrs
      BY <1>0, <1>6, DeregisterIPEffect, KeysOf DEF Runs, Known
    <2>2. Alone(x) /\ req'[x].kind = req[x].kind /\ Known(x)'
      BY <1>0, <1>6, <2>1, DeregisterIPEffect DEF Moves, Acts, Known, Runs
    <2>3. KeyTypes'
      BY <1>0, <1>6, <2>1, DeregisterIPEffect DEF KeyTypes
    <2> QED
      BY <2>1, <2>2, <2>3, GoOn
  <1>7. CASE DeregisterSupi(x)
    <2>1. /\ req[x].pc = "dSupi" /\ Runs(x) /\ UNCHANGED <<bindingCounter, restarts>>
          /\ req[x].rec \in PCFBinding /\ supiKey(req[x].rec) \in SupiKeys
      BY <1>0, <1>7, DeregisterSupiEffect, KeysOf DEF Runs, Known
    <2>2. Alone(x) /\ req'[x].kind = req[x].kind /\ Known(x)'
      BY <1>0, <1>7, <2>1, DeregisterSupiEffect DEF Moves, Acts, Known, Runs
    <2>3. KeyTypes'
      BY <1>0, <1>7, <2>1, DeregisterSupiEffect DEF KeyTypes
    <2> QED
      BY <2>1, <2>2, <2>3, GoOn
  <1>8. CASE DeregisterDelete(x)
    <2>1. /\ req[x].pc = "dDel" /\ Runs(x) /\ UNCHANGED <<bindingCounter, restarts>>
          /\ req[x].id \in BindingIDs
      BY <1>0, <1>8, DeregisterDeleteEffect DEF Runs, Known
    <2>2. Alone(x) /\ req'[x].kind = req[x].kind /\ Known(x)'
      BY <1>0, <1>8, <2>1, DeregisterDeleteEffect, EndKnown
    <2>3. KeyTypes'
      BY <1>0, <1>8, <2>1, DeregisterDeleteEffect DEF KeyTypes
    <2> QED
      BY <2>1, <2>2, <2>3, GoOn
  <1>9. CASE DiscoverIndex(x)
    <2>1. req[x].pc \in {"qIP", "qSupi"} /\ Runs(x) /\ UNCHANGED <<bindingCounter, restarts>>
      BY <1>9, DiscoverIndexEffect DEF Runs
    <2>2. CASE /\ Leads(x) \in BindingIDs
               /\ Acts(x, "qGet", req[x].code, Leads(x), req[x].rec)
               /\ UNCHANGED keys
      <3>1. Alone(x) /\ req'[x].kind = req[x].kind /\ Known(x)'
        BY <1>0, <2>1, <2>2 DEF Acts, Known, Runs
      <3>2. KeyTypes'
        BY <1>0, <2>2 DEF KeyTypes, keys
      <3> QED
        BY <2>1, <3>1, <3>2, GoOn
    <2> QED
      BY <1>1, <1>9, <2>1, <2>2, DiscoverIndexEffect
  <1>10. CASE DiscoverGet(x)
    <2> DEFINE b == bindings[req[x].id]
    <2>1. req[x].pc = "qGet" /\ Runs(x) /\ UNCHANGED <<bindingCounter, restarts>>
      BY <1>10, DiscoverGetEffect DEF Runs
    <2>2. CASE /\ b \in PCFBinding /\ Acts(x, "done", 200, req[x].id, b) /\ UNCHANGED keys
      <3> HIDE DEF b
      <3>1. Alone(x) /\ req'[x].kind = req[x].kind /\ Known(x)'
        BY <1>0, <2>1, <2>2 DEF Acts, Known, Runs
      <3>2. KeyTypes'
        BY <1>0, <2>2 DEF KeyTypes, keys
      <3> QED
        BY <2>1, <3>1, <3>2, GoOn
    <2> QED
      BY <1>1, <1>10, <2>1, <2>2, DiscoverGetEffect
  <1>11. CASE Crash(x)
    <2>1. Runs(x)
      BY <1>0, <1>11, CrashEffect DEF Runs
    <2> QED
      BY <1>0, <1>1, <1>11, <2>1, CrashEffect
  <1> QED
    BY <1>2, <1>3, <1>4, <1>5, <1>6, <1>7, <1>8, <1>9, <1>10, <1>11 DEF Step

LEMMA TypeNext == TypeInv /\ [Next]_vars => TypeInv'
  <1> SUFFICES ASSUME TypeInv, [Next]_vars PROVE TypeInv'
    OBVIOUS
  <1>0. TypeOK /\ KeyTypes /\ Counted
    BY DEF TypeInv, TypeOK, KeyTypes
  <1>1. CASE UNCHANGED vars
    BY <1>1 DEF vars, TypeInv, TypeOK, Known, Runs, Counted, Registrations
  <1>2. CASE Restart
    <2>1. \A x \in Reqs : Known(x)'
      BY <1>0, <1>2, RestartEffect DEF Restarts, TypeInv, Known, Runs
    <2>2. TypeOK'
      BY <1>0, <1>2, RestartEffect, ConstantsAssumption DEF TypeOK, KeyTypes, keys
    <2>3. Registrations' \in Nat
      <3>1. Registrations' = Registrations
        BY <1>0, <1>2, RestartEffect, RegistrationsSame DEF Restarts
      <3> QED
        BY <3>1, RegistrationsNat
    <2>4. Counted'
      BY <1>0, <1>2, <2>3, RestartEffect DEF Counted
    <2> QED
      BY <2>1, <2>2, <2>4 DEF TypeInv
  <1>3. ASSUME NEW x \in Reqs, NEW kind, NEW pc, Begins(x, kind, pc),
               Known(x)', Counted', bindingCounter' \in 0 .. MaxID
        PROVE  TypeInv'
    <2>1. \A y \in Reqs : Known(y)'
      BY <1>3 DEF Begins, Alone, TypeInv, Known, Runs
    <2>2. TypeOK'
      BY <1>0, <1>3 DEF Begins, Alone, TypeOK, KeyTypes, keys
    <2> QED
      BY <1>3, <2>1, <2>2 DEF TypeInv
  <1>4. ASSUME NEW x \in Reqs, NEW b \in PCFBinding, RegisterStart(x, b) PROVE TypeInv'
    <2>1. /\ Begins(x, "register", "rPut") /\ req'[x].id \in BindingIDs /\ req'[x].rec = b
          /\ bindingCounter' = bindingCounter + 1 /\ bindingCounter' \in 0 .. MaxID
      BY <1>4, RegisterStartEffect
    <2>2. req[x].kind = "none" /\ req[x].code = 0
      BY <2>1 DEF Begins, TypeInv, Known
    <2>3. Known(x)'
      BY <2>1, <2>2 DEF Begins, Known, Runs
    <2> DEFINE R == {y \in Reqs : req[y].kind = "register"}
    <2>4. {y \in Reqs : req'[y].kind = "register"} = R \cup {x} /\ x \notin R
      BY <2>1, <2>2 DEF Begins, Alone
    <2>5. IsFiniteSet(R) /\ Cardinality(R) = Registrations /\ Registrations \in Nat
      BY RegistrationsNat DEF Registrations
    <2> HIDE DEF R
    <2>6. Cardinality(R \cup {x}) = Registrations + 1
      BY <2>4, <2>5, FS_AddElement
    <2>7. Registrations' = Registrations + 1
      BY <2>4, <2>6 DEF Registrations
    <2>8. Counted'
      <3>1. bindingCounter \in Nat
        BY <1>0, ConstantsAssumption DEF TypeOK
      <3> QED
        BY <1>0, <2>1, <2>5, <2>7, <3>1 DEF Counted
    <2> QED
      BY <1>3, <2>1, <2>3, <2>8
  <1>5. ASSUME NEW x \in Reqs, NEW i \in BindingIDs, DeregisterStart(x, i) PROVE TypeInv'
    <2>1. Begins(x, "deregister", "dGet") /\ req'[x].id = i /\ UNCHANGED bindingCounter
      BY <1>0, <1>5, DeregisterStartEffect
    <2>2. req[x].kind = "none" /\ req[x].code = 0
      BY <2>1 DEF Begins, TypeInv, Known
    <2>3. Known(x)'
      BY <2>1, <2>2 DEF Begins, Known, Runs
    <2>4. Registrations' = Registrations
      BY <2>1, <2>2, RegistrationsSame DEF Begins, Alone
    <2> QED
      BY <1>0, <1>3, <2>1, <2>3, <2>4 DEF Counted, TypeOK
  <1>6. ASSUME NEW x \in Reqs, NEW k \in Addrs \cup SupiKeys, DiscoverStart(x, k) PROVE TypeInv'
    <2> DEFINE pc == IF k \in Addrs THEN "qIP" ELSE "qSupi"
    <2>1. Begins(x, "discover", pc) /\ req'[x].ask = k /\ UNCHANGED bindingCounter
      BY <1>0, <1>6, DiscoverStartEffect
    <2>2. req[x].kind = "none" /\ req[x].code = 0
      BY <2>1 DEF Begins, TypeInv, Known
    <2>3. Known(x)'
      BY <2>1, <2>2 DEF Begins, Known, Runs
    <2>4. Registrations' = Registrations
      BY <2>1, <2>2, RegistrationsSame DEF Begins, Alone
    <2> HIDE DEF pc
    <2> QED
      BY <1>0, <1>3, <2>1, <2>3, <2>4 DEF Counted, TypeOK
  <1> QED
    BY <1>1, <1>2, <1>4, <1>5, <1>6, StepCases, TypeStep

(* Every state has the types the BSF relies on, whatever overlaps, fails   *)
(* or restarts; its identifiers stay within the count of registrations.    *)
THEOREM TypeCorrect == Spec => []TypeOK
  <1>1. TypeInv => TypeOK
    BY DEF TypeInv
  <1> QED
    BY <1>1, TypeInit, TypeNext, PTL DEF Spec

-----------------------------------------------------------------------------
(* What a step of x writes, key by key.                                    *)

LEMMA BindingsWritten ==
    ASSUME TypeInv, NEW x \in Reqs, Step(x), NEW i \in BindingIDs
    PROVE  \/ bindings'[i] = bindings[i]
           \/ req[x].pc = "rPut" /\ i = req[x].id /\ bindings'[i] = req[x].rec
           \/ req[x].pc = "dDel" /\ i = req[x].id /\ bindings'[i] = NoBinding
  <1>0. TypeOK
    BY DEF TypeInv
  <1>1. CASE RegisterPut(x)
    BY <1>0, <1>1, RegisterPutEffect DEF TypeOK, Fails, keys
  <1>2. CASE DeregisterDelete(x)
    BY <1>0, <1>2, DeregisterDeleteEffect DEF TypeOK
  <1> QED
    BY <1>1, <1>2 DEF Step, RegisterIP, RegisterSupi, DeregisterGet, DeregisterIP, DeregisterSupi,
                      DiscoverIndex, DiscoverGet, Crash, keys

LEMMA ByIPWritten ==
    ASSUME TypeInv, NEW x \in Reqs, Step(x), NEW a \in Addrs
    PROVE  \/ byIP'[a] = byIP[a] /\ (a \in kept' <=> a \in kept)
              /\ ~(req'[x].pc = "dSupi" /\ req'[x].rec.ip = a)
           \/ /\ req[x].pc = "rIP" /\ a = req[x].rec.ip
              /\ byIP'[a] = req[x].id
           \/ /\ req[x].pc = "dIP" /\ a = req[x].rec.ip
              /\ byIP'[a] = None \/ (byIP'[a] = byIP[a] /\ a \in kept')
  <1>0. TypeOK /\ Known(x)
    BY DEF TypeInv
  <1>1. CASE Fails(x)
    BY <1>1 DEF Fails, Ends, Moves, Acts, keys
  <1>2. CASE RegisterPut(x)
    BY <1>0, <1>1, <1>2, RegisterPutEffect DEF Moves, Acts
  <1>3. CASE RegisterIP(x)
    BY <1>0, <1>1, <1>3, RegisterIPEffect DEF TypeOK, Moves, Acts
  <1>4. CASE RegisterSupi(x)
    <2>1. req[x].pc = "rSupi" /\ supiKey(req[x].rec) # a
      BY <1>0, <1>4, RegisterSupiEffect, KeysOf, ConstantsAssumption DEF Known
    <2> QED
      BY <1>0, <1>1, <1>4, <2>1, RegisterSupiEffect DEF Answered, Ends, Moves, Acts
  <1>5. CASE DeregisterGet(x)
    <2> DEFINE b == bindings[req[x].id]
    <2>1. CASE /\ b \in PCFBinding
               /\ Acts(x, IF b.ip # None THEN "dIP" ELSE "dSupi", req[x].code, req[x].id, b)
               /\ UNCHANGED keys
      <3> HIDE DEF b
      <3> QED
        BY <2>1, ConstantsAssumption DEF Acts, keys
    <2> QED
      BY <1>1, <1>5, <2>1, DeregisterGetEffect
  <1>6. CASE DeregisterIP(x)
    BY <1>0, <1>6, DeregisterIPEffect DEF TypeOK, Moves, Acts
  <1>7. CASE DeregisterSupi(x)
    <2>1. req[x].pc = "dSupi" /\ supiKey(req[x].rec) # a
      BY <1>0, <1>7, DeregisterSupiEffect, KeysOf, ConstantsAssumption DEF Known
    <2> QED
      BY <1>0, <1>7, <2>1, DeregisterSupiEffect DEF Moves, Acts
  <1>8. CASE DeregisterDelete(x)
    BY <1>0, <1>8, DeregisterDeleteEffect DEF Answered, Ends, Moves, Acts
  <1>9. CASE DiscoverIndex(x)
    BY <1>1, <1>9, DiscoverIndexEffect DEF Acts, keys
  <1>10. CASE DiscoverGet(x)
    BY <1>1, <1>10, DiscoverGetEffect DEF Acts, keys
  <1>11. CASE Crash(x)
    BY <1>0, <1>1, <1>11, CrashEffect
  <1> QED
    BY <1>2, <1>3, <1>4, <1>5, <1>6, <1>7, <1>8, <1>9, <1>10, <1>11 DEF Step

LEMMA BySupiWritten ==
    ASSUME TypeInv, NEW x \in Reqs, Step(x), NEW k \in SupiKeys
    PROVE  \/ bySupi'[k] = bySupi[k] /\ (k \in kept' <=> k \in kept) /\ req'[x].pc # "dDel"
           \/ bySupi'[k] = bySupi[k] /\ (k \in kept' <=> k \in kept)
              /\ req[x].pc = "dSupi" /\ k # supiKey(req[x].rec)
           \/ /\ req[x].pc = "rSupi" /\ k = supiKey(req[x].rec)
              /\ bySupi'[k] = req[x].id
           \/ /\ req[x].pc = "dSupi" /\ k = supiKey(req[x].rec)
              /\ bySupi'[k] = None \/ (bySupi'[k] = bySupi[k] /\ k \in kept')
  <1>0. TypeOK /\ Known(x)
    BY DEF TypeInv
  <1>1. CASE Fails(x)
    BY <1>1 DEF Fails, Ends, Moves, Acts, keys
  <1>2. CASE RegisterPut(x)
    BY <1>0, <1>1, <1>2, RegisterPutEffect DEF Moves, Acts
  <1>3. CASE RegisterIP(x)
    <2>1. req[x].pc = "rIP" /\ req[x].rec.ip # k
      BY <1>0, <1>3, RegisterIPEffect, KeysOf, ConstantsAssumption DEF Known
    <2> QED
      BY <1>0, <1>1, <1>3, <2>1, RegisterIPEffect DEF Moves, Acts
  <1>4. CASE RegisterSupi(x)
    BY <1>0, <1>1, <1>4, RegisterSupiEffect DEF TypeOK, Answered, Ends, Moves, Acts
  <1>5. CASE DeregisterGet(x)
    BY <1>1, <1>5, DeregisterGetEffect DEF Acts, keys
  <1>6. CASE DeregisterIP(x)
    <2>1. req[x].pc = "dIP" /\ req[x].rec.ip # k
      BY <1>0, <1>6, DeregisterIPEffect, KeysOf, ConstantsAssumption DEF Known
    <2> QED
      BY <1>0, <1>6, <2>1, DeregisterIPEffect DEF Moves, Acts
  <1>7. CASE DeregisterSupi(x)
    BY <1>0, <1>7, DeregisterSupiEffect DEF TypeOK, Moves, Acts
  <1>8. CASE DeregisterDelete(x)
    BY <1>0, <1>8, DeregisterDeleteEffect DEF Answered, Ends, Moves, Acts
  <1>9. CASE DiscoverIndex(x)
    BY <1>1, <1>9, DiscoverIndexEffect DEF Acts, keys
  <1>10. CASE DiscoverGet(x)
    BY <1>1, <1>10, DiscoverGetEffect DEF Acts, keys
  <1>11. CASE Crash(x)
    BY <1>0, <1>1, <1>11, CrashEffect
  <1> QED
    BY <1>2, <1>3, <1>4, <1>5, <1>6, <1>7, <1>8, <1>9, <1>10, <1>11 DEF Step

\* What x has in hand afterwards.
LEMMA HoldsAfter ==
    ASSUME TypeInv, NEW x \in Reqs, Step(x)
    PROVE  /\ req[x].kind = "register" =>
                req'[x].id = req[x].id /\ req'[x].rec = req[x].rec
           /\ req[x].kind = "deregister" => req'[x].id = req[x].id
           /\ req'[x].pc = "rIP" => req[x].pc = "rPut"
           /\ req'[x].pc \in {"rIP", "rSupi"} =>
                \/ req[x].pc = "rPut" /\ bindings' = [bindings EXCEPT ![req[x].id] = req[x].rec]
                \/ req[x].pc = "rIP"
           /\ req'[x].pc = "rSupi" /\ req[x].rec.ip # None =>
                req[x].pc = "rIP" /\ byIP'[req[x].rec.ip] = req[x].id
           /\ req'[x].pc \in {"dIP", "dSupi", "dDel"} =>
                \/ /\ req[x].pc = "dGet" /\ req'[x].pc # "dDel"
                   /\ req'[x].rec = bindings[req[x].id] /\ req'[x].rec # NoBinding
                   /\ req'[x].pc = "dSupi" => req'[x].rec.ip = None
                \/ /\ req'[x].rec = req[x].rec
                   /\ \/ req[x].pc = "dIP" /\ req'[x].pc = "dSupi"
                      \/ req[x].pc = "dSupi" /\ req'[x].pc = "dDel"
           /\ req'[x].pc = "qGet" =>
                req[x].pc \in {"qIP", "qSupi"} /\ req'[x].id = Leads(x) /\ Leads(x) # None
           /\ req'[x].ask = req[x].ask
           /\ req'[x].code = 201 =>
                /\ req[x].pc = "rSupi" /\ bySupi' = [bySupi EXCEPT ![supiKey(req[x].rec)] = req[x].id]
                /\ UNCHANGED <<bindings, byIP>>
           /\ req[x].kind = "discover" /\ req'[x].code = 200 =>
                /\ req[x].pc = "qGet" /\ req'[x].rec = bindings[req[x].id]
                /\ req'[x].rec # NoBinding
  <1>0. TypeOK /\ Known(x) /\ Runs(x) /\ req[x].code = 0
    BY TypeStep DEF TypeInv, Known
  <1>1. CASE Fails(x)
    BY <1>0, <1>1 DEF Fails, Ends, Moves, Acts
  <1>2. CASE RegisterPut(x)
    BY <1>0, <1>1, <1>2, RegisterPutEffect DEF Moves, Acts, Known
  <1>3. CASE RegisterIP(x)
    <2>1. req[x].pc = "rIP" /\ req[x].rec.ip \in Addrs
      BY <1>0, <1>3, RegisterIPEffect, KeysOf DEF Known
    <2> QED
      BY <1>0, <1>1, <1>3, <2>1, RegisterIPEffect DEF Moves, Acts, Known, TypeOK
  <1>4. CASE RegisterSupi(x)
    BY <1>0, <1>1, <1>4, RegisterSupiEffect DEF Answered, Ends, Moves, Acts, Known
  <1>5. CASE DeregisterGet(x)
    <2> DEFINE b == bindings[req[x].id]
    <2>1. CASE /\ b \in PCFBinding /\ b # NoBinding
               /\ Acts(x, IF b.ip # None THEN "dIP" ELSE "dSupi", req[x].code, req[x].id, b)
      <3>1. req[x].pc = "dGet" /\ req[x].kind = "deregister"
        BY <1>0, <1>5, DeregisterGetEffect DEF Known
      <3>2. req'[x].rec = b
        BY <2>1 DEF Acts
      <3> HIDE DEF b
      <3>3. req'[x].pc = "dSupi" => req'[x].rec.ip = None
        BY <2>1, <3>2 DEF Acts
      <3> QED
        BY <1>0, <2>1, <3>1, <3>2, <3>3 DEF Acts, b
    <2> QED
      BY <1>1, <1>5, <2>1, DeregisterGetEffect
  <1>6. CASE DeregisterIP(x)
    BY <1>0, <1>6, DeregisterIPEffect DEF Moves, Acts, Known
  <1>7. CASE DeregisterSupi(x)
    BY <1>0, <1>7, DeregisterSupiEffect DEF Moves, Acts, Known
  <1>8. CASE DeregisterDelete(x)
    BY <1>0, <1>8, DeregisterDeleteEffect DEF Answered, Ends, Moves, Acts, Known
  <1>9. CASE DiscoverIndex(x)
    BY <1>0, <1>1, <1>9, DiscoverIndexEffect DEF Acts, Known
  <1>10. CASE DiscoverGet(x)
    BY <1>0, <1>1, <1>10, DiscoverGetEffect DEF Acts, Known
  <1>11. CASE Crash(x)
    BY <1>0, <1>1, <1>11, CrashEffect
  <1> QED
    BY <1>2, <1>3, <1>4, <1>5, <1>6, <1>7, <1>8, <1>9, <1>10, <1>11 DEF Step

-----------------------------------------------------------------------------
(* Identifiers.  A registration keeps the one it was given; until the      *)
(* process restarts no two are given the same.                             *)

Distinct ==
    \A x, y \in Reqs :
      req[x].kind = "register" /\ req[y].kind = "register" /\ x # y => req[x].id # req[y].id

NameInv ==
    restarts = 0 =>
      Distinct /\ \A x \in Reqs : req[x].kind = "register" => req[x].id[2] <= bindingCounter

\* What a request that has begun keeps from then on.
Stays ==
    \A y \in Reqs :
      /\ req[y].kind # "none" => req'[y].kind = req[y].kind /\ req'[y].ask = req[y].ask
      /\ req[y].kind = "register" => req'[y].id = req[y].id /\ req'[y].rec = req[y].rec
      /\ req[y].kind = "deregister" => req'[y].id = req[y].id
      /\ req[y].code # 0 => req'[y] = req[y]

LEMMA StepStays ==
    ASSUME TypeInv, NEW x \in Reqs, Step(x)
    PROVE  Stays
  <1>1. Known(x) /\ Runs(x) /\ req[x].code = 0
    BY TypeStep DEF TypeInv, Known
  <1> QED
    BY <1>1, TypeStep, HoldsAfter DEF Alone, Stays

LEMMA BeginStays ==
    ASSUME TypeInv, NEW x \in Reqs, NEW kind, NEW pc, Begins(x, kind, pc)
    PROVE  Stays
  BY DEF Begins, Alone, Stays, TypeInv, Known

LEMMA NamesStay ==
    ASSUME TypeInv, [Next]_vars
    PROVE  Stays /\ (Distinct' => Distinct)
  <1>0. TypeOK
    BY DEF TypeInv
  <1>1. Stays
    <2>1. CASE UNCHANGED vars
      BY <2>1 DEF vars, Stays
    <2>2. CASE Restart
      <3>1. ASSUME NEW y \in Reqs, req[y].code # 0 PROVE req'[y] = req[y]
        <4>1. ~Runs(y)
          BY <3>1 DEF TypeInv, Known
        <4> QED
          BY <1>0, <2>2, <4>1 DEF Restart
      <3> QED
        BY <1>0, <2>2, <3>1, RestartEffect DEF Restarts, Stays
    <2>3. ASSUME NEW x \in Reqs, NEW b \in PCFBinding, RegisterStart(x, b) PROVE Stays
      BY <2>3, RegisterStartEffect, BeginStays
    <2>4. ASSUME NEW x \in Reqs, NEW i \in BindingIDs, DeregisterStart(x, i) PROVE Stays
      BY <1>0, <2>4, DeregisterStartEffect, BeginStays
    <2>5. ASSUME NEW x \in Reqs, NEW k \in Addrs \cup SupiKeys, DiscoverStart(x, k) PROVE Stays
      BY <1>0, <2>5, DiscoverStartEffect, BeginStays
    <2> QED
      BY <2>1, <2>2, <2>3, <2>4, <2>5, StepCases, StepStays
  <1>2. Distinct' => Distinct
    BY <1>1 DEF Stays, Distinct
  <1> QED
    BY <1>1, <1>2

LEMMA NameInit == Init => NameInv
  BY DEF Init, Idle, NameInv, Distinct

LEMMA NameNext ==
    ASSUME TypeInv, NameInv, [Next]_vars
    PROVE  NameInv'
  <1>0. TypeOK /\ \A y \in Reqs : Known(y)
    BY DEF TypeInv
  <1>1. CASE UNCHANGED vars
    BY <1>1 DEF vars, NameInv, Distinct
  <1>2. CASE Restart
    <2>1. restarts' # 0
      BY <1>0, <1>2, RestartEffect, ConstantsAssumption DEF TypeOK
    <2> QED
      BY <2>1 DEF NameInv
  <1>3. ASSUME UNCHANGED <<bindingCounter, restarts>>,
               \A y \in Reqs : req'[y].kind = "register" =>
                 req[y].kind = "register" /\ req'[y].id = req[y].id
        PROVE  NameInv'
    BY <1>3 DEF NameInv, Distinct
  <1>4. ASSUME NEW x \in Reqs, Step(x) PROVE NameInv'
    <2>1. Stays
      BY <1>4, StepStays
    <2>2. \A y \in Reqs : req'[y].kind = "register" =>
            req[y].kind = "register" /\ req'[y].id = req[y].id
      BY <1>4, <2>1, TypeStep DEF Alone, Stays
    <2> QED
      BY <1>3, <1>4, <2>2, TypeStep
  <1>5. ASSUME NEW x \in Reqs, NEW b \in PCFBinding, RegisterStart(x, b) PROVE NameInv'
    <2>0. /\ Begins(x, "register", "rPut") /\ bindingCounter' = bindingCounter + 1
          /\ req'[x].id = <<b.supi, bindingCounter + 1>>
      BY <1>5, RegisterStartEffect
    <2> SUFFICES ASSUME restarts' = 0
                 PROVE  /\ Distinct'
                        /\ \A y \in Reqs : req'[y].kind = "register" => req'[y].id[2] <= bindingCounter'
      BY DEF NameInv
    <2>1. restarts = 0 /\ bindingCounter \in Nat
      BY <1>0, <2>0, ConstantsAssumption DEF Begins, TypeOK
    <2>2. ASSUME NEW y \in Reqs, y # x, req'[y].kind = "register"
          PROVE  req'[y].id[2] <= bindingCounter /\ req'[y].id = req[y].id /\ req'[y].id[2] \in Nat
      <3>1. req'[y] = req[y] /\ req[y].id \in BindingIDs
        BY <1>0, <2>0, <2>2 DEF Begins, Alone, Known
      <3> QED
        BY <2>1, <2>2, <3>1 DEF NameInv, BindingIDs
    <2>3. req'[x].id[2] = bindingCounter + 1
      BY <2>0
    <2>4. \A y \in Reqs : req'[y].kind = "register" => req'[y].id[2] <= bindingCounter'
      BY <2>0, <2>1, <2>2, <2>3
    <2>5. ASSUME NEW y \in Reqs, NEW z \in Reqs, y # z,
                 req'[y].kind = "register", req'[z].kind = "register"
          PROVE  req'[y].id # req'[z].id
      <3>1. CASE y = x
        BY <2>1, <2>2, <2>3, <2>5, <3>1
      <3>2. CASE z = x
        BY <2>1, <2>2, <2>3, <2>5, <3>2
      <3>3. CASE y # x /\ z # x
        BY <2>0, <2>1, <2>5, <3>3 DEF Begins, Alone, NameInv, Distinct
      <3> QED
        BY <3>1, <3>2, <3>3
    <2> QED
      BY <2>4, <2>5 DEF Distinct
  <1>6. ASSUME NEW x \in Reqs, NEW kind \in {"deregister", "discover"}, NEW pc, Begins(x, kind, pc),
               UNCHANGED bindingCounter
        PROVE  NameInv'
    <2>1. \A y \in Reqs : req'[y].kind = "register" => req'[y] = req[y] /\ req[y].kind = "register"
      BY <1>6 DEF Begins, Alone
    <2> QED
      BY <1>3, <1>6, <2>1 DEF Begins
  <1>7. ASSUME NEW x \in Reqs, NEW i \in BindingIDs, DeregisterStart(x, i) PROVE NameInv'
    BY <1>0, <1>6, <1>7, DeregisterStartEffect
  <1>8. ASSUME NEW x \in Reqs, NEW k \in Addrs \cup SupiKeys, DiscoverStart(x, k) PROVE NameInv'
    BY <1>0, <1>6, <1>8, DiscoverStartEffect
  <1> QED
    BY <1>1, <1>2, <1>4, <1>5, <1>7, <1>8, StepCases

LEMMA FreshDistinct == NameInv /\ NamesFresh => Distinct
  BY DEF NameInv, NamesFresh, Distinct

-----------------------------------------------------------------------------
(* The keys and those who follow them, while identifiers are distinct.     *)

\* The registration that i was given to.
Names(x, i) == req[x].kind = "register" /\ req[x].id = i

\* A record is that of the registration whose identifier it is stored under.
RecordInv ==
    \A i \in BindingIDs :
      bindings[i] # NoBinding => \E x \in Reqs : Names(x, i) /\ bindings[i] = req[x].rec

\* An index leads to the identifier of a registration for that index.
IndexInv ==
    /\ \A a \in Addrs : byIP[a] # None =>
         \E x \in Reqs : Names(x, byIP[a]) /\ req[x].rec.ip = a
    /\ \A k \in SupiKeys : bySupi[k] # None =>
         \E x \in Reqs : Names(x, bySupi[k]) /\ supiKey(req[x].rec) = k

\* A deregistration names a binding that was answered for and has read its
\* record; a discovery has followed an index it was asked for.
ClientInv ==
    \A y \in Reqs :
      /\ req[y].kind = "deregister" => \E x \in Reqs : Bound(x) /\ req[x].id = req[y].id
      /\ req[y].pc \in {"dIP", "dSupi", "dDel"} =>
           \E x \in Reqs : Bound(x) /\ req[x].id = req[y].id /\ req[x].rec = req[y].rec
      /\ req[y].pc = "qGet" =>
           \E x \in Reqs : /\ Names(x, req[y].id)
                           /\ req[y].ask \in {req[x].rec.ip, supiKey(req[x].rec)}

\* A registration writes its indexes once its record is there.
WrittenFirst ==
    \A x \in Reqs : req[x].pc \in {"rIP", "rSupi"} => bindings[req[x].id] = req[x].rec

\* A deregistration deletes its record once its indexes no longer lead to it.
DeletedLast ==
    \A y \in Reqs :
      /\ req[y].pc \in {"dSupi", "dDel"} /\ req[y].rec.ip # None =>
           byIP[req[y].rec.ip] # req[y].id \/ req[y].rec.ip \in kept
      /\ req[y].pc = "dDel" =>
           bySupi[supiKey(req[y].rec)] # req[y].id \/ supiKey(req[y].rec) \in kept

NoneAstray ==
    /\ \A a \in Addrs \ kept : byIP[a] # None => bindings[byIP[a]] # NoBinding
    /\ \A k \in SupiKeys \ kept : bySupi[k] # None => bindings[bySupi[k]] # NoBinding

AllFit ==
    \A x \in Reqs :
      req[x].kind = "discover" /\ req[x].code = 200 =>
        req[x].ask \in {req[x].rec.ip, supiKey(req[x].rec)}

Sound == /\ RecordInv /\ IndexInv /\ ClientInv
         /\ WrittenFirst /\ DeletedLast /\ NoneAstray /\ AllFit
StoreInv == Distinct => Sound

LEMMA StoreInit == Init => StoreInv
  BY DEF Init, Idle, StoreInv, Sound, RecordInv, IndexInv, ClientInv, WrittenFirst, DeletedLast,
         NoneAstray, AllFit

\* A binding that was answered for stays so, and is the only registration of
\* its identifier; one that runs has not been answered for.
LEMMA BoundStays ==
    ASSUME TypeInv, Stays, NEW x \in Reqs, Bound(x)
    PROVE  Bound(x)' /\ req'[x] = req[x] /\ ~Runs(x)
  BY DEF Bound, Stays, TypeInv, Known, Runs

\* No key is written: requests begin, or die with the process.
LEMMA StoreKeysSame ==
    ASSUME TypeInv, Stays, Sound, UNCHANGED keys,
           \A y \in Reqs :
             \/ req'[y] = req[y]
             \/ /\ req'[y].pc \in {"rPut", "dGet", "qIP", "qSupi", "crashed"} /\ req'[y].code = 0
                /\ req'[y].kind = "deregister" => \E x \in Reqs : Bound(x) /\ req[x].id = req'[y].id
    PROVE  Sound'
  <1>1. RecordInv'
    BY DEF Sound, RecordInv, Names, Stays, keys
  <1>2. IndexInv'
    BY DEF Sound, IndexInv, Names, Stays, keys
  <1>3. ClientInv'
    <2> SUFFICES ASSUME NEW y \in Reqs
                 PROVE  /\ req'[y].kind = "deregister" =>
                             \E x \in Reqs : Bound(x)' /\ req'[x].id = req'[y].id
                        /\ req'[y].pc \in {"dIP", "dSupi", "dDel"} =>
                             \E x \in Reqs : /\ Bound(x)' /\ req'[x].id = req'[y].id
                                             /\ req'[x].rec = req'[y].rec
                        /\ req'[y].pc = "qGet" =>
                             \E x \in Reqs : /\ Names(x, req[y].id)'
                                             /\ req'[y].id = req[y].id
                                             /\ req'[y].ask \in {req'[x].rec.ip, supiKey(req'[x].rec)}
      BY DEF ClientInv, Names, supiKey
    <2>1. \A x \in Reqs : Bound(x) => Bound(x)' /\ req'[x] = req[x]
      BY BoundStays
    <2>2. CASE req'[y] = req[y]
      BY <2>1, <2>2 DEF Sound, ClientInv, Names, Stays
    <2>3. CASE /\ req'[y].pc \in {"rPut", "dGet", "qIP", "qSupi", "crashed"}
               /\ req'[y].kind = "deregister" => \E x \in Reqs : Bound(x) /\ req[x].id = req'[y].id
      BY <2>1, <2>3
    <2> QED
      BY <2>2, <2>3
  <1>4. WrittenFirst'
    BY DEF Sound, WrittenFirst, keys
  <1>5. DeletedLast'
    BY DEF Sound, DeletedLast, keys, supiKey
  <1>6. NoneAstray'
    BY DEF Sound, NoneAstray, keys
  <1>7. AllFit'
    BY DEF Sound, AllFit, supiKey
  <1> QED
    BY <1>1, <1>2, <1>3, <1>4, <1>5, <1>6, <1>7 DEF Sound

LEMMA RecordStep ==
    ASSUME TypeInv, Sound, NEW x \in Reqs, Step(x)
    PROVE  RecordInv'
  <1> SUFFICES ASSUME NEW i \in BindingIDs, bindings'[i] # NoBinding
               PROVE  \E y \in Reqs : Names(y, i)' /\ bindings'[i] = req'[y].rec
    BY DEF RecordInv, Names
  <1>1. Stays /\ Known(x)
    BY StepStays DEF TypeInv
  <1>2. CASE bindings'[i] = bindings[i]
    BY <1>1, <1>2 DEF Sound, RecordInv, Names, Stays
  <1>3. CASE req[x].pc = "rPut" /\ i = req[x].id /\ bindings'[i] = req[x].rec
    BY <1>1, <1>3 DEF Known, Names, Stays
  <1> QED
    BY <1>2, <1>3, BindingsWritten

LEMMA IndexStep ==
    ASSUME TypeInv, Sound, NEW x \in Reqs, Step(x)
    PROVE  IndexInv'
  <1>1. Stays /\ Known(x)
    BY StepStays DEF TypeInv
  <1>2. ASSUME NEW a \in Addrs, byIP'[a] # None
        PROVE  \E y \in Reqs : Names(y, byIP[a])' /\ req'[y].rec.ip = a
    <2>1. CASE byIP'[a] = byIP[a]
      BY <1>1, <1>2, <2>1 DEF Sound, IndexInv, Names, Stays
    <2>2. CASE req[x].pc = "rIP" /\ a = req[x].rec.ip /\ byIP'[a] = req[x].id
      BY <1>1, <2>2 DEF Known, Names, Stays
    <2> QED
      BY <1>2, <2>1, <2>2, ByIPWritten
  <1>3. ASSUME NEW k \in SupiKeys, bySupi'[k] # None
        PROVE  \E y \in Reqs : Names(y, bySupi[k])' /\ supiKey(req'[y].rec) = k
    <2>1. CASE bySupi'[k] = bySupi[k]
      BY <1>1, <1>3, <2>1 DEF Sound, IndexInv, Names, Stays
    <2>2. CASE req[x].pc = "rSupi" /\ k = supiKey(req[x].rec) /\ bySupi'[k] = req[x].id
      BY <1>1, <2>2 DEF Known, Names, Stays
    <2> QED
      BY <1>3, <2>1, <2>2, BySupiWritten
  <1> QED
    BY <1>2, <1>3 DEF IndexInv, supiKey

LEMMA ClientStep ==
    ASSUME TypeInv, Sound, Distinct, NEW x \in Reqs, Step(x)
    PROVE  ClientInv'
  <1>1. Stays /\ Known(x) /\ Known(x)' /\ Alone(x) /\ req'[x].kind = req[x].kind
    BY StepStays, TypeStep DEF TypeInv
  <1>2. \A y \in Reqs : Bound(y) => Bound(y)' /\ req'[y] = req[y]
    BY <1>1, BoundStays
  <1>3. ASSUME NEW y \in Reqs, req'[y].kind = "deregister"
        PROVE  \E z \in Reqs : Bound(z)' /\ req'[z].id = req'[y].id
    <2>1. req[y].kind = "deregister" /\ req'[y].id = req[y].id
      BY <1>1, <1>3 DEF Alone, Stays
    <2> QED
      BY <1>2, <2>1 DEF Sound, ClientInv
  <1>4. ASSUME NEW y \in Reqs, req'[y].pc \in {"dIP", "dSupi", "dDel"}
        PROVE  \E z \in Reqs : Bound(z)' /\ req'[z].id = req'[y].id /\ req'[z].rec = req'[y].rec
    <2>1. CASE y # x
      BY <1>1, <1>2, <1>4, <2>1 DEF Alone, Sound, ClientInv
    <2>2. CASE y = x
      <3>1. req[x].kind = "deregister" /\ req'[x].id = req[x].id
        BY <1>1, <1>4, <2>2 DEF Known, Stays
      <3>2. CASE req[x].pc = "dGet" /\ req'[x].rec = bindings[req[x].id] /\ req'[x].rec # NoBinding
        <4>1. PICK w \in Reqs : Bound(w) /\ req[w].id = req[x].id
          BY <3>1 DEF Sound, ClientInv
        <4>2. PICK z \in Reqs : Names(z, req[x].id) /\ bindings[req[x].id] = req[z].rec
          BY <1>1, <3>1, <3>2 DEF Known, Sound, RecordInv
        <4>3. z = w
          BY <4>1, <4>2 DEF Distinct, Bound, Names
        <4> QED
          BY <1>2, <2>2, <3>1, <3>2, <4>1, <4>2, <4>3
      <3>3. CASE req'[x].rec = req[x].rec /\ req[x].pc \in {"dIP", "dSupi"}
        BY <1>2, <2>2, <3>1, <3>3 DEF Sound, ClientInv
      <3> QED
        BY <1>4, <2>2, <3>2, <3>3, HoldsAfter
    <2> QED
      BY <2>1, <2>2
  <1>5. ASSUME NEW y \in Reqs, req'[y].pc = "qGet"
        PROVE  \E z \in Reqs : /\ Names(z, req[y].id)'
                               /\ req'[y].ask \in {req'[z].rec.ip, supiKey(req'[z].rec)}
    <2>1. CASE y # x
      <3>1. req'[y] = req[y]
        BY <1>1, <2>1 DEF Alone
      <3>2. PICK z \in Reqs : Names(z, req[y].id) /\ req[y].ask \in {req[z].rec.ip, supiKey(req[z].rec)}
        BY <1>5, <3>1 DEF Sound, ClientInv
      <3> QED
        BY <1>1, <3>1, <3>2 DEF Names, Stays
    <2>2. CASE y = x
      <3>1. /\ req[x].pc \in {"qIP", "qSupi"} /\ req'[x].id = Leads(x) /\ Leads(x) # None
            /\ req'[x].ask = req[x].ask
        BY <1>5, <2>2, HoldsAfter
      <3>2. PICK z \in Reqs : Names(z, Leads(x)) /\ req[x].ask \in {req[z].rec.ip, supiKey(req[z].rec)}
        <4>1. CASE req[x].pc = "qIP"
          <5>1. Leads(x) = byIP[req[x].ask] /\ req[x].ask \in Addrs
            BY <1>1, <4>1 DEF Leads, Known
          <5> QED
            BY <3>1, <5>1 DEF Sound, IndexInv
        <4>2. CASE req[x].pc = "qSupi"
          <5>1. Leads(x) = bySupi[req[x].ask] /\ req[x].ask \in SupiKeys
            BY <1>1, <4>2 DEF Leads, Known
          <5> QED
            BY <3>1, <5>1 DEF Sound, IndexInv
        <4> QED
          BY <3>1, <4>1, <4>2
      <3> QED
        BY <1>1, <2>2, <3>1, <3>2 DEF Names, Stays
    <2> QED
      BY <2>1, <2>2
  <1> QED
    BY <1>3, <1>4, <1>5 DEF ClientInv, supiKey

LEMMA WrittenStep ==
    ASSUME TypeInv, Sound, Distinct, NEW x \in Reqs, Step(x)
    PROVE  WrittenFirst'
  <1> SUFFICES ASSUME NEW y \in Reqs, req'[y].pc \in {"rIP", "rSupi"}
               PROVE  bindings'[req'[y].id] = req'[y].rec
    BY DEF WrittenFirst
  <1>1. /\ Stays /\ Known(x) /\ Known(y) /\ Known(y)' /\ Alone(x) /\ req'[x].kind = req[x].kind
        /\ TypeOK
    BY StepStays, TypeStep DEF TypeInv
  <1>2. req[y].kind = "register" /\ req'[y].id = req[y].id /\ req'[y].rec = req[y].rec
        /\ req[y].id \in BindingIDs
    BY <1>1 DEF Alone, Known, Stays
  <1>3. CASE y = x
    <2>1. CASE req[x].pc = "rPut" /\ bindings' = [bindings EXCEPT ![req[x].id] = req[x].rec]
      BY <1>1, <1>2, <1>3, <2>1 DEF TypeOK
    <2>2. CASE req[x].pc = "rIP"
      BY <1>2, <1>3, <2>2, BindingsWritten DEF Sound, WrittenFirst
    <2> QED
      BY <1>3, <2>1, <2>2, HoldsAfter
  <1>4. CASE y # x
    <2>1. req'[y] = req[y] /\ bindings[req[y].id] = req[y].rec
      BY <1>1, <1>4 DEF Alone, Sound, WrittenFirst
    <2>2. ASSUME req[x].pc = "rPut" PROVE req[y].id # req[x].id
      BY <1>1, <1>2, <1>4, <2>2 DEF Known, Distinct
    <2>3. ASSUME req[x].pc = "dDel" PROVE req[y].id # req[x].id
      <3>1. PICK w \in Reqs : Bound(w) /\ req[w].id = req[x].id
        BY <2>3 DEF Sound, ClientInv
      <3>2. w # y
        BY <1>1, <2>1, <3>1, BoundStays DEF Runs
      <3> QED
        BY <1>2, <3>1, <3>2 DEF Distinct, Bound
    <2> QED
      BY <1>2, <2>1, <2>2, <2>3, BindingsWritten
  <1> QED
    BY <1>3, <1>4

\* The identifier that a deregistration names is not that of a registration
\* which still runs.
LEMMA NotRunning ==
    ASSUME TypeInv, Sound, Distinct, Stays, NEW x \in Reqs, NEW y \in Reqs,
           req[x].kind = "register", Runs(x), req[y].kind = "deregister"
    PROVE  req[x].id # req[y].id
  <1>1. PICK w \in Reqs : Bound(w) /\ req[w].id = req[y].id
    BY DEF Sound, ClientInv
  <1>2. w # x
    BY <1>1, BoundStays
  <1> QED
    BY <1>1, <1>2 DEF Distinct, Bound

LEMMA DeletedStep ==
    ASSUME TypeInv, Sound, Distinct, NEW x \in Reqs, Step(x)
    PROVE  DeletedLast'
  <1>1. /\ Stays /\ Known(x) /\ Alone(x) /\ req'[x].kind = req[x].kind /\ TypeInv'
        /\ Runs(x)
    BY StepStays, TypeStep DEF TypeInv
  <1>2. ASSUME NEW y \in Reqs, req'[y].pc \in {"dSupi", "dDel"}, req'[y].rec.ip # None
        PROVE  byIP'[req'[y].rec.ip] # req'[y].id \/ req'[y].rec.ip \in kept'
    <2> DEFINE a == req'[y].rec.ip
               i == req[y].id
    <2>1. /\ req[y].kind = "deregister" /\ req'[y].id = i /\ i \in BindingIDs /\ i # None
          /\ a \in Addrs
      <3>1. Known(y)' /\ Known(y)
        BY <1>1 DEF TypeInv
      <3>2. req'[y].rec \in PCFBinding /\ req'[y].kind = "deregister"
        BY <1>2, <3>1 DEF Known
      <3>3. req[y].kind = "deregister"
        BY <1>1, <3>2 DEF Alone
      <3> QED
        BY <1>1, <1>2, <3>1, <3>2, <3>3, KeysOf, ConstantsAssumption DEF Known, Stays
    <2>2. CASE y = x
      <3>1. CASE req[x].pc = "dIP" /\ req'[x].pc = "dSupi"
        BY <2>1, <2>2, <3>1, ByIPWritten
      <3>2. CASE req[x].pc = "dSupi" /\ req'[x].pc = "dDel" /\ req'[x].rec = req[x].rec
        <4>1. byIP'[a] = byIP[a] /\ (a \in kept' <=> a \in kept)
          BY <2>1, <3>2, ByIPWritten
        <4>2. byIP[a] # i \/ a \in kept
          BY <1>2, <2>2, <3>2 DEF Sound, DeletedLast
        <4> QED
          BY <2>1, <4>1, <4>2
      <3> QED
        BY <1>2, <2>2, <3>1, <3>2, HoldsAfter
    <2>3. CASE y # x
      <3>1. req'[y] = req[y]
        BY <1>1, <2>3 DEF Alone
      <3>2. byIP[a] # i \/ a \in kept
        BY <1>2, <3>1 DEF Sound, DeletedLast
      <3>3. ASSUME req[x].pc = "rIP" PROVE req[x].id # i
        BY <1>1, <2>1, <3>3, NotRunning DEF Known
      <3> QED
        BY <2>1, <3>2, <3>3, ByIPWritten
    <2> QED
      BY <2>2, <2>3
  <1>3. ASSUME NEW y \in Reqs, req'[y].pc = "dDel"
        PROVE  bySupi'[supiKey(req'[y].rec)] # req'[y].id \/ supiKey(req'[y].rec) \in kept'
    <2> DEFINE k == supiKey(req'[y].rec)
               i == req[y].id
    <2>1. /\ req[y].kind = "deregister" /\ req'[y].id = i /\ i \in BindingIDs /\ i # None
          /\ k \in SupiKeys
      <3>1. Known(y)' /\ Known(y)
        BY <1>1 DEF TypeInv
      <3>2. req'[y].rec \in PCFBinding /\ req'[y].kind = "deregister"
        BY <1>3, <3>1 DEF Known
      <3>3. req[y].kind = "deregister"
        BY <1>1, <3>2 DEF Alone
      <3> QED
        BY <1>1, <3>1, <3>2, <3>3, KeysOf, ConstantsAssumption DEF Known, Stays
    <2>2. CASE y = x
      <3>1. req[x].pc = "dSupi" /\ req'[x].rec = req[x].rec
        BY <1>3, <2>2, HoldsAfter
      <3> QED
        BY <1>3, <2>1, <2>2, <3>1, BySupiWritten
    <2>3. CASE y # x
      <3>1. req'[y] = req[y]
        BY <1>1, <2>3 DEF Alone
      <3>2. bySupi[k] # i \/ k \in kept
        BY <1>3, <3>1 DEF Sound, DeletedLast
      <3>3. ASSUME req[x].pc = "rSupi" PROVE req[x].id # i
        BY <1>1, <2>1, <3>3, NotRunning DEF Known
      <3> HIDE DEF k
      <3>4. bySupi'[k] # i \/ k \in kept'
        BY <2>1, <3>2, <3>3, BySupiWritten
      <3> QED
        BY <2>1, <3>4 DEF k
    <2> QED
      BY <2>2, <2>3
  <1> QED
    BY <1>2, <1>3 DEF DeletedLast, supiKey

LEMMA AstrayStep ==
    ASSUME TypeInv, Sound, Distinct, NEW x \in Reqs, Step(x)
    PROVE  NoneAstray'
  <1>1. Known(x) /\ TypeOK
    BY DEF TypeInv
  <1>2. ASSUME NEW i \in BindingIDs, bindings[i] # NoBinding,
               ~(req[x].pc = "dDel" /\ i = req[x].id)
        PROVE  bindings'[i] # NoBinding
    BY <1>1, <1>2, BindingsWritten, BindingIsSome DEF Known
  <1>3. ASSUME NEW a \in Addrs, a \notin kept', byIP'[a] # None
        PROVE  bindings'[byIP'[a]] # NoBinding
    <2>1. CASE byIP'[a] = byIP[a] /\ a \notin kept
      <3> DEFINE i == byIP[a]
      <3>1. i \in BindingIDs /\ bindings[i] # NoBinding
        BY <1>1, <1>3, <2>1 DEF TypeOK, Sound, NoneAstray
      <3>2. ~(req[x].pc = "dDel" /\ i = req[x].id)
        <4> SUFFICES ASSUME req[x].pc = "dDel", i = req[x].id PROVE FALSE
          OBVIOUS
        <4>1. PICK w \in Reqs : Bound(w) /\ req[w].id = i /\ req[w].rec = req[x].rec
          BY DEF Sound, ClientInv
        <4>2. PICK z \in Reqs : Names(z, i) /\ req[z].rec.ip = a
          BY <1>3, <2>1 DEF Sound, IndexInv
        <4>3. w = z
          BY <4>1, <4>2 DEF Distinct, Bound, Names
        <4>4. req[x].rec.ip = a /\ a # None
          BY <4>1, <4>2, <4>3, ConstantsAssumption
        <4> QED
          BY <2>1, <4>4 DEF Sound, DeletedLast
      <3> QED
        BY <1>2, <2>1, <3>1, <3>2
    <2>2. CASE req[x].pc = "rIP" /\ byIP'[a] = req[x].id
      <3>1. /\ req[x].id \in BindingIDs /\ bindings[req[x].id] = req[x].rec
            /\ req[x].rec # NoBinding
        BY <1>1, <2>2, BindingIsSome DEF Known, Sound, WrittenFirst
      <3> QED
        BY <1>2, <2>2, <3>1
    <2> QED
      BY <1>3, <2>1, <2>2, ByIPWritten
  <1>4. ASSUME NEW k \in SupiKeys, k \notin kept', bySupi'[k] # None
        PROVE  bindings'[bySupi'[k]] # NoBinding
    <2>1. CASE bySupi'[k] = bySupi[k] /\ k \notin kept
      <3> DEFINE i == bySupi[k]
      <3>1. i \in BindingIDs /\ bindings[i] # NoBinding
        BY <1>1, <1>4, <2>1 DEF TypeOK, Sound, NoneAstray
      <3>2. ~(req[x].pc = "dDel" /\ i = req[x].id)
        <4> SUFFICES ASSUME req[x].pc = "dDel", i = req[x].id PROVE FALSE
          OBVIOUS
        <4>1. PICK w \in Reqs : Bound(w) /\ req[w].id = i /\ req[w].rec = req[x].rec
          BY DEF Sound, ClientInv
        <4>2. PICK z \in Reqs : Names(z, i) /\ supiKey(req[z].rec) = k
          BY <1>4, <2>1 DEF Sound, IndexInv
        <4>3. w = z
          BY <4>1, <4>2 DEF Distinct, Bound, Names
        <4>4. supiKey(req[x].rec) = k
          BY <4>1, <4>2, <4>3
        <4> QED
          BY <2>1, <4>4 DEF Sound, DeletedLast
      <3> QED
        BY <1>2, <2>1, <3>1, <3>2
    <2>2. CASE req[x].pc = "rSupi" /\ bySupi'[k] = req[x].id
      <3>1. /\ req[x].id \in BindingIDs /\ bindings[req[x].id] = req[x].rec
            /\ req[x].rec # NoBinding
        BY <1>1, <2>2, BindingIsSome DEF Known, Sound, WrittenFirst
      <3> QED
        BY <1>2, <2>2, <3>1
    <2> QED
      BY <1>4, <2>1, <2>2, BySupiWritten
  <1> QED
    BY <1>3, <1>4 DEF NoneAstray

LEMMA FitStep ==
    ASSUME TypeInv, Sound, Distinct, NEW x \in Reqs, Step(x)
    PROVE  AllFit'
  <1> SUFFICES ASSUME NEW y \in Reqs, req'[y].kind = "discover", req'[y].code = 200
               PROVE  req'[y].ask \in {req'[y].rec.ip, supiKey(req'[y].rec)}
    BY DEF AllFit, supiKey
  <1>1. Alone(x) /\ req'[x].kind = req[x].kind /\ Known(x)
    BY TypeStep DEF TypeInv
  <1>2. CASE y # x
    BY <1>1, <1>2 DEF Alone, Sound, AllFit
  <1>3. CASE y = x
    <2>1. /\ req[x].pc = "qGet" /\ req'[x].rec = bindings[req[x].id] /\ req'[x].rec # NoBinding
          /\ req'[x].ask = req[x].ask
      BY <1>1, <1>3, HoldsAfter
    <2>2. PICK z \in Reqs : Names(z, req[x].id) /\ req[x].ask \in {req[z].rec.ip, supiKey(req[z].rec)}
      BY <2>1 DEF Sound, ClientInv
    <2>3. PICK w \in Reqs : Names(w, req[x].id) /\ bindings[req[x].id] = req[w].rec
      BY <1>1, <2>1 DEF Known, Sound, RecordInv
    <2>4. z = w
      BY <2>2, <2>3 DEF Distinct, Names
    <2> QED
      BY <1>3, <2>1, <2>2, <2>3, <2>4
  <1> QED
    BY <1>2, <1>3

LEMMA StoreNext ==
    ASSUME TypeInv, StoreInv, [Next]_vars
    PROVE  StoreInv'
  <1> SUFFICES ASSUME Distinct' PROVE Sound'
    BY DEF StoreInv
  <1>0. Stays /\ Distinct /\ Sound /\ TypeOK
    BY NamesStay DEF StoreInv, TypeInv
  <1>1. CASE UNCHANGED vars
    BY <1>0, <1>1, StoreKeysSame DEF vars, keys
  <1>2. CASE Restart
    <2>1. UNCHANGED keys /\ \A y \in Reqs : Restarts(y)
      BY <1>0, <1>2, RestartEffect
    <2>2. ASSUME NEW y \in Reqs, req'[y] # req[y]
          PROVE  req'[y].pc = "crashed" /\ req'[y].code = 0 /\ req'[y].kind = "register"
      <3>1. req[y].kind = "register" /\ Runs(y)
        BY <1>0, <1>2, <2>2 DEF Restart
      <3>2. Known(y)
        BY DEF TypeInv
      <3> QED
        BY <2>1, <3>1, <3>2 DEF Restarts, Known
    <2> QED
      BY <1>0, <2>1, <2>2, StoreKeysSame
  <1>3. ASSUME NEW x \in Reqs, Step(x) PROVE Sound'
    BY <1>0, <1>3, RecordStep, IndexStep, ClientStep, WrittenStep, DeletedStep, AstrayStep, FitStep
       DEF Sound
  <1>4. ASSUME NEW x \in Reqs, NEW kind, NEW pc \in {"rPut", "dGet", "qIP", "qSupi"},
               Begins(x, kind, pc),
               kind = "deregister" => \E y \in Reqs : Bound(y) /\ req[y].id = req'[x].id
        PROVE  Sound'
    <2>1. UNCHANGED keys /\ \A y \in Reqs : y # x => req'[y] = req[y]
      BY <1>4 DEF Begins, Alone
    <2>2. req'[x].pc = pc /\ req'[x].kind = kind /\ req'[x].code = 0
      BY <1>4 DEF Begins, TypeInv, Known
    <2> QED
      BY <1>0, <1>4, <2>1, <2>2, StoreKeysSame
  <1>5. ASSUME NEW x \in Reqs, NEW b \in PCFBinding, RegisterStart(x, b) PROVE Sound'
    BY <1>4, <1>5, RegisterStartEffect
  <1>6. ASSUME NEW x \in Reqs, NEW y \in Reqs, Bound(y), req[y].id \in BindingIDs,
               DeregisterStart(x, req[y].id)
        PROVE  Sound'
    BY <1>0, <1>4, <1>6, DeregisterStartEffect
  <1>7. ASSUME NEW x \in Reqs, NEW k \in Addrs \cup SupiKeys, DiscoverStart(x, k) PROVE Sound'
    <2>1. Begins(x, "discover", IF k \in Addrs THEN "qIP" ELSE "qSupi")
      BY <1>0, <1>7, DiscoverStartEffect
    <2> QED
      BY <1>4, <2>1
  <1> QED
    BY <1>1, <1>2, <1>3, <1>5, <1>6, <1>7, StepCases

LEMMA StoreAlways == Spec => [](TypeInv /\ NameInv /\ StoreInv)
  <1>1. Init => TypeInv /\ NameInv /\ StoreInv
    BY TypeInit, NameInit, StoreInit
  <1>2. TypeInv /\ NameInv /\ StoreInv /\ [Next]_vars => (TypeInv /\ NameInv /\ StoreInv)'
    BY TypeNext, NameNext, StoreNext
  <1> QED
    BY <1>1, <1>2, PTL DEF Spec

(* No index leads to a record that is not there, whatever registrations,   *)
(* deregistrations and discoveries overlap, fail or die: as long as an     *)
(* identifier names one binding, and but for the indexes that Redis failed *)
(* to delete.  The clients keep to no order.                               *)
THEOREM NoneDangle == Spec => []NoDangling
  <1>1. NameInv /\ StoreInv => NoDangling
    BY FreshDistinct DEF StoreInv, Sound, NoneAstray, NoDangling
  <1> QED
    BY <1>1, StoreAlways, PTL

(* A discovery that is answered with a binding is answered with one that   *)
(* fits its question, whatever happens between its two reads.              *)
THEOREM DiscoveriesFit == Spec => []DiscoveredFits
  <1>1. NameInv /\ StoreInv => DiscoveredFits
    BY FreshDistinct DEF StoreInv, Sound, AllFit, DiscoveredFits
  <1> QED
    BY <1>1, StoreAlways, PTL

-----------------------------------------------------------------------------
(* Clients that keep to Free and Closable: what is registered is found.    *)

Apart(b, c) == (b.ip = None \/ b.ip # c.ip) /\ supiKey(b) # supiKey(c)

\* Registrations in use share no address and no subscriber and data network.
UseApart ==
    \A x, y \in Reqs : x # y /\ InUse(x) /\ InUse(y) => Apart(req[x].rec, req[y].rec)

\* A deregistration that runs is the only one of its binding that does, and no
\* other has told its client that the binding is gone.
ClosedOnce ==
    \A y, z \in Reqs :
      /\ req[y].kind = "deregister" /\ Runs(y) /\ req[z].kind = "deregister"
      /\ y # z /\ req[z].id = req[y].id
      => ~Runs(z) /\ req[z].code \notin {200, 404}

Served(x) == Bound(x) /\ ~\E y \in Reqs : Deregisters(y, x)
AllFound ==
    \A x \in Reqs :
      /\ Served(x) =>
           bindings[req[x].id] = req[x].rec /\ bySupi[supiKey(req[x].rec)] = req[x].id
      /\ (Served(x) \/ req[x].pc = "rSupi") /\ req[x].rec.ip # None =>
           byIP[req[x].rec.ip] = req[x].id

Kept == UseApart /\ ClosedOnce /\ AllFound
SerialInv == Distinct => Kept

LEMMA SerialInit == Init => SerialInv
  BY DEF Init, Idle, SerialInv, Kept, UseApart, ClosedOnce, AllFound, Served, InUse, Bound, Runs

LEMMA ApartSymmetric == \A b, c : Apart(b, c) => Apart(c, b)
  BY DEF Apart

\* Nothing comes into use but by a registration that begins.
LEMMA InUseBefore ==
    ASSUME TypeInv, Stays, NEW x \in Reqs, InUse(x)',
           Runs(x)' => Runs(x), Bound(x)' => Bound(x) \/ Runs(x), req'[x].kind = req[x].kind
    PROVE  InUse(x)
  <1>1. CASE Runs(x)
    BY <1>1, BoundStays DEF InUse, Bound
  <1>2. CASE ~Runs(x)
    <2>1. Bound(x)' /\ Bound(x)
      BY <1>2 DEF InUse
    <2>2. ASSUME NEW y \in Reqs, Deregisters(y, x), req[y].code \in {200, 404} PROVE FALSE
      <3>1. req'[y] = req[y] /\ req'[x] = req[x]
        BY <2>1, <2>2, BoundStays DEF Stays
      <3>2. Deregisters(y, x)' /\ req'[y].code \in {200, 404}
        BY <2>2, <3>1 DEF Deregisters
      <3>3. ~Runs(x)'
        BY <1>2
      <3> QED
        BY <3>2, <3>3 DEF InUse
    <2> QED
      BY <2>1, <2>2 DEF InUse
  <1> QED
    BY <1>1, <1>2

LEMMA ServedBefore ==
    ASSUME Stays, NEW x \in Reqs, Served(x)', Bound(x)
    PROVE  Served(x)
  BY DEF Served, Deregisters, Stays, Bound

\* The binding that a running deregistration takes away is still in use.
LEMMA ClosingInUse ==
    ASSUME TypeInv, ClosedOnce, NEW w \in Reqs, req[w].kind = "deregister", Runs(w),
           NEW v \in Reqs, Bound(v), req[v].id = req[w].id
    PROVE  InUse(v)
  <1>1. ASSUME NEW y \in Reqs, Deregisters(y, v) PROVE req[y].code \notin {200, 404}
    <2>1. CASE y = w
      BY <2>1 DEF TypeInv, Known
    <2>2. CASE y # w
      BY <1>1, <2>2 DEF ClosedOnce, Deregisters
    <2> QED
      BY <2>1, <2>2
  <1> QED
    BY <1>1 DEF InUse

LEMMA UseApartNext ==
    ASSUME Serial, TypeInv, UseApart, [Next]_vars
    PROVE  UseApart'
  <1>0. Stays /\ TypeOK
    BY NamesStay DEF TypeInv
  <1>1. ASSUME NEW y \in Reqs, InUse(y)' PROVE req'[y].kind = "register"
    BY <1>1 DEF InUse, Bound
  <1>2. ASSUME NEW y \in Reqs, req'[y] = req[y], InUse(y)' PROVE InUse(y)
    BY <1>0, <1>2, InUseBefore DEF Runs, Bound
  <1>3. ASSUME \A y \in Reqs : InUse(y)' => InUse(y)
        PROVE  UseApart'
    <2>1. \A y \in Reqs : InUse(y) => req'[y].rec = req[y].rec
      BY <1>0 DEF InUse, Bound, Stays
    <2> QED
      BY <1>3, <2>1 DEF UseApart, Apart, supiKey
  <1>4. CASE UNCHANGED vars
    BY <1>2, <1>3, <1>4 DEF vars
  <1>5. CASE Restart
    <2>1. ASSUME NEW y \in Reqs, InUse(y)' PROVE InUse(y)
      BY <1>0, <1>5, <2>1, RestartEffect, InUseBefore DEF Restarts, Runs, Bound
    <2> QED
      BY <1>3, <2>1
  <1>6. ASSUME NEW x \in Reqs, Step(x) PROVE UseApart'
    <2>1. Alone(x) /\ Runs(x) /\ req'[x].kind = req[x].kind
      BY <1>6, TypeStep
    <2>2. ASSUME NEW y \in Reqs, InUse(y)' PROVE InUse(y)
      BY <1>0, <1>2, <2>1, <2>2, InUseBefore DEF Alone
    <2> QED
      BY <1>3, <2>2
  <1>7. ASSUME NEW x \in Reqs, NEW b \in PCFBinding, RegisterStart(x, b) PROVE UseApart'
    <2>1. /\ \A y \in Reqs : y # x => req'[y] = req[y]
          /\ req'[x].rec = b /\ Free(b)
      BY <1>7, RegisterStartEffect DEF Begins, Alone
    <2>2. ASSUME NEW y \in Reqs, y # x, InUse(y)'
          PROVE  InUse(y) /\ req'[y] = req[y] /\ Apart(req'[x].rec, req'[y].rec)
                 /\ Apart(req'[y].rec, req'[x].rec)
      <3>1. InUse(y) /\ req'[y] = req[y]
        BY <1>2, <2>1, <2>2
      <3> QED
        BY <2>1, <3>1, ApartSymmetric DEF Free, Apart
    <2>3. ASSUME NEW y \in Reqs, NEW z \in Reqs, y # z, InUse(y)', InUse(z)'
          PROVE  Apart(req'[y].rec, req'[z].rec)
      <3>1. CASE y = x
        BY <2>2, <2>3, <3>1
      <3>2. CASE z = x
        BY <2>2, <2>3, <3>2
      <3>3. CASE y # x /\ z # x
        BY <2>2, <2>3, <3>3 DEF UseApart
      <3> QED
        BY <3>1, <3>2, <3>3
    <2> QED
      BY <2>3 DEF UseApart, Apart, supiKey
  <1>8. ASSUME NEW x \in Reqs, NEW kind \in {"deregister", "discover"}, NEW pc, Begins(x, kind, pc)
        PROVE  UseApart'
    <2>1. req'[x].kind # "register" /\ \A y \in Reqs : y # x => req'[y] = req[y]
      BY <1>8 DEF Begins, Alone
    <2> QED
      BY <1>1, <1>2, <1>3, <2>1
  <1>9. ASSUME NEW x \in Reqs, NEW i \in BindingIDs, DeregisterStart(x, i) PROVE UseApart'
    BY <1>0, <1>8, <1>9, DeregisterStartEffect
  <1>10. ASSUME NEW x \in Reqs, NEW k \in Addrs \cup SupiKeys, DiscoverStart(x, k) PROVE UseApart'
    BY <1>0, <1>8, <1>10, DiscoverStartEffect
  <1> QED
    BY <1>4, <1>5, <1>6, <1>7, <1>9, <1>10, StepCases

LEMMA ClosedOnceNext ==
    ASSUME Serial, TypeInv, ClosedOnce, [Next]_vars
    PROVE  ClosedOnce'
  <1>0. Stays /\ TypeOK
    BY NamesStay DEF TypeInv
  <1>1. ASSUME \A y \in Reqs : req'[y].kind = "deregister" =>
                 /\ req[y].kind = "deregister" /\ req'[y].id = req[y].id
                 /\ Runs(y)' => Runs(y)
                 /\ req'[y].code = req[y].code \/ Runs(y)
        PROVE  ClosedOnce'
    <2> SUFFICES ASSUME NEW y \in Reqs, NEW z \in Reqs, y # z,
                        req'[y].kind = "deregister", Runs(y)', req'[z].kind = "deregister",
                        req'[z].id = req'[y].id
                 PROVE  ~Runs(z)' /\ req'[z].code \notin {200, 404}
      BY DEF ClosedOnce
    <2>1. /\ req[y].kind = "deregister" /\ Runs(y) /\ req[z].kind = "deregister"
          /\ req[z].id = req[y].id
      BY <1>1
    <2>2. ~Runs(z) /\ req[z].code \notin {200, 404}
      BY <2>1 DEF ClosedOnce
    <2> QED
      BY <1>1, <2>2
  <1>2. CASE UNCHANGED vars
    BY <1>1, <1>2 DEF vars, Runs
  <1>3. CASE Restart
    BY <1>0, <1>1, <1>3, RestartEffect DEF Restarts, Runs
  <1>4. ASSUME NEW x \in Reqs, Step(x) PROVE ClosedOnce'
    <2>1. Alone(x) /\ Runs(x) /\ req'[x].kind = req[x].kind
      BY <1>4, TypeStep
    <2> QED
      BY <1>0, <1>1, <2>1 DEF Alone, Stays, Runs
  <1>5. ASSUME NEW x \in Reqs, NEW kind \in {"register", "discover"}, NEW pc, Begins(x, kind, pc)
        PROVE  ClosedOnce'
    <2>1. req'[x].kind # "deregister" /\ \A y \in Reqs : y # x => req'[y] = req[y]
      BY <1>5 DEF Begins, Alone
    <2> QED
      BY <1>1, <2>1 DEF Runs
  <1>6. ASSUME NEW x \in Reqs, NEW b \in PCFBinding, RegisterStart(x, b) PROVE ClosedOnce'
    BY <1>5, <1>6, RegisterStartEffect
  <1>7. ASSUME NEW x \in Reqs, NEW k \in Addrs \cup SupiKeys, DiscoverStart(x, k) PROVE ClosedOnce'
    BY <1>0, <1>5, <1>7, DiscoverStartEffect
  <1>8. ASSUME NEW x \in Reqs, NEW v \in Reqs, Bound(v), Closable(v), req[v].id \in BindingIDs,
               DeregisterStart(x, req[v].id)
        PROVE  ClosedOnce'
    <2>1. /\ req'[x].id = req[v].id /\ req'[x].pc = "dGet" /\ req'[x].code = 0
          /\ \A y \in Reqs : y # x => req'[y] = req[y]
      BY <1>0, <1>8, DeregisterStartEffect DEF Begins, Alone, TypeInv, Known
    <2>2. ASSUME NEW y \in Reqs, req[y].kind = "deregister", req[y].id = req[v].id
          PROVE  ~Runs(y) /\ req[y].code \notin {200, 404}
      <3>1. ~Runs(v)
        BY <1>0, <1>8, BoundStays
      <3> QED
        BY <1>8, <2>2, <3>1 DEF Closable, InUse, Deregisters
    <2> SUFFICES ASSUME NEW y \in Reqs, NEW z \in Reqs, y # z,
                        req'[y].kind = "deregister", Runs(y)', req'[z].kind = "deregister",
                        req'[z].id = req'[y].id
                 PROVE  ~Runs(z)' /\ req'[z].code \notin {200, 404}
      BY DEF ClosedOnce
    <2>3. CASE y = x
      BY <2>1, <2>2, <2>3 DEF Runs
    <2>4. CASE z = x
      BY <2>1, <2>2, <2>4 DEF Runs
    <2>5. CASE y # x /\ z # x
      BY <2>1, <2>5 DEF Runs, ClosedOnce
    <2> QED
      BY <2>3, <2>4, <2>5
  <1> QED
    BY <1>2, <1>3, <1>4, <1>6, <1>7, <1>8, StepCases

\* No step of another touches the keys of a registration that is served, or
\* that has only its last index to write.
LEMMA FoundOthers ==
    ASSUME TypeInv, Sound, Distinct, UseApart, ClosedOnce, NEW w \in Reqs, Step(w),
           NEW x \in Reqs, x # w, Served(x) \/ req[x].pc = "rSupi"
    PROVE  /\ Served(x) => bindings'[req[x].id] = bindings[req[x].id]
           /\ bySupi'[supiKey(req[x].rec)] = bySupi[supiKey(req[x].rec)]
           /\ req[x].rec.ip # None => byIP'[req[x].rec.ip] = byIP[req[x].rec.ip]
  <1>0. /\ Known(x) /\ Known(w) /\ Runs(w) /\ Stays
        /\ req[x].kind = "register" /\ req[x].id \in BindingIDs /\ req[x].rec \in PCFBinding
    BY TypeStep, StepStays DEF TypeInv, Known, Served, Bound
  <1>1. InUse(x)
    BY <1>0 DEF InUse, Served, Runs
  <1>2. ASSUME req[w].kind = "register"
        PROVE  req[w].id # req[x].id /\ Apart(req[w].rec, req[x].rec)
    BY <1>0, <1>1, <1>2 DEF UseApart, InUse, Distinct
  <1>3. ASSUME req[w].pc \in {"dIP", "dSupi", "dDel"}
        PROVE  Apart(req[w].rec, req[x].rec) /\ (Served(x) => req[w].id # req[x].id)
    <2>1. PICK v \in Reqs : Bound(v) /\ req[v].id = req[w].id /\ req[v].rec = req[w].rec
      BY <1>3 DEF Sound, ClientInv
    <2>2. req[w].kind = "deregister"
      BY <1>0, <1>3 DEF Known
    <2>3. InUse(v)
      BY <1>0, <2>1, <2>2, ClosingInUse
    <2>4. Served(x) => req[w].id # req[x].id
      BY <2>2 DEF Served, Deregisters
    <2>5. v # x
      <3>1. CASE Served(x)
        BY <2>1, <2>4, <3>1
      <3>2. CASE req[x].pc = "rSupi"
        BY <1>0, <2>1, <3>2, BoundStays DEF Runs
      <3> QED
        BY <3>1, <3>2
    <2> QED
      BY <1>1, <2>1, <2>3, <2>4, <2>5 DEF UseApart
  <1>4. Served(x) => bindings'[req[x].id] = bindings[req[x].id]
    BY <1>0, <1>2, <1>3, BindingsWritten DEF Known
  <1>5. supiKey(req[x].rec) \in SupiKeys /\ (req[x].rec.ip # None => req[x].rec.ip \in Addrs)
    BY <1>0, KeysOf
  <1>6. bySupi'[supiKey(req[x].rec)] = bySupi[supiKey(req[x].rec)]
    <2>1. ASSUME req[w].pc \in {"rSupi", "dSupi"} PROVE supiKey(req[w].rec) # supiKey(req[x].rec)
      BY <1>0, <1>2, <1>3, <2>1 DEF Known, Apart
    <2> QED
      BY <1>5, <2>1, BySupiWritten
  <1>7. ASSUME req[x].rec.ip # None PROVE byIP'[req[x].rec.ip] = byIP[req[x].rec.ip]
    <2>1. ASSUME req[w].pc \in {"rIP", "dIP"} PROVE req[w].rec.ip # req[x].rec.ip
      BY <1>0, <1>2, <1>3, <1>7, <2>1 DEF Known, Apart
    <2> QED
      BY <1>5, <1>7, <2>1, ByIPWritten
  <1> QED
    BY <1>4, <1>6, <1>7

LEMMA FoundStep ==
    ASSUME TypeInv, Sound, Distinct, Kept, NEW w \in Reqs, Step(w)
    PROVE  AllFound'
  <1>0. /\ Stays /\ Alone(w) /\ Runs(w) /\ Known(w) /\ req'[w].kind = req[w].kind /\ TypeOK
        /\ UseApart /\ ClosedOnce /\ AllFound
    BY TypeStep, StepStays DEF TypeInv, Kept
  <1> SUFFICES ASSUME NEW x \in Reqs, Served(x)' \/ req'[x].pc = "rSupi"
               PROVE  /\ Served(x)' => /\ bindings'[req'[x].id] = req'[x].rec
                                       /\ bySupi'[supiKey(req'[x].rec)] = req'[x].id
                      /\ req'[x].rec.ip # None => byIP'[req'[x].rec.ip] = req'[x].id
    BY DEF AllFound, supiKey
  <1>1. CASE x # w
    <2>1. req'[x] = req[x]
      BY <1>0, <1>1 DEF Alone
    <2>2. Served(x)' => Served(x)
      <3>1. Bound(x)' => Bound(x)
        BY <2>1 DEF Bound
      <3> QED
        BY <1>0, <3>1, ServedBefore DEF Served
    <2>3. Served(x) \/ req[x].pc = "rSupi"
      BY <2>1, <2>2
    <2> QED
      BY <1>0, <1>1, <2>1, <2>2, <2>3, FoundOthers DEF AllFound
  <1>2. CASE x = w /\ req'[x].pc = "rSupi"
    <2>1. req[x].kind = "register" /\ req'[x].id = req[x].id /\ req'[x].rec = req[x].rec
      <3>1. Known(x)'
        BY TypeStep DEF TypeInv
      <3> QED
        BY <1>0, <1>2, <3>1 DEF Known, Stays
    <2>2. ~Served(x)'
      <3>1. Known(x)'
        BY TypeStep DEF TypeInv
      <3> QED
        BY <1>2, <3>1 DEF Known, Served, Bound
    <2> QED
      BY <1>2, <2>1, <2>2, HoldsAfter
  <1>3. CASE x = w /\ Served(x)'
    <2>1. req'[x].code = 201
      BY <1>3 DEF Served, Bound
    <2>2. /\ req[x].pc = "rSupi" /\ UNCHANGED <<bindings, byIP>>
          /\ bySupi' = [bySupi EXCEPT ![supiKey(req[x].rec)] = req[x].id]
      BY <1>3, <2>1, HoldsAfter
    <2>3. /\ req[x].kind = "register" /\ req'[x].id = req[x].id /\ req'[x].rec = req[x].rec
          /\ supiKey(req[x].rec) \in SupiKeys
      BY <1>0, <1>3, <2>2, KeysOf DEF Known, Stays
    <2>4. bindings[req[x].id] = req[x].rec
      BY <2>2 DEF Sound, WrittenFirst
    <2>5. req[x].rec.ip # None => byIP[req[x].rec.ip] = req[x].id
      BY <1>0, <2>2 DEF AllFound
    <2>6. bySupi'[supiKey(req[x].rec)] = req[x].id
      BY <1>0, <2>2, <2>3 DEF TypeOK
    <2> QED
      BY <2>2, <2>3, <2>4, <2>5, <2>6
  <1> QED
    BY <1>1, <1>2, <1>3

LEMMA SerialNext ==
    ASSUME Serial, TypeInv, StoreInv, SerialInv, [Next]_vars
    PROVE  SerialInv'
  <1> SUFFICES ASSUME Distinct' PROVE Kept'
    BY DEF SerialInv
  <1>0. Stays /\ Distinct /\ Sound /\ Kept /\ TypeOK
    BY NamesStay DEF StoreInv, SerialInv, TypeInv
  <1>1. UseApart' /\ ClosedOnce'
    BY <1>0, UseApartNext, ClosedOnceNext DEF Kept
  <1> SUFFICES AllFound'
    BY <1>1 DEF Kept
  <1>2. ASSUME UNCHANGED keys,
               \A x \in Reqs : /\ Bound(x)' => Bound(x)
                               /\ req'[x].pc = "rSupi" => req'[x] = req[x]
        PROVE  AllFound'
    <2> SUFFICES ASSUME NEW x \in Reqs
                 PROVE  /\ Served(x)' => /\ bindings'[req'[x].id] = req'[x].rec
                                         /\ bySupi'[supiKey(req'[x].rec)] = req'[x].id
                        /\ (Served(x)' \/ req'[x].pc = "rSupi") /\ req'[x].rec.ip # None =>
                             byIP'[req'[x].rec.ip] = req'[x].id
      BY DEF AllFound, supiKey
    <2>1. Served(x)' => Served(x) /\ req'[x] = req[x]
      BY <1>0, <1>2, ServedBefore, BoundStays DEF Served
    <2> QED
      BY <1>0, <1>2, <2>1 DEF Kept, AllFound, keys
  <1>3. CASE UNCHANGED vars
    <2>1. UNCHANGED keys /\ \A x \in Reqs : req'[x] = req[x]
      BY <1>3 DEF vars, keys
    <2>2. \A x \in Reqs : Bound(x)' => Bound(x)
      BY <2>1 DEF Bound
    <2> QED
      BY <1>2, <2>1, <2>2
  <1>4. CASE Restart
    <2>1. UNCHANGED keys /\ \A y \in Reqs : Restarts(y)
      BY <1>0, <1>4, RestartEffect
    <2>2. ASSUME NEW y \in Reqs, req'[y] # req[y] PROVE req'[y].pc = "crashed"
      <3>1. req[y].kind = "register" /\ Runs(y)
        BY <1>0, <1>4, <2>2 DEF Restart
      <3> QED
        BY <2>1, <3>1 DEF Restarts
    <2>3. \A y \in Reqs : Bound(y)' => Bound(y)
      BY <2>1 DEF Bound, Restarts
    <2>4. \A y \in Reqs : req'[y].pc = "rSupi" => req'[y] = req[y]
      BY <2>2
    <2> QED
      BY <1>2, <2>1, <2>3, <2>4
  <1>5. ASSUME NEW x \in Reqs, Step(x) PROVE AllFound'
    BY <1>0, <1>5, FoundStep
  <1>6. ASSUME NEW x \in Reqs, NEW kind, NEW pc \in {"rPut", "dGet", "qIP", "qSupi"},
               Begins(x, kind, pc)
        PROVE  AllFound'
    <2>1. UNCHANGED keys /\ \A y \in Reqs : y # x => req'[y] = req[y]
      BY <1>6 DEF Begins, Alone
    <2>2. req'[x].pc = pc /\ req'[x].code = 0
      BY <1>6 DEF Begins, TypeInv, Known
    <2> QED
      BY <1>2, <1>6, <2>1, <2>2 DEF Bound
  <1>7. ASSUME NEW x \in Reqs, NEW b \in PCFBinding, RegisterStart(x, b) PROVE AllFound'
    BY <1>6, <1>7, RegisterStartEffect
  <1>8. ASSUME NEW x \in Reqs, NEW i \in BindingIDs, DeregisterStart(x, i) PROVE AllFound'
    BY <1>0, <1>6, <1>8, DeregisterStartEffect
  <1>9. ASSUME NEW x \in Reqs, NEW k \in Addrs \cup SupiKeys, DiscoverStart(x, k) PROVE AllFound'
    <2>1. Begins(x, "discover", IF k \in Addrs THEN "qIP" ELSE "qSupi")
      BY <1>0, <1>9, DiscoverStartEffect
    <2> QED
      BY <1>6, <2>1
  <1> QED
    BY <1>3, <1>4, <1>5, <1>7, <1>8, <1>9, StepCases

(* A binding whose registration was answered with 201 is found by its      *)
(* address and by its subscriber until someone asks to deregister it, at   *)
(* whatever point other requests fail or die: when no client registers an  *)
(* address or a subscriber's data network that is in use, or deregisters a *)
(* binding again, and as long as an identifier names one binding.          *)
THEOREM BindingsFound ==
    ASSUME Serial
    PROVE  Spec => []Discoverable
  <1>1. Init => SerialInv
    BY SerialInit
  <1>2. TypeInv /\ NameInv /\ StoreInv /\ SerialInv /\ [Next]_vars => SerialInv'
    BY SerialNext
  <1>3. NameInv /\ SerialInv => Discoverable
    BY FreshDistinct DEF SerialInv, Kept, AllFound, Served, Discoverable
  <1> QED
    BY <1>1, <1>2, <1>3, StoreAlways, PTL DEF Spec
=============================================================================
