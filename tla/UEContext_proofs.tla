-------------------------- MODULE UEContext_proofs --------------------------
(***************************************************************************)
(* Proofs about UEContext: type correctness and the uniqueness of the      *)
(* AMF-UE-NGAP-IDs for every deployment, and what the handlers may do to a *)
(* context when a UE runs one procedure at a time.                         *)
(***************************************************************************)
EXTENDS UEContext, SequenceTheorems, FiniteSetTheorems, TLAPS

Codes == {0, 200, 403, 404, 409, 500, 502}
RegisterPC == {"auth", "sdm", "check", "incGet", "incPut", "put"}
\* The points at which a handler holds the context it has read.
HoldsPC == {"decGet", "decPut", "dDel", "sPut", "hPut", "lCall"}

\* An invocation that runs knows what it works on.
LocalInv == \A x \in Reqs :
    /\ Runs(x) => req[x] \in Request /\ req[x].i >= 1
    /\ req[x].pc \in RegisterPC =>
          /\ req[x].kind = "register"
          /\ req[x].gnb \in Gnbs /\ req[x].id # 0
    /\ req[x].pc \in {"hGet", "hPut"} => req[x].gnb \in Gnbs
    /\ req[x].pc \in HoldsPC => req[x].ctx # NoContext
TypeInv == TypeOK /\ LocalInv

-----------------------------------------------------------------------------
(* What each step does, without the EXCEPTs.                               *)

\* A step of request x leaves the others alone.
Alone(x) ==
    /\ req' \in [Reqs -> Request \cup {Fresh}]
    /\ \A y \in Reqs : y # x => req'[y] = req[y]
\* A request that keeps what its client sent.
SameInput(v, r) ==
    /\ v \in Request
    /\ v.kind = r.kind /\ v.supi = r.supi /\ v.gnb = r.gnb /\ v.id = r.id
\* The step of request x takes it to p, with context c and without an answer yet.
Goes(x, p, c) ==
    /\ Alone(x) /\ SameInput(req'[x], req[x])
    /\ req'[x].pc = p /\ req'[x].ctx = c
    /\ p # "done" => req'[x].code = req[x].code

LEMMA SetReq ==
    ASSUME TypeOK, NEW x \in Reqs, NEW v \in Request, req' = [req EXCEPT ![x] = v]
    PROVE  Alone(x) /\ req'[x] = v
  BY DEF TypeOK, Alone

LEMMA SetPC ==
    ASSUME NEW r \in Request, NEW p \in PC
    PROVE  LET v == [r EXCEPT !.pc = p] IN
           SameInput(v, r) /\ v.pc = p /\ v.ctx = r.ctx /\ v.code = r.code /\ v.i = r.i
  BY DEF Request, SameInput

LEMMA SetCode ==
    ASSUME NEW r \in Request, NEW k \in Codes
    PROVE  LET v == [r EXCEPT !.code = k] IN
           SameInput(v, r) /\ v.pc = r.pc /\ v.ctx = r.ctx /\ v.code = k /\ v.i = r.i
  BY DEF Request, SameInput, Codes

LEMMA SetCtx ==
    ASSUME NEW r \in Request, NEW c \in Context
    PROVE  LET v == [r EXCEPT !.ctx = c] IN
           SameInput(v, r) /\ v.pc = r.pc /\ v.ctx = c /\ v.code = r.code /\ v.i = r.i
  BY DEF Request, SameInput

LEMMA SetCnt ==
    ASSUME NEW r \in Request, NEW n \in Nat
    PROVE  LET v == [r EXCEPT !.cnt = n] IN
           /\ SameInput(v, r) /\ v.pc = r.pc /\ v.ctx = r.ctx /\ v.code = r.code
           /\ v.i = r.i /\ v.cnt = n
  BY DEF Request, SameInput

LEMMA SetI ==
    ASSUME NEW r \in Request, NEW n \in Nat
    PROVE  LET v == [r EXCEPT !.i = n] IN
           SameInput(v, r) /\ v.pc = r.pc /\ v.ctx = r.ctx /\ v.code = r.code /\ v.i = n
  BY DEF Request, SameInput

LEMMA AtEffect ==
    ASSUME TypeOK, NEW x \in Reqs, req[x] \in Request, NEW p \in PC, req' = At(x, p)
    PROVE  Goes(x, p, req[x].ctx) /\ req'[x].code = req[x].code /\ req'[x].i = req[x].i
  <1> DEFINE v == [req[x] EXCEPT !.pc = p]
  <1>1. SameInput(v, req[x]) /\ v.pc = p /\ v.ctx = req[x].ctx /\ v.code = req[x].code
        /\ v.i = req[x].i
    BY SetPC
  <1>2. req' = [req EXCEPT ![x] = v]
    BY DEF TypeOK, At
  <1> HIDE DEF v
  <1> QED
    BY <1>1, <1>2, SetReq DEF Goes, SameInput

LEMMA ReplyEffect ==
    ASSUME TypeOK, NEW x \in Reqs, req[x] \in Request, NEW k \in Codes, req' = Reply(x, k)
    PROVE  Goes(x, "done", req[x].ctx) /\ req'[x].code = k /\ req'[x].i = req[x].i
  <1>0. DOMAIN req = Reqs
    BY DEF TypeOK
  <1> DEFINE w == [req[x] EXCEPT !.pc = "done"]
             v == [w EXCEPT !.code = k]
  <1>1. SameInput(w, req[x]) /\ w.pc = "done" /\ w.ctx = req[x].ctx /\ w.i = req[x].i
    BY SetPC DEF PC
  <1>2. req' = [req EXCEPT ![x] = v]
    BY <1>0, Zenon DEF Reply
  <1> HIDE DEF w
  <1>3. SameInput(v, w) /\ v.pc = w.pc /\ v.ctx = w.ctx /\ v.code = k /\ v.i = w.i
    BY <1>1, SetCode DEF SameInput
  <1> HIDE DEF v
  <1> QED
    BY <1>1, <1>2, <1>3, SetReq DEF Goes, SameInput

LEMMA KeepEffect ==
    ASSUME TypeOK, NEW x \in Reqs, req[x] \in Request, NEW p \in PC, NEW c \in Context,
           Keep(x, c, p)
    PROVE  Goes(x, p, c) /\ req'[x].i = req[x].i
  <1>0. DOMAIN req = Reqs
    BY DEF TypeOK
  <1> DEFINE w == [req[x] EXCEPT !.ctx = c]
             v == [w EXCEPT !.pc = p]
  <1>1. SameInput(w, req[x]) /\ w.ctx = c /\ w.code = req[x].code /\ w.i = req[x].i
    BY SetCtx
  <1>2. req' = [req EXCEPT ![x] = v]
    BY <1>0, Zenon DEF Keep
  <1> HIDE DEF w
  <1>3. SameInput(v, w) /\ v.pc = p /\ v.ctx = w.ctx /\ v.code = w.code /\ v.i = w.i
    BY <1>1, SetPC DEF SameInput
  <1> HIDE DEF v
  <1> QED
    BY <1>1, <1>2, <1>3, SetReq DEF Goes, SameInput

LEMMA CountEffect ==
    ASSUME TypeOK, NEW x \in Reqs, req[x] \in Request, NEW p \in PC, NEW n \in Nat,
           req' = [req EXCEPT ![x].pc = p, ![x].cnt = n]
    PROVE  Goes(x, p, req[x].ctx) /\ req'[x].i = req[x].i /\ req'[x].cnt = n
  <1>0. DOMAIN req = Reqs
    BY DEF TypeOK
  <1> DEFINE w == [req[x] EXCEPT !.pc = p]
             v == [w EXCEPT !.cnt = n]
  <1>1. SameInput(w, req[x]) /\ w.pc = p /\ w.ctx = req[x].ctx /\ w.code = req[x].code
        /\ w.i = req[x].i
    BY SetPC
  <1>2. req' = [req EXCEPT ![x] = v]
    BY <1>0, Zenon
  <1> HIDE DEF w
  <1>3. SameInput(v, w) /\ v.pc = w.pc /\ v.ctx = w.ctx /\ v.code = w.code /\ v.i = w.i
        /\ v.cnt = n
    BY <1>1, SetCnt DEF SameInput
  <1> HIDE DEF v
  <1> QED
    BY <1>1, <1>2, <1>3, SetReq DEF Goes, SameInput

LEMMA SkipEffect ==
    ASSUME TypeOK, NEW x \in Reqs, req[x] \in Request, NEW n \in Nat,
           req' = [req EXCEPT ![x].i = n]
    PROVE  Goes(x, req[x].pc, req[x].ctx) /\ req'[x].i = n
  <1> DEFINE v == [req[x] EXCEPT !.i = n]
  <1>1. SameInput(v, req[x]) /\ v.pc = req[x].pc /\ v.ctx = req[x].ctx
        /\ v.code = req[x].code /\ v.i = n
    BY SetI
  <1>2. req' = [req EXCEPT ![x] = v]
    BY DEF TypeOK
  <1> HIDE DEF v
  <1> QED
    BY <1>1, <1>2, SetReq DEF Goes, SameInput

LEMMA IndexEffect ==
    ASSUME TypeOK, NEW x \in Reqs, req[x] \in Request, NEW p \in PC, NEW n \in Nat,
           req' = [req EXCEPT ![x].pc = p, ![x].i = n]
    PROVE  Goes(x, p, req[x].ctx) /\ req'[x].i = n
  <1>0. DOMAIN req = Reqs
    BY DEF TypeOK
  <1> DEFINE w == [req[x] EXCEPT !.pc = p]
             v == [w EXCEPT !.i = n]
  <1>1. SameInput(w, req[x]) /\ w.pc = p /\ w.ctx = req[x].ctx /\ w.code = req[x].code
    BY SetPC
  <1>2. req' = [req EXCEPT ![x] = v]
    BY <1>0, Zenon
  <1> HIDE DEF w
  <1>3. SameInput(v, w) /\ v.pc = w.pc /\ v.ctx = w.ctx /\ v.code = w.code /\ v.i = n
    BY <1>1, SetI DEF SameInput
  <1> HIDE DEF v
  <1> QED
    BY <1>1, <1>2, <1>3, SetReq DEF Goes, SameInput

LEMMA StartEffect ==
    ASSUME TypeOK, NEW x \in Reqs, NEW k \in Kinds, NEW u \in Supis,
           NEW g \in Gnbs \cup {NoGnb}, NEW p \in PC, NEW n \in Nat, Start(x, k, u, g, p, n)
    PROVE  /\ Alone(x) /\ req'[x] \in Request
           /\ req[x].pc = "idle" /\ MayStart(k, u)
           /\ req'[x].kind = k /\ req'[x].supi = u /\ req'[x].gnb = g /\ req'[x].id = n
           /\ req'[x].pc = p /\ req'[x].ctx = NoContext /\ req'[x].i = 1 /\ req'[x].code = 0
  <1> DEFINE v == [pc |-> p, kind |-> k, supi |-> u, gnb |-> g, id |-> n,
                   code |-> 0, ctx |-> NoContext, i |-> 1, cnt |-> 0]
  <1>1. /\ v \in Request /\ v.kind = k /\ v.supi = u /\ v.gnb = g
        /\ v.id = n /\ v.pc = p /\ v.ctx = NoContext /\ v.i = 1 /\ v.code = 0
    BY DEF Request
  <1>2. req' = [req EXCEPT ![x] = v]
    BY DEF Start
  <1>3. req[x].pc = "idle" /\ MayStart(k, u)
    BY DEF Start
  <1> HIDE DEF v
  <1> QED
    BY <1>1, <1>2, <1>3, SetReq
-----------------------------------------------------------------------------
(* The effect of each action.                                              *)

\* A step of x that touches neither the contexts nor the NGAP-ID counter.
Works(x, from, to) ==
    /\ req[x].pc \in from
    /\ \E p \in to \cup {"done"} : Goes(x, p, req[x].ctx)
    /\ req'[x].i >= 1
    /\ counters' \in [Slices -> Nat]
    /\ UNCHANGED <<ue, sessions, amfUeNgapIDCounter, restarts>>

LEMMA RunningRequest ==
    ASSUME TypeInv, NEW x \in Reqs, req[x].pc \notin {"idle", "done"}
    PROVE  req[x] \in Request /\ req[x].i >= 1 /\ req[x].i \in Nat
  BY DEF TypeInv, LocalInv, Runs, Request

LEMMA SliceListed ==
    ASSUME TypeInv, NEW nssai \in Seq(Slices), NEW i \in Nat, i >= 1, i <= Len(nssai)
    PROVE  counters[nssai[i]] \in Nat
  <1>1. nssai[i] \in Slices
    BY ElementOfSeq
  <1> QED
    BY <1>1 DEF TypeInv, TypeOK

LEMMA SubscriptionType == \A u \in Supis : NSSAI[u] \in Seq(Slices)
  BY ConstantsAssumption

LEMMA ContextType ==
    ASSUME NEW c \in Context
    PROVE  /\ c.nssai \in Seq(Slices) /\ c.id \in Nat \ {0} /\ c.gnb \in Gnbs
           /\ c # NoContext
  BY SubscriptionType DEF Context, NoContext, RMStates

LEMMA CounterGetEffect ==
    ASSUME TypeInv, NEW x \in Reqs, req[x] \in Request, NEW s, counters[s] \in Nat,
           NEW p \in PC, CounterGet(x, s, p)
    PROVE  Goes(x, p, req[x].ctx) /\ req'[x].i = req[x].i
           /\ (req'[x].cnt = counters[s] \/ req'[x].cnt = 0)
  <1> USE DEF TypeInv
  <1>1. CASE req' = [req EXCEPT ![x].pc = p, ![x].cnt = counters[s]]
    BY <1>1, CountEffect
  <1>2. CASE req' = [req EXCEPT ![x].pc = p, ![x].cnt = 0]
    <2>1. 0 \in Nat
      OBVIOUS
    <2> QED
      BY <1>2, <2>1, CountEffect, Zenon
  <1> QED
    BY <1>1, <1>2 DEF CounterGet

LEMMA CounterPutEffect ==
    ASSUME TypeInv, NEW x \in Reqs, req[x] \in Request, NEW s, NEW n \in Nat,
           NEW p \in PC, CounterPut(x, s, n, p)
    PROVE  /\ Goes(x, p, req[x].ctx) /\ req'[x].i = req[x].i + 1
           /\ counters' \in [Slices -> Nat]
           /\ \/ counters' = [counters EXCEPT ![s] = n]
              \/ UNCHANGED counters
  <1>0. req[x].i + 1 \in Nat
    BY DEF Request
  <1>1. req' = [req EXCEPT ![x].pc = p, ![x].i = @ + 1]
    BY DEF CounterPut
  <1>2. DOMAIN req = Reqs
    BY DEF TypeInv, TypeOK
  <1>3. [req EXCEPT ![x].pc = p][x] = [req[x] EXCEPT !.pc = p]
    BY <1>2, Zenon
  <1>4. [req[x] EXCEPT !.pc = p].i = req[x].i
    BY SetPC
  <1>5. req' = [req EXCEPT ![x].pc = p, ![x].i = req[x].i + 1]
    BY <1>1, <1>3, <1>4, Zenon
  <1>6. Goes(x, p, req[x].ctx) /\ req'[x].i = req[x].i + 1
    BY <1>0, <1>5, IndexEffect DEF TypeInv
  <1>7. counters' \in [Slices -> Nat]
    BY DEF CounterPut, TypeInv, TypeOK
  <1>8. counters' = [counters EXCEPT ![s] = n] \/ UNCHANGED counters
    BY DEF CounterPut
  <1> QED
    BY <1>6, <1>7, <1>8

LEMMA SkipsEffect ==
    ASSUME TypeInv, NEW x \in Reqs, req[x] \in Request, req' = [req EXCEPT ![x].i = @ + 1]
    PROVE  Goes(x, req[x].pc, req[x].ctx) /\ req'[x].i = req[x].i + 1
  <1>1. req[x].i + 1 \in Nat
    BY DEF Request
  <1>2. req' = [req EXCEPT ![x].i = req[x].i + 1]
    BY Zenon
  <1> QED
    BY <1>1, <1>2, SkipEffect DEF TypeInv

LEMMA RegisterAuthEffect ==
    ASSUME TypeInv, NEW x \in Reqs, RegisterAuth(x)
    PROVE  Works(x, {"auth"}, {"sdm"})
  <1>1. req[x].pc = "auth"
    BY DEF RegisterAuth
  <1>2. req[x] \in Request /\ req[x].i >= 1
    BY <1>1, RunningRequest
  <1>3. req' = At(x, "sdm") \/ req' = Reply(x, 403) \/ req' = Reply(x, 500)
    BY DEF RegisterAuth
  <1> QED
    BY <1>1, <1>2, <1>3, AtEffect, ReplyEffect DEF RegisterAuth, Works, TypeInv, TypeOK, PC, Codes

LEMMA RegisterSubscriptionEffect ==
    ASSUME TypeInv, NEW x \in Reqs, RegisterSubscription(x)
    PROVE  Works(x, {"sdm"}, {"check", "put"}) /\ (NSACF => req'[x].pc # "put")
  <1>1. req[x].pc = "sdm"
    BY DEF RegisterSubscription
  <1>2. req[x] \in Request /\ req[x].i >= 1
    BY <1>1, RunningRequest
  <1>3. \/ req' = At(x, "check")
        \/ req' = At(x, "put") /\ ~NSACF
        \/ req' = Reply(x, 500)
    <2>1. At(x, IF NSACF THEN "check" ELSE "put") = IF NSACF THEN At(x, "check") ELSE At(x, "put")
      BY Zenon
    <2> QED
      BY <2>1 DEF RegisterSubscription
  <1> QED
    BY <1>1, <1>2, <1>3, AtEffect, ReplyEffect
       DEF RegisterSubscription, Works, TypeInv, TypeOK, PC, Codes, Goes

LEMMA RegisterCheckEffect ==
    ASSUME TypeInv, NEW x \in Reqs, RegisterCheck(x)
    PROVE  /\ Works(x, {"check"}, {"check", "incGet"})
           /\ req'[x].pc = "incGet" => req'[x].i = 1
  <1>1. req[x].pc = "check"
    BY DEF RegisterCheck
  <1>2. req[x] \in Request /\ req[x].i >= 1 /\ req[x].i \in Nat
    BY <1>1, RunningRequest
  <1>3. \/ req' = [req EXCEPT ![x].i = @ + 1] \/ req' = Reply(x, 403)
        \/ req' = [req EXCEPT ![x].pc = "incGet", ![x].i = 1]
    BY DEF RegisterCheck
  <1>4. UNCHANGED <<ue, counters, sessions, amfUeNgapIDCounter, restarts>>
    BY DEF RegisterCheck
  <1>5. CASE req' = [req EXCEPT ![x].i = @ + 1]
    <2>1. Goes(x, req[x].pc, req[x].ctx) /\ req'[x].i = req[x].i + 1
      BY <1>2, <1>5, SkipsEffect, Zenon
    <2> QED
      BY <1>1, <1>2, <1>4, <2>1 DEF Works, TypeInv, TypeOK, Goes
  <1>6. CASE req' = Reply(x, 403)
    BY <1>1, <1>2, <1>4, <1>6, ReplyEffect DEF Works, TypeInv, TypeOK, Goes, Codes
  <1>7. CASE req' = [req EXCEPT ![x].pc = "incGet", ![x].i = 1]
    <2>1. 1 \in Nat /\ "incGet" \in PC
      BY DEF PC
    <2>2. Goes(x, "incGet", req[x].ctx) /\ req'[x].i = 1
      BY <1>2, <1>7, <2>1, IndexEffect, Zenon DEF TypeInv
    <2> QED
      BY <1>1, <1>2, <1>4, <2>2 DEF Works, TypeInv, TypeOK, Goes
  <1> QED
    BY <1>3, <1>5, <1>6, <1>7

LEMMA RegisterIncGetEffect ==
    ASSUME TypeInv, NEW x \in Reqs, RegisterIncGet(x)
    PROVE  /\ Works(x, {"incGet"}, {"incGet", "incPut", "put"})
           /\ UNCHANGED counters
           /\ req'[x].pc # "done"
           /\ req'[x].pc = "incGet" => req'[x].i = req[x].i + 1 /\ req[x].i <= Len(NSSAI[req[x].supi])
           /\ req'[x].pc = "incPut" => req'[x].i = req[x].i /\ req[x].i <= Len(NSSAI[req[x].supi])
           /\ req'[x].pc = "put" => req[x].i > Len(NSSAI[req[x].supi])
  <1> DEFINE nssai == NSSAI[req[x].supi]
             s == nssai[req[x].i]
  <1>1. req[x].pc = "incGet"
    BY DEF RegisterIncGet
  <1>2. req[x] \in Request /\ req[x].i >= 1 /\ req[x].i \in Nat
    BY <1>1, RunningRequest
  <1>3. nssai \in Seq(Slices) /\ Len(nssai) \in Nat
    BY <1>2, SubscriptionType DEF Request
  <1>4. UNCHANGED <<ue, counters, sessions, amfUeNgapIDCounter, restarts>>
    BY DEF RegisterIncGet
  <1>5. CASE req[x].i <= Len(nssai) /\ CounterGet(x, s, "incPut")
    <2>1. counters[s] \in Nat
      BY <1>2, <1>3, <1>5, SliceListed
    <2>2. Goes(x, "incPut", req[x].ctx) /\ req'[x].i = req[x].i
      BY <1>2, <1>5, <2>1, CounterGetEffect DEF PC
    <2> QED
      BY <1>1, <1>2, <1>3, <1>4, <1>5, <2>2 DEF Works, TypeInv, TypeOK, Goes
  <1>6. CASE req[x].i <= Len(nssai) /\ req' = [req EXCEPT ![x].i = @ + 1]
    <2>1. Goes(x, req[x].pc, req[x].ctx) /\ req'[x].i = req[x].i + 1
      BY <1>2, <1>6, SkipsEffect, Zenon
    <2>2. req[x].i <= Len(nssai)
      BY <1>6
    <2> QED
      BY <1>1, <1>2, <1>4, <2>1, <2>2 DEF Works, TypeInv, TypeOK, Goes
  <1>7. CASE ~(req[x].i <= Len(nssai)) /\ req' = At(x, "put")
    BY <1>1, <1>2, <1>3, <1>4, <1>7, AtEffect DEF Works, TypeInv, TypeOK, Goes, PC
  <1> QED
    BY <1>5, <1>6, <1>7 DEF RegisterIncGet

LEMMA RegisterIncPutEffect ==
    ASSUME TypeInv, NEW x \in Reqs, RegisterIncPut(x)
    PROVE  /\ Works(x, {"incPut"}, {"incGet"})
           /\ req'[x].pc = "incGet" /\ req'[x].i = req[x].i + 1
           /\ \/ counters' = [counters EXCEPT ![SliceOf(x)] = req[x].cnt + 1]
              \/ UNCHANGED counters
  <1>1. req[x].pc = "incPut"
    BY DEF RegisterIncPut
  <1>2. req[x] \in Request /\ req[x].i >= 1 /\ req[x].i \in Nat
    BY <1>1, RunningRequest
  <1>3. req[x].cnt + 1 \in Nat /\ "incGet" \in PC
    BY <1>2 DEF Request, PC
  <1>4. CounterPut(x, SliceOf(x), req[x].cnt + 1, "incGet")
    BY DEF RegisterIncPut, SliceOf
  <1>5. /\ Goes(x, "incGet", req[x].ctx) /\ req'[x].i = req[x].i + 1
        /\ counters' \in [Slices -> Nat]
        /\ \/ counters' = [counters EXCEPT ![SliceOf(x)] = req[x].cnt + 1]
           \/ UNCHANGED counters
    BY <1>2, <1>3, <1>4, CounterPutEffect
  <1> QED
    BY <1>1, <1>2, <1>5 DEF Works, RegisterIncPut, Goes
LEMMA DeregisterDecGetEffect ==
    ASSUME TypeInv, NEW x \in Reqs, DeregisterDecGet(x)
    PROVE  /\ Works(x, {"decGet"}, {"decGet", "decPut", "dDel"})
           /\ UNCHANGED counters
           /\ req'[x].pc # "done"
           /\ req'[x].pc = "decGet" => req'[x].i = req[x].i + 1 /\ req[x].i <= Len(req[x].ctx.nssai)
           /\ req'[x].pc = "decPut" => req'[x].i = req[x].i /\ req[x].i <= Len(req[x].ctx.nssai)
           /\ req'[x].pc = "dDel" => req[x].i > Len(req[x].ctx.nssai)
  <1> DEFINE nssai == req[x].ctx.nssai
             s == nssai[req[x].i]
  <1>1. req[x].pc = "decGet"
    BY DEF DeregisterDecGet
  <1>2. req[x] \in Request /\ req[x].i >= 1 /\ req[x].i \in Nat
    BY <1>1, RunningRequest
  <1>3. nssai \in Seq(Slices) /\ Len(nssai) \in Nat
    <2>1. req[x].ctx # NoContext
      BY <1>1 DEF TypeInv, LocalInv, HoldsPC
    <2>2. req[x].ctx \in Context
      BY <1>2, <2>1 DEF Request
    <2> QED
      BY <2>2, ContextType
  <1>4. UNCHANGED <<ue, counters, sessions, amfUeNgapIDCounter, restarts>>
    BY DEF DeregisterDecGet
  <1>5. CASE req[x].i <= Len(nssai) /\ CounterGet(x, s, "decPut")
    <2>1. counters[s] \in Nat
      BY <1>2, <1>3, <1>5, SliceListed
    <2>2. Goes(x, "decPut", req[x].ctx) /\ req'[x].i = req[x].i
      BY <1>2, <1>5, <2>1, CounterGetEffect DEF PC
    <2> QED
      BY <1>1, <1>2, <1>3, <1>4, <1>5, <2>2 DEF Works, TypeInv, TypeOK, Goes
  <1>6. CASE req[x].i <= Len(nssai) /\ req' = [req EXCEPT ![x].i = @ + 1]
    <2>1. Goes(x, req[x].pc, req[x].ctx) /\ req'[x].i = req[x].i + 1
      BY <1>2, <1>6, SkipsEffect, Zenon
    <2>2. req[x].i <= Len(nssai)
      BY <1>6
    <2> QED
      BY <1>1, <1>2, <1>4, <2>1, <2>2 DEF Works, TypeInv, TypeOK, Goes
  <1>7. CASE ~(req[x].i <= Len(nssai)) /\ req' = At(x, "dDel")
    BY <1>1, <1>2, <1>3, <1>4, <1>7, AtEffect DEF Works, TypeInv, TypeOK, Goes, PC
  <1> QED
    BY <1>5, <1>6, <1>7 DEF DeregisterDecGet

LEMMA DeregisterDecPutEffect ==
    ASSUME TypeInv, NEW x \in Reqs, DeregisterDecPut(x)
    PROVE  /\ Works(x, {"decPut"}, {"decGet"})
           /\ req'[x].pc = "decGet" /\ req'[x].i = req[x].i + 1
           /\ \/ counters' = [counters EXCEPT ![req[x].ctx.nssai[req[x].i]] =
                                IF req[x].cnt - 1 < 0 THEN 0 ELSE req[x].cnt - 1]
              \/ UNCHANGED counters
  <1> DEFINE n == IF req[x].cnt - 1 < 0 THEN 0 ELSE req[x].cnt - 1
             s == req[x].ctx.nssai[req[x].i]
  <1>1. req[x].pc = "decPut"
    BY DEF DeregisterDecPut
  <1>2. req[x] \in Request /\ req[x].i >= 1 /\ req[x].i \in Nat
    BY <1>1, RunningRequest
  <1>3. n \in Nat /\ "decGet" \in PC
    BY <1>2 DEF Request, PC
  <1>4. CounterPut(x, s, n, "decGet")
    BY DEF DeregisterDecPut
  <1>6. UNCHANGED <<ue, sessions, amfUeNgapIDCounter, restarts>>
    BY DEF DeregisterDecPut
  <1> HIDE DEF n, s
  <1>5. /\ Goes(x, "decGet", req[x].ctx) /\ req'[x].i = req[x].i + 1
        /\ counters' \in [Slices -> Nat]
        /\ \/ counters' = [counters EXCEPT ![s] = n]
           \/ UNCHANGED counters
    BY <1>2, <1>3, <1>4, CounterPutEffect
  <1>7. Works(x, {"decPut"}, {"decGet"}) /\ req'[x].pc = "decGet"
    BY <1>1, <1>2, <1>5, <1>6 DEF Works, Goes
  <1> QED
    BY <1>5, <1>7 DEF n, s

LEMMA ReadContextEffect ==
    ASSUME TypeInv, NEW x \in Reqs, NEW from \in {"dGet", "sGet", "hGet", "lGet"},
           NEW conflict, NEW next \in HoldsPC, ReadContext(x, from, conflict, next)
    PROVE  /\ req[x].pc = from /\ req[x] \in Request
           /\ req'[x].i = req[x].i
           /\ \/ Goes(x, "done", req[x].ctx)
              \/ Goes(x, next, ContextOf(x)) /\ ContextOf(x) \in Context
           /\ UNCHANGED <<ue, counters, sessions, amfUeNgapIDCounter, restarts>>
  <1>1. req[x].pc = from
    BY DEF ReadContext
  <1>2. req[x] \in Request
    BY <1>1, RunningRequest
  <1>3. req[x].supi \in Supis /\ ContextOf(x) \in Context \cup {NoContext}
    BY <1>2 DEF Request, ContextOf, TypeInv, TypeOK
  <1>4. UNCHANGED <<ue, counters, sessions, amfUeNgapIDCounter, restarts>>
    BY DEF ReadContext
  <1>5. CASE req' = Reply(x, 404) \/ req' = Reply(x, 409)
    BY <1>1, <1>2, <1>4, <1>5, ReplyEffect DEF Codes, TypeInv
  <1>6. CASE Keep(x, ContextOf(x), next) /\ ContextOf(x) # NoContext
    BY <1>1, <1>2, <1>3, <1>4, <1>6, KeepEffect DEF TypeInv, HoldsPC, PC
  <1> QED
    BY <1>5, <1>6 DEF ReadContext

\* What RegisterPut, the two Puts of a context read before and the Delete do.
Writes(x, from, new) ==
    /\ req[x].pc = from /\ req[x] \in Request
    /\ Goes(x, "done", req[x].ctx)
    /\ \/ ue' = [ue EXCEPT ![req[x].supi] = new] /\ req'[x].code = 200
       \/ UNCHANGED ue /\ req'[x].code # 200
    /\ UNCHANGED <<counters, sessions, amfUeNgapIDCounter, restarts>>

LEMMA WriteContextEffect ==
    ASSUME TypeInv, NEW x \in Reqs, NEW from \in {"sPut", "hPut"}, NEW new,
           WriteContext(x, from, new)
    PROVE  Writes(x, from, new)
  <1>1. req[x].pc = from
    BY DEF WriteContext
  <1>2. req[x] \in Request
    BY <1>1, RunningRequest
  <1>3. /\ \/ ue' = [ue EXCEPT ![req[x].supi] = new] /\ req' = Reply(x, 200)
           \/ UNCHANGED ue /\ req' = Reply(x, 500)
        /\ UNCHANGED <<counters, sessions, amfUeNgapIDCounter, restarts>>
    BY DEF WriteContext
  <1> QED
    BY <1>1, <1>2, <1>3, ReplyEffect DEF Writes, Codes, TypeInv

LEMMA DeregisterDeleteEffect ==
    ASSUME TypeInv, NEW x \in Reqs, DeregisterDelete(x)
    PROVE  Writes(x, "dDel", NoContext)
  <1>1. req[x].pc = "dDel"
    BY DEF DeregisterDelete
  <1>2. req[x] \in Request
    BY <1>1, RunningRequest
  <1>3. /\ \/ ue' = [ue EXCEPT ![req[x].supi] = NoContext] /\ req' = Reply(x, 200)
           \/ UNCHANGED ue /\ req' = Reply(x, 500)
        /\ UNCHANGED <<counters, sessions, amfUeNgapIDCounter, restarts>>
    BY DEF DeregisterDelete
  <1> QED
    BY <1>1, <1>2, <1>3, ReplyEffect DEF Writes, Codes, TypeInv

\* The context a registration stores.
NewContext(x) == [rm |-> Registered.rm, cm |-> Registered.cm, gnb |-> req[x].gnb,
                  id |-> req[x].id, nssai |-> NSSAI[req[x].supi]]

LEMMA RegisterPutEffect ==
    ASSUME TypeInv, NEW x \in Reqs, RegisterPut(x)
    PROVE  Writes(x, "put", NewContext(x))
  <1>1. req[x].pc = "put"
    BY DEF RegisterPut
  <1>2. req[x] \in Request
    BY <1>1, RunningRequest
  <1>3. /\ \/ ue' = [ue EXCEPT ![req[x].supi] = NewContext(x)] /\ req' = Reply(x, 200)
           \/ UNCHANGED ue /\ req' = Reply(x, 500)
        /\ UNCHANGED <<counters, sessions, amfUeNgapIDCounter, restarts>>
    BY Zenon DEF RegisterPut, NewContext
  <1> QED
    BY <1>1, <1>2, <1>3, ReplyEffect DEF Writes, Codes, TypeInv

LEMMA NewContextType ==
    ASSUME TypeInv, NEW x \in Reqs, req[x].pc = "put"
    PROVE  /\ NewContext(x) \in Context /\ NewContext(x).id = req[x].id
           /\ NewContext(x).gnb = req[x].gnb
           /\ NewContext(x).nssai = NSSAI[req[x].supi]
  <1>1. req[x] \in Request
    BY RunningRequest
  <1>2. req[x].gnb \in Gnbs /\ req[x].id \in Nat \ {0} /\ req[x].supi \in Supis
    BY <1>1 DEF TypeInv, LocalInv, RegisterPC, Request
  <1>3. Registered.rm \in RMStates /\ Registered.cm \in CMStates
    BY DEF Registered, TransitionCM, TransitionRM, NewUEStateMachine, RMStates, CMStates
  <1> QED
    BY <1>2, <1>3 DEF NewContext, Context

LEMMA RelayCallEffect ==
    ASSUME TypeInv, NEW x \in Reqs, RelayCall(x)
    PROVE  /\ req[x].pc = "lCall" /\ req[x] \in Request
           /\ Goes(x, "done", req[x].ctx)
           /\ sessions' \in {sessions, sessions \cup {x}}
           /\ UNCHANGED <<ue, counters, amfUeNgapIDCounter, restarts>>
  <1>1. req[x].pc = "lCall"
    BY DEF RelayCall
  <1>2. req[x] \in Request
    BY <1>1, RunningRequest
  <1>3. /\ req' = Reply(x, 200) \/ req' = Reply(x, 502)
        /\ sessions' \in {sessions, sessions \cup {x}}
        /\ UNCHANGED <<ue, counters, amfUeNgapIDCounter, restarts>>
    BY DEF RelayCall
  <1> QED
    BY <1>1, <1>2, <1>3, ReplyEffect DEF Codes, TypeInv

\* What a handler begins with, and at what step.
Begins(x, k, u, p, n) ==
    /\ Alone(x) /\ req[x].pc = "idle" /\ MayStart(k, u)
    /\ req'[x] \in Request /\ req'[x].i = 1 /\ req'[x].code = 0
    /\ req'[x].kind = k /\ req'[x].supi = u /\ req'[x].pc = p /\ req'[x].id = n
    /\ UNCHANGED <<ue, counters, sessions, restarts>>

LEMMA ArriveEffect ==
    ASSUME TypeInv, NEW x \in Reqs, Arrive(x)
    PROVE  \E u \in Supis :
             \/ /\ \/ Begins(x, "deregister", u, "dGet", 0)
                   \/ Begins(x, "service", u, "sGet", 0)
                   \/ Begins(x, "relay", u, "lGet", 0)
                   \/ Begins(x, "handover", u, "hGet", 0) /\ req'[x].gnb \in Gnbs
                /\ UNCHANGED amfUeNgapIDCounter
             \/ /\ \E p \in {"auth", "sdm"} :
                      Begins(x, "register", u, p, amfUeNgapIDCounter + 1)
                /\ req'[x].gnb \in Gnbs
                /\ amfUeNgapIDCounter' = amfUeNgapIDCounter + 1
  <1>0. TypeOK /\ amfUeNgapIDCounter + 1 \in Nat /\ 0 \in Nat
    BY DEF TypeInv, TypeOK
  <1>1. PICK u \in Supis :
            \/ DeregisterStart(x, u) \/ ServiceStart(x, u) \/ RelayStart(x, u)
            \/ \E g \in Gnbs : RegisterStart(x, u, g) \/ HandoverStart(x, u, g)
    BY DEF Arrive
  <1>2. CASE DeregisterStart(x, u)
    <2>1. Start(x, "deregister", u, NoGnb, "dGet", 0)
          /\ UNCHANGED <<ue, counters, sessions, amfUeNgapIDCounter, restarts>>
      BY <1>2 DEF DeregisterStart
    <2>2. "deregister" \in Kinds /\ "dGet" \in PC /\ NoGnb \in Gnbs \cup {NoGnb}
      BY DEF Kinds, PC
    <2>3. Begins(x, "deregister", u, "dGet", 0)
      BY <1>0, <2>1, <2>2, StartEffect DEF Begins
    <2> QED
      BY <2>1, <2>3
  <1>3. CASE ServiceStart(x, u)
    <2>1. Start(x, "service", u, NoGnb, "sGet", 0)
          /\ UNCHANGED <<ue, counters, sessions, amfUeNgapIDCounter, restarts>>
      BY <1>3 DEF ServiceStart
    <2>2. "service" \in Kinds /\ "sGet" \in PC /\ NoGnb \in Gnbs \cup {NoGnb}
      BY DEF Kinds, PC
    <2>3. Begins(x, "service", u, "sGet", 0)
      BY <1>0, <2>1, <2>2, StartEffect DEF Begins
    <2> QED
      BY <2>1, <2>3
  <1>4. CASE RelayStart(x, u)
    <2>1. Start(x, "relay", u, NoGnb, "lGet", 0)
          /\ UNCHANGED <<ue, counters, sessions, amfUeNgapIDCounter, restarts>>
      BY <1>4 DEF RelayStart
    <2>2. "relay" \in Kinds /\ "lGet" \in PC /\ NoGnb \in Gnbs \cup {NoGnb}
      BY DEF Kinds, PC
    <2>3. Begins(x, "relay", u, "lGet", 0)
      BY <1>0, <2>1, <2>2, StartEffect DEF Begins
    <2> QED
      BY <2>1, <2>3
  <1>5. ASSUME NEW g \in Gnbs, HandoverStart(x, u, g)
        PROVE  Begins(x, "handover", u, "hGet", 0) /\ req'[x].gnb \in Gnbs
               /\ UNCHANGED amfUeNgapIDCounter
    BY <1>0, <1>5, StartEffect DEF HandoverStart, Begins, Kinds, PC
  <1>6. ASSUME NEW g \in Gnbs, RegisterStart(x, u, g)
        PROVE  /\ \E p \in {"auth", "sdm"} :
                     Begins(x, "register", u, p, amfUeNgapIDCounter + 1)
               /\ req'[x].gnb \in Gnbs
               /\ amfUeNgapIDCounter' = amfUeNgapIDCounter + 1
    <2>1. PICK p \in {"auth", "sdm"} :
              Start(x, "register", u, g, p, amfUeNgapIDCounter + 1)
      BY <1>6 DEF RegisterStart
    <2>2. /\ UNCHANGED <<ue, counters, sessions, restarts>>
          /\ amfUeNgapIDCounter' = amfUeNgapIDCounter + 1
      BY <1>6 DEF RegisterStart
    <2> QED
      BY <1>0, <2>1, <2>2, StartEffect DEF Begins, Kinds, PC
  <1> QED
    BY <1>1, <1>2, <1>3, <1>4, <1>5, <1>6

LEMMA RestartEffect ==
    ASSUME TypeInv, Restart
    PROVE  /\ req' \in [Reqs -> Request \cup {Fresh}]
           /\ \A x \in Reqs :
                 \/ req'[x] = req[x] /\ req[x].pc \notin RegisterPC
                 \/ Runs(x) /\ req[x].kind = "register" /\ req'[x].pc = "done"
                    /\ SameInput(req'[x], req[x]) /\ req'[x].code = req[x].code
           /\ restarts' = restarts + 1 /\ restarts < MaxRestarts
           /\ amfUeNgapIDCounter' = 0
           /\ UNCHANGED <<ue, counters, sessions>>
  <1>1. ASSUME NEW x \in Reqs
        PROVE  /\ req'[x] \in Request \cup {Fresh}
               /\ \/ req'[x] = req[x] /\ req[x].pc \notin RegisterPC
                  \/ Runs(x) /\ req[x].kind = "register" /\ req'[x].pc = "done"
                     /\ SameInput(req'[x], req[x]) /\ req'[x].code = req[x].code
    <2> DEFINE v == [req[x] EXCEPT !.pc = "done"]
    <2>1. CASE Runs(x) /\ req[x].kind = "register"
      <3>1. req'[x] = v
        BY <2>1 DEF Restart
      <3>2. SameInput(v, req[x]) /\ v.pc = "done" /\ v.code = req[x].code
        BY <2>1, RunningRequest, SetPC DEF Runs, PC
      <3> HIDE DEF v
      <3> QED
        BY <2>1, <3>1, <3>2 DEF SameInput
    <2>2. CASE ~(Runs(x) /\ req[x].kind = "register")
      <3>1. req'[x] = req[x]
        BY <2>2, Zenon DEF Restart
      <3>2. req[x].pc \notin RegisterPC
        BY <2>2 DEF TypeInv, LocalInv, Runs, RegisterPC
      <3> QED
        BY <3>1, <3>2 DEF TypeInv, TypeOK
    <2> QED
      BY <2>1, <2>2
  <1>2. req' = [x \in Reqs |-> req'[x]]
    BY Zenon DEF Restart
  <1>3. restarts' = restarts + 1 /\ restarts < MaxRestarts /\ amfUeNgapIDCounter' = 0
        /\ UNCHANGED <<ue, counters, sessions>>
    BY DEF Restart
  <1> QED
    BY <1>1, <1>2, <1>3
-----------------------------------------------------------------------------
(* The steps of a request by what they do to the contexts.                 *)

Reads(x) ==
    /\ req[x].pc \in {"dGet", "sGet", "hGet", "lGet"} /\ req[x] \in Request
    /\ req'[x].i = req[x].i
    /\ \/ Goes(x, "done", req[x].ctx)
       \/ \E p \in HoldsPC :
             /\ Goes(x, p, ContextOf(x)) /\ ContextOf(x) \in Context
             /\ p = "hPut" => req[x].pc = "hGet"
             /\ p # "decPut"
             /\ req[x].pc = "dGet" <=> p \in {"decGet", "dDel"}
             /\ p = "dDel" => ~NSACF
    /\ UNCHANGED <<ue, counters, sessions, amfUeNgapIDCounter, restarts>>

Updated(x) == IF req[x].pc = "sPut" THEN [req[x].ctx EXCEPT !.cm = "CONNECTED"]
                                    ELSE [req[x].ctx EXCEPT !.gnb = req[x].gnb]

Calls(x) ==
    /\ req[x].pc = "lCall" /\ req[x] \in Request
    /\ Goes(x, "done", req[x].ctx)
    /\ sessions' \in {sessions, sessions \cup {x}}
    /\ UNCHANGED <<ue, counters, amfUeNgapIDCounter, restarts>>

LEMMA StepCases ==
    ASSUME TypeInv, NEW x \in Reqs, Step(x)
    PROVE  \/ Works(x, RegisterPC \ {"put"}, RegisterPC)
           \/ Works(x, {"decGet", "decPut"}, {"decGet", "decPut", "dDel"})
           \/ Reads(x)
           \/ Writes(x, "put", NewContext(x))
           \/ Writes(x, "dDel", NoContext)
           \/ Writes(x, "sPut", Updated(x))
           \/ Writes(x, "hPut", Updated(x))
           \/ Calls(x)
  <1>1. CASE RegisterAuth(x)
    BY <1>1, RegisterAuthEffect DEF Works, RegisterPC
  <1>2. CASE RegisterSubscription(x)
    BY <1>2, RegisterSubscriptionEffect DEF Works, RegisterPC
  <1>3. CASE RegisterCheck(x)
    BY <1>3, RegisterCheckEffect DEF Works, RegisterPC
  <1>4. CASE RegisterIncGet(x)
    BY <1>4, RegisterIncGetEffect DEF Works, RegisterPC
  <1>5. CASE RegisterIncPut(x)
    BY <1>5, RegisterIncPutEffect DEF Works, RegisterPC
  <1>6. CASE RegisterPut(x)
    BY <1>6, RegisterPutEffect
  <1>7. CASE DeregisterGet(x)
    <2>1. CASE NSACF
      <3>1. ReadContext(x, "dGet", FALSE, "decGet")
        BY <1>7, <2>1 DEF DeregisterGet
      <3> QED
        BY <3>1, ReadContextEffect DEF Reads, HoldsPC
    <2>2. CASE ~NSACF
      <3>1. ReadContext(x, "dGet", FALSE, "dDel")
        BY <1>7, <2>2 DEF DeregisterGet
      <3> QED
        BY <2>2, <3>1, ReadContextEffect DEF Reads, HoldsPC
    <2> QED
      BY <2>1, <2>2
  <1>8. CASE DeregisterDecGet(x)
    BY <1>8, DeregisterDecGetEffect DEF Works
  <1>9. CASE DeregisterDecPut(x)
    BY <1>9, DeregisterDecPutEffect DEF Works
  <1>10. CASE DeregisterDelete(x)
    BY <1>10, DeregisterDeleteEffect
  <1>11. CASE ServiceGet(x)
    BY <1>11, ReadContextEffect DEF ServiceGet, Reads, HoldsPC
  <1>12. CASE ServicePut(x)
    <2> DEFINE n == [req[x].ctx EXCEPT !.cm = "CONNECTED"]
    <2>1. WriteContext(x, "sPut", n)
      BY <1>12 DEF ServicePut
    <2>2. req[x].pc = "sPut" => n = Updated(x)
      BY DEF Updated
    <2> HIDE DEF n
    <2> QED
      BY <2>1, <2>2, WriteContextEffect DEF Writes
  <1>13. CASE HandoverGet(x)
    BY <1>13, ReadContextEffect DEF HandoverGet, Reads, HoldsPC
  <1>14. CASE HandoverPut(x)
    <2> DEFINE n == [req[x].ctx EXCEPT !.gnb = req[x].gnb]
    <2>1. WriteContext(x, "hPut", n)
      BY <1>14 DEF HandoverPut
    <2>2. req[x].pc = "hPut" => n = Updated(x)
      BY DEF Updated
    <2> HIDE DEF n
    <2> QED
      BY <2>1, <2>2, WriteContextEffect DEF Writes
  <1>15. CASE RelayGet(x)
    BY <1>15, ReadContextEffect DEF RelayGet, Reads, HoldsPC
  <1>16. CASE RelayCall(x)
    BY <1>16, RelayCallEffect DEF Calls
  <1> QED
    BY <1>1, <1>2, <1>3, <1>4, <1>5, <1>6, <1>7, <1>8, <1>9, <1>10, <1>11, <1>12,
       <1>13, <1>14, <1>15, <1>16 DEF Step

LEMMA UpdatedType ==
    ASSUME TypeInv, NEW x \in Reqs, req[x].pc \in {"sPut", "hPut"}
    PROVE  /\ Updated(x) \in Context /\ Updated(x).id = req[x].ctx.id
           /\ Updated(x).nssai = req[x].ctx.nssai
           /\ Updated(x).gnb = IF req[x].pc = "sPut" THEN req[x].ctx.gnb ELSE req[x].gnb
  <1>1. req[x].ctx \in Context
    BY RunningRequest DEF TypeInv, LocalInv, HoldsPC, Request
  <1>2. CASE req[x].pc = "sPut"
    BY <1>1, <1>2 DEF Updated, Context, CMStates
  <1>3. CASE req[x].pc = "hPut"
    <2>1. req[x].gnb \in Gnbs
      BY <1>3 DEF TypeInv, LocalInv
    <2> QED
      BY <1>1, <1>3, <2>1 DEF Updated, Context
  <1> QED
    BY <1>2, <1>3

-----------------------------------------------------------------------------
(* Type correctness.                                                       *)

LEMMA TypeInit == Init => TypeInv
  <1> SUFFICES ASSUME Init PROVE TypeInv
    OBVIOUS
  <1>1. \A x \in Reqs : req[x] = Fresh /\ req[x].pc = "idle"
    BY DEF Init, Fresh
  <1>2. TypeOK
    BY ConstantsAssumption DEF Init, TypeOK
  <1>3. LocalInv
    BY <1>1 DEF LocalInv, Runs, RegisterPC, HoldsPC
  <1> QED
    BY <1>2, <1>3 DEF TypeInv

\* One invocation's part of LocalInv, after a step.
LocalOf(x) ==
    /\ Runs(x) => req[x] \in Request /\ req[x].i >= 1
    /\ req[x].pc \in RegisterPC =>
          /\ req[x].kind = "register"
          /\ req[x].gnb \in Gnbs /\ req[x].id # 0
    /\ req[x].pc \in {"hGet", "hPut"} => req[x].gnb \in Gnbs
    /\ req[x].pc \in HoldsPC => req[x].ctx # NoContext

LEMMA LocalAlone ==
    ASSUME LocalInv, NEW x \in Reqs, Alone(x), LocalOf(x)'
    PROVE  LocalInv'
  <1> SUFFICES ASSUME NEW y \in Reqs PROVE LocalOf(y)'
    BY DEF LocalInv, LocalOf
  <1>1. CASE y = x
    BY <1>1
  <1>2. CASE y # x
    <2>1. req'[y] = req[y] /\ LocalOf(y)
      BY <1>2 DEF Alone, LocalInv, LocalOf
    <2> QED
      BY <2>1 DEF LocalOf, Runs
  <1> QED
    BY <1>1, <1>2

LEMMA StepType ==
    ASSUME TypeInv, NEW x \in Reqs, Step(x)
    PROVE  /\ ue' \in [Supis -> Context \cup {NoContext}]
           /\ counters' \in [Slices -> Nat]
           /\ sessions' \in SUBSET Reqs
           /\ amfUeNgapIDCounter' = amfUeNgapIDCounter /\ restarts' = restarts
           /\ req' \in [Reqs -> Request \cup {Fresh}]
           /\ LocalInv'
  <1> USE DEF TypeInv
  <1>0. req[x].pc \notin {"idle", "done"} => req[x] \in Request /\ req[x].i >= 1
    BY RunningRequest
  <1>1. CASE Works(x, RegisterPC \ {"put"}, RegisterPC)
    <2>1. LocalOf(x)'
      BY <1>1 DEF Works, Goes, SameInput, LocalOf, LocalInv, RegisterPC, HoldsPC
    <2> QED
      BY <1>1, <2>1, LocalAlone DEF Works, Goes, Alone, TypeOK
  <1>2. CASE Works(x, {"decGet", "decPut"}, {"decGet", "decPut", "dDel"})
    <2>1. LocalOf(x)'
      BY <1>2 DEF Works, Goes, SameInput, LocalOf, LocalInv, RegisterPC, HoldsPC
    <2> QED
      BY <1>2, <2>1, LocalAlone DEF Works, Goes, Alone, TypeOK
  <1>3. CASE Reads(x)
    <2>1. req[x].i >= 1
      BY <1>0, <1>3 DEF Reads
    <2>2. ContextOf(x) \in Context => ContextOf(x) # NoContext
      BY ContextType
    <2>3. LocalOf(x)'
      BY <1>3, <2>1, <2>2 DEF Reads, Goes, SameInput, LocalOf, LocalInv, RegisterPC, HoldsPC
    <2> QED
      BY <1>3, <2>3, LocalAlone DEF Reads, Goes, Alone, TypeOK
  <1>4. ASSUME NEW f \in {"put", "dDel", "sPut", "hPut"}, NEW c \in Context \cup {NoContext},
               Writes(x, f, c)
        PROVE  /\ ue' \in [Supis -> Context \cup {NoContext}]
               /\ LocalInv' /\ req' \in [Reqs -> Request \cup {Fresh}]
               /\ UNCHANGED <<counters, sessions, amfUeNgapIDCounter, restarts>>
    <2>1. LocalOf(x)'
      BY <1>4 DEF Writes, Goes, SameInput, LocalOf, Runs, RegisterPC, HoldsPC
    <2> QED
      BY <1>4, <2>1, LocalAlone DEF Writes, Goes, Alone, TypeOK
  <1>5. CASE Writes(x, "put", NewContext(x))
    <2>1. NewContext(x) \in Context
      BY <1>5, NewContextType DEF Writes
    <2> QED
      BY <1>4, <1>5, <2>1 DEF TypeOK
  <1>6. CASE Writes(x, "dDel", NoContext)
    BY <1>4, <1>6 DEF TypeOK
  <1>7. CASE Writes(x, "sPut", Updated(x)) \/ Writes(x, "hPut", Updated(x))
    <2>1. Updated(x) \in Context
      BY <1>7, UpdatedType DEF Writes
    <2> QED
      BY <1>4, <1>7, <2>1 DEF TypeOK
  <1>8. CASE Calls(x)
    <2>1. LocalOf(x)'
      BY <1>8 DEF Calls, Goes, SameInput, LocalOf, Runs, RegisterPC, HoldsPC
    <2> QED
      BY <1>8, <2>1, LocalAlone DEF Calls, Goes, Alone, TypeOK
  <1> QED
    BY <1>1, <1>2, <1>3, <1>5, <1>6, <1>7, <1>8, StepCases

LEMMA ArriveType ==
    ASSUME TypeInv, NEW x \in Reqs, Arrive(x)
    PROVE  /\ UNCHANGED <<ue, counters, sessions, restarts>>
           /\ amfUeNgapIDCounter' \in Nat
           /\ req' \in [Reqs -> Request \cup {Fresh}]
           /\ LocalInv'
  <1>0. amfUeNgapIDCounter \in Nat
    BY DEF TypeInv, TypeOK
  <1>1. PICK u \in Supis :
             \/ /\ \/ Begins(x, "deregister", u, "dGet", 0)
                   \/ Begins(x, "service", u, "sGet", 0)
                   \/ Begins(x, "relay", u, "lGet", 0)
                   \/ Begins(x, "handover", u, "hGet", 0) /\ req'[x].gnb \in Gnbs
                /\ UNCHANGED amfUeNgapIDCounter
             \/ /\ \E p \in {"auth", "sdm"} :
                      Begins(x, "register", u, p, amfUeNgapIDCounter + 1)
                /\ req'[x].gnb \in Gnbs
                /\ amfUeNgapIDCounter' = amfUeNgapIDCounter + 1
    BY ArriveEffect
  <1>2. LocalOf(x)'
    BY <1>0, <1>1 DEF Begins, LocalOf, RegisterPC, HoldsPC
  <1>3. Alone(x) /\ UNCHANGED <<ue, counters, sessions, restarts>>
    BY <1>1 DEF Begins
  <1> QED
    BY <1>0, <1>1, <1>2, <1>3, LocalAlone DEF Alone, TypeInv

LEMMA TypeNext == TypeInv /\ [Next]_vars => TypeInv'
  <1> SUFFICES ASSUME TypeInv, [Next]_vars PROVE TypeInv'
    OBVIOUS
  <1>0. Next => drifted' \in SUBSET Slices
    BY DEF Next, TypeInv, TypeOK
  <1>1. CASE Next /\ Restart
    <2>1. LocalInv'
      <3> SUFFICES ASSUME NEW x \in Reqs PROVE LocalOf(x)'
        BY DEF LocalInv, LocalOf
      <3>1. CASE req'[x] = req[x]
        BY <3>1 DEF TypeInv, LocalInv, LocalOf, Runs
      <3>2. CASE req'[x].pc = "done"
        BY <3>2 DEF LocalOf, Runs, RegisterPC, HoldsPC
      <3> QED
        BY <1>1, <3>1, <3>2, RestartEffect
    <2> QED
      BY <1>0, <1>1, <2>1, RestartEffect, ConstantsAssumption DEF TypeInv, TypeOK
  <1>2. ASSUME Next, NEW x \in Reqs, Arrive(x)
        PROVE  TypeInv'
    BY <1>0, <1>2, ArriveType DEF TypeInv, TypeOK
  <1>3. ASSUME Next, NEW x \in Reqs, Step(x)
        PROVE  TypeInv'
    BY <1>0, <1>3, StepType DEF TypeInv, TypeOK
  <1>4. CASE UNCHANGED vars
    BY <1>4 DEF vars, TypeInv, TypeOK, LocalInv, Runs
  <1> QED
    BY <1>1, <1>2, <1>3, <1>4 DEF Next

LEMMA TypeInvariant == Spec => []TypeInv
  BY TypeInit, TypeNext, PTL DEF Spec

(* In every deployment, whatever fails and overlaps: what the handlers of   *)
(* the AMF store is a context, a count stays a natural number (a decrement  *)
(* stops at 0), and the variables have their types.                         *)
THEOREM TypeCorrect == Spec => []TypeOK
  <1>1. TypeInv => TypeOK
    BY DEF TypeInv
  <1> QED
    BY <1>1, TypeInvariant, PTL
-----------------------------------------------------------------------------
(* AMF-UE-NGAP-IDs.  An ID is held for a UE by its stored context, by a     *)
(* registration that has drawn it, and by a handler that read the context.  *)

Holds(x, n, u) ==
    /\ \/ req[x].pc \in RegisterPC /\ req[x].id = n
       \/ req[x].pc \in HoldsPC /\ req[x].ctx.id = n
    /\ req[x].supi = u
Held(n, u) ==
    \/ Stored(u) /\ ue[u].id = n
    \/ \E x \in Reqs : Holds(x, n, u)

IdInv == restarts = 0 =>
    \A n \in Nat, u \in Supis : Held(n, u) =>
        /\ n <= amfUeNgapIDCounter
        /\ \A v \in Supis : Held(n, v) => v = u

\* Every step but the start of a registration only passes IDs on.
LEMMA StepHeld ==
    ASSUME TypeInv, NEW x \in Reqs, Step(x), NEW n \in Nat, NEW u \in Supis, Held(n, u)'
    PROVE  Held(n, u)
  <1>0. \A c \in Context : c # NoContext
    BY ContextType
  <1>1. ASSUME NEW y \in Reqs, y # x, Alone(x), Holds(y, n, u)'
        PROVE  Held(n, u)
    <2>1. req'[y] = req[y]
      BY <1>1 DEF Alone
    <2> QED
      BY <1>1, <2>1 DEF Held, Holds
  <1>2. ASSUME Alone(x), Holds(x, n, u)' => Held(n, u), ue'[u] = ue[u]
        PROVE  Held(n, u)
    BY <1>1, <1>2 DEF Held, Stored
  <1>3. CASE Works(x, RegisterPC \ {"put"}, RegisterPC)
    <2>1. Holds(x, n, u)' => Held(n, u)
      BY <1>3 DEF Works, Goes, SameInput, Holds, Held, RegisterPC, HoldsPC
    <2> QED
      BY <1>2, <1>3, <2>1 DEF Works, Goes
  <1>4. CASE Works(x, {"decGet", "decPut"}, {"decGet", "decPut", "dDel"})
    <2>1. Holds(x, n, u)' => Held(n, u)
      BY <1>4 DEF Works, Goes, SameInput, Holds, Held, RegisterPC, HoldsPC
    <2> QED
      BY <1>2, <1>4, <2>1 DEF Works, Goes
  <1>5. CASE Reads(x)
    <2>1. Holds(x, n, u)' => Held(n, u)
      BY <1>0, <1>5 DEF Reads, Goes, SameInput, Holds, Held, RegisterPC, HoldsPC, ContextOf, Stored
    <2> QED
      BY <1>2, <1>5, <2>1 DEF Reads, Goes
  <1>6. ASSUME NEW f \in {"put", "dDel", "sPut", "hPut"}, NEW c, Writes(x, f, c),
               c # NoContext => c \in Context /\ Holds(x, c.id, req[x].supi)
        PROVE  Held(n, u)
    <2>1. ~Holds(x, n, u)'
      BY <1>6 DEF Writes, Goes, Holds, RegisterPC, HoldsPC
    <2>2. CASE ue'[u] = ue[u]
      BY <1>2, <1>6, <2>1, <2>2 DEF Writes, Goes
    <2>3. CASE ue'[u] # ue[u]
      <3>1. u = req[x].supi /\ ue'[u] = c
        BY <1>6, <2>3 DEF Writes, TypeInv, TypeOK
      <3>2. CASE Stored(u)' /\ ue'[u].id = n
        BY <1>6, <3>1, <3>2 DEF Stored, Held
      <3>3. CASE \E y \in Reqs : Holds(y, n, u)'
        BY <1>1, <1>6, <2>1, <3>3 DEF Writes, Goes
      <3> QED
        BY <3>2, <3>3 DEF Held
    <2> QED
      BY <2>2, <2>3
  <1>7. CASE Writes(x, "put", NewContext(x))
    <2>1. NewContext(x) \in Context /\ NewContext(x).id = req[x].id
      BY <1>7, NewContextType DEF Writes
    <2> QED
      BY <1>6, <1>7, <2>1 DEF Writes, Holds, RegisterPC
  <1>8. CASE Writes(x, "dDel", NoContext)
    BY <1>6, <1>8
  <1>9. CASE Writes(x, "sPut", Updated(x)) \/ Writes(x, "hPut", Updated(x))
    <2>1. Updated(x) \in Context /\ Updated(x).id = req[x].ctx.id
      BY <1>9, UpdatedType DEF Writes
    <2> QED
      BY <1>6, <1>9, <2>1 DEF Writes, Holds, HoldsPC
  <1>10. CASE Calls(x)
    <2>1. ~Holds(x, n, u)'
      BY <1>10 DEF Calls, Goes, Holds, RegisterPC, HoldsPC
    <2> QED
      BY <1>2, <1>10, <2>1 DEF Calls, Goes
  <1> QED
    BY <1>3, <1>4, <1>5, <1>7, <1>8, <1>9, <1>10, StepCases

\* A request that starts holds the ID it draws, and that one only.
LEMMA ArriveHeld ==
    ASSUME TypeInv, NEW x \in Reqs, Arrive(x)
    PROVE  \/ /\ UNCHANGED amfUeNgapIDCounter
              /\ \A n \in Nat, u \in Supis : Held(n, u)' => Held(n, u)
           \/ /\ amfUeNgapIDCounter' = amfUeNgapIDCounter + 1
              /\ \E v \in Supis : \A n \in Nat, u \in Supis :
                    Held(n, u)' => Held(n, u) \/ (u = v /\ n = amfUeNgapIDCounter + 1)
  <1>1. PICK v \in Supis :
             \/ /\ \/ Begins(x, "deregister", v, "dGet", 0)
                   \/ Begins(x, "service", v, "sGet", 0)
                   \/ Begins(x, "relay", v, "lGet", 0)
                   \/ Begins(x, "handover", v, "hGet", 0) /\ req'[x].gnb \in Gnbs
                /\ UNCHANGED amfUeNgapIDCounter
             \/ /\ \E p \in {"auth", "sdm"} :
                      Begins(x, "register", v, p, amfUeNgapIDCounter + 1)
                /\ req'[x].gnb \in Gnbs
                /\ amfUeNgapIDCounter' = amfUeNgapIDCounter + 1
    BY ArriveEffect
  <1>2. Alone(x) /\ UNCHANGED ue
    BY <1>1 DEF Begins
  <1>3. ASSUME NEW n \in Nat, NEW u \in Supis, Held(n, u)', ~Holds(x, n, u)'
        PROVE  Held(n, u)
    BY <1>2, <1>3 DEF Held, Holds, Stored, Alone
  <1>4. CASE /\ \/ Begins(x, "deregister", v, "dGet", 0)
                \/ Begins(x, "service", v, "sGet", 0)
                \/ Begins(x, "relay", v, "lGet", 0)
                \/ Begins(x, "handover", v, "hGet", 0)
             /\ UNCHANGED amfUeNgapIDCounter
    <2>1. \A n \in Nat, u \in Supis : ~Holds(x, n, u)'
      BY <1>4 DEF Begins, Holds, RegisterPC, HoldsPC
    <2> QED
      BY <1>3, <1>4, <2>1
  <1>5. CASE /\ \E p \in {"auth", "sdm"} :
                   Begins(x, "register", v, p, amfUeNgapIDCounter + 1)
             /\ amfUeNgapIDCounter' = amfUeNgapIDCounter + 1
    <2>1. \A n \in Nat, u \in Supis :
             Holds(x, n, u)' => u = v /\ n = amfUeNgapIDCounter + 1
      BY <1>5 DEF Begins, Holds, RegisterPC, HoldsPC
    <2> QED
      BY <1>3, <1>5, <2>1
  <1> QED
    BY <1>1, <1>4, <1>5

LEMMA IdInit == Init => IdInv
  BY DEF Init, IdInv, Held, Holds, Stored, Fresh, RegisterPC, HoldsPC

LEMMA IdNext == TypeInv /\ IdInv /\ [Next]_vars => IdInv'
  <1> SUFFICES ASSUME TypeInv, IdInv, [Next]_vars, restarts' = 0
               PROVE  \A n \in Nat, u \in Supis : Held(n, u)' =>
                         /\ n <= amfUeNgapIDCounter'
                         /\ \A v \in Supis : Held(n, v)' => v = u
    BY DEF IdInv
  <1>0. amfUeNgapIDCounter \in Nat /\ restarts \in Nat
    BY DEF TypeInv, TypeOK
  <1>1. ~Restart
    BY <1>0 DEF Restart
  <1>2. CASE \E x \in Reqs : Step(x)
    <2>1. PICK x \in Reqs : Step(x)
      BY <1>2
    <2>2. restarts = 0 /\ UNCHANGED amfUeNgapIDCounter
      BY <2>1, StepType
    <2>3. \A n \in Nat, u \in Supis : Held(n, u)' => Held(n, u)
      BY <2>1, StepHeld
    <2> QED
      BY <2>2, <2>3 DEF IdInv
  <1>3. CASE \E x \in Reqs : Arrive(x)
    <2>1. PICK x \in Reqs : Arrive(x)
      BY <1>3
    <2>2. restarts = 0
      BY <2>1, ArriveType
    <2>3. \A n \in Nat, u \in Supis : Held(n, u) =>
             n <= amfUeNgapIDCounter /\ \A v \in Supis : Held(n, v) => v = u
      BY <2>2 DEF IdInv
    <2>4. CASE /\ UNCHANGED amfUeNgapIDCounter
               /\ \A n \in Nat, u \in Supis : Held(n, u)' => Held(n, u)
      BY <2>3, <2>4
    <2>5. CASE /\ amfUeNgapIDCounter' = amfUeNgapIDCounter + 1
               /\ \E v \in Supis : \A n \in Nat, u \in Supis :
                    Held(n, u)' => Held(n, u) \/ (u = v /\ n = amfUeNgapIDCounter + 1)
      <3>1. PICK w \in Supis : \A n \in Nat, u \in Supis :
                Held(n, u)' => Held(n, u) \/ (u = w /\ n = amfUeNgapIDCounter + 1)
        BY <2>5
      <3>2. ASSUME NEW n \in Nat, NEW u \in Supis, Held(n, u)'
            PROVE  n <= amfUeNgapIDCounter + 1
                   /\ \A v \in Supis : Held(n, v)' => v = u
        <4>1. n <= amfUeNgapIDCounter + 1
          BY <1>0, <2>3, <3>1, <3>2
        <4>2. ASSUME NEW v \in Supis, Held(n, v)' PROVE v = u
          <5>1. Held(n, u) \/ (u = w /\ n = amfUeNgapIDCounter + 1)
            BY <3>1, <3>2
          <5>2. Held(n, v) \/ (v = w /\ n = amfUeNgapIDCounter + 1)
            BY <3>1, <4>2
          <5>3. CASE n = amfUeNgapIDCounter + 1
            <6>1. ~(n <= amfUeNgapIDCounter)
              BY <1>0, <5>3
            <6> QED
              BY <2>3, <5>1, <5>2, <6>1
          <5>4. CASE n # amfUeNgapIDCounter + 1
            BY <2>3, <5>1, <5>2, <5>4
          <5> QED
            BY <5>3, <5>4
        <4> QED
          BY <4>1, <4>2
      <3> QED
        BY <2>5, <3>2
    <2> QED
      BY <2>1, <2>4, <2>5, ArriveHeld
  <1>4. CASE UNCHANGED vars
    BY <1>4 DEF vars, IdInv, Held, Holds, Stored
  <1> QED
    BY <1>1, <1>2, <1>3, <1>4 DEF Next

(* Until the registration function is restarted, no two UEs have the same   *)
(* AMF-UE-NGAP-ID, in every deployment and with any number of overlapping   *)
(* requests: a stale context that a service request or a handover writes    *)
(* back carries an ID of the same UE.                                       *)
THEOREM IDsUnique == Spec => []NgapIDsUnique
  <1>1. TypeInv /\ IdInv => NgapIDsUnique
    <2> SUFFICES ASSUME TypeInv, IdInv, restarts = 0, NEW u \in Supis, NEW v \in Supis,
                        u # v, Stored(u), Stored(v), ue[u].id = ue[v].id
                 PROVE  FALSE
      BY DEF NgapIDsUnique
    <2>1. ue[u].id \in Nat
      BY ContextType DEF TypeInv, TypeOK, Stored
    <2>2. Held(ue[u].id, u) /\ Held(ue[u].id, v)
      BY DEF Held
    <2> QED
      BY <2>1, <2>2 DEF IdInv
  <1> QED
    BY <1>1, TypeInvariant, IdInit, IdNext, PTL DEF Spec
-----------------------------------------------------------------------------
(* One procedure of a UE at a time: what a handler has read is what is      *)
(* stored until it has written.                                             *)

SerialInv ==
    /\ \A x, y \in Reqs : Runs(x) /\ Runs(y) /\ x # y => req[x].supi # req[y].supi
    /\ \A x \in Reqs : req[x].pc \in HoldsPC => ContextOf(x) = req[x].ctx

LEMMA SerialAlone ==
    ASSUME SerialInv, TypeInv, NEW x \in Reqs, Runs(x), Alone(x), req'[x].supi = req[x].supi,
           \A u \in Supis : u # req[x].supi => ue'[u] = ue[u],
           req'[x].pc \in HoldsPC => ue'[req[x].supi] = req'[x].ctx
    PROVE  SerialInv'
  <1>1. ASSUME NEW y \in Reqs, y # x
        PROVE  req'[y] = req[y] /\ (Runs(y) => req[y].supi # req[x].supi /\ req[y].supi \in Supis)
    BY <1>1, RunningRequest DEF Alone, SerialInv, Request, Runs
  <1>2. ASSUME NEW y \in Reqs, NEW z \in Reqs, Runs(y)', Runs(z)', y # z
        PROVE  req'[y].supi # req'[z].supi
    <2>1. CASE y = x \/ z = x
      BY <1>1, <1>2, <2>1 DEF Runs
    <2>2. CASE y # x /\ z # x
      BY <1>1, <1>2, <2>2 DEF Runs, SerialInv
    <2> QED
      BY <2>1, <2>2
  <1>3. ASSUME NEW y \in Reqs, req'[y].pc \in HoldsPC
        PROVE  ContextOf(y)' = req'[y].ctx
    <2>1. CASE y = x
      BY <1>3, <2>1 DEF ContextOf
    <2>2. CASE y # x
      <3>1. Runs(y) /\ req'[y] = req[y]
        BY <1>1, <1>3, <2>2 DEF Runs, HoldsPC
      <3> QED
        BY <1>1, <1>3, <2>2, <3>1 DEF ContextOf, SerialInv
    <2> QED
      BY <2>1, <2>2
  <1> QED
    BY <1>2, <1>3 DEF SerialInv

\* A step of a request touches the context of its own UE only.
LEMMA StepWrites ==
    ASSUME TypeInv, NEW x \in Reqs, Step(x)
    PROVE  /\ Runs(x) /\ Alone(x) /\ req[x].supi \in Supis
           /\ req'[x].supi = req[x].supi
           /\ \A u \in Supis : u # req[x].supi => ue'[u] = ue[u]
  <1>0. Runs(x) => req[x] \in Request
    BY RunningRequest DEF Runs
  <1>1. Runs(x)
    BY StepCases DEF Works, Reads, Writes, Calls, Runs, RegisterPC
  <1>2. Alone(x) /\ req'[x].supi = req[x].supi
    BY StepCases DEF Works, Reads, Writes, Calls, Goes, SameInput
  <1>3. req[x].supi \in Supis
    BY <1>0, <1>1 DEF Request
  <1>4. UNCHANGED ue \/ \E c : ue' = [ue EXCEPT ![req[x].supi] = c]
    BY StepCases DEF Works, Reads, Writes, Calls
  <1>5. \A u \in Supis : u # req[x].supi => ue'[u] = ue[u]
    BY <1>3, <1>4 DEF TypeInv, TypeOK
  <1> QED
    BY <1>1, <1>2, <1>3, <1>5

LEMMA StepSerial ==
    ASSUME SerialInv, TypeInv, NEW x \in Reqs, Step(x)
    PROVE  SerialInv'
  <1>1. /\ Runs(x) /\ Alone(x) /\ req'[x].supi = req[x].supi
        /\ \A u \in Supis : u # req[x].supi => ue'[u] = ue[u]
    BY StepWrites
  <1>2. req'[x].pc \in HoldsPC => ue'[req[x].supi] = req'[x].ctx
    <2>1. CASE Works(x, RegisterPC \ {"put"}, RegisterPC)
      BY <2>1 DEF Works, Goes, RegisterPC, HoldsPC
    <2>2. CASE Works(x, {"decGet", "decPut"}, {"decGet", "decPut", "dDel"})
      BY <2>2 DEF Works, Goes, HoldsPC, SerialInv, ContextOf
    <2>3. CASE Reads(x)
      BY <2>3 DEF Reads, Goes, HoldsPC, ContextOf
    <2>4. CASE req'[x].pc = "done"
      BY <2>4 DEF HoldsPC
    <2>5. \/ Writes(x, "put", NewContext(x)) \/ Writes(x, "dDel", NoContext)
          \/ Writes(x, "sPut", Updated(x)) \/ Writes(x, "hPut", Updated(x)) \/ Calls(x)
          => req'[x].pc = "done"
      BY DEF Writes, Calls, Goes
    <2> QED
      BY <2>1, <2>2, <2>3, <2>4, <2>5, StepCases
  <1> QED
    BY <1>1, <1>2, SerialAlone

LEMMA ArriveSerial ==
    ASSUME Serial # "none", SerialInv, TypeInv, NEW x \in Reqs, Arrive(x)
    PROVE  SerialInv'
  <1>1. PICK u \in Supis, k \in Kinds :
            /\ Alone(x) /\ req[x].pc = "idle" /\ MayStart(k, u) /\ UNCHANGED ue
            /\ req'[x].supi = u /\ req'[x].pc \notin HoldsPC
    BY ArriveEffect DEF Begins, HoldsPC, Kinds
  <1>2. \A y \in Reqs : Runs(y) => req[y].supi # u
    BY <1>1, ConstantsAssumption DEF MayStart
  <1> QED
    BY <1>1, <1>2 DEF SerialInv, Alone, Runs, ContextOf

LEMMA SerialInit == Init => SerialInv
  BY DEF Init, SerialInv, Fresh, Runs, HoldsPC

LEMMA SerialNext ==
    ASSUME Serial # "none"
    PROVE  TypeInv /\ SerialInv /\ [Next]_vars => SerialInv'
  <1> SUFFICES ASSUME TypeInv, SerialInv, [Next]_vars PROVE SerialInv'
    OBVIOUS
  <1>1. CASE Restart
    <2>1. \A x \in Reqs : Runs(x)' => req'[x] = req[x] /\ Runs(x)
      BY <1>1, RestartEffect DEF Runs
    <2>2. UNCHANGED ue
      BY <1>1 DEF Restart
    <2>3. \A x \in Reqs : req'[x].pc \in HoldsPC => Runs(x)'
      BY DEF Runs, HoldsPC
    <2> QED
      BY <2>1, <2>2, <2>3 DEF SerialInv, ContextOf
  <1>2. CASE \E x \in Reqs : Arrive(x)
    BY <1>2, ArriveSerial
  <1>3. CASE \E x \in Reqs : Step(x)
    BY <1>3, StepSerial
  <1>4. CASE UNCHANGED vars
    BY <1>4 DEF vars, SerialInv, Runs, ContextOf
  <1> QED
    BY <1>1, <1>2, <1>3, <1>4 DEF Next

LEMMA SerialInvariant ==
    ASSUME Serial # "none"
    PROVE  Spec => [](TypeInv /\ SerialInv)
  BY TypeInvariant, SerialInit, SerialNext, PTL DEF Spec

\* A step that changes no context changes none.
LEMMA UeUnchanged ==
    ASSUME [Next]_vars, ~\E x \in Reqs : Step(x), TypeInv
    PROVE  UNCHANGED ue
  <1>1. CASE Restart
    BY <1>1 DEF Restart
  <1>2. CASE \E x \in Reqs : Arrive(x)
    BY <1>2, ArriveType
  <1>3. CASE UNCHANGED vars
    BY <1>3 DEF vars
  <1> QED
    BY <1>1, <1>2, <1>3 DEF Next

(* When a UE runs one procedure at a time, no handler but registration      *)
(* brings a context into being: what a service request or a handover        *)
(* writes back is still stored, so it never undoes a deregistration.        *)
THEOREM RegistrationAdmits ==
    ASSUME Serial # "none"
    PROVE  Spec => OnlyRegistrationAdmits
  <1>1. TypeInv /\ SerialInv /\ [Next]_vars =>
          [\A u \in Supis : ~Stored(u) /\ ue'[u] # NoContext =>
             \E x \in Reqs : /\ req[x].pc = "put" /\ req[x].supi = u
                             /\ req'[x].code = 200]_vars
    <2> SUFFICES ASSUME TypeInv, SerialInv, [Next]_vars, NEW u \in Supis,
                        ~Stored(u), ue'[u] # NoContext
                 PROVE  \E x \in Reqs : /\ req[x].pc = "put" /\ req[x].supi = u
                                        /\ req'[x].code = 200
      BY DEF Stored
    <2>1. PICK x \in Reqs : Step(x)
      BY UeUnchanged DEF Stored
    <2>2. u = req[x].supi /\ ~UNCHANGED ue
      BY <2>1, StepWrites DEF Stored
    <2>3. CASE Writes(x, "put", NewContext(x))
      BY <2>2, <2>3 DEF Writes
    <2>4. CASE Writes(x, "dDel", NoContext)
      BY <2>2, <2>4 DEF Writes, TypeInv, TypeOK
    <2>5. CASE Writes(x, "sPut", Updated(x)) \/ Writes(x, "hPut", Updated(x))
      <3>1. req[x].pc \in HoldsPC
        BY <2>5 DEF Writes, HoldsPC
      <3>2. req[x].ctx # NoContext /\ ue[u] = req[x].ctx
        BY <2>2, <3>1 DEF TypeInv, LocalInv, SerialInv, ContextOf
      <3> QED
        BY <3>2 DEF Stored
    <2> QED
      BY <2>1, <2>2, <2>3, <2>4, <2>5, StepCases DEF Works, Reads, Calls
  <1> QED
    BY <1>1, SerialInvariant, PTL DEF Spec, OnlyRegistrationAdmits

(* When a UE runs one procedure at a time, its gNB changes by a handover or *)
(* a registration only, to the gNB that one names: a service request writes *)
(* back the gNB that is stored.                                             *)
THEOREM HandoverMoves ==
    ASSUME Serial # "none"
    PROVE  Spec => OnlyHandoverMoves
  <1>1. TypeInv /\ SerialInv /\ [Next]_vars =>
          [\A u \in Supis : Stored(u) /\ ue'[u] # NoContext /\ ue'[u].gnb # ue[u].gnb =>
             \E x \in Reqs : /\ req[x].pc \in {"put", "hPut"} /\ req[x].supi = u
                             /\ req[x].gnb = ue'[u].gnb /\ req'[x].code = 200]_vars
    <2> SUFFICES ASSUME TypeInv, SerialInv, [Next]_vars, NEW u \in Supis,
                        Stored(u), ue'[u] # NoContext, ue'[u].gnb # ue[u].gnb
                 PROVE  \E x \in Reqs : /\ req[x].pc \in {"put", "hPut"} /\ req[x].supi = u
                                        /\ req[x].gnb = ue'[u].gnb /\ req'[x].code = 200
      BY DEF Stored
    <2>1. PICK x \in Reqs : Step(x)
      BY UeUnchanged
    <2>2. u = req[x].supi /\ ~UNCHANGED ue
      BY <2>1, StepWrites
    <2>3. ASSUME NEW f, NEW c, Writes(x, f, c)
          PROVE  ue'[u] = c /\ req'[x].code = 200
      BY <2>2, <2>3 DEF Writes, TypeInv, TypeOK
    <2>4. CASE Writes(x, "put", NewContext(x))
      <3>1. ue'[u].gnb = req[x].gnb /\ req'[x].code = 200 /\ req[x].pc = "put"
        BY <2>3, <2>4, NewContextType DEF Writes
      <3> QED
        BY <2>2, <3>1
    <2>5. CASE Writes(x, "dDel", NoContext)
      BY <2>3, <2>5
    <2>6. CASE Writes(x, "sPut", Updated(x))
      <3>1. req[x].pc = "sPut" /\ ue'[u] = Updated(x)
        BY <2>3, <2>6 DEF Writes
      <3>2. ue[u] = req[x].ctx
        BY <2>2, <3>1 DEF SerialInv, ContextOf, HoldsPC
      <3> QED
        BY <3>1, <3>2, UpdatedType
    <2>7. CASE Writes(x, "hPut", Updated(x))
      <3>1. req[x].pc = "hPut" /\ ue'[u] = Updated(x) /\ req'[x].code = 200
        BY <2>3, <2>7 DEF Writes
      <3>2. ue'[u].gnb = req[x].gnb
        BY <3>1, UpdatedType
      <3> QED
        BY <2>2, <3>1, <3>2
    <2> QED
      BY <2>1, <2>2, <2>4, <2>5, <2>6, <2>7, StepCases DEF Works, Reads, Calls
  <1> QED
    BY <1>1, SerialInvariant, PTL DEF Spec, OnlyHandoverMoves

(* When a UE runs one procedure at a time, the SMF is asked for a session   *)
(* of a UE that has a context at that moment.                               *)
THEOREM RelaysRegistered ==
    ASSUME Serial # "none"
    PROVE  Spec => RelayedRegistered
  <1>1. TypeInv /\ SerialInv /\ [Next]_vars =>
          [\A x \in sessions' \ sessions : Stored(req[x].supi)]_vars
    <2> SUFFICES ASSUME TypeInv, SerialInv, [Next]_vars, NEW y \in sessions' \ sessions
                 PROVE  Stored(req[y].supi)
      OBVIOUS
    <2>1. CASE \E x \in Reqs : Step(x)
      <3>1. PICK x \in Reqs : Step(x)
        BY <2>1
      <3>2. Calls(x)
        BY <3>1, StepCases DEF Works, Reads, Writes
      <3>3. y = x /\ req[x].pc \in HoldsPC
        BY <3>2 DEF Calls, HoldsPC
      <3> QED
        BY <3>3 DEF TypeInv, LocalInv, SerialInv, ContextOf, Stored
    <2>2. CASE Restart
      BY <2>2 DEF Restart
    <2>3. CASE \E x \in Reqs : Arrive(x)
      BY <2>3, ArriveType
    <2>4. CASE UNCHANGED vars
      BY <2>4 DEF vars
    <2> QED
      BY <2>1, <2>2, <2>3, <2>4 DEF Next
  <1> QED
    BY <1>1, SerialInvariant, PTL DEF Spec, RelayedRegistered
-----------------------------------------------------------------------------
(* The UE counters of the slices.  While requests run, a slice counts the   *)
(* stored UEs that no deregistration has counted down yet and the UEs that  *)
(* a registration has counted already.                                      *)

\* No subscription lists a slice twice.
DistinctSlices ==
    \A u \in Supis : \A i, j \in 1 .. Len(NSSAI[u]) : NSSAI[u][i] = NSSAI[u][j] => i = j

ListsSlice(nssai, s) == \E j \in 1 .. Len(nssai) : nssai[j] = s
Before(nssai, i, s) == \E j \in 1 .. Len(nssai) : j < i /\ nssai[j] = s

Counted(r, s) ==
    \/ r.pc \in {"incGet", "incPut"} /\ Before(NSSAI[r.supi], r.i, s)
    \/ r.pc = "put" /\ ListsSlice(NSSAI[r.supi], s)
Discounted(r, s) ==
    \/ r.pc \in {"decGet", "decPut"} /\ Before(NSSAI[r.supi], r.i, s)
    \/ r.pc = "dDel" /\ ListsSlice(NSSAI[r.supi], s)

Registering(rq, s) ==
    {u \in Supis : \E x \in Reqs : Counted(rq[x], s) /\ rq[x].supi = u}
Remaining(rq, e, s) ==
    {u \in Supis : /\ e[u] # NoContext /\ ListsSlice(NSSAI[u], s)
                   /\ ~\E x \in Reqs : Discounted(rq[x], s) /\ rq[x].supi = u}
Count(rq, e, s) == Cardinality(Remaining(rq, e, s)) + Cardinality(Registering(rq, s))

CountInv == NSACF => \A s \in Slices \ drifted : counters[s] = Count(req, ue, s)

\* What the counting goes by.
ListInv ==
    /\ \A u \in Supis : Stored(u) => ue[u].nssai = NSSAI[u]
    /\ \A x \in Reqs : Runs(x) => req[x].code # 200
    /\ \A x \in Reqs : Runs(x) /\ req[x].kind = "register" => req[x].pc \in RegisterPC
    /\ \A x \in Reqs : req[x].pc = "dGet" => req[x].i = 1
    /\ \A x \in Reqs : req[x].pc \in {"incPut", "decPut"} => req[x].i <= Len(NSSAI[req[x].supi])
LEMMA ListInit == Init => ListInv
  BY DEF Init, ListInv, Stored, Runs, Fresh

ListOf(x) ==
    /\ Runs(x) => req[x].code # 200
    /\ Runs(x) /\ req[x].kind = "register" => req[x].pc \in RegisterPC
    /\ req[x].pc = "dGet" => req[x].i = 1
    /\ req[x].pc \in {"incPut", "decPut"} => req[x].i <= Len(NSSAI[req[x].supi])

LEMMA ListAlone ==
    ASSUME ListInv, NEW x \in Reqs, Alone(x), ListOf(x)',
           \A u \in Supis : Stored(u)' => ue'[u].nssai = NSSAI[u]
    PROVE  ListInv'
  <1>1. ASSUME NEW y \in Reqs PROVE ListOf(y)'
    <2>1. CASE y = x
      BY <2>1
    <2>2. CASE y # x
      <3>1. req'[y] = req[y] /\ ListOf(y)
        BY <2>2 DEF Alone, ListInv, ListOf
      <3> QED
        BY <3>1 DEF ListOf, Runs
    <2> QED
      BY <2>1, <2>2
  <1> QED
    BY <1>1 DEF ListInv, ListOf

\* A deregistration counts down the slices of the subscription.
LEMMA ReadSlices ==
    ASSUME TypeInv, SerialInv, ListInv, NEW x \in Reqs, req[x].pc \in HoldsPC
    PROVE  req[x].ctx.nssai = NSSAI[req[x].supi] /\ Stored(req[x].supi)
  <1>1. req[x].supi \in Supis
    BY RunningRequest DEF HoldsPC, Request
  <1>2. ue[req[x].supi] = req[x].ctx /\ req[x].ctx # NoContext
    BY DEF TypeInv, LocalInv, SerialInv, ContextOf
  <1> QED
    BY <1>1, <1>2 DEF ListInv, Stored

LEMMA StepList ==
    ASSUME TypeInv, SerialInv, ListInv, NEW x \in Reqs, Step(x)
    PROVE  ListInv'
  <1>0. /\ Runs(x) /\ Alone(x) /\ req'[x].supi = req[x].supi /\ req[x].code # 200
    BY StepWrites DEF ListInv
  <1>1. ListOf(x)'
    <2>1. Runs(x)' => req'[x].code # 200
      BY <1>0, StepCases DEF Works, Reads, Writes, Calls, Goes, Runs
    <2>2. req'[x].pc # "dGet"
      BY StepCases DEF Works, Reads, Writes, Calls, Goes, RegisterPC, HoldsPC
    <2>3. req'[x].pc = "incPut" => req'[x].i <= Len(NSSAI[req'[x].supi])
      <3>1. CASE RegisterIncGet(x)
        BY <1>0, <3>1, RegisterIncGetEffect
      <3>2. CASE ~RegisterIncGet(x)
        <4>1. RegisterAuth(x) \/ RegisterSubscription(x) \/ RegisterCheck(x) \/ RegisterIncPut(x)
              => req'[x].pc # "incPut"
          BY RegisterAuthEffect, RegisterSubscriptionEffect, RegisterCheckEffect,
             RegisterIncPutEffect DEF Works, Goes
        <4>2. RegisterPut(x) \/ DeregisterDecGet(x) \/ DeregisterDecPut(x) \/ DeregisterDelete(x)
              \/ RelayCall(x) => req'[x].pc # "incPut"
          BY RegisterPutEffect, DeregisterDecGetEffect, DeregisterDecPutEffect,
             DeregisterDeleteEffect, RelayCallEffect DEF Works, Writes, Goes
        <4>3. DeregisterGet(x) \/ ServiceGet(x) \/ HandoverGet(x) \/ RelayGet(x)
              \/ ServicePut(x) \/ HandoverPut(x) => req[x].pc \notin RegisterPC
          BY DEF DeregisterGet, ServiceGet, HandoverGet, RelayGet, ReadContext,
                 ServicePut, HandoverPut, WriteContext, RegisterPC
        <4>4. req[x].pc \notin RegisterPC => req'[x].pc # "incPut"
          BY StepCases DEF Works, Reads, Writes, Calls, Goes, RegisterPC, HoldsPC
        <4> QED
          BY <3>2, <4>1, <4>2, <4>3, <4>4 DEF Step
      <3> QED
        BY <3>1, <3>2
    <2>4. req'[x].pc = "decPut" => req'[x].i <= Len(NSSAI[req'[x].supi])
      <3>1. CASE DeregisterDecGet(x)
        <4>1. req[x].ctx.nssai = NSSAI[req[x].supi]
          BY <3>1, ReadSlices DEF DeregisterDecGet, HoldsPC
        <4> QED
          BY <1>0, <3>1, <4>1, DeregisterDecGetEffect
      <3>2. CASE ~DeregisterDecGet(x)
        <4>1. req[x].pc \notin {"decGet", "decPut"} => req'[x].pc # "decPut"
          BY StepCases DEF Works, Reads, Writes, Calls, Goes, RegisterPC, HoldsPC
        <4>2. req[x].pc \in {"decGet", "decPut"} => DeregisterDecPut(x)
          BY <3>2 DEF Step, RegisterAuth, RegisterSubscription, RegisterCheck, RegisterIncGet,
                      RegisterIncPut, RegisterPut, DeregisterGet, DeregisterDelete, ServiceGet,
                      ServicePut, HandoverGet, HandoverPut, RelayGet, RelayCall,
                      ReadContext, WriteContext
        <4> QED
          BY <4>1, <4>2, DeregisterDecPutEffect
      <3> QED
        BY <3>1, <3>2
    <2>5. Runs(x)' /\ req'[x].kind = "register" => req'[x].pc \in RegisterPC
      <3>1. req[x].kind = "register" => req[x].pc \in RegisterPC
        BY <1>0 DEF ListInv
      <3> QED
        BY <3>1, StepCases DEF Works, Reads, Writes, Calls, Goes, SameInput, Runs, RegisterPC
    <2> QED
      BY <2>1, <2>2, <2>3, <2>4, <2>5 DEF ListOf
  <1>2. \A u \in Supis : Stored(u)' => ue'[u].nssai = NSSAI[u]
    <2>0. \A u \in Supis : Stored(u) => ue[u].nssai = NSSAI[u]
      BY DEF ListInv
    <2>1. ASSUME NEW f, NEW c, Writes(x, f, c), c # NoContext => c.nssai = NSSAI[req[x].supi]
          PROVE  \A u \in Supis : Stored(u)' => ue'[u].nssai = NSSAI[u]
      BY <2>0, <2>1 DEF Writes, Stored, TypeInv, TypeOK
    <2>2. CASE Writes(x, "put", NewContext(x))
      BY <2>1, <2>2, NewContextType DEF Writes
    <2>3. CASE Writes(x, "dDel", NoContext)
      BY <2>1, <2>3
    <2>4. CASE Writes(x, "sPut", Updated(x)) \/ Writes(x, "hPut", Updated(x))
      <3>1. Updated(x).nssai = NSSAI[req[x].supi]
        BY <2>4, UpdatedType, ReadSlices DEF Writes, HoldsPC
      <3> QED
        BY <2>1, <2>4, <3>1
    <2>5. CASE UNCHANGED ue
      BY <2>0, <2>5 DEF Stored
    <2> QED
      BY <2>2, <2>3, <2>4, <2>5, StepCases DEF Works, Reads, Calls
  <1> QED
    BY <1>0, <1>1, <1>2, ListAlone

LEMMA ListNext == TypeInv /\ SerialInv /\ ListInv /\ [Next]_vars => ListInv'
  <1> SUFFICES ASSUME TypeInv, SerialInv, ListInv, [Next]_vars PROVE ListInv'
    OBVIOUS
  <1>1. CASE Restart
    <2>1. \A x \in Reqs : req'[x] = req[x] \/ req'[x].pc = "done"
      BY <1>1, RestartEffect
    <2>2. UNCHANGED ue
      BY <1>1 DEF Restart
    <2> QED
      BY <2>1, <2>2 DEF ListInv, Stored, Runs
  <1>2. ASSUME NEW x \in Reqs, Arrive(x) PROVE ListInv'
    <2>1. Alone(x) /\ UNCHANGED ue /\ req'[x].i = 1 /\ req'[x].code = 0
          /\ req'[x].pc \notin {"incPut", "decPut"}
          /\ (req'[x].kind = "register" => req'[x].pc \in RegisterPC)
      BY <1>2, ArriveEffect DEF Begins, RegisterPC
    <2>2. ListOf(x)'
      BY <2>1 DEF ListOf
    <2>3. \A u \in Supis : Stored(u)' => ue'[u].nssai = NSSAI[u]
      BY <2>1 DEF ListInv, Stored
    <2> QED
      BY <2>1, <2>2, <2>3, ListAlone
  <1>3. CASE \E x \in Reqs : Step(x)
    BY <1>3, StepList
  <1>4. CASE UNCHANGED vars
    BY <1>4 DEF vars, ListInv, Runs, Stored
  <1> QED
    BY <1>1, <1>2, <1>3, <1>4 DEF Next
-----------------------------------------------------------------------------
(* A step of request x changes what its own UE adds to a slice's count.     *)

Ind(b) == IF b THEN 1 ELSE 0
Share(r, c, s) ==
    Ind(c # NoContext /\ ListsSlice(NSSAI[r.supi], s) /\ ~Discounted(r, s)) + Ind(Counted(r, s))

LEMMA CardinalityBut ==
    ASSUME NEW S, IsFiniteSet(S), NEW A \in SUBSET S, NEW B \in SUBSET S, NEW u,
           A \ {u} = B \ {u}
    PROVE  /\ Cardinality(A) \in Nat /\ Cardinality(B) \in Nat
           /\ Cardinality(A) - Ind(u \in A) = Cardinality(B) - Ind(u \in B)
  <1>1. IsFiniteSet(A) /\ IsFiniteSet(B)
    BY FS_Subset
  <1>2. Cardinality(A) \in Nat /\ Cardinality(B) \in Nat
    BY <1>1, FS_CardinalityType
  <1>3. Cardinality(A \ {u}) = IF u \in A THEN Cardinality(A) - 1 ELSE Cardinality(A)
    BY <1>1, FS_RemoveElement
  <1>4. Cardinality(B \ {u}) = IF u \in B THEN Cardinality(B) - 1 ELSE Cardinality(B)
    BY <1>1, FS_RemoveElement
  <1>5. Cardinality(A \ {u}) = Cardinality(B \ {u})
    BY Zenon
  <1> QED
    BY <1>2, <1>3, <1>4, <1>5 DEF Ind

LEMMA CountedRuns ==
    ASSUME NEW r, NEW s, r.pc \in {"idle", "done"}
    PROVE  ~Counted(r, s) /\ ~Discounted(r, s)
  BY DEF Counted, Discounted

\* What the only running request of UE u says of it.
LEMMA Sole ==
    ASSUME NEW rq, NEW e, NEW x \in Reqs, NEW s, NEW u \in Supis, rq[x].supi = u,
           \A y \in Reqs : y # x /\ rq[y].pc \notin {"idle", "done"} => rq[y].supi # u
    PROVE  /\ u \in Registering(rq, s) <=> Counted(rq[x], s)
           /\ u \in Remaining(rq, e, s) <=>
                 e[u] # NoContext /\ ListsSlice(NSSAI[u], s) /\ ~Discounted(rq[x], s)
  <1>1. \A y \in Reqs : rq[y].supi = u /\ (Counted(rq[y], s) \/ Discounted(rq[y], s)) => y = x
    BY CountedRuns
  <1> QED
    BY <1>1 DEF Registering, Remaining

LEMMA Recount ==
    ASSUME IsFiniteSet(Supis), NEW rq, NEW rp, NEW e, NEW ep, NEW x \in Reqs, NEW s,
           NEW u \in Supis, rq[x].supi = u, rp[x].supi = u,
           \A y \in Reqs : y # x => rp[y] = rq[y],
           \A y \in Reqs : y # x /\ rq[y].pc \notin {"idle", "done"} => rq[y].supi # u,
           \A v \in Supis : v # u => ep[v] = e[v]
    PROVE  /\ Count(rq, e, s) \in Nat /\ Count(rp, ep, s) \in Nat
           /\ Count(rp, ep, s) - Count(rq, e, s) =
                Share(rp[x], ep[u], s) - Share(rq[x], e[u], s)
  <1>1. /\ u \in Registering(rq, s) <=> Counted(rq[x], s)
        /\ u \in Remaining(rq, e, s) <=>
              e[u] # NoContext /\ ListsSlice(NSSAI[u], s) /\ ~Discounted(rq[x], s)
    BY Sole
  <1>2. /\ u \in Registering(rp, s) <=> Counted(rp[x], s)
        /\ u \in Remaining(rp, ep, s) <=>
              ep[u] # NoContext /\ ListsSlice(NSSAI[u], s) /\ ~Discounted(rp[x], s)
    <2>1. \A y \in Reqs : y # x /\ rp[y].pc \notin {"idle", "done"} => rp[y].supi # u
      OBVIOUS
    <2> QED
      BY <2>1, Sole
  <1>3. Registering(rp, s) \ {u} = Registering(rq, s) \ {u}
    <2>1. ASSUME NEW v \in Supis, v # u
          PROVE  v \in Registering(rp, s) <=> v \in Registering(rq, s)
      BY <2>1 DEF Registering
    <2> QED
      BY <2>1 DEF Registering
  <1>4. Remaining(rp, ep, s) \ {u} = Remaining(rq, e, s) \ {u}
    <2>1. ASSUME NEW v \in Supis, v # u
          PROVE  v \in Remaining(rp, ep, s) <=> v \in Remaining(rq, e, s)
      BY <2>1 DEF Remaining
    <2> QED
      BY <2>1 DEF Remaining
  <1> DEFINE A == Remaining(rq, e, s)
             Ap == Remaining(rp, ep, s)
             B == Registering(rq, s)
             Bp == Registering(rp, s)
  <1>5. A \in SUBSET Supis /\ Ap \in SUBSET Supis /\ B \in SUBSET Supis /\ Bp \in SUBSET Supis
    BY DEF Registering, Remaining
  <1>6. Share(rq[x], e[u], s) = Ind(u \in A) + Ind(u \in B)
    BY <1>1 DEF Share, Ind
  <1>7. Share(rp[x], ep[u], s) = Ind(u \in Ap) + Ind(u \in Bp)
    BY <1>2 DEF Share, Ind
  <1>8. /\ Count(rq, e, s) = Cardinality(A) + Cardinality(B)
        /\ Count(rp, ep, s) = Cardinality(Ap) + Cardinality(Bp)
    BY DEF Count
  <1> HIDE DEF A, Ap, B, Bp
  <1>9. /\ Cardinality(A) \in Nat /\ Cardinality(Ap) \in Nat
        /\ Cardinality(Ap) - Ind(u \in Ap) = Cardinality(A) - Ind(u \in A)
    BY <1>4, <1>5, CardinalityBut DEF A, Ap
  <1>10. /\ Cardinality(B) \in Nat /\ Cardinality(Bp) \in Nat
         /\ Cardinality(Bp) - Ind(u \in Bp) = Cardinality(B) - Ind(u \in B)
    BY <1>3, <1>5, CardinalityBut DEF B, Bp
  <1> DEFINE a == Ind(u \in A)
             ap == Ind(u \in Ap)
             b == Ind(u \in B)
             bp == Ind(u \in Bp)
  <1>11. a \in Int /\ ap \in Int /\ b \in Int /\ bp \in Int
    BY DEF Ind
  <1> HIDE DEF a, ap, b, bp
  <1>12. /\ Share(rq[x], e[u], s) = a + b
         /\ Share(rp[x], ep[u], s) = ap + bp
    BY <1>6, <1>7 DEF a, ap, b, bp
  <1>13. /\ Cardinality(Ap) - ap = Cardinality(A) - a
         /\ Cardinality(Bp) - bp = Cardinality(B) - b
    BY <1>9, <1>10 DEF a, ap, b, bp
  <1> DEFINE m == Cardinality(A)
             mp == Cardinality(Ap)
             n == Cardinality(B)
             np == Cardinality(Bp)
  <1>14. m \in Nat /\ mp \in Nat /\ n \in Nat /\ np \in Nat
    BY <1>9, <1>10
  <1>15. mp - ap = m - a /\ np - bp = n - b
    BY <1>13
  <1>16. Count(rq, e, s) = m + n /\ Count(rp, ep, s) = mp + np
    BY <1>8
  <1> HIDE DEF m, mp, n, np
  <1>17. (mp + np) - (m + n) = (ap + bp) - (a + b) /\ m + n \in Nat /\ mp + np \in Nat
    BY <1>11, <1>14, <1>15
  <1> QED
    BY <1>12, <1>16, <1>17, Zenon
LEMMA ShareSame ==
    ASSUME NEW r, NEW rp, NEW c, NEW cp, NEW s, rp.supi = r.supi,
           Counted(rp, s) <=> Counted(r, s), Discounted(rp, s) <=> Discounted(r, s),
           cp = NoContext <=> c = NoContext
    PROVE  Share(rp, cp, s) - Share(r, c, s) = 0
  BY DEF Share, Ind

\* Going on to the next slice, and past the last one.
LEMMA BeforeNext ==
    ASSUME NEW nssai \in Seq(Slices), NEW i \in Nat, i >= 1, i <= Len(nssai), NEW s
    PROVE  Before(nssai, i + 1, s) <=> Before(nssai, i, s) \/ nssai[i] = s
  <1>1. Len(nssai) \in Nat /\ i \in 1 .. Len(nssai)
    BY LenProperties
  <1>2. \A j \in 1 .. Len(nssai) : j < i + 1 <=> j < i \/ j = i
    BY <1>1
  <1> QED
    BY <1>1, <1>2 DEF Before

LEMMA BeforeEnds ==
    ASSUME NEW nssai \in Seq(Slices), NEW i \in Nat, NEW s
    PROVE  /\ Before(nssai, 1, s) = FALSE
           /\ i > Len(nssai) => (Before(nssai, i, s) <=> ListsSlice(nssai, s))
  <1>1. Len(nssai) \in Nat
    BY LenProperties
  <1>2. \A j \in 1 .. Len(nssai) : ~(j < 1) /\ (i > Len(nssai) => j < i)
    BY <1>1
  <1> QED
    BY <1>2 DEF Before, ListsSlice

\* What the steps at a slice's counter need to know of their request.
LEMMA AtSlice ==
    ASSUME TypeInv, NEW x \in Reqs, Runs(x)
    PROVE  /\ req[x] \in Request /\ req[x].supi \in Supis
           /\ NSSAI[req[x].supi] \in Seq(Slices) /\ Len(NSSAI[req[x].supi]) \in Nat
           /\ req[x].i \in Nat /\ req[x].i >= 1 /\ req[x].cnt \in Nat
  <1>1. req[x] \in Request /\ req[x].i >= 1
    BY RunningRequest DEF Runs
  <1>2. req[x].supi \in Supis /\ req[x].i \in Nat /\ req[x].cnt \in Nat
    BY <1>1 DEF Request
  <1>3. NSSAI[req[x].supi] \in Seq(Slices)
    BY <1>2, SubscriptionType
  <1> QED
    BY <1>1, <1>2, <1>3, LenProperties

\* The steps that count nothing: no counter changes and no share.
LEMMA EarlyShare ==
    ASSUME NSACF, TypeInv, SerialInv, ListInv, NEW x \in Reqs, Step(x), NEW s \in Slices,
           req[x].pc \notin {"incGet", "incPut", "put", "decGet", "decPut", "dDel"}
    PROVE  /\ UNCHANGED counters
           /\ Share(req'[x], ue'[req[x].supi], s) - Share(req[x], ue[req[x].supi], s) = 0
  <1> DEFINE u == req[x].supi
  <1>0. /\ Runs(x) /\ u \in Supis /\ NSSAI[u] \in Seq(Slices) /\ req'[x].supi = u
    BY StepWrites, AtSlice
  <1>1. ~Counted(req[x], s) /\ ~Discounted(req[x], s)
    BY DEF Counted, Discounted
  <1>2. UNCHANGED counters /\ ~Counted(req'[x], s) /\ ~Discounted(req'[x], s)
    <2>0. ~Before(NSSAI[u], 1, s)
      BY <1>0, BeforeEnds
    <2>1. CASE RegisterAuth(x)
      BY <2>1, RegisterAuthEffect DEF Works, Goes, Counted, Discounted, RegisterAuth
    <2>2. CASE RegisterSubscription(x)
      BY <2>2, RegisterSubscriptionEffect
         DEF Works, Goes, Counted, Discounted, RegisterSubscription
    <2>3. CASE RegisterCheck(x)
      <3>1. UNCHANGED counters
        BY <2>3 DEF RegisterCheck
      <3>2. req'[x].pc \in {"check", "incGet", "done"} /\ (req'[x].pc = "incGet" => req'[x].i = 1)
        BY <2>3, RegisterCheckEffect DEF Works, Goes
      <3> QED
        BY <1>0, <2>0, <3>1, <3>2 DEF Counted, Discounted
    <2>4. CASE Reads(x)
      <3>1. UNCHANGED counters
        BY <2>4 DEF Reads
      <3>2. \/ req'[x].pc \in {"sPut", "hPut", "lCall", "done"}
            \/ req'[x].pc = "decGet" /\ req[x].pc = "dGet" /\ req'[x].i = req[x].i
        BY <2>4 DEF Reads, Goes, HoldsPC
      <3>3. req'[x].pc = "decGet" => req'[x].i = 1
        BY <3>2 DEF ListInv
      <3> QED
        BY <1>0, <2>0, <3>1, <3>2, <3>3 DEF Counted, Discounted
    <2>5. CASE Writes(x, "sPut", Updated(x)) \/ Writes(x, "hPut", Updated(x)) \/ Calls(x)
      BY <2>5 DEF Writes, Calls, Goes, Counted, Discounted
    <2>6. CASE Works(x, RegisterPC \ {"put"}, RegisterPC)
      <3>1. RegisterAuth(x) \/ RegisterSubscription(x) \/ RegisterCheck(x)
        BY <2>6 DEF Works, RegisterPC, Step, RegisterIncGet, RegisterIncPut, RegisterPut,
                    DeregisterGet, DeregisterDecGet, DeregisterDecPut, DeregisterDelete, ServiceGet,
                    ServicePut, HandoverGet, HandoverPut, RelayGet, RelayCall,
                    ReadContext, WriteContext
      <3> QED
        BY <2>1, <2>2, <2>3, <3>1
    <2> QED
      BY <2>4, <2>5, <2>6, StepCases DEF Works, Writes
  <1>3. ue'[u] = NoContext <=> ue[u] = NoContext
    <2>1. CASE UNCHANGED ue
      BY <2>1
    <2>2. CASE Writes(x, "sPut", Updated(x)) \/ Writes(x, "hPut", Updated(x))
      <3>1. req[x].pc \in {"sPut", "hPut"}
        BY <2>2 DEF Writes
      <3>2. Updated(x) # NoContext
        BY <3>1, UpdatedType, ContextType
      <3>3. ue[u] # NoContext
        BY <3>1, ReadSlices DEF HoldsPC, Stored
      <3>4. ue'[u] = Updated(x) \/ UNCHANGED ue
        BY <1>0, <2>2 DEF Writes, TypeInv, TypeOK
      <3> QED
        BY <3>2, <3>3, <3>4
    <2> QED
      BY <2>1, <2>2, StepCases DEF Works, Reads, Writes, Calls
  <1> QED
    BY <1>0, <1>1, <1>2, <1>3, ShareSame

LEMMA IncGetShare ==
    ASSUME TypeInv, NEW x \in Reqs, RegisterIncGet(x), NEW s \in Slices, ~Drifts(x, s)
    PROVE  /\ UNCHANGED counters
           /\ Share(req'[x], ue'[req[x].supi], s) - Share(req[x], ue[req[x].supi], s) = 0
  <1> DEFINE u == req[x].supi
             N == NSSAI[u]
             i == req[x].i
  <1>0. req[x].pc = "incGet" /\ Runs(x) /\ UNCHANGED <<ue, counters>>
    BY DEF RegisterIncGet, Runs
  <1>1. N \in Seq(Slices) /\ Len(N) \in Nat /\ i \in Nat /\ i >= 1
    BY <1>0, AtSlice
  <1>2. /\ req'[x].supi = u
        /\ req'[x].pc \in {"incGet", "incPut", "put"}
        /\ req'[x].pc = "incGet" => req'[x].i = i + 1 /\ i <= Len(N)
        /\ req'[x].pc = "incPut" => req'[x].i = i
        /\ req'[x].pc = "put" => i > Len(N)
    BY RegisterIncGetEffect DEF Works, Goes, SameInput
  <1>3. Counted(req'[x], s) <=> Counted(req[x], s)
    <2>1. CASE req'[x].pc = "incGet"
      <3>1. N[i] # s
        BY <1>0, <1>1, <1>2, <2>1 DEF Drifts, SliceOf
      <3>2. Before(N, i + 1, s) <=> Before(N, i, s)
        BY <1>1, <1>2, <2>1, <3>1, BeforeNext
      <3> QED
        BY <1>0, <1>2, <2>1, <3>2 DEF Counted
    <2>2. CASE req'[x].pc = "incPut"
      BY <1>0, <1>2, <2>2 DEF Counted
    <2>3. CASE req'[x].pc = "put"
      <3>1. Before(N, i, s) <=> ListsSlice(N, s)
        BY <1>1, <1>2, <2>3, BeforeEnds
      <3> QED
        BY <1>0, <1>2, <2>3, <3>1 DEF Counted
    <2> QED
      BY <1>2, <2>1, <2>2, <2>3
  <1>4. ~Discounted(req'[x], s) /\ ~Discounted(req[x], s)
    BY <1>0, <1>2 DEF Discounted
  <1> QED
    BY <1>0, <1>2, <1>3, <1>4, ShareSame

LEMMA DecGetShare ==
    ASSUME TypeInv, SerialInv, ListInv, NEW x \in Reqs, DeregisterDecGet(x), NEW s \in Slices,
           ~Drifts(x, s)
    PROVE  /\ UNCHANGED counters
           /\ Share(req'[x], ue'[req[x].supi], s) - Share(req[x], ue[req[x].supi], s) = 0
  <1> DEFINE u == req[x].supi
             N == NSSAI[u]
             i == req[x].i
  <1>0. req[x].pc = "decGet" /\ Runs(x) /\ UNCHANGED <<ue, counters>>
    BY DEF DeregisterDecGet, Runs
  <1>1. N \in Seq(Slices) /\ Len(N) \in Nat /\ i \in Nat /\ i >= 1
    BY <1>0, AtSlice
  <1>2. /\ req'[x].supi = u
        /\ req'[x].pc \in {"decGet", "decPut", "dDel"}
        /\ req'[x].pc = "decGet" => req'[x].i = i + 1 /\ i <= Len(N)
        /\ req'[x].pc = "decPut" => req'[x].i = i
        /\ req'[x].pc = "dDel" => i > Len(N)
    <2>1. req[x].ctx.nssai = N
      BY <1>0, ReadSlices DEF HoldsPC
    <2> QED
      BY <2>1, DeregisterDecGetEffect DEF Works, Goes, SameInput
  <1>3. Discounted(req'[x], s) <=> Discounted(req[x], s)
    <2>1. CASE req'[x].pc = "decGet"
      <3>1. N[i] # s
        BY <1>0, <1>1, <1>2, <2>1 DEF Drifts, SliceOf
      <3>2. Before(N, i + 1, s) <=> Before(N, i, s)
        BY <1>1, <1>2, <2>1, <3>1, BeforeNext
      <3> QED
        BY <1>0, <1>2, <2>1, <3>2 DEF Discounted
    <2>2. CASE req'[x].pc = "decPut"
      BY <1>0, <1>2, <2>2 DEF Discounted
    <2>3. CASE req'[x].pc = "dDel"
      <3>1. Before(N, i, s) <=> ListsSlice(N, s)
        BY <1>1, <1>2, <2>3, BeforeEnds
      <3> QED
        BY <1>0, <1>2, <2>3, <3>1 DEF Discounted
    <2> QED
      BY <1>2, <2>1, <2>2, <2>3
  <1>4. ~Counted(req'[x], s) /\ ~Counted(req[x], s)
    BY <1>0, <1>2 DEF Counted
  <1> QED
    BY <1>0, <1>2, <1>3, <1>4, ShareSame
\* The slice a request is at has not come before.
LEMMA NotBefore ==
    ASSUME DistinctSlices, TypeInv, NEW u \in Supis, NEW i \in Nat, i >= 1, i <= Len(NSSAI[u])
    PROVE  /\ ~Before(NSSAI[u], i, NSSAI[u][i]) /\ Before(NSSAI[u], i + 1, NSSAI[u][i])
           /\ ListsSlice(NSSAI[u], NSSAI[u][i]) /\ NSSAI[u][i] \in Slices
  <1>1. NSSAI[u] \in Seq(Slices) /\ Len(NSSAI[u]) \in Nat
    BY SubscriptionType, LenProperties
  <1>2. i \in 1 .. Len(NSSAI[u]) /\ i < i + 1
    BY <1>1
  <1>3. \A j \in 1 .. Len(NSSAI[u]) : j < i => j # i
    BY <1>1
  <1>4. NSSAI[u][i] \in Slices
    BY <1>1, <1>2, ElementOfSeq
  <1> QED
    BY <1>2, <1>3, <1>4 DEF DistinctSlices, Before, ListsSlice

LEMMA IncPutShare ==
    ASSUME DistinctSlices, TypeInv, ListInv, NEW x \in Reqs, RegisterIncPut(x), NEW s \in Slices,
           ~Drifts(x, s)
    PROVE  counters'[s] - counters[s] =
             Share(req'[x], ue'[req[x].supi], s) - Share(req[x], ue[req[x].supi], s)
  <1> DEFINE u == req[x].supi
             N == NSSAI[u]
             i == req[x].i
             t == N[i]
  <1>0. req[x].pc = "incPut" /\ Runs(x) /\ UNCHANGED ue
    BY DEF RegisterIncPut, Runs
  <1>1. u \in Supis /\ N \in Seq(Slices) /\ Len(N) \in Nat /\ i \in Nat /\ i >= 1 /\ i <= Len(N)
        /\ req[x].cnt \in Nat
    BY <1>0, AtSlice DEF ListInv
  <1>2. /\ req'[x].supi = u /\ req'[x].pc = "incGet" /\ req'[x].i = i + 1
        /\ counters' = [counters EXCEPT ![t] = req[x].cnt + 1] \/ UNCHANGED counters
    BY RegisterIncPutEffect DEF Works, Goes, SameInput, SliceOf
  <1>3. counters \in [Slices -> Nat]
    BY DEF TypeInv, TypeOK
  <1>4. ~Discounted(req'[x], s) /\ ~Discounted(req[x], s)
    BY <1>0, <1>2 DEF Discounted
  <1>5. /\ Counted(req[x], s) <=> Before(N, i, s)
        /\ Counted(req'[x], s) <=> Before(N, i + 1, s)
    BY <1>0, <1>2 DEF Counted
  <1>6. Before(N, i + 1, s) <=> Before(N, i, s) \/ t = s
    BY <1>1, BeforeNext
  <1>7. CASE s = t
    <2>1. req[x].cnt = counters[s] /\ ~UNCHANGED counters
      BY <1>0, <1>2, <1>7 DEF Drifts, SliceOf
    <2>2. counters'[s] = counters[s] + 1
      BY <1>2, <1>3, <1>7, <2>1
    <2>3. ~Counted(req[x], s) /\ Counted(req'[x], s)
      BY <1>1, <1>5, <1>6, <1>7, NotBefore
    <2>4. Share(req'[x], ue'[u], s) - Share(req[x], ue[u], s) = 1
      BY <1>0, <1>2, <1>4, <2>3 DEF Share, Ind
    <2> QED
      BY <1>3, <2>2, <2>4
  <1>8. CASE s # t
    <2>1. counters'[s] = counters[s] /\ counters[s] \in Nat
      BY <1>2, <1>3, <1>8
    <2>2. Share(req'[x], ue'[u], s) - Share(req[x], ue[u], s) = 0
      BY <1>0, <1>2, <1>4, <1>5, <1>6, <1>8, ShareSame
    <2> QED
      BY <2>1, <2>2
  <1> QED
    BY <1>7, <1>8

LEMMA DecPutShare ==
    ASSUME DistinctSlices, TypeInv, SerialInv, ListInv, NEW x \in Reqs, DeregisterDecPut(x),
           NEW s \in Slices, ~Drifts(x, s),
           counters[s] >= Share(req[x], ue[req[x].supi], s)
    PROVE  counters'[s] - counters[s] =
             Share(req'[x], ue'[req[x].supi], s) - Share(req[x], ue[req[x].supi], s)
  <1> DEFINE u == req[x].supi
             N == NSSAI[u]
             i == req[x].i
             t == N[i]
  <1>0. req[x].pc = "decPut" /\ Runs(x) /\ UNCHANGED ue
    BY DEF DeregisterDecPut, Runs
  <1>1. u \in Supis /\ N \in Seq(Slices) /\ Len(N) \in Nat /\ i \in Nat /\ i >= 1 /\ i <= Len(N)
        /\ req[x].cnt \in Nat
    BY <1>0, AtSlice DEF ListInv
  <1>2. /\ req'[x].supi = u /\ req'[x].pc = "decGet" /\ req'[x].i = i + 1
        /\ \/ counters' = [counters EXCEPT ![t] = IF req[x].cnt - 1 < 0 THEN 0 ELSE req[x].cnt - 1]
           \/ UNCHANGED counters
    <2>1. req[x].ctx.nssai = N
      BY <1>0, ReadSlices DEF HoldsPC
    <2> QED
      BY <2>1, DeregisterDecPutEffect DEF Works, Goes, SameInput
  <1>3. counters \in [Slices -> Nat]
    BY DEF TypeInv, TypeOK
  <1>4. ~Counted(req'[x], s) /\ ~Counted(req[x], s)
    BY <1>0, <1>2 DEF Counted
  <1>5. /\ Discounted(req[x], s) <=> Before(N, i, s)
        /\ Discounted(req'[x], s) <=> Before(N, i + 1, s)
    BY <1>0, <1>2 DEF Discounted
  <1>6. Before(N, i + 1, s) <=> Before(N, i, s) \/ t = s
    BY <1>1, BeforeNext
  <1>7. CASE s = t
    <2>1. req[x].cnt = counters[s] /\ ~UNCHANGED counters
      BY <1>0, <1>2, <1>7 DEF Drifts, SliceOf
    <2>2. ~Discounted(req[x], s) /\ Discounted(req'[x], s) /\ ListsSlice(N, s)
      BY <1>1, <1>5, <1>6, <1>7, NotBefore
    <2>3. ue[u] # NoContext
      BY <1>0, ReadSlices DEF HoldsPC, Stored
    <2>4. Share(req[x], ue[u], s) = 1 /\ Share(req'[x], ue'[u], s) = 0
      BY <1>0, <1>2, <1>4, <2>2, <2>3 DEF Share, Ind
    <2>5. counters[s] >= 1 /\ counters[s] \in Nat
      BY <1>3, <2>4
    <2>6. counters'[s] = counters[s] - 1
      BY <1>2, <1>3, <1>7, <2>1, <2>5
    <2> QED
      BY <2>4, <2>5, <2>6
  <1>8. CASE s # t
    <2>1. counters'[s] = counters[s] /\ counters[s] \in Nat
      BY <1>2, <1>3, <1>8
    <2>2. Share(req'[x], ue'[u], s) - Share(req[x], ue[u], s) = 0
      BY <1>0, <1>2, <1>4, <1>5, <1>6, <1>8, ShareSame
    <2> QED
      BY <2>1, <2>2
  <1> QED
    BY <1>7, <1>8

\* The end of a registration or a deregistration moves the UE from one set to
\* the other, or takes it out of one where it does not count any more.
LEMMA WriteShare ==
    ASSUME TypeInv, SerialInv, ListInv, NEW x \in Reqs, NEW s \in Slices, ~Drifts(x, s),
           RegisterPut(x) \/ DeregisterDelete(x)
    PROVE  /\ UNCHANGED counters
           /\ Share(req'[x], ue'[req[x].supi], s) - Share(req[x], ue[req[x].supi], s) = 0
  <1> DEFINE u == req[x].supi
  <1>1. CASE RegisterPut(x)
    <2>1. Writes(x, "put", NewContext(x)) /\ req[x].pc = "put" /\ Runs(x)
      BY <1>1, RegisterPutEffect DEF Writes, Runs
    <2>2. req'[x].pc = "done" /\ req'[x].supi = u /\ UNCHANGED counters /\ u \in Supis
      BY <2>1, AtSlice DEF Writes, Goes, SameInput
    <2>3. req'[x].code = 200 /\ ~Stored(u)
      BY <2>1, <2>2 DEF Drifts
    <2>4. ue'[u] = NewContext(x)
      BY <2>1, <2>2, <2>3 DEF Writes, TypeInv, TypeOK
    <2>5. ue'[u] # NoContext /\ ue[u] = NoContext
      BY <2>1, <2>3, <2>4, NewContextType, ContextType DEF Stored
    <2>6. /\ Counted(req[x], s) <=> ListsSlice(NSSAI[u], s)
          /\ ~Counted(req'[x], s) /\ ~Discounted(req'[x], s)
      BY <2>1, <2>2 DEF Counted, Discounted
    <2> QED
      BY <2>2, <2>5, <2>6 DEF Share, Ind
  <1>2. CASE DeregisterDelete(x)
    <2>1. Writes(x, "dDel", NoContext) /\ req[x].pc = "dDel" /\ Runs(x)
      BY <1>2, DeregisterDeleteEffect DEF Writes, Runs
    <2>2. req'[x].pc = "done" /\ req'[x].supi = u /\ UNCHANGED counters /\ u \in Supis
      BY <2>1, AtSlice DEF Writes, Goes, SameInput
    <2>3. req'[x].code = 200
      BY <2>1, <2>2 DEF Drifts
    <2>4. ue'[u] = NoContext
      BY <2>1, <2>2, <2>3 DEF Writes, TypeInv, TypeOK
    <2>5. /\ Discounted(req[x], s) <=> ListsSlice(NSSAI[u], s)
          /\ ~Counted(req'[x], s) /\ ~Counted(req[x], s)
      BY <2>1, <2>2 DEF Counted, Discounted
    <2> QED
      BY <2>2, <2>4, <2>5 DEF Share, Ind
  <1> QED
    BY <1>1, <1>2

LEMMA StepCount ==
    ASSUME DistinctSlices, IsFiniteSet(Supis), NSACF, TypeInv, SerialInv, ListInv, CountInv,
           NEW x \in Reqs, Step(x), NEW s \in Slices \ drifted, ~Drifts(x, s)
    PROVE  counters'[s] = Count(req', ue', s)
  <1> DEFINE u == req[x].supi
             D == Share(req'[x], ue'[u], s) - Share(req[x], ue[u], s)
  <1>0. /\ Runs(x) /\ Alone(x) /\ u \in Supis /\ req'[x].supi = u
        /\ \A v \in Supis : v # u => ue'[v] = ue[v]
    BY StepWrites
  <1>1. counters[s] = Count(req, ue, s) /\ counters[s] \in Nat
    BY DEF CountInv, TypeInv, TypeOK
  <1>2. \A y \in Reqs : y # x /\ req[y].pc \notin {"idle", "done"} => req[y].supi # u
    BY <1>0 DEF SerialInv, Runs
  <1>3. /\ Count(req', ue', s) \in Nat
        /\ Count(req', ue', s) - Count(req, ue, s) = D
    <2>1. \A y \in Reqs : y # x => req'[y] = req[y]
      BY <1>0 DEF Alone
    <2> QED
      BY <1>0, <1>2, <2>1, Recount
  <1>4. counters[s] >= Share(req[x], ue[u], s)
    <2> DEFINE A == Remaining(req, ue, s)
               B == Registering(req, s)
    <2>1. /\ u \in B <=> Counted(req[x], s)
          /\ u \in A <=>
              ue[u] # NoContext /\ ListsSlice(NSSAI[u], s) /\ ~Discounted(req[x], s)
      BY <1>0, <1>2, Sole
    <2>2. A \in SUBSET Supis /\ B \in SUBSET Supis
      BY DEF Registering, Remaining
    <2>3. /\ Count(req, ue, s) = Cardinality(A) + Cardinality(B)
          /\ Share(req[x], ue[u], s) = (IF u \in A THEN 1 ELSE 0) + (IF u \in B THEN 1 ELSE 0)
      BY <2>1 DEF Count, Share, Ind
    <2> HIDE DEF A, B
    <2>4. ASSUME NEW S \in SUBSET Supis
          PROVE  Cardinality(S) \in Nat /\ Cardinality(S) >= IF u \in S THEN 1 ELSE 0
      <3>1. IsFiniteSet(S)
        BY FS_Subset
      <3>2. Cardinality(S) \in Nat /\ (u \in S => Cardinality(S) # 0)
        BY <3>1, FS_CardinalityType, FS_EmptySet
      <3> QED
        BY <3>2
    <2>5. /\ Cardinality(A) \in Nat /\ Cardinality(A) >= IF u \in A THEN 1 ELSE 0
          /\ Cardinality(B) \in Nat /\ Cardinality(B) >= IF u \in B THEN 1 ELSE 0
      BY <2>2, <2>4
    <2> QED
      BY <1>1, <2>3, <2>5
  <1>5. counters'[s] - counters[s] = D /\ counters'[s] \in Nat
    <2>0. counters'[s] \in Nat
      BY StepType
    <2>1. CASE req[x].pc \notin {"incGet", "incPut", "put", "decGet", "decPut", "dDel"}
      BY <1>1, <2>0, <2>1, EarlyShare
    <2>2. CASE RegisterIncGet(x)
      BY <1>1, <2>0, <2>2, IncGetShare
    <2>3. CASE RegisterIncPut(x)
      BY <2>0, <2>3, IncPutShare
    <2>4. CASE DeregisterDecGet(x)
      BY <1>1, <2>0, <2>4, DecGetShare
    <2>5. CASE DeregisterDecPut(x)
      BY <1>4, <2>0, <2>5, DecPutShare
    <2>6. CASE RegisterPut(x) \/ DeregisterDelete(x)
      BY <1>1, <2>0, <2>6, WriteShare
    <2>7. req[x].pc \in {"incGet", "incPut", "put", "decGet", "decPut", "dDel"} =>
            \/ RegisterIncGet(x) \/ RegisterIncPut(x) \/ RegisterPut(x)
            \/ DeregisterDecGet(x) \/ DeregisterDecPut(x) \/ DeregisterDelete(x)
      BY DEF Step, RegisterAuth, RegisterSubscription, RegisterCheck, DeregisterGet, ServiceGet,
             ServicePut, HandoverGet, HandoverPut, RelayGet, RelayCall, ReadContext, WriteContext
    <2> QED
      BY <2>1, <2>2, <2>3, <2>4, <2>5, <2>6, <2>7
  <1>6. D \in Int
    BY DEF Share, Ind
  <1> HIDE DEF D
  <1> QED
    BY <1>1, <1>3, <1>5, <1>6
\* A step that leaves the counting requests alone leaves the count alone.
LEMMA SameCount ==
    ASSUME NEW rq, NEW rp, NEW e, NEW s,
           \A x \in Reqs : \/ rp[x] = rq[x]
                           \/ /\ ~Counted(rq[x], s) /\ ~Discounted(rq[x], s)
                              /\ ~Counted(rp[x], s) /\ ~Discounted(rp[x], s)
    PROVE  Count(rp, e, s) = Count(rq, e, s)
  <1>1. Registering(rp, s) = Registering(rq, s)
    BY DEF Registering
  <1>2. Remaining(rp, e, s) = Remaining(rq, e, s)
    BY DEF Remaining
  <1> QED
    BY <1>1, <1>2 DEF Count

LEMMA CountInit == IsFiniteSet(Supis) /\ Init => CountInv
  <1> SUFFICES ASSUME IsFiniteSet(Supis), Init, NEW s \in Slices
               PROVE  counters[s] = Count(req, ue, s)
    BY DEF CountInv
  <1>1. Remaining(req, ue, s) = {} /\ Registering(req, s) = {}
    <2>1. \A x \in Reqs : req[x].pc = "idle"
      BY DEF Init, Fresh
    <2>2. \A x \in Reqs : ~Counted(req[x], s)
      BY <2>1, CountedRuns
    <2>3. \A u \in Supis : ue[u] = NoContext
      BY DEF Init
    <2> QED
      BY <2>2, <2>3 DEF Remaining, Registering
  <1>2. counters[s] = 0
    BY DEF Init
  <1> QED
    BY <1>1, <1>2, FS_EmptySet DEF Count

LEMMA CountNext ==
    ASSUME DistinctSlices, IsFiniteSet(Supis)
    PROVE  TypeInv /\ SerialInv /\ ListInv /\ CountInv /\ [Next]_vars => CountInv'
  <1> SUFFICES ASSUME TypeInv, SerialInv, ListInv, CountInv, [Next]_vars, NSACF,
                      NEW s \in Slices \ drifted'
               PROVE  counters'[s] = Count(req', ue', s)
    BY DEF CountInv
  <1>0. s \in Slices \ drifted /\ (Next => \A x \in Reqs : ~Drifts(x, s))
    BY DEF Next, vars
  <1>1. counters[s] = Count(req, ue, s)
    BY <1>0 DEF CountInv
  <1>2. CASE Next /\ Restart
    <2>1. UNCHANGED <<ue, counters>>
      BY <1>2 DEF Restart
    <2>2. ASSUME NEW x \in Reqs
          PROVE  \/ req'[x] = req[x]
                 \/ /\ ~Counted(req[x], s) /\ ~Discounted(req[x], s)
                    /\ ~Counted(req'[x], s) /\ ~Discounted(req'[x], s)
      <3>1. CASE Runs(x) /\ req[x].kind = "register" /\ req'[x].pc = "done"
                 /\ req'[x].code = req[x].code
        <4>1. req[x].pc \in RegisterPC /\ req'[x].code # 200
          BY <3>1 DEF ListInv
        <4>2. req[x].pc \notin {"incGet", "incPut", "put"}
          BY <1>0, <1>2, <3>1, <4>1 DEF Drifts
        <4> QED
          BY <3>1, <4>1, <4>2 DEF Counted, Discounted, RegisterPC
      <3> QED
        BY <1>2, <3>1, RestartEffect
    <2>3. Count(req', ue, s) = Count(req, ue, s)
      BY <2>2, SameCount
    <2> QED
      BY <1>1, <2>1, <2>3
  <1>3. ASSUME NEW x \in Reqs, Arrive(x) PROVE counters'[s] = Count(req', ue', s)
    <2>1. /\ Alone(x) /\ UNCHANGED <<ue, counters>> /\ req[x].pc = "idle"
          /\ req'[x].pc \in {"auth", "sdm", "dGet", "sGet", "hGet", "lGet"}
      BY <1>3, ArriveEffect DEF Begins
    <2>2. /\ ~Counted(req[x], s) /\ ~Discounted(req[x], s)
          /\ ~Counted(req'[x], s) /\ ~Discounted(req'[x], s)
      BY <2>1 DEF Counted, Discounted
    <2>3. Count(req', ue, s) = Count(req, ue, s)
      BY <2>1, <2>2, SameCount DEF Alone
    <2> QED
      BY <1>1, <2>1, <2>3
  <1>4. ASSUME Next, NEW x \in Reqs, Step(x) PROVE counters'[s] = Count(req', ue', s)
    BY <1>0, <1>4, StepCount
  <1>5. CASE UNCHANGED vars
    BY <1>1, <1>5 DEF vars
  <1> QED
    BY <1>2, <1>3, <1>4, <1>5 DEF Next

(* When a UE runs one procedure at a time and no subscription lists a slice *)
(* twice, a slice whose counter no fault or overlap has touched counts      *)
(* exactly the UEs whose stored context lists it, once nothing runs: the    *)
(* increments of registration and the floored decrements of deregistration  *)
(* balance, for any number of UEs, slices and requests.                     *)
THEOREM CountersAgree ==
    ASSUME Serial # "none", DistinctSlices, IsFiniteSet(Supis)
    PROVE  Spec => []CountersExact
  <1>1. TypeInv /\ ListInv /\ CountInv => CountersExact
    <2> SUFFICES ASSUME TypeInv, ListInv, CountInv, NSACF, \A x \in Reqs : ~Runs(x),
                        NEW s \in Slices \ drifted
                 PROVE  counters[s] = Cardinality({u \in Supis : Lists(u, s)})
      BY DEF CountersExact
    <2>1. \A x \in Reqs : ~Counted(req[x], s) /\ ~Discounted(req[x], s)
      BY CountedRuns DEF Runs
    <2>2. Registering(req, s) = {}
      BY <2>1 DEF Registering
    <2>3. ASSUME NEW u \in Supis
          PROVE  Lists(u, s) <=> ue[u] # NoContext /\ ListsSlice(NSSAI[u], s)
      <3>1. DOMAIN NSSAI[u] = 1 .. Len(NSSAI[u])
        BY SubscriptionType, LenProperties
      <3> QED
        BY <3>1 DEF Lists, Stored, ListsSlice, ListInv
    <2>4. Remaining(req, ue, s) = {u \in Supis : Lists(u, s)}
      BY <2>1, <2>3 DEF Remaining
    <2>5. counters[s] = Cardinality(Remaining(req, ue, s)) + Cardinality(Registering(req, s))
      BY DEF CountInv, Count
    <2>6. Cardinality(Registering(req, s)) = 0 /\ counters[s] \in Nat
      BY <2>2, FS_EmptySet DEF TypeInv, TypeOK
    <2>7. Cardinality(Remaining(req, ue, s)) \in Nat
      <3>1. Remaining(req, ue, s) \in SUBSET Supis
        BY DEF Remaining
      <3> QED
        BY <3>1, FS_Subset, FS_CardinalityType
    <2> QED
      BY <2>4, <2>5, <2>6, <2>7
  <1> QED
    BY <1>1, SerialInvariant, ListInit, ListNext, CountInit, CountNext, PTL DEF Spec
=============================================================================
