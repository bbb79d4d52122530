-------------------------- MODULE SCTPProxy_proofs --------------------------
(***************************************************************************)
(* Proofs about SCTPProxy, for RAN-UE-NGAP-IDs that are different at all   *)
(* gNBs.                                                                   *)
(***************************************************************************)
EXTENDS SCTPProxy, TLAPS

\* No two UEs have the same RAN-UE-NGAP-ID, at whatever gNB.
DistinctRanIDs == \A u, v \in UEs : RanIDOf[u] = RanIDOf[v] => u = v

-----------------------------------------------------------------------------
(* The inductive invariant.                                                *)

Active == {"REGISTERED", "PDU_SESSION_ACTIVE"}
\* The context a UE's messages lead to, and the goroutines that work for it.
idOf(u) == ueMap[RanIDOf[u]]
ctxOf(u) == ctxs[idOf(u)]
Serves(c, u) == conn[c].ue = u

\* A goroutine that has called a backend holds a context.
GoroutineOK ==
    \A c \in Conns :
        /\ conn[c].pc = "read" <=> conn[c].ue = None
        /\ conn[c].pc = "read" <=> conn[c].id = 0
        /\ conn[c].id <= amfUeNgapIDCounter
TypeInv == TypeOK /\ GoroutineOK

\* A context is its UE's, for the map and for the goroutines.
OwnInv ==
    /\ \A u \in UEs : idOf(u) # 0 => ctxOf(u).SUPI = u
    /\ OwnContext

\* The context of u has protected n messages.
AtCount(u, n) == ctxOf(u).DLCount = n /\ ctxOf(u).DLSeqNum = n % SeqMod

\* Where UE and context are, by the phase of the UE.
RegisteringInv(u) ==
    /\ up[u] \in {"none", "registration"} /\ received[u] = 0
    /\ down[u] # Nothing =>
         /\ down[u].msg = "authRequest" /\ down[u].mac = FALSE /\ up[u] = "none"
         /\ idOf(u) # 0 /\ ctxOf(u).State = "AUTH_SENT" /\ AtCount(u, 0)
AuthenticatingInv(u) ==
    /\ up[u] \in {"none", "authResponse"} /\ received[u] = 0 /\ idOf(u) # 0
    /\ \/ ctxOf(u).State = "AUTH_SENT" /\ AtCount(u, 0) /\ down[u] = Nothing
       \/ /\ ctxOf(u).State = "SMC_SENT" /\ AtCount(u, 1)
          /\ down[u] # Nothing =>
               /\ down[u].msg = "smCommand" /\ up[u] = "none"
               /\ down[u].sqn = 0 /\ down[u].count = 0 /\ down[u].mac = ctxOf(u).keys
SecuringInv(u) ==
    /\ up[u] \in {"none", "smComplete"} /\ received[u] = 1
    /\ idOf(u) # 0 /\ ctxOf(u).keys = TRUE
    /\ \/ ctxOf(u).State = "SMC_SENT" /\ AtCount(u, 1) /\ down[u] = Nothing
       \/ /\ ctxOf(u).State = "REGISTERED" /\ AtCount(u, 2) /\ up[u] = "none"
          /\ down[u] # Nothing
          /\ down[u].msg = "regAccept" /\ down[u].mac = TRUE
          /\ down[u].sqn = 1 /\ down[u].count = 1
InServiceInv(u) ==
    /\ up[u] = "none" /\ down[u] = Nothing
    /\ idOf(u) # 0 /\ ctxOf(u).keys = TRUE
    /\ AtCount(u, received[u]) /\ ctxOf(u).State \in Active
    /\ phase[u] = "up" => ctxOf(u).State = "PDU_SESSION_ACTIVE"
RequestingInv(u) ==
    /\ up[u] \in {"none", "pduRequest"}
    /\ idOf(u) # 0 /\ ctxOf(u).keys = TRUE
    /\ \/ down[u] = Nothing /\ AtCount(u, received[u]) /\ ctxOf(u).State \in Active
       \/ /\ down[u] # Nothing /\ up[u] = "none"
          /\ down[u].msg = "pduAccept" /\ down[u].mac = TRUE
          /\ down[u].sqn = received[u] % SeqMod /\ down[u].count = received[u]
          /\ AtCount(u, received[u] + 1) /\ ctxOf(u).State = "PDU_SESSION_ACTIVE"
PhaseInv(u) ==
    /\ phase[u] = "off" => up[u] = "none" /\ down[u] = Nothing
    /\ phase[u] = "registering" => RegisteringInv(u)
    /\ phase[u] = "authenticating" => AuthenticatingInv(u)
    /\ phase[u] = "securing" => SecuringInv(u)
    /\ phase[u] \in {"registered", "up"} => InServiceInv(u)
    /\ phase[u] = "requesting" => RequestingInv(u)

\* The goroutine of the live association works on the current context, for a
\* UE that waits for its answer and has nothing else on its way.
LiveInv(u) ==
    \A c \in Conns : Serves(c, u) /\ live[GnbOf[u]] = c =>
        /\ conn[c].id = idOf(u) /\ up[u] = "none" /\ down[u] = Nothing
        /\ conn[c].pc \in {"auth", "pending"} => phase[u] = "registering" /\ AtCount(u, 0)
        /\ conn[c].pc = "register" => phase[u] = "securing"
        /\ conn[c].pc = "create" => phase[u] = "requesting"

\* One of a lost association holds the current context only until the UE,
\* which begins again, has been given a new one.
StaleInv(u) ==
    \A c \in Conns : Serves(c, u) /\ live[GnbOf[u]] # c /\ conn[c].id = idOf(u) =>
        /\ phase[u] \in {"off", "registering"}
        /\ up[u] \in {"none", "registration"} /\ down[u] = Nothing

UEInv == \A u \in UEs : PhaseInv(u) /\ LiveInv(u) /\ StaleInv(u)

\* The AMF has registered whoever has a registered context.
RegisteredInv ==
    /\ \A i \in 1 .. amfUeNgapIDCounter : ctxs[i].State \in Active => ctxs[i].SUPI \in registered
    /\ \A c \in Conns : conn[c].pc = "create" => ctxs[conn[c].id].SUPI \in registered
    /\ FlowOrder

ProxyInv == OwnInv /\ NotShared /\ UEInv /\ RegisteredInv
-----------------------------------------------------------------------------
(* Constants, identifiers and counts.                                      *)

LEMMA RanID == \A u \in UEs : RanIDOf[u] \in RanIDs
  BY DEF RanIDs

LEMMA ModFacts ==
    /\ SeqMod \in Nat /\ SeqMod > 1
    /\ 0 % SeqMod = 0 /\ 1 % SeqMod = 1
    /\ \A n \in Nat : n % SeqMod \in 0 .. SeqMod - 1
  BY ConstantsAssumption

LEMMA Division ==
    ASSUME NEW n \in Nat
    PROVE  /\ n = SeqMod * (n \div SeqMod) + (n % SeqMod)
           /\ n % SeqMod \in 0 .. SeqMod - 1 /\ n \div SeqMod \in Int
  BY ConstantsAssumption

LEMMA RemainderUnique ==
    ASSUME NEW p \in Int, NEW q \in Int, NEW a \in 0 .. SeqMod - 1, NEW b \in 0 .. SeqMod - 1,
           SeqMod * p + a = SeqMod * q + b
    PROVE  a = b
  <1> USE ModFacts
  <1>1. CASE p < q
    <2>1. SeqMod * q >= SeqMod * p + SeqMod
      BY <1>1
    <2> QED
      BY <2>1
  <1>2. CASE q < p
    <2>1. SeqMod * p >= SeqMod * q + SeqMod
      BY <1>2
    <2> QED
      BY <2>1
  <1> QED
    BY <1>1, <1>2

LEMMA RemainderOfSmall ==
    ASSUME NEW a \in 0 .. SeqMod - 1
    PROVE  a % SeqMod = a
  <1>1. a \in Nat /\ 0 \in Int
    BY ModFacts
  <1>2. a = SeqMod * (a \div SeqMod) + (a % SeqMod)
        /\ a % SeqMod \in 0 .. SeqMod - 1 /\ a \div SeqMod \in Int
    BY <1>1, Division
  <1>3. SeqMod * (a \div SeqMod) + (a % SeqMod) = SeqMod * 0 + a
    BY <1>1, <1>2, ModFacts
  <1> QED
    BY <1>1, <1>2, <1>3, RemainderUnique

LEMMA ModNext ==
    ASSUME NEW n \in Nat
    PROVE  ((n % SeqMod) + 1) % SeqMod = (n + 1) % SeqMod
  <1> DEFINE r == n % SeqMod
             q == n \div SeqMod
             s == (n + 1) % SeqMod
             p == (n + 1) \div SeqMod
  <1>1. n = SeqMod * q + r /\ r \in 0 .. SeqMod - 1 /\ q \in Int
    BY Division
  <1>2. n + 1 = SeqMod * p + s /\ s \in 0 .. SeqMod - 1 /\ p \in Int
    BY Division
  <1>3. r + 1 < SeqMod => (r + 1) % SeqMod = r + 1
    <2> HIDE DEF r
    <2>1. r + 1 < SeqMod => r + 1 \in 0 .. SeqMod - 1
      BY <1>1, ModFacts
    <2> QED
      BY <2>1, RemainderOfSmall
  <1>4. SeqMod % SeqMod = 0
    <2>1. SeqMod = SeqMod * (SeqMod \div SeqMod) + (SeqMod % SeqMod)
          /\ SeqMod % SeqMod \in 0 .. SeqMod - 1 /\ SeqMod \div SeqMod \in Int
      BY Division, ModFacts
    <2>2. SeqMod * (SeqMod \div SeqMod) + (SeqMod % SeqMod) = SeqMod * 1 + 0
          /\ 0 \in 0 .. SeqMod - 1 /\ 1 \in Int
      BY <2>1, ModFacts
    <2> QED
      BY <2>1, <2>2, RemainderUnique
  <1> HIDE DEF r, q, s, p
  <1>5. CASE r + 1 < SeqMod
    <2>1. SeqMod * p + s = SeqMod * q + (r + 1) /\ r + 1 \in 0 .. SeqMod - 1
      BY <1>1, <1>2, <1>5, ModFacts
    <2>2. s = r + 1
      BY <1>1, <1>2, <2>1, RemainderUnique
    <2> QED
      BY <2>2, <1>3, <1>5 DEF r, s
  <1>6. CASE r + 1 = SeqMod
    <2>1. SeqMod * p + s = SeqMod * (q + 1) + 0 /\ 0 \in 0 .. SeqMod - 1 /\ q + 1 \in Int
      BY <1>1, <1>2, <1>6, ModFacts
    <2>2. s = 0
      BY <1>2, <2>1, RemainderUnique
    <2> QED
      BY <2>2, <1>4, <1>6 DEF r, s
  <1> QED
    BY <1>1, <1>5, <1>6, ModFacts

LEMMA IdType ==
    ASSUME TypeInv, NEW u \in UEs
    PROVE  /\ idOf(u) \in Nat /\ idOf(u) <= amfUeNgapIDCounter
           /\ idOf(u) # 0 => idOf(u) \in 1 .. amfUeNgapIDCounter /\ ctxOf(u) \in UEContext
  BY RanID DEF TypeInv, TypeOK, idOf, ctxOf

LEMMA GoroutineType ==
    ASSUME TypeInv, NEW c \in Conns, conn[c].pc # "read"
    PROVE  /\ conn[c].ue \in UEs /\ conn[c].id \in 1 .. amfUeNgapIDCounter
           /\ ctxs[conn[c].id] \in UEContext
  <1>1. conn[c].ue \in UEs
    BY DEF TypeInv, TypeOK, GoroutineOK, Goroutine
  <1>2. conn[c].id \in 1 .. amfUeNgapIDCounter
    BY DEF TypeInv, TypeOK, GoroutineOK, Goroutine
  <1> QED
    BY <1>1, <1>2 DEF TypeInv, TypeOK

LEMMA NothingIsNothing == \A m \in Downlink : m # Nothing
  BY DEF Downlink, Downlinks, Nothing
-----------------------------------------------------------------------------
(* What a handler does to a context, without the EXCEPTs.                  *)

SameOwner(v, r) == v \in UEContext /\ v.SUPI = r.SUPI /\ v.RANUeNgapID = r.RANUeNgapID

LEMMA SetState ==
    ASSUME NEW r \in UEContext, NEW s \in UEStates
    PROVE  LET v == [r EXCEPT !.State = s] IN
           /\ SameOwner(v, r) /\ v.State = s
           /\ v.DLSeqNum = r.DLSeqNum /\ v.DLCount = r.DLCount /\ v.keys = r.keys
  BY DEF UEContext, SameOwner

LEMMA SetSeqNum ==
    ASSUME NEW r \in UEContext, NEW n \in 0 .. SeqMod - 1
    PROVE  LET v == [r EXCEPT !.DLSeqNum = n] IN
           /\ SameOwner(v, r) /\ v.DLSeqNum = n
           /\ v.State = r.State /\ v.DLCount = r.DLCount /\ v.keys = r.keys
  BY DEF UEContext, SameOwner

LEMMA SetCount ==
    ASSUME NEW r \in UEContext, NEW n \in Nat
    PROVE  LET v == [r EXCEPT !.DLCount = n] IN
           /\ SameOwner(v, r) /\ v.DLCount = n
           /\ v.State = r.State /\ v.DLSeqNum = r.DLSeqNum /\ v.keys = r.keys
  BY DEF UEContext, SameOwner

LEMMA SetKeys ==
    ASSUME NEW r \in UEContext, NEW k \in BOOLEAN
    PROVE  LET v == [r EXCEPT !.keys = k] IN
           /\ SameOwner(v, r) /\ v.keys = k
           /\ v.State = r.State /\ v.DLSeqNum = r.DLSeqNum /\ v.DLCount = r.DLCount
  BY DEF UEContext, SameOwner

\* Only context i changes, and it stays its UE's.
Touches(i) ==
    /\ ctxs' \in [1 .. amfUeNgapIDCounter -> UEContext]
    /\ \A j \in 1 .. amfUeNgapIDCounter : j # i => ctxs'[j] = ctxs[j]
    /\ ctxs'[i].SUPI = ctxs[i].SUPI

\* Context i is left in state st, with its counters at sq and n and keys k.
Leaves(i, st, sq, n, k) ==
    /\ Touches(i)
    /\ ctxs'[i].State = st /\ ctxs'[i].DLSeqNum = sq
    /\ ctxs'[i].DLCount = n /\ ctxs'[i].keys = k

LEMMA SetContext ==
    ASSUME TypeInv, NEW i \in 1 .. amfUeNgapIDCounter, NEW v \in UEContext,
           ctxs' = [ctxs EXCEPT ![i] = v], v.SUPI = ctxs[i].SUPI
    PROVE  Touches(i) /\ ctxs'[i] = v
  BY DEF TypeInv, TypeOK, Touches

LEMMA AuthPendingContext ==
    ASSUME TypeInv, NEW i \in 1 .. amfUeNgapIDCounter, NEW k \in BOOLEAN,
           ctxs' = [ctxs EXCEPT ![i].keys = k, ![i].State = "AUTH_SENT"]
    PROVE  Leaves(i, "AUTH_SENT", ctxs[i].DLSeqNum, ctxs[i].DLCount, k)
  <1> DEFINE w == [ctxs[i] EXCEPT !.keys = k]
             v == [w EXCEPT !.State = "AUTH_SENT"]
  <1>0. DOMAIN ctxs = 1 .. amfUeNgapIDCounter /\ ctxs[i] \in UEContext /\ "AUTH_SENT" \in UEStates
    BY DEF TypeInv, TypeOK, UEStates
  <1>1. ctxs' = [ctxs EXCEPT ![i] = v]
    BY <1>0, Zenon
  <1>2. /\ SameOwner(w, ctxs[i]) /\ w.keys = k
        /\ w.DLSeqNum = ctxs[i].DLSeqNum /\ w.DLCount = ctxs[i].DLCount
    BY <1>0, SetKeys
  <1> HIDE DEF w
  <1>3. /\ SameOwner(v, w) /\ v.State = "AUTH_SENT" /\ v.keys = w.keys
        /\ v.DLSeqNum = w.DLSeqNum /\ v.DLCount = w.DLCount
    BY <1>0, <1>2, SetState DEF SameOwner
  <1> HIDE DEF v
  <1>4. v \in UEContext /\ v.SUPI = ctxs[i].SUPI
    BY <1>2, <1>3, Zenon DEF SameOwner
  <1>5. Touches(i) /\ ctxs'[i] = v
    BY <1>1, <1>4, SetContext, Zenon
  <1> QED
    BY <1>2, <1>3, <1>5, Zenon DEF Leaves

LEMMA AuthResponseContext ==
    ASSUME TypeInv, NEW i \in 1 .. amfUeNgapIDCounter,
           ctxs' = [ctxs EXCEPT ![i].DLCount = @ + 1, ![i].DLSeqNum = 1, ![i].State = "SMC_SENT"]
    PROVE  Leaves(i, "SMC_SENT", 1, ctxs[i].DLCount + 1, ctxs[i].keys)
  <1> DEFINE n == ctxs[i].DLCount + 1
             x == [ctxs[i] EXCEPT !.DLCount = n]
             w == [x EXCEPT !.DLSeqNum = 1]
             v == [w EXCEPT !.State = "SMC_SENT"]
  <1>0. DOMAIN ctxs = 1 .. amfUeNgapIDCounter /\ ctxs[i] \in UEContext /\ "SMC_SENT" \in UEStates
        /\ n \in Nat /\ 1 \in 0 .. SeqMod - 1
    BY ModFacts DEF TypeInv, TypeOK, UEStates, UEContext
  <1>1. ctxs' = [ctxs EXCEPT ![i] = v]
    BY <1>0, Zenon
  <1> HIDE DEF n
  <1>2. SameOwner(x, ctxs[i]) /\ x.DLCount = n /\ x.keys = ctxs[i].keys
    BY <1>0, SetCount
  <1> HIDE DEF x
  <1>3. SameOwner(w, x) /\ w.DLSeqNum = 1 /\ w.DLCount = x.DLCount /\ w.keys = x.keys
    BY <1>0, <1>2, SetSeqNum DEF SameOwner
  <1> HIDE DEF w
  <1>4. /\ SameOwner(v, w) /\ v.State = "SMC_SENT" /\ v.keys = w.keys
        /\ v.DLSeqNum = w.DLSeqNum /\ v.DLCount = w.DLCount
    BY <1>0, <1>3, SetState DEF SameOwner
  <1> HIDE DEF v
  <1>5. v \in UEContext /\ v.SUPI = ctxs[i].SUPI
    BY <1>2, <1>3, <1>4, Zenon DEF SameOwner
  <1>6. Touches(i) /\ ctxs'[i] = v
    BY <1>1, <1>5, SetContext, Zenon
  <1> QED
    BY <1>2, <1>3, <1>4, <1>6, Zenon DEF Leaves, n

LEMMA ProtectContext ==
    ASSUME TypeInv, NEW i \in 1 .. amfUeNgapIDCounter, NEW st \in UEStates, Protect(i, st)
    PROVE  Leaves(i, st, (ctxs[i].DLSeqNum + 1) % SeqMod, ctxs[i].DLCount + 1, ctxs[i].keys)
  <1> DEFINE sq == (ctxs[i].DLSeqNum + 1) % SeqMod
             n == ctxs[i].DLCount + 1
             x == [ctxs[i] EXCEPT !.DLSeqNum = sq]
             w == [x EXCEPT !.DLCount = n]
             v == [w EXCEPT !.State = st]
  <1>0. DOMAIN ctxs = 1 .. amfUeNgapIDCounter /\ ctxs[i] \in UEContext
    BY DEF TypeInv, TypeOK
  <1>1. n \in Nat /\ sq \in 0 .. SeqMod - 1
    <2>1. ctxs[i].DLSeqNum \in Nat /\ ctxs[i].DLCount \in Nat
      BY <1>0, ModFacts DEF UEContext
    <2> QED
      BY <2>1, ModFacts
  <1>2. SameOwner(x, ctxs[i]) /\ x.DLSeqNum = sq /\ x.DLCount = ctxs[i].DLCount /\ x.keys = ctxs[i].keys
    <2> HIDE DEF sq
    <2> QED
      BY <1>0, <1>1, SetSeqNum
  <1>3. ctxs' = [ctxs EXCEPT ![i] = v]
    <2>1. ctxs' = [ctxs EXCEPT ![i] = [[x EXCEPT !.DLCount = x.DLCount + 1] EXCEPT !.State = st]]
      BY <1>0, Zenon DEF Protect
    <2> QED
      BY <2>1, <1>2, Zenon
  <1> HIDE DEF n, x, sq
  <1>4. SameOwner(w, x) /\ w.DLSeqNum = x.DLSeqNum /\ w.DLCount = n /\ w.keys = x.keys
    BY <1>1, <1>2, SetCount DEF SameOwner
  <1> HIDE DEF w
  <1>5. /\ SameOwner(v, w) /\ v.State = st /\ v.keys = w.keys
        /\ v.DLSeqNum = w.DLSeqNum /\ v.DLCount = w.DLCount
    BY <1>4, SetState DEF SameOwner
  <1> HIDE DEF v
  <1> QED
    BY <1>2, <1>3, <1>4, <1>5, SetContext DEF Leaves, SameOwner, n, sq
-----------------------------------------------------------------------------
(* The steps the handlers are made of.                                     *)

\* Goroutine c is left at p, for u and context i.
Holds(c, p, u, i) ==
    /\ conn'[c].pc = p /\ conn'[c].ue = u /\ conn'[c].id = i
    /\ \A d \in Conns : d # c => conn'[d] = conn[d]
\* It has taken message m of u.
Took(c, u, m) ==
    /\ conn[c].pc = "read" /\ conn[c].ue = None /\ live[GnbOf[u]] = c
    /\ up[u] = m /\ up'[u] = "none"
    /\ \A v \in UEs : v # u => up'[v] = up[v]
\* It has sent m to u, who gets it on the live association.
Sent(c, u, m) ==
    /\ \A v \in UEs : v # u => down'[v] = down[v]
    /\ live[GnbOf[u]] = c => down'[u] = m
    /\ live[GnbOf[u]] # c => down' = down

LEMMA CallsEffect ==
    ASSUME TypeInv, NEW c \in Conns, NEW p \in {"auth", "pending", "register", "create"},
           NEW u \in UEs, NEW i \in 1 .. MaxIDs, Calls(c, p, u, i)
    PROVE  conn' \in [Conns -> Goroutine] /\ Holds(c, p, u, i)
  <1> DEFINE r == [pc |-> p, ue |-> u, id |-> i]
  <1>1. r \in Goroutine /\ r.pc = p /\ r.ue = u /\ r.id = i
    BY ConstantsAssumption DEF Goroutine
  <1>2. conn' = [conn EXCEPT ![c] = r]
    BY DEF Calls
  <1> HIDE DEF r
  <1> QED
    BY <1>1, <1>2 DEF TypeInv, TypeOK, Holds

LEMMA ReturnsEffect ==
    ASSUME TypeInv, NEW c \in Conns, Returns(c)
    PROVE  conn' \in [Conns -> Goroutine] /\ Holds(c, "read", None, 0)
  <1>1. Reading \in Goroutine /\ Reading.pc = "read" /\ Reading.ue = None /\ Reading.id = 0
    BY ConstantsAssumption DEF Goroutine, Reading
  <1> QED
    BY <1>1 DEF TypeInv, TypeOK, Returns, Holds

LEMMA AnswersEffect ==
    ASSUME TypeInv, NEW c \in Conns, NEW u \in UEs, NEW m \in Downlink, Answers(c, u, m)
    PROVE  down' \in [UEs -> Downlink \cup {Nothing}] /\ Sent(c, u, m)
  BY DEF TypeInv, TypeOK, Answers, Sent

LEMMA ReadsEffect ==
    ASSUME TypeInv, NEW c \in Conns, NEW u \in UEs, NEW m, Reads(c, u, m)
    PROVE  up' \in [UEs -> Uplinks \cup {"none"}] /\ Took(c, u, m)
  BY DEF TypeInv, TypeOK, GoroutineOK, Reads, Took

LEMMA ProtectedType ==
    ASSUME NEW m \in Downlinks, NEW sq \in 0 .. SeqMod - 1, NEW ctx \in UEContext
    PROVE  /\ Protected(m, sq, ctx) \in Downlink
           /\ Protected(m, sq, ctx).msg = m /\ Protected(m, sq, ctx).sqn = sq
           /\ Protected(m, sq, ctx).count = ctx.DLCount /\ Protected(m, sq, ctx).mac = ctx.keys
  BY DEF Protected, Downlink, UEContext

LEMMA ContextFields ==
    ASSUME NEW x \in UEContext
    PROVE  /\ x.SUPI \in UEs /\ x.State \in UEStates /\ x.DLSeqNum \in 0 .. SeqMod - 1
           /\ x.DLCount \in Nat /\ x.keys \in BOOLEAN
  BY DEF UEContext

\* The new context of InitialUEMessage.
LEMMA NewContext ==
    ASSUME TypeInv, NEW u \in UEs, NEW c \in Conns, InitialUEMessage(c, u)
    PROVE  LET i == amfUeNgapIDCounter + 1 IN
           /\ amfUeNgapIDCounter' = i /\ i \in 1 .. MaxIDs
           /\ ctxs' \in [1 .. i -> UEContext]
           /\ \A j \in 1 .. amfUeNgapIDCounter : ctxs'[j] = ctxs[j]
           /\ ctxs'[i].SUPI = u /\ ctxs'[i].State = "IDLE"
           /\ ctxs'[i].DLSeqNum = 0 /\ ctxs'[i].DLCount = 0
           /\ ueMap' \in [RanIDs -> 0 .. i] /\ ueMap'[RanIDOf[u]] = i
           /\ \A r \in RanIDs : r # RanIDOf[u] => ueMap'[r] = ueMap[r]
  <1> DEFINE i == amfUeNgapIDCounter + 1
             n == [SUPI |-> u, RANUeNgapID |-> RanIDOf[u], State |-> "IDLE",
                   DLSeqNum |-> 0, DLCount |-> 0, keys |-> FALSE]
  <1>0. amfUeNgapIDCounter \in Nat /\ i \in Nat
    BY ConstantsAssumption DEF TypeInv, TypeOK
  <1>1. /\ n \in UEContext /\ n.SUPI = u /\ n.State = "IDLE"
        /\ n.DLSeqNum = 0 /\ n.DLCount = 0
    BY ModFacts, RanID DEF UEContext, UEStates
  <1>2. ctxs' = [j \in 1 .. i |-> IF j < i THEN ctxs[j] ELSE n]
    BY DEF InitialUEMessage
  <1>3. amfUeNgapIDCounter' = i /\ i \in 1 .. MaxIDs /\ ueMap' = [ueMap EXCEPT ![RanIDOf[u]] = i]
    BY DEF InitialUEMessage, IDs
  <1> HIDE DEF n
  <1>4. \A j \in 1 .. i : ctxs'[j] \in UEContext
    <2> SUFFICES ASSUME NEW j \in 1 .. i PROVE ctxs'[j] \in UEContext
      OBVIOUS
    <2>1. CASE j < i
      <3>1. j \in 1 .. amfUeNgapIDCounter
        BY <1>0, <2>1
      <3> QED
        BY <1>2, <2>1, <3>1 DEF TypeInv, TypeOK
    <2>2. CASE ~(j < i)
      BY <1>1, <1>2, <2>2
    <2> QED
      BY <2>1, <2>2
  <1>5. ctxs'[i] = n
    BY <1>0, <1>2
  <1>6. \A j \in 1 .. amfUeNgapIDCounter : ctxs'[j] = ctxs[j]
    BY <1>0, <1>2
  <1>7. ueMap \in [RanIDs -> 0 .. i]
    BY <1>0 DEF TypeInv, TypeOK
  <1>8. /\ ueMap' \in [RanIDs -> 0 .. i] /\ ueMap'[RanIDOf[u]] = i
        /\ \A r \in RanIDs : r # RanIDOf[u] => ueMap'[r] = ueMap[r]
    <2>1. i \in 0 .. i
      BY <1>0
    <2> HIDE DEF i
    <2> QED
      BY <1>3, <1>7, <2>1, RanID
  <1>9. ctxs' \in [1 .. i -> UEContext]
    BY <1>2, <1>4
  <1> HIDE DEF i
  <1> QED
    BY <1>1, <1>3, <1>5, <1>6, <1>8, <1>9 DEF i
-----------------------------------------------------------------------------
(* Type correctness, and the effect of each action.                        *)

\* A goroutine that is as before, reads, or holds a context.
LEMMA TypeKept ==
    ASSUME TypeInv, amfUeNgapIDCounter' = amfUeNgapIDCounter, ueMap' = ueMap,
           ctxs' \in [1 .. amfUeNgapIDCounter -> UEContext], conn' \in [Conns -> Goroutine],
           live' \in [Gnbs -> Conns \cup {None}], phase' \in [UEs -> Phases],
           up' \in [UEs -> Uplinks \cup {"none"}], down' \in [UEs -> Downlink \cup {Nothing}],
           received' \in [UEs -> Nat], registered' \subseteq UEs, sessions' \subseteq UEs,
           faults' \in 0 .. MaxFaults, drops' \in 0 .. MaxDrops,
           \/ conn' = conn
           \/ \E c \in Conns : Holds(c, "read", None, 0)
           \/ \E c \in Conns : \E p, u, i : /\ p # "read" /\ u # None
                                            /\ i \in 1 .. amfUeNgapIDCounter /\ Holds(c, p, u, i)
    PROVE  TypeInv'
  <1>1. TypeOK'
    BY DEF TypeInv, TypeOK
  <1>2. GoroutineOK'
    <2> SUFFICES ASSUME NEW c \in Conns
                 PROVE  /\ conn'[c].pc = "read" <=> conn'[c].ue = None
                        /\ conn'[c].pc = "read" <=> conn'[c].id = 0
                        /\ conn'[c].id <= amfUeNgapIDCounter
      BY DEF GoroutineOK
    <2>1. amfUeNgapIDCounter \in Nat
      BY ConstantsAssumption DEF TypeInv, TypeOK
    <2>2. \/ conn'[c] = conn[c]
          \/ conn'[c].pc = "read" /\ conn'[c].ue = None /\ conn'[c].id = 0
          \/ /\ conn'[c].pc # "read" /\ conn'[c].ue # None
             /\ conn'[c].id \in 1 .. amfUeNgapIDCounter
      BY DEF Holds
    <2> QED
      BY <2>1, <2>2 DEF TypeInv, GoroutineOK
  <1> QED
    BY <1>1, <1>2 DEF TypeInv

LEMMA InitialEffect ==
    ASSUME TypeInv, NEW c \in Conns, NEW u \in UEs, InitialUEMessage(c, u)
    PROVE  /\ TypeInv'
           /\ Took(c, u, "registration") /\ Holds(c, "auth", u, amfUeNgapIDCounter + 1)
           /\ UNCHANGED <<live, phase, received, down, registered, sessions>>
  <1> DEFINE i == amfUeNgapIDCounter + 1
  <1>0. amfUeNgapIDCounter \in Nat /\ amfUeNgapIDCounter' = i /\ i \in 1 .. MaxIDs
    BY NewContext, ConstantsAssumption DEF TypeInv, TypeOK
  <1>1. Calls(c, "auth", u, i) /\ Reads(c, u, "registration")
        /\ UNCHANGED <<live, phase, received, down, registered, sessions, faults, drops>>
    BY DEF InitialUEMessage, ueVars, coreVars
  <1>2. conn' \in [Conns -> Goroutine] /\ Holds(c, "auth", u, i)
    BY <1>0, <1>1, CallsEffect
  <1>3. up' \in [UEs -> Uplinks \cup {"none"}] /\ Took(c, u, "registration")
    BY <1>1, ReadsEffect
  <1>4. ctxs' \in [1 .. i -> UEContext] /\ ueMap' \in [RanIDs -> 0 .. i]
    BY NewContext
  <1> HIDE DEF i
  <1>5. TypeOK'
    BY <1>0, <1>1, <1>2, <1>3, <1>4, ConstantsAssumption DEF TypeInv, TypeOK
  <1>6. GoroutineOK'
    <2> SUFFICES ASSUME NEW d \in Conns
                 PROVE  /\ conn'[d].pc = "read" <=> conn'[d].ue = None
                        /\ conn'[d].pc = "read" <=> conn'[d].id = 0
                        /\ conn'[d].id <= i
      BY <1>0 DEF GoroutineOK
    <2>1. CASE d = c
      BY <1>0, <1>2, <2>1, ConstantsAssumption DEF Holds
    <2>2. CASE d # c
      <3>1. conn[d].id \in Int
        BY DEF TypeInv, TypeOK, Goroutine
      <3> QED
        BY <1>0, <1>2, <2>2, <3>1 DEF TypeInv, GoroutineOK, i, Holds
    <2> QED
      BY <2>1, <2>2
  <1> QED
    BY <1>1, <1>2, <1>3, <1>5, <1>6 DEF TypeInv, i

LEMMA FaultType ==
    ASSUME TypeInv, Fault \/ UNCHANGED faults
    PROVE  faults' \in 0 .. MaxFaults
  BY ConstantsAssumption DEF TypeInv, TypeOK, Fault

LEMMA IDsBounded ==
    ASSUME TypeInv, NEW i \in 1 .. amfUeNgapIDCounter
    PROVE  i \in 1 .. MaxIDs /\ i # 0 /\ ctxs[i] \in UEContext
  <1>1. ctxs[i] \in UEContext
    BY DEF TypeInv, TypeOK
  <1>2. MaxIDs \in Nat /\ amfUeNgapIDCounter \in 0 .. MaxIDs
    BY ConstantsAssumption DEF TypeInv, TypeOK
  <1> QED
    BY <1>1, <1>2

LEMMA AuthInitiateEffect ==
    ASSUME TypeInv, NEW c \in Conns, AuthInitiate(c)
    PROVE  /\ TypeInv'
           /\ conn[c].pc = "auth"
           /\ Holds(c, "pending", conn[c].ue, conn[c].id) \/ Holds(c, "read", None, 0)
           /\ UNCHANGED <<ueMap, ctxs, amfUeNgapIDCounter, live, phase, received, up, down,
                          registered, sessions>>
  <1>1. conn[c].pc = "auth" /\ (Calls(c, "pending", conn[c].ue, conn[c].id) \/ Returns(c))
        /\ (Fault \/ UNCHANGED faults)
        /\ UNCHANGED <<ueMap, ctxs, amfUeNgapIDCounter, live, phase, received, up, down,
                       registered, sessions, drops>>
    BY DEF AuthInitiate, proxyVars, ueVars, coreVars
  <1>2. conn[c].ue \in UEs /\ conn[c].id \in 1 .. amfUeNgapIDCounter
    BY <1>1, GoroutineType
  <1>3. conn[c].id \in 1 .. MaxIDs /\ conn[c].ue # None
    BY <1>2, IDsBounded, ConstantsAssumption
  <1>4. /\ conn' \in [Conns -> Goroutine]
        /\ Holds(c, "pending", conn[c].ue, conn[c].id) \/ Holds(c, "read", None, 0)
    BY <1>1, <1>2, <1>3, CallsEffect, ReturnsEffect
  <1>5. faults' \in 0 .. MaxFaults
    BY <1>1, FaultType
  <1>6. \/ \E d \in Conns : Holds(d, "read", None, 0)
        \/ \E d \in Conns : \E p, v, i : /\ p # "read" /\ v # None
                                         /\ i \in 1 .. amfUeNgapIDCounter /\ Holds(d, p, v, i)
    BY <1>2, <1>3, <1>4
  <1>7. TypeInv'
    BY <1>1, <1>4, <1>5, <1>6, TypeKept DEF TypeInv, TypeOK
  <1> QED
    BY <1>1, <1>4, <1>7

LEMMA AuthPendingEffect ==
    ASSUME TypeInv, NEW c \in Conns, AuthPending(c)
    PROVE  /\ TypeInv'
           /\ conn[c].pc = "pending" /\ Holds(c, "read", None, 0)
           /\ \E k : Leaves(conn[c].id, "AUTH_SENT", ctxs[conn[c].id].DLSeqNum,
                            ctxs[conn[c].id].DLCount, k)
           /\ \E m : /\ Sent(c, conn[c].ue, m)
                     /\ m \in Downlink /\ m.msg = "authRequest" /\ m.mac = FALSE
           /\ UNCHANGED <<ueMap, amfUeNgapIDCounter, live, phase, received, up, registered, sessions>>
  <1> DEFINE i == conn[c].id
             m == [msg |-> "authRequest", sqn |-> 0, count |-> 0, mac |-> FALSE]
  <1>1. /\ conn[c].pc = "pending" /\ Returns(c) /\ Answers(c, conn[c].ue, m)
        /\ Fault \/ UNCHANGED faults
        /\ UNCHANGED <<ueMap, amfUeNgapIDCounter, live, phase, received, up, registered, sessions, drops>>
    BY Zenon DEF AuthPending, ueVars, coreVars
  <1>2. conn[c].ue \in UEs /\ i \in 1 .. amfUeNgapIDCounter
    BY <1>1, GoroutineType
  <1>3. m \in Downlink /\ m.msg = "authRequest" /\ m.mac = FALSE
    BY ModFacts DEF Downlink, Downlinks
  <1>4. PICK k \in BOOLEAN : ctxs' = [ctxs EXCEPT ![i].keys = k, ![i].State = "AUTH_SENT"]
    BY Zenon DEF AuthPending
  <1>5. Leaves(i, "AUTH_SENT", ctxs[i].DLSeqNum, ctxs[i].DLCount, k)
    BY <1>2, <1>4, AuthPendingContext, Zenon
  <1> HIDE DEF m
  <1>6. down' \in [UEs -> Downlink \cup {Nothing}] /\ Sent(c, conn[c].ue, m)
    BY <1>1, <1>2, <1>3, AnswersEffect
  <1>7. ctxs' \in [1 .. amfUeNgapIDCounter -> UEContext]
    BY <1>5 DEF Leaves, Touches
  <1>8. faults' \in 0 .. MaxFaults
    BY <1>1, FaultType
  <1>9. conn' \in [Conns -> Goroutine] /\ Holds(c, "read", None, 0)
    BY <1>1, ReturnsEffect
  <1>10. TypeInv'
    BY <1>1, <1>6, <1>7, <1>8, <1>9, TypeKept DEF TypeInv, TypeOK
  <1> QED
    BY <1>1, <1>3, <1>5, <1>6, <1>9, <1>10

LEMMA UplinkRefusedEffect ==
    ASSUME TypeInv, NEW c \in Conns, NEW u \in UEs, NEW m \in Uplinks, UplinkRefused(c, u, m)
    PROVE  /\ TypeInv'
           /\ Took(c, u, m)
           /\ UNCHANGED <<ueMap, ctxs, amfUeNgapIDCounter, conn, live, phase, received, down,
                          registered, sessions>>
  <1>1. /\ Reads(c, u, m)
        /\ UNCHANGED <<ueMap, ctxs, amfUeNgapIDCounter, conn, live, phase, received, down,
                       registered, sessions, faults, drops>>
    BY DEF UplinkRefused, proxyVars, ueVars, coreVars
  <1>2. up' \in [UEs -> Uplinks \cup {"none"}] /\ Took(c, u, m)
    BY <1>1, ReadsEffect
  <1>3. TypeInv'
    BY <1>1, <1>2, TypeKept DEF TypeInv, TypeOK
  <1> QED
    BY <1>1, <1>2, <1>3

\* The context an accepted uplink message leads to.
LEMMA AcceptedContext ==
    ASSUME TypeInv, NEW u \in UEs, NEW m, ~Refused(m, getUE(RanIDOf[u]))
    PROVE  /\ idOf(u) \in 1 .. amfUeNgapIDCounter /\ idOf(u) # 0 /\ getUE(RanIDOf[u]) = idOf(u)
           /\ m = "authResponse" => ctxOf(u).State = "AUTH_SENT"
           /\ m = "smComplete" => ctxOf(u).State = "SMC_SENT"
  BY IdType DEF Refused, getUE, idOf, ctxOf

LEMMA AuthResponseEffect ==
    ASSUME TypeInv, NEW c \in Conns, NEW u \in UEs, AuthResponse(c, u)
    PROVE  /\ TypeInv'
           /\ Took(c, u, "authResponse")
           /\ idOf(u) \in 1 .. amfUeNgapIDCounter /\ ctxOf(u).State = "AUTH_SENT"
           /\ Leaves(idOf(u), "SMC_SENT", 1, ctxOf(u).DLCount + 1, ctxOf(u).keys)
           /\ \E m : /\ Sent(c, u, m)
                     /\ m \in Downlink /\ m.msg = "smCommand" /\ m.sqn = 0
                     /\ m.count = ctxOf(u).DLCount /\ m.mac = ctxOf(u).keys
           /\ UNCHANGED <<ueMap, amfUeNgapIDCounter, conn, live, phase, received, registered, sessions>>
  <1> DEFINE i == idOf(u)
             m == Protected("smCommand", 0, ctxs[i])
  <1>1. /\ Reads(c, u, "authResponse") /\ ~Refused("authResponse", getUE(RanIDOf[u]))
        /\ UNCHANGED <<ueMap, amfUeNgapIDCounter, conn, live, phase, received, registered, sessions,
                       faults, drops>>
    BY Zenon DEF AuthResponse, ueVars, coreVars
  <1>2. i \in 1 .. amfUeNgapIDCounter /\ getUE(RanIDOf[u]) = i /\ ctxOf(u).State = "AUTH_SENT"
    BY <1>1, AcceptedContext
  <1>3. /\ ctxs' = [ctxs EXCEPT ![i].DLCount = @ + 1, ![i].DLSeqNum = 1, ![i].State = "SMC_SENT"]
        /\ Answers(c, u, m)
    BY <1>2, Zenon DEF AuthResponse
  <1>4. Leaves(i, "SMC_SENT", 1, ctxs[i].DLCount + 1, ctxs[i].keys)
    BY <1>2, <1>3, AuthResponseContext, Zenon
  <1>5. /\ m \in Downlink /\ m.msg = "smCommand" /\ m.sqn = 0
        /\ m.count = ctxs[i].DLCount /\ m.mac = ctxs[i].keys
    <2>1. ctxs[i] \in UEContext /\ "smCommand" \in Downlinks /\ 0 \in 0 .. SeqMod - 1
      BY <1>2, IDsBounded, ModFacts DEF Downlinks
    <2> QED
      BY <2>1, ProtectedType
  <1> HIDE DEF m
  <1>6. Answers(c, u, m)
    BY <1>3, Zenon
  <1>7. down' \in [UEs -> Downlink \cup {Nothing}] /\ Sent(c, u, m)
    BY <1>5, <1>6, AnswersEffect
  <1>8. ctxs' \in [1 .. amfUeNgapIDCounter -> UEContext]
    BY <1>4 DEF Leaves, Touches
  <1>9. up' \in [UEs -> Uplinks \cup {"none"}] /\ Took(c, u, "authResponse")
    BY <1>1, ReadsEffect
  <1>10. TypeInv'
    BY <1>1, <1>7, <1>8, <1>9, TypeKept DEF TypeInv, TypeOK
  <1> QED
    BY <1>1, <1>2, <1>4, <1>5, <1>7, <1>9, <1>10 DEF ctxOf

LEMMA SecurityModeCompleteEffect ==
    ASSUME TypeInv, NEW c \in Conns, NEW u \in UEs, SecurityModeComplete(c, u)
    PROVE  /\ TypeInv'
           /\ Took(c, u, "smComplete") /\ Holds(c, "register", u, idOf(u))
           /\ idOf(u) \in 1 .. amfUeNgapIDCounter
           /\ UNCHANGED <<ueMap, ctxs, amfUeNgapIDCounter, live, phase, received, down,
                          registered, sessions>>
  <1> DEFINE i == idOf(u)
  <1>1. /\ Reads(c, u, "smComplete") /\ ~Refused("smComplete", getUE(RanIDOf[u]))
        /\ UNCHANGED <<ueMap, ctxs, amfUeNgapIDCounter, live, phase, received, down,
                       registered, sessions, faults, drops>>
    BY DEF SecurityModeComplete, proxyVars, ueVars, coreVars
  <1>2. i \in 1 .. amfUeNgapIDCounter /\ getUE(RanIDOf[u]) = i /\ i \in 1 .. MaxIDs
    BY <1>1, AcceptedContext, IDsBounded
  <1>3. Calls(c, "register", u, i)
    BY <1>2 DEF SecurityModeComplete
  <1>4. conn' \in [Conns -> Goroutine] /\ Holds(c, "register", u, i)
    BY <1>2, <1>3, CallsEffect
  <1>5. up' \in [UEs -> Uplinks \cup {"none"}] /\ Took(c, u, "smComplete")
    BY <1>1, ReadsEffect
  <1>6. \E d \in Conns : \E p, v, j : /\ p # "read" /\ v # None
                                      /\ j \in 1 .. amfUeNgapIDCounter /\ Holds(d, p, v, j)
    BY <1>2, <1>4, ConstantsAssumption
  <1>7. TypeInv'
    BY <1>1, <1>4, <1>5, <1>6, TypeKept DEF TypeInv, TypeOK
  <1> QED
    BY <1>1, <1>2, <1>4, <1>5, <1>7

LEMMA ULNASTransportEffect ==
    ASSUME TypeInv, NEW c \in Conns, NEW u \in UEs, ULNASTransport(c, u)
    PROVE  /\ TypeInv'
           /\ Took(c, u, "pduRequest") /\ Holds(c, "create", u, idOf(u))
           /\ idOf(u) \in 1 .. amfUeNgapIDCounter
           /\ UNCHANGED <<ueMap, ctxs, amfUeNgapIDCounter, live, phase, received, down,
                          registered, sessions>>
  <1> DEFINE i == idOf(u)
  <1>1. /\ Reads(c, u, "pduRequest") /\ ~Refused("pduRequest", getUE(RanIDOf[u]))
        /\ UNCHANGED <<ueMap, ctxs, amfUeNgapIDCounter, live, phase, received, down,
                       registered, sessions, faults, drops>>
    BY DEF ULNASTransport, proxyVars, ueVars, coreVars
  <1>2. i \in 1 .. amfUeNgapIDCounter /\ getUE(RanIDOf[u]) = i /\ i \in 1 .. MaxIDs
    BY <1>1, AcceptedContext, IDsBounded
  <1>3. Calls(c, "create", u, i)
    BY <1>2 DEF ULNASTransport
  <1>4. conn' \in [Conns -> Goroutine] /\ Holds(c, "create", u, i)
    BY <1>2, <1>3, CallsEffect
  <1>5. up' \in [UEs -> Uplinks \cup {"none"}] /\ Took(c, u, "pduRequest")
    BY <1>1, ReadsEffect
  <1>6. \E d \in Conns : \E p, v, j : /\ p # "read" /\ v # None
                                      /\ j \in 1 .. amfUeNgapIDCounter /\ Holds(d, p, v, j)
    BY <1>2, <1>4, ConstantsAssumption
  <1>7. TypeInv'
    BY <1>1, <1>4, <1>5, <1>6, TypeKept DEF TypeInv, TypeOK
  <1> QED
    BY <1>1, <1>2, <1>4, <1>5, <1>7

\* A handler whose backend has answered marks context i st and sends msg.
Completes(c, st, msg) ==
    LET i == conn[c].id IN
    /\ Leaves(i, st, (ctxs[i].DLSeqNum + 1) % SeqMod, ctxs[i].DLCount + 1, ctxs[i].keys)
    /\ \E m : /\ Sent(c, conn[c].ue, m)
              /\ m \in Downlink /\ m.msg = msg /\ m.sqn = ctxs[i].DLSeqNum
              /\ m.count = ctxs[i].DLCount /\ m.mac = ctxs[i].keys

LEMMA ProtectsAndAnswers ==
    ASSUME TypeInv, NEW c \in Conns, conn[c].pc # "read", NEW st \in UEStates, NEW msg \in Downlinks,
           Protect(conn[c].id, st),
           Answers(c, conn[c].ue, Protected(msg, ctxs[conn[c].id].DLSeqNum, ctxs[conn[c].id]))
    PROVE  /\ Completes(c, st, msg)
           /\ ctxs' \in [1 .. amfUeNgapIDCounter -> UEContext]
           /\ down' \in [UEs -> Downlink \cup {Nothing}]
  <1> DEFINE i == conn[c].id
             m == Protected(msg, ctxs[i].DLSeqNum, ctxs[i])
  <1>1. conn[c].ue \in UEs /\ i \in 1 .. amfUeNgapIDCounter /\ ctxs[i] \in UEContext
    BY GoroutineType
  <1>2. Leaves(i, st, (ctxs[i].DLSeqNum + 1) % SeqMod, ctxs[i].DLCount + 1, ctxs[i].keys)
    BY <1>1, ProtectContext
  <1>3. /\ m \in Downlink /\ m.msg = msg /\ m.sqn = ctxs[i].DLSeqNum
        /\ m.count = ctxs[i].DLCount /\ m.mac = ctxs[i].keys
    BY <1>1, ContextFields, ProtectedType
  <1>4. Answers(c, conn[c].ue, m)
    OBVIOUS
  <1> HIDE DEF m
  <1>5. down' \in [UEs -> Downlink \cup {Nothing}] /\ Sent(c, conn[c].ue, m)
    BY <1>1, <1>3, <1>4, AnswersEffect
  <1>6. ctxs' \in [1 .. amfUeNgapIDCounter -> UEContext]
    BY <1>2 DEF Leaves, Touches
  <1> QED
    BY <1>2, <1>3, <1>5, <1>6 DEF Completes

LEMMA RegisterEffect ==
    ASSUME TypeInv, NEW c \in Conns, Register(c)
    PROVE  /\ TypeInv'
           /\ conn[c].pc = "register" /\ Holds(c, "read", None, 0)
           /\ \/ /\ Completes(c, "REGISTERED", "regAccept")
                 /\ registered' = registered \cup {ctxs[conn[c].id].SUPI}
              \/ UNCHANGED <<ctxs, down>>
           /\ registered \subseteq registered'
           /\ UNCHANGED <<ueMap, amfUeNgapIDCounter, live, phase, received, up, sessions>>
  <1> DEFINE i == conn[c].id
  <1>1. /\ conn[c].pc = "register" /\ Returns(c)
        /\ Fault \/ UNCHANGED faults
        /\ \/ /\ registered' = registered \cup {ctxs[i].SUPI}
              /\ Protect(i, "REGISTERED")
              /\ Answers(c, conn[c].ue, Protected("regAccept", ctxs[i].DLSeqNum, ctxs[i]))
           \/ UNCHANGED <<ctxs, down>>
        /\ registered' \in {registered, registered \cup {ctxs[i].SUPI}}
        /\ UNCHANGED <<ueMap, amfUeNgapIDCounter, live, phase, received, up, sessions, drops>>
    BY DEF Register, ueVars
  <1>2. ctxs[i].SUPI \in UEs
    BY <1>1, GoroutineType, ContextFields
  <1>3. "REGISTERED" \in UEStates /\ "regAccept" \in Downlinks /\ conn[c].pc # "read"
    BY <1>1 DEF UEStates, Downlinks
  <1>4. /\ \/ /\ Completes(c, "REGISTERED", "regAccept")
              /\ registered' = registered \cup {ctxs[i].SUPI}
           \/ UNCHANGED <<ctxs, down>>
        /\ ctxs' \in [1 .. amfUeNgapIDCounter -> UEContext]
        /\ down' \in [UEs -> Downlink \cup {Nothing}]
    BY <1>1, <1>3, ProtectsAndAnswers DEF TypeInv, TypeOK
  <1>5. conn' \in [Conns -> Goroutine] /\ Holds(c, "read", None, 0)
    BY <1>1, ReturnsEffect
  <1>6. faults' \in 0 .. MaxFaults
    BY <1>1, FaultType
  <1>7. registered' \subseteq UEs /\ registered \subseteq registered'
    BY <1>1, <1>2 DEF TypeInv, TypeOK
  <1>8. TypeInv'
    BY <1>1, <1>4, <1>5, <1>6, <1>7, TypeKept DEF TypeInv, TypeOK
  <1> QED
    BY <1>1, <1>4, <1>5, <1>7, <1>8

LEMMA PDUSessionCreateEffect ==
    ASSUME TypeInv, NEW c \in Conns, PDUSessionCreate(c)
    PROVE  /\ TypeInv'
           /\ conn[c].pc = "create" /\ Holds(c, "read", None, 0)
           /\ Completes(c, "PDU_SESSION_ACTIVE", "pduAccept") \/ UNCHANGED <<ctxs, down>>
           /\ sessions' \in {sessions, sessions \cup {ctxs[conn[c].id].SUPI}}
           /\ UNCHANGED <<ueMap, amfUeNgapIDCounter, live, phase, received, up, registered>>
  <1> DEFINE i == conn[c].id
  <1>1. /\ conn[c].pc = "create" /\ Returns(c)
        /\ Fault \/ UNCHANGED faults
        /\ \/ /\ Protect(i, "PDU_SESSION_ACTIVE")
              /\ Answers(c, conn[c].ue, Protected("pduAccept", ctxs[i].DLSeqNum, ctxs[i]))
           \/ UNCHANGED <<ctxs, down>>
        /\ sessions' \in {sessions, sessions \cup {ctxs[i].SUPI}}
        /\ UNCHANGED <<ueMap, amfUeNgapIDCounter, live, phase, received, up, registered, drops>>
    BY DEF PDUSessionCreate, ueVars
  <1>2. ctxs[i].SUPI \in UEs
    BY <1>1, GoroutineType, ContextFields
  <1>3. "PDU_SESSION_ACTIVE" \in UEStates /\ "pduAccept" \in Downlinks /\ conn[c].pc # "read"
    BY <1>1 DEF UEStates, Downlinks
  <1>4. /\ Completes(c, "PDU_SESSION_ACTIVE", "pduAccept") \/ UNCHANGED <<ctxs, down>>
        /\ ctxs' \in [1 .. amfUeNgapIDCounter -> UEContext]
        /\ down' \in [UEs -> Downlink \cup {Nothing}]
    BY <1>1, <1>3, ProtectsAndAnswers DEF TypeInv, TypeOK
  <1>5. conn' \in [Conns -> Goroutine] /\ Holds(c, "read", None, 0)
    BY <1>1, ReturnsEffect
  <1>6. faults' \in 0 .. MaxFaults
    BY <1>1, FaultType
  <1>7. sessions' \subseteq UEs
    BY <1>1, <1>2 DEF TypeInv, TypeOK
  <1>8. TypeInv'
    BY <1>1, <1>4, <1>5, <1>6, <1>7, TypeKept DEF TypeInv, TypeOK
  <1> QED
    BY <1>1, <1>4, <1>5, <1>7, <1>8

LEMMA ConnectEffect ==
    ASSUME TypeInv, NEW g \in Gnbs, NEW c \in Conns, Connect(g, c)
    PROVE  /\ TypeInv'
           /\ conn[c].ue = None /\ live[g] = None /\ live'[g] = c
           /\ \A h \in Gnbs : h # g => live'[h] = live[h]
           /\ UNCHANGED <<ueMap, ctxs, amfUeNgapIDCounter, conn, phase, received, up, down,
                          registered, sessions>>
  <1>1. /\ conn[c].pc = "read" /\ live[g] = None /\ live' = [live EXCEPT ![g] = c]
        /\ UNCHANGED <<ueMap, ctxs, amfUeNgapIDCounter, conn, phase, received, up, down,
                       registered, sessions, faults, drops>>
    BY DEF Connect, proxyVars, ueVars, coreVars
  <1>2. /\ live' \in [Gnbs -> Conns \cup {None}] /\ live'[g] = c
        /\ \A h \in Gnbs : h # g => live'[h] = live[h]
    BY <1>1 DEF TypeInv, TypeOK
  <1>3. conn[c].ue = None
    BY <1>1 DEF TypeInv, GoroutineOK
  <1>4. TypeInv'
    BY <1>1, <1>2, TypeKept DEF TypeInv, TypeOK
  <1> QED
    BY <1>1, <1>2, <1>3, <1>4

LEMMA DropEffect ==
    ASSUME TypeInv, NEW g \in Gnbs, Drop(g)
    PROVE  /\ TypeInv'
           /\ live'[g] = None /\ \A h \in Gnbs : h # g => live'[h] = live[h]
           /\ \A u \in UEs :
                /\ GnbOf[u] = g => phase'[u] = "off" /\ up'[u] = "none" /\ down'[u] = Nothing
                /\ GnbOf[u] # g => phase'[u] = phase[u] /\ up'[u] = up[u] /\ down'[u] = down[u]
           /\ UNCHANGED <<ueMap, ctxs, amfUeNgapIDCounter, conn, received, registered, sessions>>
  <1>1. /\ drops < MaxDrops /\ drops' = drops + 1 /\ live' = [live EXCEPT ![g] = None]
        /\ phase' = [u \in UEs |-> IF GnbOf[u] = g THEN "off" ELSE phase[u]]
        /\ up' = [u \in UEs |-> IF GnbOf[u] = g THEN "none" ELSE up[u]]
        /\ down' = [u \in UEs |-> IF GnbOf[u] = g THEN Nothing ELSE down[u]]
        /\ UNCHANGED <<ueMap, ctxs, amfUeNgapIDCounter, conn, received, registered, sessions, faults>>
    BY DEF Drop, proxyVars, coreVars
  <1>2. live' \in [Gnbs -> Conns \cup {None}] /\ phase' \in [UEs -> Phases]
        /\ up' \in [UEs -> Uplinks \cup {"none"}]
    BY <1>1 DEF TypeInv, TypeOK, Phases
  <1>3. down' \in [UEs -> Downlink \cup {Nothing}]
    <2> HIDE DEF Nothing
    <2> QED
      BY <1>1 DEF TypeInv, TypeOK
  <1>4. drops' \in 0 .. MaxDrops
    BY <1>1, ConstantsAssumption DEF TypeInv, TypeOK
  <1>5. /\ live'[g] = None /\ \A h \in Gnbs : h # g => live'[h] = live[h]
        /\ \A u \in UEs :
             /\ GnbOf[u] = g => phase'[u] = "off" /\ up'[u] = "none" /\ down'[u] = Nothing
             /\ GnbOf[u] # g => phase'[u] = phase[u] /\ up'[u] = up[u] /\ down'[u] = down[u]
    BY <1>1 DEF TypeInv, TypeOK
  <1>6. TypeInv'
    BY <1>1, <1>2, <1>3, <1>4, TypeKept DEF TypeInv, TypeOK
  <1> QED
    BY <1>1, <1>5, <1>6

\* Only what is u's own changes.
Own(u) ==
    /\ \A v \in UEs : v # u => /\ phase'[v] = phase[v] /\ up'[v] = up[v]
                               /\ down'[v] = down[v] /\ received'[v] = received[v]
    /\ UNCHANGED <<ueMap, ctxs, amfUeNgapIDCounter, conn, live, registered, sessions>>

LEMMA OwnType ==
    ASSUME TypeInv, NEW u \in UEs, Own(u), UNCHANGED <<faults, drops>>,
           NEW p \in Phases, NEW m \in Uplinks \cup {"none"}, NEW d \in Downlink \cup {Nothing}, NEW n \in Nat,
           phase' = [phase EXCEPT ![u] = p], up' = [up EXCEPT ![u] = m],
           down' = [down EXCEPT ![u] = d], received' = [received EXCEPT ![u] = n]
    PROVE  TypeInv'
  <1>1. phase' \in [UEs -> Phases] /\ up' \in [UEs -> Uplinks \cup {"none"}]
        /\ received' \in [UEs -> Nat]
    BY DEF TypeInv, TypeOK
  <1>2. down' \in [UEs -> Downlink \cup {Nothing}]
    BY DEF TypeInv, TypeOK
  <1> QED
    BY <1>1, <1>2, TypeKept DEF TypeInv, TypeOK, Own

\* A UE that has nothing on its way sends m.
SendsOn(u, p, m, n) ==
    /\ Own(u)
    /\ Unanswered(u)
    /\ phase'[u] = p /\ up'[u] = m /\ down'[u] = Nothing /\ received'[u] = n

LEMMA SendsEffect ==
    ASSUME TypeInv, NEW u \in UEs, NEW p \in Phases, NEW m \in Uplinks, NEW n \in Nat,
           Unanswered(u), Sends(u, p, m), received' = [received EXCEPT ![u] = n],
           UNCHANGED <<ueMap, ctxs, amfUeNgapIDCounter, conn, live, down, registered, sessions,
                       faults, drops>>
    PROVE  TypeInv' /\ SendsOn(u, p, m, n)
  <1>1. /\ phase' = [phase EXCEPT ![u] = p] /\ up' = [up EXCEPT ![u] = m]
        /\ down[u] = Nothing
    BY DEF Sends, Unanswered
  <1>2. down' = [down EXCEPT ![u] = Nothing] /\ Nothing \in Downlink \cup {Nothing}
    BY <1>1 DEF TypeInv, TypeOK
  <1>3. Own(u)
    BY <1>1 DEF TypeInv, TypeOK, Own
  <1>4. SendsOn(u, p, m, n)
    BY <1>1, <1>3 DEF TypeInv, TypeOK, SendsOn
  <1>5. TypeInv'
    BY <1>1, <1>2, <1>3, OwnType
  <1> QED
    BY <1>4, <1>5

LEMMA AttachEffect ==
    ASSUME TypeInv, NEW u \in UEs, Attach(u)
    PROVE  TypeInv' /\ SendsOn(u, "registering", "registration", 0)
  <1>1. /\ Unanswered(u) /\ Sends(u, "registering", "registration")
        /\ received' = [received EXCEPT ![u] = 0]
        /\ UNCHANGED <<ueMap, ctxs, amfUeNgapIDCounter, conn, live, down, registered, sessions,
                       faults, drops>>
    BY DEF Attach, proxyVars, coreVars
  <1>2. "registering" \in Phases /\ "registration" \in Uplinks /\ 0 \in Nat
    BY DEF Phases, Uplinks
  <1> QED
    BY <1>1, <1>2, SendsEffect

LEMMA SameReceived ==
    ASSUME TypeInv, NEW u \in UEs, UNCHANGED received
    PROVE  received' = [received EXCEPT ![u] = received[u]] /\ received[u] \in Nat
  BY DEF TypeInv, TypeOK

LEMMA RepeatEffect ==
    ASSUME TypeInv, NEW u \in UEs, Repeat(u)
    PROVE  /\ TypeInv'
           /\ \/ phase[u] = "authenticating" /\ SendsOn(u, "authenticating", "authResponse", received[u])
              \/ phase[u] = "securing" /\ SendsOn(u, "securing", "smComplete", received[u])
  <1>1. /\ Unanswered(u)
        /\ \/ phase[u] = "authenticating" /\ Sends(u, "authenticating", "authResponse")
           \/ phase[u] = "securing" /\ Sends(u, "securing", "smComplete")
        /\ UNCHANGED <<ueMap, ctxs, amfUeNgapIDCounter, conn, live, down, received, registered, sessions,
                       faults, drops>>
    BY DEF Repeat, proxyVars, coreVars
  <1>2. /\ "authenticating" \in Phases /\ "securing" \in Phases
        /\ "authResponse" \in Uplinks /\ "smComplete" \in Uplinks
    BY DEF Phases, Uplinks
  <1>3. received' = [received EXCEPT ![u] = received[u]] /\ received[u] \in Nat
    BY <1>1, SameReceived
  <1> QED
    BY <1>1, <1>2, <1>3, SendsEffect

LEMMA RequestSessionEffect ==
    ASSUME TypeInv, NEW u \in UEs, RequestSession(u)
    PROVE  /\ TypeInv' /\ SendsOn(u, "requesting", "pduRequest", received[u])
           /\ phase[u] \in {"registered", "requesting", "up"}
  <1>1. /\ Unanswered(u) /\ Sends(u, "requesting", "pduRequest")
        /\ phase[u] \in {"registered", "requesting", "up"}
        /\ UNCHANGED <<ueMap, ctxs, amfUeNgapIDCounter, conn, live, down, received, registered, sessions,
                       faults, drops>>
    BY DEF RequestSession, proxyVars, coreVars
  <1>2. "requesting" \in Phases /\ "pduRequest" \in Uplinks
    BY DEF Phases, Uplinks
  <1>3. received' = [received EXCEPT ![u] = received[u]] /\ received[u] \in Nat
    BY <1>1, SameReceived
  <1> QED
    BY <1>1, <1>2, <1>3, SendsEffect

LEMMA ReceiveEffect ==
    ASSUME TypeInv, NEW u \in UEs, Receive(u)
    PROVE  LET m == down[u] IN
           /\ TypeInv'
           /\ Own(u) /\ m # Nothing /\ down'[u] = Nothing
           /\ \/ /\ m.msg = Awaits(phase[u]) /\ (m.mac \/ m.msg = "authRequest")
                 /\ received'[u] = IF m.mac THEN received[u] + 1 ELSE received[u]
                 /\ \/ m.msg = "authRequest" /\ phase'[u] = "authenticating" /\ up'[u] = "authResponse"
                    \/ m.msg = "smCommand" /\ phase'[u] = "securing" /\ up'[u] = "smComplete"
                    \/ m.msg = "regAccept" /\ phase'[u] = "registered" /\ up'[u] = up[u]
                    \/ m.msg = "pduAccept" /\ phase'[u] = "up" /\ up'[u] = up[u]
              \/ /\ ~(m.msg = Awaits(phase[u]) /\ (m.mac \/ m.msg = "authRequest"))
                 /\ phase'[u] = phase[u] /\ up'[u] = up[u] /\ received'[u] = received[u]
  <1> DEFINE m == down[u]
             n == IF m.mac THEN received[u] + 1 ELSE received[u]
  <1>0. received[u] \in Nat /\ n \in Nat /\ phase[u] \in Phases /\ up[u] \in Uplinks \cup {"none"}
    BY DEF TypeInv, TypeOK
  <1>1. /\ m # Nothing /\ down' = [down EXCEPT ![u] = Nothing]
        /\ UNCHANGED <<ueMap, ctxs, amfUeNgapIDCounter, conn, live, registered, sessions, faults, drops>>
    BY DEF Receive, proxyVars, coreVars
  <1>2. CASE m.msg = Awaits(phase[u]) /\ (m.mac \/ m.msg = "authRequest")
    <2>1. /\ received' = [received EXCEPT ![u] = n]
          /\ \/ m.msg = "authRequest" /\ Sends(u, "authenticating", "authResponse")
             \/ m.msg = "smCommand" /\ Sends(u, "securing", "smComplete")
             \/ /\ m.msg \in {"regAccept", "pduAccept"}
                /\ phase' = [phase EXCEPT ![u] = IF m.msg = "regAccept" THEN "registered" ELSE "up"]
                /\ UNCHANGED up
      BY <1>2 DEF Receive
    <2>2. PICK p \in Phases, q \in Uplinks \cup {"none"} :
             /\ phase' = [phase EXCEPT ![u] = p] /\ up' = [up EXCEPT ![u] = q]
             /\ \/ m.msg = "authRequest" /\ p = "authenticating" /\ q = "authResponse"
                \/ m.msg = "smCommand" /\ p = "securing" /\ q = "smComplete"
                \/ m.msg = "regAccept" /\ p = "registered" /\ q = up[u]
                \/ m.msg = "pduAccept" /\ p = "up" /\ q = up[u]
      <3>1. CASE m.msg = "authRequest" /\ Sends(u, "authenticating", "authResponse")
        BY <3>1 DEF Sends, Phases, Uplinks
      <3>2. CASE m.msg = "smCommand" /\ Sends(u, "securing", "smComplete")
        BY <3>2 DEF Sends, Phases, Uplinks
      <3>3. CASE /\ m.msg = "regAccept"
                 /\ phase' = [phase EXCEPT ![u] = "registered"] /\ UNCHANGED up
        <4>1. up' = [up EXCEPT ![u] = up[u]]
          BY <3>3 DEF TypeInv, TypeOK
        <4> QED
          BY <1>0, <3>3, <4>1 DEF Phases
      <3>4. CASE /\ m.msg = "pduAccept"
                 /\ phase' = [phase EXCEPT ![u] = "up"] /\ UNCHANGED up
        <4>1. up' = [up EXCEPT ![u] = up[u]]
          BY <3>4 DEF TypeInv, TypeOK
        <4> QED
          BY <1>0, <3>4, <4>1 DEF Phases
      <3> QED
        BY <2>1, <3>1, <3>2, <3>3, <3>4
    <2> HIDE DEF n
    <2>3. Own(u)
      BY <1>1, <2>1, <2>2 DEF TypeInv, TypeOK, Own
    <2>4. phase'[u] = p /\ up'[u] = q /\ received'[u] = n /\ down'[u] = Nothing
      BY <1>1, <2>1, <2>2 DEF TypeInv, TypeOK
    <2>5. TypeInv'
      BY <1>0, <1>1, <2>1, <2>2, <2>3, OwnType
    <2> QED
      BY <1>1, <1>2, <2>2, <2>3, <2>4, <2>5 DEF n
  <1>3. CASE ~(m.msg = Awaits(phase[u]) /\ (m.mac \/ m.msg = "authRequest"))
    <2>1. UNCHANGED <<phase, up, received>>
      BY <1>3 DEF Receive
    <2>2. /\ phase' = [phase EXCEPT ![u] = phase[u]] /\ up' = [up EXCEPT ![u] = up[u]]
          /\ received' = [received EXCEPT ![u] = received[u]]
      BY <2>1 DEF TypeInv, TypeOK
    <2>3. Own(u) /\ down'[u] = Nothing
      BY <1>1, <2>1 DEF TypeInv, TypeOK, Own
    <2>4. TypeInv'
      BY <1>0, <1>1, <2>2, <2>3, OwnType
    <2> QED
      BY <1>1, <1>3, <2>1, <2>3, <2>4
  <1> QED
    BY <1>2, <1>3

LEMMA TypeInit == Init => TypeInv
  <1> SUFFICES ASSUME Init PROVE TypeInv
    OBVIOUS
  <1>1. ctxs \in [1 .. 0 -> UEContext]
    BY DEF Init
  <1>2. Reading \in Goroutine /\ Reading.pc = "read" /\ Reading.ue = None /\ Reading.id = 0
    BY ConstantsAssumption DEF Reading, Goroutine
  <1>3. TypeOK
    <2> HIDE DEF Reading, Nothing
    <2>1. amfUeNgapIDCounter = 0 /\ 0 \in 0 .. MaxIDs /\ 0 \in 0 .. MaxFaults /\ 0 \in 0 .. MaxDrops
      BY ConstantsAssumption DEF Init
    <2>2. ueMap \in [RanIDs -> 0 .. 0] /\ conn \in [Conns -> Goroutine]
      BY <1>2 DEF Init
    <2>3. down \in [UEs -> Downlink \cup {Nothing}] /\ live \in [Gnbs -> Conns \cup {None}]
      BY DEF Init
    <2>4. /\ phase \in [UEs -> Phases] /\ up \in [UEs -> Uplinks \cup {"none"}]
          /\ received \in [UEs -> Nat]
      BY DEF Init, Phases
    <2> QED
      BY <1>1, <2>1, <2>2, <2>3, <2>4 DEF Init, TypeOK
  <1>4. GoroutineOK
    BY <1>2 DEF Init, GoroutineOK
  <1> QED
    BY <1>3, <1>4 DEF TypeInv

LEMMA TypeUnchanged ==
    ASSUME TypeInv, UNCHANGED vars
    PROVE  TypeInv'
  BY DEF TypeInv, TypeOK, GoroutineOK, vars

LEMMA TypeStep == TypeInv /\ [Next]_vars => TypeInv'
  <1> SUFFICES ASSUME TypeInv, [Next]_vars PROVE TypeInv'
    OBVIOUS
  <1>1. CASE UNCHANGED vars
    BY <1>1, TypeUnchanged
  <1>2. ASSUME NEW c \in Conns, Handle(c) PROVE TypeInv'
    <2>1. ASSUME NEW u \in UEs, \/ InitialUEMessage(c, u) \/ AuthResponse(c, u)
                                \/ SecurityModeComplete(c, u) \/ ULNASTransport(c, u)
                                \/ \E m \in Uplinks : UplinkRefused(c, u, m)
          PROVE  TypeInv'
      BY <2>1, InitialEffect, AuthResponseEffect, SecurityModeCompleteEffect,
         ULNASTransportEffect, UplinkRefusedEffect
    <2>2. CASE AuthInitiate(c) \/ AuthPending(c) \/ Register(c) \/ PDUSessionCreate(c)
      BY <2>2, AuthInitiateEffect, AuthPendingEffect, RegisterEffect, PDUSessionCreateEffect
    <2> QED
      BY <1>2, <2>1, <2>2 DEF Handle
  <1>3. ASSUME NEW g \in Gnbs, Connects(g) \/ Drop(g) PROVE TypeInv'
    BY <1>3, ConnectEffect, DropEffect DEF Connects
  <1>4. ASSUME NEW u \in UEs, Attach(u) \/ Repeat(u) \/ RequestSession(u) \/ Receive(u)
        PROVE  TypeInv'
    BY <1>4, AttachEffect, RepeatEffect, RequestSessionEffect, ReceiveEffect
  <1> QED
    BY <1>1, <1>2, <1>3, <1>4 DEF Next

(* The proxy's map, its contexts and goroutines, and the UEs' messages     *)
(* always have their types, whatever the RAN-UE-NGAP-IDs: no handler uses  *)
(* a context that does not exist.                                          *)
THEOREM TypeCorrect == Spec => []TypeOK
  <1>1. TypeInv => TypeOK
    BY DEF TypeInv
  <1> QED
    BY <1>1, TypeInit, TypeStep, PTL DEF Spec
-----------------------------------------------------------------------------
(* Frames.                                                                 *)

UEOK(u) == PhaseInv(u) /\ LiveInv(u) /\ StaleInv(u)

\* Nothing of u changes but goroutines that stop working for it.
Quiet(u) ==
    /\ phase'[u] = phase[u] /\ up'[u] = up[u]
    /\ down'[u] = down[u] /\ received'[u] = received[u]
    /\ idOf(u)' = idOf(u) /\ (idOf(u) # 0 => ctxOf(u)' = ctxOf(u))
    /\ live'[GnbOf[u]] = live[GnbOf[u]]
    /\ \A c \in Conns : conn'[c].ue = u => conn'[c] = conn[c]

LEMMA PhaseKept ==
    ASSUME NEW u \in UEs, PhaseInv(u),
           phase'[u] = phase[u], up'[u] = up[u], down'[u] = down[u], received'[u] = received[u],
           idOf(u)' = idOf(u), idOf(u) # 0 => ctxOf(u)' = ctxOf(u)
    PROVE  PhaseInv(u)'
  BY DEF PhaseInv, RegisteringInv, AuthenticatingInv, SecuringInv, InServiceInv, RequestingInv, AtCount

LEMMA QuietKeeps ==
    ASSUME TypeInv, NEW u \in UEs, UEOK(u), Quiet(u)
    PROVE  UEOK(u)'
  <1>1. PhaseInv(u)'
    BY PhaseKept DEF UEOK, Quiet
  <1>2. LiveInv(u)'
    <2> SUFFICES ASSUME NEW c \in Conns, conn'[c].ue = u, live'[GnbOf[u]] = c
                 PROVE  /\ conn'[c].id = idOf(u)' /\ up'[u] = "none" /\ down'[u] = Nothing
                        /\ conn'[c].pc \in {"auth", "pending"} => phase'[u] = "registering" /\ AtCount(u, 0)'
                        /\ conn'[c].pc = "register" => phase'[u] = "securing"
                        /\ conn'[c].pc = "create" => phase'[u] = "requesting"
      BY DEF LiveInv, Serves
    <2>1. conn'[c] = conn[c] /\ conn[c].ue = u /\ live[GnbOf[u]] = c
      BY DEF Quiet
    <2>2. /\ conn[c].id = idOf(u) /\ up[u] = "none" /\ down[u] = Nothing
          /\ conn[c].pc \in {"auth", "pending"} => phase[u] = "registering" /\ AtCount(u, 0)
          /\ conn[c].pc = "register" => phase[u] = "securing"
          /\ conn[c].pc = "create" => phase[u] = "requesting"
      BY <2>1 DEF UEOK, LiveInv, Serves
    <2>3. conn[c].id # 0
      BY <2>1, ConstantsAssumption DEF TypeInv, GoroutineOK
    <2> QED
      BY <2>1, <2>2, <2>3 DEF Quiet, AtCount
  <1>3. StaleInv(u)'
    BY DEF UEOK, StaleInv, Serves, Quiet
  <1> QED
    BY <1>1, <1>2, <1>3 DEF UEOK

\* A step of goroutine c for UE u.
Acts(c, u) ==
    /\ UNCHANGED <<live, phase, received>>
    /\ \A d \in Conns : d # c => conn'[d] = conn[d]
    /\ conn'[c].ue \in {u, None}
    /\ \A v \in UEs : v # u => /\ up'[v] = up[v] /\ down'[v] = down[v]
                               /\ ueMap'[RanIDOf[v]] = ueMap[RanIDOf[v]]
    /\ \A j \in 1 .. amfUeNgapIDCounter :
         /\ ctxs'[j].SUPI = ctxs[j].SUPI
         /\ ctxs[j].SUPI # u => ctxs'[j] = ctxs[j]

\* It leaves the other UEs alone.
LEMMA ActsQuiet ==
    ASSUME TypeInv, OwnInv, NEW c \in Conns, NEW u \in UEs, Acts(c, u), NEW v \in UEs, v # u
    PROVE  Quiet(v)
  <1>1. idOf(v)' = idOf(v)
    BY DEF Acts, idOf
  <1>2. idOf(v) # 0 => ctxOf(v)' = ctxOf(v)
    BY <1>1, IdType DEF Acts, ctxOf, OwnInv
  <1>3. \A d \in Conns : conn'[d].ue = v => conn'[d] = conn[d]
    BY ConstantsAssumption DEF Acts
  <1> QED
    BY <1>1, <1>2, <1>3 DEF Quiet, Acts

LEMMA ActsKeeps ==
    ASSUME TypeInv, ProxyInv, NEW c \in Conns, NEW u \in UEs, Acts(c, u), UEOK(u)'
    PROVE  UEInv'
  <1>1. \A v \in UEs : UEOK(v)
    BY DEF ProxyInv, UEInv, UEOK
  <1>2. \A v \in UEs : v # u => UEOK(v)'
    BY <1>1, ActsQuiet, QuietKeeps DEF ProxyInv
  <1> QED
    BY <1>2 DEF UEInv, UEOK
-----------------------------------------------------------------------------
(* What a step has to show for the parts of the invariant.                 *)

\* A step after which every goroutine works as before, on its UE's current
\* context, or not at all.
LEMMA OwnKept ==
    ASSUME TypeInv, TypeInv', OwnInv, ueMap' = ueMap, amfUeNgapIDCounter' = amfUeNgapIDCounter,
           \A j \in 1 .. amfUeNgapIDCounter : ctxs'[j].SUPI = ctxs[j].SUPI,
           \A c \in Conns : \/ conn'[c].ue = None
                            \/ conn'[c].ue = conn[c].ue /\ conn'[c].id = conn[c].id
                            \/ /\ conn'[c].ue \in UEs /\ conn'[c].id # 0
                               /\ conn'[c].id = ueMap[RanIDOf[conn'[c].ue]]
    PROVE  OwnInv'
  <1>1. ASSUME NEW u \in UEs, idOf(u)' # 0 PROVE (ctxOf(u).SUPI = u)'
    <2>1. idOf(u)' = idOf(u) /\ idOf(u) # 0
      BY <1>1 DEF idOf
    <2>2. idOf(u) \in 1 .. amfUeNgapIDCounter
      BY <2>1, IdType
    <2> QED
      BY <2>1, <2>2 DEF OwnInv, ctxOf
  <1>2. ASSUME NEW c \in Conns, conn'[c].ue # None PROVE ctxs'[conn'[c].id].SUPI = conn'[c].ue
    <2>1. CASE conn'[c].ue = conn[c].ue /\ conn'[c].id = conn[c].id
      <3>1. conn[c].pc # "read"
        BY <1>2, <2>1 DEF TypeInv, GoroutineOK
      <3>2. conn[c].id \in 1 .. amfUeNgapIDCounter /\ ctxs[conn[c].id].SUPI = conn[c].ue
        BY <1>2, <2>1, <3>1, GoroutineType DEF OwnInv, OwnContext
      <3> QED
        BY <2>1, <3>2
    <2>2. CASE /\ conn'[c].ue \in UEs /\ conn'[c].id # 0
               /\ conn'[c].id = ueMap[RanIDOf[conn'[c].ue]]
      <3> DEFINE v == conn'[c].ue
      <3>1. idOf(v) # 0 /\ conn'[c].id = idOf(v)
        BY <2>2 DEF idOf
      <3> HIDE DEF v
      <3>2. idOf(v) \in 1 .. amfUeNgapIDCounter /\ ctxs[idOf(v)].SUPI = v
        BY <2>2, <3>1, IdType DEF OwnInv, ctxOf, v
      <3> QED
        BY <3>1, <3>2 DEF v
    <2> QED
      BY <1>2, <2>1, <2>2
  <1> QED
    BY <1>1, <1>2 DEF OwnInv, OwnContext

LEMMA NotSharedKept ==
    ASSUME NotShared, \A c \in Conns : conn'[c].id \in {0, conn[c].id}
    PROVE  NotShared'
  BY DEF NotShared

LEMMA RegisteredKept ==
    ASSUME TypeInv, TypeInv', RegisteredInv, amfUeNgapIDCounter' = amfUeNgapIDCounter,
           registered \subseteq registered', sessions' \subseteq registered',
           \A j \in 1 .. amfUeNgapIDCounter :
             /\ ctxs'[j].SUPI = ctxs[j].SUPI
             /\ ctxs'[j].State \in Active => ctxs[j].State \in Active \/ ctxs[j].SUPI \in registered',
           \A c \in Conns : conn'[c].pc = "create" =>
             \/ conn'[c] = conn[c]
             \/ conn'[c].id \in 1 .. amfUeNgapIDCounter /\ ctxs[conn'[c].id].SUPI \in registered'
    PROVE  RegisteredInv'
  <1>1. \A i \in 1 .. amfUeNgapIDCounter : ctxs'[i].State \in Active => ctxs'[i].SUPI \in registered'
    BY DEF RegisteredInv
  <1>2. ASSUME NEW c \in Conns, conn'[c].pc = "create" PROVE ctxs'[conn'[c].id].SUPI \in registered'
    <2>1. CASE conn'[c] = conn[c]
      <3>1. conn[c].id \in 1 .. amfUeNgapIDCounter /\ ctxs[conn[c].id].SUPI \in registered
        BY <1>2, <2>1, GoroutineType DEF RegisteredInv
      <3> QED
        BY <2>1, <3>1
    <2>2. CASE conn'[c].id \in 1 .. amfUeNgapIDCounter /\ ctxs[conn'[c].id].SUPI \in registered'
      BY <2>2
    <2> QED
      BY <1>2, <2>1, <2>2
  <1> QED
    BY <1>1, <1>2 DEF RegisteredInv, FlowOrder, Active

\* No goroutine works for u on the current context, or on its association.
Unheld(u) ==
    \A d \in Conns : conn[d].ue = u => live[GnbOf[u]] # d /\ conn[d].id # idOf(u)

LEMMA UnheldOK ==
    ASSUME NEW u \in UEs, Unheld(u)'
    PROVE  LiveInv(u)' /\ StaleInv(u)'
  BY DEF Unheld, LiveInv, StaleInv, Serves

LEMMA BusyUnheld ==
    ASSUME ProxyInv, NEW u \in UEs, \A d \in Conns : live[GnbOf[u]] = d => conn[d].ue # u,
           \/ phase[u] \notin {"off", "registering"}
           \/ up[u] \notin {"none", "registration"}
           \/ down[u] # Nothing
    PROVE  Unheld(u)
  BY DEF Unheld, ProxyInv, UEInv, StaleInv, Serves

\* Once the goroutine that holds the current context returns, none does.
LEMMA HolderReturns ==
    ASSUME TypeInv, ProxyInv, NEW c \in Conns, NEW u \in UEs, conn[c].ue = u, conn[c].id = idOf(u),
           Holds(c, "read", None, 0), UNCHANGED <<ueMap, live>>
    PROVE  LiveInv(u)' /\ StaleInv(u)'
  <1>1. conn[c].id # 0
    BY ConstantsAssumption DEF TypeInv, GoroutineOK
  <1>2. ASSUME NEW d \in Conns, conn'[d].ue = u
        PROVE  live'[GnbOf[u]] # d /\ conn'[d].id # idOf(u)'
    <2>1. d # c /\ conn'[d] = conn[d]
      BY <1>2, ConstantsAssumption DEF Holds
    <2>2. conn[d].id # idOf(u)
      BY <1>1, <2>1 DEF ProxyInv, NotShared
    <2>3. live[GnbOf[u]] # d
      BY <1>2, <2>1, <2>2 DEF ProxyInv, UEInv, LiveInv, Serves
    <2> QED
      BY <2>1, <2>2, <2>3 DEF idOf
  <1>3. Unheld(u)'
    BY <1>2 DEF Unheld
  <1> QED
    BY <1>3, UnheldOK

\* A goroutine of a lost association does no harm to its UE.
LEMMA StaleHarmless ==
    ASSUME TypeInv, ProxyInv, NEW c \in Conns, NEW u \in UEs, conn[c].ue = u, live[GnbOf[u]] # c,
           Touches(conn[c].id), Holds(c, "read", None, 0),
           UNCHANGED <<ueMap, live, phase, received, up, down>>
    PROVE  UEOK(u)'
  <1>1. UEOK(u)
    BY DEF ProxyInv, UEInv, UEOK
  <1>2. CASE conn[c].id # idOf(u)
    <2>1. idOf(u)' = idOf(u)
      BY DEF idOf
    <2>2. idOf(u) # 0 => ctxOf(u)' = ctxOf(u)
      BY <1>2, <2>1, IdType DEF Touches, ctxOf
    <2>3. \A d \in Conns : conn'[d].ue = u => conn'[d] = conn[d]
      BY ConstantsAssumption DEF Holds
    <2>4. Quiet(u)
      BY <2>1, <2>2, <2>3 DEF Quiet
    <2> QED
      BY <1>1, <2>4, QuietKeeps
  <1>3. CASE conn[c].id = idOf(u)
    <2>1. LiveInv(u)' /\ StaleInv(u)'
      BY <1>3, HolderReturns
    <2>2. phase[u] \in {"off", "registering"} /\ up[u] \in {"none", "registration"} /\ down[u] = Nothing
      BY <1>1, <1>3 DEF UEOK, StaleInv, Serves
    <2>3. PhaseInv(u)'
      BY <1>1, <2>2 DEF UEOK, PhaseInv, RegisteringInv
    <2> QED
      BY <2>1, <2>3 DEF UEOK
  <1> QED
    BY <1>2, <1>3

\* A call that fails does no harm either.
LEMMA FailureHarmless ==
    ASSUME TypeInv, ProxyInv, NEW c \in Conns, NEW u \in UEs, Holds(c, "read", None, 0),
           UNCHANGED <<ueMap, ctxs, live, phase, received, up, down>>
    PROVE  UEOK(u)'
  <1>1. \A d \in Conns : conn'[d].ue = u => conn'[d] = conn[d]
    BY ConstantsAssumption DEF Holds
  <1>2. Quiet(u)
    BY <1>1 DEF Quiet, idOf, ctxOf
  <1> QED
    BY <1>2, QuietKeeps DEF ProxyInv, UEInv, UEOK

LEMMA TouchesOwn ==
    ASSUME NEW i, NEW u, Touches(i), ctxs[i].SUPI = u
    PROVE  \A j \in 1 .. amfUeNgapIDCounter :
             /\ ctxs'[j].SUPI = ctxs[j].SUPI
             /\ ctxs[j].SUPI # u => ctxs'[j] = ctxs[j]
  BY DEF Touches
-----------------------------------------------------------------------------
(* The invariant is inductive: the handlers.                               *)

LEMMA UplinkPhase ==
    ASSUME NEW u \in UEs, PhaseInv(u), TypeInv
    PROVE  /\ up[u] = "registration" => phase[u] = "registering"
           /\ up[u] = "authResponse" => phase[u] = "authenticating"
           /\ up[u] = "smComplete" => phase[u] = "securing"
           /\ up[u] = "pduRequest" => phase[u] = "requesting"
  <1>1. phase[u] \in Phases
    BY DEF TypeInv, TypeOK
  <1> QED
    BY <1>1 DEF PhaseInv, RegisteringInv, AuthenticatingInv, SecuringInv, InServiceInv,
                RequestingInv, Phases

\* The goroutine that reads serves nobody.
LEMMA TookIdle ==
    ASSUME NEW c \in Conns, NEW u \in UEs, NEW m, Took(c, u, m)
    PROVE  \A d \in Conns : live[GnbOf[u]] = d => conn[d].ue # u
  BY ConstantsAssumption DEF Took

LEMMA InitialStep ==
    ASSUME TypeInv, ProxyInv, DistinctRanIDs, NEW c \in Conns, NEW u \in UEs, InitialUEMessage(c, u)
    PROVE  ProxyInv'
  <1> DEFINE i == amfUeNgapIDCounter + 1
  <1>1. /\ TypeInv' /\ Took(c, u, "registration") /\ Holds(c, "auth", u, i)
        /\ UNCHANGED <<live, phase, received, down, registered, sessions>>
    BY InitialEffect
  <1>2. /\ amfUeNgapIDCounter' = i /\ i \in 1 .. MaxIDs
        /\ \A j \in 1 .. amfUeNgapIDCounter : ctxs'[j] = ctxs[j]
        /\ ctxs'[i].SUPI = u /\ ctxs'[i].State = "IDLE"
        /\ ctxs'[i].DLSeqNum = 0 /\ ctxs'[i].DLCount = 0
        /\ ueMap'[RanIDOf[u]] = i
        /\ \A r \in RanIDs : r # RanIDOf[u] => ueMap'[r] = ueMap[r]
    BY NewContext
  <1>3. amfUeNgapIDCounter \in Nat /\ i \in Nat /\ i # 0
    BY ConstantsAssumption DEF TypeInv, TypeOK
  <1>4. \A v \in UEs : v # u => ueMap'[RanIDOf[v]] = ueMap[RanIDOf[v]]
    BY <1>2, RanID DEF DistinctRanIDs
  <1>5. Acts(c, u)
    BY <1>1, <1>2, <1>4 DEF Acts, Took, Holds
  <1>6. PhaseInv(u) /\ phase[u] = "registering" /\ up[u] = "registration"
    BY <1>1, UplinkPhase DEF ProxyInv, UEInv, Took
  <1>7. received[u] = 0 /\ down[u] = Nothing
    BY <1>6 DEF PhaseInv, RegisteringInv
  <1>8. PhaseInv(u)'
    BY <1>1, <1>6, <1>7 DEF PhaseInv, RegisteringInv, Took
  <1>9. \A d \in Conns : d # c => conn'[d] = conn[d] /\ conn[d].id <= amfUeNgapIDCounter /\ conn[d].id \in Int
    BY <1>1 DEF Holds, TypeInv, TypeOK, GoroutineOK, Goroutine
  <1>10. \A d \in Conns : d # c => conn'[d].id # i
    BY <1>3, <1>9
  <1>11. idOf(u)' = i /\ ctxOf(u)' = ctxs'[i]
    BY <1>2 DEF idOf, ctxOf
  <1> HIDE DEF i
  <1>12. LiveInv(u)'
    <2>1. AtCount(u, 0)'
      BY <1>2, <1>11, ModFacts DEF AtCount
    <2> QED
      BY <1>1, <1>6, <1>7, <1>11, <2>1 DEF LiveInv, Serves, Took, Holds
  <1>13. StaleInv(u)'
    BY <1>1, <1>10, <1>11 DEF StaleInv, Serves, Took
  <1>14. UEInv'
    BY <1>5, <1>8, <1>12, <1>13, ActsKeeps DEF UEOK
  <1>15. OwnInv'
    <2>1. ASSUME NEW v \in UEs, idOf(v)' # 0 PROVE (ctxOf(v).SUPI = v)'
      <3>1. CASE v = u
        BY <1>2, <1>11, <3>1
      <3>2. CASE v # u
        <4>1. idOf(v)' = idOf(v)
          BY <1>4, <3>2 DEF idOf
        <4>2. idOf(v) \in 1 .. amfUeNgapIDCounter /\ ctxOf(v).SUPI = v
          BY <2>1, <4>1, IdType DEF ProxyInv, OwnInv
        <4> QED
          BY <1>2, <4>1, <4>2 DEF ctxOf
      <3> QED
        BY <3>1, <3>2
    <2>2. ASSUME NEW d \in Conns, conn'[d].ue # None PROVE ctxs'[conn'[d].id].SUPI = conn'[d].ue
      <3>1. CASE d = c
        BY <1>1, <1>2, <3>1 DEF Holds
      <3>2. CASE d # c
        <4>1. conn[d].id \in 1 .. amfUeNgapIDCounter /\ ctxs[conn[d].id].SUPI = conn[d].ue
          BY <1>9, <2>2, <3>2, GoroutineType DEF TypeInv, GoroutineOK, ProxyInv, OwnInv, OwnContext
        <4> QED
          BY <1>2, <1>9, <3>2, <4>1
      <3> QED
        BY <3>1, <3>2
    <2> QED
      BY <2>1, <2>2 DEF OwnInv, OwnContext
  <1>16. NotShared'
    BY <1>1, <1>9, <1>10 DEF NotShared, Holds, ProxyInv
  <1>17. RegisteredInv'
    <2>1. \A j \in 1 .. i : ctxs'[j].State \in Active => ctxs'[j].SUPI \in registered'
      <3>1. \A j \in 1 .. i : j = i \/ j \in 1 .. amfUeNgapIDCounter
        BY <1>3 DEF i
      <3> QED
        BY <1>1, <1>2, <3>1 DEF ProxyInv, RegisteredInv, Active
    <2>2. ASSUME NEW d \in Conns, conn'[d].pc = "create" PROVE ctxs'[conn'[d].id].SUPI \in registered'
      <3>1. d # c /\ conn[d].pc = "create"
        BY <1>1, <2>2 DEF Holds
      <3>2. conn[d].id \in 1 .. amfUeNgapIDCounter /\ ctxs[conn[d].id].SUPI \in registered
        BY <3>1, GoroutineType DEF ProxyInv, RegisteredInv
      <3> QED
        BY <1>1, <1>2, <1>9, <3>1, <3>2
    <2> QED
      BY <1>1, <1>2, <2>1, <2>2 DEF RegisteredInv, FlowOrder, ProxyInv, Active
  <1> QED
    BY <1>14, <1>15, <1>16, <1>17 DEF ProxyInv

\* Steps after which the contexts are as they were.
LEMMA SameContexts ==
    ASSUME TypeInv, TypeInv', ProxyInv,
           UNCHANGED <<ueMap, ctxs, amfUeNgapIDCounter, conn, registered, sessions>>
    PROVE  OwnInv' /\ NotShared' /\ RegisteredInv'
  <1>1. OwnInv'
    BY OwnKept DEF ProxyInv
  <1>2. NotShared'
    BY NotSharedKept DEF ProxyInv
  <1>3. RegisteredInv'
    BY RegisteredKept DEF ProxyInv, RegisteredInv, FlowOrder
  <1> QED
    BY <1>1, <1>2, <1>3

LEMMA AuthInitiateStep ==
    ASSUME TypeInv, ProxyInv, NEW c \in Conns, AuthInitiate(c)
    PROVE  ProxyInv'
  <1> DEFINE u == conn[c].ue
  <1>1. /\ TypeInv' /\ conn[c].pc = "auth"
        /\ Holds(c, "pending", u, conn[c].id) \/ Holds(c, "read", None, 0)
        /\ UNCHANGED <<ueMap, ctxs, amfUeNgapIDCounter, live, phase, received, up, down,
                       registered, sessions>>
    BY AuthInitiateEffect
  <1>2. u \in UEs
    BY <1>1, GoroutineType
  <1>3. PICK w \in UEs : w = u
    BY <1>2
  <1> HIDE DEF u
  <1>4. Acts(c, w)
    BY <1>1, <1>3 DEF Acts, Holds
  <1>5. UEOK(w)
    BY DEF ProxyInv, UEInv, UEOK
  <1>6. PhaseInv(w)'
    BY <1>1, <1>5, PhaseKept DEF UEOK, idOf, ctxOf
  <1>7. idOf(w)' = idOf(w) /\ ctxOf(w)' = ctxOf(w)
    BY <1>1 DEF idOf, ctxOf
  <1>8. \A d \in Conns : conn'[d].ue = w =>
          /\ conn[d].ue = w /\ conn'[d].id = conn[d].id
          /\ conn'[d].pc = conn[d].pc \/ (conn'[d].pc = "pending" /\ conn[d].pc = "auth")
    BY <1>1, <1>3, ConstantsAssumption DEF Holds, u
  <1>9. LiveInv(w)'
    <2>1. AtCount(w, 0)' = AtCount(w, 0)
      BY <1>7 DEF AtCount
    <2> QED
      BY <1>1, <1>5, <1>7, <1>8, <2>1 DEF UEOK, LiveInv, Serves
  <1>10. StaleInv(w)'
    BY <1>1, <1>5, <1>7, <1>8 DEF UEOK, StaleInv, Serves
  <1>11. UEInv'
    BY <1>4, <1>6, <1>9, <1>10, ActsKeeps DEF UEOK
  <1>12. OwnInv'
    BY <1>1, OwnKept DEF ProxyInv, Holds, u
  <1>13. NotShared'
    BY <1>1, NotSharedKept DEF ProxyInv, Holds
  <1>14. RegisteredInv'
    <2>1. \A d \in Conns : conn'[d].pc = "create" => conn'[d] = conn[d]
      BY <1>1 DEF Holds
    <2> QED
      BY <1>1, <2>1, RegisteredKept DEF ProxyInv, RegisteredInv, FlowOrder
  <1> QED
    BY <1>11, <1>12, <1>13, <1>14 DEF ProxyInv

\* The live goroutine's view of its UE.
LEMMA LiveFacts ==
    ASSUME TypeInv, ProxyInv, NEW c \in Conns, NEW u \in UEs, conn[c].ue = u, live[GnbOf[u]] = c
    PROVE  /\ conn[c].id = idOf(u) /\ idOf(u) # 0 /\ up[u] = "none" /\ down[u] = Nothing
           /\ conn[c].pc \in {"auth", "pending"} => phase[u] = "registering" /\ AtCount(u, 0)
           /\ conn[c].pc = "register" => phase[u] = "securing"
           /\ conn[c].pc = "create" => phase[u] = "requesting"
           /\ PhaseInv(u)
  <1>1. conn[c].id # 0
    BY ConstantsAssumption DEF TypeInv, GoroutineOK
  <1> QED
    BY <1>1 DEF ProxyInv, UEInv, LiveInv, Serves

\* The parts of the invariant that are about all contexts, for a goroutine
\* that returns having marked its context.
LEMMA ReturnsKeeps ==
    ASSUME TypeInv, TypeInv', ProxyInv, NEW c \in Conns, Holds(c, "read", None, 0),
           UNCHANGED <<ueMap, amfUeNgapIDCounter>>,
           registered \subseteq registered', sessions' \subseteq registered',
           \/ UNCHANGED ctxs
           \/ /\ conn[c].id \in 1 .. amfUeNgapIDCounter /\ Touches(conn[c].id)
              /\ ctxs'[conn[c].id].State \in Active => ctxs[conn[c].id].SUPI \in registered'
    PROVE  OwnInv' /\ NotShared' /\ RegisteredInv'
  <1>1. \A j \in 1 .. amfUeNgapIDCounter :
          /\ ctxs'[j].SUPI = ctxs[j].SUPI
          /\ ctxs'[j].State \in Active => ctxs[j].State \in Active \/ ctxs[j].SUPI \in registered'
    BY DEF Touches
  <1>2. OwnInv'
    BY <1>1, OwnKept DEF ProxyInv, Holds
  <1>3. NotShared'
    BY NotSharedKept DEF ProxyInv, Holds
  <1>4. \A d \in Conns : conn'[d].pc = "create" => conn'[d] = conn[d]
    BY DEF Holds
  <1>5. RegisteredInv'
    BY <1>1, <1>4, RegisteredKept DEF ProxyInv
  <1> QED
    BY <1>2, <1>3, <1>5

\* And for a goroutine that returns: what is left to show is its UE's part.
LEMMA ReturnsUE ==
    ASSUME TypeInv, ProxyInv, NEW c \in Conns, NEW u \in UEs, conn[c].ue = u,
           Holds(c, "read", None, 0), Touches(conn[c].id), NEW m, Sent(c, u, m),
           UNCHANGED <<ueMap, amfUeNgapIDCounter, live, phase, received, up>>,
           live[GnbOf[u]] = c => PhaseInv(u)'
    PROVE  UEInv'
  <1>1. ctxs[conn[c].id].SUPI = u
    BY ConstantsAssumption DEF ProxyInv, OwnInv, OwnContext
  <1>2. Acts(c, u)
    BY <1>1, TouchesOwn DEF Acts, Holds, Sent
  <1>3. CASE live[GnbOf[u]] = c
    <2>1. conn[c].id = idOf(u)
      BY <1>3, LiveFacts
    <2>2. LiveInv(u)' /\ StaleInv(u)'
      BY <2>1, HolderReturns
    <2> QED
      BY <1>2, <1>3, <2>2, ActsKeeps DEF UEOK
  <1>4. CASE live[GnbOf[u]] # c
    <2>1. UEOK(u)'
      BY <1>4, StaleHarmless DEF Sent
    <2> QED
      BY <1>2, <2>1, ActsKeeps
  <1> QED
    BY <1>3, <1>4

LEMMA FailureUE ==
    ASSUME TypeInv, ProxyInv, NEW c \in Conns, Holds(c, "read", None, 0),
           UNCHANGED <<ueMap, ctxs, live, phase, received, up, down>>
    PROVE  UEInv'
  <1>1. \A u \in UEs : UEOK(u)'
    BY FailureHarmless
  <1> QED
    BY <1>1 DEF UEInv, UEOK

LEMMA AuthPendingStep ==
    ASSUME TypeInv, ProxyInv, NEW c \in Conns, AuthPending(c)
    PROVE  ProxyInv'
  <1>1. /\ TypeInv' /\ conn[c].pc = "pending" /\ Holds(c, "read", None, 0)
        /\ UNCHANGED <<ueMap, amfUeNgapIDCounter, live, phase, received, up, registered, sessions>>
    BY AuthPendingEffect
  <1>2. PICK k : Leaves(conn[c].id, "AUTH_SENT", ctxs[conn[c].id].DLSeqNum, ctxs[conn[c].id].DLCount, k)
    BY AuthPendingEffect
  <1>3. PICK m : /\ Sent(c, conn[c].ue, m)
                 /\ m \in Downlink /\ m.msg = "authRequest" /\ m.mac = FALSE
    BY AuthPendingEffect
  <1>4. PICK u \in UEs : u = conn[c].ue
    BY <1>1, GoroutineType
  <1>5. PICK i \in 1 .. amfUeNgapIDCounter : i = conn[c].id
    BY <1>1, GoroutineType
  <1>6. Touches(conn[c].id) /\ ctxs'[i].State = "AUTH_SENT"
        /\ ctxs'[i].DLSeqNum = ctxs[i].DLSeqNum /\ ctxs'[i].DLCount = ctxs[i].DLCount
    BY <1>2, <1>5 DEF Leaves
  <1>7. ASSUME live[GnbOf[u]] = c PROVE PhaseInv(u)'
    <2>1. /\ i = idOf(u) /\ idOf(u) # 0 /\ up[u] = "none" /\ phase[u] = "registering"
          /\ AtCount(u, 0) /\ PhaseInv(u)
      BY <1>1, <1>4, <1>5, <1>7, LiveFacts
    <2>2. received[u] = 0
      BY <2>1 DEF PhaseInv, RegisteringInv
    <2>3. idOf(u)' = i /\ ctxOf(u)' = ctxs'[i] /\ ctxOf(u) = ctxs[i]
      BY <1>1, <2>1 DEF idOf, ctxOf
    <2>4. AtCount(u, 0)' /\ ctxOf(u)'.State = "AUTH_SENT" /\ idOf(u)' # 0
      BY <1>6, <2>1, <2>3 DEF AtCount
    <2>5. down'[u] = m
      BY <1>3, <1>4, <1>7 DEF Sent
    <2>6. RegisteringInv(u)'
      BY <1>1, <1>3, <2>1, <2>2, <2>4, <2>5 DEF RegisteringInv
    <2> QED
      BY <1>1, <2>1, <2>6 DEF PhaseInv
  <1>8. UEInv'
    BY <1>1, <1>3, <1>4, <1>6, <1>7, ReturnsUE
  <1>9. OwnInv' /\ NotShared' /\ RegisteredInv'
    <2>1. sessions' \subseteq registered' /\ registered \subseteq registered'
      BY <1>1 DEF ProxyInv, RegisteredInv, FlowOrder
    <2> QED
      BY <1>1, <1>5, <1>6, <2>1, ReturnsKeeps DEF Active
  <1> QED
    BY <1>8, <1>9 DEF ProxyInv

LEMMA RegisterStep ==
    ASSUME TypeInv, ProxyInv, NEW c \in Conns, Register(c)
    PROVE  ProxyInv'
  <1>1. /\ TypeInv' /\ conn[c].pc = "register" /\ Holds(c, "read", None, 0)
        /\ registered \subseteq registered'
        /\ UNCHANGED <<ueMap, amfUeNgapIDCounter, live, phase, received, up, sessions>>
    BY RegisterEffect
  <1>2. PICK u \in UEs : u = conn[c].ue
    BY <1>1, GoroutineType
  <1>3. PICK i \in 1 .. amfUeNgapIDCounter : i = conn[c].id
    BY <1>1, GoroutineType
  <1>4. sessions' \subseteq registered'
    BY <1>1 DEF ProxyInv, RegisteredInv, FlowOrder
  <1>5. CASE /\ Completes(c, "REGISTERED", "regAccept")
             /\ registered' = registered \cup {ctxs[conn[c].id].SUPI}
    <2>1. /\ Touches(i) /\ ctxs'[i].State = "REGISTERED"
          /\ ctxs'[i].DLSeqNum = (ctxs[i].DLSeqNum + 1) % SeqMod
          /\ ctxs'[i].DLCount = ctxs[i].DLCount + 1 /\ ctxs'[i].keys = ctxs[i].keys
      BY <1>3, <1>5 DEF Completes, Leaves
    <2>2. PICK m : /\ Sent(c, u, m)
                   /\ m \in Downlink /\ m.msg = "regAccept" /\ m.sqn = ctxs[i].DLSeqNum
                   /\ m.count = ctxs[i].DLCount /\ m.mac = ctxs[i].keys
      BY <1>2, <1>3, <1>5 DEF Completes
    <2>3. ASSUME live[GnbOf[u]] = c PROVE PhaseInv(u)'
      <3>1. /\ i = idOf(u) /\ idOf(u) # 0 /\ up[u] = "none" /\ down[u] = Nothing
            /\ phase[u] = "securing" /\ PhaseInv(u)
        BY <1>1, <1>2, <1>3, <2>3, LiveFacts
      <3>2. received[u] = 1 /\ ctxOf(u).keys = TRUE /\ AtCount(u, 1)
        BY <3>1 DEF PhaseInv, SecuringInv
      <3>3. idOf(u)' = i /\ ctxOf(u)' = ctxs'[i] /\ ctxOf(u) = ctxs[i]
        BY <1>1, <3>1 DEF idOf, ctxOf
      <3>4. ctxs[i].DLSeqNum = 1 /\ ctxs[i].DLCount = 1
        BY <3>2, <3>3, ModFacts DEF AtCount
      <3>5. ctxs'[i].DLSeqNum = 2 % SeqMod /\ ctxs'[i].DLCount = 2
        BY <2>1, <3>4
      <3>6. AtCount(u, 2)' /\ ctxOf(u)'.State = "REGISTERED" /\ ctxOf(u)'.keys = TRUE /\ idOf(u)' # 0
        BY <2>1, <3>1, <3>2, <3>3, <3>5 DEF AtCount
      <3>7. down'[u] = m /\ m # Nothing
        BY <2>2, <2>3, NothingIsNothing DEF Sent
      <3>8. SecuringInv(u)'
        BY <1>1, <2>2, <3>1, <3>2, <3>3, <3>4, <3>6, <3>7 DEF SecuringInv
      <3> QED
        BY <1>1, <3>1, <3>8 DEF PhaseInv
    <2>4. UEInv'
      BY <1>1, <1>2, <1>3, <2>1, <2>2, <2>3, ReturnsUE
    <2>5. OwnInv' /\ NotShared' /\ RegisteredInv'
      BY <1>1, <1>3, <1>4, <1>5, <2>1, ReturnsKeeps
    <2> QED
      BY <2>4, <2>5 DEF ProxyInv
  <1>6. CASE UNCHANGED <<ctxs, down>>
    <2>1. UEInv'
      BY <1>1, <1>6, FailureUE
    <2>2. OwnInv' /\ NotShared' /\ RegisteredInv'
      BY <1>1, <1>4, <1>6, ReturnsKeeps
    <2> QED
      BY <2>1, <2>2 DEF ProxyInv
  <1> QED
    BY <1>5, <1>6, RegisterEffect

LEMMA PDUSessionCreateStep ==
    ASSUME TypeInv, ProxyInv, NEW c \in Conns, PDUSessionCreate(c)
    PROVE  ProxyInv'
  <1>1. /\ TypeInv' /\ conn[c].pc = "create" /\ Holds(c, "read", None, 0)
        /\ sessions' \in {sessions, sessions \cup {ctxs[conn[c].id].SUPI}}
        /\ UNCHANGED <<ueMap, amfUeNgapIDCounter, live, phase, received, up, registered>>
    BY PDUSessionCreateEffect
  <1>2. PICK u \in UEs : u = conn[c].ue
    BY <1>1, GoroutineType
  <1>3. PICK i \in 1 .. amfUeNgapIDCounter : i = conn[c].id
    BY <1>1, GoroutineType
  <1>4. ctxs[i].SUPI \in registered /\ sessions' \subseteq registered'
    BY <1>1, <1>3 DEF ProxyInv, RegisteredInv, FlowOrder
  <1>5. CASE Completes(c, "PDU_SESSION_ACTIVE", "pduAccept")
    <2>1. /\ Touches(i) /\ ctxs'[i].State = "PDU_SESSION_ACTIVE"
          /\ ctxs'[i].DLSeqNum = (ctxs[i].DLSeqNum + 1) % SeqMod
          /\ ctxs'[i].DLCount = ctxs[i].DLCount + 1 /\ ctxs'[i].keys = ctxs[i].keys
      BY <1>3, <1>5 DEF Completes, Leaves
    <2>2. PICK m : /\ Sent(c, u, m)
                   /\ m \in Downlink /\ m.msg = "pduAccept" /\ m.sqn = ctxs[i].DLSeqNum
                   /\ m.count = ctxs[i].DLCount /\ m.mac = ctxs[i].keys
      BY <1>2, <1>3, <1>5 DEF Completes
    <2>3. ASSUME live[GnbOf[u]] = c PROVE PhaseInv(u)'
      <3>1. /\ i = idOf(u) /\ idOf(u) # 0 /\ up[u] = "none" /\ down[u] = Nothing
            /\ phase[u] = "requesting" /\ PhaseInv(u)
        BY <1>1, <1>2, <1>3, <2>3, LiveFacts
      <3>2. ctxOf(u).keys = TRUE /\ AtCount(u, received[u])
        BY <3>1 DEF PhaseInv, RequestingInv
      <3>3. idOf(u)' = i /\ ctxOf(u)' = ctxs'[i] /\ ctxOf(u) = ctxs[i]
        BY <1>1, <3>1 DEF idOf, ctxOf
      <3>4. PICK n \in Nat : n = received[u]
        BY DEF TypeInv, TypeOK
      <3>5. ctxs[i].DLSeqNum = n % SeqMod /\ ctxs[i].DLCount = n
        BY <3>2, <3>3, <3>4 DEF AtCount
      <3>6. ctxs'[i].DLSeqNum = (n + 1) % SeqMod /\ ctxs'[i].DLCount = n + 1
        BY <2>1, <3>5, ModNext
      <3>7. /\ AtCount(u, received[u] + 1)' /\ ctxOf(u)'.State = "PDU_SESSION_ACTIVE"
            /\ ctxOf(u)'.keys = TRUE /\ idOf(u)' # 0
        BY <1>1, <2>1, <3>1, <3>2, <3>3, <3>4, <3>6 DEF AtCount
      <3>8. down'[u] = m /\ m # Nothing
        BY <2>2, <2>3, NothingIsNothing DEF Sent
      <3>9. m.sqn = received'[u] % SeqMod /\ m.count = received'[u] /\ m.mac = TRUE
        BY <1>1, <2>2, <3>2, <3>3, <3>4, <3>5
      <3>10. RequestingInv(u)'
        BY <1>1, <2>2, <3>1, <3>7, <3>8, <3>9 DEF RequestingInv
      <3> QED
        BY <1>1, <3>1, <3>10 DEF PhaseInv
    <2>4. UEInv'
      BY <1>1, <1>2, <1>3, <2>1, <2>2, <2>3, ReturnsUE
    <2>5. OwnInv' /\ NotShared' /\ RegisteredInv'
      BY <1>1, <1>3, <1>4, <2>1, ReturnsKeeps
    <2> QED
      BY <2>4, <2>5 DEF ProxyInv
  <1>6. CASE UNCHANGED <<ctxs, down>>
    <2>1. UEInv'
      BY <1>1, <1>6, FailureUE
    <2>2. OwnInv' /\ NotShared' /\ RegisteredInv'
      BY <1>1, <1>4, <1>6, ReturnsKeeps
    <2> QED
      BY <2>1, <2>2 DEF ProxyInv
  <1> QED
    BY <1>5, <1>6, PDUSessionCreateEffect

LEMMA UplinkRefusedStep ==
    ASSUME TypeInv, ProxyInv, NEW c \in Conns, NEW u \in UEs, NEW m \in Uplinks, UplinkRefused(c, u, m)
    PROVE  ProxyInv'
  <1>1. /\ TypeInv' /\ Took(c, u, m)
        /\ UNCHANGED <<ueMap, ctxs, amfUeNgapIDCounter, conn, live, phase, received, down,
                       registered, sessions>>
    BY UplinkRefusedEffect
  <1>2. Acts(c, u)
    BY <1>1 DEF Acts, Took
  <1>3. UEOK(u)
    BY DEF ProxyInv, UEInv, UEOK
  <1>4. up'[u] = "none" /\ idOf(u)' = idOf(u) /\ ctxOf(u)' = ctxOf(u)
    BY <1>1 DEF Took, idOf, ctxOf
  <1>5. \A n : AtCount(u, n)' = AtCount(u, n)
    BY <1>4 DEF AtCount
  <1>6. PhaseInv(u)'
    BY <1>1, <1>3, <1>4 DEF UEOK, PhaseInv, RegisteringInv, AuthenticatingInv, SecuringInv,
                            InServiceInv, RequestingInv, AtCount
  <1>7. LiveInv(u)'
    BY <1>1, <1>3, <1>4 DEF UEOK, LiveInv, Serves, AtCount
  <1>8. StaleInv(u)'
    BY <1>1, <1>3, <1>4 DEF UEOK, StaleInv, Serves
  <1>9. UEInv'
    BY <1>2, <1>6, <1>7, <1>8, ActsKeeps DEF UEOK
  <1> QED
    BY <1>1, <1>9, SameContexts DEF ProxyInv

LEMMA AuthResponseStep ==
    ASSUME TypeInv, ProxyInv, NEW c \in Conns, NEW u \in UEs, AuthResponse(c, u)
    PROVE  ProxyInv'
  <1>1. /\ TypeInv' /\ Took(c, u, "authResponse") /\ ctxOf(u).State = "AUTH_SENT"
        /\ UNCHANGED <<ueMap, amfUeNgapIDCounter, conn, live, phase, received, registered, sessions>>
    BY AuthResponseEffect
  <1>2. PICK i \in 1 .. amfUeNgapIDCounter : i = idOf(u)
    BY AuthResponseEffect
  <1>3. /\ Touches(i) /\ ctxs'[i].State = "SMC_SENT" /\ ctxs'[i].DLSeqNum = 1
        /\ ctxs'[i].DLCount = ctxs[i].DLCount + 1 /\ ctxs'[i].keys = ctxs[i].keys
    BY <1>2, AuthResponseEffect DEF Leaves, ctxOf
  <1>4. PICK m : /\ Sent(c, u, m)
                 /\ m \in Downlink /\ m.msg = "smCommand" /\ m.sqn = 0
                 /\ m.count = ctxOf(u).DLCount /\ m.mac = ctxOf(u).keys
    BY AuthResponseEffect
  <1>5. i # 0 /\ ctxs[i].SUPI = u
    BY <1>2 DEF ProxyInv, OwnInv, ctxOf
  <1>6. Acts(c, u)
    BY <1>1, <1>3, <1>4, <1>5, TouchesOwn, ConstantsAssumption DEF Acts, Took, Sent
  <1>7. /\ PhaseInv(u) /\ phase[u] = "authenticating" /\ up[u] = "authResponse"
        /\ up'[u] = "none" /\ live[GnbOf[u]] = c
    BY <1>1, UplinkPhase DEF ProxyInv, UEInv, Took
  <1>8. received[u] = 0 /\ AtCount(u, 0) /\ down[u] = Nothing
    BY <1>1, <1>7 DEF PhaseInv, AuthenticatingInv
  <1>9. idOf(u)' = i /\ ctxOf(u)' = ctxs'[i] /\ ctxOf(u) = ctxs[i]
    BY <1>1, <1>2 DEF idOf, ctxOf
  <1>10. AtCount(u, 1)' /\ ctxOf(u)'.State = "SMC_SENT" /\ ctxOf(u)'.keys = ctxOf(u).keys /\ idOf(u)' # 0
    BY <1>3, <1>5, <1>8, <1>9, ModFacts DEF AtCount
  <1>11. down'[u] = m /\ m.count = 0
    BY <1>4, <1>7, <1>8 DEF Sent, AtCount
  <1>12. AuthenticatingInv(u)'
    BY <1>1, <1>4, <1>7, <1>8, <1>10, <1>11 DEF AuthenticatingInv
  <1>13. PhaseInv(u)'
    BY <1>1, <1>7, <1>12 DEF PhaseInv
  <1>14. Unheld(u)
    BY <1>1, <1>7, TookIdle, BusyUnheld
  <1>15. LiveInv(u)' /\ StaleInv(u)'
    <2>1. Unheld(u)'
      BY <1>1, <1>2, <1>9, <1>14 DEF Unheld
    <2> QED
      BY <2>1, UnheldOK
  <1>16. UEInv'
    BY <1>6, <1>13, <1>15, ActsKeeps DEF UEOK
  <1>17. \A j \in 1 .. amfUeNgapIDCounter :
           /\ ctxs'[j].SUPI = ctxs[j].SUPI
           /\ ctxs'[j].State \in Active => ctxs[j].State \in Active
    BY <1>3 DEF Touches, Active
  <1>18. OwnInv' /\ NotShared'
    BY <1>1, <1>17, OwnKept, NotSharedKept DEF ProxyInv
  <1>19. RegisteredInv'
    BY <1>1, <1>17, RegisteredKept DEF ProxyInv, RegisteredInv, FlowOrder
  <1> QED
    BY <1>16, <1>18, <1>19 DEF ProxyInv

\* A handler that calls a backend for u takes u's current context, which no
\* other goroutine holds.
LEMMA TakesContext ==
    ASSUME TypeInv, TypeInv', ProxyInv, NEW c \in Conns, NEW u \in UEs, NEW m, NEW p, Took(c, u, m),
           Holds(c, p, u, idOf(u)), idOf(u) # 0, Unheld(u),
           UNCHANGED <<ueMap, ctxs, amfUeNgapIDCounter, live, phase, received, down>>
    PROVE  /\ Acts(c, u) /\ OwnInv' /\ NotShared' /\ StaleInv(u)'
           /\ \A d \in Conns : conn'[d].ue = u /\ live'[GnbOf[u]] = d => d = c
  <1>1. Acts(c, u)
    BY DEF Acts, Took, Holds
  <1>2. OwnInv'
    BY OwnKept DEF ProxyInv, Holds, idOf
  <1>3. \A d \in Conns : d # c => conn'[d] = conn[d] /\ conn[d].id # idOf(u)
    <2> SUFFICES ASSUME NEW d \in Conns, d # c, conn[d].id = idOf(u) PROVE FALSE
      BY DEF Holds
    <2>1. conn[d].pc # "read" /\ conn[d].ue # None
      BY DEF TypeInv, GoroutineOK
    <2>2. conn[d].ue = u
      BY <2>1 DEF ProxyInv, OwnInv, OwnContext, ctxOf
    <2> QED
      BY <2>2 DEF Unheld
  <1>4. NotShared'
    BY <1>3 DEF NotShared, ProxyInv, Holds
  <1>5. live[GnbOf[u]] = c /\ idOf(u)' = idOf(u)
    BY DEF Took, idOf
  <1>6. StaleInv(u)'
    BY <1>3, <1>5 DEF StaleInv, Serves
  <1> QED
    BY <1>1, <1>2, <1>4, <1>5, <1>6

LEMMA SecurityModeCompleteStep ==
    ASSUME TypeInv, ProxyInv, NEW c \in Conns, NEW u \in UEs, SecurityModeComplete(c, u)
    PROVE  ProxyInv'
  <1>1. /\ TypeInv' /\ Took(c, u, "smComplete") /\ Holds(c, "register", u, idOf(u))
        /\ idOf(u) \in 1 .. amfUeNgapIDCounter /\ idOf(u) # 0
        /\ UNCHANGED <<ueMap, ctxs, amfUeNgapIDCounter, live, phase, received, down,
                       registered, sessions>>
    BY SecurityModeCompleteEffect
  <1>2. /\ PhaseInv(u) /\ phase[u] = "securing" /\ up[u] = "smComplete"
        /\ up'[u] = "none" /\ live[GnbOf[u]] = c
    BY <1>1, UplinkPhase DEF ProxyInv, UEInv, Took
  <1>3. Unheld(u)
    BY <1>1, <1>2, TookIdle, BusyUnheld
  <1>4. /\ Acts(c, u) /\ OwnInv' /\ NotShared' /\ StaleInv(u)'
        /\ \A d \in Conns : conn'[d].ue = u /\ live'[GnbOf[u]] = d => d = c
    BY <1>1, <1>3, TakesContext
  <1>5. idOf(u)' = idOf(u) /\ ctxOf(u)' = ctxOf(u)
    BY <1>1 DEF idOf, ctxOf
  <1>6. SecuringInv(u) /\ down[u] = Nothing
    BY <1>2 DEF PhaseInv, SecuringInv
  <1>7. PhaseInv(u)'
    BY <1>1, <1>2, <1>5, <1>6 DEF PhaseInv, SecuringInv, AtCount
  <1>8. LiveInv(u)'
    BY <1>1, <1>2, <1>4, <1>5, <1>6 DEF LiveInv, Serves, Holds
  <1>9. UEInv'
    BY <1>4, <1>7, <1>8, ActsKeeps DEF UEOK
  <1>10. RegisteredInv'
    <2>1. \A d \in Conns : conn'[d].pc = "create" => conn'[d] = conn[d]
      BY <1>1 DEF Holds
    <2> QED
      BY <1>1, <2>1, RegisteredKept DEF ProxyInv, RegisteredInv, FlowOrder
  <1> QED
    BY <1>4, <1>9, <1>10 DEF ProxyInv

LEMMA ULNASTransportStep ==
    ASSUME TypeInv, ProxyInv, NEW c \in Conns, NEW u \in UEs, ULNASTransport(c, u)
    PROVE  ProxyInv'
  <1>1. /\ TypeInv' /\ Took(c, u, "pduRequest") /\ Holds(c, "create", u, idOf(u))
        /\ idOf(u) \in 1 .. amfUeNgapIDCounter /\ idOf(u) # 0
        /\ UNCHANGED <<ueMap, ctxs, amfUeNgapIDCounter, live, phase, received, down,
                       registered, sessions>>
    BY ULNASTransportEffect
  <1>2. /\ PhaseInv(u) /\ phase[u] = "requesting" /\ up[u] = "pduRequest"
        /\ up'[u] = "none" /\ live[GnbOf[u]] = c
    BY <1>1, UplinkPhase DEF ProxyInv, UEInv, Took
  <1>3. Unheld(u)
    BY <1>1, <1>2, TookIdle, BusyUnheld
  <1>4. /\ Acts(c, u) /\ OwnInv' /\ NotShared' /\ StaleInv(u)'
        /\ \A d \in Conns : conn'[d].ue = u /\ live'[GnbOf[u]] = d => d = c
    BY <1>1, <1>3, TakesContext
  <1>5. idOf(u)' = idOf(u) /\ ctxOf(u)' = ctxOf(u)
    BY <1>1 DEF idOf, ctxOf
  <1>6. RequestingInv(u) /\ down[u] = Nothing /\ ctxOf(u).State \in Active
    BY <1>2 DEF PhaseInv, RequestingInv
  <1>7. PhaseInv(u)'
    BY <1>1, <1>2, <1>5, <1>6 DEF PhaseInv, RequestingInv, AtCount
  <1>8. LiveInv(u)'
    BY <1>1, <1>2, <1>4, <1>5, <1>6 DEF LiveInv, Serves, Holds
  <1>9. UEInv'
    BY <1>4, <1>7, <1>8, ActsKeeps DEF UEOK
  <1>10. RegisteredInv'
    <2>1. ctxs[idOf(u)].SUPI \in registered
      BY <1>1, <1>6 DEF ProxyInv, RegisteredInv, ctxOf
    <2>2. \A d \in Conns : conn'[d].pc = "create" => conn'[d] = conn[d] \/ conn'[d].id = idOf(u)
      BY <1>1 DEF Holds
    <2> QED
      BY <1>1, <2>1, <2>2, RegisteredKept DEF ProxyInv, RegisteredInv, FlowOrder
  <1> QED
    BY <1>4, <1>9, <1>10 DEF ProxyInv
-----------------------------------------------------------------------------
(* The invariant is inductive: gNBs and UEs.                               *)

LEMMA ConnectStep ==
    ASSUME TypeInv, ProxyInv, NEW g \in Gnbs, NEW c \in Conns, Connect(g, c)
    PROVE  ProxyInv'
  <1>1. /\ TypeInv' /\ conn[c].ue = None /\ live[g] = None /\ live'[g] = c
        /\ \A h \in Gnbs : h # g => live'[h] = live[h]
        /\ UNCHANGED <<ueMap, ctxs, amfUeNgapIDCounter, conn, phase, received, up, down,
                       registered, sessions>>
    BY ConnectEffect
  <1>2. ASSUME NEW u \in UEs PROVE UEOK(u)'
    <2>1. UEOK(u)
      BY DEF ProxyInv, UEInv, UEOK
    <2>2. idOf(u)' = idOf(u) /\ ctxOf(u)' = ctxOf(u)
      BY <1>1 DEF idOf, ctxOf
    <2>3. CASE GnbOf[u] # g
      <3>1. live'[GnbOf[u]] = live[GnbOf[u]]
        BY <1>1, <2>3, ConstantsAssumption
      <3>2. Quiet(u)
        BY <1>1, <2>2, <3>1 DEF Quiet
      <3> QED
        BY <2>1, <3>2, QuietKeeps
    <2>4. CASE GnbOf[u] = g
      <3>1. PhaseInv(u)'
        BY <1>1, <2>1, <2>2, PhaseKept DEF UEOK
      <3>2. LiveInv(u)'
        BY <1>1, <2>4, ConstantsAssumption DEF LiveInv, Serves
      <3>3. StaleInv(u)'
        BY <1>1, <2>1, <2>2, <2>4, ConstantsAssumption DEF UEOK, StaleInv, Serves
      <3> QED
        BY <3>1, <3>2, <3>3 DEF UEOK
    <2> QED
      BY <2>3, <2>4
  <1>3. UEInv'
    BY <1>2 DEF UEInv, UEOK
  <1> QED
    BY <1>1, <1>3, SameContexts DEF ProxyInv

LEMMA DropStep ==
    ASSUME TypeInv, ProxyInv, NEW g \in Gnbs, Drop(g)
    PROVE  ProxyInv'
  <1>1. /\ TypeInv' /\ live'[g] = None /\ \A h \in Gnbs : h # g => live'[h] = live[h]
        /\ \A u \in UEs :
             /\ GnbOf[u] = g => phase'[u] = "off" /\ up'[u] = "none" /\ down'[u] = Nothing
             /\ GnbOf[u] # g => phase'[u] = phase[u] /\ up'[u] = up[u] /\ down'[u] = down[u]
        /\ UNCHANGED <<ueMap, ctxs, amfUeNgapIDCounter, conn, received, registered, sessions>>
    BY DropEffect
  <1>2. ASSUME NEW u \in UEs PROVE UEOK(u)'
    <2>1. CASE GnbOf[u] # g
      <3>1. live'[GnbOf[u]] = live[GnbOf[u]]
        BY <1>1, <2>1, ConstantsAssumption
      <3>2. idOf(u)' = idOf(u) /\ ctxOf(u)' = ctxOf(u)
        BY <1>1 DEF idOf, ctxOf
      <3>3. Quiet(u)
        BY <1>1, <2>1, <3>1, <3>2 DEF Quiet
      <3> QED
        BY <3>3, QuietKeeps DEF ProxyInv, UEInv, UEOK
    <2>2. CASE GnbOf[u] = g
      <3>1. phase'[u] = "off" /\ up'[u] = "none" /\ down'[u] = Nothing /\ live'[GnbOf[u]] = None
        BY <1>1, <2>2
      <3>2. PhaseInv(u)'
        BY <3>1 DEF PhaseInv
      <3>3. LiveInv(u)'
        BY <3>1, ConstantsAssumption DEF LiveInv
      <3>4. StaleInv(u)'
        BY <3>1 DEF StaleInv
      <3> QED
        BY <3>2, <3>3, <3>4 DEF UEOK
    <2> QED
      BY <2>1, <2>2
  <1>3. UEInv'
    BY <1>2 DEF UEInv, UEOK
  <1> QED
    BY <1>1, <1>3, SameContexts DEF ProxyInv

\* A step of u leaves the other UEs alone.
LEMMA OwnKeeps ==
    ASSUME TypeInv, TypeInv', ProxyInv, NEW u \in UEs, Own(u), UEOK(u)'
    PROVE  ProxyInv'
  <1>1. ASSUME NEW v \in UEs, v # u PROVE UEOK(v)'
    <2>1. idOf(v)' = idOf(v) /\ ctxOf(v)' = ctxOf(v)
      BY DEF Own, idOf, ctxOf
    <2>2. Quiet(v)
      BY <1>1, <2>1 DEF Quiet, Own
    <2> QED
      BY <2>2, QuietKeeps DEF ProxyInv, UEInv, UEOK
  <1>2. UEInv'
    BY <1>1 DEF UEInv, UEOK
  <1> QED
    BY <1>2, SameContexts DEF ProxyInv, Own

LEMMA AttachStep ==
    ASSUME TypeInv, ProxyInv, NEW u \in UEs, Attach(u)
    PROVE  ProxyInv'
  <1>1. /\ TypeInv' /\ Own(u) /\ Unanswered(u) /\ phase'[u] = "registering"
        /\ up'[u] = "registration" /\ down'[u] = Nothing /\ received'[u] = 0
    BY AttachEffect DEF SendsOn
  <1>2. PhaseInv(u)'
    BY <1>1 DEF PhaseInv, RegisteringInv
  <1>3. LiveInv(u)'
    BY <1>1 DEF LiveInv, Serves, Unanswered, Own
  <1>4. StaleInv(u)'
    BY <1>1 DEF StaleInv
  <1> QED
    BY <1>1, <1>2, <1>3, <1>4, OwnKeeps DEF UEOK

\* A UE that is past its registration and has nothing on its way holds its
\* context alone, and does so when it sends something.
LEMMA SendsAlone ==
    ASSUME ProxyInv, NEW u \in UEs, Own(u), Unanswered(u), phase[u] \notin {"off", "registering"}
    PROVE  LiveInv(u)' /\ StaleInv(u)' /\ idOf(u)' = idOf(u) /\ ctxOf(u)' = ctxOf(u)
  <1>1. Unheld(u)
    BY BusyUnheld DEF Unanswered
  <1>2. idOf(u)' = idOf(u) /\ ctxOf(u)' = ctxOf(u)
    BY DEF Own, idOf, ctxOf
  <1>3. Unheld(u)'
    BY <1>1, <1>2 DEF Unheld, Own
  <1> QED
    BY <1>2, <1>3, UnheldOK

LEMMA RepeatStep ==
    ASSUME TypeInv, ProxyInv, NEW u \in UEs, Repeat(u)
    PROVE  ProxyInv'
  <1>1. /\ TypeInv' /\ Own(u) /\ Unanswered(u) /\ phase'[u] = phase[u]
        /\ down'[u] = Nothing /\ received'[u] = received[u]
        /\ \/ phase[u] = "authenticating" /\ up'[u] = "authResponse"
           \/ phase[u] = "securing" /\ up'[u] = "smComplete"
    BY RepeatEffect DEF SendsOn
  <1>2. LiveInv(u)' /\ StaleInv(u)' /\ idOf(u)' = idOf(u) /\ ctxOf(u)' = ctxOf(u)
    BY <1>1, SendsAlone
  <1>3. PhaseInv(u) /\ down[u] = Nothing
    BY <1>1 DEF ProxyInv, UEInv, Unanswered
  <1>4. PhaseInv(u)'
    BY <1>1, <1>2, <1>3 DEF PhaseInv, AuthenticatingInv, SecuringInv, AtCount
  <1> QED
    BY <1>1, <1>2, <1>4, OwnKeeps DEF UEOK

LEMMA RequestSessionStep ==
    ASSUME TypeInv, ProxyInv, NEW u \in UEs, RequestSession(u)
    PROVE  ProxyInv'
  <1>1. /\ TypeInv' /\ Own(u) /\ Unanswered(u) /\ phase'[u] = "requesting"
        /\ up'[u] = "pduRequest" /\ down'[u] = Nothing /\ received'[u] = received[u]
        /\ phase[u] \in {"registered", "requesting", "up"}
    BY RequestSessionEffect DEF SendsOn
  <1>2. LiveInv(u)' /\ StaleInv(u)' /\ idOf(u)' = idOf(u) /\ ctxOf(u)' = ctxOf(u)
    BY <1>1, SendsAlone
  <1>3. PhaseInv(u) /\ down[u] = Nothing
    BY <1>1 DEF ProxyInv, UEInv, Unanswered
  <1>4. PhaseInv(u)'
    BY <1>1, <1>2, <1>3 DEF PhaseInv, InServiceInv, RequestingInv, AtCount
  <1> QED
    BY <1>1, <1>2, <1>4, OwnKeeps DEF UEOK

LEMMA ReceiveStep ==
    ASSUME TypeInv, ProxyInv, NEW u \in UEs, Receive(u)
    PROVE  ProxyInv'
  <1> DEFINE m == down[u]
  <1>1. /\ TypeInv' /\ Own(u) /\ m # Nothing /\ down'[u] = Nothing
        /\ \/ /\ m.msg = Awaits(phase[u]) /\ (m.mac \/ m.msg = "authRequest")
              /\ received'[u] = IF m.mac THEN received[u] + 1 ELSE received[u]
              /\ \/ m.msg = "authRequest" /\ phase'[u] = "authenticating" /\ up'[u] = "authResponse"
                 \/ m.msg = "smCommand" /\ phase'[u] = "securing" /\ up'[u] = "smComplete"
                 \/ m.msg = "regAccept" /\ phase'[u] = "registered" /\ up'[u] = up[u]
                 \/ m.msg = "pduAccept" /\ phase'[u] = "up" /\ up'[u] = up[u]
           \/ /\ ~(m.msg = Awaits(phase[u]) /\ (m.mac \/ m.msg = "authRequest"))
              /\ phase'[u] = phase[u] /\ up'[u] = up[u] /\ received'[u] = received[u]
    BY ReceiveEffect
  <1>2. UEOK(u)
    BY DEF ProxyInv, UEInv, UEOK
  <1>3. idOf(u)' = idOf(u) /\ ctxOf(u)' = ctxOf(u)
    BY <1>1 DEF Own, idOf, ctxOf
  <1>4. LiveInv(u)' /\ StaleInv(u)'
    <2>1. \A d \in Conns : live[GnbOf[u]] = d => conn[d].ue # u
      BY <1>1, <1>2 DEF UEOK, LiveInv, Serves
    <2>2. Unheld(u)
      BY <1>1, <2>1, BusyUnheld
    <2>3. Unheld(u)'
      BY <1>1, <1>3, <2>2 DEF Unheld, Own
    <2> QED
      BY <2>3, UnheldOK
  <1>5. phase[u] \in Phases /\ received[u] \in Nat /\ (m.mac \in BOOLEAN)
    BY <1>1 DEF TypeInv, TypeOK, Downlink
  <1>6. ASSUME phase[u] = "registering" PROVE PhaseInv(u)'
    <2>1. /\ m.msg = "authRequest" /\ m.mac = FALSE /\ received[u] = 0
          /\ idOf(u) # 0 /\ ctxOf(u).State = "AUTH_SENT" /\ AtCount(u, 0)
      BY <1>1, <1>2, <1>6 DEF UEOK, PhaseInv, RegisteringInv
    <2>2. Awaits(phase[u]) = "authRequest"
      BY <1>6 DEF Awaits
    <2>3. phase'[u] = "authenticating" /\ up'[u] = "authResponse" /\ received'[u] = 0
      BY <1>1, <2>1, <2>2
    <2> QED
      BY <1>1, <1>3, <2>1, <2>3 DEF PhaseInv, AuthenticatingInv, AtCount
  <1>7. ASSUME phase[u] = "authenticating" PROVE PhaseInv(u)'
    <2>1. /\ m.msg = "smCommand" /\ up[u] = "none" /\ received[u] = 0 /\ m.mac = ctxOf(u).keys
          /\ idOf(u) # 0 /\ ctxOf(u).State = "SMC_SENT" /\ AtCount(u, 1)
      BY <1>1, <1>2, <1>7 DEF UEOK, PhaseInv, AuthenticatingInv
    <2>2. Awaits(phase[u]) = "smCommand"
      BY <1>7 DEF Awaits
    <2>3. CASE m.mac = TRUE
      <3>1. phase'[u] = "securing" /\ up'[u] = "smComplete" /\ received'[u] = 1
        BY <1>1, <2>1, <2>2, <2>3
      <3> QED
        BY <1>1, <1>3, <2>1, <2>3, <3>1 DEF PhaseInv, SecuringInv, AtCount
    <2>4. CASE m.mac = FALSE
      <3>1. phase'[u] = "authenticating" /\ up'[u] = "none" /\ received'[u] = 0
        BY <1>1, <1>7, <2>1, <2>2, <2>4
      <3> QED
        BY <1>1, <1>3, <2>1, <3>1 DEF PhaseInv, AuthenticatingInv, AtCount
    <2> QED
      BY <1>5, <2>3, <2>4
  <1>8. ASSUME phase[u] = "securing" PROVE PhaseInv(u)'
    <2>1. /\ m.msg = "regAccept" /\ m.mac = TRUE /\ up[u] = "none" /\ received[u] = 1
          /\ idOf(u) # 0 /\ ctxOf(u).keys = TRUE /\ ctxOf(u).State = "REGISTERED" /\ AtCount(u, 2)
      BY <1>1, <1>2, <1>8 DEF UEOK, PhaseInv, SecuringInv
    <2>2. Awaits(phase[u]) = "regAccept"
      BY <1>8 DEF Awaits
    <2>3. phase'[u] = "registered" /\ up'[u] = "none" /\ received'[u] = 2
      BY <1>1, <2>1, <2>2
    <2> QED
      BY <1>1, <1>3, <2>1, <2>3 DEF PhaseInv, InServiceInv, AtCount, Active
  <1>9. ASSUME phase[u] = "requesting" PROVE PhaseInv(u)'
    <2>1. /\ m.msg = "pduAccept" /\ m.mac = TRUE /\ up[u] = "none"
          /\ idOf(u) # 0 /\ ctxOf(u).keys = TRUE /\ ctxOf(u).State = "PDU_SESSION_ACTIVE"
          /\ AtCount(u, received[u] + 1)
      BY <1>1, <1>2, <1>9 DEF UEOK, PhaseInv, RequestingInv
    <2>2. Awaits(phase[u]) = "pduAccept"
      BY <1>9 DEF Awaits
    <2>3. phase'[u] = "up" /\ up'[u] = "none" /\ received'[u] = received[u] + 1
      BY <1>1, <2>1, <2>2
    <2> QED
      BY <1>1, <1>3, <2>1, <2>3 DEF PhaseInv, InServiceInv, AtCount, Active
  <1>10. phase[u] \notin {"off", "registered", "up"}
    BY <1>1, <1>2 DEF UEOK, PhaseInv, InServiceInv
  <1>11. PhaseInv(u)'
    BY <1>5, <1>6, <1>7, <1>8, <1>9, <1>10 DEF Phases
  <1> QED
    BY <1>1, <1>4, <1>11, OwnKeeps DEF UEOK
-----------------------------------------------------------------------------
(* The theorems.                                                           *)

LEMMA ProxyInit == Init => ProxyInv
  <1> SUFFICES ASSUME Init PROVE ProxyInv
    OBVIOUS
  <1>1. \A c \in Conns : conn[c].pc = "read" /\ conn[c].ue = None /\ conn[c].id = 0
    BY DEF Init, Reading
  <1>2. \A u \in UEs : idOf(u) = 0 /\ phase[u] = "off" /\ up[u] = "none" /\ down[u] = Nothing
    BY RanID DEF Init, idOf
  <1>3. OwnInv
    BY <1>1, <1>2 DEF OwnInv, OwnContext
  <1>4. NotShared
    BY <1>1 DEF NotShared
  <1>5. UEInv
    BY <1>1, <1>2, ConstantsAssumption DEF UEInv, PhaseInv, LiveInv, StaleInv, Serves
  <1>6. RegisteredInv
    BY <1>1 DEF Init, RegisteredInv, FlowOrder
  <1> QED
    BY <1>3, <1>4, <1>5, <1>6 DEF ProxyInv

LEMMA ProxyUnchanged ==
    ASSUME TypeInv, ProxyInv, UNCHANGED vars
    PROVE  ProxyInv'
  <1>1. TypeInv'
    BY TypeUnchanged
  <1>2. \A u \in UEs : Quiet(u)
    BY DEF Quiet, vars, idOf, ctxOf
  <1>3. UEInv'
    BY <1>2, QuietKeeps DEF ProxyInv, UEInv, UEOK
  <1> QED
    BY <1>1, <1>3, SameContexts DEF ProxyInv, vars

LEMMA ProxyStep ==
    ASSUME DistinctRanIDs, TypeInv, ProxyInv, [Next]_vars
    PROVE  ProxyInv'
  <1>1. CASE UNCHANGED vars
    BY <1>1, ProxyUnchanged
  <1>2. ASSUME NEW c \in Conns, Handle(c) PROVE ProxyInv'
    <2>1. ASSUME NEW u \in UEs, \/ InitialUEMessage(c, u) \/ AuthResponse(c, u)
                                \/ SecurityModeComplete(c, u) \/ ULNASTransport(c, u)
                                \/ \E m \in Uplinks : UplinkRefused(c, u, m)
          PROVE  ProxyInv'
      BY <2>1, InitialStep, AuthResponseStep, SecurityModeCompleteStep, ULNASTransportStep,
         UplinkRefusedStep
    <2>2. CASE AuthInitiate(c) \/ AuthPending(c) \/ Register(c) \/ PDUSessionCreate(c)
      BY <2>2, AuthInitiateStep, AuthPendingStep, RegisterStep, PDUSessionCreateStep
    <2> QED
      BY <1>2, <2>1, <2>2 DEF Handle
  <1>3. ASSUME NEW g \in Gnbs, Connects(g) \/ Drop(g) PROVE ProxyInv'
    BY <1>3, ConnectStep, DropStep DEF Connects
  <1>4. ASSUME NEW u \in UEs, Attach(u) \/ Repeat(u) \/ RequestSession(u) \/ Receive(u)
        PROVE  ProxyInv'
    BY <1>4, AttachStep, RepeatStep, RequestSessionStep, ReceiveStep
  <1> QED
    BY <1>1, <1>2, <1>3, <1>4 DEF Next

LEMMA ProxyHolds ==
    ASSUME DistinctRanIDs
    PROVE  Spec => [](TypeInv /\ ProxyInv)
  <1>1. TypeInv /\ ProxyInv /\ [Next]_vars => ProxyInv'
    BY ProxyStep
  <1> QED
    BY <1>1, TypeInit, TypeStep, ProxyInit, PTL DEF Spec

(* With RAN-UE-NGAP-IDs that differ between UEs, a handler works on the    *)
(* context of the UE that sent the message, also when it waits for a       *)
(* backend while its association is replaced and the UE begins again: the  *)
(* map, and every goroutine, only ever lead to the UE's own contexts.      *)
THEOREM ContextsOwn ==
    ASSUME DistinctRanIDs
    PROVE  Spec => []OwnContext
  <1>1. ProxyInv => OwnContext
    BY DEF ProxyInv, OwnInv
  <1> QED
    BY <1>1, ProxyHolds, PTL

(* And no two goroutines hold the same *UEContext, whose fields have no    *)
(* lock: a UE that begins again is given a new one before it gets an       *)
(* answer, so its later messages do not lead to the one a handler of the   *)
(* lost association still waits with.                                      *)
THEOREM ContextsNotShared ==
    ASSUME DistinctRanIDs
    PROVE  Spec => []NotShared
  <1>1. ProxyInv => NotShared
    BY DEF ProxyInv
  <1> QED
    BY <1>1, ProxyHolds, PTL

(* DLCount and DLSeqNum of the context stay the number of protected        *)
(* messages its UE has got or is about to get, through repeated answers,   *)
(* failed calls and lost associations: every protected downlink message    *)
(* has the COUNT, and modulo 256 the sequence number, the UE expects.      *)
THEOREM CountsAgree ==
    ASSUME DistinctRanIDs
    PROVE  Spec => []NextInSequence
  <1>1. TypeInv /\ ProxyInv => NextInSequence
    <2> SUFFICES ASSUME TypeInv, ProxyInv, NEW u \in UEs, down[u] # Nothing, down[u].mac
                 PROVE  down[u].count = received[u] /\ down[u].sqn = received[u] % SeqMod
      BY DEF NextInSequence
    <2>1. PhaseInv(u) /\ phase[u] \in Phases
      BY DEF ProxyInv, UEInv, TypeInv, TypeOK
    <2>2. phase[u] \notin {"off", "registering", "registered", "up"}
      BY <2>1 DEF PhaseInv, RegisteringInv, InServiceInv
    <2>3. CASE phase[u] = "authenticating"
      BY <2>1, <2>3, ModFacts DEF PhaseInv, AuthenticatingInv
    <2>4. CASE phase[u] = "securing"
      BY <2>1, <2>4, ModFacts DEF PhaseInv, SecuringInv
    <2>5. CASE phase[u] = "requesting"
      BY <2>1, <2>5 DEF PhaseInv, RequestingInv
    <2> QED
      BY <2>1, <2>2, <2>3, <2>4, <2>5 DEF Phases
  <1> QED
    BY <1>1, ProxyHolds, PTL

(* A UE that believes itself registered, or to have a session, has a       *)
(* context in that state behind its RAN-UE-NGAP-ID.                        *)
THEOREM ContextsFollowUEs ==
    ASSUME DistinctRanIDs
    PROVE  Spec => []PhasesAgree
  <1>1. ProxyInv => PhasesAgree
    <2> SUFFICES ASSUME ProxyInv, NEW u \in UEs, phase[u] \in {"registered", "requesting", "up"}
                 PROVE  /\ idOf(u) # 0 /\ ctxOf(u).SUPI = u /\ ctxOf(u).State \in Active
                        /\ phase[u] = "up" => ctxOf(u).State = "PDU_SESSION_ACTIVE"
      BY DEF PhasesAgree, idOf, ctxOf, Active
    <2>1. PhaseInv(u) /\ (idOf(u) # 0 => ctxOf(u).SUPI = u)
      BY DEF ProxyInv, UEInv, OwnInv
    <2> QED
      BY <2>1 DEF PhaseInv, InServiceInv, RequestingInv, Active
  <1> QED
    BY <1>1, ProxyHolds, PTL

(* The SMF creates a session only for a subscriber the AMF has registered, *)
(* although ULNASTransport does not look at the context's state: a UE asks *)
(* for a session only when its context is registered.                      *)
THEOREM FlowInOrder ==
    ASSUME DistinctRanIDs
    PROVE  Spec => []FlowOrder
  <1>1. ProxyInv => FlowOrder
    BY DEF ProxyInv, RegisteredInv
  <1> QED
    BY <1>1, ProxyHolds, PTL
=============================================================================
