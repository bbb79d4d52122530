----------------------- MODULE SupportFunctions_proofs -----------------------
(***************************************************************************)
(* Proofs about the NRF, the PCF and the NWDAF, as they run in             *)
(* SupportFunctions.                                                       *)
(***************************************************************************)
EXTENDS SupportFunctions, TLAPS

-----------------------------------------------------------------------------
(* NRF.  An instance whose updates did not overlap is stored as the calls  *)
(* for it left it; the last answer shows what is stored.                   *)

Notifies(n) ==
    /\ notif[n].pc = "put"
    /\ notif[n].id \in Instances /\ notif[n].status \in Statuses /\ notif[n].profile \in Profile

RegistryInv ==
    /\ registry \in [Instances -> Profile \cup {NoProfile}]
    /\ DOMAIN latest = Instances
    /\ versions \in 0 .. MaxVersions
    /\ DOMAIN notif = Notifiers
    /\ \A n \in Notifiers : notif[n] = Idle \/ Notifies(n)
    /\ \A i \in Instances \ raced : registry[i] = latest[i]
    /\ found.pc = "answer" =>
         found.profiles = {<<i, registry[i]>> : i \in {j \in Instances : registry[j].type = found.type}}

LEMMA RegistryInit == NRFInit => RegistryInv
  BY NRFAssumption DEF NRFInit, RegistryInv, NoAnswer

\* A write of profile p for i, and of q as the newest one.
LEMMA Written ==
    ASSUME RegistryInv, NEW i \in Instances, NEW p \in Profile, NEW q,
           registry' = [registry EXCEPT ![i] = p], latest' = [latest EXCEPT ![i] = q],
           \A j \in Instances : j # i /\ j \in raced => j \in raced',
           i \notin raced' => p = q
    PROVE  /\ registry' \in [Instances -> Profile \cup {NoProfile}]
           /\ DOMAIN latest' = Instances
           /\ \A j \in Instances \ raced' : registry'[j] = latest'[j]
  BY DEF RegistryInv

LEMMA RegistryNext ==
    ASSUME RegistryInv, NRFNext
    PROVE  RegistryInv'
  <1>1. ASSUME NEW i \in Instances, NEW t \in NFTypes, NEW ok \in BOOLEAN, Register(i, t, ok)
        PROVE  RegistryInv'
    <2> DEFINE p == [type |-> t, version |-> versions', status |-> "REGISTERED"]
    <2>1. /\ versions' = versions + 1 /\ versions' \in 1 .. MaxVersions
          /\ UNCHANGED notif /\ found' = NoAnswer
      BY <1>1, NRFAssumption DEF Register, RegistryInv
    <2>2. p \in Profile
      BY <2>1 DEF Profile
    <2>3. CASE ok
      <3>1. /\ registry' = [registry EXCEPT ![i] = p] /\ latest' = [latest EXCEPT ![i] = p]
            /\ raced' = raced \ {i}
        BY <1>1, <2>3 DEF Register
      <3> HIDE DEF p
      <3>2. /\ registry' \in [Instances -> Profile \cup {NoProfile}]
            /\ DOMAIN latest' = Instances
            /\ \A j \in Instances \ raced' : registry'[j] = latest'[j]
        BY <2>2, <3>1, Written
      <3> QED
        BY <2>1, <3>2, NRFAssumption DEF RegistryInv, Notifies, NoAnswer
    <2>4. CASE ~ok
      <3>1. UNCHANGED <<registry, latest, raced>>
        BY <1>1, <2>4 DEF Register
      <3> QED
        BY <2>1, <3>1, NRFAssumption DEF RegistryInv, Notifies, NoAnswer
    <2> QED
      BY <2>3, <2>4
  <1>2. ASSUME NEW n \in Notifiers, NEW i \in Instances, NEW s \in Statuses, NEW ok \in BOOLEAN,
               NotifyGet(n, i, s, ok)
        PROVE  RegistryInv'
    <2>1. UNCHANGED <<registry, latest, raced, versions>> /\ found' = NoAnswer
      BY <1>2 DEF NotifyGet
    <2>2. CASE ok /\ registry[i] # NoProfile
      <3> DEFINE r == [pc |-> "put", id |-> i, status |-> s, profile |-> registry[i]]
      <3>1. registry[i] \in Profile
        BY <2>2 DEF RegistryInv
      <3>2. notif' = [notif EXCEPT ![n] = r]
        BY <1>2, <2>2 DEF NotifyGet
      <3>3. r.pc = "put" /\ r.id = i /\ r.status = s /\ r.profile = registry[i]
        OBVIOUS
      <3> HIDE DEF r
      <3>4. DOMAIN notif' = Notifiers /\ notif'[n] = r /\ \A m \in Notifiers : m # n => notif'[m] = notif[m]
        BY <3>2 DEF RegistryInv
      <3>5. Notifies(n)'
        BY <3>1, <3>3, <3>4 DEF Notifies
      <3> QED
        BY <2>1, <3>4, <3>5 DEF RegistryInv, Notifies, NoAnswer
    <2>3. CASE ~(ok /\ registry[i] # NoProfile)
      <3>1. UNCHANGED notif
        BY <1>2, <2>3 DEF NotifyGet
      <3> QED
        BY <2>1, <3>1 DEF RegistryInv, Notifies, NoAnswer
    <2> QED
      BY <2>2, <2>3
  <1>3. ASSUME NEW n \in Notifiers, NEW ok \in BOOLEAN, NotifyPut(n, ok)
        PROVE  RegistryInv'
    <2> DEFINE i == notif[n].id
               p == [notif[n].profile EXCEPT !.status = notif[n].status]
               q == [latest[i] EXCEPT !.status = notif[n].status]
    <2>1. Notifies(n)
      BY <1>3 DEF NotifyPut, RegistryInv, Idle
    <2>2. /\ UNCHANGED versions /\ found' = NoAnswer
          /\ notif' = [notif EXCEPT ![n] = Idle]
      BY <1>3 DEF NotifyPut
    <2>3. DOMAIN notif' = Notifiers /\ \A m \in Notifiers : notif'[m] = Idle \/ notif'[m] = notif[m]
      BY <2>2 DEF RegistryInv
    <2>4. CASE ok
      <3>1. /\ registry' = [registry EXCEPT ![i] = p] /\ latest' = [latest EXCEPT ![i] = q]
            /\ raced' = IF registry[i] = notif[n].profile THEN raced ELSE raced \cup {i}
        <4>1. latest' = [latest EXCEPT ![i].status = notif[n].status]
          BY <1>3, <2>4 DEF NotifyPut
        <4> QED
          BY <1>3, <2>1, <2>4, <4>1 DEF NotifyPut, Notifies, RegistryInv
      <3>2. p \in Profile
        BY <2>1 DEF Notifies, Profile
      <3>3. i \in Instances /\ (i \notin raced' => p = q)
        <4>1. i \in Instances
          BY <2>1 DEF Notifies
        <4>2. ASSUME i \notin raced' PROVE latest[i] = notif[n].profile
          BY <3>1, <4>1, <4>2 DEF RegistryInv
        <4> QED
          BY <4>1, <4>2
      <3>4. \A j \in Instances : j # i /\ j \in raced => j \in raced'
        BY <3>1
      <3> HIDE DEF i, p, q
      <3>5. /\ registry' \in [Instances -> Profile \cup {NoProfile}]
            /\ DOMAIN latest' = Instances
            /\ \A j \in Instances \ raced' : registry'[j] = latest'[j]
        BY <3>1, <3>2, <3>3, <3>4, Written
      <3> QED
        BY <2>2, <2>3, <3>5 DEF RegistryInv, Notifies, NoAnswer
    <2>5. CASE ~ok
      <3>1. UNCHANGED <<registry, latest, raced>>
        BY <1>3, <2>5 DEF NotifyPut
      <3> QED
        BY <2>2, <2>3, <3>1 DEF RegistryInv, Notifies, NoAnswer
    <2> QED
      BY <2>4, <2>5
  <1>4. ASSUME NEW t \in NFTypes, Discover(t) PROVE RegistryInv'
    <2>1. /\ UNCHANGED <<registry, notif, latest, raced, versions>> /\ found'.type = t
          /\ found'.profiles = {<<i, registry[i]>> : i \in {j \in Instances : registry[j].type = t}}
      BY <1>4 DEF Discover
    <2> QED
      BY <2>1 DEF RegistryInv, Notifies
  <1> QED
    BY <1>1, <1>2, <1>3, <1>4 DEF NRFNext

(* Discovery answers with exactly the newest profiles of the type that was *)
(* asked for, of the instances whose status notifications were not         *)
(* overtaken, for any number of instances, registrations and notifications *)
(* at once; and every stored profile is a whole one.                       *)
THEOREM DiscoveriesCurrent == Spec => []DiscoveryCurrent
  <1>1. Init => RegistryInv
    BY RegistryInit DEF Init
  <1>2. RegistryInv /\ [Next]_vars => RegistryInv'
    <2> SUFFICES ASSUME RegistryInv, UNCHANGED nrfVars PROVE RegistryInv'
      BY RegistryNext DEF Next, RunNRF, RunPCF, RunNWDAF, RunNSSF, vars
    <2> QED
      BY DEF nrfVars, RegistryInv, Notifies
  <1>3. RegistryInv => DiscoveryCurrent
    <2> SUFFICES ASSUME RegistryInv, found.pc = "answer", NEW i \in Instances \ raced, NEW p \in Profile
                 PROVE  <<i, p>> \in found.profiles <=> latest[i] = p /\ p.type = found.type
      BY DEF RegistryInv, DiscoveryCurrent
    <2>1. <<i, p>> \in found.profiles <=> registry[i] = p /\ registry[i].type = found.type
      BY DEF RegistryInv
    <2> QED
      BY <2>1 DEF RegistryInv
  <1> QED
    BY <1>1, <1>2, <1>3, PTL DEF Spec

-----------------------------------------------------------------------------
(* PCF.                                                                    *)

Policies == {Configured[sst] : sst \in DOMAIN Configured} \cup {Default(sst) : sst \in SSTs}
Made == [pc : {"load", "store", "id", "put", "created", "lost"}, supi : Supis, epoch : Nat,
         n : Nat, stored : BOOLEAN, policy : Policies]

CreateType ==
    /\ DOMAIN create = Creates
    /\ \A c \in Creates : create[c] = New \/ create[c] \in Made
    /\ counter \in Nat /\ epoch \in Nat

\* Requests in progress are those of this life of the process.
EpochInv ==
    \A c \in Creates :
      /\ create[c] # New => create[c].epoch <= epoch
      /\ Busy(c) => create[c].epoch = epoch

\* Where no two requests have met, each takes a number of its own.
AloneInv ==
    epoch \notin crowded =>
      /\ \A c, d \in Creates : Busy(c) /\ Busy(d) => c = d
      /\ \A c \in Creates : /\ create[c].pc = "store" => create[c].n = counter + 1
                            /\ create[c].pc \in {"id", "put"} => create[c].n = counter
      /\ \A d \in Created : create[d].epoch = epoch =>
           /\ create[d].n <= counter
           /\ \A c \in Creates : create[c].pc \in {"id", "put"} => create[d].n < counter
NumberInv ==
    \A c, d \in Created :
      c # d /\ create[c].n = create[d].n /\ create[c].epoch = create[d].epoch =>
        create[c].epoch \in crowded

\* What is stored is the decision of a request that was answered, and what was
\* stored for one is there, unless its identifier was given out again.
ActiveInv ==
    /\ \A a \in active : \E d \in Created : a = <<PolicyID(create[d]), Decision(create[d])>>
    /\ \A c \in Created : create[c].stored => \E a \in active : a[1] = PolicyID(create[c])

\* The last answer of policy-get is what a reading of the store would give.
GotInv ==
    got.pc = "answer" =>
      /\ got.create \in Created
      /\ got.decisions = {a[2] : a \in {b \in active : b[1] = PolicyID(create[got.create])}}
      /\ got.code = 404 => ~\E a \in active : a[1] = PolicyID(create[got.create])

PolicyInv == CreateType /\ EpochInv /\ AloneInv /\ NumberInv /\ ActiveInv /\ GotInv

LEMMA PolicyInit == PCFInit => PolicyInv
  BY DEF PCFInit, PolicyInv, CreateType, EpochInv, AloneInv, NumberInv, ActiveInv, GotInv, Busy,
         Created, New, NotAsked

\* Request c takes a step: it is at pc, with the number n.
Goes(c, pc, n, put) ==
    /\ DOMAIN create' = Creates /\ create'[c] \in Made
    /\ \A d \in Creates : d # c => create'[d] = create[d]
    /\ create'[c].pc = pc /\ create'[c].n = n /\ create'[c].stored = put
    /\ create'[c].supi = create[c].supi /\ create'[c].epoch = create[c].epoch
    /\ create'[c].policy = create[c].policy

LEMMA MadePC ==
    ASSUME NEW r \in Made, NEW pc \in {"store", "id", "put", "created", "lost"}
    PROVE  LET v == [r EXCEPT !.pc = pc] IN
           /\ v \in Made /\ v.pc = pc /\ v.n = r.n /\ v.stored = r.stored
           /\ v.supi = r.supi /\ v.epoch = r.epoch /\ v.policy = r.policy
  BY DEF Made

LEMMA MadeN ==
    ASSUME NEW r \in Made, NEW n \in Nat
    PROVE  LET v == [r EXCEPT !.n = n] IN
           /\ v \in Made /\ v.pc = r.pc /\ v.n = n /\ v.stored = r.stored
           /\ v.supi = r.supi /\ v.epoch = r.epoch /\ v.policy = r.policy
  BY DEF Made

LEMMA MadeStored ==
    ASSUME NEW r \in Made, NEW put \in BOOLEAN
    PROVE  LET v == [r EXCEPT !.stored = put] IN
           /\ v \in Made /\ v.pc = r.pc /\ v.n = r.n /\ v.stored = put
           /\ v.supi = r.supi /\ v.epoch = r.epoch /\ v.policy = r.policy
  BY DEF Made

LEMMA MadeIf ==
    ASSUME CreateType, NEW c \in Creates, create[c].pc # "new"
    PROVE  create[c] \in Made /\ create[c] # New
  BY DEF CreateType, New

LEMMA LoadEffect ==
    ASSUME CreateType, NEW c \in Creates, CreateLoad(c)
    PROVE  create[c].pc = "load" /\ Goes(c, "store", counter + 1, create[c].stored)
  <1> DEFINE w == [create[c] EXCEPT !.pc = "store"]
             v == [w EXCEPT !.n = counter + 1]
  <1>1. create[c].pc = "load" /\ create' = [create EXCEPT ![c] = v]
    BY Zenon DEF CreateLoad, Step
  <1>2. create[c] \in Made /\ counter + 1 \in Nat /\ DOMAIN create = Creates
    BY <1>1, MadeIf DEF CreateType
  <1>3. /\ w \in Made /\ w.pc = "store" /\ w.stored = create[c].stored /\ w.supi = create[c].supi
        /\ w.epoch = create[c].epoch /\ w.policy = create[c].policy
    BY <1>2, MadePC, Zenon
  <1> HIDE DEF w
  <1>4. /\ v \in Made /\ v.pc = w.pc /\ v.n = counter + 1 /\ v.stored = w.stored
        /\ v.supi = w.supi /\ v.epoch = w.epoch /\ v.policy = w.policy
    BY <1>2, <1>3, MadeN, Zenon
  <1> HIDE DEF v
  <1> QED
    BY <1>1, <1>2, <1>3, <1>4 DEF Goes

LEMMA StoreEffect ==
    ASSUME CreateType, NEW c \in Creates, CreateStore(c)
    PROVE  create[c].pc = "store" /\ Goes(c, "id", create[c].n, create[c].stored)
  <1> DEFINE v == [create[c] EXCEPT !.pc = "id"]
  <1>1. create[c].pc = "store" /\ create' = [create EXCEPT ![c] = v]
    BY Zenon DEF CreateStore, Step
  <1>2. create[c] \in Made /\ DOMAIN create = Creates
    BY <1>1, MadeIf DEF CreateType
  <1>3. /\ v \in Made /\ v.pc = "id" /\ v.n = create[c].n /\ v.stored = create[c].stored
        /\ v.supi = create[c].supi /\ v.epoch = create[c].epoch /\ v.policy = create[c].policy
    BY <1>2, MadePC, Zenon
  <1> HIDE DEF v
  <1> QED
    BY <1>1, <1>2, <1>3 DEF Goes

LEMMA IDEffect ==
    ASSUME CreateType, NEW c \in Creates, NEW reread \in BOOLEAN, CreateID(c, reread)
    PROVE  /\ create[c].pc = "id"
           /\ Goes(c, "put", IF reread THEN counter ELSE create[c].n, create[c].stored)
  <1> DEFINE w == [create[c] EXCEPT !.pc = "put"]
             n == IF reread THEN counter ELSE create[c].n
             v == [w EXCEPT !.n = n]
  <1>1. create[c].pc = "id" /\ create' = [create EXCEPT ![c] = v]
    <2>1. create[c] \in Made
      BY MadeIf DEF CreateID
    <2>2. w.n = create[c].n
      BY <2>1, MadePC
    <2>3. create[c].pc = "id" /\ create' = [create EXCEPT ![c] = [create[c] EXCEPT !.pc = "put", !.n = IF reread THEN counter ELSE @]]
      BY Zenon DEF CreateID, Step
    <2> QED
      BY <2>2, <2>3
  <1>2. create[c] \in Made /\ DOMAIN create = Creates /\ n \in Nat
    <2>1. create[c] \in Made /\ DOMAIN create = Creates /\ counter \in Nat
      BY <1>1, MadeIf DEF CreateType
    <2> QED
      BY <2>1 DEF Made
  <1> HIDE DEF n
  <1>3. /\ w \in Made /\ w.pc = "put" /\ w.stored = create[c].stored /\ w.supi = create[c].supi
        /\ w.epoch = create[c].epoch /\ w.policy = create[c].policy
    BY <1>2, MadePC, Zenon
  <1> HIDE DEF w
  <1>4. /\ v \in Made /\ v.pc = w.pc /\ v.n = n /\ v.stored = w.stored
        /\ v.supi = w.supi /\ v.epoch = w.epoch /\ v.policy = w.policy
    BY <1>2, <1>3, MadeN, Zenon
  <1> HIDE DEF v
  <1> QED
    BY <1>1, <1>2, <1>3, <1>4 DEF Goes, n

LEMMA PutEffect ==
    ASSUME CreateType, NEW c \in Creates, NEW ok \in BOOLEAN, CreatePut(c, ok)
    PROVE  create[c].pc = "put" /\ Goes(c, "created", create[c].n, ok)
  <1> DEFINE w == [create[c] EXCEPT !.pc = "created"]
             v == [w EXCEPT !.stored = ok]
  <1>1. create[c].pc = "put" /\ create' = [create EXCEPT ![c] = v]
    BY Zenon DEF CreatePut, Step
  <1>2. create[c] \in Made /\ DOMAIN create = Creates
    BY <1>1, MadeIf DEF CreateType
  <1>3. /\ w \in Made /\ w.pc = "created" /\ w.n = create[c].n /\ w.supi = create[c].supi
        /\ w.epoch = create[c].epoch /\ w.policy = create[c].policy
    BY <1>2, MadePC, Zenon
  <1> HIDE DEF w
  <1>4. /\ v \in Made /\ v.pc = w.pc /\ v.n = w.n /\ v.stored = ok
        /\ v.supi = w.supi /\ v.epoch = w.epoch /\ v.policy = w.policy
    BY <1>2, <1>3, MadeStored, Zenon
  <1> HIDE DEF v
  <1> QED
    BY <1>1, <1>2, <1>3, <1>4 DEF Goes

\* What a request that begins has, and how a restart ends the others.
LEMMA StartEffect ==
    ASSUME CreateType, NEW c \in Creates, NEW supi \in Supis, NEW sst \in SSTs, NEW ok \in BOOLEAN,
           CreateStart(c, supi, sst, ok)
    PROVE  /\ create[c] = New /\ DOMAIN create' = Creates /\ create'[c] \in Made
           /\ \A d \in Creates : d # c => create'[d] = create[d]
           /\ create'[c].pc = "load" /\ create'[c].epoch = epoch
  <1> DEFINE policy == IF ok /\ sst \in DOMAIN Configured THEN Configured[sst] ELSE Default(sst)
             v == [pc |-> "load", supi |-> supi, epoch |-> epoch, n |-> 0, stored |-> FALSE,
                   policy |-> policy]
  <1>1. create[c] = New /\ create' = [create EXCEPT ![c] = v] /\ DOMAIN create = Creates /\ epoch \in Nat
    BY DEF CreateStart, Step, CreateType
  <1>2. policy \in Policies
    BY DEF Policies
  <1> HIDE DEF policy
  <1>3. v \in Made /\ v.pc = "load" /\ v.epoch = epoch
    BY <1>1, <1>2 DEF Made
  <1> HIDE DEF v
  <1> QED
    BY <1>1, <1>3

LEMMA PCFRestartEffect ==
    ASSUME CreateType, PCFRestart
    PROVE  /\ DOMAIN create' = Creates
           /\ \A c \in Creates :
                /\ ~Busy(c) => create'[c] = create[c]
                /\ Busy(c) => /\ create'[c] \in Made /\ create'[c].pc = "lost"
                              /\ create'[c].epoch = create[c].epoch
  <1> DEFINE v(c) == IF Busy(c) THEN [create[c] EXCEPT !.pc = "lost"] ELSE create[c]
  <1>1. create' = [c \in Creates |-> v(c)]
    BY DEF PCFRestart
  <1>2. ASSUME NEW c \in Creates, Busy(c)
        PROVE  v(c) \in Made /\ v(c).pc = "lost" /\ v(c).epoch = create[c].epoch
    <2>1. create[c] \in Made
      BY <1>2, MadeIf DEF Busy
    <2> QED
      BY <1>2, <2>1, MadePC
  <1>3. \A c \in Creates : ~Busy(c) => v(c) = create[c]
    OBVIOUS
  <1> HIDE DEF v
  <1> QED
    BY <1>1, <1>2, <1>3

\* A step that answers nobody leaves what was answered and stored as it is.
LEMMA NoneAnswered ==
    ASSUME NumberInv, ActiveInv, Forget, UNCHANGED active, crowded \subseteq crowded',
           \A c \in Creates : create'[c].pc = "created" <=> create[c].pc = "created",
           \A c \in Created : create'[c] = create[c]
    PROVE  NumberInv' /\ ActiveInv' /\ GotInv'
  <1>1. Created' = Created
    BY DEF Created
  <1>2. NumberInv'
    BY <1>1 DEF NumberInv
  <1>3. ActiveInv'
    BY <1>1 DEF ActiveInv, PolicyID, Decision
  <1>4. GotInv'
    BY DEF GotInv, Forget, NotAsked
  <1> QED
    BY <1>2, <1>3, <1>4

\* What a step of a busy request leaves of the types and the lives.
LEMMA GoesType ==
    ASSUME CreateType, EpochInv, NEW c \in Creates, NEW pc, NEW n, NEW put, Goes(c, pc, n, put),
           Busy(c), counter' \in Nat, UNCHANGED epoch
    PROVE  CreateType' /\ EpochInv'
  <1>0. create[c] # New
    BY DEF Busy, New
  <1>1. CreateType'
    BY DEF CreateType, Goes
  <1>2. EpochInv'
    BY <1>0 DEF EpochInv, Goes, Busy
  <1> QED
    BY <1>1, <1>2

LEMMA StartStep ==
    ASSUME PolicyInv, Forget, NEW c \in Creates, NEW supi \in Supis, NEW sst \in SSTs,
           NEW ok \in BOOLEAN, CreateStart(c, supi, sst, ok)
    PROVE  PolicyInv'
  <1>0. CreateType /\ EpochInv /\ AloneInv /\ NumberInv /\ ActiveInv
    BY DEF PolicyInv
  <1>1. /\ create[c] = New /\ DOMAIN create' = Creates /\ create'[c] \in Made
        /\ \A d \in Creates : d # c => create'[d] = create[d]
        /\ create'[c].pc = "load" /\ create'[c].epoch = epoch
    BY <1>0, StartEffect
  <1>2. UNCHANGED <<counter, active, epoch>> /\ crowded \subseteq crowded'
    BY DEF CreateStart
  <1>3. create[c].pc = "new" /\ create'[c] # New
    BY <1>1 DEF New
  <1>4. CreateType'
    BY <1>0, <1>1, <1>2 DEF CreateType
  <1>5. EpochInv'
    BY <1>0, <1>1, <1>2, <1>4 DEF EpochInv, Busy, CreateType
  <1>6. AloneInv'
    <2> SUFFICES ASSUME epoch \notin crowded' PROVE AloneInv'
      BY <1>2 DEF AloneInv
    <2>1. epoch \notin crowded /\ \A d \in Creates : ~Busy(d)
      BY DEF CreateStart
    <2>2. \A d \in Created' : d \in Created /\ create'[d] = create[d]
      BY <1>1 DEF Created
    <2> QED
      BY <1>0, <1>1, <1>2, <2>1, <2>2 DEF AloneInv, Busy
  <1>7. NumberInv' /\ ActiveInv' /\ GotInv'
    <2>1. \A d \in Creates : create'[d].pc = "created" <=> create[d].pc = "created"
      BY <1>1, <1>3
    <2>2. \A d \in Created : create'[d] = create[d]
      BY <1>1, <1>3 DEF Created
    <2> QED
      BY <1>0, <1>2, <2>1, <2>2, NoneAnswered
  <1> QED
    BY <1>4, <1>5, <1>6, <1>7 DEF PolicyInv

\* The three steps from the counter to the identifier.
LEMMA CountStep ==
    ASSUME PolicyInv, Forget, NEW c \in Creates,
           CreateLoad(c) \/ CreateStore(c) \/ \E reread \in BOOLEAN : CreateID(c, reread)
    PROVE  PolicyInv'
  <1>0. /\ CreateType /\ EpochInv /\ AloneInv /\ NumberInv /\ ActiveInv
        /\ UNCHANGED <<active, epoch, crowded>> /\ counter \in Nat /\ Busy(c)
    BY DEF PolicyInv, CreateType, CreateLoad, CreateStore, CreateID, Busy
  <1>1. create[c] \in Made /\ create[c].n \in Nat
    BY <1>0, MadeIf DEF Busy, Made
  <1>2. ASSUME NEW pc \in {"store", "id", "put"}, NEW n, NEW put, Goes(c, pc, n, put), counter' \in Nat
        PROVE  CreateType' /\ EpochInv' /\ NumberInv' /\ ActiveInv' /\ GotInv'
    <2>1. CreateType' /\ EpochInv'
      BY <1>0, <1>2, GoesType
    <2>2. \A d \in Creates : create'[d].pc = "created" <=> create[d].pc = "created"
      BY <1>0, <1>2 DEF Goes, Busy
    <2>3. \A d \in Created : create'[d] = create[d]
      BY <1>0, <1>2 DEF Goes, Busy, Created
    <2> QED
      BY <1>0, <2>1, <2>2, <2>3, NoneAnswered
  <1>3. ASSUME NEW pc \in {"store", "id", "put"}, NEW n, NEW put, Goes(c, pc, n, put)
        PROVE  /\ \A d \in Created' : d \in Created /\ create'[d] = create[d] /\ d # c
               /\ epoch \notin crowded => \A d \in Creates : Busy(d)' => d = c
    <2>1. \A d \in Created' : d \in Created /\ create'[d] = create[d] /\ d # c
      BY <1>3 DEF Goes, Created
    <2>2. epoch \notin crowded => \A d \in Creates : Busy(d)' => d = c
      BY <1>0, <1>3 DEF Goes, AloneInv, Busy
    <2> QED
      BY <2>1, <2>2
  <1>4. CASE CreateLoad(c)
    <2>1. create[c].pc = "load" /\ Goes(c, "store", counter + 1, create[c].stored) /\ UNCHANGED counter
      BY <1>0, <1>4, LoadEffect DEF CreateLoad
    <2>2. AloneInv'
      <3> SUFFICES ASSUME epoch \notin crowded PROVE AloneInv'
        BY <1>0 DEF AloneInv
      <3>1. \A d \in Creates : Busy(d)' => d = c
        BY <1>3, <2>1
      <3>2. \A d \in Created' : d \in Created /\ create'[d] = create[d]
        BY <1>3, <2>1
      <3>3. create'[c].pc = "store" /\ create'[c].n = counter' + 1
        BY <2>1 DEF Goes
      <3> QED
        BY <1>0, <2>1, <3>1, <3>2, <3>3 DEF AloneInv, Busy
    <2> QED
      BY <1>0, <1>2, <2>1, <2>2 DEF PolicyInv
  <1>5. CASE CreateStore(c)
    <2>1. /\ create[c].pc = "store" /\ Goes(c, "id", create[c].n, create[c].stored)
          /\ counter' = create[c].n
      BY <1>0, <1>5, StoreEffect DEF CreateStore
    <2>2. AloneInv'
      <3> SUFFICES ASSUME epoch \notin crowded PROVE AloneInv'
        BY <1>0 DEF AloneInv
      <3>1. \A d \in Creates : Busy(d)' => d = c
        BY <1>3, <2>1
      <3>2. \A d \in Created' : d \in Created /\ create'[d] = create[d]
        BY <1>3, <2>1
      <3>3. create'[c].pc = "id" /\ create'[c].n = counter' /\ counter' = counter + 1
        BY <1>0, <2>1 DEF Goes, AloneInv
      <3>4. ASSUME NEW d \in Created', create'[d].epoch = epoch PROVE create'[d].n < counter'
        <4>1. create[d].n <= counter /\ create'[d].n = create[d].n
          BY <1>0, <3>2, <3>4 DEF AloneInv
        <4>2. create[d].n \in Nat
          BY <1>0, <3>2, MadeIf DEF Created, Made
        <4> QED
          BY <1>0, <3>3, <4>1, <4>2
      <3>5. \A d \in Created' : create'[d].n \in Nat
        BY <1>0, <3>2, MadeIf DEF Created, Made
      <3>6. \A d \in Created' : create'[d].epoch = epoch => create'[d].n <= counter'
        BY <1>0, <3>3, <3>4, <3>5
      <3> QED
        BY <1>0, <2>1, <3>1, <3>3, <3>4, <3>6 DEF AloneInv, Busy
    <2> QED
      BY <1>0, <1>1, <1>2, <2>1, <2>2 DEF PolicyInv
  <1>6. ASSUME NEW reread \in BOOLEAN, CreateID(c, reread) PROVE PolicyInv'
    <2> DEFINE n == IF reread THEN counter ELSE create[c].n
    <2>1. create[c].pc = "id" /\ Goes(c, "put", n, create[c].stored) /\ UNCHANGED counter
      BY <1>0, <1>6, IDEffect DEF CreateID
    <2>2. epoch \notin crowded => n = counter
      BY <1>0, <2>1 DEF AloneInv
    <2> HIDE DEF n
    <2>3. AloneInv'
      <3> SUFFICES ASSUME epoch \notin crowded PROVE AloneInv'
        BY <1>0 DEF AloneInv
      <3>1. \A d \in Creates : Busy(d)' => d = c
        BY <1>3, <2>1
      <3>2. \A d \in Created' : d \in Created /\ create'[d] = create[d]
        BY <1>3, <2>1
      <3>3. create'[c].pc = "put" /\ create'[c].n = counter'
        BY <2>1, <2>2 DEF Goes
      <3>4. \A d \in Created' : create'[d].epoch = epoch => create'[d].n < counter /\ create'[d].n <= counter
        BY <1>0, <2>1, <3>2 DEF AloneInv
      <3> QED
        BY <1>0, <2>1, <3>1, <3>3, <3>4 DEF AloneInv, Busy
    <2> QED
      BY <1>0, <1>2, <2>1, <2>3 DEF PolicyInv
  <1> QED
    BY <1>4, <1>5, <1>6

LEMMA PutStep ==
    ASSUME PolicyInv, Forget, NEW c \in Creates, NEW ok \in BOOLEAN, CreatePut(c, ok)
    PROVE  PolicyInv'
  <1>0. /\ CreateType /\ EpochInv /\ AloneInv /\ NumberInv /\ ActiveInv
        /\ UNCHANGED <<counter, epoch, crowded>> /\ counter \in Nat
    BY DEF PolicyInv, CreateType, CreatePut
  <1>1. create[c].pc = "put" /\ Goes(c, "created", create[c].n, ok)
    BY <1>0, PutEffect
  <1>2. Busy(c) /\ create[c].epoch = epoch
    BY <1>0, <1>1 DEF Busy, EpochInv
  <1>3. CreateType' /\ EpochInv'
    BY <1>0, <1>1, <1>2, GoesType
  <1>4. Created' = Created \cup {c} /\ c \notin Created /\ \A d \in Created : create'[d] = create[d]
    BY <1>1 DEF Goes, Created
  <1>5. create'[c].n = create[c].n /\ create'[c].epoch = epoch /\ create'[c].stored = ok
    BY <1>1, <1>2 DEF Goes
  <1>6. /\ PolicyID(create'[c]) = PolicyID(create[c])
        /\ Decision(create'[c]) = Decision(create[c])
    BY <1>1 DEF Goes, PolicyID, Decision
  <1>7. ASSUME epoch \notin crowded
        PROVE  /\ create[c].n = counter /\ \A d \in Creates : ~Busy(d)'
               /\ \A d \in Created : create[d].epoch = epoch =>
                    create[d].n < counter /\ create[d].n <= counter /\ create[d].n # counter
    <2>1. create[c].n = counter /\ \A d \in Creates : ~Busy(d)'
      BY <1>0, <1>1, <1>2, <1>7 DEF AloneInv, Goes, Busy
    <2>2. \A d \in Created : create[d].n \in Nat
      BY <1>0, MadeIf DEF Created, Made
    <2>3. \A d \in Created : create[d].epoch = epoch => create[d].n < counter
      BY <1>0, <1>1, <1>7 DEF AloneInv
    <2> QED
      BY <1>0, <2>1, <2>2, <2>3
  <1>8. AloneInv'
    <2> SUFFICES ASSUME epoch \notin crowded PROVE AloneInv'
      BY <1>0 DEF AloneInv
    <2>1. \A d \in Created' : create'[d].epoch = epoch => create'[d].n <= counter
      BY <1>0, <1>4, <1>5, <1>7
    <2>2. \A d \in Creates : create'[d].pc \notin {"load", "store", "id", "put"}
      BY <1>7 DEF Busy
    <2> QED
      BY <1>0, <2>1, <2>2 DEF AloneInv, Busy
  <1>9. NumberInv'
    <2> SUFFICES ASSUME NEW a \in Created', NEW b \in Created', a # b,
                        create'[a].n = create'[b].n, create'[a].epoch = create'[b].epoch
                 PROVE  create'[a].epoch \in crowded
      BY <1>0 DEF NumberInv
    <2>1. CASE a = c
      BY <1>4, <1>5, <1>7, <2>1
    <2>2. CASE b = c
      BY <1>4, <1>5, <1>7, <2>2
    <2>3. CASE a # c /\ b # c
      BY <1>0, <1>4, <2>3 DEF NumberInv
    <2> QED
      BY <2>1, <2>2, <2>3
  <1>10. ActiveInv'
    <2> DEFINE i == PolicyID(create[c])
               new == <<i, Decision(create[c])>>
    <2>1. \A d \in Created : d \in Created' /\ PolicyID(create'[d]) = PolicyID(create[d])
                             /\ Decision(create'[d]) = Decision(create[d])
      BY <1>4
    <2>2. CASE ok
      <3>1. active' = {a \in active : a[1] # i} \cup {new}
        BY <2>2 DEF CreatePut
      <3>2. new[1] = i
        OBVIOUS
      <3>3. c \in Created' /\ new = <<PolicyID(create'[c]), Decision(create'[c])>>
        BY <1>4, <1>6
      <3> HIDE DEF i, new
      <3>4. \A a \in active' : \E d \in Created' : a = <<PolicyID(create'[d]), Decision(create'[d])>>
        BY <1>0, <2>1, <3>1, <3>3 DEF ActiveInv
      <3>5. ASSUME NEW d \in Created', create'[d].stored
            PROVE  \E a \in active' : a[1] = PolicyID(create'[d])
        <4>1. CASE PolicyID(create'[d]) = i
          BY <3>1, <3>2, <4>1
        <4>2. CASE PolicyID(create'[d]) # i
          <5>1. d \in Created /\ create'[d] = create[d]
            BY <1>4, <1>6, <4>2 DEF i
          <5>2. PICK a \in active : a[1] = PolicyID(create[d])
            BY <1>0, <3>5, <5>1 DEF ActiveInv
          <5> QED
            BY <3>1, <4>2, <5>1, <5>2
        <4> QED
          BY <4>1, <4>2
      <3> QED
        BY <3>4, <3>5 DEF ActiveInv, PolicyID, Decision
    <2>3. CASE ~ok
      <3>1. active' = active
        BY <2>3 DEF CreatePut
      <3>2. \A a \in active' : \E d \in Created' : a = <<PolicyID(create'[d]), Decision(create'[d])>>
        BY <1>0, <2>1, <3>1 DEF ActiveInv
      <3>3. ASSUME NEW d \in Created', create'[d].stored
            PROVE  \E a \in active' : a[1] = PolicyID(create'[d])
        <4>1. d \in Created /\ create'[d] = create[d]
          BY <1>4, <1>5, <2>3, <3>3
        <4> QED
          BY <1>0, <3>1, <3>3, <4>1 DEF ActiveInv
      <3> QED
        BY <3>2, <3>3 DEF ActiveInv, PolicyID, Decision
    <2> QED
      BY <2>2, <2>3
  <1>11. GotInv'
    BY DEF GotInv, Forget, NotAsked
  <1> QED
    BY <1>3, <1>8, <1>9, <1>10, <1>11 DEF PolicyInv

LEMMA GetStep ==
    ASSUME PolicyInv, NEW c \in Creates, NEW ok \in BOOLEAN, PolicyGet(c, ok)
    PROVE  PolicyInv'
  <1>1. UNCHANGED <<counter, active, create, epoch, crowded>> /\ create[c].pc = "created"
    BY DEF PolicyGet
  <1>2. CreateType' /\ EpochInv' /\ AloneInv' /\ NumberInv' /\ ActiveInv'
    BY <1>1 DEF PolicyInv, CreateType, EpochInv, AloneInv, NumberInv, ActiveInv, Busy, Created
  <1>3. /\ got'.create = c
        /\ got'.decisions = {a[2] : a \in {b \in active : b[1] = PolicyID(create[c])}}
        /\ got'.code = 404 => ~\E a \in active : a[1] = PolicyID(create[c])
    BY DEF PolicyGet
  <1>4. GotInv'
    BY <1>1, <1>3 DEF GotInv, Created, PolicyID
  <1> QED
    BY <1>2, <1>4 DEF PolicyInv

LEMMA PCFRestartStep ==
    ASSUME PolicyInv, Forget, PCFRestart
    PROVE  PolicyInv'
  <1>0. /\ CreateType /\ EpochInv /\ NumberInv /\ ActiveInv /\ UNCHANGED <<active, crowded>>
        /\ epoch' = epoch + 1 /\ counter' = 0 /\ epoch \in Nat
    BY DEF PolicyInv, CreateType, PCFRestart
  <1>1. /\ DOMAIN create' = Creates
        /\ \A c \in Creates :
             /\ ~Busy(c) => create'[c] = create[c]
             /\ Busy(c) => /\ create'[c] \in Made /\ create'[c].pc = "lost"
                           /\ create'[c].epoch = create[c].epoch
    BY <1>0, PCFRestartEffect
  <1>2. CreateType'
    BY <1>0, <1>1 DEF CreateType
  <1>3. \A c \in Creates : ~Busy(c)'
    BY <1>1 DEF Busy
  <1>4. ASSUME NEW c \in Creates, create'[c] # New
        PROVE  create'[c].epoch <= epoch' /\ create'[c].epoch # epoch'
    <2>1. create[c] # New /\ create'[c].epoch = create[c].epoch
      BY <1>1, <1>4 DEF Busy, New
    <2>2. create[c].epoch \in Nat /\ create[c].epoch <= epoch
      BY <1>0, <2>1 DEF CreateType, Made, EpochInv
    <2> QED
      BY <1>0, <2>1, <2>2
  <1>5. EpochInv'
    BY <1>3, <1>4 DEF EpochInv
  <1>6. AloneInv'
    <2>1. \A d \in Created' : create'[d].epoch # epoch'
      BY <1>4 DEF Created, New
    <2>2. \A c \in Creates : create'[c].pc \notin {"load", "store", "id", "put"}
      BY <1>3 DEF Busy
    <2> QED
      BY <2>1, <2>2 DEF AloneInv, Busy
  <1>7. NumberInv' /\ ActiveInv' /\ GotInv'
    <2>1. \A c \in Creates : create'[c].pc = "created" <=> create[c].pc = "created"
      BY <1>1 DEF Busy
    <2>2. \A c \in Created : create'[c] = create[c]
      BY <1>1 DEF Created, Busy
    <2> QED
      BY <1>0, <2>1, <2>2, NoneAnswered
  <1> QED
    BY <1>2, <1>5, <1>6, <1>7 DEF PolicyInv

(* However requests interleave on the unlocked counter, and whichever put  *)
(* fails or restart comes between, no identifier is answered to two        *)
(* subscribers, nor twice to one in a life of the process in which         *)
(* requests did not overlap; and policy-get answers accordingly.           *)
THEOREM PoliciesKept == Spec => []PolicyKept
  <1>1. Init => PolicyInv
    BY PolicyInit DEF Init
  <1>2. PolicyInv /\ [Next]_vars => PolicyInv'
    <2> SUFFICES ASSUME PolicyInv, PCFNext \/ UNCHANGED pcfVars PROVE PolicyInv'
      BY DEF Next, RunNRF, RunPCF, RunNWDAF, RunNSSF, vars
    <2>1. CASE UNCHANGED pcfVars
      BY <2>1 DEF pcfVars, PolicyInv, CreateType, EpochInv, AloneInv, NumberInv, ActiveInv, GotInv,
                  Busy, Created
    <2>2. CASE PCFNext
      BY <2>2, StartStep, CountStep, PutStep, GetStep, PCFRestartStep DEF PCFNext
    <2> QED
      BY <2>1, <2>2
  <1>3. PolicyInv => PolicyKept
    <2> SUFFICES ASSUME PolicyInv PROVE PolicyKept
      OBVIOUS
    <2>0. CreateType /\ NumberInv /\ ActiveInv /\ GotInv
      BY DEF PolicyInv
    <2>1. \A r, q : PolicyID(r) = PolicyID(q) => r.supi = q.supi /\ r.n = q.n
      BY DEF PolicyID
    <2>2. ASSUME NEW c \in Created, NEW d \in Created, c # d, PolicyID(create[c]) = PolicyID(create[d])
          PROVE  /\ create[c].supi = create[d].supi
                 /\ create[c].epoch # create[d].epoch \/ create[c].epoch \in crowded
      BY <2>0, <2>1, <2>2 DEF NumberInv
    <2>3. ASSUME got.pc = "answer"
          PROVE  LET r == create[got.create]
                     Again == {d \in Created \ {got.create} : PolicyID(create[d]) = PolicyID(r)}
                 IN /\ \A d \in got.decisions : d.supi = r.supi
                    /\ r.stored /\ Again = {} => got.decisions = {Decision(r)}
                    /\ got.code = 404 => ~r.stored
      <3> DEFINE g == got.create
                 r == create[g]
                 Again == {d \in Created \ {g} : PolicyID(create[d]) = PolicyID(r)}
      <3>1. /\ g \in Created
            /\ got.decisions = {a[2] : a \in {b \in active : b[1] = PolicyID(r)}}
            /\ got.code = 404 => ~\E a \in active : a[1] = PolicyID(r)
        BY <2>0, <2>3 DEF GotInv
      <3>2. ASSUME NEW a \in active, a[1] = PolicyID(r)
            PROVE  \E d \in Created : PolicyID(create[d]) = PolicyID(r) /\ a[2] = Decision(create[d])
        <4>1. PICK d \in Created : a = <<PolicyID(create[d]), Decision(create[d])>>
          BY <2>0 DEF ActiveInv
        <4> QED
          BY <3>2, <4>1
      <3>3. \A d \in got.decisions : d.supi = r.supi
        <4> SUFFICES ASSUME NEW x \in got.decisions PROVE x.supi = r.supi
          OBVIOUS
        <4>1. PICK a \in active : a[1] = PolicyID(r) /\ x = a[2]
          BY <3>1
        <4>2. PICK d \in Created : PolicyID(create[d]) = PolicyID(r) /\ a[2] = Decision(create[d])
          BY <3>2, <4>1
        <4>3. Decision(create[d]).supi = create[d].supi /\ create[d].supi = r.supi
          BY <2>1, <4>2 DEF Decision
        <4> QED
          BY <4>1, <4>2, <4>3
      <3>4. r.stored => \E a \in active : a[1] = PolicyID(r)
        BY <2>0, <3>1 DEF ActiveInv
      <3>5. ASSUME r.stored, Again = {} PROVE got.decisions = {Decision(r)}
        <4>1. \A a \in active : a[1] = PolicyID(r) => a[2] = Decision(r)
          BY <3>2, <3>5
        <4> HIDE DEF r, g
        <4> QED
          BY <3>1, <3>4, <3>5, <4>1
      <3> QED
        BY <3>1, <3>3, <3>4, <3>5
    <2> QED
      BY <2>2, <2>3 DEF PolicyKept
  <1> QED
    BY <1>1, <1>2, <1>3, PTL DEF Spec

-----------------------------------------------------------------------------
(* NWDAF.  Counts that were read, collected or shown for a slice are ones  *)
(* the slice has had: had only grows, and no two slices share a key.       *)

Counts == [ues : Nat, sessions : Nat]

Collects(c) ==
    /\ collect[c].pc = "put" /\ collect[c].slice \in Slices
    /\ collect[c].counts \in had[collect[c].slice]

Collected(s) ==
    LET m == metrics[sliceKeyFromSNSSAI(s)] IN
    m # NoLoad => m.slice = s /\ m.counts \in had[s]

LoadInv ==
    /\ counters \in [Keys -> Counts]
    /\ DOMAIN metrics = Keys /\ DOMAIN had = Slices /\ DOMAIN collect = Collectors
    /\ \A s \in Slices : /\ Zero \in had[s] /\ counters[CounterKey(s)] \in had[s]
                         /\ Collected(s)
    /\ \A c \in Collectors : collect[c] = Waiting \/ Collects(c)
    /\ LoadOfSlice

LEMMA KeysDiffer ==
    ASSUME NEW s \in Slices, NEW t \in Slices
    PROVE  /\ CounterKey(s) = sliceKeyFromSNSSAI(s) /\ CounterKey(s) \in Keys
           /\ CounterKey(s) = CounterKey(t) => s = t
  <1>1. CounterKey(s) = sliceKeyFromSNSSAI(s) /\ CounterKey(s) \in Keys
    BY DEF CounterKey, sliceKeyFromSNSSAI, Keys
  <1>2. s \in [sst : Nat, sd : STRING] /\ t \in [sst : Nat, sd : STRING]
    BY NWDAFAssumption
  <1>3. ASSUME CounterKey(s) = CounterKey(t) PROVE s.sst = t.sst /\ s.sd = t.sd
    <2>1. \A a, b, c, d : <<a>> # <<b, c>> /\ (<<a>> = <<b>> => a = b)
                          /\ (<<a, b>> = <<c, d>> => a = c /\ b = d)
      OBVIOUS
    <2> QED
      BY <1>3, <2>1 DEF CounterKey
  <1> QED
    BY <1>1, <1>2, <1>3

LEMMA LoadInit == NWDAFInit => LoadInv
  <1> SUFFICES ASSUME NWDAFInit PROVE LoadInv
    OBVIOUS
  <1>1. Zero \in Counts
    BY DEF Zero, Counts
  <1>2. \A s \in Slices : CounterKey(s) \in Keys /\ sliceKeyFromSNSSAI(s) \in Keys
    BY KeysDiffer
  <1> QED
    BY <1>1, <1>2 DEF NWDAFInit, LoadInv, Collected, LoadOfSlice, NoReport

LEMMA CountedStep ==
    ASSUME LoadInv, NEW s \in Slices, NEW field \in {"ues", "sessions"}, NEW up \in BOOLEAN,
           Count(s, field, up)
    PROVE  LoadInv'
  <1> DEFINE k == CounterKey(s)
             n == counters[k][field]
             m == IF up THEN n + 1 ELSE n - 1
             v == [counters[k] EXCEPT ![field] = m]
  <1>1. /\ up \/ n > 0
        /\ counters' = [counters EXCEPT ![k][field] = m]
        /\ had' = [had EXCEPT ![s] = @ \cup {counters'[k]}]
        /\ report' = NoReport /\ UNCHANGED <<metrics, collect>>
    BY DEF Count
  <1>2. k \in Keys /\ counters[k] \in Counts
    BY KeysDiffer DEF LoadInv
  <1>3. n \in Nat
    BY <1>2 DEF Counts
  <1>4. m \in Nat
    BY <1>1, <1>3
  <1>5. counters' = [counters EXCEPT ![k] = v]
    BY <1>1
  <1> HIDE DEF m
  <1>6. v \in Counts
    BY <1>2, <1>4 DEF Counts
  <1> HIDE DEF v, k
  <1>7. /\ counters' \in [Keys -> Counts] /\ counters'[k] = v
        /\ \A j \in Keys : j # k => counters'[j] = counters[j]
    BY <1>2, <1>5, <1>6 DEF LoadInv
  <1>8. /\ DOMAIN had' = Slices /\ v \in had'[s]
        /\ \A t \in Slices : had[t] \subseteq had'[t]
    BY <1>1, <1>7 DEF LoadInv
  <1>9. \A t \in Slices : counters'[CounterKey(t)] \in had'[t]
    <2> SUFFICES ASSUME NEW t \in Slices PROVE counters'[CounterKey(t)] \in had'[t]
      OBVIOUS
    <2>1. CASE t = s
      BY <1>7, <1>8, <2>1 DEF k
    <2>2. CASE t # s
      <3>1. CounterKey(t) # k /\ CounterKey(t) \in Keys
        BY <2>2, KeysDiffer DEF k
      <3> QED
        BY <1>7, <1>8, <3>1 DEF LoadInv
    <2> QED
      BY <2>1, <2>2
  <1>10. \A t \in Slices : Zero \in had'[t] /\ Collected(t)'
    BY <1>1, <1>8 DEF LoadInv, Collected
  <1>11. \A c \in Collectors : collect'[c] = Waiting \/ Collects(c)'
    BY <1>1, <1>8 DEF LoadInv, Collects
  <1>12. LoadOfSlice'
    BY <1>1 DEF LoadOfSlice, NoReport
  <1> QED
    BY <1>1, <1>7, <1>8, <1>9, <1>10, <1>11, <1>12 DEF LoadInv

LEMMA CollectGetStep ==
    ASSUME LoadInv, NEW c \in Collectors, NEW s \in Slices, NEW load \in Loads, NEW ok \in BOOLEAN,
           CollectGet(c, s, load, ok)
    PROVE  LoadInv'
  <1> DEFINE counts == IF ok THEN counters[sliceKeyFromSNSSAI(s)] ELSE Zero
             r == [pc |-> "put", slice |-> s, load |-> load, counts |-> counts]
  <1>1. /\ collect' = [collect EXCEPT ![c] = r] /\ report' = NoReport
        /\ UNCHANGED <<counters, metrics, had>>
    BY DEF CollectGet
  <1>2. counts \in had[s]
    BY KeysDiffer DEF LoadInv
  <1> HIDE DEF counts
  <1>3. r.pc = "put" /\ r.slice = s /\ r.counts = counts
    OBVIOUS
  <1> HIDE DEF r
  <1>4. /\ DOMAIN collect' = Collectors /\ collect'[c] = r
        /\ \A d \in Collectors : d # c => collect'[d] = collect[d]
    BY <1>1 DEF LoadInv
  <1>5. Collects(c)'
    BY <1>1, <1>2, <1>3, <1>4 DEF Collects
  <1>6. \A d \in Collectors : collect'[d] = Waiting \/ Collects(d)'
    BY <1>1, <1>4, <1>5 DEF LoadInv, Collects
  <1> QED
    BY <1>1, <1>4, <1>6 DEF LoadInv, Collected, LoadOfSlice, NoReport

LEMMA CollectPutStep ==
    ASSUME LoadInv, NEW c \in Collectors, NEW ok \in BOOLEAN, CollectPut(c, ok)
    PROVE  LoadInv'
  <1> DEFINE s == collect[c].slice
             r == [slice |-> s, counts |-> collect[c].counts, load |-> collect[c].load]
             k == sliceKeyFromSNSSAI(s)
  <1>1. /\ metrics' = IF ok THEN [metrics EXCEPT ![k] = r] ELSE metrics
        /\ collect' = [collect EXCEPT ![c] = Waiting] /\ report' = NoReport
        /\ UNCHANGED <<counters, had>>
    BY DEF CollectPut
  <1>2. s \in Slices /\ collect[c].counts \in had[s]
    BY DEF CollectPut, LoadInv, Collects, Waiting
  <1>3. r.slice = s /\ r.counts \in had[s]
    BY <1>2
  <1> HIDE DEF r, s
  <1>4. DOMAIN metrics' = Keys
    BY <1>1 DEF LoadInv
  <1>5. \A t \in Slices : Collected(t)'
    <2> SUFFICES ASSUME NEW t \in Slices PROVE Collected(t)'
      OBVIOUS
    <2>1. sliceKeyFromSNSSAI(t) \in Keys /\ k \in Keys /\ (t # s => sliceKeyFromSNSSAI(t) # k)
      BY <1>2, KeysDiffer
    <2> HIDE DEF k
    <2>2. CASE ok /\ t = s
      <3>1. metrics'[sliceKeyFromSNSSAI(t)] = r
        BY <1>1, <2>1, <2>2 DEF LoadInv, k
      <3> QED
        BY <1>1, <1>3, <2>2, <3>1 DEF Collected
    <2>3. CASE ~ok \/ t # s
      <3>1. metrics'[sliceKeyFromSNSSAI(t)] = metrics[sliceKeyFromSNSSAI(t)]
        BY <1>1, <2>1, <2>3 DEF LoadInv
      <3> QED
        BY <1>1, <3>1 DEF LoadInv, Collected
    <2> QED
      BY <2>2, <2>3
  <1>6. DOMAIN collect' = Collectors /\ \A d \in Collectors : collect'[d] = Waiting \/ collect'[d] = collect[d]
    BY <1>1 DEF LoadInv
  <1>7. \A d \in Collectors : collect'[d] = Waiting \/ Collects(d)'
    BY <1>1, <1>6 DEF LoadInv, Collects
  <1> QED
    BY <1>1, <1>4, <1>5, <1>6, <1>7 DEF LoadInv, LoadOfSlice, NoReport

LEMMA SubscribeStep ==
    ASSUME LoadInv, NEW target \in Targets, NEW put \in BOOLEAN, NEW ok \in BOOLEAN,
           Subscribe(target, put, ok)
    PROVE  LoadInv'
  <1>1. UNCHANGED <<counters, metrics, collect, had>>
    BY DEF Subscribe
  <1>2. LoadOfSlice'
    <2>1. CASE ~put
      BY <2>1 DEF Subscribe, LoadOfSlice, NoReport
    <2>2. CASE put
      <3>1. /\ <<subCounter', target>> \in subs'
            /\ report'.number = subCounter' /\ report'.target = target
            /\ report'.info = Shown(target, ok)
        BY <2>2 DEF Subscribe
      <3>2. ASSUME target.event = "SLICE_LOAD"
            PROVE  Shown(target, ok).slice = target.slice /\ Shown(target, ok).counts \in had[target.slice]
        <4>1. target.slice \in Slices
          BY <3>2 DEF Targets, OfSlice, OfNF, Mobility
        <4> DEFINE s == target.slice
                   m == metrics[sliceKeyFromSNSSAI(s)]
                   z == [slice |-> s, counts |-> Zero, load |-> 0]
        <4>2. Shown(target, ok) = IF ok /\ m # NoLoad THEN m ELSE z
          BY <3>2 DEF Shown
        <4>3. z.slice = s /\ z.counts = Zero
          OBVIOUS
        <4>4. Collected(s) /\ Zero \in had[s]
          BY <4>1 DEF LoadInv
        <4> QED
          BY <4>2, <4>3, <4>4 DEF Collected
      <3> QED
        BY <1>1, <3>1, <3>2 DEF LoadOfSlice
    <2> QED
      BY <2>1, <2>2
  <1> QED
    BY <1>1, <1>2 DEF LoadInv, Collected, Collects

(* A subscriber is shown the load of the slice it asked for, with counts   *)
(* of UEs and sessions that the NSACF had for it at one moment, however    *)
(* collections and updates of the counters interleave, for any slices: the *)
(* keys of slices of one type with and without an SD are different.        *)
THEOREM LoadsOfSlices == Spec => []LoadOfSlice
  <1>1. Init => LoadInv
    BY LoadInit DEF Init
  <1>2. LoadInv /\ [Next]_vars => LoadInv'
    <2> SUFFICES ASSUME LoadInv, NWDAFNext \/ UNCHANGED nwdafVars PROVE LoadInv'
      BY DEF Next, RunNRF, RunPCF, RunNWDAF, RunNSSF, vars
    <2>1. CASE UNCHANGED nwdafVars
      BY <2>1 DEF nwdafVars, LoadInv, Collected, Collects, LoadOfSlice
    <2>2. ASSUME NEW n \in NFs, NEW load \in Loads, CollectNF(n, load) PROVE LoadInv'
      BY <2>2 DEF CollectNF, LoadInv, Collected, Collects, LoadOfSlice, NoReport
    <2>3. CASE NWDAFRestart
      BY <2>3 DEF NWDAFRestart, LoadInv, Collected, Collects, LoadOfSlice, NoReport
    <2>4. CASE NWDAFNext
      BY <2>2, <2>3, <2>4, CountedStep, CollectGetStep, CollectPutStep, SubscribeStep DEF NWDAFNext
    <2> QED
      BY <2>1, <2>4
  <1>3. LoadInv => LoadOfSlice
    BY DEF LoadInv
  <1> QED
    BY <1>1, <1>2, <1>3, PTL DEF Spec
=============================================================================
