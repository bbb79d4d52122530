----------------------- MODULE Authentication_proofs ------------------------
(***************************************************************************)
(* Proofs about Authentication.                                            *)
(***************************************************************************)
EXTENDS Authentication, TLAPS

-----------------------------------------------------------------------------
(* Sequence numbers: advancing one either comes round, to SEQ 0, or makes  *)
(* the SEQ higher.                                                         *)

LEMMA AdvanceInRange == \A n \in SQN : advanceSQN(n) \in SQN
  BY ConstantsAssumption DEF SQN, advanceSQN

LEMMA SeqNat == \A n \in SQN : seq(n) \in Nat
  BY ConstantsAssumption DEF SQN, seq

LEMMA SeqAdvances ==
    ASSUME NEW n \in SQN
    PROVE  seq(advanceSQN(n)) = 0 \/ seq(advanceSQN(n)) > seq(n)
  <1> DEFINE m == advanceSQN(n)
  <1>1. /\ Modulus \in Nat /\ Modulus > 0 /\ SeqStep \in Nat /\ SeqStep > 0
        /\ n \in Nat /\ n < Modulus
    BY ConstantsAssumption DEF SQN
  <1>2. m \in Nat
    BY AdvanceInRange, <1>1 DEF SQN
  <1>3. m < SeqStep \/ m = n + SeqStep
    BY <1>1 DEF advanceSQN
  <1>4. m < SeqStep => m \div SeqStep = 0
    BY <1>1, <1>2
  <1>5. (n + SeqStep) \div SeqStep > n \div SeqStep
    BY <1>1
  <1> QED
    BY <1>3, <1>4, <1>5 DEF seq

-----------------------------------------------------------------------------
(* What each step does, without the EXCEPTs.                               *)

\* A step of run x leaves the other runs alone.
Alone(x) ==
    /\ auth' \in [Auths -> Run]
    /\ \A y \in Auths : y # x => auth'[y] = auth[y]
Keeps(x) ==
    /\ auth'[x].kind = auth[x].kind
    /\ auth'[x].vec = auth[x].vec
Moves(x, pc) ==
    /\ auth'[x].pc = pc /\ auth'[x].result = auth[x].result
    /\ auth'[x].sub = auth[x].sub /\ auth'[x].key = auth[x].key
    /\ auth'[x].stored = auth[x].stored
Ends(x, result) ==
    /\ auth'[x].pc = "done" /\ auth'[x].result = result
    /\ auth'[x].key = auth[x].key /\ auth'[x].stored = auth[x].stored

LEMMA SetRun ==
    ASSUME TypeOK, NEW x \in Auths, NEW v \in Run, auth' = [auth EXCEPT ![x] = v]
    PROVE  Alone(x) /\ auth'[x] = v
  BY DEF TypeOK, Alone

LEMMA AtEffect ==
    ASSUME TypeOK, NEW x \in Auths, NEW pc \in PC, auth' = At(x, pc)
    PROVE  Alone(x) /\ Keeps(x) /\ Moves(x, pc)
  BY DEF TypeOK, At, Alone, Keeps, Moves, Run

LEMMA EndEffect ==
    ASSUME TypeOK, NEW x \in Auths, NEW r \in Results, auth' = End(x, r)
    PROVE  Alone(x) /\ Keeps(x) /\ Ends(x, r)
  <1> DEFINE v == [auth[x] EXCEPT !.pc = "done", !.result = r]
  <1>1. /\ v \in Run /\ v.pc = "done" /\ v.result = r /\ v.kind = auth[x].kind
        /\ v.vec = auth[x].vec /\ v.key = auth[x].key /\ v.stored = auth[x].stored
    BY DEF TypeOK, Run, PC
  <1>2. auth' = [auth EXCEPT ![x] = v]
    BY DEF TypeOK, End
  <1> HIDE DEF v
  <1>3. Alone(x) /\ auth'[x] = v
    BY <1>1, <1>2, SetRun
  <1> QED
    BY <1>1, <1>3 DEF Keeps, Ends

LEMMA BeginEffect ==
    ASSUME TypeOK, NEW x \in Auths, NEW kind \in {"registration", "proxy"}, Begin(x, kind)
    PROVE  /\ Alone(x)
           /\ auth[x].pc = "idle" /\ auth'[x].pc = "get"
           /\ auth'[x].kind = kind
           /\ auth'[x].vec = auth[x].vec /\ auth'[x].key = auth[x].key
           /\ auth'[x].result = auth[x].result /\ auth'[x].stored = auth[x].stored
           /\ Serial => Quiet
           /\ UNCHANGED <<sub, vectors, pending, usim, provisions>>
  BY DEF TypeOK, Begin, Alone, Run, PC

LEMMA GenerateGetEffect ==
    ASSUME TypeOK, NEW x \in Auths, GenerateGet(x)
    PROVE  /\ Alone(x) /\ Keeps(x)
           /\ auth[x].pc = "get"
           /\ \/ /\ sub # NoSubscriber
                 /\ auth'[x].pc = "putSub" /\ auth'[x].result = auth[x].result
                 /\ auth'[x].sub.sqn = advanceSQN(sub.sqn)
                 /\ auth'[x].sub.profile = sub.profile
                 /\ auth'[x].key = auth[x].key /\ auth'[x].stored = auth[x].stored
              \/ Ends(x, "ERROR")
           /\ UNCHANGED <<sub, vectors, pending, usim, provisions>>
  <1>1. CASE auth' = [auth EXCEPT ![x].pc = "putSub",
                                  ![x].sub = [sub EXCEPT !.sqn = advanceSQN(@)]]
             /\ sub # NoSubscriber
    <2> DEFINE s == [sub EXCEPT !.sqn = advanceSQN(@)]
    <2>1. s \in Subscriber /\ s.sqn = advanceSQN(sub.sqn) /\ s.profile = sub.profile
      BY AdvanceInRange DEF TypeOK, Subscriber
    <2>2. auth' = [auth EXCEPT ![x].pc = "putSub", ![x].sub = s]
      BY <1>1
    <2> HIDE DEF s
    <2>3. Alone(x) /\ Keeps(x) /\ auth'[x].sub = s /\ auth'[x].pc = "putSub"
          /\ auth'[x].result = auth[x].result
          /\ auth'[x].key = auth[x].key /\ auth'[x].stored = auth[x].stored
      BY <2>1, <2>2 DEF TypeOK, Alone, Keeps, Run, PC
    <2> QED
      BY <1>1, <2>1, <2>3 DEF GenerateGet
  <1>2. CASE auth' = End(x, "ERROR")
    BY <1>2, EndEffect DEF GenerateGet, Results
  <1> QED
    BY <1>1, <1>2 DEF GenerateGet

LEMMA GeneratePutSubEffect ==
    ASSUME TypeOK, NEW x \in Auths, GeneratePutSub(x)
    PROVE  /\ Alone(x) /\ auth'[x].kind = auth[x].kind
           /\ auth[x].pc = "putSub"
           /\ \/ /\ sub' = auth[x].sub
                 /\ auth'[x].pc = "putVec" /\ auth'[x].result = auth[x].result
                 /\ auth'[x].vec = [run |-> x, sqn |-> auth[x].sub.sqn]
                 /\ auth'[x].key = auth[x].key /\ auth'[x].stored = auth[x].stored
              \/ Ends(x, "ERROR") /\ Keeps(x) /\ UNCHANGED sub
           /\ UNCHANGED <<vectors, pending, usim, provisions>>
  <1>1. CASE auth' = Issue(x) /\ sub' = auth[x].sub
    <2> DEFINE v == [run |-> x, sqn |-> auth[x].sub.sqn]
    <2>1. v \in Vector
      BY DEF TypeOK, Run, Subscriber, Vector
    <2>2. auth' = [auth EXCEPT ![x].pc = "putVec", ![x].vec = v]
      BY <1>1 DEF Issue
    <2> HIDE DEF v
    <2> DEFINE w == [auth[x] EXCEPT !.pc = "putVec", !.vec = v]
    <2>3. /\ w \in Run /\ w.pc = "putVec" /\ w.vec = v /\ w.kind = auth[x].kind
          /\ w.result = auth[x].result /\ w.key = auth[x].key /\ w.stored = auth[x].stored
      BY <2>1 DEF TypeOK, Run, PC
    <2>4. auth' = [auth EXCEPT ![x] = w]
      BY <2>2 DEF TypeOK
    <2> HIDE DEF w
    <2>5. Alone(x) /\ auth'[x] = w
      BY <2>3, <2>4, SetRun
    <2> QED
      BY <1>1, <2>3, <2>5 DEF GeneratePutSub, v
  <1>2. CASE auth' = End(x, "ERROR") /\ UNCHANGED sub
    BY <1>2, EndEffect DEF GeneratePutSub, Results, Keeps
  <1> QED
    BY <1>1, <1>2 DEF GeneratePutSub

LEMMA GeneratePutVectorEffect ==
    ASSUME TypeOK, NEW x \in Auths, GeneratePutVector(x)
    PROVE  /\ Alone(x) /\ Keeps(x)
           /\ auth[x].pc = "putVec"
           /\ \/ Moves(x, "pend") /\ vectors' = auth[x].vec
              \/ Ends(x, "ERROR") /\ UNCHANGED vectors
           /\ UNCHANGED <<sub, pending, usim, provisions>>
  BY AtEffect, EndEffect DEF GeneratePutVector, PC, Results

LEMMA InitiatePutEffect ==
    ASSUME TypeOK, NEW x \in Auths, InitiatePut(x)
    PROVE  /\ Alone(x) /\ Keeps(x)
           /\ auth[x].pc = "pend"
           /\ \/ /\ auth'[x].pc = IF auth[x].kind = "proxy" THEN "pPend" ELSE "rVec"
                 /\ auth'[x].result = auth[x].result /\ auth'[x].key = auth[x].key
                 /\ \/ auth'[x].stored /\ pending' = auth[x].vec
                    \/ auth'[x].stored = auth[x].stored /\ UNCHANGED pending
              \/ Ends(x, "ERROR") /\ UNCHANGED pending
           /\ UNCHANGED <<sub, vectors, usim, provisions>>
  <1> DEFINE next == IF auth[x].kind = "proxy" THEN "pPend" ELSE "rVec"
  <1>0. next \in PC
    BY DEF PC
  <1>1. CASE auth' = [auth EXCEPT ![x].pc = next, ![x].stored = TRUE] /\ pending' = auth[x].vec
    <2> HIDE DEF next
    <2>1. /\ Alone(x) /\ Keeps(x) /\ auth'[x].pc = next /\ auth'[x].stored = TRUE
          /\ auth'[x].result = auth[x].result /\ auth'[x].key = auth[x].key
      BY <1>0, <1>1 DEF TypeOK, Alone, Keeps, Run
    <2> QED
      BY <1>1, <2>1 DEF InitiatePut, next
  <1>2. CASE auth' = At(x, next) /\ UNCHANGED pending
    <2>1. Alone(x) /\ Keeps(x) /\ Moves(x, next)
      BY <1>0, <1>2, AtEffect
    <2> QED
      BY <1>2, <2>1 DEF InitiatePut, Moves
  <1>3. CASE auth' = End(x, "ERROR") /\ UNCHANGED pending
    BY <1>3, EndEffect DEF InitiatePut, Results
  <1> QED
    BY <1>1, <1>2, <1>3 DEF InitiatePut

LEMMA RegistrationReadEffect ==
    ASSUME TypeOK, NEW x \in Auths, RegistrationRead(x)
    PROVE  /\ Alone(x) /\ Keeps(x)
           /\ auth[x].pc = "rVec"
           /\ \/ /\ auth'[x].pc = "aGet" /\ auth'[x].key = vectors
                 /\ auth'[x].result = auth[x].result /\ auth'[x].stored = auth[x].stored
              \/ Ends(x, "ERROR")
           /\ UNCHANGED <<sub, vectors, pending, usim, provisions>>
  <1>1. CASE auth' = [auth EXCEPT ![x].pc = "aGet", ![x].key = vectors]
    BY <1>1 DEF TypeOK, RegistrationRead, Alone, Keeps, Run, PC
  <1>2. CASE auth' = End(x, "ERROR")
    BY <1>2, EndEffect DEF RegistrationRead, Results
  <1> QED
    BY <1>1, <1>2 DEF RegistrationRead

LEMMA AuthenticateEffect ==
    ASSUME TypeOK, NEW x \in Auths, AuthenticateGet(x) \/ AuthenticateDelete(x)
    PROVE  /\ Alone(x) /\ Keeps(x)
           /\ auth[x].pc \in {"aGet", "aDel"}
           /\ \/ Moves(x, "aDel") /\ UNCHANGED vectors
              \/ /\ \E r \in {"FAILURE", "ERROR", "SUCCESS"} : Ends(x, r)
                 /\ vectors' \in {vectors, NoVector}
           /\ UNCHANGED <<sub, pending, usim, provisions>>
  BY AtEffect, EndEffect DEF AuthenticateGet, AuthenticateDelete, PC, Results

LEMMA ProxyReadEffect ==
    ASSUME TypeOK, NEW x \in Auths, ProxyRead(x)
    PROVE  /\ Alone(x) /\ Keeps(x)
           /\ auth[x].pc = "pPend" /\ auth'[x].pc = "ue"
           /\ auth'[x].key \in {pending, auth[x].key}
           /\ auth'[x].result = auth[x].result /\ auth'[x].stored = auth[x].stored
           /\ UNCHANGED <<sub, vectors, pending, usim, provisions>>
  <1>1. CASE auth' = [auth EXCEPT ![x].pc = "ue", ![x].key = pending]
    BY <1>1 DEF TypeOK, ProxyRead, Alone, Keeps, Run, PC
  <1>2. CASE auth' = At(x, "ue")
    BY <1>2, AtEffect DEF ProxyRead, PC, Moves
  <1> QED
    BY <1>1, <1>2 DEF ProxyRead

LEMMA UEAnswersEffect ==
    ASSUME TypeOK, NEW x \in Auths, UEAnswers(x)
    PROVE  /\ Alone(x) /\ Keeps(x)
           /\ auth[x].pc = "ue"
           /\ \/ /\ seq(auth[x].vec.sqn) > usim /\ usim' = seq(auth[x].vec.sqn)
                 /\ Ends(x, "SUCCESS")
              \/ seq(auth[x].vec.sqn) <= usim /\ usim' = usim /\ Ends(x, "REJECTED")
           /\ UNCHANGED <<sub, vectors, pending, provisions>>
  BY EndEffect DEF UEAnswers, Results

-----------------------------------------------------------------------------
(* Type correctness.                                                       *)

LEMMA TypeInit == Init => TypeOK
  BY ConstantsAssumption
     DEF Init, TypeOK, NoSubscriber, Subscriber, SQN, Idle, Run, PC, Results

LEMMA TypeStep ==
    ASSUME TypeOK, NEW x \in Auths, Step(x)
    PROVE  TypeOK'
  <1> USE DEF TypeOK, Alone
  <1>0. auth[x] \in Run /\ auth[x].vec \in Vector \cup {NoVector} /\ auth[x].sub \in Subscriber
    BY DEF Run
  <1>1. CASE GenerateGet(x)
    BY <1>1, GenerateGetEffect
  <1>2. CASE GeneratePutSub(x)
    BY <1>0, <1>2, GeneratePutSubEffect
  <1>3. CASE GeneratePutVector(x)
    BY <1>0, <1>3, GeneratePutVectorEffect
  <1>4. CASE InitiatePut(x)
    BY <1>0, <1>4, InitiatePutEffect
  <1>5. CASE RegistrationRead(x)
    BY <1>5, RegistrationReadEffect
  <1>6. CASE AuthenticateGet(x) \/ AuthenticateDelete(x)
    BY <1>6, AuthenticateEffect
  <1>7. CASE ProxyRead(x)
    BY <1>7, ProxyReadEffect
  <1>8. CASE UEAnswers(x)
    <2>1. usim' \in Nat
      <3>1. seq(auth[x].vec.sqn) \in Nat
        <4>1. auth[x].vec.sqn \in SQN
          BY <1>0, ConstantsAssumption DEF Vector, NoVector, SQN
        <4> QED
          BY <4>1, SeqNat
      <3> QED
        BY <1>8, <3>1, UEAnswersEffect
    <2> QED
      BY <1>8, <2>1, UEAnswersEffect
  <1> QED
    BY <1>1, <1>2, <1>3, <1>4, <1>5, <1>6, <1>7, <1>8 DEF Step

LEMMA TypeNext == TypeOK /\ [Next]_vars => TypeOK'
  <1> SUFFICES ASSUME TypeOK, [Next]_vars PROVE TypeOK'
    OBVIOUS
  <1>1. ASSUME NEW q \in ProvisionSQNs, Provision(q) PROVE TypeOK'
    <2>1. provisions + 1 \in 0 .. MaxProvisions
      BY <1>1, ConstantsAssumption DEF Provision, TypeOK
    <2> QED
      BY <1>1, <2>1, ConstantsAssumption DEF Provision, TypeOK, Subscriber, SQN
  <1>2. ASSUME NEW x \in Auths, NEW kind \in {"registration", "proxy"}, Begin(x, kind)
        PROVE  TypeOK'
    BY <1>2, BeginEffect DEF TypeOK, Alone
  <1>3. CASE UNCHANGED vars
    BY <1>3 DEF vars, TypeOK
  <1> QED
    BY <1>1, <1>2, <1>3, TypeStep DEF Next

(* Every state has the types the functions rely on: the stored SQN stays   *)
(* within 48 bits (advanceSQN's mask) whatever calls fail and overlap.     *)
THEOREM TypeCorrect == Spec => []TypeOK
  BY TypeInit, TypeNext, PTL DEF Spec

-----------------------------------------------------------------------------
(* The profile: a record that generate-auth-data holds is the stored one   *)
(* but for its SQN, as long as provisioning waits for the runs to end.     *)

ProfileInv == \A x \in Auths : auth[x].pc = "putSub" => auth[x].sub.profile = sub.profile

LEMMA ProfileStep ==
    ASSUME TypeOK, ProfileInv, NEW x \in Auths, Step(x)
    PROVE  ProfileInv' /\ sub'.profile = sub.profile
  <1> USE DEF ProfileInv, Alone, Moves, Ends
  <1>1. CASE GenerateGet(x)
    BY <1>1, GenerateGetEffect
  <1>2. CASE GeneratePutSub(x)
    BY <1>2, GeneratePutSubEffect
  <1>3. CASE GeneratePutVector(x)
    BY <1>3, GeneratePutVectorEffect
  <1>4. CASE InitiatePut(x)
    BY <1>4, InitiatePutEffect
  <1>5. CASE RegistrationRead(x)
    BY <1>5, RegistrationReadEffect
  <1>6. CASE AuthenticateGet(x) \/ AuthenticateDelete(x)
    BY <1>6, AuthenticateEffect
  <1>7. CASE ProxyRead(x)
    BY <1>7, ProxyReadEffect
  <1>8. CASE UEAnswers(x)
    BY <1>8, UEAnswersEffect
  <1> QED
    BY <1>1, <1>2, <1>3, <1>4, <1>5, <1>6, <1>7, <1>8 DEF Step

LEMMA ProfileNext ==
    ASSUME Serial, TypeOK, ProfileInv, [Next]_vars
    PROVE  ProfileInv' /\ (provisions' = provisions => sub'.profile = sub.profile)
  <1>1. ASSUME NEW q \in ProvisionSQNs, Provision(q)
        PROVE  ProfileInv' /\ provisions' # provisions
    <2>1. provisions' # provisions
      BY <1>1 DEF Provision, TypeOK
    <2> QED
      BY <1>1, <2>1 DEF Provision, ProfileInv, Quiet, Runs
  <1>2. ASSUME NEW x \in Auths, NEW kind \in {"registration", "proxy"}, Begin(x, kind)
        PROVE  ProfileInv' /\ UNCHANGED sub
    BY <1>2, BeginEffect DEF ProfileInv, Alone
  <1>3. CASE UNCHANGED vars
    BY <1>3 DEF vars, ProfileInv
  <1> QED
    BY <1>1, <1>2, <1>3, ProfileStep DEF Next

(* When provisioning does not overlap a run, generate-auth-data's write of *)
(* the whole record never undoes what provisioning wrote, whichever of the *)
(* run's calls fail.                                                       *)
THEOREM ProfileSafe == ASSUME Serial PROVE Spec => ProfileKept
  <1>1. Init => ProfileInv
    BY DEF Init, ProfileInv, Idle
  <1>2. TypeOK /\ ProfileInv /\ [Next]_vars => ProfileInv'
    BY ProfileNext
  <1>3. TypeOK /\ ProfileInv /\ [Next]_vars =>
          [provisions' = provisions => sub'.profile = sub.profile]_vars
    BY ProfileNext
  <1> QED
    BY <1>1, <1>2, <1>3, TypeCorrect, PTL DEF Spec, ProfileKept

-----------------------------------------------------------------------------
(* The keys a run ends with.                                               *)

\* At most one run is under way.
OneRun == \A x, y \in Auths : Runs(x) /\ Runs(y) => x = y

\* What is in Redis for the run that is under way, and in its hands.
HoldsOwn(x) ==
    /\ auth[x].pc \in {"putVec", "pend", "rVec", "aGet", "aDel", "pPend", "ue"} =>
          auth[x].vec \in Vector /\ auth[x].vec.run = x
    /\ auth[x].pc \in {"pend", "rVec"} => vectors = auth[x].vec
    /\ auth[x].pc = "pPend" /\ auth[x].stored => pending = auth[x].vec
    /\ auth[x].pc \in {"idle", "get", "putSub", "putVec", "pend"} => ~auth[x].stored
    /\ auth[x].pc \in {"idle", "get", "putSub", "putVec", "pend", "rVec", "pPend"} =>
          auth[x].key = NoVector
    /\ auth[x].pc = "rVec" => auth[x].kind = "registration"
    /\ auth[x].pc = "pPend" => auth[x].kind = "proxy"
    /\ auth[x].key # NoVector /\ (auth[x].kind = "registration" \/ auth[x].stored) =>
          auth[x].key.run = x
KeyInv == OneRun /\ \A x \in Auths : HoldsOwn(x)

LEMMA OneRunStep ==
    ASSUME OneRun, NEW x \in Auths, Alone(x), Runs(x)
    PROVE  OneRun'
  <1>1. \A y \in Auths : y # x => ~Runs(y)
    BY DEF OneRun
  <1>2. \A y \in Auths : y # x => ~Runs(y)'
    BY <1>1 DEF Runs, Alone
  <1> QED
    BY <1>2 DEF OneRun

(* A run that is not under way has nothing in Redis.                       *)
LEMMA OthersHold ==
    ASSUME KeyInv, NEW x \in Auths, Alone(x), Runs(x)
    PROVE  \A y \in Auths : y # x => HoldsOwn(y)'
  <1>1. \A y \in Auths : y # x => auth[y].pc \in {"idle", "done"}
    BY DEF KeyInv, OneRun, Runs
  <1> QED
    BY <1>1 DEF KeyInv, HoldsOwn, Alone

LEMMA OwnStep ==
    ASSUME TypeOK, KeyInv, NEW x \in Auths, Step(x)
    PROVE  Alone(x) /\ Runs(x) /\ HoldsOwn(x)'
  <1>0. HoldsOwn(x) /\ auth[x].stored \in BOOLEAN
    BY DEF KeyInv, TypeOK, Run
  <1>1. CASE GenerateGet(x)
    BY <1>0, <1>1, GenerateGetEffect DEF HoldsOwn, Runs, Ends, Keeps
  <1>2. CASE GeneratePutSub(x)
    <2>1. [run |-> x, sqn |-> auth[x].sub.sqn] \in Vector
      BY DEF TypeOK, Run, Subscriber, Vector
    <2> QED
      BY <1>0, <1>2, <2>1, GeneratePutSubEffect DEF HoldsOwn, Runs, Ends, Keeps
  <1>3. CASE GeneratePutVector(x)
    BY <1>0, <1>3, GeneratePutVectorEffect DEF HoldsOwn, Runs, Ends, Moves, Keeps
  <1>4. CASE InitiatePut(x)
    <2>1. auth[x].kind \in {"registration", "proxy"}
      BY DEF TypeOK, Run
    <2> QED
      BY <1>0, <1>4, <2>1, InitiatePutEffect DEF HoldsOwn, Runs, Ends, Keeps
  <1>5. CASE RegistrationRead(x)
    BY <1>0, <1>5, RegistrationReadEffect DEF HoldsOwn, Runs, Ends, Keeps
  <1>6. CASE AuthenticateGet(x) \/ AuthenticateDelete(x)
    BY <1>0, <1>6, AuthenticateEffect DEF HoldsOwn, Runs, Ends, Moves, Keeps
  <1>7. CASE ProxyRead(x)
    BY <1>0, <1>7, ProxyReadEffect DEF HoldsOwn, Runs, Keeps
  <1>8. CASE UEAnswers(x)
    BY <1>0, <1>8, UEAnswersEffect DEF HoldsOwn, Runs, Ends, Keeps
  <1> QED
    BY <1>1, <1>2, <1>3, <1>4, <1>5, <1>6, <1>7, <1>8 DEF Step

LEMMA KeyNext ==
    ASSUME Serial, TypeOK, KeyInv, [Next]_vars
    PROVE  KeyInv'
  <1>1. ASSUME NEW q \in ProvisionSQNs, Provision(q) PROVE KeyInv'
    BY <1>1 DEF Provision, KeyInv, OneRun, Runs, HoldsOwn
  <1>2. ASSUME NEW x \in Auths, NEW kind \in {"registration", "proxy"}, Begin(x, kind)
        PROVE  KeyInv'
    <2>1. /\ Alone(x) /\ auth[x].pc = "idle" /\ auth'[x].pc = "get" /\ Quiet
          /\ auth'[x].key = auth[x].key /\ auth'[x].stored = auth[x].stored
          /\ UNCHANGED <<vectors, pending>>
      BY <1>2, BeginEffect
    <2>2. OneRun'
      BY <2>1 DEF OneRun, Quiet, Runs, Alone
    <2>3. \A y \in Auths : HoldsOwn(y)'
      BY <2>1 DEF KeyInv, HoldsOwn, Alone
    <2> QED
      BY <2>2, <2>3 DEF KeyInv
  <1>3. ASSUME NEW x \in Auths, Step(x) PROVE KeyInv'
    <2>1. Alone(x) /\ Runs(x) /\ HoldsOwn(x)'
      BY <1>3, OwnStep
    <2>2. OneRun'
      BY <2>1, OneRunStep DEF KeyInv
    <2>3. \A y \in Auths : y # x => HoldsOwn(y)'
      BY <2>1, OthersHold
    <2> QED
      BY <2>1, <2>2, <2>3 DEF KeyInv
  <1>4. CASE UNCHANGED vars
    BY <1>4 DEF vars, KeyInv, OneRun, Runs, HoldsOwn
  <1> QED
    BY <1>1, <1>2, <1>3, <1>4 DEF Next

LEMMA KeyInit == Init => KeyInv
  BY DEF Init, KeyInv, OneRun, Runs, HoldsOwn, Idle

LEMMA KeyAlways == ASSUME Serial PROVE Spec => []KeyInv
  <1>1. TypeOK /\ KeyInv /\ [Next]_vars => KeyInv'
    BY KeyNext
  <1> QED
    BY <1>1, KeyInit, TypeCorrect, PTL DEF Spec

(* When the runs of a subscriber do not overlap, one that succeeds has the *)
(* keys of its own challenge, whatever earlier runs, ended by whichever    *)
(* failed call, left in "auth-vectors" and "auth-pending".                 *)
THEOREM KeysOwn == ASSUME Serial PROVE Spec => []OwnKeys
  <1>1. KeyInv => OwnKeys
    BY DEF KeyInv, HoldsOwn, OwnKeys
  <1> QED
    BY <1>1, KeyAlways, PTL

-----------------------------------------------------------------------------
(* The sequence numbers of the vectors.                                    *)

\* Once a SEQ has come round nothing is promised; until then the stored SQN
\* has the highest SEQ of all, and the run under way one the USIM has not seen.
Ordered ==
    /\ usim <= seq(sub.sqn)
    /\ \A x \in Auths : auth[x].vec # NoVector => seq(auth[x].vec.sqn) <= seq(sub.sqn)
    /\ \A x \in Auths : auth[x].pc \in {"putVec", "pend", "pPend", "ue"} =>
          usim < seq(auth[x].vec.sqn)
    /\ \A x \in Auths : auth[x].result # "REJECTED"
    /\ SQNAdvances
Unprovisioned ==
    /\ sub = NoSubscriber /\ usim = 0
    /\ \A x \in Auths : /\ auth[x].pc \in {"idle", "get", "done"}
                        /\ auth[x].vec = NoVector /\ auth[x].result # "REJECTED"
FreshInv ==
    /\ provisions = 0 => Unprovisioned
    /\ \A x \in Auths :
          /\ auth[x].pc \in {"idle", "get", "putSub"} => auth[x].vec = NoVector
          /\ auth[x].pc = "putSub" => auth[x].sub.sqn = advanceSQN(sub.sqn)
    /\ CameRound \/ Ordered

\* One provisioning of the subscriber: a second one may set its SQN back.
ProvisionedOnce == MaxProvisions <= 1

LEMMA FreshInit == Init => FreshInv
  <1> SUFFICES ASSUME Init PROVE FreshInv
    OBVIOUS
  <1>1. Unprovisioned
    BY DEF Init, Unprovisioned, Idle
  <1>2. Ordered
    <2>1. seq(sub.sqn) \in Nat
      BY ConstantsAssumption, SeqNat DEF Init, NoSubscriber, SQN
    <2> QED
      BY <2>1 DEF Init, Ordered, SQNAdvances, Idle
  <1> QED
    BY <1>1, <1>2 DEF Init, FreshInv, Idle

LEMMA VectorKept ==
    ASSUME NEW x \in Auths, Alone(x), auth'[x].vec = auth[x].vec \/ auth[x].vec = NoVector
    PROVE  CameRound => CameRound'
  BY DEF CameRound, Alone

LEMMA SubSQN == TypeOK => sub.sqn \in SQN
  BY DEF TypeOK, Subscriber

(* A step of a run that makes no vector and meets no USIM.                 *)
LEMMA FreshQuiet ==
    ASSUME TypeOK, FreshInv, NEW x \in Auths, Alone(x), Keeps(x), UNCHANGED <<sub, usim, provisions>>,
           auth'[x].result # "REJECTED" \/ auth'[x].result = auth[x].result,
           auth'[x].pc \notin {"idle", "get", "putSub", "putVec"},
           auth'[x].pc \in {"pend", "pPend", "ue"} =>
              auth[x].pc \in {"putVec", "pend", "pPend", "ue"},
           provisions = 0 => auth'[x].pc = "done"
    PROVE  FreshInv'
  <1>1. provisions = 0 => Unprovisioned'
    BY DEF FreshInv, Unprovisioned, Alone, Keeps
  <1>2. \A y \in Auths : /\ auth'[y].pc \in {"idle", "get", "putSub"} => auth'[y].vec = NoVector
                         /\ auth'[y].pc = "putSub" => auth'[y].sub.sqn = advanceSQN(sub.sqn)
    BY DEF FreshInv, Alone, Keeps
  <1>3. CameRound => CameRound'
    BY VectorKept DEF Keeps
  <1>4. Ordered => Ordered'
    <2>1. \A y \in Auths : auth'[y].vec = auth[y].vec
      BY DEF Alone, Keeps
    <2> QED
      BY <2>1 DEF Ordered, SQNAdvances, Alone
  <1> QED
    BY <1>1, <1>2, <1>3, <1>4 DEF FreshInv

(* The vector is made with the SQN that was just stored.                   *)
LEMMA FreshIssue ==
    ASSUME TypeOK, KeyInv, FreshInv, NEW x \in Auths, GeneratePutSub(x)
    PROVE  FreshInv'
  <1>0. /\ Alone(x) /\ auth[x].pc = "putSub" /\ auth[x].vec = NoVector
        /\ auth[x].sub.sqn = advanceSQN(sub.sqn)
        /\ UNCHANGED <<usim, provisions>> /\ provisions # 0
    BY GeneratePutSubEffect DEF FreshInv, Unprovisioned
  <1>1. CASE Ends(x, "ERROR") /\ Keeps(x) /\ UNCHANGED sub
    BY <1>0, <1>1, FreshQuiet DEF Ends
  <1>2. CASE /\ sub' = auth[x].sub /\ auth'[x].pc = "putVec"
             /\ auth'[x].result = auth[x].result
             /\ auth'[x].vec = [run |-> x, sqn |-> auth[x].sub.sqn]
    <2> DEFINE n == seq(advanceSQN(sub.sqn))
    <2>1. \A y \in Auths : y # x => auth[y].pc \in {"idle", "done"}
      BY <1>0 DEF KeyInv, OneRun, Runs
    <2>2. \A y \in Auths : /\ auth'[y].pc \in {"idle", "get", "putSub"} => auth'[y].vec = NoVector
                           /\ auth'[y].pc # "putSub"
      BY <1>0, <1>2, <2>1 DEF FreshInv, Alone
    <2>3. /\ seq(sub'.sqn) = n /\ seq(auth'[x].vec.sqn) = n
          /\ n \in Nat /\ seq(sub.sqn) \in Nat
          /\ auth'[x].vec # NoVector
      <3>1. auth'[x].vec # NoVector
        BY <1>2 DEF NoVector
      <3> QED
        BY <1>0, <1>2, <3>1, SubSQN, AdvanceInRange, SeqNat
    <2>4. n = 0 \/ n > seq(sub.sqn)
      BY SubSQN, SeqAdvances
    <2>5. CameRound => CameRound'
      BY <1>0, VectorKept
    <2>6. n = 0 => CameRound'
      BY <2>3 DEF CameRound
    <2>7. ASSUME Ordered, n > seq(sub.sqn) PROVE Ordered'
      <3> HIDE DEF n
      <3>0. usim \in Nat
        BY DEF TypeOK
      <3>1. \A y \in Auths : y # x /\ auth'[y].vec # NoVector =>
               seq(auth'[y].vec.sqn) <= seq(sub.sqn) /\ seq(auth'[y].vec.sqn) \in Nat
        <4>1. ASSUME NEW y \in Auths, auth[y].vec # NoVector
              PROVE  seq(auth[y].vec.sqn) \in Nat
          <5>1. auth[y].vec.sqn \in SQN
            BY <4>1 DEF TypeOK, Run, Vector
          <5> QED
            BY <5>1, SeqNat
        <4> QED
          BY <1>0, <2>7, <4>1 DEF Ordered, Alone
      <3>2. usim' <= seq(sub'.sqn) /\ usim' < n
        BY <1>0, <2>3, <2>7, <3>0 DEF Ordered
      <3>3. \A y \in Auths : auth'[y].vec # NoVector => seq(auth'[y].vec.sqn) <= seq(sub'.sqn)
        BY <2>3, <2>7, <3>1
      <3>4. \A y \in Auths : auth'[y].pc \in {"putVec", "pend", "pPend", "ue"} =>
               usim' < seq(auth'[y].vec.sqn)
        BY <1>0, <2>1, <2>3, <3>2 DEF Alone
      <3>5. \A y \in Auths : auth'[y].result # "REJECTED"
        BY <1>0, <1>2, <2>7 DEF Ordered, Alone
      <3>6. SQNAdvances'
        <4>1. ASSUME NEW y \in Auths, NEW z \in Auths, y # z,
                     auth'[y].vec # NoVector, auth'[z].vec # NoVector
              PROVE  seq(auth'[y].vec.sqn) # seq(auth'[z].vec.sqn)
          <5>1. CASE y = x
            BY <2>3, <2>7, <3>1, <4>1, <5>1
          <5>2. CASE z = x
            BY <2>3, <2>7, <3>1, <4>1, <5>2
          <5>3. CASE y # x /\ z # x
            BY <1>0, <2>7, <4>1, <5>3 DEF Ordered, SQNAdvances, Alone
          <5> QED
            BY <5>1, <5>2, <5>3
        <4> QED
          BY <4>1 DEF SQNAdvances
      <3> QED
        BY <3>2, <3>3, <3>4, <3>5, <3>6 DEF Ordered
    <2> HIDE DEF n
    <2> QED
      BY <1>0, <2>2, <2>4, <2>5, <2>6, <2>7 DEF FreshInv
  <1> QED
    BY <1>1, <1>2, GeneratePutSubEffect

(* The USIM accepts the challenge, unless a SEQ has come round.            *)
LEMMA FreshAnswer ==
    ASSUME TypeOK, KeyInv, FreshInv, NEW x \in Auths, UEAnswers(x)
    PROVE  FreshInv'
  <1> DEFINE n == seq(auth[x].vec.sqn)
  <1>0. /\ Alone(x) /\ Keeps(x) /\ auth[x].pc = "ue" /\ auth'[x].pc = "done"
        /\ \/ n > usim /\ usim' = n /\ Ends(x, "SUCCESS")
           \/ n <= usim /\ usim' = usim /\ Ends(x, "REJECTED")
        /\ UNCHANGED <<sub, provisions>> /\ provisions # 0
    BY UEAnswersEffect DEF Ends, FreshInv, Unprovisioned
  <1>1. \A y \in Auths : y # x => auth[y].pc \in {"idle", "done"}
    BY <1>0 DEF KeyInv, OneRun, Runs
  <1>2. \A y \in Auths : /\ auth'[y].pc \in {"idle", "get", "putSub"} => auth'[y].vec = NoVector
                         /\ auth'[y].pc # "putSub"
    BY <1>0, <1>1 DEF FreshInv, Alone
  <1>3. CameRound => CameRound'
    BY <1>0, VectorKept DEF Keeps
  <1>4. ASSUME Ordered PROVE Ordered'
    <2>0. auth[x].vec \in Vector /\ n \in Nat /\ usim \in Nat /\ auth[x].vec # NoVector
      <3>1. auth[x].vec \in Vector
        BY <1>0 DEF KeyInv, HoldsOwn
      <3>2. auth[x].vec.sqn \in SQN
        BY <3>1 DEF Vector
      <3>3. auth[x].vec # NoVector
        BY <3>1 DEF Vector, NoVector
      <3> QED
        BY <3>1, <3>2, <3>3, SeqNat DEF TypeOK
    <2>1. usim < n /\ n <= seq(sub.sqn)
      BY <1>0, <1>4, <2>0 DEF Ordered
    <2>2. usim' = n /\ auth'[x].result = "SUCCESS"
      BY <1>0, <2>0, <2>1 DEF Ends
    <2>3. \A y \in Auths : auth'[y].vec = auth[y].vec /\ auth'[y].pc \in {"idle", "done"}
      BY <1>0, <1>1 DEF Alone, Keeps
    <2>4. SQNAdvances'
      BY <1>4, <2>3 DEF Ordered, SQNAdvances
    <2>5. \A y \in Auths : auth'[y].result # "REJECTED"
      BY <1>0, <1>4, <2>2 DEF Ordered, Alone
    <2> HIDE DEF n
    <2> QED
      BY <1>0, <1>4, <2>1, <2>2, <2>3, <2>4, <2>5 DEF Ordered
  <1> QED
    BY <1>0, <1>2, <1>3, <1>4 DEF FreshInv

LEMMA FreshStep ==
    ASSUME TypeOK, KeyInv, FreshInv, NEW x \in Auths, Step(x)
    PROVE  FreshInv'
  <1>1. CASE GenerateGet(x)
    <2>1. CASE Ends(x, "ERROR")
      BY <1>1, <2>1, GenerateGetEffect, FreshQuiet DEF Ends
    <2>2. CASE /\ sub # NoSubscriber /\ auth'[x].pc = "putSub"
               /\ auth'[x].result = auth[x].result
               /\ auth'[x].sub.sqn = advanceSQN(sub.sqn)
      <3>1. Alone(x) /\ Keeps(x) /\ auth[x].pc = "get" /\ UNCHANGED <<sub, usim, provisions>>
        BY <1>1, GenerateGetEffect
      <3>2. provisions # 0
        BY <2>2 DEF FreshInv, Unprovisioned
      <3>3. CameRound => CameRound'
        BY <3>1, VectorKept DEF Keeps
      <3>4. \A y \in Auths : auth'[y].vec = auth[y].vec
        BY <3>1 DEF Alone, Keeps
      <3>5. Ordered => Ordered'
        BY <2>2, <3>1, <3>4 DEF Ordered, SQNAdvances, Alone
      <3>6. \A y \in Auths :
               /\ auth'[y].pc \in {"idle", "get", "putSub"} => auth'[y].vec = NoVector
               /\ auth'[y].pc = "putSub" => auth'[y].sub.sqn = advanceSQN(sub.sqn)
        BY <2>2, <3>1 DEF FreshInv, Alone, Keeps
      <3> QED
        BY <3>1, <3>2, <3>3, <3>5, <3>6 DEF FreshInv
    <2> QED
      BY <1>1, <2>1, <2>2, GenerateGetEffect
  <1>2. CASE GeneratePutSub(x)
    BY <1>2, FreshIssue
  <1>3. CASE GeneratePutVector(x)
    BY <1>3, GeneratePutVectorEffect, FreshQuiet DEF Ends, Moves, FreshInv, Unprovisioned
  <1>4. CASE InitiatePut(x)
    BY <1>4, InitiatePutEffect, FreshQuiet DEF Ends, FreshInv, Unprovisioned
  <1>5. CASE RegistrationRead(x)
    BY <1>5, RegistrationReadEffect, FreshQuiet DEF Ends, FreshInv, Unprovisioned
  <1>6. CASE AuthenticateGet(x) \/ AuthenticateDelete(x)
    BY <1>6, AuthenticateEffect, FreshQuiet DEF Ends, Moves, FreshInv, Unprovisioned
  <1>7. CASE ProxyRead(x)
    BY <1>7, ProxyReadEffect, FreshQuiet DEF FreshInv, Unprovisioned
  <1>8. CASE UEAnswers(x)
    BY <1>8, FreshAnswer
  <1> QED
    BY <1>1, <1>2, <1>3, <1>4, <1>5, <1>6, <1>7, <1>8 DEF Step

LEMMA FreshNext ==
    ASSUME Serial, ProvisionedOnce, TypeOK, KeyInv, FreshInv, [Next]_vars
    PROVE  FreshInv'
  <1>1. ASSUME NEW q \in ProvisionSQNs, Provision(q) PROVE FreshInv'
    <2>1. provisions = 0 /\ provisions' # 0
      BY <1>1, ConstantsAssumption DEF Provision, ProvisionedOnce, TypeOK
    <2>2. Unprovisioned /\ UNCHANGED <<usim, auth>> /\ sub'.sqn = q
      BY <1>1, <2>1 DEF FreshInv, Provision
    <2>3. seq(sub'.sqn) \in Nat
      BY <2>2, ConstantsAssumption, SeqNat DEF SQN
    <2>4. Ordered'
      BY <2>2, <2>3 DEF Unprovisioned, Ordered, SQNAdvances
    <2> QED
      BY <2>1, <2>2, <2>4 DEF FreshInv, Unprovisioned
  <1>2. ASSUME NEW x \in Auths, NEW kind \in {"registration", "proxy"}, Begin(x, kind)
        PROVE  FreshInv'
    <2>1. /\ Alone(x) /\ auth[x].pc = "idle" /\ auth'[x].pc = "get"
          /\ auth'[x].vec = auth[x].vec /\ auth'[x].result = auth[x].result
          /\ UNCHANGED <<sub, usim, provisions>>
      BY <1>2, BeginEffect
    <2>2. CameRound => CameRound'
      BY <2>1, VectorKept
    <2>3. \A y \in Auths : auth'[y].vec = auth[y].vec
      BY <2>1 DEF Alone
    <2>4. Ordered => Ordered'
      BY <2>1, <2>3 DEF Ordered, SQNAdvances, Alone
    <2>5. provisions = 0 => Unprovisioned'
      BY <2>1 DEF FreshInv, Unprovisioned, Alone
    <2>6. \A y \in Auths :
             /\ auth'[y].pc \in {"idle", "get", "putSub"} => auth'[y].vec = NoVector
             /\ auth'[y].pc = "putSub" => auth'[y].sub.sqn = advanceSQN(sub.sqn)
      BY <2>1 DEF FreshInv, Alone
    <2> QED
      BY <2>1, <2>2, <2>4, <2>5, <2>6 DEF FreshInv
  <1>3. CASE UNCHANGED vars
    BY <1>3 DEF vars, FreshInv, Unprovisioned, CameRound, Ordered, SQNAdvances
  <1> QED
    BY <1>1, <1>2, <1>3, FreshStep DEF Next

LEMMA FreshAlways == ASSUME Serial, ProvisionedOnce PROVE Spec => []FreshInv
  <1>1. TypeOK /\ KeyInv /\ FreshInv /\ [Next]_vars => FreshInv'
    BY FreshNext
  <1> QED
    BY <1>1, FreshInit, KeyAlways, TypeCorrect, PTL DEF Spec

(* The USIM accepts every challenge of a subscriber provisioned once whose *)
(* runs do not overlap, until the SQN has come round: generate-auth-data   *)
(* stores the advanced SQN before it uses it, so no failed call reuses it. *)
THEOREM ChallengesAccepted ==
    ASSUME Serial, ProvisionedOnce PROVE Spec => []ChallengeAccepted
  <1>1. FreshInv => ChallengeAccepted
    BY DEF FreshInv, Ordered, ChallengeAccepted
  <1> QED
    BY <1>1, FreshAlways, PTL

(* Nor do two vectors have the same SEQ, however many runs there are, up   *)
(* to the first whose SEQ is 0 again.                                      *)
THEOREM SequenceAdvances ==
    ASSUME Serial, ProvisionedOnce PROVE Spec => [](CameRound \/ SQNAdvances)
  <1>1. FreshInv => CameRound \/ SQNAdvances
    BY DEF FreshInv, Ordered
  <1> QED
    BY <1>1, FreshAlways, PTL
=============================================================================
