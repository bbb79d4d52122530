--------------------------- MODULE Authentication ---------------------------
(***************************************************************************)
(* 5G-AKA across the functions that share a subscriber's keys in Redis:    *)
(*     functions/udr/data-write          writes "subscribers/<supi>"       *)
(*     functions/udm/generate-auth-data  advances its SQN, writes          *)
(*                                       "auth-vectors/<supi>"             *)
(*     functions/amf/auth-initiate       writes "auth-pending:<supi>"      *)
(*     functions/ausf/authenticate       compares and deletes the vector   *)
(* as they are called by functions/amf/registration, which plays the UE    *)
(* itself, and by cmd/sctp-proxy, which challenges a real UE.              *)
(*                                                                         *)
(* All keys carry the SUPI, so one subscriber stands for all.  RAND is 16  *)
(* random bytes: a vector is told apart by the run that generated it.      *)
(***************************************************************************)
EXTENDS Integers

CONSTANTS
    Auths,          \* the authentication runs
    Modulus,        \* SQNs are taken modulo 2^48 in the code
    SeqStep,        \* 1 << 5: one SEQ, above the IND bits
    ProvisionSQNs,  \* SQNs a provisioned record may carry
    MaxProvisions,  \* bound on writes of the subscriber record
    Serial,         \* TRUE iff neither runs nor provisioning overlap
    Faults          \* "Get", "Put", "Delete": Redis; "SBI": a lost reply

ASSUME ConstantsAssumption ==
    /\ Modulus \in Nat \ {0}
    /\ SeqStep \in Nat \ {0}
    /\ ProvisionSQNs \subseteq 0 .. Modulus - 1
    /\ MaxProvisions \in Nat
    /\ Serial \in BOOLEAN
    /\ Faults \subseteq {"Get", "Put", "Delete", "SBI"}

SQN == 0 .. Modulus - 1

\* Mutant of advanceSQN: one IND step instead of one SEQ step.
advanceSQNByOne(sqn) == (sqn + 1) % Modulus

advanceSQN(sqn) == (sqn + SeqStep) % Modulus

\* The part of an SQN the USIM orders challenges by.
seq(sqn) == sqn \div SeqStep

\* The subscriber record: profile is the provisioning that wrote it, 0 none.
Subscriber == [sqn : SQN, profile : 0 .. MaxProvisions]
NoSubscriber == [sqn |-> 0, profile |-> 0]

\* An authentication vector: RAND, XRES* and KAUSF all follow from the run.
Vector == [run : Auths, sqn : SQN]
NoVector == [sqn |-> 0]

VARIABLES
    sub,         \* Redis "subscribers/<supi>"
    vectors,     \* Redis "auth-vectors/<supi>"
    pending,     \* Redis "auth-pending:<supi>"
    usim,        \* the highest SEQ the USIM has accepted
    provisions,  \* writes of the subscriber record so far
    auth         \* the runs

vars == <<sub, vectors, pending, usim, provisions, auth>>

\* sub and vec are what the run has read and made, key what it authenticates
\* with; stored is history: its write of auth-pending got through.
PC == {"idle", "get", "putSub", "putVec", "pend", "rVec", "aGet", "aDel",
       "pPend", "ue", "done"}
Results == {"none", "ERROR", "FAILURE", "SUCCESS", "REJECTED"}
Run == [pc : PC, kind : {"registration", "proxy"}, result : Results,
        sub : Subscriber, vec : Vector \cup {NoVector},
        key : Vector \cup {NoVector}, stored : BOOLEAN]
Idle == [pc |-> "idle", kind |-> "registration", result |-> "none",
         sub |-> NoSubscriber, vec |-> NoVector, key |-> NoVector,
         stored |-> FALSE]

TypeOK ==
    /\ sub \in Subscriber
    /\ vectors \in Vector \cup {NoVector}
    /\ pending \in Vector \cup {NoVector}
    /\ usim \in Nat
    /\ provisions \in 0 .. MaxProvisions
    /\ auth \in [Auths -> Run]

Init ==
    /\ sub = NoSubscriber
    /\ vectors = NoVector
    /\ pending = NoVector
    /\ usim = 0
    /\ provisions = 0
    /\ auth = [x \in Auths |-> Idle]

Runs(x) == auth[x].pc \notin {"idle", "done"}
Quiet == \A x \in Auths : ~Runs(x)

At(x, pc) == [auth EXCEPT ![x].pc = pc]
End(x, result) == [auth EXCEPT ![x].pc = "done", ![x].result = result]

\* udr/data-write stores the record it is given, its SQN included.
Provision(q) ==
    /\ provisions < MaxProvisions
    /\ Serial => Quiet
    /\ provisions' = provisions + 1
    /\ sub' = [sqn |-> q, profile |-> provisions + 1]
    /\ UNCHANGED <<vectors, pending, usim, auth>>

\* A registration, or the proxy for an InitialUEMessage, calls auth-initiate.
Begin(x, kind) ==
    /\ auth[x].pc = "idle"
    /\ Serial => Quiet
    /\ auth' = [auth EXCEPT ![x].pc = "get", ![x].kind = kind]
    /\ UNCHANGED <<sub, vectors, pending, usim, provisions>>

-----------------------------------------------------------------------------
(* udm/generate-auth-data: an error at any step is an error of the run.    *)

GenerateGet(x) ==
    /\ auth[x].pc = "get"
    /\ \/ /\ sub # NoSubscriber
          /\ auth' = [auth EXCEPT ![x].pc = "putSub",
                                  ![x].sub = [sub EXCEPT !.sqn = advanceSQN(@)]]
       \/ sub = NoSubscriber /\ auth' = End(x, "ERROR")
       \/ "Get" \in Faults /\ auth' = End(x, "ERROR")
    /\ UNCHANGED <<sub, vectors, pending, usim, provisions>>

\* The vector with the advanced SQN, which is used only if that was stored.
Issue(x) == [auth EXCEPT ![x].pc = "putVec",
                         ![x].vec = [run |-> x, sqn |-> auth[x].sub.sqn]]

\* Mutants of GeneratePutSub: the advanced SQN is not written back, and the
\* record that is written back has lost what provisioning put there.
GenerateNoPut(x) ==
    /\ auth[x].pc = "putSub"
    /\ auth' = Issue(x)
    /\ UNCHANGED <<sub, vectors, pending, usim, provisions>>
GeneratePutBare(x) ==
    /\ auth[x].pc = "putSub"
    /\ sub' = [auth[x].sub EXCEPT !.profile = 0]
    /\ auth' = Issue(x)
    /\ UNCHANGED <<vectors, pending, usim, provisions>>

\* The whole record is written back, with the advanced SQN.
GeneratePutSub(x) ==
    /\ auth[x].pc = "putSub"
    /\ \/ sub' = auth[x].sub /\ auth' = Issue(x)
       \/ "Put" \in Faults /\ auth' = End(x, "ERROR") /\ UNCHANGED sub
    /\ UNCHANGED <<vectors, pending, usim, provisions>>

GeneratePutVector(x) ==
    /\ auth[x].pc = "putVec"
    /\ \/ vectors' = auth[x].vec /\ auth' = At(x, "pend")
       \/ "Put" \in Faults /\ auth' = End(x, "ERROR") /\ UNCHANGED vectors
    /\ UNCHANGED <<sub, pending, usim, provisions>>

\* Mutant of InitiatePut: what is pending already is not replaced.
InitiateKeepPending(x) ==
    /\ auth[x].pc = "pend"
    /\ auth' = [auth EXCEPT ![x].stored = TRUE,
                  ![x].pc = IF auth[x].kind = "proxy" THEN "pPend" ELSE "rVec"]
    /\ pending' = IF pending = NoVector THEN auth[x].vec ELSE pending
    /\ UNCHANGED <<sub, vectors, usim, provisions>>

\* amf/auth-initiate stores XRES* and KAUSF, ignoring an error, and answers
\* with RAND and AUTN; or the UDM's reply never came and it answers 500.
InitiatePut(x) ==
    LET next == IF auth[x].kind = "proxy" THEN "pPend" ELSE "rVec" IN
    /\ auth[x].pc = "pend"
    /\ \/ /\ pending' = auth[x].vec
          /\ auth' = [auth EXCEPT ![x].pc = next, ![x].stored = TRUE]
       \/ "Put" \in Faults /\ auth' = At(x, next) /\ UNCHANGED pending
       \/ "SBI" \in Faults /\ auth' = End(x, "ERROR") /\ UNCHANGED pending
    /\ UNCHANGED <<sub, vectors, usim, provisions>>

-----------------------------------------------------------------------------
(* amf/registration answers for the UE with the XRES* of the stored vector.*)

RegistrationRead(x) ==
    /\ auth[x].pc = "rVec"
    /\ \/ vectors # NoVector /\ auth' = [auth EXCEPT ![x].pc = "aGet", ![x].key = vectors]
       \/ vectors = NoVector /\ auth' = End(x, "ERROR")
       \/ "Get" \in Faults /\ auth' = End(x, "ERROR")
    /\ UNCHANGED <<sub, vectors, pending, usim, provisions>>

\* ausf/authenticate: no vector is an error, a wrong RES* a FAILURE.
AuthenticateGet(x) ==
    /\ auth[x].pc = "aGet"
    /\ \/ vectors # NoVector /\ vectors = auth[x].key /\ auth' = At(x, "aDel")
       \/ vectors # NoVector /\ vectors # auth[x].key /\ auth' = End(x, "FAILURE")
       \/ vectors = NoVector /\ auth' = End(x, "ERROR")
       \/ "Get" \in Faults /\ auth' = End(x, "ERROR")
    /\ UNCHANGED <<sub, vectors, pending, usim, provisions>>

\* The vector is deleted, whatever Redis says; the reply may be lost.
AuthenticateDelete(x) ==
    /\ auth[x].pc = "aDel"
    /\ \/ vectors' = NoVector
       \/ "Delete" \in Faults /\ UNCHANGED vectors
    /\ \/ auth' = End(x, "SUCCESS")
       \/ "SBI" \in Faults /\ auth' = End(x, "ERROR")
    /\ UNCHANGED <<sub, pending, usim, provisions>>

-----------------------------------------------------------------------------
(* The proxy takes XRES* and KAUSF from Redis; without them it goes on.    *)

ProxyRead(x) ==
    /\ auth[x].pc = "pPend"
    /\ \/ auth' = [auth EXCEPT ![x].pc = "ue", ![x].key = pending]
       \/ "Get" \in Faults /\ auth' = At(x, "ue")
    /\ UNCHANGED <<sub, vectors, pending, usim, provisions>>

\* The UE is challenged with the run's own RAND and AUTN: the USIM accepts a
\* SEQ above all it has accepted.  Its RES* is that of the run's vector; the
\* proxy logs a mismatch with XRES* and goes on with the keys it has.
UEAnswers(x) ==
    LET n == seq(auth[x].vec.sqn) IN
    /\ auth[x].pc = "ue"
    /\ \/ n > usim /\ usim' = n /\ auth' = End(x, "SUCCESS")
       \/ n <= usim /\ auth' = End(x, "REJECTED") /\ UNCHANGED usim
    /\ UNCHANGED <<sub, vectors, pending, provisions>>

-----------------------------------------------------------------------------
Step(x) ==
    \/ GenerateGet(x) \/ GeneratePutSub(x) \/ GeneratePutVector(x) \/ InitiatePut(x)
    \/ RegistrationRead(x) \/ AuthenticateGet(x) \/ AuthenticateDelete(x)
    \/ ProxyRead(x) \/ UEAnswers(x)

Next ==
    \/ \E q \in ProvisionSQNs : Provision(q)
    \/ \E x \in Auths : Step(x) \/ \E kind \in {"registration", "proxy"} : Begin(x, kind)

Spec == Init /\ [][Next]_vars

-----------------------------------------------------------------------------
(* What makes authentication correct.                                      *)

(* No two vectors of a subscriber have the same SEQ, those of runs that    *)
(* failed later included: generate-auth-data says it will "persist the     *)
(* advanced SQN so the next vector uses a strictly higher SEQ".            *)
SQNAdvances ==
    \A x, y \in Auths :
        x # y /\ auth[x].vec # NoVector /\ auth[y].vec # NoVector =>
          seq(auth[x].vec.sqn) # seq(auth[y].vec.sqn)

(* The USIM accepts every challenge the proxy sends, until the 48 bits of  *)
(* the SQN have come round: the AUTN "carries a SEQ the USIM will accept". *)
CameRound == \E x \in Auths : auth[x].vec # NoVector /\ seq(auth[x].vec.sqn) = 0
ChallengeAccepted ==
    CameRound \/ \A x \in Auths : auth[x].result # "REJECTED"

(* A run that succeeds ends with the keys of its own challenge, and not of *)
(* another run's, however those ended; but for a proxy whose auth-pending  *)
(* was never written, which finds what an earlier run left there.          *)
OwnKeys ==
    \A x \in Auths :
        /\ auth[x].result = "SUCCESS" /\ auth[x].key # NoVector
        /\ auth[x].kind = "registration" \/ auth[x].stored
        => auth[x].key.run = x

(* Advancing the SQN never undoes a provisioning of the subscriber.        *)
ProfileKept ==
    [][provisions' = provisions => sub'.profile = sub.profile]_vars
=============================================================================
