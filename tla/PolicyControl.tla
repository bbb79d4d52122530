--------------------------- MODULE PolicyControl ---------------------------
(***************************************************************************)
(* The PCF: functions/pcf/policy-create and policy-get.                    *)
(*                                                                         *)
(* Policy identifiers are the SUPI and a package counter that has no lock: *)
(* policyCounter++ is a load and a store that others may come between, and *)
(* the identifier is formatted from the counter as it is read again, or    *)
(* from the value just stored, whichever the build does.  A restarted      *)
(* function counts from 0 again.                                           *)
(***************************************************************************)
EXTENDS Naturals, FiniteSets

CONSTANTS
    Supis,       \* subscribers
    SSTs,        \* slice types of the requests
    Configured,  \* [slice type -> configured policy], for some of the types
    MaxCreates,  \* bound: requests to policy-create
    MaxBusy,     \* bound: requests in progress at once
    MaxRestarts  \* bound: restarts of the function

VARIABLES
    counter,   \* policyCounter
    active,    \* active-policies: a set of <<identifier, decision>>, one for each identifier
    create,    \* [Creates -> the request's progress]
    epoch,     \* restarts so far
    got,       \* the last answer of policy-get, until something changes
    crowded    \* history: epochs in which two requests were in progress at once
pcfVars == <<counter, active, create, epoch, got, crowded>>

defaultPolicies == [sst \in 1 .. 3 |-> CASE sst = 1 -> "eMBB" [] sst = 2 -> "URLLC" [] sst = 3 -> "mMTC"]
Default(sst) == defaultPolicies[IF sst \in DOMAIN defaultPolicies THEN sst ELSE 1]

Creates == 1 .. MaxCreates  \* requests, in the order they come
New == [pc |-> "new"]
NotAsked == [pc |-> "none"]
Busy(c) == create[c].pc \in {"load", "store", "id", "put"}

PCFInit ==
    /\ counter = 0 /\ active = {} /\ epoch = 0 /\ got = NotAsked /\ crowded = {}
    /\ create = [c \in Creates |-> New]

Step(c, r) == create' = [create EXCEPT ![c] = r]

\* The configured policy, or the default of the slice type when it is not
\* there or cannot be read.
CreateStart(c, supi, sst, ok) ==
    /\ create[c] = New /\ \A d \in 1 .. c - 1 : create[d] # New
    /\ Cardinality({d \in Creates : Busy(d)}) < MaxBusy
    /\ Step(c, [pc |-> "load", supi |-> supi, epoch |-> epoch, n |-> 0, stored |-> FALSE,
                policy |-> IF ok /\ sst \in DOMAIN Configured THEN Configured[sst] ELSE Default(sst)])
    /\ crowded' = IF \E d \in Creates : Busy(d) THEN crowded \cup {epoch} ELSE crowded
    /\ UNCHANGED <<counter, active, epoch>>

CreateLoad(c) ==
    /\ create[c].pc = "load"
    /\ Step(c, [create[c] EXCEPT !.pc = "store", !.n = counter + 1])
    /\ UNCHANGED <<counter, active, epoch, crowded>>

CreateStore(c) ==
    /\ create[c].pc = "store"
    /\ counter' = create[c].n
    /\ Step(c, [create[c] EXCEPT !.pc = "id"])
    /\ UNCHANGED <<active, epoch, crowded>>

\* The number in the identifier: the stored value or the counter read again.
CreateID(c, reread) ==
    /\ create[c].pc = "id"
    /\ Step(c, [create[c] EXCEPT !.pc = "put", !.n = IF reread THEN counter ELSE @])
    /\ UNCHANGED <<counter, active, epoch, crowded>>

\* Mutant of PolicyID: the counter alone.
PolicyIDNoSUPI(r) == <<"pol", r.n>>

PolicyID(r) == <<r.supi, r.n>>

Decision(r) == [supi |-> r.supi, policy |-> r.policy]

\* An error of the put is not looked at: the answer is 201 all the same.
CreatePut(c, ok) ==
    /\ create[c].pc = "put"
    /\ active' = IF ok THEN {a \in active : a[1] # PolicyID(create[c])}
                              \cup {<<PolicyID(create[c]), Decision(create[c])>>}
                 ELSE active
    /\ Step(c, [create[c] EXCEPT !.pc = "created", !.stored = ok])
    /\ UNCHANGED <<counter, epoch, crowded>>

\* policy-get with an identifier that was answered.
PolicyGet(c, ok) ==
    /\ create[c].pc = "created" /\ got = NotAsked
    /\ got' = [pc |-> "answer", create |-> c,
               code |-> IF ~ok THEN 500
                        ELSE IF \E a \in active : a[1] = PolicyID(create[c]) THEN 200 ELSE 404,
               decisions |-> {a[2] : a \in {b \in active : b[1] = PolicyID(create[c])}}]
    /\ UNCHANGED <<counter, active, create, epoch, crowded>>

\* A replica is replaced: its requests end without an answer.
PCFRestart ==
    /\ epoch < MaxRestarts
    /\ epoch' = epoch + 1 /\ counter' = 0
    /\ create' = [c \in Creates |-> IF Busy(c) THEN [create[c] EXCEPT !.pc = "lost"] ELSE create[c]]
    /\ UNCHANGED <<active, crowded>>

Forget == got' = NotAsked

PCFNext ==
    \/ /\ Forget
       /\ \E c \in Creates :
            \/ \E supi \in Supis, sst \in SSTs, ok \in BOOLEAN : CreateStart(c, supi, sst, ok)
            \/ CreateLoad(c)
            \/ CreateStore(c)
            \/ \E reread \in BOOLEAN : CreateID(c, reread)
            \/ \E ok \in BOOLEAN : CreatePut(c, ok)
    \/ \E c \in Creates, ok \in BOOLEAN : PolicyGet(c, ok)
    \/ PCFRestart /\ Forget

-----------------------------------------------------------------------------
Created == {c \in Creates : create[c].pc = "created"}

\* However its requests interleave, the PCF never answers two subscribers with
\* one identifier, and one subscriber twice with the same only after a restart
\* or when requests overlapped; policy-get then returns, for an identifier that
\* was stored and not given out again, the decision made for that request, and
\* a decision of the same subscriber in every other case (the unlocked
\* policyCounter, the put whose error is dropped).
PolicyKept ==
    /\ \A c, d \in Created :
          c # d /\ PolicyID(create[c]) = PolicyID(create[d]) =>
             /\ create[c].supi = create[d].supi
             /\ create[c].epoch # create[d].epoch \/ create[c].epoch \in crowded
    /\ got.pc = "answer" =>
          LET r == create[got.create]
              Again == {d \in Created \ {got.create} : PolicyID(create[d]) = PolicyID(r)}
          IN /\ \A d \in got.decisions : d.supi = r.supi
             /\ r.stored /\ Again = {} => got.decisions = {Decision(r)}
             /\ got.code = 404 => ~r.stored
=============================================================================
