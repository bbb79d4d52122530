------------------------------ MODULE Charging ------------------------------
(***************************************************************************)
(* The charging function, functions/chf: charging-create opens a session   *)
(* under "charging-sessions/<id>", charging-update adds reported usage to  *)
(* it and extends its quota, charging-release turns it into a charging     *)
(* data record under "charging-records/cdr-<id>" and deletes it.           *)
(*                                                                         *)
(* A request is a process; each of its Redis commands is a step.  Uplink   *)
(* and downlink volume are always added up before they are compared, so    *)
(* that one number stands for both.  The functions are enabled; a request  *)
(* that is malformed ends before its first step and is left out.           *)
(***************************************************************************)
EXTENDS Integers, FiniteSets

CONSTANTS
    Reqs,                 \* the requests
    Supis,                \* subscribers
    Volumes,              \* volumes a usage report may carry
    DefaultGrantedUnits,  \* 1000000 in the code, and so is
    QuotaIncrement,
    MaxID,                \* bound on chargingCounter
    MaxRestarts,          \* bound on restarts of charging-create
    Serial,               \* TRUE iff requests on a session do not overlap
    Faults,               \* "Get", "Put", "Delete": Redis; "Crash", "Reply"
    None

ASSUME ConstantsAssumption ==
    /\ Volumes \subseteq Nat
    /\ DefaultGrantedUnits \in Nat /\ QuotaIncrement \in Nat
    /\ MaxID \in Nat /\ MaxRestarts \in Nat
    /\ Serial \in BOOLEAN
    /\ Faults \subseteq {"Get", "Put", "Delete", "Crash", "Reply"}

\* "chg-<supi>-<n>"
ChargingIDs == Supis \X (1 .. MaxID)

ChargingSession == [used : Nat, granted : Nat]
Opened == [used |-> 0, granted |-> DefaultGrantedUnits]
NoSession == [used |-> 0, granted |-> -1]

\* The volume in a charging data record.
NoRecord == -1

VARIABLES
    sessions,         \* Redis "charging-sessions/<id>"
    records,          \* Redis "charging-records/cdr-<id>"
    chargingCounter,  \* of the process that serves charging-create
    restarts,         \* its restarts so far
    req               \* the requests

vars == <<sessions, records, chargingCounter, restarts, req>>

\* "lost": the request took effect and its reply did not arrive.
PC == {"idle", "cPut", "uGet", "uPut", "rGet", "rPut", "rDel",
       "done", "crashed", "lost"}
Kinds == {"none", "create", "update", "release"}
Request == [kind : Kinds, pc : PC, code : {0, 200, 201, 404, 500},
            id : ChargingIDs \cup {None}, vol : Volumes \cup {0},
            ses : ChargingSession \cup {NoSession}]
Idle == [kind |-> "none", pc |-> "idle", code |-> 0, id |-> None, vol |-> 0,
         ses |-> NoSession]

TypeOK ==
    /\ sessions \in [ChargingIDs -> ChargingSession \cup {NoSession}]
    /\ records \in [ChargingIDs -> Nat \cup {NoRecord}]
    /\ chargingCounter \in 0 .. MaxID
    /\ restarts \in 0 .. MaxRestarts
    /\ req \in [Reqs -> Request]

Init ==
    /\ sessions = [i \in ChargingIDs |-> NoSession]
    /\ records = [i \in ChargingIDs |-> NoRecord]
    /\ chargingCounter = 0
    /\ restarts = 0
    /\ req = [x \in Reqs |-> Idle]

Runs(x) == req[x].pc \notin {"idle", "done", "crashed", "lost"}

\* The identifiers clients have been told.
Issued == {req[x].id : x \in {y \in Reqs : req[y].code = 201}}
Busy(i) == \E x \in Reqs : Runs(x) /\ req[x].id = i

At(x, pc) == [req EXCEPT ![x].pc = pc]
Reply(x, code) == [req EXCEPT ![x].pc = "done", ![x].code = code]

\* The last step of a request has taken effect: the client learns it, or not.
Answer(x, code) ==
    \/ req' = Reply(x, code)
    \/ "Reply" \in Faults /\ req' = At(x, "lost")

Store(i, s) == sessions' = [sessions EXCEPT ![i] = s]

-----------------------------------------------------------------------------
(* charging-create                                                         *)

CreateStart(x, u) ==
    /\ req[x].pc = "idle"
    /\ chargingCounter < MaxID
    /\ chargingCounter' = chargingCounter + 1
    /\ req' = [req EXCEPT ![x] = [@ EXCEPT !.kind = "create", !.pc = "cPut",
                                           !.id = <<u, chargingCounter + 1>>]]
    /\ UNCHANGED <<sessions, records, restarts>>

CreatePut(x) ==
    /\ req[x].pc = "cPut"
    /\ \/ Store(req[x].id, Opened) /\ Answer(x, 201)
       \/ "Put" \in Faults /\ req' = Reply(x, 500) /\ UNCHANGED sessions
    /\ UNCHANGED <<records, chargingCounter, restarts>>

\* The process that serves charging-create starts afresh.
Restart ==
    /\ restarts < MaxRestarts
    /\ restarts' = restarts + 1
    /\ chargingCounter' = 0
    /\ req' = [x \in Reqs |-> IF req[x].pc = "cPut"
                                THEN [req[x] EXCEPT !.pc = "crashed"] ELSE req[x]]
    /\ UNCHANGED <<sessions, records>>

-----------------------------------------------------------------------------
(* charging-update and charging-release                                    *)

Start(x, kind, i, v, pc) ==
    /\ req[x].pc = "idle"
    /\ Serial => ~Busy(i)
    /\ req' = [req EXCEPT ![x] = [@ EXCEPT !.kind = kind, !.pc = pc, !.id = i, !.vol = v]]
    /\ UNCHANGED <<sessions, records, chargingCounter, restarts>>

UpdateStart(x, i, v) == Start(x, "update", i, v, "uGet")
ReleaseStart(x, i) == Start(x, "release", i, 0, "rGet")

\* Both read the session first, and answer 404 when there is none.
Get(x, from, to, s) ==
    /\ req[x].pc = from
    /\ \/ /\ sessions[req[x].id] # NoSession
          /\ req' = [req EXCEPT ![x].pc = to, ![x].ses = s]
       \/ sessions[req[x].id] = NoSession /\ req' = Reply(x, 404)
       \/ "Get" \in Faults /\ req' = Reply(x, 500)
    /\ UNCHANGED <<sessions, records, chargingCounter, restarts>>

\* Mutant of Charge: the quota is extended when usage has just reached it.
ChargeEarly(s, v) ==
    [used |-> s.used + v,
     granted |-> IF s.used + v >= s.granted THEN s.granted + QuotaIncrement ELSE s.granted]

\* Add the reported volume; extend the quota, once, when it is exceeded.
Charge(s, v) ==
    [used |-> s.used + v,
     granted |-> IF s.used + v > s.granted THEN s.granted + QuotaIncrement ELSE s.granted]

\* Mutant of UpdateGet: a missing session is taken for a fresh one.
UpdateGetUpsert(x) ==
    /\ req[x].pc = "uGet"
    /\ req' = [req EXCEPT ![x].pc = "uPut",
                 ![x].ses = Charge(IF sessions[req[x].id] = NoSession
                                     THEN Opened ELSE sessions[req[x].id], req[x].vol)]
    /\ UNCHANGED <<sessions, records, chargingCounter, restarts>>

UpdateGet(x) == Get(x, "uGet", "uPut", Charge(sessions[req[x].id], req[x].vol))

UpdatePut(x) ==
    /\ req[x].pc = "uPut"
    /\ \/ Store(req[x].id, req[x].ses) /\ Answer(x, 200)
       \/ "Put" \in Faults /\ req' = Reply(x, 500) /\ UNCHANGED sessions
    /\ UNCHANGED <<records, chargingCounter, restarts>>

ReleaseGet(x) == Get(x, "rGet", "rPut", sessions[req[x].id])

\* Mutant of ReleasePut: the session goes although its record is not stored.
ReleasePutIgnored(x) ==
    /\ req[x].pc = "rPut"
    /\ \/ records' = [records EXCEPT ![req[x].id] = req[x].ses.used]
       \/ "Put" \in Faults /\ UNCHANGED records
    /\ req' = At(x, "rDel")
    /\ UNCHANGED <<sessions, chargingCounter, restarts>>

\* The record is stored, replacing one of an earlier attempt ...
ReleasePut(x) ==
    /\ req[x].pc = "rPut"
    /\ \/ /\ records' = [records EXCEPT ![req[x].id] = req[x].ses.used]
          /\ req' = At(x, "rDel")
       \/ "Put" \in Faults /\ req' = Reply(x, 500) /\ UNCHANGED records
    /\ UNCHANGED <<sessions, chargingCounter, restarts>>

\* ... before the session is deleted.
ReleaseDelete(x) ==
    /\ req[x].pc = "rDel"
    /\ \/ Store(req[x].id, NoSession) /\ Answer(x, 200)
       \/ "Delete" \in Faults /\ req' = Reply(x, 500) /\ UNCHANGED sessions
    /\ UNCHANGED <<records, chargingCounter, restarts>>

\* The process that serves an update or a release dies.
Crash(x) ==
    /\ "Crash" \in Faults
    /\ Runs(x) /\ req[x].kind # "create"
    /\ req' = At(x, "crashed")
    /\ UNCHANGED <<sessions, records, chargingCounter, restarts>>

-----------------------------------------------------------------------------
Step(x) ==
    \/ CreatePut(x) \/ UpdateGet(x) \/ UpdatePut(x)
    \/ ReleaseGet(x) \/ ReleasePut(x) \/ ReleaseDelete(x) \/ Crash(x)

Next ==
    \/ Restart
    \/ \E x \in Reqs :
         \/ Step(x)
         \/ \E u \in Supis : CreateStart(x, u)
         \/ \E i \in Issued : ReleaseStart(x, i) \/ \E v \in Volumes : UpdateStart(x, i, v)

Spec == Init /\ [][Next]_vars

-----------------------------------------------------------------------------
(* What makes charging correct, as long as an identifier names one         *)
(* session: charging-create gives them out again when it restarts.         *)

NamesFresh ==
    \/ restarts = 0
    \/ \A x, y \in Reqs :
         req[x].kind = "create" /\ req[y].kind = "create" /\ x # y => req[x].id # req[y].id

\* The units of volume in the reports on i that took effect.
Units(i) ==
    UNION {{x} \X (1 .. req[x].vol) :
             x \in {y \in Reqs : /\ req[y].id = i /\ req[y].kind = "update"
                                 /\ req[y].code = 200 \/ req[y].pc = "lost"}}
Reported(i) == Cardinality(Units(i))

(* Each report that took effect is charged exactly once, and none that was *)
(* answered with an error: by the session while there is one, and by its   *)
(* charging data record from then on, whatever failed in between.          *)
UsageCharged ==
    NamesFresh =>
      \A i \in Issued :
        Reported(i) = IF sessions[i] # NoSession THEN sessions[i].used ELSE records[i]

(* When a session has been turned into a record, neither changes again: no *)
(* late report brings the session back, no repeated release rewrites it.   *)
RecordFinal ==
    [][NamesFresh' =>
         \A i \in ChargingIDs :
           records[i] # NoRecord /\ sessions[i] = NoSession =>
             records'[i] = records[i] /\ sessions'[i] = NoSession]_vars

(* "Grants additional quota when usage exceeds the limit": as long as no   *)
(* report is larger than the increment, a session's quota covers its usage *)
(* and was never extended without need.                                    *)
QuotaFollowsUsage ==
    (\A v \in Volumes : v <= QuotaIncrement) =>
      \A i \in ChargingIDs :
        sessions[i] # NoSession =>
          /\ sessions[i].used <= sessions[i].granted
          /\ \/ sessions[i].granted = DefaultGrantedUnits
             \/ sessions[i].used > sessions[i].granted - QuotaIncrement
=============================================================================
