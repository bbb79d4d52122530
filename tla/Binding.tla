------------------------------ MODULE Binding -------------------------------
(***************************************************************************)
(* The binding support function, functions/bsf.  binding-register stores a *)
(* record under "bsf-bindings/<id>" and two indexes that lead to it,       *)
(* "bsf-by-ip/<address>" and "bsf-by-supi/<supi>/<dnn>"; binding-deregister*)
(* removes the three keys; binding-discover follows an index.              *)
(*                                                                         *)
(* A request is a process; each of its Redis commands is a step.  The      *)
(* functions are enabled; a request that is malformed ends before its      *)
(* first step and is left out.                                             *)
(***************************************************************************)
EXTENDS Integers, FiniteSets

CONSTANTS
    Reqs,         \* the requests
    Supis, Dnns,  \* subscribers and data networks
    Addrs,        \* UE addresses
    MaxID,        \* bound on registrations, and with it on bindingCounter
    MaxRestarts,  \* bound on restarts of binding-register
    Serial,       \* TRUE iff clients keep to Free and Closable below
    Faults,       \* "Get", "Put", "Delete": Redis; "Crash", "Reply"
    None

\* "bsf-<supi>-<n>"
BindingIDs == Supis \X (1 .. MaxID)

\* An index key is an address, or a subscriber and a data network.
SupiKeys == Supis \X Dnns

ASSUME ConstantsAssumption ==
    /\ IsFiniteSet(Reqs)
    /\ MaxID \in Nat /\ MaxRestarts \in Nat
    /\ Serial \in BOOLEAN
    /\ Faults \subseteq {"Get", "Put", "Delete", "Crash", "Reply"}
    /\ None \notin Addrs \cup BindingIDs
    /\ Addrs \cap SupiKeys = {}

PCFBinding == [supi : Supis, dnn : Dnns, ip : Addrs \cup {None}]
NoBinding == [ip |-> None]
supiKey(b) == <<b.supi, b.dnn>>

VARIABLES
    bindings,        \* Redis "bsf-bindings/<id>"
    byIP,            \* Redis "bsf-by-ip/<address>"
    bySupi,          \* Redis "bsf-by-supi/<supi>/<dnn>"
    kept,            \* history: index keys that a failed delete has left
    bindingCounter,  \* of the process that serves binding-register
    restarts,        \* its restarts so far
    req              \* the requests

keys == <<bindings, byIP, bySupi, kept>>
vars == <<bindings, byIP, bySupi, kept, bindingCounter, restarts, req>>

\* "lost": the request took effect and its reply did not arrive.
PC == {"idle", "rPut", "rIP", "rSupi", "dGet", "dIP", "dSupi", "dDel",
       "qIP", "qSupi", "qGet", "done", "crashed", "lost"}
Request == [kind : {"none", "register", "deregister", "discover"}, pc : PC,
            code : {0, 200, 201, 404, 500}, id : BindingIDs \cup {None},
            rec : PCFBinding \cup {NoBinding}, ask : Addrs \cup SupiKeys \cup {None}]
Idle == [kind |-> "none", pc |-> "idle", code |-> 0, id |-> None,
         rec |-> NoBinding, ask |-> None]

TypeOK ==
    /\ bindings \in [BindingIDs -> PCFBinding \cup {NoBinding}]
    /\ byIP \in [Addrs -> BindingIDs \cup {None}]
    /\ bySupi \in [SupiKeys -> BindingIDs \cup {None}]
    /\ kept \subseteq Addrs \cup SupiKeys
    /\ bindingCounter \in 0 .. MaxID
    /\ restarts \in 0 .. MaxRestarts
    /\ req \in [Reqs -> Request]

Init ==
    /\ bindings = [i \in BindingIDs |-> NoBinding]
    /\ byIP = [a \in Addrs |-> None]
    /\ bySupi = [k \in SupiKeys |-> None]
    /\ kept = {}
    /\ bindingCounter = 0
    /\ restarts = 0
    /\ req = [x \in Reqs |-> Idle]

Runs(x) == req[x].pc \notin {"idle", "done", "crashed", "lost"}
At(x, pc) == [req EXCEPT ![x].pc = pc]
Reply(x, code) == [req EXCEPT ![x].pc = "done", ![x].code = code]

\* The last step of a request has taken effect: the client learns it, or not.
Answer(x, code) ==
    \/ req' = Reply(x, code)
    \/ "Reply" \in Faults /\ req' = At(x, "lost")

-----------------------------------------------------------------------------
(* Clients.  A binding is in use from its registration until a             *)
(* deregistration has been answered.                                       *)

Registrations == Cardinality({x \in Reqs : req[x].kind = "register"})
Deregisters(y, x) == req[y].kind = "deregister" /\ req[y].id = req[x].id
Bound(x) == req[x].kind = "register" /\ req[x].code = 201
InUse(x) ==
    \/ req[x].kind = "register" /\ Runs(x)
    \/ Bound(x) /\ ~\E y \in Reqs : Deregisters(y, x) /\ req[y].code \in {200, 404}

\* Nobody else uses the address, or is the subscriber's binding for the DNN.
Free(b) ==
    \A x \in Reqs :
        InUse(x) => /\ b.ip = None \/ req[x].rec.ip # b.ip
                    /\ supiKey(req[x].rec) # supiKey(b)

\* Whose binding this is has not been told that it is gone, and asks once.
Closable(x) == InUse(x) /\ ~\E y \in Reqs : Deregisters(y, x) /\ Runs(y)

-----------------------------------------------------------------------------
(* binding-register                                                        *)

RegisterStart(x, b) ==
    /\ req[x].pc = "idle"
    /\ Serial => Free(b)
    /\ Registrations < MaxID
    /\ bindingCounter' = bindingCounter + 1
    /\ req' = [req EXCEPT ![x] = [@ EXCEPT !.kind = "register", !.pc = "rPut",
                                           !.id = <<b.supi, bindingCounter + 1>>, !.rec = b]]
    /\ UNCHANGED <<keys, restarts>>

\* A write that fails ends the request; what it has stored so far stays.
RegisterPut(x) ==
    /\ req[x].pc = "rPut"
    /\ \/ /\ bindings' = [bindings EXCEPT ![req[x].id] = req[x].rec]
          /\ req' = At(x, IF req[x].rec.ip # None THEN "rIP" ELSE "rSupi")
       \/ "Put" \in Faults /\ req' = Reply(x, 500) /\ UNCHANGED bindings
    /\ UNCHANGED <<byIP, bySupi, kept, bindingCounter, restarts>>

RegisterIP(x) ==
    /\ req[x].pc = "rIP"
    /\ \/ /\ byIP' = [byIP EXCEPT ![req[x].rec.ip] = req[x].id]
          /\ kept' = kept \ {req[x].rec.ip}
          /\ req' = At(x, "rSupi")
       \/ "Put" \in Faults /\ req' = Reply(x, 500) /\ UNCHANGED <<byIP, kept>>
    /\ UNCHANGED <<bindings, bySupi, bindingCounter, restarts>>

\* Mutant of RegisterSupi: an error of the last write is not looked at.
RegisterSupiIgnored(x) ==
    /\ req[x].pc = "rSupi"
    /\ \/ bySupi' = [bySupi EXCEPT ![supiKey(req[x].rec)] = req[x].id]
       \/ "Put" \in Faults /\ UNCHANGED bySupi
    /\ kept' = kept \ {supiKey(req[x].rec)}
    /\ Answer(x, 201)
    /\ UNCHANGED <<bindings, byIP, bindingCounter, restarts>>

RegisterSupi(x) ==
    /\ req[x].pc = "rSupi"
    /\ \/ /\ bySupi' = [bySupi EXCEPT ![supiKey(req[x].rec)] = req[x].id]
          /\ kept' = kept \ {supiKey(req[x].rec)}
          /\ Answer(x, 201)
       \/ "Put" \in Faults /\ req' = Reply(x, 500) /\ UNCHANGED <<bySupi, kept>>
    /\ UNCHANGED <<bindings, byIP, bindingCounter, restarts>>

\* The process that serves binding-register starts afresh.
Restart ==
    /\ restarts < MaxRestarts
    /\ restarts' = restarts + 1
    /\ bindingCounter' = 0
    /\ req' = [x \in Reqs |-> IF req[x].kind = "register" /\ Runs(x)
                                THEN [req[x] EXCEPT !.pc = "crashed"] ELSE req[x]]
    /\ UNCHANGED keys

-----------------------------------------------------------------------------
(* binding-deregister: what Redis says to its deletes is not looked at.    *)

DeregisterStart(x, i) ==
    /\ req[x].pc = "idle"
    /\ req' = [req EXCEPT ![x] = [@ EXCEPT !.kind = "deregister", !.pc = "dGet", !.id = i]]
    /\ UNCHANGED <<keys, bindingCounter, restarts>>

DeregisterGet(x) ==
    LET b == bindings[req[x].id] IN
    /\ req[x].pc = "dGet"
    /\ \/ /\ b # NoBinding
          /\ req' = [req EXCEPT ![x].pc = IF b.ip # None THEN "dIP" ELSE "dSupi",
                                ![x].rec = b]
       \/ b = NoBinding /\ req' = Reply(x, 404)
       \/ "Get" \in Faults /\ req' = Reply(x, 500)
    /\ UNCHANGED <<keys, bindingCounter, restarts>>

\* Mutant of DeregisterIP: the record is deleted before its indexes.
DeregisterRecordFirst(x) ==
    /\ req[x].pc = "dIP"
    /\ byIP' = [byIP EXCEPT ![req[x].rec.ip] = None]
    /\ UNCHANGED kept
    /\ bindings' = [bindings EXCEPT ![req[x].id] = NoBinding]
    /\ req' = At(x, "dSupi")
    /\ UNCHANGED <<bySupi, bindingCounter, restarts>>

DeregisterIP(x) ==
    /\ req[x].pc = "dIP"
    /\ \/ byIP' = [byIP EXCEPT ![req[x].rec.ip] = None] /\ kept' = kept \ {req[x].rec.ip}
       \/ "Delete" \in Faults /\ kept' = kept \cup {req[x].rec.ip} /\ UNCHANGED byIP
    /\ req' = At(x, "dSupi")
    /\ UNCHANGED <<bindings, bySupi, bindingCounter, restarts>>

DeregisterSupi(x) ==
    /\ req[x].pc = "dSupi"
    /\ \/ /\ bySupi' = [bySupi EXCEPT ![supiKey(req[x].rec)] = None]
          /\ kept' = kept \ {supiKey(req[x].rec)}
       \/ "Delete" \in Faults /\ kept' = kept \cup {supiKey(req[x].rec)} /\ UNCHANGED bySupi
    /\ req' = At(x, "dDel")
    /\ UNCHANGED <<bindings, byIP, bindingCounter, restarts>>

DeregisterDelete(x) ==
    /\ req[x].pc = "dDel"
    /\ \/ bindings' = [bindings EXCEPT ![req[x].id] = NoBinding]
       \/ "Delete" \in Faults /\ UNCHANGED bindings
    /\ Answer(x, 200)
    /\ UNCHANGED <<byIP, bySupi, kept, bindingCounter, restarts>>

-----------------------------------------------------------------------------
(* binding-discover, by address or by subscriber and data network.         *)

DiscoverStart(x, k) ==
    /\ req[x].pc = "idle"
    /\ req' = [req EXCEPT ![x] = [@ EXCEPT !.kind = "discover", !.ask = k,
                                    !.pc = IF k \in Addrs THEN "qIP" ELSE "qSupi"]]
    /\ UNCHANGED <<keys, bindingCounter, restarts>>

\* Mutant of DiscoverIndex: the data network that was asked for is not used.
DiscoverAnyDnn(x) ==
    /\ req[x].pc \in {"qIP", "qSupi"}
    /\ \E i \in IF req[x].pc = "qIP" THEN {byIP[req[x].ask]}
               ELSE {bySupi[<<req[x].ask[1], d>>] : d \in Dnns} :
         \/ i # None /\ req' = [req EXCEPT ![x].pc = "qGet", ![x].id = i]
         \/ i = None /\ req' = Reply(x, 404)
    /\ UNCHANGED <<keys, bindingCounter, restarts>>

\* The index is read; no key is answered with 404.
DiscoverIndex(x) ==
    LET i == IF req[x].pc = "qIP" THEN byIP[req[x].ask] ELSE bySupi[req[x].ask] IN
    /\ req[x].pc \in {"qIP", "qSupi"}
    /\ \/ i # None /\ req' = [req EXCEPT ![x].pc = "qGet", ![x].id = i]
       \/ i = None /\ req' = Reply(x, 404)
       \/ "Get" \in Faults /\ req' = Reply(x, 500)
    /\ UNCHANGED <<keys, bindingCounter, restarts>>

\* The binding it led to is read, and may have gone in the meantime.
DiscoverGet(x) ==
    LET b == bindings[req[x].id] IN
    /\ req[x].pc = "qGet"
    /\ \/ b # NoBinding /\ req' = [Reply(x, 200) EXCEPT ![x].rec = b]
       \/ b = NoBinding /\ req' = Reply(x, 404)
       \/ "Get" \in Faults /\ req' = Reply(x, 500)
    /\ UNCHANGED <<keys, bindingCounter, restarts>>

\* The process that serves a deregistration dies between two deletes.  Before
\* the first it has changed nothing, as when its read fails; nor has a discovery.
Crash(x) ==
    /\ "Crash" \in Faults
    /\ req[x].pc \in {"dSupi", "dDel"}
    /\ req' = At(x, "crashed")
    /\ UNCHANGED <<keys, bindingCounter, restarts>>

-----------------------------------------------------------------------------
Step(x) ==
    \/ RegisterPut(x) \/ RegisterIP(x) \/ RegisterSupi(x)
    \/ DeregisterGet(x) \/ DeregisterIP(x) \/ DeregisterSupi(x) \/ DeregisterDelete(x)
    \/ DiscoverIndex(x) \/ DiscoverGet(x) \/ Crash(x)

Next ==
    \/ Restart
    \/ \E x \in Reqs :
         \/ Step(x)
         \/ \E b \in PCFBinding : RegisterStart(x, b)
         \/ \E y \in Reqs : /\ Bound(y) /\ (Serial => Closable(y))
                            /\ DeregisterStart(x, req[y].id)
         \/ \E k \in Addrs \cup SupiKeys : DiscoverStart(x, k)

Spec == Init /\ [][Next]_vars

-----------------------------------------------------------------------------
(* What makes the BSF correct, as long as an identifier names one binding: *)
(* binding-register gives them out again when it restarts.                 *)

NamesFresh ==
    \/ restarts = 0
    \/ \A x, y \in Reqs :
         req[x].kind = "register" /\ req[y].kind = "register" /\ x # y =>
           req[x].id # req[y].id

(* An index never leads to a record that is not there, at whichever write  *)
(* a registration failed and wherever a deregistration died: the record is *)
(* the first key to be written and the last to be deleted.  Only an index  *)
(* that Redis failed to delete may, until it is written again.             *)
NoDangling ==
    NamesFresh =>
      /\ \A a \in Addrs \ kept : byIP[a] # None => bindings[byIP[a]] # NoBinding
      /\ \A k \in SupiKeys \ kept : bySupi[k] # None => bindings[bySupi[k]] # NoBinding

(* A binding whose registration was answered with 201 is found by its      *)
(* address and by its subscriber until someone asks to deregister it.      *)
Discoverable ==
    NamesFresh =>
      \A x \in Reqs :
        Bound(x) /\ ~(\E y \in Reqs : Deregisters(y, x)) =>
          /\ bindings[req[x].id] = req[x].rec
          /\ bySupi[supiKey(req[x].rec)] = req[x].id
          /\ req[x].rec.ip # None => byIP[req[x].rec.ip] = req[x].id

(* What a discovery answers has the address, or the subscriber and data    *)
(* network, that was asked for, although it reads two keys and others      *)
(* write them in between.                                                  *)
DiscoveredFits ==
    NamesFresh =>
      \A x \in Reqs :
        req[x].kind = "discover" /\ req[x].code = 200 =>
          req[x].ask \in {req[x].rec.ip, supiKey(req[x].rec)}
=============================================================================
