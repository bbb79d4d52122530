--------------------------- MODULE SessionBacking ---------------------------
(***************************************************************************)
(* PDU sessions together with what other network functions keep for them.  *)
(* To module PDUSession this one adds the BSF's two indexes, which the SMF *)
(* makes binding-register and binding-deregister write, each call one step *)
(* here (module Binding takes them apart), and four history variables      *)
(* that record how far a deployment with faults has left the straight path.*)
(***************************************************************************)
EXTENDS PDUSession

VARIABLES
    byIP,      \* Redis "bsf-by-ip/<address>": the create whose binding it names
    bySupi,    \* Redis "bsf-by-supi/<supi>/<dnn>", with one DNN
    overtook,  \* history: creates whose binding was registered while the
               \* address's previous holder was still to deregister its own
    half,      \* history: sessions with a release that freed the address and
               \* left the record
    spoiled,   \* history: addresses taken, or freed, from under their holder
    unheard    \* history: SEIDs of which a PFCP request was lost

indexVars == <<byIP, bySupi>>
historyVars == <<overtook, half, spoiled, unheard>>
backingVars == <<vars, indexVars, historyVars>>

BackingInit ==
    /\ Init
    /\ byIP = [a \in IPs |-> None]
    /\ bySupi = [u \in Supis |-> None]
    /\ overtook = {} /\ half = {} /\ spoiled = {} /\ unheard = {}

-----------------------------------------------------------------------------
(* The indexes.  A registration writes the address's index, then the       *)
(* subscriber's; when the call fails either may be missing.                *)

Register(c) ==
    LET ip == [byIP EXCEPT ![cr[c].ip] = c]
        supi == [bySupi EXCEPT ![cr[c].supi] = c]
    IN
    /\ CreateBind(c)
    /\ \/ c \in bindings' /\ byIP' = ip /\ bySupi' = supi
       \/ /\ cr'[c].bsf = None
          /\ UNCHANGED bySupi
          /\ \/ c \in bindings' /\ byIP' = ip
             \/ UNCHANGED byIP

\* Mutant of Deregister: the record goes and the indexes stay.
DeregisterRecordOnly(x) ==
    ReleaseBind(x) /\ UNCHANGED indexVars

\* A deregistration deletes the keys its record names, whoever wrote them last.
Deregister(x) ==
    LET b == op[x].rec.bsf IN
    /\ ReleaseBind(x)
    /\ IF b \in bindings \ bindings'
         THEN /\ byIP' = [byIP EXCEPT ![cr[b].ip] = None]
              /\ bySupi' = [bySupi EXCEPT ![cr[b].supi] = None]
         ELSE UNCHANGED indexVars

-----------------------------------------------------------------------------
(* The history.                                                            *)

\* Releases that have freed the address and are still to deregister.
Deregistering(a) == \E x \in Ops : op[x].pc \in {"rChf", "rBsf"} /\ op[x].rec.ip = a
NoteOvertaking == overtook' = overtook \cup {c \in bindings' \ bindings : Deregistering(cr[c].ip)}

\* A release stops after it freed the address: its process dies, or the last
\* delete fails.
Stopped(x) == op[x].pc \in AddressFreed /\ op'[x].pc \in {"done", "crashed"} /\ op'[x].code # 200
NoteHalf == half' = half \cup {op[x].sid : x \in {y \in Ops : Stopped(y)}}

\* An address is reserved that is reserved already: a look-up failed, or two
\* replicas looked at once.
Retaken(c) == cr[c].pc = "poolPut" /\ cr'[c].pc = "n4" /\ cr[c].ip \in allocated

\* An address is freed that may be somebody's: the session was half released
\* before, or the create that has the address is under way.  After a restart
\* an old identifier may name the session of such a create.
Snatched(x) ==
    /\ op[x].pc = "rIP" /\ op'[x].pc \in AddressFreed
    /\ \/ op[x].sid \in half
       \/ \E c \in Creates : cr[c].pc \in Committed /\ cr[c].ip = op[x].rec.ip
NoteSpoiled ==
    spoiled' = spoiled \cup {cr[c].ip : c \in {d \in Creates : Retaken(d)}}
                       \cup {op[x].rec.ip : x \in {y \in Ops : Snatched(y)}}

\* A PFCP request went out and left the UPF as it was.
NoteUnheard ==
    unheard' = unheard
      \cup {cr'[c].seid : c \in {d \in Creates : /\ cr[d].pc = "n4" /\ cr'[d].pc = "store"
                                                 /\ upf' = upf}}
      \cup {extractSEID(op[x].sid) : x \in {y \in Ops :
              /\ <<op[y].pc, op'[y].pc>> \in {<<"uN4", "uPut">>, <<"rN4", "rIP">>}
              /\ upf' = upf}}

-----------------------------------------------------------------------------
\* The steps of a create and of an update or release, the BSF calls included.
BackedCreate(c) ==
    \/ Register(c)
    \/ cr[c].pc # "bsf" /\ CreateStep(c) /\ UNCHANGED indexVars
BackedOp(x) ==
    \/ Deregister(x)
    \/ op[x].pc # "rBsf" /\ OpStep(x) /\ UNCHANGED indexVars

Quiet ==
    \/ \E c \in Creates, r \in Replicas, u \in Supis : CreateStart(c, r, u)
    \/ \E r \in Replicas : Restart(r)
    \/ \E x \in Ops, s \in Issued :
          ReleaseStart(x, s) \/ \E q \in QoS : UpdateStart(x, s, q)
    \/ \E x \in Ops : OpCrash(x)

Noted == NoteOvertaking /\ NoteHalf /\ NoteSpoiled /\ NoteUnheard

BackingNext ==
    \/ Quiet /\ UNCHANGED indexVars /\ Noted
    \/ \E c \in Creates : BackedCreate(c) /\ Noted
    \/ \E x \in Ops : BackedOp(x) /\ Noted

BackingSpec == BackingInit /\ [][BackingNext]_backingVars

-----------------------------------------------------------------------------
(* A session at rest is forwarded by the UPF with the address and the QoS  *)
(* of its record, and the UPF forwards for nobody else: the N4 message and *)
(* the Redis write of create, update and release leave the same state, but *)
(* for a session whose release could not delete the record and one a PFCP  *)
(* datagram of which was lost: no response is waited for.  Nothing is      *)
(* claimed once a restart has let SEIDs begin again.                       *)
CreateOn(n) == \E c \in Creates : CreateRuns(c) /\ cr[c].seid = n
N4Agrees ==
    restarts = 0 =>
    /\ \A s \in SessionIDs \ half :
          Stored(s) /\ ~Busy(s) /\ extractSEID(s) \notin unheard =>
            upf[extractSEID(s)] = [ip |-> sessions[s].ip, qos |-> sessions[s].qos]
    /\ \A n \in SEIDs \ unheard :
          upf[n] # NoForwarding /\ ~CreateOn(n) =>
            \E s \in SessionIDs : extractSEID(s) = n /\ sessions[s].ip = upf[n].ip

(* A BSF binding or a CHF charging session belongs to a stored record that *)
(* names it, or the create that opened it is still running: release finds  *)
(* in the record everything it has to close, until a restart lets a create *)
(* overwrite the record of another session.                                *)
NoOrphans ==
    restarts = 0 =>
    /\ \A c \in bindings :
          CreateRuns(c) \/ \E s \in SessionIDs : sessions[s].bsf = c
    /\ \A c \in charging :
          CreateRuns(c) \/ \E s \in SessionIDs : sessions[s].chg = c

(* Asked for the address of a session, the BSF names that session's        *)
(* binding; it knows of none only when the session got the address before  *)
(* its last holder had deregistered, for the SMF frees the address first   *)
(* (pdu-session-release, step 3), or when sessions share the address.  No  *)
(* index leads to a binding that is gone or has another address or         *)
(* subscriber.                                                             *)
DiscoveryFollows ==
    /\ \A s \in SessionIDs \ half :
          LET c == sessions[s].bsf
              found == byIP[sessions[s].ip]
          IN  Settled(s) /\ c # None /\ sessions[s].ip \notin spoiled => found = c \/ (found = None /\ c \in overtook)
    /\ \A a \in IPs : byIP[a] # None => byIP[a] \in bindings /\ cr[byIP[a]].ip = a
    /\ \A u \in Supis : bySupi[u] # None => bySupi[u] \in bindings /\ cr[bySupi[u]].supi = u

(* Whatever fails, dies or restarts, two sessions share an address, or one *)
(* has an address that is not reserved, only in these ways: a failed       *)
(* look-up took it for free, or two replicas did at once; a release freed  *)
(* it without deleting its record, and may be sent again; a release with   *)
(* the identifier of an older session met a create under way with the same *)
(* one.                                                                    *)
UnspoiledExclusive ==
    \A s \in SessionIDs \ half :
        Settled(s) /\ sessions[s].ip \notin spoiled =>
          /\ sessions[s].ip \in allocated
          /\ \A t \in SessionIDs \ half :
                t # s /\ Settled(t) => sessions[t].ip # sessions[s].ip
=============================================================================
