----------------------------- MODULE NFRegistry -----------------------------
(***************************************************************************)
(* The NRF: functions/nrf/register, status-notify and discover over the    *)
(* profiles that pkg/state/etcd.go keeps under /nrf/nf-instances/.         *)
(*                                                                         *)
(* A registration writes the whole profile in one step.  A status          *)
(* notification reads the profile and writes it back in another one, so a  *)
(* registration or a second notification in between is undone: raced holds *)
(* the instances this has happened to since they last registered.          *)
(***************************************************************************)
EXTENDS Naturals

CONSTANTS
    Instances,       \* NF instance identifiers
    NFTypes,         \* NF types
    Statuses,        \* statuses a notification may carry
    Notifiers,       \* status notifications that may run at once
    MaxVersions,     \* bound: registrations
    MaxNotifications \* bound: notifications

ASSUME NRFAssumption == MaxVersions \in Nat /\ MaxNotifications \in Nat

VARIABLES
    registry,  \* [Instances -> the stored profile or NoProfile]
    notif,     \* [Notifiers -> the notification in progress]
    found,     \* the last answer of discovery, until something changes
    latest,    \* history: the profiles as the calls were made, one after another
    raced,     \* history: instances a stale profile was written for
    versions,  \* registrations made
    notified   \* notifications made
nrfVars == <<registry, notif, found, latest, raced, versions, notified>>

NoProfile == [type |-> "", version |-> 0, status |-> ""]
Profile == [type : NFTypes, version : 1 .. MaxVersions, status : Statuses \cup {"REGISTERED"}]
Idle == [pc |-> "idle"]
NoAnswer == [pc |-> "none"]

NRFInit ==
    /\ registry = [i \in Instances |-> NoProfile]
    /\ notif = [n \in Notifiers |-> Idle]
    /\ found = NoAnswer
    /\ latest = registry /\ raced = {} /\ versions = 0 /\ notified = 0

\* A profile, with its version to tell registrations apart; the put may fail.
Register(i, t, ok) ==
    /\ versions < MaxVersions
    /\ versions' = versions + 1
    /\ LET profile == [type |-> t, version |-> versions', status |-> "REGISTERED"] IN
       /\ registry' = IF ok THEN [registry EXCEPT ![i] = profile] ELSE registry
       /\ latest' = IF ok THEN [latest EXCEPT ![i] = profile] ELSE latest
    /\ raced' = IF ok THEN raced \ {i} ELSE raced
    /\ found' = NoAnswer
    /\ UNCHANGED <<notif, notified>>

\* Mutant of NotifyGet: an instance that is not there is not an error.
NotifyGetNo404(n, i, s, ok) ==
    /\ notif[n] = Idle /\ notified < MaxNotifications
    /\ notified' = notified + 1
    /\ notif' = IF ok THEN [notif EXCEPT ![n] = [pc |-> "put", id |-> i, status |-> s,
                                                 profile |-> registry[i]]] ELSE notif
    /\ found' = NoAnswer
    /\ UNCHANGED <<registry, latest, raced, versions>>

\* The profile is read: an error of the store, or no profile, is a 404.
NotifyGet(n, i, s, ok) ==
    /\ notif[n] = Idle /\ notified < MaxNotifications
    /\ notified' = notified + 1
    /\ notif' = IF ok /\ registry[i] # NoProfile
                THEN [notif EXCEPT ![n] = [pc |-> "put", id |-> i, status |-> s,
                                           profile |-> registry[i]]]
                ELSE notif
    /\ found' = NoAnswer
    /\ UNCHANGED <<registry, latest, raced, versions>>

\* The copy goes back with the new status.
NotifyPut(n, ok) ==
    /\ notif[n].pc = "put"
    /\ LET i == notif[n].id
           profile == [notif[n].profile EXCEPT !.status = notif[n].status]
       IN IF ~ok THEN UNCHANGED <<registry, latest, raced>>
          ELSE /\ registry' = [registry EXCEPT ![i] = profile]
               /\ latest' = [latest EXCEPT ![i].status = notif[n].status]
               /\ raced' = IF registry[i] = notif[n].profile THEN raced ELSE raced \cup {i}
    /\ notif' = [notif EXCEPT ![n] = Idle]
    /\ found' = NoAnswer
    /\ UNCHANGED <<versions, notified>>

\* Every stored profile of the type, whatever its status.  (A request without
\* a type, and an error of the store, change nothing.)
Discover(t) ==
    /\ found = NoAnswer
    /\ found' = [pc |-> "answer", type |-> t,
                 profiles |-> {<<i, registry[i]>> : i \in {j \in Instances : registry[j].type = t}}]
    /\ UNCHANGED <<registry, notif, latest, raced, versions, notified>>

NRFNext ==
    \/ \E i \in Instances, t \in NFTypes, ok \in BOOLEAN : Register(i, t, ok)
    \/ \E n \in Notifiers, i \in Instances, s \in Statuses, ok \in BOOLEAN : NotifyGet(n, i, s, ok)
    \/ \E n \in Notifiers, ok \in BOOLEAN : NotifyPut(n, ok)
    \/ \E t \in NFTypes : Discover(t)

-----------------------------------------------------------------------------
\* Discovery returns, of the instances whose updates did not overlap, exactly
\* those registered with the type, each with its newest profile and the status
\* of the last notification or registration; and of the others only profiles
\* that were registered, never a part of one (status-notify reads and writes
\* the profile in two steps, discover reads by prefix and filters).
DiscoveryCurrent ==
    /\ found.pc = "answer" =>
         \A i \in Instances \ raced : \A p \in Profile :
            <<i, p>> \in found.profiles <=> latest[i] = p /\ p.type = found.type
    /\ \A i \in Instances : registry[i] \in Profile \cup {NoProfile}
=============================================================================
