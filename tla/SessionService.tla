--------------------------- MODULE SessionService ---------------------------
(***************************************************************************)
(* What the SMF promises about PDU sessions, without handlers, Redis, pool *)
(* or UPF: a session is established once under its identifier, with an     *)
(* address no other session has; it keeps the address while its QoS is     *)
(* modified; and once it has ended its identifier is never used again.     *)
(* Module PDUSession implements this specification.                        *)
(***************************************************************************)
EXTENDS Naturals

CONSTANTS IDs, Addresses, QoS, NoAddress

VARIABLES
    status,    \* "none", "active" or "ended", by session identifier
    address,   \* the address of an active session
    qos        \* the QoS of an active session; 0 is the policy's

vars == <<status, address, qos>>

Init ==
    /\ status = [s \in IDs |-> "none"]
    /\ address = [s \in IDs |-> NoAddress]
    /\ qos = [s \in IDs |-> 0]

Active(s) == status[s] = "active"

\* pdu-session-create
Establish(s, a) ==
    /\ status[s] = "none"
    /\ \A t \in IDs : Active(t) => address[t] # a
    /\ status' = [status EXCEPT ![s] = "active"]
    /\ address' = [address EXCEPT ![s] = a]
    /\ UNCHANGED qos

\* pdu-session-update
Modify(s, q) ==
    /\ Active(s)
    /\ qos' = [qos EXCEPT ![s] = q]
    /\ UNCHANGED <<status, address>>

\* pdu-session-release
End(s) ==
    /\ Active(s)
    /\ status' = [status EXCEPT ![s] = "ended"]
    /\ address' = [address EXCEPT ![s] = NoAddress]
    /\ qos' = [qos EXCEPT ![s] = 0]

Next ==
    \E s \in IDs :
        \/ \E a \in Addresses : Establish(s, a)
        \/ \E q \in QoS : Modify(s, q)
        \/ End(s)

Spec == Init /\ [][Next]_vars
=============================================================================
