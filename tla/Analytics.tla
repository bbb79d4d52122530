----------------------------- MODULE Analytics -----------------------------
(***************************************************************************)
(* The NWDAF: functions/nwdaf/data-collect and analytics-subscribe.        *)
(*                                                                         *)
(* data-collect copies the counters that the NSACF keeps for a slice into  *)
(* the slice's metrics, which a subscription's answer shows.  Both build   *)
(* their keys from the S-NSSAI, each with its own copy of the same code.   *)
(* Counters move while a collection is under way.                          *)
(***************************************************************************)
EXTENDS Naturals

CONSTANTS
    Slices,       \* S-NSSAIs: [sst, sd], sd "" when absent
    NFs,          \* NF instances
    Loads,        \* load values that are reported
    Collectors,   \* collections that may run at once
    MaxCounted,   \* bound: changes of the counters
    MaxCollects,  \* bound: collections
    MaxSubs,      \* bound: subscriptions between restarts
    MaxSubRestarts \* bound: restarts of analytics-subscribe

ASSUME NWDAFAssumption == Slices \subseteq [sst : Nat, sd : STRING]

VARIABLES
    counters,   \* [counter key -> the NSACF's counts of the slice]
    metrics,    \* [metrics key -> the collected load or NoLoad]
    nfMetrics,  \* [NFs -> the collected load of the instance, 0 if none]
    collect,    \* [Collectors -> the collection in progress]
    subCounter, \* numbers given to subscriptions
    subs,       \* nwdaf-subscriptions: the stored ones, a set of <<number, target>>
    report,     \* the last answer to a subscription, until something changes
    had,        \* history: [Slices -> counts the slice has had]
    counted,    \* changes of the counters
    collects,   \* collections begun
    restarts    \* restarts of analytics-subscribe
nwdafVars == <<counters, metrics, nfMetrics, collect, subCounter, subs, report, had, counted, collects, restarts>>

\* Mutant of sliceKeyFromSNSSAI: the SD is left out.
sliceKeyNoSD(s) == <<s.sst>>

sliceKeyFromSNSSAI(s) == IF s.sd = "" THEN <<s.sst>> ELSE <<s.sst, s.sd>>

\* The NSACF's own key for a slice.
CounterKey(s) == IF s.sd = "" THEN <<s.sst>> ELSE <<s.sst, s.sd>>

Zero == [ues |-> 0, sessions |-> 0]
NoLoad == [slice |-> "none"]
Waiting == [pc |-> "idle"]
NoReport == [pc |-> "none"]
Keys == {CounterKey(s) : s \in Slices} \cup {sliceKeyFromSNSSAI(s) : s \in Slices}

NWDAFInit ==
    /\ counters = [k \in Keys |-> Zero]
    /\ metrics = [k \in Keys |-> NoLoad] /\ nfMetrics = [n \in NFs |-> 0]
    /\ collect = [c \in Collectors |-> Waiting]
    /\ subCounter = 0 /\ subs = {} /\ report = NoReport
    /\ had = [s \in Slices |-> {Zero}] /\ counted = 0 /\ collects = 0 /\ restarts = 0

\* The NSACF counts a UE or a session of the slice in or out.
Count(s, field, up) ==
    /\ counted < MaxCounted /\ counted' = counted + 1
    /\ LET n == counters[CounterKey(s)][field] IN
       /\ up \/ n > 0
       /\ counters' = [counters EXCEPT ![CounterKey(s)][field] = IF up THEN n + 1 ELSE n - 1]
    /\ had' = [had EXCEPT ![s] = @ \cup {counters'[CounterKey(s)]}]
    /\ report' = NoReport
    /\ UNCHANGED <<metrics, nfMetrics, collect, subCounter, subs, collects, restarts>>

\* A collection reads the counters; when that fails it goes on with zeros.
CollectGet(c, s, load, ok) ==
    /\ collect[c] = Waiting /\ collects < MaxCollects
    /\ collects' = collects + 1
    /\ collect' = [collect EXCEPT ![c] =
            [pc |-> "put", slice |-> s, load |-> load,
             counts |-> IF ok THEN counters[sliceKeyFromSNSSAI(s)] ELSE Zero]]
    /\ report' = NoReport
    /\ UNCHANGED <<counters, metrics, nfMetrics, subCounter, subs, had, counted, restarts>>

CollectPut(c, ok) ==
    /\ collect[c].pc = "put"
    /\ metrics' = IF ok THEN [metrics EXCEPT ![sliceKeyFromSNSSAI(collect[c].slice)] =
                                 [slice |-> collect[c].slice, counts |-> collect[c].counts,
                                  load |-> collect[c].load]]
                  ELSE metrics
    /\ collect' = [collect EXCEPT ![c] = Waiting]
    /\ report' = NoReport
    /\ UNCHANGED <<counters, nfMetrics, subCounter, subs, had, counted, collects, restarts>>

\* The load of an NF instance is what its report says, in one write.
CollectNF(n, load) ==
    /\ collects < MaxCollects
    /\ collects' = collects + 1
    /\ nfMetrics' = [nfMetrics EXCEPT ![n] = load]
    /\ report' = NoReport
    /\ UNCHANGED <<counters, metrics, collect, subCounter, subs, had, counted, restarts>>

OfSlice(s) == [event |-> "SLICE_LOAD", slice |-> s]
OfNF(n) == [event |-> "NF_LOAD", nf |-> n]
Mobility == [event |-> "UE_MOBILITY"]
Targets == {OfSlice(s) : s \in Slices} \cup {OfNF(n) : n \in NFs} \cup {Mobility}

\* What an answer shows: the metrics, or zeros for the target when they are
\* not there or cannot be read.
Shown(target, ok) ==
    CASE target.event = "SLICE_LOAD" ->
             IF ok /\ metrics[sliceKeyFromSNSSAI(target.slice)] # NoLoad
             THEN metrics[sliceKeyFromSNSSAI(target.slice)]
             ELSE [slice |-> target.slice, counts |-> Zero, load |-> 0]
      [] target.event = "NF_LOAD" ->
             [nf |-> target.nf, load |-> IF ok THEN nfMetrics[target.nf] ELSE 0]
      [] OTHER -> NoLoad

\* The number is taken under the lock, the subscription is stored and then
\* answered.  When it cannot be stored its number is spent.
Subscribe(target, put, ok) ==
    /\ subCounter < MaxSubs
    /\ subCounter' = subCounter + 1
    /\ subs' = IF put THEN {u \in subs : u[1] # subCounter'} \cup {<<subCounter', target>>} ELSE subs
    /\ report' = IF ~put THEN NoReport
                 ELSE [pc |-> "answer", number |-> subCounter', target |-> target,
                       info |-> Shown(target, ok)]
    /\ UNCHANGED <<counters, metrics, nfMetrics, collect, had, counted, collects, restarts>>

NWDAFRestart ==
    /\ restarts < MaxSubRestarts
    /\ restarts' = restarts + 1 /\ subCounter' = 0 /\ report' = NoReport
    /\ UNCHANGED <<counters, metrics, nfMetrics, collect, subs, had, counted, collects>>

NWDAFNext ==
    \/ \E s \in Slices, field \in {"ues", "sessions"}, up \in BOOLEAN : Count(s, field, up)
    \/ \E c \in Collectors, s \in Slices, load \in Loads, ok \in BOOLEAN : CollectGet(c, s, load, ok)
    \/ \E c \in Collectors, ok \in BOOLEAN : CollectPut(c, ok)
    \/ \E n \in NFs, load \in Loads : CollectNF(n, load)
    \/ \E target \in Targets, put, ok \in BOOLEAN : Subscribe(target, put, ok)
    \/ NWDAFRestart

-----------------------------------------------------------------------------
\* The load a subscriber is shown is that of the slice it asked for, with
\* counts of UEs and sessions that the slice's counters had at one and the same
\* moment, however collections and the NSACF's updates interleave, or zeros;
\* and the subscription is stored under the number it was given (the key that
\* data-collect and analytics-subscribe build for a slice, the one read of the
\* counters).
LoadOfSlice ==
    report.pc = "answer" =>
        /\ <<report.number, report.target>> \in subs
        /\ report.target.event = "SLICE_LOAD" =>
              /\ report.info.slice = report.target.slice
              /\ report.info.counts \in had[report.target.slice]
=============================================================================
