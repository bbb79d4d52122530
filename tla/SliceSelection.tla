--------------------------- MODULE SliceSelection ---------------------------
(***************************************************************************)
(* The NSSF: functions/nssf/slice-select splits the requested S-NSSAIs     *)
(* into allowed and rejected ones by the configured slices, those in the   *)
(* store or else the built-in ones.                                        *)
(***************************************************************************)
EXTENDS Sequences, FiniteSets
LOCAL INSTANCE SequencesExt

CONSTANTS
    ConfiguredSlices,  \* the built-in slices
    Stores,            \* sets of slices an operator may store
    Requests           \* requested lists, none empty

VARIABLES
    stored,    \* nssf/configured-slices; {} when it is not there or empty
    selected   \* the last answer, until the stored slices change
nssfVars == <<stored, selected>>

NoSelection == [pc |-> "none"]

NSSFInit == stored = {} /\ selected = NoSelection

Configure(slices) == stored' = slices /\ selected' = NoSelection

\* Mutant of SupportedKey: the SST alone is looked up for every request.
SupportedKeySST(configSet, r) == \E k \in configSet : k[1] = r.sst

\* The key of the request, or the key of its SST with an empty SD.
SupportedKey(configSet, r) == <<r.sst, r.sd>> \in configSet \/ <<r.sst, "">> \in configSet

SliceSelect(requested, ok) ==
    /\ selected = NoSelection
    /\ LET configured == IF ok /\ stored # {} THEN stored ELSE ConfiguredSlices
           configSet == {<<s.sst, s.sd>> : s \in configured}
       IN selected' = [pc |-> "answer", requested |-> requested, configured |-> configured,
              allowed |-> SelectSeq(requested, LAMBDA r : SupportedKey(configSet, r)),
              rejected |-> SelectSeq(requested, LAMBDA r : ~SupportedKey(configSet, r))]
    /\ UNCHANGED stored

NSSFNext ==
    \/ \E slices \in Stores : Configure(slices)
    \/ \E requested \in Requests, ok \in BOOLEAN : SliceSelect(requested, ok)

-----------------------------------------------------------------------------
\* A slice is allowed exactly when the network has it: a configured slice with
\* its SST and its SD, or with its SST and no SD at all, a request without an
\* SD being served by no configured slice that has one; and every requested
\* slice is in one of the two lists as often as it was requested.
SelectionServed ==
    selected.pc = "answer" =>
        LET Serves(c, r) == c.sst = r.sst /\ (c.sd = "" \/ c.sd = r.sd)
            Times(list, r) == Cardinality({i \in DOMAIN list : list[i] = r})
        IN /\ \A r \in ToSet(selected.allowed) : \E c \in selected.configured : Serves(c, r)
           /\ \A r \in ToSet(selected.rejected) : ~\E c \in selected.configured : Serves(c, r)
           /\ \A r \in ToSet(selected.requested \o selected.allowed \o selected.rejected) :
                 Times(selected.requested, r) = Times(selected.allowed, r) + Times(selected.rejected, r)
=============================================================================
