-------------------------- MODULE SupportFunctions --------------------------
(***************************************************************************)
(* The functions that keep their own records and call nobody: NRF, PCF,    *)
(* NWDAF and NSSF.  None of them reads a key that another of them writes,  *)
(* so a behaviour of all is an interleaving of a behaviour of each, and    *)
(* one at a time is enough.                                                *)
(***************************************************************************)
EXTENDS NFRegistry, PolicyControl, Analytics, SliceSelection

VARIABLE part  \* the function that is running
vars == <<part, nrfVars, pcfVars, nwdafVars, nssfVars>>

Init ==
    /\ part \in {"NRF", "PCF", "NWDAF", "NSSF"}
    /\ NRFInit /\ PCFInit /\ NWDAFInit /\ NSSFInit

RunNRF ==
    /\ part = "NRF" /\ NRFNext
    /\ UNCHANGED <<part, pcfVars, nwdafVars, nssfVars>>

RunPCF ==
    /\ part = "PCF" /\ PCFNext
    /\ UNCHANGED <<part, nrfVars, nwdafVars, nssfVars>>

RunNWDAF ==
    /\ part = "NWDAF" /\ NWDAFNext
    /\ UNCHANGED <<part, nrfVars, pcfVars, nssfVars>>

RunNSSF ==
    /\ part = "NSSF" /\ NSSFNext
    /\ UNCHANGED <<part, nrfVars, pcfVars, nwdafVars>>

Next == RunNRF \/ RunPCF \/ RunNWDAF \/ RunNSSF

Spec == Init /\ [][Next]_vars
=============================================================================
