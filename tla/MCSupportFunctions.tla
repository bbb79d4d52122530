------------------------- MODULE MCSupportFunctions -------------------------
(* Slices of one type with an SD and without, and of a type without default. *)
EXTENDS SupportFunctions

MCSlices == {[sst |-> 1, sd |-> ""], [sst |-> 1, sd |-> "a"]}
MCConfigured == [sst \in {2} |-> "gold"]
Menu == [sst : {1, 2}, sd : {"", "a", "b"}]
MCConfiguredSlices == {[sst |-> 1, sd |-> "a"], [sst |-> 1, sd |-> "b"], [sst |-> 2, sd |-> "a"]}
MCStores == {{}, {[sst |-> 1, sd |-> ""]}, {[sst |-> 2, sd |-> "b"], [sst |-> 1, sd |-> "a"]}}
MCRequests == {<<r>> : r \in Menu} \cup (Menu \X Menu)
=============================================================================
