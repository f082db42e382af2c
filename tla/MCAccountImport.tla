--------------------------- MODULE MCAccountImport ---------------------------
(* Two people of one name; the first is missing from the dump at first. *)
EXTENDS AccountImport
MCBases == {"petrov.ivan"}
MCBase == [u \in People |-> "petrov.ivan"]
MCHolderOf == [a \in Others |-> Nobody]
MCDepartmentOf == [u \in People |-> NoDepartment]
=============================================================================
