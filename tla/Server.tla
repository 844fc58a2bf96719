------------------------------- MODULE Server -------------------------------
(***************************************************************************)
(* The parts of the server that share no state, side by side: edits of an  *)
(* object, the removal of a namespace, drains and deletions, the HPA       *)
(* manager and the opening of the database.                                *)
(***************************************************************************)
EXTENDS ClusterEdits, NamespaceRemoval, Removals, HpaManager, SchemaBoot

\* Each part moves by its own specification, whatever the others do meanwhile.
ServerSpec == EditSpec /\ NsSpec /\ RemovalSpec /\ HpaSpec /\ BootSpec

\* Every variable of every part keeps its type.
ServerTypeOK == EditTypeOK /\ NsTypeOK /\ RemovalTypeOK /\ HpaTypeOK /\ BootTypeOK
=============================================================================
