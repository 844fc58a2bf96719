-------------------------------- MODULE Views --------------------------------
(***************************************************************************)
(* The screens and reports over one cluster, which answers once and in     *)
(* which things then break, beside the history of one deployment.          *)
(***************************************************************************)
EXTENDS Reports, NetworkView, ClusterView, ChangeTrail

ViewsSpec == ClusterSpec /\ TrailSpec

\* Every health of every row, and every finding, is one the screens know; what
\* is counted is a number, and the score one of 0 to 100.
ViewsTypeOK ==
    /\ StorageHealthOK /\ ConfigHealthOK /\ NetworkHealthOK
    /\ ReportsOK /\ ClusterHealthOK
    /\ TrailTypeOK
=============================================================================
