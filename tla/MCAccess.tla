------------------------------ MODULE MCAccess ------------------------------
(***************************************************************************)
(* TLC instance of Access: the bootstrap mailbox and one other.            *)
(***************************************************************************)
EXTENDS Access, TLC

\* Names of attempts and requests carry no meaning.
TaskSymmetry == Permutations(Attempts) \cup Permutations(Requests)
                \cup Permutations(Callbacks)
=============================================================================
