------------------------------ MODULE MCServer ------------------------------
(***************************************************************************)
(* The parts of the server on small instances.  A behaviour follows one of *)
(* them while the others rest, so the states add up instead of multiplying.*)
(***************************************************************************)
EXTENDS Server, TLC

CONSTANTS e1, e2, v1, v2, i1, i2, t1, t2, p1, p2, p3, a1, a2, n1, n2, s1, s2

VARIABLE part

serverVars == <<part, editVars, nsVars, removalVars, hpaVars, bootVars>>

MCTypeOf == i1 :> t1 @@ i2 :> t2
MCSortOf == p1 :> "plain" @@ p2 :> "plain" @@ p3 :> "daemonset"
MCBorn == <<1, 1, 2, 3, 3, 4>>

\* Editors and administrators are interchangeable: no definition names one.
MCSymmetry ==
    Permutations({v1, v2}) \cup Permutations({e1, e2}) \cup Permutations({a1, a2})

EditRest ==
    /\ kind = "Deployment"
    /\ object = [version |-> 1, alive |-> FALSE, fields |-> [f \in Fields[kind] |-> Absent]]
    /\ edit = [e \in Editors |-> Closed]
    /\ last = Others

NsRest ==
    /\ ns = [phase |-> "Gone", named |-> {}, own |-> FALSE, version |-> 1]
    /\ inside = [i \in Items |-> "absent"]
    /\ force = Idle
    /\ forced = Nothing

RemovalRest ==
    /\ cordoned = FALSE
    /\ pod = [p \in Pods |-> "away"]
    /\ drain = NoDrain
    /\ storage = [k \in Kept |-> "gone"]
    /\ removal = [k \in Kept |-> "idle"]
    /\ taken = [k \in Kept |-> FALSE]
    /\ arrivals = 0

HpaRest ==
    /\ hpa = [n \in HpaNames |-> None]
    /\ row = [n \in HpaNames |-> "none"]
    /\ admin = [a \in Admins |-> HpaIdle]
    /\ blur = {}

BootRest ==
    /\ file = [objects |-> {}, version |-> 0]
    /\ boot = Off
    /\ fresh = TRUE

MCInit ==
    \/ part = "edits" /\ EditInit /\ NsRest /\ RemovalRest /\ HpaRest /\ BootRest
    \/ part = "namespace" /\ EditRest /\ NsInit /\ RemovalRest /\ HpaRest /\ BootRest
    \/ part = "drain" /\ EditRest /\ NsRest /\ RemovalInit
          /\ storage = [k \in Kept |-> "used"] /\ HpaRest /\ BootRest
    \/ part = "storage" /\ EditRest /\ NsRest /\ RemovalInit /\ cordoned
          /\ pod = [p \in Pods |-> "away"] /\ HpaRest /\ BootRest
    \/ part = "hpa" /\ EditRest /\ NsRest /\ RemovalRest /\ HpaInit /\ BootRest
    \/ part = "boot" /\ EditRest /\ NsRest /\ RemovalRest /\ HpaRest /\ BootInit

MCNext ==
    /\ UNCHANGED part
    /\ \/ part = "edits" /\ EditNext
             /\ UNCHANGED <<nsVars, removalVars, hpaVars, bootVars>>
       \/ part = "namespace" /\ NsNext
             /\ UNCHANGED <<editVars, removalVars, hpaVars, bootVars>>
       \/ part = "drain" /\ NodeNext
             /\ UNCHANGED <<editVars, nsVars, hpaVars, bootVars>>
       \/ part = "storage" /\ StorageNext
             /\ UNCHANGED <<editVars, nsVars, hpaVars, bootVars>>
       \/ part = "hpa" /\ HpaNext
             /\ UNCHANGED <<editVars, nsVars, removalVars, bootVars>>
       \/ part = "boot" /\ BootNext
             /\ UNCHANGED <<editVars, nsVars, removalVars, hpaVars>>

MCSpec == MCInit /\ [][MCNext]_serverVars
=============================================================================
