------------------------------ MODULE Removals ------------------------------
(***************************************************************************)
(* Draining a node and deleting a claim or a volume (drain_node,           *)
(* set_node_schedulable, delete_pvc and delete_pv of                       *)
(* src-tauri/src/main.rs).  Each reads the cluster, decides, and acts on   *)
(* one object after another, while the scheduler and other people go on.   *)
(***************************************************************************)
EXTENDS Naturals

CONSTANTS
    Pods,   \* pods that may come to the node
    SortOf, \* of each: what a drain sees in it
    Arrivals \* bound: how often pods or users of storage come

ASSUME RemovalsAssumption ==
    /\ SortOf \in [Pods -> {"plain", "daemonset", "mirror", "finished"}]
    /\ Arrivals \in Nat

VARIABLES
    cordoned,
    pod,      \* pod[p]: away, chosen (the scheduler picked this node), or on it
    drain,    \* the drain and its answer
    storage,  \* of the claim and of the volume: gone, unused or used
    removal,  \* of each, the request that deletes it: idle or checked
    taken,    \* history: came into use after the request's look
    arrivals  \* bounded counter

removalVars == <<cordoned, pod, drain, storage, removal, taken, arrivals>>
drainVars == <<cordoned, pod, drain>>
storageVars == <<storage, removal, taken>>

Kept == {"claim", "volume"}

NoDrain == [stage |-> "none"]

RemovalInit ==
    /\ cordoned \in BOOLEAN
    /\ pod \in [Pods -> {"away", "on"}]
    /\ drain = NoDrain
    /\ storage \in [Kept -> {"unused", "used"}]
    /\ removal = [k \in Kept |-> "idle"]
    /\ taken = [k \in Kept |-> FALSE]
    /\ arrivals = 0

Arrive == arrivals < Arrivals /\ arrivals' = arrivals + 1

---------------------------------------------------------------------------
\* The scheduler picks the node for a pod unless it is cordoned, and binds it
\* some time later without looking again.
Choose(p) ==
    /\ ~cordoned /\ pod[p] = "away" /\ Arrive
    /\ pod' = [pod EXCEPT ![p] = "chosen"]
    /\ UNCHANGED <<cordoned, drain, storageVars>>

Bind(p) ==
    /\ pod[p] = "chosen"
    /\ pod' = [pod EXCEPT ![p] = "on"]
    /\ drain' = IF drain.stage = "none" THEN drain
                ELSE [drain EXCEPT !.late = @ \cup {p}]
    /\ UNCHANGED <<cordoned, storageVars, arrivals>>

\* A pod ends, or an accepted eviction is carried out.
PodLeaves(p) ==
    /\ pod[p] = "on"
    /\ pod' = [pod EXCEPT ![p] = "away"]
    /\ UNCHANGED <<cordoned, drain, storageVars, arrivals>>

\* set_node_schedulable, by anybody, during a drain too.
SetSchedulable ==
    /\ cordoned' = ~cordoned
    /\ UNCHANGED <<pod, drain, storageVars, arrivals>>

\* drain_node, first the cordon: a merge patch.  If it fails nothing was done.
Cordon ==
    /\ drain.stage \in {"none", "answered"}
    /\ cordoned' = TRUE
    /\ drain' = [stage |-> "cordoned", late |-> {}, todo |-> {},
                 evicted |-> {}, skipped |-> {}, refused |-> {}]
    /\ UNCHANGED <<pod, storageVars, arrivals>>

Evictable(p) == SortOf[p] = "plain"

\* ... then the pods on the node; finished ones are left out without a word.
ListPods ==
    /\ drain.stage = "cordoned"
    /\ LET there == {p \in Pods : pod[p] = "on" /\ SortOf[p] # "finished"} IN
          drain' = [drain EXCEPT !.stage = "evicting",
                        !.todo = {p \in there : Evictable(p)},
                        !.skipped = {p \in there : ~Evictable(p)}]
    /\ UNCHANGED <<cordoned, pod, storageVars, arrivals>>

Refusal_Faulty(p) == [drain EXCEPT !.todo = @ \ {p}]

\* A disruption budget refuses, or the pod is gone: named in the answer.
Refusal(p) == [drain EXCEPT !.todo = @ \ {p}, !.refused = @ \cup {p}]

\* ... then an eviction of each, accepted or refused.
Evict(p) ==
    /\ drain.stage = "evicting" /\ p \in drain.todo
    /\ \/ pod[p] = "on"
          /\ drain' = [drain EXCEPT !.todo = @ \ {p}, !.evicted = @ \cup {p}]
       \/ drain' = Refusal(p)
    /\ UNCHANGED <<cordoned, pod, storageVars, arrivals>>

Answer ==
    /\ drain.stage = "evicting" /\ drain.todo = {}
    /\ drain' = [drain EXCEPT !.stage = "answered"]
    /\ UNCHANGED <<cordoned, pod, storageVars, arrivals>>

\* The list fails, or the client hangs up: no answer, and the cordon stays.
DrainBreaksOff ==
    /\ drain.stage \in {"cordoned", "evicting"}
    /\ drain' = NoDrain
    /\ UNCHANGED <<cordoned, pod, storageVars, arrivals>>

---------------------------------------------------------------------------
\* A pod mounts the claim, a claim binds the volume.
StartUse(k) ==
    /\ storage[k] = "unused" /\ Arrive
    /\ storage' = [storage EXCEPT ![k] = "used"]
    /\ taken' = [taken EXCEPT ![k] = removal[k] = "checked"]
    /\ UNCHANGED <<drainVars, removal>>

EndUse(k) ==
    /\ storage[k] = "used"
    /\ storage' = [storage EXCEPT ![k] = "unused"]
    /\ UNCHANGED <<drainVars, removal, taken, arrivals>>

Refused_Faulty(k) == k = "volume" /\ storage[k] = "used"

\* The claim some pod mounts, the volume whose phase is Bound.
Refused(k) == storage[k] = "used"

\* delete_pvc lists the pods, delete_pv gets the volume ...
LookAtUse(k) ==
    /\ removal[k] = "idle" /\ storage[k] # "gone"
    /\ removal' = [removal EXCEPT ![k] = IF Refused(k) THEN "idle" ELSE "checked"]
    /\ taken' = [taken EXCEPT ![k] = FALSE]
    /\ UNCHANGED <<drainVars, storage, arrivals>>

\* ... and deletes without a precondition.
DeleteStorage(k) ==
    /\ removal[k] = "checked"
    /\ removal' = [removal EXCEPT ![k] = IF storage[k] = "used" THEN "lost" ELSE "gone"]
    /\ storage' = [storage EXCEPT ![k] = "gone"]
    /\ UNCHANGED <<drainVars, taken, arrivals>>

NodeNext ==
    \/ \E p \in Pods : Choose(p) \/ Bind(p) \/ PodLeaves(p) \/ Evict(p)
    \/ SetSchedulable
    \/ Cordon
    \/ ListPods
    \/ Answer
    \/ DrainBreaksOff

StorageNext ==
    \E k \in Kept : StartUse(k) \/ EndUse(k) \/ LookAtUse(k) \/ DeleteStorage(k)

RemovalNext == NodeNext \/ StorageNext

RemovalSpec == RemovalInit /\ [][RemovalNext]_removalVars

---------------------------------------------------------------------------
RemovalTypeOK ==
    /\ cordoned \in BOOLEAN
    /\ pod \in [Pods -> {"away", "chosen", "on"}]
    /\ drain \in {NoDrain} \cup
          [stage : {"cordoned", "evicting", "answered"}, late : SUBSET Pods,
           todo : SUBSET Pods, evicted : SUBSET Pods, skipped : SUBSET Pods,
           refused : SUBSET Pods]
    /\ storage \in [Kept -> {"gone", "unused", "used"}]
    /\ removal \in [Kept -> {"idle", "checked", "gone", "lost"}]
    /\ taken \in [Kept -> BOOLEAN]
    /\ arrivals \in 0 .. Arrivals

\* "a refusal is reported by name": whatever comes and goes during a drain, a
\* pod found on the node after the answer was evicted, named as refused,
\* skipped as a daemonset's or a mirror, finished, or bound after the cordon,
\* by a decision the scheduler had taken or behind somebody's uncordon.
DrainAccounts ==
    drain.stage = "answered" =>
        \A p \in Pods : pod[p] = "on" =>
            \/ p \in drain.evicted \cup drain.refused \cup drain.skipped \cup drain.late
            \/ SortOf[p] = "finished"

\* "a mounted claim is refused", "a Bound volume is somebody's disk": storage
\* in use is deleted only if its use began after the request had looked.
LostOnlyIfTakenLate ==
    \A k \in Kept : removal[k] = "lost" => taken[k]
=============================================================================
