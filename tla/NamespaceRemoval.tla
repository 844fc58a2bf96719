-------------------------- MODULE NamespaceRemoval --------------------------
(***************************************************************************)
(* force_finalize_namespace (src-tauri/src/main.rs): the way out of a      *)
(* namespace stuck in Terminating, against the namespace controller that   *)
(* empties it, the operators that hold objects inside it and people who    *)
(* delete and create it.  The API server and the controller are external.  *)
(***************************************************************************)
EXTENDS Naturals

CONSTANTS
    Items,       \* objects that may be inside the namespace
    Types,       \* their resource types
    TypeOf,      \* the type of each
    MaxNsVersion \* bound: writes of the namespace that are followed

ASSUME NamespaceAssumption ==
    /\ TypeOf \in [Items -> Types]
    /\ MaxNsVersion \in Nat \ {0}

VARIABLES
    ns,     \* the namespace, as the API server has it
    inside, \* inside[i]: absent, free, or held by a finalizer of its own
    force,  \* the request: idle, walking the types, or about to finalize
    forced  \* history: what the last PUT to /finalize found

nsVars == <<ns, inside, force, forced>>

Idle == [stage |-> "idle"]
Nothing == [done |-> FALSE]

Present(i) == inside[i] # "absent"
Left == {i \in Items : Present(i)}

NsInit ==
    /\ \E own \in BOOLEAN :
          ns = [phase |-> "Active", named |-> {}, own |-> own, version |-> 1]
    /\ inside \in [Items -> {"absent", "free", "held"}]
    /\ force = Idle
    /\ forced = Nothing

Touched(n) == [n EXCEPT !.version = ns.version + 1]

---------------------------------------------------------------------------
\* The cluster around the request.

\* delete_namespace, or kubectl delete.
DeleteNamespace ==
    /\ ns.phase = "Active" /\ ns.version < MaxNsVersion
    /\ ns' = Touched([ns EXCEPT !.phase = "Terminating"])
    /\ UNCHANGED <<inside, force, forced>>

\* create_namespace, of a name that was free; what an earlier namespace left
\* in etcd is there again.
CreateNamespace ==
    /\ ns.phase = "Gone" /\ ns.version < MaxNsVersion
    /\ \E own \in BOOLEAN :
          ns' = Touched([ns EXCEPT !.phase = "Active", !.own = own, !.named = {}])
    /\ UNCHANGED <<inside, force, forced>>

\* The namespace controller deletes what nothing holds ...
ControllerDeletes(i) ==
    /\ ns.phase = "Terminating" /\ inside[i] = "free"
    /\ inside' = [inside EXCEPT ![i] = "absent"]
    /\ UNCHANGED <<ns, force, forced>>

\* ... names the types of what is left in a condition, when it comes to it ...
ControllerReports ==
    /\ ns.phase = "Terminating" /\ ns.version < MaxNsVersion
    /\ ns.named # {TypeOf[i] : i \in Left}
    /\ ns' = Touched([ns EXCEPT !.named = {TypeOf[i] : i \in Left}])
    /\ UNCHANGED <<inside, force, forced>>

\* ... and lets an empty namespace go, unless it has a finalizer of its own.
ControllerFinishes ==
    /\ ns.phase = "Terminating" /\ Left = {} /\ ~ns.own
    /\ ns' = [ns EXCEPT !.phase = "Gone"]
    /\ UNCHANGED <<inside, force, forced>>

\* An operator creates an object while it may, or releases one.
OperatorActs(i) ==
    /\ \/ ns.phase = "Active" /\ inside[i] = "absent"
          /\ \E s \in {"free", "held"} : inside' = [inside EXCEPT ![i] = s]
       \/ inside[i] = "held" /\ inside' = [inside EXCEPT ![i] = "free"]
    /\ UNCHANGED <<ns, force, forced>>

---------------------------------------------------------------------------
\* The request.

\* The namespace is read once: its phase, the types its condition names, and
\* the copy that is sent back at the end.
BeginForce ==
    /\ force = Idle /\ ns.phase = "Terminating"
    /\ force' = [stage |-> "types", copy |-> ns, todo |-> ns.named,
                 walked |-> {}, listed |-> {}, cleared |-> FALSE]
    /\ UNCHANGED <<ns, inside, forced>>

Holders_Faulty(t) == {i \in Items : TypeOf[i] = t /\ inside[i] = "free"}

\* The objects of a type that carry finalizers.
Holders(t) == {i \in Items : TypeOf[i] = t /\ inside[i] = "held"}

\* The next type is listed.
ListType(t) ==
    /\ force.stage = "types" /\ force.listed = {} /\ t \in force.todo
    /\ force' = [force EXCEPT !.todo = @ \ {t}, !.walked = @ \cup {t},
                              !.listed = Holders(t)]
    /\ UNCHANGED <<ns, inside, forced>>

\* Discovery of its group or the list fails: the type is passed over.
SkipType(t) ==
    /\ force.stage = "types" /\ force.listed = {} /\ t \in force.todo
    /\ force' = [force EXCEPT !.todo = @ \ {t}]
    /\ UNCHANGED <<ns, inside, forced>>

\* The merge patch of one listed object; gone meanwhile or refused, the whole
\* request fails and what it cleared so far stays cleared.
ClearItem(i) ==
    /\ force.stage = "types" /\ i \in force.listed
    /\ \/ /\ Present(i)
          /\ inside' = [inside EXCEPT ![i] = "free"]
          /\ force' = [force EXCEPT !.listed = @ \ {i}, !.cleared = TRUE]
       \/ UNCHANGED inside /\ force' = Idle
    /\ UNCHANGED <<ns, forced>>

\* Every type was walked.  Something was cleared, or nothing holds the
\* namespace itself, and the answer says so; or its own finalizers go next.
EndTypes ==
    /\ force.stage = "types" /\ force.listed = {} /\ force.todo = {}
    /\ force' = IF ~force.cleared /\ force.copy.own
                  THEN [stage |-> "finalize", copy |-> force.copy,
                        walked |-> force.walked]
                  ELSE Idle
    /\ UNCHANGED <<ns, inside, forced>>

Accepted_Faulty == ns.phase # "Gone"

\* The PUT carries the resourceVersion of the copy.
Accepted == ns.phase # "Gone" /\ ns.version = force.copy.version

\* PUT /finalize with the copy, stripped of every finalizer.  A Terminating
\* namespace without finalizers is removed with whatever is still inside.
Finalize ==
    /\ force.stage = "finalize"
    /\ IF Accepted
         THEN /\ ns' = [ns EXCEPT !.own = FALSE,
                                  !.phase = IF @ = "Terminating" THEN "Gone" ELSE @]
              /\ forced' = [done |-> TRUE, phase |-> ns.phase, named |-> ns.named,
                            left |-> Left, read |-> force.copy.named,
                            holding |-> {i \in Left : inside[i] = "held"
                                                      /\ TypeOf[i] \in force.walked}]
         ELSE UNCHANGED <<ns, forced>>
    /\ force' = Idle
    /\ UNCHANGED inside

NsNext ==
    \/ DeleteNamespace
    \/ CreateNamespace
    \/ \E i \in Items : ControllerDeletes(i)
    \/ ControllerReports
    \/ ControllerFinishes
    \/ \E i \in Items : OperatorActs(i)
    \/ BeginForce
    \/ \E t \in Types : ListType(t)
    \/ \E t \in Types : SkipType(t)
    \/ \E i \in Items : ClearItem(i)
    \/ EndTypes
    \/ Finalize

NsSpec == NsInit /\ [][NsNext]_nsVars

---------------------------------------------------------------------------
Namespaces == [phase : {"Active", "Terminating", "Gone"}, named : SUBSET Types,
               own : BOOLEAN, version : 1 .. MaxNsVersion]

NsTypeOK ==
    /\ ns \in Namespaces
    /\ inside \in [Items -> {"absent", "free", "held"}]
    /\ force \in {Idle}
          \cup [stage : {"types"}, copy : Namespaces, todo : SUBSET Types,
                walked : SUBSET Types, listed : SUBSET Items, cleared : BOOLEAN]
          \cup [stage : {"finalize"}, copy : Namespaces, walked : SUBSET Types]
    /\ forced \in {Nothing}
          \cup [done : {TRUE}, phase : {"Active", "Terminating", "Gone"},
                named : SUBSET Types, left : SUBSET Items, read : SUBSET Types,
                holding : SUBSET Items]

\* "Only offered for a namespace that IS Terminating": however long the walk
\* took, and whoever deleted or created the namespace meanwhile, only a
\* namespace that is Terminating now, and whose condition still names the
\* types the request walked, loses its own finalizers.
FinalizedAsRead ==
    forced.done => forced.phase = "Terminating" /\ forced.named = forced.read

\* An object that an operator still holds is not orphaned, unless its type
\* could not be listed or the condition never named it.
HoldersNotOrphaned == forced.done => forced.holding = {}

\* "with nothing orphaned in etcd.  Only when nothing inside is left does it
\* fall back to clearing the namespace's own finalizers via /finalize."
NothingOrphaned == forced.done => forced.left = {}
=============================================================================
