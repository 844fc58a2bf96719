--------------------------- MODULE ResourceEditor ---------------------------
(***************************************************************************)
(* The Admin resource editor (src-tauri/src/resources.rs: apply,           *)
(* apply_recommendation, undo, remember) at work on one workload.          *)
(*                                                                         *)
(* The cluster's server-side apply is external: a manager's configuration  *)
(* replaces the one it applied before, so a field it owned and no longer   *)
(* names loses it as an owner, and goes when nobody else owns it.          *)
(*                                                                         *)
(* Each operation is a task of the web server; tasks interleave wherever   *)
(* the code awaits the cluster or issues a statement.                      *)
(***************************************************************************)
EXTENDS Naturals

CONSTANTS
    Containers,
    Values,     \* quantities, in half steps of what mem_quantity can write
    Tasks,      \* bound: operations under way at a time
    Nil,        \* a field, a row or a task not there
    MaxOps, MaxWrites, MaxFaults \* bounds

ASSUME EditorAssumption ==
    /\ Values \subseteq Nat \ {0} /\ Nil \notin Nat
    /\ {MaxOps, MaxWrites, MaxFaults} \subseteq Nat

Fields   == {"request", "limit"}
Quantity == Values \cup {Nil}
Managers == {"tmjlens", "other"}

VARIABLES
    live,    \* the resources of each container, as the API server holds them
    owners,  \* the managers that own each field
    row,     \* resources_managed.previous_json of each container
    task,    \* the operations under way
    ops, writes, faults, \* counters behind the bounds
    origin,     \* history: what a container held before tmjLens touched it
    calm,       \* history: no two edits overlapped, none broke off, and
                \* nobody else wrote to or edited what tmjLens had edited
    collateral  \* history: containers an edit of another one changed

vars == <<live, owners, row, task, ops, writes, faults, origin, calm,
          collateral>>
cluster == <<live, owners, collateral>>

ResourceSet == [Fields -> Quantity]
Blank == [f \in Fields |-> Nil]

\* mem_quantity and cpu_quantity round up.
Rounded(v) == IF v = Nil THEN Nil ELSE v + (v % 2)
RoundedSet(s) == [f \in Fields |-> Rounded(s[f])]

\* What the API server accepts, and validate refuses before the round trip.
Coherent(s) ==
    Nil \notin {s.request, s.limit} => s.request <= s.limit

Valid(form) == form # Blank /\ Coherent(form)

\* Init: the manifests of the workload's own manager.
Init ==
    /\ live \in {l \in [Containers -> ResourceSet] :
                    \A c \in Containers : Coherent(l[c])}
    /\ owners = [c \in Containers |-> [f \in Fields |->
                    IF live[c][f] = Nil THEN {} ELSE {"other"}]]
    /\ row = [c \in Containers |-> Nil]
    /\ task = [t \in Tasks |-> Nil]
    /\ ops = 0 /\ writes = 0 /\ faults = 0
    /\ origin = [c \in Containers |-> Nil]
    /\ calm = TRUE /\ collateral = {}

---------------------------------------------------------------------------
\* Server-side apply, forced, by tmjLens.

\* Blanks sent along.
Named_Faulty(c, form, d, f) == d = c

\* apply_config names one container and the fields that are set; whatever
\* else tmjLens applied before is not named.
Named(c, form, d, f) == d = c /\ form[f] # Nil
OnlyOurs(d, f) == owners[d][f] = {"tmjlens"}

Applied(c, form) ==
    [d \in Containers |-> [f \in Fields |->
        IF Named(c, form, d, f) THEN Rounded(form[f])
        ELSE IF OnlyOurs(d, f) THEN Nil ELSE live[d][f]]]

Owned(c, form) ==
    [d \in Containers |-> [f \in Fields |->
        IF ~Named(c, form, d, f) THEN owners[d][f] \ {"tmjlens"}
        ELSE IF live[d][f] = Rounded(form[f])
               THEN owners[d][f] \cup {"tmjlens"} ELSE {"tmjlens"}]]

\* The write and what it does to the other containers.
ServerSideApply(c, form) ==
    /\ live' = Applied(c, form)
    /\ owners' = Owned(c, form)
    /\ collateral' = collateral \cup
         {d \in Containers \ {c} : Applied(c, form)[d] # live[d]}

Accepted(c, form) ==
    \A d \in Containers : Coherent(Applied(c, form)[d])

---------------------------------------------------------------------------
\* Tasks.

At(t, stage)   == task[t] # Nil /\ task[t].stage = stage
Goes(t, stage) == task' = [task EXCEPT ![t].stage = stage]
Ends(t)        == task' = [task EXCEPT ![t] = Nil]

Busy(c)    == \E t \in Tasks : task[t] # Nil /\ task[t].container = c
Edited(d)  == origin[d] # Nil \/ \E f \in Fields : "tmjlens" \in owners[d][f]
Alone(c)   == /\ \A t \in Tasks : task[t] = Nil
              /\ \A d \in Containers \ {c} : ~Edited(d)

Start(t, op, c, form, stage) ==
    /\ task[t] = Nil /\ ops < MaxOps
    /\ ops' = ops + 1
    /\ calm' = (calm /\ Alone(c))
    /\ task' = [task EXCEPT ![t] =
          [op |-> op, container |-> c, stage |-> stage, form |-> form,
           seen |-> Blank]]
    /\ UNCHANGED <<cluster, row, writes, faults, origin>>

\* apply with the form an administrator filled in.
StartApply(t, c, form) == Start(t, "apply", c, form, "target")

\* apply_recommendation: the form comes out of status.
StartRecommended(t, c) == Start(t, "apply", c, Blank, "status")

StartUndo(t, c) == Start(t, "undo", c, Blank, "row")

\* status: the recommended request; the container's own limit, raised where
\* the request would exceed it.  Without usage history, what is there now.
Recommended(current, v) ==
    IF v = Nil THEN current
    ELSE [request |-> v,
          limit |-> IF current.limit # Nil /\ current.limit < v THEN v
                    ELSE current.limit]

ReadStatus(t, v) ==
    /\ At(t, "status")
    /\ LET c == task[t].container
       IN task' = [task EXCEPT ![t].form = Recommended(live[c], v),
                               ![t].stage = "target"]
    /\ UNCHANGED <<cluster, row, ops, writes, faults, origin, calm>>

\* target: the GET whose current resources apply remembers later; validate
\* has nothing to say of the form.
ReadTarget(t) ==
    /\ At(t, "target") /\ Valid(task[t].form)
    /\ task' = [task EXCEPT ![t].seen = live[task[t].container],
                            ![t].stage = "patch"]
    /\ UNCHANGED <<cluster, row, ops, writes, faults, origin, calm>>

\* A VerticalPodAutoscaler, the GitOps guard or validate blocks the write,
\* or the cluster does not answer.
Blocked(t) ==
    /\ At(t, "status") \/ At(t, "target")
    /\ Ends(t)
    /\ UNCHANGED <<cluster, row, ops, writes, faults, origin, calm>>

\* undo without the limits.
ReadRow_Faulty(t) ==
    /\ At(t, "row")
    /\ LET previous == row[task[t].container]
       IN task' = [task EXCEPT ![t] = IF previous = Nil THEN Nil
                     ELSE [task[t] EXCEPT !.form = [previous EXCEPT !.limit = Nil],
                                          !.stage = "patch"]]
    /\ UNCHANGED <<cluster, row, ops, writes, faults, origin, calm>>

\* undo's SELECT.
ReadRow(t) ==
    /\ At(t, "row")
    /\ LET previous == row[task[t].container]
       IN task' = [task EXCEPT ![t] = IF previous = Nil THEN Nil
                     ELSE [task[t] EXCEPT !.form = previous,
                                          !.stage = "patch"]]
    /\ UNCHANGED <<cluster, row, ops, writes, faults, origin, calm>>

\* The forced patch, when the API server accepts it.
Patch(t) ==
    /\ At(t, "patch")
    /\ LET c == task[t].container
       IN /\ Accepted(c, task[t].form)
          /\ ServerSideApply(c, task[t].form)
          /\ origin' = IF origin[c] = Nil
                         THEN [origin EXCEPT ![c] = live[c]] ELSE origin
    /\ Goes(t, IF task[t].op = "apply" THEN "remember" ELSE "delete")
    /\ UNCHANGED <<row, ops, writes, faults, calm>>

PatchRefused(t) ==
    /\ At(t, "patch") /\ ~Accepted(task[t].container, task[t].form)
    /\ Ends(t)
    /\ UNCHANGED <<cluster, row, ops, writes, faults, origin, calm>>

\* remember's SELECT.
FindRow(t) ==
    /\ At(t, "remember")
    /\ Goes(t, IF row[task[t].container] = Nil THEN "insert" ELSE "update")
    /\ UNCHANGED <<cluster, row, ops, writes, faults, origin, calm>>

\* The INSERT; the unique index refuses a second row.
InsertRow(t) ==
    /\ At(t, "insert")
    /\ row' = IF row[task[t].container] = Nil
                THEN [row EXCEPT ![task[t].container] = task[t].seen]
                ELSE row
    /\ Ends(t)
    /\ UNCHANGED <<cluster, ops, writes, faults, origin, calm>>

\* Undo would mean before the last click.
UpdateRow_Faulty(t) ==
    /\ At(t, "update")
    /\ row' = [row EXCEPT ![task[t].container] = task[t].seen]
    /\ Ends(t)
    /\ UNCHANGED <<cluster, ops, writes, faults, origin, calm>>

\* The UPDATE leaves previous_json alone.
UpdateRow(t) ==
    /\ At(t, "update")
    /\ Ends(t)
    /\ UNCHANGED <<cluster, row, ops, writes, faults, origin, calm>>

DeleteRow(t) ==
    /\ At(t, "delete")
    /\ row' = [row EXCEPT ![task[t].container] = Nil]
    /\ origin' = [origin EXCEPT ![task[t].container] = Nil]
    /\ Ends(t)
    /\ UNCHANGED <<cluster, ops, writes, faults, calm>>

---------------------------------------------------------------------------
\* The surroundings.

\* Helm, kubectl or an operator sets or removes a field.
OtherWrites(c, f, v) ==
    /\ writes < MaxWrites
    /\ v # live[c][f] /\ Coherent([live[c] EXCEPT ![f] = v])
    /\ live' = [live EXCEPT ![c][f] = v]
    /\ owners' = [owners EXCEPT ![c][f] = IF v = Nil THEN {} ELSE {"other"}]
    /\ writes' = writes + 1
    /\ calm' = (calm /\ ~Edited(c) /\ ~Busy(c))
    /\ UNCHANGED <<row, task, ops, faults, origin, collateral>>

\* The administrator's client hangs up at an await, or the process dies: the
\* task stops where it is.
BreakOff(t) ==
    /\ task[t] # Nil /\ faults < MaxFaults
    /\ faults' = faults + 1
    /\ calm' = (calm /\ ~(\/ At(t, "remember") \/ At(t, "delete")
                          \/ At(t, "insert")   \/ At(t, "update")))
    /\ Ends(t)
    /\ UNCHANGED <<cluster, row, ops, writes, origin>>

TaskStep(t) ==
    \/ \E c \in Containers, form \in ResourceSet : StartApply(t, c, form)
    \/ \E c \in Containers : StartRecommended(t, c)
    \/ \E c \in Containers : StartUndo(t, c)
    \/ \E v \in Quantity : ReadStatus(t, v)
    \/ ReadTarget(t)
    \/ Blocked(t)
    \/ ReadRow(t)
    \/ Patch(t)
    \/ PatchRefused(t)
    \/ FindRow(t)
    \/ InsertRow(t)
    \/ UpdateRow(t)
    \/ DeleteRow(t)
    \/ BreakOff(t)

Next ==
    \/ \E t \in Tasks : TaskStep(t)
    \/ \E c \in Containers, f \in Fields, v \in Quantity :
          OtherWrites(c, f, v)

Spec == Init /\ [][Next]_vars

---------------------------------------------------------------------------
Held == [Fields -> Nat \cup {Nil}]
Task == [op : {"apply", "undo"}, container : Containers,
         stage : {"status", "target", "row", "patch", "remember", "insert",
                  "update", "delete"},
         form : Held, seen : Held]

ASSUME NilAssumption == Nil \notin Held /\ Nil \notin Task

TypeOK ==
    /\ live \in [Containers -> Held]
    /\ owners \in [Containers -> [Fields -> SUBSET Managers]]
    /\ \A c \in Containers, f \in Fields :
          live[c][f] = Nil <=> owners[c][f] = {}
    /\ row \in [Containers -> Held \cup {Nil}]
    /\ origin \in [Containers -> Held \cup {Nil}]
    /\ task \in [Tasks -> Task \cup {Nil}]
    /\ ops \in 0 .. MaxOps /\ writes \in 0 .. MaxWrites
    /\ faults \in 0 .. MaxFaults
    /\ calm \in BOOLEAN /\ collateral \subseteq Containers

\* "A second apply keeps the ORIGINAL previous": however many edits follow
\* one another, the row holds what the container held before the first of
\* them, and there is a row exactly while there is something to undo.
OriginalRemembered ==
    calm => \A c \in Containers : ~Busy(c) => row[c] = origin[c]

\* "exactly put it back the way it was": an undone container holds what it
\* held before tmjLens touched it, rounded as quantities are written -- fields
\* tmjLens added are gone, fields it took over are back.
UndoRestores ==
    [][\A t \in Tasks : (calm /\ DeleteRow(t)) =>
          LET c == task[t].container
          IN live[c] = RoundedSet(origin[c])]_vars

\* The same promise without the proviso: the row of a container tmjLens has
\* touched is what it held before, also when two administrators edit at once.
OriginalKept ==
    \A c \in Containers : (row[c] # Nil /\ origin[c] # Nil)
                            => row[c] = origin[c]

\* "SSA merges this into the pod template without touching the other
\* containers" (the comment on apply_config).
OtherContainersUntouched == collateral = {}
=============================================================================
