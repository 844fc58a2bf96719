----------------------------- MODULE HpaManager -----------------------------
(***************************************************************************)
(* The HPA manager (src-tauri/src/hpa.rs) for one workload: apply lists    *)
(* the autoscalers of the workload, reads the one it is going to write,    *)
(* applies server side as field manager tmjlens and remembers what it      *)
(* replaced in hpa_managed; undo removes or restores from that row.  Each  *)
(* call is a step of its own, so administrators and other writers come in  *)
(* between.                                                                *)
(*                                                                         *)
(* The API server is external: an apply that is not forced fails where     *)
(* another manager set a different value, and an apply whose body carries  *)
(* managedFields is refused.                                               *)
(***************************************************************************)
CONSTANTS
    Admins,
    HpaNames, \* names an autoscaler of the workload may have
    Specs,    \* replica bounds, metric and behaviour of one
    None

ASSUME HpaAssumption == None \notin Specs

VARIABLES
    hpa,   \* by name: None, or [spec, ours, foreign]
    row,   \* of hpa_managed, by name: none, or whether it holds a previous version
    admin, \* by administrator: idle, or the request between two calls
    blur   \* history: what a request took for known and was not: what stands
           \* "beside" its autoscaler, or what was there "before"

hpaVars == <<hpa, row, admin, blur>>

HpaIdle == [stage |-> "idle"]
\* What a row says of the autoscaler before the last apply.
Rows == {"none", "absent", "previous"}

Hpas == [spec : Specs, ours : BOOLEAN, foreign : BOOLEAN]

HpaInit ==
    /\ hpa \in [HpaNames -> {None} \cup [spec : Specs, ours : {FALSE}, foreign : {TRUE}]]
    /\ row = [n \in HpaNames |-> "none"]
    /\ admin = [a \in Admins |-> HpaIdle]
    /\ blur = {}

Ours(n) == hpa[n] # None /\ hpa[n].ours
Stage(a, s) == admin[a].stage = s
Finish(a) == admin' = [admin EXCEPT ![a] = HpaIdle]

---------------------------------------------------------------------------
Blocked_Faulty(n, import) ==
    \E m \in HpaNames \ {n} : hpa[m] # None /\ ~Ours(m) /\ ~import

\* build: another autoscaler of the workload blocks, unless it is not ours
\* and the form says importExisting.
Blocked(n, import) ==
    \E m \in HpaNames \ {n} : hpa[m] # None /\ (Ours(m) \/ ~import)

\* Another request about to create an autoscaler, one no list shows yet.
Rival(n) ==
    \E b \in Admins : admin[b].stage \in {"built", "read"} /\ admin[b].name # n

\* apply with a form that passes the ceiling, the bounds and the guards.  A
\* list that fails blocks nothing.
BeginApply(a) ==
    /\ Stage(a, "idle")
    /\ \E n \in HpaNames, s \in Specs, import, listed \in BOOLEAN :
          /\ listed => ~Blocked(n, import)
          /\ admin' = [admin EXCEPT ![a] =
                [stage |-> "built", name |-> n, spec |-> s, import |-> import]]
          /\ blur' = IF Blocked(n, import) \/ Rival(n) THEN blur \cup {"beside"} ELSE blur
    /\ UNCHANGED <<hpa, row>>

\* The autoscaler under its name; an error reads as none.
GetPrevious(a) ==
    /\ Stage(a, "built")
    /\ \E now \in {hpa[admin[a].name], None} :
          /\ admin' = [admin EXCEPT ![a] =
                IF now # None /\ ~now.ours /\ ~@.import THEN HpaIdle
                ELSE [stage |-> "read", name |-> @.name, spec |-> @.spec,
                      before |-> IF now = None THEN "absent" ELSE "previous"]]
          /\ blur' = IF now = hpa[admin[a].name] THEN blur ELSE blur \cup {"before"}
    /\ UNCHANGED <<hpa, row>>

\* Another manager set a value that the apply would change.
Conflict(n, s) == hpa[n] # None /\ hpa[n].foreign /\ hpa[n].spec # s

\* The apply itself.
ApplyHpa(a) ==
    /\ Stage(a, "read")
    /\ LET n == admin[a].name
           s == admin[a].spec IN
       IF Conflict(n, s)
         THEN Finish(a) /\ UNCHANGED hpa
         ELSE /\ hpa' = [hpa EXCEPT ![n] =
                    [spec |-> s, ours |-> TRUE, foreign |-> @ # None /\ @.foreign]]
              /\ admin' = [admin EXCEPT ![a] =
                    [stage |-> "applied", name |-> n, before |-> @.before]]
    /\ UNCHANGED <<row, blur>>

\* remember: inserts the row or updates it, whatever it held.
Remember(a) ==
    /\ Stage(a, "applied")
    /\ row' = [row EXCEPT ![admin[a].name] = admin[a].before]
    /\ Finish(a)
    /\ UNCHANGED <<hpa, blur>>

\* The autoscaler is removed whatever the row holds.
BeginUndo_Faulty(a) ==
    /\ Stage(a, "idle")
    /\ \E n \in HpaNames :
          /\ row[n] # "none"
          /\ admin' = [admin EXCEPT ![a] = [name |-> n, stage |-> "undoing"]]
    /\ UNCHANGED <<hpa, row, blur>>

\* undo reads the row.  A previous version is applied as it was stored, with
\* the managedFields the server put there, so the server refuses it, the row
\* stays and the answer is an error; without one the autoscaler is removed.
BeginUndo(a) ==
    /\ Stage(a, "idle")
    /\ \E n \in HpaNames :
          /\ row[n] # "none"
          /\ admin' = [admin EXCEPT ![a] = [name |-> n, stage |->
                          IF row[n] = "absent" THEN "undoing" ELSE "refused"]]
    /\ UNCHANGED <<hpa, row, blur>>

\* Removed by name, if it is still there ...
RemoveHpa(a) ==
    /\ Stage(a, "undoing")
    /\ IF hpa[admin[a].name] = None
         THEN Finish(a) /\ UNCHANGED hpa
         ELSE /\ hpa' = [hpa EXCEPT ![admin[a].name] = None]
              /\ admin' = [admin EXCEPT ![a] = [stage |-> "removed", name |-> @.name]]
    /\ UNCHANGED <<row, blur>>

\* ... and its row after it.
ForgetRow(a) ==
    /\ Stage(a, "removed")
    /\ row' = [row EXCEPT ![admin[a].name] = "none"]
    /\ Finish(a)
    /\ UNCHANGED <<hpa, blur>>

\* The error is read, the client hangs up, the pod restarts, or a call fails.
HpaBreaksOff(a) ==
    /\ ~Stage(a, "idle")
    /\ Finish(a)
    /\ UNCHANGED <<hpa, row, blur>>

\* tmjLens has read or remembered what it will not read again before undo.
Relied(n) ==
    \/ row[n] = "absent"
    \/ \E a \in Admins : admin[a].stage \in {"read", "applied", "undoing"} /\ admin[a].name = n

\* Somebody else creates an autoscaler, writes one or deletes one.
OtherWriter(n) ==
    /\ \/ \E s \in Specs : hpa' = [hpa EXCEPT ![n] =
              [spec |-> s, ours |-> Ours(n), foreign |-> TRUE]]
       \/ hpa[n] # None /\ hpa' = [hpa EXCEPT ![n] = None]
    /\ blur' = IF Relied(n) THEN blur \cup {"before"} ELSE blur
    /\ UNCHANGED <<row, admin>>

HpaNext ==
    \/ \E a \in Admins :
          \/ BeginApply(a)
          \/ GetPrevious(a)
          \/ ApplyHpa(a)
          \/ Remember(a)
          \/ BeginUndo(a)
          \/ RemoveHpa(a)
          \/ ForgetRow(a)
          \/ HpaBreaksOff(a)
    \/ \E n \in HpaNames : OtherWriter(n)

HpaSpec == HpaInit /\ [][HpaNext]_hpaVars

---------------------------------------------------------------------------
HpaTypeOK ==
    /\ hpa \in [HpaNames -> {None} \cup Hpas]
    /\ row \in [HpaNames -> Rows]
    /\ admin \in [Admins -> {HpaIdle}
          \cup [stage : {"built"}, name : HpaNames, spec : Specs, import : BOOLEAN]
          \cup [stage : {"read"}, name : HpaNames, spec : Specs, before : Rows]
          \cup [stage : {"applied"}, name : HpaNames, before : Rows]
          \cup [stage : {"undoing", "refused", "removed"}, name : HpaNames]]
    /\ blur \subseteq {"beside", "before"}

\* "tmjLens already manages HPA ... edit that one instead of creating
\* another": whatever others create and delete, and through any number of
\* applies, undos and requests that break off, a workload has one autoscaler
\* of tmjLens at most -- as long as no list failed that would have blocked an
\* apply, and no two applies about different names overlapped.
OneOfOurs ==
    "beside" \notin blur =>
        \A m, n \in HpaNames : Ours(m) /\ Ours(n) => m = n

\* undo deletes by the row alone and looks at nothing else.  What it is about
\* to delete holds no value that somebody else set, unless they wrote it after
\* tmjLens had read it, or that read failed and was taken for "there is none".
UndoRemovesOwn ==
    "before" \notin blur =>
        \A a \in Admins : Stage(a, "undoing") =>
            LET now == hpa[admin[a].name] IN now # None => ~now.foreign

\* "Undo: restores the previous version or removes the HPA"
\* (docs/tmjlens-rightsizing-hpa-spec.md:124).
UndoWorks == \A a \in Admins : ~Stage(a, "refused")

\* "a second HPA will not be created" (the warning of status): tmjLens makes
\* no autoscaler for a workload that has another one.
NoSecondHpa ==
    [][\A n \in HpaNames : hpa[n] = None /\ Ours(n)' =>
          \A m \in HpaNames : hpa[m] = None]_hpaVars
=============================================================================
