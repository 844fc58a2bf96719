---------------------------- MODULE EditorProofs ----------------------------
(***************************************************************************)
(* Safety of ResourceEditor for any containers, quantities and number of   *)
(* operations.                                                             *)
(*                                                                         *)
(* While nothing overlaps (calm) there is one task, on the one container   *)
(* tmjLens has edited, and how far the task is decides how its row stands  *)
(* to what the container held at first (Underway).                         *)
(***************************************************************************)
EXTENDS ResourceEditor, TLAPS

\* A task's stage belongs to its operation.
StageOf ==
    \A t \in Tasks : task[t] # Nil =>
        /\ task[t].stage \in {"status", "target", "remember", "insert", "update"}
              => task[t].op = "apply"
        /\ task[t].stage \in {"row", "delete"} => task[t].op = "undo"

\* One task, and one container tmjLens has touched.
Alike ==
    /\ \A t, u \in Tasks : task[t] # Nil /\ task[u] # Nil => t = u
    /\ \A c, d \in Containers : Edited(c) /\ Edited(d) => c = d
    /\ \A t \in Tasks : task[t] # Nil =>
          \A d \in Containers \ {task[t].container} : ~Edited(d)

\* A field the container did not have has no other owner.
AddedIsOurs ==
    \A c \in Containers, f \in Fields :
        origin[c] # Nil /\ origin[c][f] = Nil => owners[c][f] \subseteq {"tmjlens"}

\* What row, origin and live are to each other while t is at work.
Underway(t) ==
    LET c == task[t].container
        stage == task[t].stage
    IN /\ stage \in {"status", "target", "row", "patch", "update"} => row[c] = origin[c]
       /\ stage = "patch" /\ task[t].op = "undo" => row[c] # Nil /\ task[t].form = row[c]
       /\ stage = "patch" /\ task[t].op = "apply" => task[t].seen = live[c]
       /\ stage = "remember" =>
             /\ origin[c] # Nil
             /\ row[c] = origin[c] \/ (row[c] = Nil /\ origin[c] = task[t].seen)
       /\ stage = "insert" => row[c] = Nil /\ origin[c] = task[t].seen
       /\ stage = "delete" => origin[c] # Nil /\ live[c] = RoundedSet(origin[c])

Undisturbed ==
    /\ Alike /\ AddedIsOurs
    /\ \A c \in Containers : ~Busy(c) => row[c] = origin[c]
    /\ \A t \in Tasks : task[t] # Nil => Underway(t)

\* The inductive invariant.
IInv == TypeOK /\ StageOf /\ (calm => Undisturbed)

USE EditorAssumption, NilAssumption

---------------------------------------------------------------------------
\* Values and tasks.

LEMMA RoundedValue ==
    ASSUME NEW v \in Nat \cup {Nil}
    PROVE  Rounded(v) \in Nat \cup {Nil} /\ (Rounded(v) = Nil <=> v = Nil)
  BY DEF Rounded

LEMMA RoundedHeld ==
    ASSUME NEW s \in Held
    PROVE  /\ RoundedSet(s) \in Held
           /\ \A f \in Fields : RoundedSet(s)[f] = Rounded(s[f])
  BY RoundedValue DEF Held, RoundedSet

LEMMA TaskFields ==
    ASSUME NEW r \in Task
    PROVE  /\ r # Nil /\ r.container \in Containers /\ r.form \in Held /\ r.seen \in Held
           /\ r.op \in {"apply", "undo"}
           /\ r.stage \in {"status", "target", "row", "patch", "remember", "insert",
                           "update", "delete"}
  BY DEF Task

LEMMA Starting ==
    ASSUME NEW op \in {"apply", "undo"}, NEW c \in Containers, NEW form \in Held,
           NEW stage \in {"status", "target", "row"}
    PROVE  [op |-> op, container |-> c, stage |-> stage, form |-> form, seen |-> Blank]
              \in Task
  BY DEF Task, Blank, Held

\* What the API server makes of a write by tmjLens.
LEMMA AppliedTyped ==
    ASSUME TypeOK, NEW c \in Containers, NEW form \in Held
    PROVE  /\ Applied(c, form) \in [Containers -> Held]
           /\ Owned(c, form) \in [Containers -> [Fields -> SUBSET Managers]]
           /\ \A d \in Containers, f \in Fields :
                 Applied(c, form)[d][f] = Nil <=> Owned(c, form)[d][f] = {}
  <1>1. \A f \in Fields : form[f] \in Nat \cup {Nil}
    BY DEF Held
  <1>2. \A d \in Containers, f \in Fields :
          /\ live[d][f] \in Nat \cup {Nil} /\ owners[d][f] \subseteq Managers
          /\ live[d][f] = Nil <=> owners[d][f] = {}
    BY DEF TypeOK, Held
  <1>3. "tmjlens" \in Managers
    BY DEF Managers
  <1>4. ASSUME NEW d \in Containers, NEW f \in Fields
        PROVE  /\ Applied(c, form)[d][f] \in Nat \cup {Nil}
               /\ Owned(c, form)[d][f] \subseteq Managers
               /\ Applied(c, form)[d][f] = Nil <=> Owned(c, form)[d][f] = {}
    <2>1. CASE Named(c, form, d, f)
      <3>1. Applied(c, form)[d][f] = Rounded(form[f])
        BY <2>1 DEF Applied
      <3>2. Owned(c, form)[d][f] = IF live[d][f] = Rounded(form[f])
               THEN owners[d][f] \cup {"tmjlens"} ELSE {"tmjlens"}
        BY <2>1 DEF Owned
      <3>3. Rounded(form[f]) \in Nat
        BY <1>1, <2>1, RoundedValue DEF Named
      <3> QED BY <1>2, <1>3, <3>1, <3>2, <3>3
    <2>2. CASE ~Named(c, form, d, f)
      <3>1. Applied(c, form)[d][f] = IF OnlyOurs(d, f) THEN Nil ELSE live[d][f]
        BY <2>2 DEF Applied
      <3>2. Owned(c, form)[d][f] = owners[d][f] \ {"tmjlens"}
        BY <2>2 DEF Owned
      <3> QED BY <1>2, <3>1, <3>2 DEF OnlyOurs
    <2> QED BY <2>1, <2>2
  <1>5. Applied(c, form) \in [Containers -> Held]
    BY <1>4 DEF Applied, Held
  <1>6. Owned(c, form) \in [Containers -> [Fields -> SUBSET Managers]]
    BY <1>4 DEF Owned
  <1> QED BY <1>4, <1>5, <1>6

---------------------------------------------------------------------------
\* Steps.

LEMMA OneTask ==
    ASSUME TypeOK, NEW t \in Tasks, NEW q \in Task \cup {Nil},
           task' = [task EXCEPT ![t] = q]
    PROVE  /\ task' \in [Tasks -> Task \cup {Nil}] /\ task'[t] = q
           /\ \A u \in Tasks : u # t => task'[u] = task[u]
  BY DEF TypeOK

\* While calm, c's task is the only one.
LEMMA Only ==
    ASSUME TypeOK, Undisturbed, NEW t \in Tasks, task[t] # Nil
    PROVE  /\ \A u \in Tasks : u # t => task[u] = Nil
           /\ \A d \in Containers : d # task[t].container =>
                 ~Busy(d) /\ ~Edited(d) /\ row[d] = origin[d]
  <1>1. \A u \in Tasks : u # t => task[u] = Nil
    BY DEF Undisturbed, Alike
  <1>2. \A d \in Containers : d # task[t].container => ~Busy(d)
    BY <1>1 DEF Busy
  <1> QED BY <1>1, <1>2 DEF Undisturbed, Alike

\* A task goes on or ends and touches nothing but itself.
LEMMA QuietStep ==
    ASSUME IInv, NEW t \in Tasks, task[t] # Nil, NEW q \in Task \cup {Nil},
           task' = [task EXCEPT ![t] = q],
           UNCHANGED <<live, owners, collateral, row, origin, ops, writes>>,
           faults' \in 0 .. MaxFaults, calm' \in BOOLEAN, calm' => calm,
           q # Nil =>
              /\ q.container = task[t].container /\ q.op = task[t].op
              /\ q.stage \in {"status", "target", "remember", "insert", "update"}
                    => q.op = "apply"
              /\ q.stage \in {"row", "delete"} => q.op = "undo"
              /\ calm => Underway(t)',
           q = Nil /\ calm' => row[task[t].container] = origin[task[t].container]
    PROVE  IInv'
  <1>1. /\ task' \in [Tasks -> Task \cup {Nil}] /\ task'[t] = q
        /\ \A u \in Tasks : u # t => task'[u] = task[u]
    BY OneTask DEF IInv
  <1>2. TypeOK'
    BY <1>1 DEF IInv, TypeOK
  <1>3. StageOf'
    BY <1>1 DEF IInv, StageOf
  <1>4. ASSUME calm' PROVE Undisturbed'
    <2>1. Undisturbed
      BY <1>4 DEF IInv
    <2>2. \A u \in Tasks : u # t => task'[u] = Nil
      BY <1>1, <2>1, Only DEF IInv
    <2>3. \A d \in Containers : Edited(d)' <=> Edited(d)
      BY DEF Edited
    <2>4. Alike'
      BY <1>1, <2>1, <2>2, <2>3 DEF Undisturbed, Alike
    <2>5. AddedIsOurs'
      BY <2>1 DEF Undisturbed, AddedIsOurs
    <2>6. ASSUME NEW c \in Containers, ~Busy(c)' PROVE row'[c] = origin'[c]
      <3>1. CASE c = task[t].container
        <4>1. q = Nil
          BY <1>1, <2>6, <3>1 DEF Busy
        <4> QED BY <1>4, <3>1, <4>1
      <3>2. CASE c # task[t].container
        BY <2>1, <3>2, Only DEF IInv
      <3> QED BY <3>1, <3>2
    <2>7. ASSUME NEW u \in Tasks, task'[u] # Nil PROVE Underway(u)'
      <3>1. u = t /\ q # Nil
        BY <1>1, <2>2, <2>7
      <3> QED BY <1>4, <3>1
    <2> QED BY <2>4, <2>5, <2>6, <2>7 DEF Undisturbed
  <1> QED BY <1>2, <1>3, <1>4 DEF IInv

LEMMA Started ==
    ASSUME IInv, NEW t \in Tasks, NEW op \in {"apply", "undo"}, NEW c \in Containers,
           NEW form \in Held, NEW stage \in {"status", "target", "row"},
           stage = "row" <=> op = "undo",
           Start(t, op, c, form, stage)
    PROVE  IInv'
  <1>1. PICK q \in Task : q = [op |-> op, container |-> c, stage |-> stage,
                               form |-> form, seen |-> Blank]
    BY Starting
  <1>2. /\ task' = [task EXCEPT ![t] = q] /\ calm' = (calm /\ Alone(c))
        /\ UNCHANGED <<live, owners, collateral, row, writes, faults, origin>>
        /\ ops < MaxOps /\ ops' = ops + 1
    BY <1>1 DEF Start, cluster
  <1>3. /\ task' \in [Tasks -> Task \cup {Nil}] /\ task'[t] = q
        /\ \A u \in Tasks : u # t => task'[u] = task[u]
    BY <1>2, OneTask DEF IInv
  <1>4. q.container = c /\ q.op = op /\ q.stage = stage
    BY <1>1
  <1>5. TypeOK'
    <2>1. ops' \in 0 .. MaxOps /\ calm' \in BOOLEAN
      BY <1>2 DEF IInv, TypeOK
    <2> QED BY <1>2, <1>3, <2>1 DEF IInv, TypeOK
  <1>6. StageOf'
    BY <1>3, <1>4 DEF IInv, StageOf
  <1>7. ASSUME calm' PROVE Undisturbed'
    <2>1. calm /\ Alone(c)
      BY <1>2, <1>7 DEF IInv, TypeOK
    <2>2. /\ Undisturbed /\ \A u \in Tasks : task[u] = Nil
          /\ \A d \in Containers \ {c} : ~Edited(d)
      BY <2>1 DEF IInv, Alone
    <2>3. \A d \in Containers : Edited(d)' <=> Edited(d)
      BY <1>2 DEF Edited
    <2>4. Alike'
      BY <1>3, <1>4, <2>2, <2>3 DEF Undisturbed, Alike
    <2>5. AddedIsOurs'
      BY <1>2, <2>2 DEF Undisturbed, AddedIsOurs
    <2>6. \A d \in Containers : row'[d] = origin'[d]
      BY <1>2, <2>2 DEF Undisturbed, Busy
    <2>7. Underway(t)'
      BY <1>3, <1>4, <2>6 DEF Underway
    <2>8. ASSUME NEW u \in Tasks, task'[u] # Nil PROVE Underway(u)'
      <3>1. u = t
        BY <1>3, <2>2, <2>8
      <3> QED BY <2>7, <3>1
    <2> QED BY <2>4, <2>5, <2>6, <2>8 DEF Undisturbed
  <1> QED BY <1>5, <1>6, <1>7 DEF IInv

LEMMA RecommendedHeld ==
    ASSUME NEW current \in Held, NEW v \in Quantity
    PROVE  Recommended(current, v) \in Held
  <1>1. v \in Nat \cup {Nil}
    BY DEF Quantity
  <1>2. current.limit \in Nat \cup {Nil}
    BY DEF Held, Fields
  <1>3. CASE v = Nil
    BY <1>3 DEF Recommended
  <1>4. CASE v # Nil
    <2>1. PICK l \in Nat \cup {Nil} : Recommended(current, v) = [request |-> v, limit |-> l]
      BY <1>1, <1>2, <1>4 DEF Recommended
    <2> QED BY <1>1, <2>1 DEF Held, Fields
  <1> QED BY <1>3, <1>4

LEMMA Reads ==
    ASSUME IInv, NEW t \in Tasks,
           \/ \E v \in Quantity : ReadStatus(t, v)
           \/ ReadTarget(t) \/ ReadRow(t) \/ FindRow(t)
    PROVE  IInv'
  <1> DEFINE c == task[t].container
  <1>1. /\ task[t] \in Task /\ task[t] # Nil
        /\ UNCHANGED <<live, owners, collateral, row, origin, ops, writes, faults, calm>>
    BY DEF ReadStatus, ReadTarget, ReadRow, FindRow, At, cluster, IInv, TypeOK
  <1>2. /\ c \in Containers /\ live[c] \in Held /\ row[c] \in Held \cup {Nil}
        /\ faults \in 0 .. MaxFaults /\ calm \in BOOLEAN
        /\ calm => Underway(t)
    BY <1>1, TaskFields DEF IInv, TypeOK, Undisturbed
  <1>r. PICK r \in Task : r = task[t]
    BY <1>1
  <1>3. /\ task[t].stage \in {"status", "target", "remember", "insert", "update"}
              => task[t].op = "apply"
        /\ task[t].stage \in {"row", "delete"} => task[t].op = "undo"
    BY <1>1 DEF IInv, StageOf
  <1>4. ASSUME NEW v \in Quantity, ReadStatus(t, v) PROVE IInv'
    <2>1. PICK h \in Held : h = Recommended(live[c], v)
      BY <1>2, RecommendedHeld
    <2>a. PICK q \in Task : q = [[r EXCEPT !.form = h] EXCEPT !.stage = "target"]
      BY DEF Task
    <2>3. q # Nil /\ q.stage = "target" /\ q.op = r.op /\ q.container = r.container
      BY <2>a, TaskFields DEF Task
    <2>2. task' = [task EXCEPT ![t] = q] /\ task[t].stage = "status"
      BY <1>r, <1>4, <2>1, <2>a DEF ReadStatus, At
    <2>4. task'[t] = q
      BY <2>2, <2>3, OneTask DEF IInv
    <2>5. calm => Underway(t)'
      BY <1>r, <1>1, <1>2, <2>2, <2>3, <2>4 DEF Underway
    <2> QED BY <1>r, <1>1, <1>2, <1>3, <2>2, <2>3, <2>5, QuietStep
  <1>5. CASE ReadTarget(t)
    <2>h. PICK h \in Held : h = live[c]
      BY <1>2
    <2>a. PICK q \in Task : q = [[r EXCEPT !.seen = h] EXCEPT !.stage = "patch"]
      BY DEF Task
    <2>2. /\ q # Nil /\ q.stage = "patch" /\ q.op = r.op /\ q.container = r.container
          /\ q.seen = live[c]
      BY <2>h, <2>a, TaskFields DEF Task
    <2>1. task' = [task EXCEPT ![t] = q] /\ task[t].stage = "target"
      BY <1>r, <1>5, <2>h, <2>a DEF ReadTarget, At
    <2>3. task'[t] = q
      BY <2>1, <2>2, OneTask DEF IInv
    <2>4. calm => Underway(t)'
      BY <1>r, <1>1, <1>2, <1>3, <2>1, <2>2, <2>3 DEF Underway
    <2> QED BY <1>r, <1>1, <1>2, <1>3, <2>1, <2>2, <2>4, QuietStep
  <1>6. CASE ReadRow(t)
    <2>1. task[t].stage = "row" /\ task[t].op = "undo"
      BY <1>3, <1>6 DEF ReadRow, At
    <2>2. CASE row[c] = Nil
      <3>1. task' = [task EXCEPT ![t] = Nil]
        BY <1>6, <2>2 DEF ReadRow
      <3>2. calm => row[c] = origin[c]
        BY <1>2, <2>1 DEF Underway
      <3> QED BY <1>1, <1>2, <3>1, <3>2, QuietStep
    <2>3. CASE row[c] # Nil
      <3>h. PICK h \in Held : h = row[c]
        BY <1>2, <2>3
      <3>a. PICK q \in Task : q = [[r EXCEPT !.form = h] EXCEPT !.stage = "patch"]
        BY DEF Task
      <3>2. /\ q # Nil /\ q.stage = "patch" /\ q.op = r.op /\ q.container = r.container
            /\ q.form = row[c]
        BY <3>h, <3>a, TaskFields DEF Task
      <3>1. task' = [task EXCEPT ![t] = q]
        BY <1>r, <1>6, <2>3, <3>h, <3>a DEF ReadRow
      <3>3. task'[t] = q
        BY <3>1, <3>2, OneTask DEF IInv
      <3>4. calm => Underway(t)'
        BY <1>r, <1>1, <1>2, <2>1, <2>3, <3>2, <3>3 DEF Underway
      <3> QED BY <1>r, <1>1, <1>2, <2>1, <3>1, <3>2, <3>4, QuietStep
    <2> QED BY <2>2, <2>3
  <1>7. CASE FindRow(t)
    <2>1. PICK s \in {"insert", "update"} : s = IF row[c] = Nil THEN "insert" ELSE "update"
      OBVIOUS
    <2>a. PICK q \in Task : q = [r EXCEPT !.stage = s]
      BY DEF Task
    <2>3. /\ q # Nil /\ q.stage = s /\ q.op = r.op /\ q.container = r.container
          /\ q.seen = r.seen
      BY <2>a, TaskFields DEF Task
    <2>2. task' = [task EXCEPT ![t] = q] /\ task[t].stage = "remember"
      BY <1>r, <1>7, <2>1, <2>a DEF FindRow, At, Goes
    <2>4. task'[t] = q
      BY <2>2, <2>3, OneTask DEF IInv
    <2>5. calm => Underway(t)'
      BY <1>r, <1>1, <1>2, <2>1, <2>2, <2>3, <2>4 DEF Underway
    <2> QED BY <1>r, <1>1, <1>2, <1>3, <2>1, <2>2, <2>3, <2>5, QuietStep
  <1> QED BY <1>4, <1>5, <1>6, <1>7

LEMMA Ended ==
    ASSUME IInv, NEW t \in Tasks,
           Blocked(t) \/ PatchRefused(t) \/ UpdateRow(t) \/ BreakOff(t)
    PROVE  IInv'
  <1> DEFINE c == task[t].container
  <1>1. /\ task[t] \in Task /\ task[t] # Nil
        /\ task' = [task EXCEPT ![t] = Nil]
        /\ UNCHANGED <<live, owners, collateral, row, origin, ops, writes>>
    BY DEF Blocked, PatchRefused, UpdateRow, BreakOff, At, Ends, cluster, IInv, TypeOK
  <1>2. faults' \in 0 .. MaxFaults /\ calm' \in BOOLEAN /\ (calm' => calm)
    <2>1. faults \in 0 .. MaxFaults /\ calm \in BOOLEAN
      BY DEF IInv, TypeOK
    <2>2. CASE BreakOff(t)
      <3>1. faults < MaxFaults /\ faults' = faults + 1
        BY <2>2 DEF BreakOff
      <3>2. faults' \in 0 .. MaxFaults
        BY <2>1, <3>1
      <3>3. calm' \in BOOLEAN /\ (calm' => calm)
        BY <2>1, <2>2 DEF BreakOff
      <3> QED BY <3>2, <3>3
    <2>3. CASE Blocked(t) \/ PatchRefused(t) \/ UpdateRow(t)
      BY <2>1, <2>3 DEF Blocked, PatchRefused, UpdateRow
    <2> QED BY <2>2, <2>3
  <1>3. task[t].stage \in {"status", "target", "row", "patch", "remember", "insert",
                           "update", "delete"}
    BY <1>1, TaskFields
  <1>4. calm' => task[t].stage \in {"status", "target", "row", "patch", "update"}
    <2>1. CASE BreakOff(t)
      BY <1>1, <1>3, <2>1 DEF BreakOff, At
    <2>2. CASE Blocked(t) \/ PatchRefused(t) \/ UpdateRow(t)
      BY <2>2 DEF Blocked, PatchRefused, UpdateRow, At
    <2> QED BY <2>1, <2>2
  <1>5. calm' => row[c] = origin[c]
    <2>1. calm' => Underway(t)
      BY <1>1, <1>2 DEF IInv, Undisturbed
    <2> QED BY <1>4, <2>1 DEF Underway
  <1> QED BY <1>1, <1>2, <1>5, QuietStep

\* A forced patch by the only task leaves the other containers alone, and an
\* undo puts its own container back.
LEMMA PatchAlone ==
    ASSUME IInv, calm, NEW t \in Tasks, task[t] # Nil, Patch(t)
    PROVE  /\ \A d \in Containers \ {task[t].container} :
                 live'[d] = live[d] /\ owners'[d] = owners[d] /\ origin'[d] = origin[d]
           /\ AddedIsOurs'
           /\ task[t].op = "undo" =>
                 /\ origin'[task[t].container] = origin[task[t].container]
                 /\ origin[task[t].container] # Nil
                 /\ live'[task[t].container] = RoundedSet(origin[task[t].container])
  <1>r. PICK r \in Task : r = task[t]
    BY DEF IInv, TypeOK
  <1>c. PICK c \in Containers : c = r.container
    BY TaskFields
  <1>o. PICK form \in Held : form = r.form
    BY TaskFields
  <1>1. /\ live' = Applied(c, form) /\ owners' = Owned(c, form)
        /\ origin' = IF origin[c] = Nil THEN [origin EXCEPT ![c] = live[c]] ELSE origin
        /\ r.stage = "patch"
    BY <1>r, <1>c, <1>o DEF Patch, ServerSideApply, At
  <1>2. /\ live \in [Containers -> Held] /\ origin \in [Containers -> Held \cup {Nil}]
        /\ owners \in [Containers -> [Fields -> SUBSET Managers]]
        /\ \A d \in Containers, f \in Fields : live[d][f] = Nil <=> owners[d][f] = {}
    BY DEF IInv, TypeOK
  <1>3. /\ Applied(c, form) \in [Containers -> Held]
        /\ Owned(c, form) \in [Containers -> [Fields -> SUBSET Managers]]
    BY AppliedTyped DEF IInv
  <1>4. Undisturbed
    BY DEF IInv
  <1>5. \A d \in Containers : d # c => ~Edited(d)
    BY <1>4, <1>r, <1>c, Only DEF IInv
  <1>6. ASSUME NEW d \in Containers, d # c
        PROVE  live'[d] = live[d] /\ owners'[d] = owners[d] /\ origin'[d] = origin[d]
    <2>1. \A f \in Fields : "tmjlens" \notin owners[d][f]
      BY <1>5, <1>6 DEF Edited
    <2>2. \A f \in Fields : Applied(c, form)[d][f] = live[d][f]
      BY <1>6, <2>1 DEF Applied, Named, OnlyOurs
    <2>3. \A f \in Fields : Owned(c, form)[d][f] = owners[d][f] \ {"tmjlens"}
      BY <1>6 DEF Owned, Named
    <2>4. ASSUME NEW f \in Fields PROVE Owned(c, form)[d][f] = owners[d][f]
      <3>1. owners[d][f] \ {"tmjlens"} = owners[d][f]
        BY <2>1
      <3> QED BY <2>3, <3>1
    <2>5. Applied(c, form)[d] = live[d]
      <3>1. Applied(c, form)[d] \in Held /\ live[d] \in Held
        BY <1>2, <1>3
      <3> QED BY <2>2, <3>1 DEF Held
    <2>6. Owned(c, form)[d] = owners[d]
      <3>1. Owned(c, form)[d] \in [Fields -> SUBSET Managers]
            /\ owners[d] \in [Fields -> SUBSET Managers]
        BY <1>2, <1>3
      <3> QED BY <2>4, <3>1
    <2>7. origin'[d] = origin[d]
      BY <1>1, <1>2, <1>6
    <2> QED BY <1>1, <2>5, <2>6, <2>7
  <1>7. \A f \in Fields : owners[c][f] \subseteq {"tmjlens"}
                            => owners'[c][f] \subseteq {"tmjlens"}
    BY <1>1 DEF Owned
  <1>8. ASSUME NEW d \in Containers, NEW f \in Fields, origin'[d] # Nil, origin'[d][f] = Nil
        PROVE  owners'[d][f] \subseteq {"tmjlens"}
    <2>1. CASE d # c
      <3>1. origin[d] = Nil
        BY <1>5, <2>1 DEF Edited
      <3> QED BY <1>6, <1>8, <2>1, <3>1
    <2>2. CASE d = c /\ origin[c] = Nil
      <3>1. origin'[c] = live[c]
        BY <1>1, <1>2, <2>2
      <3>2. owners[c][f] = {}
        BY <1>2, <1>8, <2>2, <3>1
      <3> QED BY <1>7, <2>2, <3>2
    <2>3. CASE d = c /\ origin[c] # Nil
      <3>1. origin' = origin
        BY <1>1, <2>3
      <3>2. owners[c][f] \subseteq {"tmjlens"}
        BY <1>4, <1>8, <2>3, <3>1 DEF Undisturbed, AddedIsOurs
      <3> QED BY <1>7, <2>3, <3>2
    <2> QED BY <2>1, <2>2, <2>3
  <1>9. AddedIsOurs'
    BY <1>8 DEF AddedIsOurs
  <1>10. ASSUME r.op = "undo"
         PROVE  origin'[c] = origin[c] /\ origin[c] # Nil /\ live'[c] = RoundedSet(origin[c])
    <2>1. row[c] = origin[c] /\ row[c] # Nil /\ form = row[c]
      <3>1. Underway(t)
        BY <1>4 DEF Undisturbed
      <3> QED BY <1>r, <1>c, <1>o, <1>1, <1>10, <3>1 DEF Underway
    <2>2. origin'[c] = origin[c]
      BY <1>1, <2>1
    <2>3. ASSUME NEW f \in Fields PROVE Applied(c, form)[c][f] = Rounded(form[f])
      <3>1. CASE form[f] # Nil
        BY <3>1 DEF Applied, Named
      <3>2. CASE form[f] = Nil
        <4>1. owners[c][f] \subseteq {"tmjlens"}
          BY <1>4, <2>1, <3>2 DEF Undisturbed, AddedIsOurs
        <4>2. Applied(c, form)[c][f] = IF OnlyOurs(c, f) THEN Nil ELSE live[c][f]
          BY <3>2 DEF Applied, Named
        <4>3. ~OnlyOurs(c, f) => live[c][f] = Nil
          BY <1>2, <4>1 DEF OnlyOurs
        <4>4. Rounded(form[f]) = Nil
          BY <3>2 DEF Rounded
        <4> QED BY <4>2, <4>3, <4>4
      <3> QED BY <3>1, <3>2
    <2>4. /\ RoundedSet(form) \in Held
          /\ \A f \in Fields : RoundedSet(form)[f] = Rounded(form[f])
      BY RoundedHeld
    <2>5. Applied(c, form)[c] \in Held
      BY <1>3
    <2>6. Applied(c, form)[c] = RoundedSet(form)
      BY <2>3, <2>4, <2>5 DEF Held
    <2> QED BY <1>1, <2>1, <2>2, <2>6
  <1> QED BY <1>r, <1>c, <1>6, <1>9, <1>10

LEMMA Patched ==
    ASSUME IInv, NEW t \in Tasks, Patch(t)
    PROVE  IInv'
  <1>1. task[t] # Nil /\ task[t] \in Task /\ task[t].stage = "patch"
    BY DEF Patch, At, IInv, TypeOK
  <1>r. PICK r \in Task : r = task[t]
    BY <1>1
  <1>c. PICK c \in Containers : c = r.container
    BY TaskFields
  <1>o. PICK form \in Held : form = r.form
    BY TaskFields
  <1>2. /\ live' = Applied(c, form) /\ owners' = Owned(c, form)
        /\ collateral' = collateral \cup
              {d \in Containers \ {c} : Applied(c, form)[d] # live[d]}
        /\ origin' = IF origin[c] = Nil THEN [origin EXCEPT ![c] = live[c]] ELSE origin
        /\ UNCHANGED <<row, ops, writes, faults, calm>>
    BY <1>r, <1>c, <1>o DEF Patch, ServerSideApply
  <1>3. PICK s \in {"remember", "delete"} :
           s = IF r.op = "apply" THEN "remember" ELSE "delete"
    OBVIOUS
  <1>q. PICK q \in Task : q = [r EXCEPT !.stage = s]
    BY DEF Task
  <1>4. /\ q # Nil /\ q.stage = s /\ q.op = r.op /\ q.container = c
        /\ q.form = form /\ q.seen = r.seen
    BY <1>c, <1>o, <1>q, TaskFields DEF Task
  <1>5. task' = [task EXCEPT ![t] = q]
    BY <1>r, <1>3, <1>q DEF Patch, Goes
  <1>6. /\ task' \in [Tasks -> Task \cup {Nil}] /\ task'[t] = q
        /\ \A u \in Tasks : u # t => task'[u] = task[u]
    BY <1>5, OneTask DEF IInv
  <1>7. r.op \in {"apply", "undo"}
    BY TaskFields
  <1>8. /\ live \in [Containers -> Held] /\ row \in [Containers -> Held \cup {Nil}]
        /\ origin \in [Containers -> Held \cup {Nil}]
    BY DEF IInv, TypeOK
  <1>9. TypeOK'
    <2>1. /\ live' \in [Containers -> Held]
          /\ owners' \in [Containers -> [Fields -> SUBSET Managers]]
          /\ \A d \in Containers, f \in Fields : live'[d][f] = Nil <=> owners'[d][f] = {}
      <3>1. /\ Applied(c, form) \in [Containers -> Held]
            /\ Owned(c, form) \in [Containers -> [Fields -> SUBSET Managers]]
            /\ \A d \in Containers, f \in Fields :
                  Applied(c, form)[d][f] = Nil <=> Owned(c, form)[d][f] = {}
        BY AppliedTyped DEF IInv
      <3> QED BY <1>2, <3>1
    <2>2. origin' \in [Containers -> Held \cup {Nil}]
      BY <1>2, <1>8
    <2>3. collateral' \subseteq Containers
      BY <1>2 DEF IInv, TypeOK
    <2> QED BY <1>2, <1>6, <2>1, <2>2, <2>3 DEF IInv, TypeOK
  <1>10. StageOf'
    BY <1>3, <1>4, <1>6, <1>7 DEF IInv, StageOf
  <1>11. ASSUME calm' PROVE Undisturbed'
    <2>1. calm /\ Undisturbed
      BY <1>2, <1>11 DEF IInv
    <2>2. /\ \A d \in Containers \ {c} :
                live'[d] = live[d] /\ owners'[d] = owners[d] /\ origin'[d] = origin[d]
          /\ AddedIsOurs'
          /\ r.op = "undo" => /\ origin'[c] = origin[c] /\ origin[c] # Nil
                              /\ live'[c] = RoundedSet(origin[c])
      BY <1>r, <1>c, <1>1, <2>1, PatchAlone
    <2>3. /\ \A u \in Tasks : u # t => task[u] = Nil
          /\ \A d \in Containers : d # c => ~Edited(d) /\ row[d] = origin[d]
      BY <1>r, <1>c, <1>1, <2>1, Only DEF IInv
    <2>4. \A d \in Containers : d # c => ~Edited(d)'
      BY <2>2, <2>3 DEF Edited
    <2>5. Alike'
      BY <1>4, <1>6, <2>3, <2>4 DEF Alike
    <2>6. ASSUME NEW d \in Containers, ~Busy(d)' PROVE row'[d] = origin'[d]
      <3>1. d # c
        BY <1>4, <1>6, <2>6 DEF Busy
      <3> QED BY <1>2, <2>2, <2>3, <3>1
    <2>7. Underway(t)
      BY <1>1, <2>1 DEF Undisturbed
    <2>8. row[c] = origin[c] /\ (r.op = "apply" => r.seen = live[c])
      BY <1>r, <1>c, <1>1, <2>7 DEF Underway
    <2>9. CASE r.op = "apply"
      <3>1. s = "remember"
        BY <1>3, <2>9
      <3>2. /\ origin'[c] # Nil
            /\ row'[c] = origin'[c] \/ (row'[c] = Nil /\ origin'[c] = q.seen)
        BY <1>2, <1>4, <1>8, <2>8, <2>9
      <3>3. Underway(t)'
        BY <1>4, <1>6, <3>1, <3>2 DEF Underway
      <3> QED BY <1>6, <2>2, <2>3, <2>5, <2>6, <3>3 DEF Undisturbed
    <2>10. CASE r.op = "undo"
      <3>1. s = "delete"
        BY <1>3, <2>10
      <3>2. Underway(t)'
        BY <1>4, <1>6, <2>2, <2>10, <3>1 DEF Underway
      <3> QED BY <1>6, <2>2, <2>3, <2>5, <2>6, <3>2 DEF Undisturbed
    <2> QED BY <1>7, <2>9, <2>10
  <1> QED BY <1>9, <1>10, <1>11 DEF IInv

\* The last steps of apply and of undo.
LEMMA Concluded ==
    ASSUME IInv, NEW t \in Tasks, InsertRow(t) \/ DeleteRow(t)
    PROVE  IInv'
  <1>1. /\ task[t] # Nil /\ task[t] \in Task /\ task' = [task EXCEPT ![t] = Nil]
        /\ UNCHANGED <<live, owners, collateral, ops, writes, faults, calm>>
    BY DEF InsertRow, DeleteRow, At, Ends, cluster, IInv, TypeOK
  <1>c. PICK c \in Containers : c = task[t].container
    BY <1>1, TaskFields
  <1>2. /\ task' \in [Tasks -> Task \cup {Nil}] /\ task'[t] = Nil
        /\ \A u \in Tasks : u # t => task'[u] = task[u]
    BY <1>1, OneTask DEF IInv
  <1>3. /\ row \in [Containers -> Held \cup {Nil}] /\ task[t].seen \in Held
        /\ origin \in [Containers -> Held \cup {Nil}]
    BY <1>1, TaskFields DEF IInv, TypeOK
  <1>4. /\ row' \in [Containers -> Held \cup {Nil}]
        /\ origin' \in [Containers -> Held \cup {Nil}]
        /\ \A d \in Containers : d # c => row'[d] = row[d] /\ origin'[d] = origin[d]
        /\ origin'[c] \in {origin[c], Nil}
    BY <1>c, <1>3 DEF InsertRow, DeleteRow
  <1>5. TypeOK'
    BY <1>1, <1>2, <1>4 DEF IInv, TypeOK
  <1>6. StageOf'
    BY <1>2 DEF IInv, StageOf
  <1>7. ASSUME calm' PROVE Undisturbed'
    <2>1. calm /\ Undisturbed
      BY <1>1, <1>7 DEF IInv
    <2>2. /\ \A u \in Tasks : task'[u] = Nil
          /\ \A d \in Containers : d # c => row[d] = origin[d]
      BY <1>c, <1>1, <1>2, <2>1, Only DEF IInv
    <2>3. \A d \in Containers : Edited(d)' => Edited(d)
      BY <1>1, <1>4 DEF Edited
    <2>4. Alike'
      BY <2>1, <2>2, <2>3 DEF Undisturbed, Alike
    <2>5. AddedIsOurs'
      BY <1>1, <1>4, <2>1 DEF Undisturbed, AddedIsOurs
    <2>6. row'[c] = origin'[c]
      <3>1. CASE InsertRow(t)
        <4>1. row[c] = Nil /\ origin[c] = task[t].seen
          BY <1>c, <1>1, <2>1, <3>1 DEF Undisturbed, Underway, InsertRow, At
        <4> QED BY <1>c, <1>3, <3>1, <4>1 DEF InsertRow
      <3>2. CASE DeleteRow(t)
        BY <1>c, <1>3, <3>2 DEF DeleteRow
      <3> QED BY <3>1, <3>2
    <2>7. \A d \in Containers : row'[d] = origin'[d]
      BY <1>4, <2>2, <2>6
    <2> QED BY <2>2, <2>4, <2>5, <2>7 DEF Undisturbed
  <1> QED BY <1>5, <1>6, <1>7 DEF IInv

LEMMA Others ==
    ASSUME IInv, NEW c \in Containers, NEW f \in Fields, NEW v \in Quantity,
           OtherWrites(c, f, v)
    PROVE  IInv'
  <1> DEFINE m == IF v = Nil THEN {} ELSE {"other"}
  <1>1. /\ live' = [live EXCEPT ![c][f] = v] /\ owners' = [owners EXCEPT ![c][f] = m]
        /\ writes < MaxWrites /\ writes' = writes + 1
        /\ calm' = (calm /\ ~Edited(c) /\ ~Busy(c))
        /\ UNCHANGED <<row, task, ops, faults, origin, collateral>>
    BY DEF OtherWrites
  <1>2. /\ live \in [Containers -> Held] /\ writes \in 0 .. MaxWrites /\ calm \in BOOLEAN
        /\ owners \in [Containers -> [Fields -> SUBSET Managers]]
        /\ \A d \in Containers, g \in Fields : live[d][g] = Nil <=> owners[d][g] = {}
    BY DEF IInv, TypeOK
  <1>3. v \in Nat \cup {Nil} /\ m \subseteq Managers /\ (v = Nil <=> m = {})
        /\ "tmjlens" \notin m
    BY DEF Quantity, Managers
  <1> HIDE DEF m
  <1>4. /\ live' \in [Containers -> Held]
        /\ \A d \in Containers, g \in Fields :
              live'[d][g] = IF d = c /\ g = f THEN v ELSE live[d][g]
    BY <1>1, <1>2, <1>3 DEF Held
  <1>5. /\ owners' \in [Containers -> [Fields -> SUBSET Managers]]
        /\ \A d \in Containers, g \in Fields :
              owners'[d][g] = IF d = c /\ g = f THEN m ELSE owners[d][g]
    BY <1>1, <1>2, <1>3
  <1>6. TypeOK'
    <2>1. ASSUME NEW d \in Containers, NEW g \in Fields
          PROVE  live'[d][g] = Nil <=> owners'[d][g] = {}
      <3>1. CASE d = c /\ g = f
        BY <1>3, <1>4, <1>5, <3>1
      <3>2. CASE ~(d = c /\ g = f)
        BY <1>2, <1>4, <1>5, <3>2
      <3> QED BY <3>1, <3>2
    <2>2. writes' \in 0 .. MaxWrites /\ calm' \in BOOLEAN
      BY <1>1, <1>2
    <2> QED BY <1>1, <1>4, <1>5, <2>1, <2>2 DEF IInv, TypeOK
  <1>7. StageOf'
    BY <1>1 DEF IInv, StageOf
  <1>8. ASSUME calm' PROVE Undisturbed'
    <2>1. calm /\ ~Edited(c) /\ ~Busy(c) /\ Undisturbed
      BY <1>1, <1>2, <1>8 DEF IInv
    <2>2. \A d \in Containers : Edited(d)' => Edited(d)
      BY <1>1, <1>3, <1>5 DEF Edited
    <2>3. Alike'
      BY <1>1, <2>1, <2>2 DEF Undisturbed, Alike
    <2>4. AddedIsOurs'
      <3>1. origin[c] = Nil
        BY <2>1 DEF Edited
      <3> QED BY <1>1, <1>5, <2>1, <3>1 DEF Undisturbed, AddedIsOurs
    <2>5. \A d \in Containers : ~Busy(d)' => row'[d] = origin'[d]
      BY <1>1, <2>1 DEF Undisturbed, Busy
    <2>6. ASSUME NEW t \in Tasks, task'[t] # Nil PROVE Underway(t)'
      <3>1. Underway(t) /\ task[t] # Nil
        BY <1>1, <2>1, <2>6 DEF Undisturbed
      <3>2. task[t].container \in Containers /\ task[t].container # c
        BY <2>1, <3>1, TaskFields DEF Busy, IInv, TypeOK
      <3>3. live'[task[t].container] = live[task[t].container]
        BY <1>1, <1>2, <3>2
      <3> QED BY <1>1, <3>1, <3>3 DEF Underway
    <2> QED BY <2>3, <2>4, <2>5, <2>6 DEF Undisturbed
  <1> QED BY <1>6, <1>7, <1>8 DEF IInv

---------------------------------------------------------------------------
\* The invariant.

LEMMA InitIInv == Init => IInv
  <1> SUFFICES ASSUME Init PROVE IInv
    OBVIOUS
  <1>1. \A q \in Quantity : q \in Nat \cup {Nil}
    BY DEF Quantity
  <1>2. live \in [Containers -> Held]
    BY <1>1 DEF Init, ResourceSet, Held
  <1>3. /\ owners \in [Containers -> [Fields -> SUBSET Managers]]
        /\ \A c \in Containers, f \in Fields :
              owners[c][f] = IF live[c][f] = Nil THEN {} ELSE {"other"}
    BY DEF Init, Managers
  <1>4. TypeOK
    <2>1. ops \in 0 .. MaxOps /\ writes \in 0 .. MaxWrites /\ faults \in 0 .. MaxFaults
      BY DEF Init
    <2> QED BY <1>2, <1>3, <2>1 DEF Init, TypeOK
  <1>5. /\ \A t \in Tasks : task[t] = Nil
        /\ \A c \in Containers : ~Edited(c) /\ row[c] = Nil /\ origin[c] = Nil
    BY <1>3 DEF Init, Edited
  <1> QED BY <1>4, <1>5 DEF IInv, StageOf, Undisturbed, Alike, AddedIsOurs

LEMMA Inductive == IInv /\ [Next]_vars => IInv'
  <1> SUFFICES ASSUME IInv, [Next]_vars PROVE IInv'
    OBVIOUS
  <1>1. ASSUME NEW t \in Tasks, TaskStep(t) PROVE IInv'
    <2>1. Blank \in Held /\ ResourceSet \subseteq Held
      BY DEF Blank, ResourceSet, Quantity, Held
    <2>2. ASSUME NEW c \in Containers, NEW form \in ResourceSet, StartApply(t, c, form)
          PROVE  IInv'
      BY <2>1, <2>2, Started DEF StartApply
    <2>3. ASSUME NEW c \in Containers, StartRecommended(t, c) PROVE IInv'
      BY <2>1, <2>3, Started DEF StartRecommended
    <2>4. ASSUME NEW c \in Containers, StartUndo(t, c) PROVE IInv'
      BY <2>1, <2>4, Started DEF StartUndo
    <2>5. CASE (\E v \in Quantity : ReadStatus(t, v)) \/ ReadTarget(t) \/ ReadRow(t)
               \/ FindRow(t)
      BY <2>5, Reads
    <2>6. CASE Blocked(t) \/ PatchRefused(t) \/ UpdateRow(t) \/ BreakOff(t)
      BY <2>6, Ended
    <2>7. CASE Patch(t)
      BY <2>7, Patched
    <2>8. CASE InsertRow(t) \/ DeleteRow(t)
      BY <2>8, Concluded
    <2> QED BY <1>1, <2>2, <2>3, <2>4, <2>5, <2>6, <2>7, <2>8 DEF TaskStep
  <1>2. ASSUME NEW c \in Containers, NEW f \in Fields, NEW v \in Quantity,
               OtherWrites(c, f, v)
        PROVE  IInv'
    BY <1>2, Others
  <1>3. CASE UNCHANGED vars
    BY <1>3 DEF vars, IInv, TypeOK, StageOf, Undisturbed, Alike, AddedIsOurs, Underway,
                Edited, Busy
  <1> QED BY <1>1, <1>2, <1>3 DEF Next

\* The inductive invariant holds throughout.
THEOREM Safety == Spec => []IInv
  BY InitIInv, Inductive, PTL DEF Spec

\* Values, owners, rows and tasks keep their shape, and a field is there
\* exactly while somebody owns it (resources.rs: apply_config, remember).
THEOREM TypeCorrect == Spec => []TypeOK
  <1>1. IInv => TypeOK
    BY DEF IInv
  <1> QED BY <1>1, Safety, PTL

\* resources.rs: remember keeps the original previous across edits.
THEOREM RemembersOriginal == Spec => []OriginalRemembered
  <1>1. IInv => OriginalRemembered
    BY DEF IInv, Undisturbed, OriginalRemembered
  <1> QED BY <1>1, Safety, PTL

\* resources.rs: undo puts the container back the way it was.
THEOREM UndoPutsBack == Spec => UndoRestores
  <1>1. IInv /\ [Next]_vars =>
           [\A t \in Tasks : (calm /\ DeleteRow(t)) =>
              LET c == task[t].container
              IN live[c] = RoundedSet(origin[c])]_vars
    <2> SUFFICES ASSUME IInv, NEW t \in Tasks, calm, DeleteRow(t)
                 PROVE  live[task[t].container] = RoundedSet(origin[task[t].container])
      OBVIOUS
    <2>1. task[t] # Nil /\ task[t].stage = "delete"
      BY DEF DeleteRow, At
    <2>2. Underway(t)
      BY <2>1 DEF IInv, Undisturbed
    <2> QED BY <2>1, <2>2 DEF Underway
  <1> QED BY <1>1, Safety, PTL DEF Spec, UndoRestores
=============================================================================
