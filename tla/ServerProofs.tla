---------------------------- MODULE ServerProofs ----------------------------
(***************************************************************************)
(* The parts of the server that share no state, each for every value of    *)
(* its constants: edits of an object, the HPA manager, the removal of a    *)
(* namespace, drains and deletions of storage, and the opening of the      *)
(* database.  Each has its inductive invariant, and the properties follow  *)
(* from it.                                                                *)
(***************************************************************************)
EXTENDS Server, WellFoundedInduction, TLAPS

(***************************************************************************)
(* Edits: what one may do to the work of others, for any number of         *)
(* editors, values and writes.  The resourceVersion a document carries     *)
(* vouches for the fields its author was shown.                            *)
(***************************************************************************)
ObjectStates == [version : 1 .. MaxVersion, alive : BOOLEAN, fields : Contents(kind)]
Screens == [stage : {"open"}, seen : Contents(kind), version : 1 .. MaxVersion]
Reads == [stage : {"read"}, seen : Contents(kind), slot : Slots,
          version : 1 .. MaxVersion, body : Contents(kind)]
Compared == [stage : {"compared"}, seen : Contents(kind), action : Values]

\* While its version is the current one, a screen shows the object as it is.
ScreenCurrent(e) ==
    edit[e].stage = "open" =>
        /\ edit[e].version <= object.version
        /\ object.alive /\ edit[e].version = object.version =>
              edit[e].seen = object.fields

\* ... and a body about to replace the object differs in its slot only,
\* where the object still holds what the author was shown.
BodyCurrent(e) ==
    edit[e].stage = "read" =>
        /\ edit[e].version <= object.version
        /\ object.alive /\ edit[e].version = object.version =>
              /\ \A f \in edit[e].slot : object.fields[f] = edit[e].seen[f]
              /\ \A f \in Fields[kind] \ edit[e].slot : edit[e].body[f] = object.fields[f]

\* Only the mode of a policy is compared and then patched.
PolicyOnly(e) == edit[e].stage = "compared" => kind = "Policy"

EntryGood(e) == ScreenCurrent(e) /\ BodyCurrent(e) /\ PolicyOnly(e)

Vouched == \A e \in Editors : EntryGood(e)

EditInv == EditTypeOK /\ Vouched /\ OthersKept /\ SeenReplaced

USE EditsAssumption

---------------------------------------------------------------------------
LEMMA EditTypes ==
    ASSUME EditTypeOK, NEW e \in Editors
    PROVE  /\ edit[e] \in {Closed} \cup Screens \cup Reads \cup Compared
           /\ edit[e].stage = "open" => edit[e] \in Screens
           /\ edit[e].stage = "read" => edit[e] \in Reads
           /\ edit[e].stage = "compared" => edit[e] \in Compared
  BY DEF EditTypeOK, Closed, Screens, Reads, Compared

\* A step that leaves the object and its history alone, and replaces at most
\* one editor's entry by a good one, keeps the invariant.
LEMMA EntryKeeps ==
    ASSUME EditInv, NEW e \in Editors, NEW new,
           edit' = [edit EXCEPT ![e] = new],
           UNCHANGED <<kind, object, last>>,
           new \in {Closed} \cup Screens \cup Reads \cup Compared,
           EntryGood(e)'
    PROVE  EditInv'
  <1>1. EditTypeOK'
    BY DEF EditInv, EditTypeOK, Screens, Reads, Compared
  <1>2. Vouched'
    BY DEF EditInv, EditTypeOK, Vouched, EntryGood, ScreenCurrent, BodyCurrent, PolicyOnly
  <1>3. OthersKept' /\ SeenReplaced'
    BY DEF EditInv, OthersKept, SeenReplaced, Edited
  <1> QED BY <1>1, <1>2, <1>3 DEF EditInv

LEMMA Rewritten ==
    ASSUME EditTypeOK, NEW fields \in Contents(kind), Write(fields)
    PROVE  /\ object' \in ObjectStates
           /\ object'.version = object.version + 1 /\ object'.fields = fields
  <1>1. object \in ObjectStates
    BY DEF EditTypeOK, ObjectStates
  <1>2. object.version < MaxVersion /\ object.version \in 1 .. MaxVersion
        /\ object.alive \in BOOLEAN
    BY <1>1 DEF Write, ObjectStates
  <1>3. object' = [object EXCEPT !.version = object.version + 1, !.fields = fields]
    BY DEF Write
  <1>4. object' = [version |-> object.version + 1, alive |-> object.alive, fields |-> fields]
    BY <1>1, <1>3 DEF ObjectStates
  <1>5. object.version + 1 \in 1 .. MaxVersion
    BY <1>2
  <1> QED BY <1>2, <1>4, <1>5 DEF ObjectStates

\* Once the server has taken a write, no screen and no body is current.
LEMMA ObjectWriteKeeps ==
    ASSUME EditInv, NEW e \in Editors, NEW fields \in Contents(kind),
           Write(fields), Close(e), UNCHANGED kind
    PROVE  EditTypeOK' /\ Vouched' /\ object'.fields = fields
  <1> USE DEF EditInv
  <1>1. object \in ObjectStates /\ edit' = [edit EXCEPT ![e] = Closed]
    BY DEF EditTypeOK, ObjectStates, Close
  <1>2. /\ object' \in ObjectStates
        /\ object'.version = object.version + 1
        /\ object'.fields = fields
    BY Rewritten
  <1>3. EditTypeOK'
    BY <1>1, <1>2 DEF EditTypeOK, ObjectStates
  <1>4. ASSUME NEW d \in Editors PROVE EntryGood(d)'
    <2>1. edit'[d] = Closed \/ edit'[d] = edit[d]
      BY <1>1 DEF EditTypeOK
    <2>2. CASE edit'[d] = Closed
      BY <2>2 DEF EntryGood, ScreenCurrent, BodyCurrent, PolicyOnly, Closed
    <2>3. CASE edit'[d] = edit[d]
      <3>1. edit[d].stage \in {"open", "read"} => edit[d].version <= object.version
        BY DEF Vouched, EntryGood, ScreenCurrent, BodyCurrent, PolicyOnly
      <3>2. edit[d].stage \in {"open", "read"} => edit[d].version \in Nat
        BY EditTypes DEF Screens, Reads
      <3>3. object.version \in Nat
        BY <1>1 DEF ObjectStates
      <3>4. edit[d].stage \in {"open", "read"} =>
               edit[d].version <= object'.version /\ edit[d].version # object'.version
        BY <3>1, <3>2, <3>3, <1>2
      <3> QED BY <2>3, <3>4 DEF Vouched, EntryGood, ScreenCurrent, BodyCurrent, PolicyOnly
    <2> QED BY <2>1, <2>2, <2>3
  <1> QED BY <1>2, <1>3, <1>4 DEF Vouched

\* A request that ends without a write.
LEMMA CloseKeeps ==
    ASSUME EditInv, NEW e \in Editors, Close(e), UNCHANGED <<kind, object, last>>
    PROVE  EditInv'
  <1>1. edit' = [edit EXCEPT ![e] = Closed] /\ edit'[e] = Closed
    BY DEF Close, EditInv, EditTypeOK
  <1>2. EntryGood(e)'
    BY <1>1 DEF EntryGood, ScreenCurrent, BodyCurrent, PolicyOnly, Closed
  <1> QED BY <1>1, <1>2, EntryKeeps

\* A write and its note: what the fields must be to keep the invariant.
LEMMA NotedKeeps ==
    ASSUME EditInv, NEW e \in Editors, NEW fields \in Contents(kind),
           NEW op \in {"yaml", "unversioned", "argo", "policy", "patch"},
           NEW asked, NEW seen,
           Write(fields), Note(op, asked, seen), Close(e), UNCHANGED kind,
           op # "unversioned" =>
               \A f \in Fields[kind] \ asked : fields[f] = object.fields[f],
           op \in {"yaml", "argo"} => \A f \in asked : object.fields[f] = seen[f]
    PROVE  EditInv'
  <1>1. EditTypeOK' /\ Vouched' /\ object'.fields = fields
    BY ObjectWriteKeeps
  <1>2. last'.by = op /\ last'.asked = asked /\ last'.seen = seen
        /\ last'.before = object.fields
    BY DEF Note
  <1>3. OthersKept'
    BY <1>1, <1>2 DEF OthersKept
  <1>4. SeenReplaced'
    BY <1>2 DEF SeenReplaced
  <1> QED BY <1>1, <1>3, <1>4 DEF EditInv

---------------------------------------------------------------------------
LEMMA EditStarts == EditInit => EditInv
  <1> SUFFICES ASSUME EditInit PROVE EditInv
    OBVIOUS
  <1>1. PICK v \in Values : object = [version |-> 1, alive |-> TRUE,
                                     fields |-> [f \in Fields[kind] |-> v]]
    BY DEF EditInit
  <1>2. object \in ObjectStates
    BY <1>1 DEF ObjectStates, Contents
  <1>3. EditTypeOK
    BY <1>2 DEF EditInit, EditTypeOK, ObjectStates
  <1>4. Vouched
    BY DEF EditInit, Vouched, EntryGood, ScreenCurrent, BodyCurrent, PolicyOnly, Closed
  <1>5. OthersKept /\ SeenReplaced
    BY DEF EditInit, OthersKept, SeenReplaced, Edited
  <1> QED BY <1>3, <1>4, <1>5 DEF EditInv

LEMMA OpenKeeps ==
    ASSUME EditInv, NEW e \in Editors, Open(e)
    PROVE  EditInv'
  <1>1. object \in ObjectStates
    BY DEF EditInv, EditTypeOK, ObjectStates
  <1>2. Screen(object) \in Screens
    BY <1>1 DEF Screen, Screens, ObjectStates
  <1>3. /\ edit' = [edit EXCEPT ![e] = Screen(object)]
        /\ UNCHANGED <<kind, object, last>>
    BY DEF Open
  <1>4. edit'[e] = Screen(object)
    BY <1>3 DEF EditInv, EditTypeOK
  <1>5. EntryGood(e)'
    BY <1>1, <1>3, <1>4 DEF EntryGood, ScreenCurrent, BodyCurrent, PolicyOnly, Screen, ObjectStates
  <1> QED BY <1>2, <1>3, <1>5, EntryKeeps

LEMMA SaveYamlKeeps ==
    ASSUME EditInv, NEW e \in Editors, SaveYaml(e)
    PROVE  EditInv'
  <1>1. /\ edit[e].stage = "open" /\ Close(e) /\ UNCHANGED kind
        /\ edit[e] \in Screens
    BY EditTypes DEF SaveYaml, EditInv
  <1>2. PICK f \in Fields[kind], versioned \in BOOLEAN : \E v \in Legal(f) :
          IF object.alive /\ (versioned => edit[e].version = object.version)
            THEN /\ Write([edit[e].seen EXCEPT ![f] = v])
                 /\ Note(IF versioned THEN "yaml" ELSE "unversioned", {f}, edit[e].seen)
            ELSE UNCHANGED <<object, last>>
    BY DEF SaveYaml
  <1>3. PICK v \in Legal(f) :
          IF object.alive /\ (versioned => edit[e].version = object.version)
            THEN /\ Write([edit[e].seen EXCEPT ![f] = v])
                 /\ Note(IF versioned THEN "yaml" ELSE "unversioned", {f}, edit[e].seen)
            ELSE UNCHANGED <<object, last>>
    BY <1>2
  <1> DEFINE fields == [edit[e].seen EXCEPT ![f] = v]
  <1>4. edit[e].seen \in Contents(kind)
    BY <1>1 DEF Screens
  <1>5. /\ fields \in Contents(kind)
        /\ \A g \in Fields[kind] \ {f} : fields[g] = edit[e].seen[g]
    BY <1>4 DEF Contents, Legal
  <1>6. CASE object.alive /\ (versioned => edit[e].version = object.version)
    <2>1. versioned => edit[e].seen = object.fields
      BY <1>1, <1>6 DEF EditInv, Vouched, EntryGood, ScreenCurrent
    <2>2. CASE versioned
      <3>1. Write(fields) /\ Note("yaml", {f}, edit[e].seen)
        BY <1>3, <1>6, <2>2
      <3> QED BY <1>1, <1>5, <2>1, <2>2, <3>1, NotedKeeps
    <2>3. CASE ~versioned
      <3>1. Write(fields) /\ Note("unversioned", {f}, edit[e].seen)
        BY <1>3, <1>6, <2>3
      <3> QED BY <1>1, <1>5, <3>1, NotedKeeps
    <2> QED BY <2>2, <2>3
  <1>7. CASE ~(object.alive /\ (versioned => edit[e].version = object.version))
    BY <1>1, <1>3, <1>7, CloseKeeps
  <1> QED BY <1>6, <1>7

LEMMA ReadFreshKeeps ==
    ASSUME EditInv, NEW e \in Editors, ReadFresh(e)
    PROVE  EditInv'
  <1>1. /\ kind = "CronWorkflow" /\ edit[e] \in Screens /\ object \in ObjectStates
        /\ UNCHANGED <<kind, object, last>>
    BY EditTypes DEF ReadFresh, EditInv, EditTypeOK, ObjectStates
  <1>2a. PICK slot \in Slots : \E new \in [slot -> Values \cup {Absent}] :
          edit' = [edit EXCEPT ![e] =
                IF object.alive /\ AsExpected(slot, edit[e].seen, object.fields)
                  THEN [stage |-> "read", seen |-> edit[e].seen, slot |-> slot,
                        version |-> object.version,
                        body |-> [f \in Fields.CronWorkflow |->
                                     IF f \in slot THEN new[f] ELSE object.fields[f]]]
                  ELSE Closed]
    BY Zenon DEF ReadFresh
  <1>2. PICK new \in [slot -> Values \cup {Absent}] :
          edit' = [edit EXCEPT ![e] =
                IF object.alive /\ AsExpected(slot, edit[e].seen, object.fields)
                  THEN [stage |-> "read", seen |-> edit[e].seen, slot |-> slot,
                        version |-> object.version,
                        body |-> [f \in Fields.CronWorkflow |->
                                     IF f \in slot THEN new[f] ELSE object.fields[f]]]
                  ELSE Closed]
    BY <1>2a
  <1> DEFINE body == [f \in Fields.CronWorkflow |->
                         IF f \in slot THEN new[f] ELSE object.fields[f]]
             read == [stage |-> "read", seen |-> edit[e].seen, slot |-> slot,
                      version |-> object.version, body |-> body]
  <1>3. CASE object.alive /\ AsExpected(slot, edit[e].seen, object.fields)
    <2>1. edit' = [edit EXCEPT ![e] = read]
      BY <1>2, <1>3
    <2>2. Fields[kind] = Fields.CronWorkflow
      BY <1>1 DEF Fields
    <2>3. object.fields \in [Fields.CronWorkflow -> Values \cup {Absent, Listed}]
      BY <1>1, <2>2 DEF ObjectStates, Contents
    <2>4. body \in [Fields.CronWorkflow -> Values \cup {Absent, Listed}]
      BY <2>3
    <2>5. body \in Contents(kind)
      BY <2>2, <2>4 DEF Contents
    <2>6. read \in Reads
      BY <1>1, <2>5 DEF Reads, Screens, ObjectStates
    <2>7. /\ \A f \in slot : object.fields[f] = edit[e].seen[f]
          /\ \A f \in Fields[kind] \ slot : body[f] = object.fields[f]
      BY <1>3, <2>2 DEF AsExpected
    <2>8. edit'[e] = read
      BY <2>1 DEF EditInv, EditTypeOK
    <2>9. /\ read.stage = "read" /\ read.seen = edit[e].seen /\ read.slot = slot
          /\ read.version = object.version /\ read.body = body
      OBVIOUS
    <2>10. object.version \in Nat
      BY <1>1 DEF ObjectStates
    <2> HIDE DEF read, body
    <2>11. EntryGood(e)'
      BY <1>1, <2>7, <2>8, <2>9, <2>10 DEF EntryGood, ScreenCurrent, BodyCurrent, PolicyOnly
    <2> QED BY <1>1, <2>1, <2>6, <2>11, EntryKeeps
  <1>4. CASE ~(object.alive /\ AsExpected(slot, edit[e].seen, object.fields))
    BY <1>1, <1>2, <1>4, CloseKeeps DEF Close
  <1> QED BY <1>3, <1>4

LEMMA ReplaceKeeps ==
    ASSUME EditInv, NEW e \in Editors, Replace(e)
    PROVE  EditInv'
  <1>1. edit[e].stage = "read" /\ edit[e] \in Reads /\ Close(e) /\ UNCHANGED kind
    BY EditTypes DEF Replace, EditInv
  <1>2. CASE Unchanged(e)
    <2>1. Write(edit[e].body) /\ Note("argo", edit[e].slot, edit[e].seen)
      BY <1>2 DEF Replace
    <2>2. /\ edit[e].body \in Contents(kind)
          /\ \A f \in edit[e].slot : object.fields[f] = edit[e].seen[f]
          /\ \A f \in Fields[kind] \ edit[e].slot : edit[e].body[f] = object.fields[f]
      BY <1>1, <1>2 DEF EditInv, Vouched, EntryGood, BodyCurrent, Unchanged, Reads
    <2> QED BY <1>1, <2>1, <2>2, NotedKeeps
  <1>3. CASE ~Unchanged(e)
    BY <1>1, <1>3, CloseKeeps DEF Replace
  <1> QED BY <1>2, <1>3

LEMMA ReadPolicyKeeps ==
    ASSUME EditInv, NEW e \in Editors, ReadPolicy(e)
    PROVE  EditInv'
  <1>1. edit[e] \in Screens /\ UNCHANGED <<kind, object, last>>
    BY EditTypes DEF ReadPolicy, EditInv
  <1>2. PICK v \in Values : edit' = [edit EXCEPT ![e] =
            IF object.alive /\ object.fields["action"] = edit[e].seen["action"]
              THEN [stage |-> "compared", seen |-> edit[e].seen, action |-> v]
              ELSE Closed]
    BY Zenon DEF ReadPolicy
  <1> DEFINE compared == [stage |-> "compared", seen |-> edit[e].seen, action |-> v]
  <1>3. CASE edit' = [edit EXCEPT ![e] = compared]
    <2>1. compared \in Compared
      BY <1>1 DEF Compared, Screens
    <2>2. edit'[e] = compared
      BY <1>3 DEF EditInv, EditTypeOK
    <2>3. EntryGood(e)'
      BY <1>1, <2>2 DEF ReadPolicy, EntryGood, ScreenCurrent, BodyCurrent, PolicyOnly
    <2> QED BY <1>1, <1>3, <2>1, <2>3, EntryKeeps
  <1>4. CASE edit' = [edit EXCEPT ![e] = Closed]
    BY <1>1, <1>4, CloseKeeps DEF Close
  <1> QED BY <1>2, <1>3, <1>4

\* A merge patch writes its field and no other.
LEMMA MergedFields ==
    ASSUME EditInv, NEW f \in Fields[kind], NEW v \in Values \cup {Absent}
    PROVE  /\ [object.fields EXCEPT ![f] = v] \in Contents(kind)
           /\ \A g \in Fields[kind] \ {f} :
                 [object.fields EXCEPT ![f] = v][g] = object.fields[g]
  <1>1. object.fields \in Contents(kind)
    BY DEF EditInv, EditTypeOK
  <1> QED BY <1>1 DEF Contents

LEMMA PatchPolicyKeeps ==
    ASSUME EditInv, NEW e \in Editors, PatchPolicy(e)
    PROVE  EditInv'
  <1>1. edit[e] \in Compared /\ Close(e) /\ UNCHANGED kind /\ kind = "Policy"
    BY EditTypes DEF PatchPolicy, EditInv, Vouched, EntryGood, PolicyOnly
  <1>2. CASE object.alive
    <2>1. /\ Write(Merged(e, "action", edit[e].action))
          /\ Note("policy", {"action"}, edit[e].seen)
      BY <1>2 DEF PatchPolicy, Merged
    <2>2. "action" \in Fields[kind] /\ edit[e].action \in Values
      BY <1>1 DEF Fields, Compared
    <2> QED BY <1>1, <2>1, <2>2, MergedFields, NotedKeeps DEF Merged
  <1>3. CASE ~object.alive
    BY <1>1, <1>3, CloseKeeps DEF PatchPolicy
  <1> QED BY <1>2, <1>3

LEMMA PatchFieldKeeps ==
    ASSUME EditInv, NEW e \in Editors, PatchField(e)
    PROVE  EditInv'
  <1>1. Close(e) /\ UNCHANGED kind /\ kind \in Kinds
    BY DEF PatchField, EditInv, EditTypeOK
  <1>2. PICK f \in Patched[kind] : \E v \in Legal(f) :
          IF object.alive
            THEN Write(Merged(e, f, v)) /\ Note("patch", {f}, edit[e].seen)
            ELSE UNCHANGED <<object, last>>
    BY DEF PatchField
  <1>3. PICK v \in Legal(f) :
          IF object.alive
            THEN Write(Merged(e, f, v)) /\ Note("patch", {f}, edit[e].seen)
            ELSE UNCHANGED <<object, last>>
    BY <1>2
  <1>4. f \in Fields[kind] /\ v \in Values \cup {Absent}
    BY <1>1, <1>2, <1>3 DEF Patched, Fields, Kinds, Legal
  <1>5. CASE object.alive
    <2>1. Write(Merged(e, f, v)) /\ Note("patch", {f}, edit[e].seen)
      BY <1>3, <1>5
    <2> QED BY <1>1, <1>4, <2>1, MergedFields, NotedKeeps DEF Merged
  <1>6. CASE ~object.alive
    BY <1>1, <1>3, <1>6, CloseKeeps
  <1> QED BY <1>5, <1>6

LEMMA DeleteObjectKeeps ==
    ASSUME EditInv, NEW e \in Editors, DeleteObject(e)
    PROVE  EditInv'
  <1>1. /\ object' = [object EXCEPT !.alive = FALSE] /\ last' = Others
        /\ edit' = [edit EXCEPT ![e] = Closed] /\ UNCHANGED kind
        /\ object \in ObjectStates
    BY DEF DeleteObject, Close, EditInv, EditTypeOK, ObjectStates
  <1>2. object' \in ObjectStates /\ ~object'.alive /\ object'.version = object.version
    BY <1>1 DEF ObjectStates
  <1>3. EditTypeOK'
    BY <1>1, <1>2 DEF EditInv, EditTypeOK, ObjectStates
  <1>4. Vouched'
    BY <1>1, <1>2 DEF EditInv, EditTypeOK, Vouched, EntryGood, ScreenCurrent, BodyCurrent,
                      PolicyOnly, Closed
  <1>5. OthersKept' /\ SeenReplaced'
    BY <1>1 DEF OthersKept, SeenReplaced, Edited
  <1> QED BY <1>3, <1>4, <1>5 DEF EditInv

\* Somebody else's write makes every screen and every body outdated.
LEMMA ForeignKeeps == EditInv /\ Foreign => EditInv'
  <1> SUFFICES ASSUME EditInv, Foreign PROVE EditInv'
    OBVIOUS
  <1>1. last' = Others /\ UNCHANGED <<kind, edit>> /\ object \in ObjectStates
    BY DEF Foreign, EditInv, EditTypeOK, ObjectStates
  <1>2. object' \in ObjectStates /\ object'.version = object.version + 1
    <2>1. CASE object.alive
      <3>1. PICK f \in Fields[kind] : \E v \in Foreigns(f) :
                Write([object.fields EXCEPT ![f] = v])
        BY <2>1 DEF Foreign
      <3>2. PICK v \in Foreigns(f) : Write([object.fields EXCEPT ![f] = v])
        BY <3>1
      <3>3. [object.fields EXCEPT ![f] = v] \in Contents(kind)
        BY <1>1, <3>2 DEF ObjectStates, Contents, Foreigns, Legal
      <3> QED BY <3>2, <3>3, Rewritten DEF EditInv
    <2>2. CASE ~object.alive
      <3>1. PICK v \in Values :
               /\ object.version < MaxVersion
               /\ object' = [version |-> object.version + 1, alive |-> TRUE,
                             fields |-> [f \in Fields[kind] |-> v]]
        BY <2>2 DEF Foreign
      <3>2. [f \in Fields[kind] |-> v] \in Contents(kind)
        BY DEF Contents
      <3> QED BY <1>1, <3>1, <3>2 DEF ObjectStates
    <2> QED BY <2>1, <2>2
  <1>3. EditTypeOK'
    BY <1>1, <1>2 DEF EditInv, EditTypeOK, ObjectStates
  <1>4. ASSUME NEW e \in Editors PROVE EntryGood(e)'
    <2>1. edit[e].stage \in {"open", "read"} =>
             edit[e].version <= object.version /\ edit[e].version \in Nat
      BY EditTypes DEF EditInv, Vouched, EntryGood, ScreenCurrent, BodyCurrent, Screens, Reads
    <2>2. object.version \in Nat
      BY <1>1 DEF ObjectStates
    <2>3. edit[e].stage \in {"open", "read"} =>
             edit[e].version <= object'.version /\ edit[e].version # object'.version
      BY <1>2, <2>1, <2>2
    <2> QED BY <1>1, <2>3 DEF EditInv, Vouched, EntryGood, ScreenCurrent, BodyCurrent, PolicyOnly
  <1>5. OthersKept' /\ SeenReplaced'
    BY <1>1 DEF OthersKept, SeenReplaced, Edited
  <1> QED BY <1>3, <1>4, <1>5 DEF EditInv, Vouched

---------------------------------------------------------------------------
LEMMA EditorKeeps ==
    ASSUME EditInv, NEW e \in Editors, EditorStep(e)
    PROVE  EditInv'
  <1>1. CASE Leave(e)
    BY <1>1, CloseKeeps DEF Leave
  <1> QED BY <1>1, OpenKeeps, SaveYamlKeeps, ReadFreshKeeps, ReplaceKeeps, ReadPolicyKeeps,
             PatchPolicyKeeps, PatchFieldKeeps, DeleteObjectKeeps DEF EditorStep

THEOREM EditInvariant == EditSpec => []EditInv
  <1>1. EditInv /\ UNCHANGED editVars => EditInv'
    BY DEF editVars, EditInv, EditTypeOK, Vouched, EntryGood, ScreenCurrent, BodyCurrent,
           PolicyOnly, OthersKept, SeenReplaced, Edited
  <1>2. EditInv /\ EditNext => EditInv'
    BY EditorKeeps, ForeignKeeps DEF EditNext
  <1> QED BY <1>1, <1>2, EditStarts, PTL DEF EditSpec

\* Every edit of main.rs, argo.rs, configuration.rs and kyverno.rs leaves what
\* it was not asked to change as the last writer left it.
THEOREM WorkOfOthersSurvives == EditSpec => []OthersKept
  <1> QED BY EditInvariant, PTL DEF EditInv

\* A replace that carries what its author was shown replaces just that.
THEOREM OnlyWhatWasSeen == EditSpec => []SeenReplaced
  <1> QED BY EditInvariant, PTL DEF EditInv

(***************************************************************************)
(* The HPA manager: one autoscaler of tmjLens for a workload, and an undo  *)
(* that deletes nobody else's, for any number of administrators, names and *)
(* specifications.                                                         *)
(***************************************************************************)
Built == [stage : {"built"}, name : HpaNames, spec : Specs, import : BOOLEAN]
Read == [stage : {"read"}, name : HpaNames, spec : Specs, before : Rows]
Applied == [stage : {"applied"}, name : HpaNames, before : Rows]
Undo == [stage : {"undoing", "refused", "removed"}, name : HpaNames]
Requests == {HpaIdle} \cup Built \cup Read \cup Applied \cup Undo

\* A request past its list, not yet past its apply.
Creating(a) == admin[a].stage \in {"built", "read"}

\* As long as every list was heeded: one autoscaler of tmjLens at most, those
\* about to be created all have one name, and it is that of the one there is.
Alone ==
    "beside" \notin blur =>
        /\ \A m, n \in HpaNames : Ours(m) /\ Ours(n) => m = n
        /\ \A a \in Admins, m \in HpaNames : Creating(a) /\ Ours(m) => m = admin[a].name
        /\ \A a, b \in Admins : Creating(a) /\ Creating(b) => admin[a].name = admin[b].name

\* Holds nothing that somebody else set.
Pure(n) == hpa[n] # None => ~hpa[n].foreign

\* A request that goes by there having been no autoscaler.
Believes(a) ==
    \/ admin[a].stage \in {"read", "applied"} /\ admin[a].before = "absent"
    \/ Stage(a, "undoing")

\* As long as nobody wrote what had been read, what there was none of before
\* is tmjLens' alone.
OwnOnly ==
    "before" \notin blur =>
        /\ \A n \in HpaNames : row[n] = "absent" => Pure(n)
        /\ \A a \in Admins : Believes(a) => Pure(admin[a].name)

HpaInv == HpaTypeOK /\ Alone /\ OwnOnly

USE HpaAssumption

---------------------------------------------------------------------------
LEMMA RequestTypes ==
    ASSUME HpaTypeOK, NEW a \in Admins
    PROVE  /\ admin \in [Admins -> Requests] /\ admin[a] \in Requests
           /\ Stage(a, "built") => admin[a] \in Built
           /\ Stage(a, "read") => admin[a] \in Read
           /\ Stage(a, "applied") => admin[a] \in Applied
           /\ admin[a].stage \in {"undoing", "refused", "removed"} => admin[a] \in Undo
  BY DEF HpaTypeOK, Stage, Requests, HpaIdle, Built, Read, Applied, Undo

LEMMA StoredTypes ==
    HpaTypeOK => /\ hpa \in [HpaNames -> {None} \cup Hpas]
                 /\ row \in [HpaNames -> Rows]
                 /\ blur \subseteq {"beside", "before"}
  BY DEF HpaTypeOK

\* A step that changes one request, and the rest within its types.
LEMMA RequestTyped ==
    ASSUME HpaTypeOK, NEW a \in Admins, NEW r \in Requests,
           admin' = [admin EXCEPT ![a] = r],
           hpa' \in [HpaNames -> {None} \cup Hpas], row' \in [HpaNames -> Rows],
           blur' \subseteq {"beside", "before"}
    PROVE  HpaTypeOK' /\ admin'[a] = r /\ \A b \in Admins : b # a => admin'[b] = admin[b]
  <1>1. admin \in [Admins -> Requests]
    BY RequestTypes
  <1>2. admin' \in [Admins -> Requests]
    BY <1>1
  <1>3. HpaTypeOK'
    BY <1>2 DEF HpaTypeOK, Requests, Built, Read, Applied, Undo
  <1> QED BY <1>1, <1>3

LEMMA BelieversNamed ==
    ASSUME HpaTypeOK, NEW a \in Admins, Believes(a) PROVE admin[a].name \in HpaNames
  BY RequestTypes DEF Believes, Stage, Read, Applied, Undo

LEMMA IdleGood == HpaIdle \in Requests /\ HpaIdle.stage = "idle"
  BY DEF Requests, HpaIdle

\* A step after which fewer requests create and fewer autoscalers are ours.
LEMMA AloneKept ==
    ASSUME HpaInv, "beside" \notin blur' => "beside" \notin blur,
           \A b \in Admins : Creating(b)' => Creating(b) /\ admin'[b].name = admin[b].name,
           \A m \in HpaNames : Ours(m)' => Ours(m)
    PROVE  Alone'
  BY DEF HpaInv, Alone

\* A step that leaves pure what is pure, and makes no request or row go by the
\* absence of what is not.
LEMMA OwnKept ==
    ASSUME HpaInv, "before" \notin blur' => "before" \notin blur,
           \A n \in HpaNames : Pure(n) => Pure(n)',
           "before" \notin blur' =>
              /\ \A n \in HpaNames : row'[n] = "absent" => row[n] = "absent" \/ Pure(n)
              /\ \A b \in Admins : Believes(b)' =>
                    /\ admin'[b].name \in HpaNames
                    /\ \/ Believes(b) /\ admin'[b].name = admin[b].name
                       \/ Pure(admin'[b].name)
    PROVE  OwnOnly'
  <1> SUFFICES ASSUME "before" \notin blur'
               PROVE  /\ \A n \in HpaNames : row'[n] = "absent" => Pure(n)'
                      /\ \A b \in Admins : Believes(b)' => Pure(admin[b].name)'
    BY DEF OwnOnly
  <1>1. \A n \in HpaNames : row'[n] = "absent" => Pure(n)'
    BY DEF HpaInv, OwnOnly
  <1>2. ASSUME NEW b \in Admins, Believes(b)' PROVE Pure(admin[b].name)'
    <2>1. PICK n \in HpaNames : n = admin'[b].name
      BY <1>2
    <2>2. Pure(n)
      <3>1. Believes(b) /\ admin[b].name = n => Pure(n)
        BY DEF HpaInv, OwnOnly
      <3> QED BY <1>2, <2>1, <3>1
    <2>3. Pure(n)'
      BY <2>2
    <2> QED BY <2>1, <2>3 DEF Pure
  <1> QED BY <1>1, <1>2

\* A step of one request that leaves the autoscalers and rows alone.
LEMMA RequestKeeps ==
    ASSUME HpaInv, NEW a \in Admins, NEW r \in Requests,
           admin' = [admin EXCEPT ![a] = r],
           r.stage \in {"built", "read"} => Creating(a) /\ r.name = admin[a].name,
           "before" \notin blur' /\
              (\/ r.stage \in {"read", "applied"} /\ r.before = "absent"
               \/ r.stage = "undoing") => r.name \in HpaNames /\ Pure(r.name),
           hpa' = hpa, row' = row, blur \subseteq blur',
           blur' \subseteq {"beside", "before"}
    PROVE  HpaInv'
  <1>1. HpaTypeOK' /\ admin'[a] = r /\ \A b \in Admins : b # a => admin'[b] = admin[b]
    BY RequestTyped, StoredTypes DEF HpaInv
  <1>2. Alone'
    <2>1. \A b \in Admins : Creating(b)' => Creating(b) /\ admin'[b].name = admin[b].name
      BY <1>1 DEF Creating
    <2> QED BY <2>1, AloneKept DEF Ours
  <1>3. OwnOnly'
    <2>1. ASSUME "before" \notin blur', NEW b \in Admins, Believes(b)'
          PROVE  /\ admin'[b].name \in HpaNames
                 /\ \/ Believes(b) /\ admin'[b].name = admin[b].name
                    \/ Pure(admin'[b].name)
      <3>1. CASE b = a
        BY <1>1, <2>1, <3>1 DEF Believes, Stage
      <3>2. CASE b # a
        <4>1. Believes(b) /\ admin'[b] = admin[b]
          BY <1>1, <2>1, <3>2 DEF Believes, Stage
        <4> QED BY <4>1, BelieversNamed DEF HpaInv
      <3> QED BY <3>1, <3>2
    <2> QED BY <2>1, OwnKept DEF Pure
  <1> QED BY <1>1, <1>2, <1>3 DEF HpaInv

\* A request that ends.
LEMMA FinishKeeps ==
    ASSUME HpaInv, NEW a \in Admins, Finish(a), UNCHANGED <<hpa, row, blur>>
    PROVE  HpaInv'
  BY IdleGood, StoredTypes, RequestKeeps DEF Finish, HpaInv

---------------------------------------------------------------------------
LEMMA HpaStarts == HpaInit => HpaInv
  <1> SUFFICES ASSUME HpaInit PROVE HpaInv
    OBVIOUS
  <1>1. hpa \in [HpaNames -> {None} \cup Hpas] /\ \A n \in HpaNames : ~Ours(n)
    BY DEF HpaInit, Hpas, Ours
  <1>2. HpaTypeOK
    BY <1>1 DEF HpaInit, HpaTypeOK, Rows
  <1>3. \A a \in Admins : ~Creating(a) /\ ~Believes(a)
    BY DEF HpaInit, HpaIdle, Creating, Believes, Stage
  <1>4. Alone /\ OwnOnly
    BY <1>1, <1>3 DEF HpaInit, Alone, OwnOnly
  <1> QED BY <1>2, <1>4 DEF HpaInv

\* The list it heeded shows no other of ours, and no other request creates one
\* under another name.
LEMMA BeginApplyKeeps ==
    ASSUME HpaInv, NEW a \in Admins, BeginApply(a)
    PROVE  HpaInv'
  <1>1. PICK n \in HpaNames, s \in Specs, import \in BOOLEAN :
          /\ admin' = [admin EXCEPT ![a] =
                [stage |-> "built", name |-> n, spec |-> s, import |-> import]]
          /\ blur' = IF Blocked(n, import) \/ Rival(n) THEN blur \cup {"beside"} ELSE blur
    BY DEF BeginApply
  <1> DEFINE r == [stage |-> "built", name |-> n, spec |-> s, import |-> import]
  <1>2. r \in Requests /\ r.stage = "built" /\ r.name = n
    BY DEF Requests, Built
  <1>3. admin' = [admin EXCEPT ![a] = r]
    BY <1>1
  <1> HIDE DEF r
  <1>4. UNCHANGED <<hpa, row>>
    BY DEF BeginApply
  <1>5. HpaTypeOK' /\ admin'[a] = r /\ \A b \in Admins : b # a => admin'[b] = admin[b]
    BY <1>1, <1>2, <1>3, <1>4, RequestTyped, StoredTypes DEF HpaInv
  <1>6. Alone'
    <2> SUFFICES ASSUME "beside" \notin blur' PROVE Alone'
      BY DEF Alone
    <2>1. "beside" \notin blur /\ ~Blocked(n, import) /\ ~Rival(n)
      BY <1>1
    <2>2. \A m \in HpaNames : Ours(m) => m = n
      BY <2>1 DEF Blocked, Ours
    <2>3. \A b \in Admins : Creating(b) => admin[b].name = n
      BY <2>1 DEF Rival, Creating
    <2>4. \A b \in Admins : Creating(b)' => admin'[b].name = n
      BY <1>2, <1>5, <2>3 DEF Creating
    <2>5. \A m \in HpaNames : Ours(m)' <=> Ours(m)
      BY <1>4 DEF Ours
    <2> QED BY <2>2, <2>4, <2>5 DEF Alone
  <1>7. OwnOnly'
    <2>1. ASSUME NEW b \in Admins, Believes(b)'
          PROVE  /\ admin'[b].name \in HpaNames
                 /\ Believes(b) /\ admin'[b].name = admin[b].name
      <3>1. b # a
        BY <1>2, <1>5, <2>1 DEF Believes, Stage
      <3>2. Believes(b) /\ admin'[b] = admin[b]
        BY <1>5, <2>1, <3>1 DEF Believes, Stage
      <3> QED BY <3>2, BelieversNamed DEF HpaInv
    <2>2. "before" \notin blur' => "before" \notin blur
      BY <1>1
    <2> QED BY <1>4, <2>1, <2>2, OwnKept DEF Pure
  <1> QED BY <1>5, <1>6, <1>7 DEF HpaInv

LEMMA GetPreviousKeeps ==
    ASSUME HpaInv, NEW a \in Admins, GetPrevious(a)
    PROVE  HpaInv'
  <1>1. admin[a] \in Built /\ admin[a].name \in HpaNames /\ Creating(a)
        /\ UNCHANGED <<hpa, row>>
    BY RequestTypes DEF GetPrevious, HpaInv, Stage, Creating, Built
  <1>2. PICK now \in {hpa[admin[a].name], None} :
          /\ admin' = [admin EXCEPT ![a] =
                IF now # None /\ ~now.ours /\ ~@.import THEN HpaIdle
                ELSE [stage |-> "read", name |-> @.name, spec |-> @.spec,
                      before |-> IF now = None THEN "absent" ELSE "previous"]]
          /\ blur' = IF now = hpa[admin[a].name] THEN blur ELSE blur \cup {"before"}
    BY DEF GetPrevious
  <1> DEFINE r == [stage |-> "read", name |-> admin[a].name, spec |-> admin[a].spec,
                   before |-> IF now = None THEN "absent" ELSE "previous"]
  <1>3. admin' = [admin EXCEPT ![a] = HpaIdle] \/ admin' = [admin EXCEPT ![a] = r]
    BY <1>2
  <1>4. blur \subseteq blur' /\ blur' \subseteq {"beside", "before"}
    BY <1>2, StoredTypes DEF HpaInv
  <1>5. CASE admin' = [admin EXCEPT ![a] = HpaIdle]
    BY <1>1, <1>4, <1>5, IdleGood, RequestKeeps
  <1>6. CASE admin' = [admin EXCEPT ![a] = r]
    <2>1. r \in Read
      BY <1>1 DEF Built, Read, Rows
    <2>2. r.stage = "read" /\ r.name = admin[a].name
      OBVIOUS
    <2>3. "before" \notin blur' /\ r.before = "absent" => Pure(r.name)
      BY <1>2 DEF Pure
    <2> HIDE DEF r
    <2>4. r \in Requests
      BY <2>1 DEF Requests
    <2> QED BY <1>1, <1>4, <1>6, <2>2, <2>3, <2>4, RequestKeeps
  <1> QED BY <1>3, <1>5, <1>6

\* The one it writes has the name of the one there may be, and stays pure.
LEMMA ApplyHpaKeeps ==
    ASSUME HpaInv, NEW a \in Admins, ApplyHpa(a)
    PROVE  HpaInv'
  <1> DEFINE n == admin[a].name
             s == admin[a].spec
             written == [spec |-> s, ours |-> TRUE,
                         foreign |-> hpa[n] # None /\ hpa[n].foreign]
             r == [stage |-> "applied", name |-> n, before |-> admin[a].before]
  <1>1. /\ admin[a] \in Read /\ UNCHANGED <<row, blur>> /\ Creating(a)
        /\ n \in HpaNames /\ s \in Specs /\ admin[a].before \in Rows
        /\ admin[a].stage = "read"
    BY RequestTypes DEF ApplyHpa, HpaInv, Stage, Read, Creating
  <1>2. CASE Conflict(n, s)
    BY <1>1, <1>2, FinishKeeps DEF ApplyHpa
  <1>3. CASE ~Conflict(n, s)
    <2>1. hpa' = [hpa EXCEPT ![n] = written] /\ admin' = [admin EXCEPT ![a] = r]
      BY <1>3 DEF ApplyHpa
    <2>2. written \in Hpas /\ written.ours /\ (Pure(n) => ~written.foreign)
      <3>1. (hpa[n] # None /\ hpa[n].foreign) \in BOOLEAN
        BY <1>1, StoredTypes DEF HpaInv, Hpas
      <3>2. written \in Hpas
        BY <1>1, <3>1 DEF Hpas
      <3> QED BY <3>2 DEF Pure
    <2>3. r \in Requests /\ r.stage = "applied" /\ r.name = n
          /\ r.before = admin[a].before
      BY <1>1 DEF Requests, Applied
    <2> HIDE DEF r, written
    <2>4. /\ hpa' \in [HpaNames -> {None} \cup Hpas] /\ hpa'[n] = written
          /\ \A m \in HpaNames : m # n => hpa'[m] = hpa[m]
      BY <1>1, <2>1, <2>2, StoredTypes DEF HpaInv
    <2>5. HpaTypeOK' /\ admin'[a] = r /\ \A b \in Admins : b # a => admin'[b] = admin[b]
      BY <1>1, <2>1, <2>3, <2>4, RequestTyped, StoredTypes DEF HpaInv
    <2>6. Alone'
      <3> SUFFICES ASSUME "beside" \notin blur' PROVE Alone'
        BY DEF Alone
      <3>1. \A m \in HpaNames : Ours(m) => m = n
        BY <1>1 DEF HpaInv, Alone
      <3>2. \A m \in HpaNames : Ours(m)' => m = n
        BY <2>4, <3>1 DEF Ours
      <3>3. \A b \in Admins : Creating(b) => admin[b].name = n
        BY <1>1 DEF HpaInv, Alone
      <3>4. \A b \in Admins : Creating(b)' => admin'[b].name = n
        BY <2>3, <2>5, <3>3 DEF Creating
      <3> QED BY <3>2, <3>4 DEF Alone
    <2>7. OwnOnly'
      <3>1. \A m \in HpaNames : Pure(m) => Pure(m)'
        BY <2>2, <2>4 DEF Pure
      <3>2. ASSUME NEW b \in Admins, Believes(b)'
            PROVE  /\ admin'[b].name \in HpaNames
                   /\ Believes(b) /\ admin'[b].name = admin[b].name
        <4>1. CASE b = a
          <5>1. admin'[b].before = "absent"
            BY <2>3, <2>5, <3>2, <4>1 DEF Believes, Stage
          <5> QED BY <1>1, <2>3, <2>5, <4>1, <5>1 DEF Believes
        <4>2. CASE b # a
          <5>1. Believes(b) /\ admin'[b] = admin[b]
            BY <2>5, <3>2, <4>2 DEF Believes, Stage
          <5> QED BY <5>1, BelieversNamed DEF HpaInv
        <4> QED BY <4>1, <4>2
      <3> QED BY <1>1, <3>1, <3>2, OwnKept
    <2> QED BY <2>5, <2>6, <2>7 DEF HpaInv
  <1> QED BY <1>2, <1>3

\* The row takes over what the request went by.
LEMMA RowKeeps ==
    ASSUME HpaInv, NEW a \in Admins, Remember(a) \/ ForgetRow(a)
    PROVE  HpaInv'
  <1>1. Finish(a) /\ UNCHANGED <<hpa, blur>>
    BY DEF Remember, ForgetRow
  <1>2. /\ row' \in [HpaNames -> Rows]
        /\ \A n \in HpaNames : row'[n] = "absent" =>
              row[n] = "absent" \/ (Believes(a) /\ n = admin[a].name)
    <2>1. CASE Remember(a)
      <3>1. admin[a] \in Applied /\ admin[a].stage = "applied"
        BY <2>1, RequestTypes DEF Remember, HpaInv, Stage
      <3>2. row' = [row EXCEPT ![admin[a].name] = admin[a].before]
        BY <2>1 DEF Remember
      <3>3. admin[a].name \in HpaNames /\ admin[a].before \in Rows
        BY <3>1 DEF Applied
      <3> QED BY <3>1, <3>2, <3>3, StoredTypes DEF HpaInv, Believes
    <2>2. CASE ForgetRow(a)
      <3>1. row' = [row EXCEPT ![admin[a].name] = "none"]
        BY <2>2 DEF ForgetRow
      <3> QED BY <3>1, StoredTypes DEF HpaInv, Rows
    <2> QED BY <2>1, <2>2
  <1>3. HpaTypeOK' /\ admin'[a] = HpaIdle
        /\ \A b \in Admins : b # a => admin'[b] = admin[b]
    BY <1>1, <1>2, IdleGood, RequestTyped, StoredTypes DEF Finish, HpaInv
  <1>4. ASSUME NEW b \in Admins, Believes(b)' PROVE Believes(b) /\ admin'[b] = admin[b]
    BY <1>3, <1>4, IdleGood DEF Believes, Stage
  <1>5. OwnOnly'
    <2>1. "before" \notin blur => \A n \in HpaNames :
              Believes(a) /\ n = admin[a].name => Pure(n)
      BY DEF HpaInv, OwnOnly
    <2>2. \A b \in Admins : Believes(b)' =>
              admin'[b].name \in HpaNames /\ Believes(b) /\ admin'[b].name = admin[b].name
      BY <1>4, BelieversNamed DEF HpaInv
    <2>3. \A n \in HpaNames : Pure(n) => Pure(n)'
      BY <1>1 DEF Pure
    <2>4. "before" \notin blur' =>
              \A n \in HpaNames : row'[n] = "absent" => row[n] = "absent" \/ Pure(n)
      BY <1>1, <1>2, <2>1
    <2> QED BY <1>1, <2>2, <2>3, <2>4, OwnKept
  <1>6. Alone'
    <2>1. \A b \in Admins : Creating(b)' => Creating(b) /\ admin'[b].name = admin[b].name
      BY <1>3, IdleGood DEF Creating
    <2> QED BY <1>1, <2>1, AloneKept DEF Ours
  <1> QED BY <1>3, <1>5, <1>6 DEF HpaInv

LEMMA UndoKeeps ==
    ASSUME HpaInv, NEW a \in Admins, BeginUndo(a) \/ RemoveHpa(a)
    PROVE  HpaInv'
  <1>1. CASE BeginUndo(a)
    <2>1. PICK n \in HpaNames : admin' = [admin EXCEPT ![a] = [name |-> n, stage |->
                          IF row[n] = "absent" THEN "undoing" ELSE "refused"]]
      BY <1>1 DEF BeginUndo
    <2> DEFINE r == [name |-> n, stage |-> IF row[n] = "absent" THEN "undoing" ELSE "refused"]
    <2>2. /\ r \in Requests /\ r.name = n /\ r.stage \in {"undoing", "refused"}
          /\ r.stage = "undoing" => row[n] = "absent"
      BY DEF Requests, Undo
    <2>3. admin' = [admin EXCEPT ![a] = r]
      BY <2>1
    <2> HIDE DEF r
    <2>4. UNCHANGED <<hpa, row, blur>>
      BY <1>1 DEF BeginUndo
    <2>5. "before" \notin blur /\ row[n] = "absent" => Pure(n)
      BY DEF HpaInv, OwnOnly
    <2> QED BY <2>2, <2>3, <2>4, <2>5, StoredTypes, RequestKeeps DEF HpaInv
  <1>2. CASE RemoveHpa(a)
    <2>1. admin[a] \in Undo /\ UNCHANGED <<row, blur>> /\ admin[a].name \in HpaNames
      BY <1>2, RequestTypes DEF RemoveHpa, Stage, HpaInv, Undo
    <2>2. CASE hpa[admin[a].name] = None
      BY <1>2, <2>1, <2>2, FinishKeeps DEF RemoveHpa
    <2>3. CASE hpa[admin[a].name] # None
      <3> DEFINE r == [stage |-> "removed", name |-> admin[a].name]
      <3>1. /\ hpa' = [hpa EXCEPT ![admin[a].name] = None]
            /\ admin' = [admin EXCEPT ![a] = r]
        BY <1>2, <2>3 DEF RemoveHpa
      <3>2. r \in Requests /\ r.stage = "removed"
        BY <2>1 DEF Requests, Undo
      <3>3. /\ hpa' \in [HpaNames -> {None} \cup Hpas]
            /\ \A m \in HpaNames : hpa'[m] = hpa[m] \/ hpa'[m] = None
        BY <3>1, StoredTypes DEF HpaInv
      <3> HIDE DEF r
      <3>4. HpaTypeOK' /\ admin'[a] = r /\ \A b \in Admins : b # a => admin'[b] = admin[b]
        BY <2>1, <3>1, <3>2, <3>3, RequestTyped, StoredTypes DEF HpaInv
      <3>5. Alone'
        <4>1. \A b \in Admins : Creating(b)' => Creating(b) /\ admin'[b].name = admin[b].name
          BY <3>2, <3>4 DEF Creating
        <4>2. \A m \in HpaNames : Ours(m)' => Ours(m)
          BY <3>3 DEF Ours
        <4> QED BY <2>1, <4>1, <4>2, AloneKept
      <3>6. OwnOnly'
        <4>1. \A m \in HpaNames : Pure(m) => Pure(m)'
          BY <3>3 DEF Pure
        <4>2. ASSUME NEW b \in Admins, Believes(b)' PROVE Believes(b) /\ admin'[b] = admin[b]
          BY <3>2, <3>4, <4>2 DEF Believes, Stage
        <4>3. \A b \in Admins : Believes(b)' =>
              admin'[b].name \in HpaNames /\ Believes(b) /\ admin'[b].name = admin[b].name
          BY <4>2, BelieversNamed DEF HpaInv
        <4> QED BY <2>1, <4>1, <4>3, OwnKept
      <3> QED BY <3>4, <3>5, <3>6 DEF HpaInv
    <2> QED BY <2>2, <2>3
  <1> QED BY <1>1, <1>2

\* Whoever writes makes none ours, and touches nothing that is relied on
\* unless that is noted.
LEMMA OtherWriterKeeps ==
    ASSUME HpaInv, NEW n \in HpaNames, OtherWriter(n)
    PROVE  HpaInv'
  <1>1. /\ UNCHANGED <<row, admin>>
        /\ blur' = IF Relied(n) THEN blur \cup {"before"} ELSE blur
    BY DEF OtherWriter
  <1>2. /\ hpa' \in [HpaNames -> {None} \cup Hpas]
        /\ Ours(n)' => Ours(n)
        /\ \A m \in HpaNames : m # n => hpa'[m] = hpa[m]
    <2>1. CASE hpa[n] # None /\ hpa' = [hpa EXCEPT ![n] = None]
      BY <2>1, StoredTypes DEF HpaInv, Ours
    <2>2. CASE \E s \in Specs : hpa' = [hpa EXCEPT ![n] =
              [spec |-> s, ours |-> Ours(n), foreign |-> TRUE]]
      <3>1. PICK s \in Specs : hpa' = [hpa EXCEPT ![n] =
                [spec |-> s, ours |-> Ours(n), foreign |-> TRUE]]
        BY <2>2
      <3>2. Ours(n) \in BOOLEAN
        BY StoredTypes DEF HpaInv, Ours, Hpas
      <3> DEFINE h == [spec |-> s, ours |-> Ours(n), foreign |-> TRUE]
      <3>3. h \in Hpas /\ h.ours = Ours(n)
        BY <3>2 DEF Hpas
      <3> HIDE DEF h
      <3>4. hpa' = [hpa EXCEPT ![n] = h]
        BY <3>1 DEF h
      <3>5. /\ hpa' \in [HpaNames -> {None} \cup Hpas] /\ hpa'[n] = h
            /\ \A m \in HpaNames : m # n => hpa'[m] = hpa[m]
        BY <3>3, <3>4, StoredTypes DEF HpaInv
      <3>6. Ours(n)' => h.ours
        BY <3>5 DEF Ours
      <3> QED BY <3>3, <3>5, <3>6
    <2> QED BY <2>1, <2>2 DEF OtherWriter
  <1>3. HpaTypeOK'
    BY <1>1, <1>2 DEF HpaInv, HpaTypeOK
  <1>4. Alone'
    <2>1. \A m \in HpaNames : Ours(m)' => Ours(m)
      BY <1>2 DEF Ours
    <2>2. "beside" \notin blur' => "beside" \notin blur
      BY <1>1
    <2> QED BY <1>1, <2>1, <2>2, AloneKept DEF Creating
  <1>5. OwnOnly'
    <2> SUFFICES ASSUME "before" \notin blur'
                 PROVE  /\ \A m \in HpaNames : row'[m] = "absent" => Pure(m)'
                        /\ \A b \in Admins : Believes(b)' => Pure(admin[b].name)'
      BY DEF OwnOnly
    <2>1. ~Relied(n) /\ "before" \notin blur
      BY <1>1
    <2>2. \A m \in HpaNames : m # n /\ Pure(m) => Pure(m)'
      BY <1>2 DEF Pure
    <2>3. \A m \in HpaNames : row'[m] = "absent" => Pure(m)'
      BY <1>1, <2>1, <2>2 DEF Relied, HpaInv, OwnOnly
    <2>4. ASSUME NEW b \in Admins, Believes(b)' PROVE Pure(admin[b].name)'
      <3>1. Believes(b) /\ admin[b].name # n /\ Pure(admin[b].name)
        BY <1>1, <2>1, <2>4 DEF Believes, Stage, Relied, HpaInv, OwnOnly
      <3>2. PICK m \in HpaNames : m = admin[b].name
        BY <3>1, BelieversNamed DEF HpaInv
      <3>3. Pure(m)'
        BY <2>2, <3>1, <3>2
      <3> QED BY <1>1, <3>2, <3>3 DEF Pure
    <2> QED BY <2>3, <2>4
  <1> QED BY <1>3, <1>4, <1>5 DEF HpaInv

---------------------------------------------------------------------------
THEOREM HpaInvariant == HpaSpec => []HpaInv
  <1>1. ASSUME HpaInv, UNCHANGED hpaVars PROVE HpaInv'
    BY <1>1 DEF hpaVars, HpaInv, HpaTypeOK, Alone, OwnOnly, Creating, Believes, Stage,
                Ours, Pure
  <1>2. ASSUME HpaInv, NEW a \in Admins, HpaBreaksOff(a) PROVE HpaInv'
    BY <1>2, FinishKeeps DEF HpaBreaksOff
  <1>3. HpaInv /\ HpaNext => HpaInv'
    BY <1>2, BeginApplyKeeps, GetPreviousKeeps, ApplyHpaKeeps, RowKeeps, UndoKeeps,
       OtherWriterKeeps DEF HpaNext
  <1> QED BY <1>1, <1>3, HpaStarts, PTL DEF HpaSpec

\* Through any number of applies, undos, foreign writes and requests that break
\* off, a workload has one autoscaler of tmjLens at most, unless a list that
\* would have blocked failed or applies about different names overlapped.
THEOREM OneAtMost == HpaSpec => []OneOfOurs
  <1>1. HpaInv => OneOfOurs
    BY DEF HpaInv, Alone, OneOfOurs
  <1> QED BY <1>1, HpaInvariant, PTL

\* What undo is about to delete by its row alone holds nothing that somebody
\* else set, unless they wrote it after tmjLens had read it or that read failed.
THEOREM UndoTakesOwn == HpaSpec => []UndoRemovesOwn
  <1>1. HpaInv => UndoRemovesOwn
    BY DEF HpaInv, OwnOnly, Believes, Pure, UndoRemovesOwn
  <1> QED BY <1>1, HpaInvariant, PTL

(***************************************************************************)
(* force_finalize_namespace, for every set of objects and types and any    *)
(* number of deletions, creations and reports while it walks.              *)
(***************************************************************************)
Phases == {"Active", "Terminating", "Gone"}
States == {"absent", "free", "held"}

Walks == [stage : {"types"}, copy : Namespaces, todo : SUBSET Types,
          walked : SUBSET Types, listed : SUBSET Items, cleared : BOOLEAN]
Ends == [stage : {"finalize"}, copy : Namespaces, walked : SUBSET Types]
Forced == [done : {TRUE}, phase : Phases, named : SUBSET Types, left : SUBSET Items,
           read : SUBSET Types, holding : SUBSET Items]

\* Nobody wrote the namespace since the request read it.
AsRead == force.copy.version = ns.version

Held(T) == {i \in Items : inside[i] = "held" /\ TypeOf[i] \in T}

\* As long as nobody wrote it the namespace is the one that was read, so
\* nothing new can be held inside, and what is held of the types walked so far
\* is what the last list found.
Unwritten ==
    /\ force # Idle =>
          /\ force.copy.version <= ns.version
          /\ AsRead => ns.phase # "Active" /\ ns.named = force.copy.named
    /\ force.stage = "types" /\ AsRead /\ ~force.cleared =>
          Held(force.walked) \subseteq force.listed
    /\ force.stage = "finalize" /\ AsRead => Held(force.walked) = {}

Finalized == forced.done =>
    /\ forced.phase = "Terminating"
    /\ forced.named = forced.read
    /\ forced.holding = {}

ForceInv == NsTypeOK /\ Unwritten /\ Finalized

USE NamespaceAssumption

---------------------------------------------------------------------------
LEMMA NsTypes ==
    ASSUME NsTypeOK
    PROVE  /\ ns \in Namespaces
           /\ inside \in [Items -> States]
           /\ force \in {Idle} \cup Walks \cup Ends
           /\ forced \in {Nothing} \cup Forced
           /\ force.stage = "types" => force \in Walks
           /\ force.stage = "finalize" => force \in Ends
           /\ force # Idle => force.stage \in {"types", "finalize"}
           /\ force # Idle => force.copy \in Namespaces
  <1>1. /\ ns \in Namespaces
        /\ inside \in [Items -> States]
        /\ force \in {Idle} \cup Walks \cup Ends
        /\ forced \in {Nothing} \cup Forced
    BY DEF NsTypeOK, States, Walks, Ends, Forced, Phases
  <1>2. \A f \in Walks : f.stage = "types" /\ f.copy \in Namespaces
    BY DEF Walks
  <1>3. \A f \in Ends : f.stage = "finalize" /\ f.copy \in Namespaces
    BY DEF Ends
  <1>4. Idle.stage = "idle"
    BY DEF Idle
  <1> QED BY <1>1, <1>2, <1>3, <1>4

LEMMA NsTyped ==
    ASSUME ns' \in Namespaces,
           inside' \in [Items -> States],
           force' \in {Idle} \cup Walks \cup Ends,
           forced' \in {Nothing} \cup Forced
    PROVE  NsTypeOK'
  BY DEF NsTypeOK, States, Walks, Ends, Forced, Phases

LEMMA NsStarts == NsInit => ForceInv
  <1> SUFFICES ASSUME NsInit PROVE ForceInv
    OBVIOUS
  <1>1. force = Idle /\ force.stage = "idle" /\ forced = Nothing /\ ~forced.done
    BY DEF NsInit, Idle, Nothing
  <1>2. inside \in [Items -> {"absent", "free", "held"}]
    BY DEF NsInit
  <1>3. ns \in Namespaces
    BY DEF NsInit, Namespaces
  <1> QED BY <1>1, <1>2, <1>3 DEF ForceInv, NsTypeOK, Unwritten, Finalized

---------------------------------------------------------------------------
\* Whoever writes the namespace raises its version, so what a request read is
\* not what is there any more.
LEMMA WriteKeeps ==
    ASSUME ForceInv, ns' \in Namespaces, ns'.version > ns.version,
           UNCHANGED <<inside, force, forced>>
    PROVE  ForceInv'
  <1>1. NsTypeOK'
    BY NsTypes, NsTyped DEF ForceInv
  <1>2. force # Idle => force.copy.version <= ns.version /\ ns.version < ns'.version
                        /\ force.copy.version \in Nat /\ ns.version \in Nat
                        /\ ns'.version \in Nat
    BY NsTypes DEF ForceInv, Unwritten, Namespaces
  <1>3. force # Idle => ~AsRead'
    BY <1>2 DEF AsRead
  <1>4. Unwritten'
    BY <1>2, <1>3 DEF Unwritten, Idle
  <1> QED BY <1>1, <1>4 DEF ForceInv, Finalized

LEMMA TouchedType ==
    ASSUME NEW n \in Namespaces, ns \in Namespaces, ns.version < MaxNsVersion
    PROVE  Touched(n) \in Namespaces /\ Touched(n).version > ns.version
  <1>1. ns.version + 1 \in 1 .. MaxNsVersion
    BY DEF Namespaces
  <1>2. Touched(n) = [phase |-> n.phase, named |-> n.named, own |-> n.own,
                      version |-> ns.version + 1]
    BY DEF Touched, Namespaces
  <1> QED BY <1>1, <1>2 DEF Namespaces

LEMMA NamespaceWritesKeep ==
    ForceInv /\ (DeleteNamespace \/ CreateNamespace \/ ControllerReports) => ForceInv'
  <1>1. ASSUME ForceInv, DeleteNamespace PROVE ForceInv'
    <2>1. ns \in Namespaces /\ [ns EXCEPT !.phase = "Terminating"] \in Namespaces
      BY <1>1, NsTypes DEF ForceInv, Namespaces
    <2>2. ns' \in Namespaces /\ ns'.version > ns.version
      BY <1>1, <2>1, TouchedType DEF DeleteNamespace
    <2> QED BY <1>1, <2>2, WriteKeeps DEF DeleteNamespace
  <1>2. ASSUME ForceInv, CreateNamespace PROVE ForceInv'
    <2>1. PICK own \in BOOLEAN :
              ns' = Touched([ns EXCEPT !.phase = "Active", !.own = own, !.named = {}])
      BY <1>2 DEF CreateNamespace
    <2>2. /\ ns \in Namespaces
          /\ [ns EXCEPT !.phase = "Active", !.own = own, !.named = {}] \in Namespaces
      BY <1>2, NsTypes DEF ForceInv, Namespaces
    <2>3. ns' \in Namespaces /\ ns'.version > ns.version
      BY <1>2, <2>1, <2>2, TouchedType DEF CreateNamespace
    <2> QED BY <1>2, <2>3, WriteKeeps DEF CreateNamespace
  <1>3. ASSUME ForceInv, ControllerReports PROVE ForceInv'
    <2>1. {TypeOf[i] : i \in Left} \in SUBSET Types
      BY DEF Left
    <2>2. /\ ns \in Namespaces
          /\ [ns EXCEPT !.named = {TypeOf[i] : i \in Left}] \in Namespaces
      BY <1>3, <2>1, NsTypes DEF ForceInv, Namespaces
    <2>3. ns' \in Namespaces /\ ns'.version > ns.version
      BY <1>3, <2>2, TouchedType DEF ControllerReports
    <2> QED BY <1>3, <2>3, WriteKeeps DEF ControllerReports
  <1> QED BY <1>1, <1>2, <1>3

\* What happens inside the namespace, when nothing new is held or it is live.
LEMMA InsideKeeps ==
    ASSUME ForceInv, inside' \in [Items -> States], UNCHANGED <<ns, force, forced>>,
           ns.phase # "Active" =>
               \A i \in Items : inside'[i] = "held" => inside[i] = "held"
    PROVE  ForceInv'
  <1>1. NsTypeOK'
    BY NsTypes, NsTyped DEF ForceInv
  <1>2. ns.phase # "Active" => \A T : Held(T)' \subseteq Held(T)
    BY DEF Held
  <1>3. Unwritten'
    BY <1>2 DEF ForceInv, Unwritten, AsRead, Idle
  <1> QED BY <1>1, <1>3 DEF ForceInv, Finalized

LEMMA OthersActKeeps ==
    ASSUME NEW i \in Items, ForceInv, ControllerDeletes(i) \/ OperatorActs(i)
    PROVE  ForceInv'
  <1>1. CASE ControllerDeletes(i)
    BY <1>1, NsTypes, InsideKeeps DEF ForceInv, ControllerDeletes, States
  <1>2. CASE OperatorActs(i)
    BY <1>2, NsTypes, InsideKeeps DEF ForceInv, OperatorActs, States
  <1> QED BY <1>1, <1>2

LEMMA ControllerFinishesKeeps == ForceInv /\ ControllerFinishes => ForceInv'
  <1> SUFFICES ASSUME ForceInv, ControllerFinishes PROVE ForceInv'
    OBVIOUS
  <1>1. /\ ns' \in Namespaces /\ ns'.phase = "Gone"
        /\ ns'.version = ns.version /\ ns'.named = ns.named
        /\ UNCHANGED <<inside, force, forced>>
    BY NsTypes DEF ForceInv, ControllerFinishes, Namespaces
  <1>2. NsTypeOK'
    BY <1>1, NsTypes, NsTyped DEF ForceInv
  <1>3. Unwritten'
    BY <1>1 DEF ForceInv, Unwritten, AsRead, Held, Idle
  <1> QED BY <1>1, <1>2, <1>3 DEF ForceInv, Finalized

---------------------------------------------------------------------------
LEMMA BeginForceKeeps == ForceInv /\ BeginForce => ForceInv'
  <1> SUFFICES ASSUME ForceInv, BeginForce PROVE ForceInv'
    OBVIOUS
  <1>1. /\ force' = [stage |-> "types", copy |-> ns, todo |-> ns.named,
                     walked |-> {}, listed |-> {}, cleared |-> FALSE]
        /\ UNCHANGED <<ns, inside, forced>>
        /\ ns.phase = "Terminating"
    BY DEF BeginForce
  <1>2. ns.named \in SUBSET Types /\ ns.version \in Nat
    BY NsTypes DEF ForceInv, Namespaces
  <1>3. NsTypeOK'
    BY <1>1, <1>2, NsTypes, NsTyped DEF ForceInv, Walks
  <1>4. Held({}) = {}
    BY DEF Held
  <1>5. /\ force'.stage = "types" /\ force'.copy = ns
        /\ force'.walked = {} /\ force'.listed = {}
    BY <1>1
  <1>6. Unwritten'
    BY <1>1, <1>2, <1>4, <1>5 DEF Unwritten, AsRead, Held
  <1> QED BY <1>1, <1>3, <1>6 DEF ForceInv, Finalized

LEMMA ListTypeKeeps ==
    ASSUME NEW t \in Types, ForceInv, ListType(t)
    PROVE  ForceInv'
  <1>1. /\ force' = [force EXCEPT !.todo = @ \ {t}, !.walked = @ \cup {t},
                                  !.listed = Holders(t)]
        /\ UNCHANGED <<ns, inside, forced>>
        /\ force.stage = "types" /\ force.listed = {}
    BY DEF ListType
  <1>2. force \in Walks
    BY <1>1, NsTypes DEF ForceInv
  <1>3. Holders(t) \in SUBSET Items
    BY DEF Holders
  <1>4. NsTypeOK'
    <2>1. force' \in Walks
      BY <1>1, <1>2, <1>3 DEF Walks
    <2> QED BY <1>1, <2>1, NsTypes, NsTyped DEF ForceInv
  <1>5. /\ force'.stage = "types" /\ force'.copy = force.copy
        /\ force'.walked = force.walked \cup {t}
        /\ force'.listed = Holders(t) /\ force'.cleared = force.cleared
    BY <1>1, <1>2 DEF Walks
  <1>6. Held(force.walked)' \subseteq Held(force.walked) \cup Holders(t)
    BY <1>1, <1>5 DEF Held, Holders
  <1>7. Unwritten'
    BY <1>1, <1>5, <1>6 DEF ForceInv, Unwritten, AsRead, Idle
  <1> QED BY <1>1, <1>4, <1>7 DEF ForceInv, Finalized

LEMMA SkipTypeKeeps ==
    ASSUME NEW t \in Types, ForceInv, SkipType(t)
    PROVE  ForceInv'
  <1>1. /\ force' = [force EXCEPT !.todo = @ \ {t}]
        /\ UNCHANGED <<ns, inside, forced>>
        /\ force.stage = "types"
    BY DEF SkipType
  <1>2. force \in Walks
    BY <1>1, NsTypes DEF ForceInv
  <1>3. NsTypeOK'
    <2>1. force' \in Walks
      BY <1>1, <1>2 DEF Walks
    <2> QED BY <1>1, <2>1, NsTypes, NsTyped DEF ForceInv
  <1>4. /\ force'.stage = "types" /\ force'.copy = force.copy
        /\ force'.walked = force.walked /\ force'.listed = force.listed
        /\ force'.cleared = force.cleared
    BY <1>1, <1>2 DEF Walks
  <1>5. Held(force.walked)' = Held(force.walked)
    BY <1>1, <1>4 DEF Held
  <1>6. Unwritten'
    BY <1>1, <1>4, <1>5 DEF ForceInv, Unwritten, AsRead, Idle
  <1> QED BY <1>1, <1>3, <1>6 DEF ForceInv, Finalized

\* A request that ends leaves nothing to keep.
LEMMA IdleKeeps ==
    ASSUME ForceInv, force' = Idle, ns' \in Namespaces, inside' \in [Items -> States],
           UNCHANGED forced
    PROVE  ForceInv'
  <1>1. NsTypeOK'
    BY NsTypes, NsTyped DEF ForceInv
  <1>2. Unwritten'
    BY DEF Unwritten, Idle
  <1> QED BY <1>1, <1>2 DEF ForceInv, Finalized

LEMMA ClearItemKeeps ==
    ASSUME NEW i \in Items, ForceInv, ClearItem(i)
    PROVE  ForceInv'
  <1>1. force.stage = "types" /\ UNCHANGED <<ns, forced>>
    BY DEF ClearItem
  <1>2. CASE UNCHANGED inside /\ force' = Idle
    BY <1>1, <1>2, NsTypes, IdleKeeps DEF ForceInv
  <1>3. CASE /\ inside' = [inside EXCEPT ![i] = "free"]
             /\ force' = [force EXCEPT !.listed = @ \ {i}, !.cleared = TRUE]
    <2>1. force \in Walks
      BY <1>1, NsTypes DEF ForceInv
    <2>2. force' \in Walks /\ inside' \in [Items -> States]
      BY <1>3, <2>1, NsTypes DEF ForceInv, Walks, States
    <2>3. NsTypeOK'
      BY <1>1, <2>2, NsTypes, NsTyped DEF ForceInv
    <2>4. force'.stage = "types" /\ force'.copy = force.copy /\ force'.cleared
      BY <1>1, <1>3, <2>1 DEF Walks
    <2>5. Unwritten'
      BY <1>1, <2>4 DEF ForceInv, Unwritten, AsRead, Idle
    <2> QED BY <1>1, <2>3, <2>5 DEF ForceInv, Finalized
  <1> QED BY <1>2, <1>3 DEF ClearItem

LEMMA EndTypesKeeps == ForceInv /\ EndTypes => ForceInv'
  <1> SUFFICES ASSUME ForceInv, EndTypes PROVE ForceInv'
    OBVIOUS
  <1>1. /\ force.stage = "types" /\ force.listed = {}
        /\ UNCHANGED <<ns, inside, forced>>
    BY DEF EndTypes
  <1>2. CASE ~force.cleared /\ force.copy.own
    <2>1. force' = [stage |-> "finalize", copy |-> force.copy, walked |-> force.walked]
      BY <1>2 DEF EndTypes
    <2>2. force \in Walks
      BY <1>1, NsTypes DEF ForceInv
    <2>3. force' \in Ends
      BY <2>1, <2>2 DEF Walks, Ends
    <2>4. NsTypeOK'
      BY <1>1, <2>3, NsTypes, NsTyped DEF ForceInv
    <2>5. /\ force'.stage = "finalize" /\ force'.copy = force.copy
          /\ force'.walked = force.walked
      BY <2>1
    <2>6. Held(force.walked)' = Held(force.walked)
      BY <1>1, <2>5 DEF Held
    <2>7. Unwritten'
      BY <1>1, <1>2, <2>5, <2>6 DEF ForceInv, Unwritten, AsRead, Idle
    <2> QED BY <1>1, <2>4, <2>7 DEF ForceInv, Finalized
  <1>3. CASE ~(~force.cleared /\ force.copy.own)
    <2>1. force' = Idle
      BY <1>3 DEF EndTypes
    <2> QED BY <1>1, <2>1, NsTypes, IdleKeeps DEF ForceInv
  <1> QED BY <1>2, <1>3

LEMMA FinalizeKeeps == ForceInv /\ Finalize => ForceInv'
  <1> SUFFICES ASSUME ForceInv, Finalize PROVE ForceInv'
    OBVIOUS
  <1>1. force.stage = "finalize" /\ force' = Idle /\ UNCHANGED inside
    BY DEF Finalize
  <1>2. CASE ~Accepted
    <2>1. UNCHANGED <<ns, forced>>
      BY <1>2 DEF Finalize
    <2> QED BY <1>1, <2>1, NsTypes, IdleKeeps DEF ForceInv
  <1>3. CASE Accepted
    <2> DEFINE holding == {i \in Left : inside[i] = "held" /\ TypeOf[i] \in force.walked}
    <2>1. /\ ns' = [ns EXCEPT !.own = FALSE,
                              !.phase = IF @ = "Terminating" THEN "Gone" ELSE @]
          /\ forced' = [done |-> TRUE, phase |-> ns.phase, named |-> ns.named,
                        left |-> Left, read |-> force.copy.named, holding |-> holding]
      BY <1>3 DEF Finalize
    <2>2. force \in Ends
      BY <1>1, NsTypes DEF ForceInv
    <2>3. AsRead /\ ns.phase # "Gone"
      BY <1>3 DEF Accepted, AsRead
    <2>4. ns.phase # "Active" /\ ns.named = force.copy.named /\ Held(force.walked) = {}
      BY <1>1, <2>3 DEF ForceInv, Unwritten, Idle
    <2>5. holding = {}
      BY <2>4 DEF Left, Held
    <2>6. ns \in Namespaces /\ force.copy.named \in SUBSET Types
      BY <2>2, NsTypes DEF ForceInv, Ends, Namespaces
    <2>7. ns.phase = "Terminating"
      BY <2>3, <2>4, <2>6 DEF Namespaces
    <2>8. ns' \in Namespaces
      BY <2>1, <2>6 DEF Namespaces
    <2>9. forced' \in Forced
      BY <2>1, <2>5, <2>6 DEF Forced, Namespaces, Left, Phases
    <2>10. NsTypeOK'
      BY <1>1, <2>8, <2>9, NsTypes, NsTyped DEF ForceInv
    <2>11. Finalized'
      BY <2>1, <2>4, <2>5, <2>7 DEF Finalized
    <2>12. Unwritten'
      BY <1>1 DEF Unwritten, Idle
    <2> QED BY <2>10, <2>11, <2>12 DEF ForceInv
  <1> QED BY <1>2, <1>3

THEOREM NsInvariant == NsSpec => []ForceInv
  <1>1. ForceInv /\ UNCHANGED nsVars => ForceInv'
    BY DEF nsVars, ForceInv, NsTypeOK, Unwritten, AsRead, Held, Finalized
  <1>2. ForceInv /\ NsNext => ForceInv'
    BY NamespaceWritesKeep, OthersActKeeps, ControllerFinishesKeeps, BeginForceKeeps,
       ListTypeKeeps, SkipTypeKeeps, ClearItemKeeps, EndTypesKeeps, FinalizeKeeps DEF NsNext
  <1> QED BY <1>1, <1>2, NsStarts, PTL DEF NsSpec

---------------------------------------------------------------------------
\* However long the walk of force_finalize_namespace takes and whoever deletes
\* or creates the namespace meanwhile, only the namespace that was read, still
\* Terminating, loses its own finalizers.
THEOREM OnlyWhatWasRead == NsSpec => []FinalizedAsRead
  <1>1. ForceInv => FinalizedAsRead
    BY DEF ForceInv, Finalized, FinalizedAsRead
  <1> QED BY <1>1, NsInvariant, PTL

\* No object of a type the request listed is still held by its operator when
\* the namespace's own finalizers go.
THEOREM NoHolderIsOrphaned == NsSpec => []HoldersNotOrphaned
  <1>1. ForceInv => HoldersNotOrphaned
    BY DEF ForceInv, Finalized, HoldersNotOrphaned
  <1> QED BY <1>1, NsInvariant, PTL

(***************************************************************************)
(* Drains account for every pod, and storage in use is lost only to a user *)
(* that came too late, for every set of pods and any number of arrivals.   *)
(***************************************************************************)
Drains == [stage : {"cordoned", "evicting", "answered"}, late : SUBSET Pods,
           todo : SUBSET Pods, evicted : SUBSET Pods, skipped : SUBSET Pods,
           refused : SUBSET Pods]

\* The pods a drain that has its list knows of.
Named == drain.todo \cup drain.evicted \cup drain.refused \cup drain.skipped \cup drain.late

\* From its list on, a drain has every pod that is there in one of its sets.
Accounted ==
    /\ drain.stage \in {"evicting", "answered"} =>
          \A p \in Pods : pod[p] = "on" => p \in Named \/ SortOf[p] = "finished"
    /\ drain.stage = "answered" => drain.todo = {}

\* What was found free is in use only if its use began after that.
LateOnly ==
    \A k \in Kept :
        /\ removal[k] = "checked" /\ storage[k] = "used" => taken[k]
        /\ removal[k] = "lost" => taken[k]
        /\ removal[k] \in {"gone", "lost"} => storage[k] = "gone"

DrainInv == RemovalTypeOK /\ Accounted /\ LateOnly

USE RemovalsAssumption

---------------------------------------------------------------------------
LEMMA DrainTypes ==
    ASSUME RemovalTypeOK
    PROVE  /\ drain \in {NoDrain} \cup Drains
           /\ drain.stage # "none" => drain \in Drains
           /\ NoDrain.stage = "none"
  <1>1. drain \in {NoDrain} \cup Drains
    BY DEF RemovalTypeOK, Drains
  <1> QED BY <1>1 DEF NoDrain

\* A step on the node leaves the storage as it is, and the other way round.
LEMMA NodeTyped ==
    ASSUME RemovalTypeOK, cordoned' \in BOOLEAN,
           pod' \in [Pods -> {"away", "chosen", "on"}],
           drain' \in {NoDrain} \cup Drains,
           arrivals' \in 0 .. Arrivals, UNCHANGED storageVars
    PROVE  RemovalTypeOK'
  BY DEF RemovalTypeOK, Drains, storageVars

LEMMA NodeKeeps ==
    ASSUME DrainInv, RemovalTypeOK', Accounted', UNCHANGED storageVars
    PROVE  DrainInv'
  BY DEF DrainInv, LateOnly, storageVars

LEMMA Arrived ==
    ASSUME RemovalTypeOK, Arrive
    PROVE  arrivals' \in 0 .. Arrivals
  BY DEF RemovalTypeOK, Arrive

LEMMA RemovalStarts == RemovalInit => DrainInv
  <1> SUFFICES ASSUME RemovalInit PROVE DrainInv
    OBVIOUS
  <1>1. RemovalTypeOK
    BY DEF RemovalInit, RemovalTypeOK
  <1>2. Accounted /\ LateOnly
    BY DEF RemovalInit, Accounted, LateOnly, NoDrain
  <1> QED BY <1>1, <1>2 DEF DrainInv

---------------------------------------------------------------------------
LEMMA SchedulerKeeps ==
    ASSUME NEW p \in Pods, DrainInv, Choose(p) \/ Bind(p) \/ PodLeaves(p)
    PROVE  DrainInv'
  <1> USE DEF DrainInv
  <1>0. pod \in [Pods -> {"away", "chosen", "on"}] /\ cordoned \in BOOLEAN
        /\ arrivals \in 0 .. Arrivals
    BY DEF RemovalTypeOK
  <1>1. CASE Choose(p)
    <2>1. RemovalTypeOK'
      BY <1>0, <1>1, Arrived, DrainTypes, NodeTyped DEF Choose
    <2>2. Accounted'
      BY <1>0, <1>1 DEF Choose, Accounted, Named
    <2> QED BY <1>1, <2>1, <2>2, NodeKeeps DEF Choose
  <1>2. CASE Bind(p)
    <2>1. drain' \in {NoDrain} \cup Drains
      BY <1>2, DrainTypes DEF Bind, Drains
    <2>2. RemovalTypeOK'
      BY <1>0, <1>2, <2>1, NodeTyped DEF Bind
    <2>3. CASE drain.stage = "none"
      BY <1>0, <1>2, <2>2, <2>3, NodeKeeps DEF Bind, Accounted
    <2>4. CASE drain.stage # "none"
      <3>1. drain' = [drain EXCEPT !.late = @ \cup {p}] /\ drain \in Drains
        BY <1>2, <2>4, DrainTypes DEF Bind
      <3>2. /\ drain'.stage = drain.stage /\ drain'.todo = drain.todo
            /\ drain'.evicted = drain.evicted /\ drain'.refused = drain.refused
            /\ drain'.skipped = drain.skipped
            /\ drain'.late = drain.late \cup {p}
        BY <3>1 DEF Drains
      <3>3. Accounted'
        BY <1>0, <1>2, <3>2 DEF Bind, Accounted, Named
      <3> QED BY <1>2, <2>2, <3>3, NodeKeeps DEF Bind
    <2> QED BY <2>3, <2>4
  <1>3. CASE PodLeaves(p)
    <2>1. RemovalTypeOK'
      BY <1>0, <1>3, DrainTypes, NodeTyped DEF PodLeaves
    <2>2. Accounted'
      BY <1>0, <1>3 DEF PodLeaves, Accounted, Named
    <2> QED BY <1>3, <2>1, <2>2, NodeKeeps DEF PodLeaves
  <1> QED BY <1>1, <1>2, <1>3

\* Cordons, and drains that begin, break off or answer.
LEMMA CordonKeeps ==
    DrainInv /\ (SetSchedulable \/ Cordon \/ DrainBreaksOff) => DrainInv'
  <1> SUFFICES ASSUME DrainInv, SetSchedulable \/ Cordon \/ DrainBreaksOff PROVE DrainInv'
    OBVIOUS
  <1> USE DEF DrainInv
  <1>0. pod \in [Pods -> {"away", "chosen", "on"}] /\ cordoned \in BOOLEAN
        /\ arrivals \in 0 .. Arrivals
    BY DEF RemovalTypeOK
  <1>1. CASE SetSchedulable
    <2>1. RemovalTypeOK'
      BY <1>0, <1>1, DrainTypes, NodeTyped DEF SetSchedulable
    <2> QED BY <1>1, <2>1, NodeKeeps DEF SetSchedulable, Accounted, Named
  <1>2. CASE Cordon
    <2>1. drain' \in Drains /\ drain'.stage = "cordoned"
      BY <1>2 DEF Cordon, Drains
    <2>2. RemovalTypeOK'
      BY <1>0, <1>2, <2>1, NodeTyped DEF Cordon
    <2> QED BY <1>2, <2>1, <2>2, NodeKeeps DEF Cordon, Accounted
  <1>3. CASE DrainBreaksOff
    <2>1. RemovalTypeOK'
      BY <1>0, <1>3, NodeTyped DEF DrainBreaksOff
    <2> QED BY <1>3, <2>1, NodeKeeps DEF DrainBreaksOff, Accounted, NoDrain
  <1> QED BY <1>1, <1>2, <1>3

LEMMA ListPodsKeeps == DrainInv /\ ListPods => DrainInv'
  <1> SUFFICES ASSUME DrainInv, ListPods PROVE DrainInv'
    OBVIOUS
  <1> USE DEF DrainInv
  <1> DEFINE there == {p \in Pods : pod[p] = "on" /\ SortOf[p] # "finished"}
  <1>1. drain \in Drains
    BY DrainTypes DEF ListPods
  <1>2. /\ drain' = [drain EXCEPT !.stage = "evicting",
                          !.todo = {p \in there : Evictable(p)},
                          !.skipped = {p \in there : ~Evictable(p)}]
        /\ UNCHANGED <<cordoned, pod, storageVars, arrivals>>
    BY DEF ListPods
  <1>3. drain' \in Drains
    BY <1>1, <1>2 DEF Drains
  <1>4. /\ drain'.stage = "evicting"
        /\ drain'.todo = {p \in there : Evictable(p)}
        /\ drain'.skipped = {p \in there : ~Evictable(p)}
    BY <1>1, <1>2 DEF Drains
  <1>5. RemovalTypeOK'
    BY <1>2, <1>3, NodeTyped DEF RemovalTypeOK
  <1>6. Accounted'
    BY <1>2, <1>4 DEF Accounted, Named
  <1> QED BY <1>2, <1>5, <1>6, NodeKeeps

LEMMA EvictKeeps ==
    ASSUME NEW p \in Pods, DrainInv, Evict(p)
    PROVE  DrainInv'
  <1> USE DEF DrainInv
  <1>1. drain \in Drains /\ drain.stage = "evicting"
    BY DrainTypes DEF Evict
  <1>2. UNCHANGED <<cordoned, pod, storageVars, arrivals>>
    BY DEF Evict
  <1>3. /\ drain' \in Drains /\ drain'.stage = "evicting"
        /\ drain'.todo = drain.todo \ {p}
        /\ drain'.evicted \cup drain'.refused = drain.evicted \cup drain.refused \cup {p}
        /\ drain'.skipped = drain.skipped /\ drain'.late = drain.late
    <2>1. CASE drain' = [drain EXCEPT !.todo = @ \ {p}, !.evicted = @ \cup {p}]
      BY <1>1, <2>1 DEF Drains
    <2>2. CASE drain' = Refusal(p)
      <3>1. drain' = [drain EXCEPT !.todo = @ \ {p}, !.refused = @ \cup {p}]
        BY <2>2 DEF Refusal
      <3>2. drain' \in Drains
        BY <1>1, <3>1 DEF Drains
      <3>3. /\ drain'.todo = drain.todo \ {p}
            /\ drain'.refused = drain.refused \cup {p}
            /\ drain'.evicted = drain.evicted
            /\ drain'.stage = drain.stage
            /\ drain'.skipped = drain.skipped /\ drain'.late = drain.late
        BY <1>1, <3>1 DEF Drains
      <3>4. drain'.evicted \cup drain'.refused = drain.evicted \cup drain.refused \cup {p}
        BY <3>3
      <3> QED BY <1>1, <3>2, <3>3, <3>4
    <2> QED BY <2>1, <2>2 DEF Evict
  <1>4. RemovalTypeOK'
    BY <1>2, <1>3, NodeTyped DEF RemovalTypeOK
  <1>5. Named \subseteq Named'
    BY <1>3 DEF Named
  <1>6. Accounted'
    BY <1>1, <1>2, <1>3, <1>5 DEF Accounted
  <1> QED BY <1>2, <1>4, <1>6, NodeKeeps

LEMMA AnswerKeeps == DrainInv /\ Answer => DrainInv'
  <1> SUFFICES ASSUME DrainInv, Answer PROVE DrainInv'
    OBVIOUS
  <1> USE DEF DrainInv
  <1>1. drain \in Drains /\ drain.stage = "evicting" /\ drain.todo = {}
    BY DrainTypes DEF Answer
  <1>2. /\ drain' = [drain EXCEPT !.stage = "answered"]
        /\ UNCHANGED <<cordoned, pod, storageVars, arrivals>>
    BY DEF Answer
  <1>3. /\ drain' \in Drains /\ drain'.todo = drain.todo
        /\ drain'.evicted = drain.evicted /\ drain'.refused = drain.refused
        /\ drain'.skipped = drain.skipped /\ drain'.late = drain.late
    BY <1>1, <1>2 DEF Drains
  <1>4. RemovalTypeOK'
    BY <1>2, <1>3, NodeTyped DEF RemovalTypeOK
  <1>5. Accounted'
    BY <1>1, <1>2, <1>3 DEF Accounted, Named
  <1> QED BY <1>2, <1>4, <1>5, NodeKeeps

---------------------------------------------------------------------------
LEMMA StorageKeeps ==
    ASSUME NEW k \in Kept, DrainInv,
           StartUse(k) \/ EndUse(k) \/ LookAtUse(k) \/ DeleteStorage(k)
    PROVE  DrainInv'
  <1> USE DEF DrainInv
  <1>1. UNCHANGED drainVars
    BY DEF StartUse, EndUse, LookAtUse, DeleteStorage
  <1>2. /\ storage \in [Kept -> {"gone", "unused", "used"}]
        /\ removal \in [Kept -> {"idle", "checked", "gone", "lost"}]
        /\ taken \in [Kept -> BOOLEAN] /\ arrivals \in 0 .. Arrivals
    BY DEF RemovalTypeOK
  <1>3. /\ storage' \in [Kept -> {"gone", "unused", "used"}]
        /\ removal' \in [Kept -> {"idle", "checked", "gone", "lost"}]
        /\ taken' \in [Kept -> BOOLEAN] /\ arrivals' \in 0 .. Arrivals
    <2>1. CASE StartUse(k)
      BY <1>2, <2>1, Arrived DEF StartUse
    <2>2. CASE EndUse(k)
      BY <1>2, <2>2 DEF EndUse
    <2>3. CASE LookAtUse(k)
      BY <1>2, <2>3 DEF LookAtUse
    <2>4. CASE DeleteStorage(k)
      BY <1>2, <2>4 DEF DeleteStorage
    <2> QED BY <2>1, <2>2, <2>3, <2>4
  <1>4. RemovalTypeOK'
    BY <1>1, <1>3 DEF RemovalTypeOK, drainVars
  <1>5. Accounted'
    BY <1>1 DEF Accounted, Named, drainVars
  <1>6. LateOnly'
    <2>1. CASE StartUse(k)
      BY <1>2, <2>1 DEF StartUse, LateOnly
    <2>2. CASE EndUse(k)
      BY <1>2, <2>2 DEF EndUse, LateOnly
    <2>3. CASE LookAtUse(k)
      BY <1>2, <2>3 DEF LookAtUse, LateOnly, Refused
    <2>4. CASE DeleteStorage(k)
      BY <1>2, <2>4 DEF DeleteStorage, LateOnly
    <2> QED BY <2>1, <2>2, <2>3, <2>4
  <1> QED BY <1>4, <1>5, <1>6

THEOREM RemovalInvariant == RemovalSpec => []DrainInv
  <1>1. DrainInv /\ UNCHANGED removalVars => DrainInv'
    BY DEF removalVars, DrainInv, RemovalTypeOK, Accounted, Named, LateOnly
  <1>2. DrainInv /\ NodeNext => DrainInv'
    BY SchedulerKeeps, CordonKeeps, ListPodsKeeps, EvictKeeps, AnswerKeeps DEF NodeNext
  <1>3. DrainInv /\ StorageNext => DrainInv'
    BY StorageKeeps DEF StorageNext
  <1> QED BY <1>1, <1>2, <1>3, RemovalStarts, PTL DEF RemovalSpec, RemovalNext

---------------------------------------------------------------------------
\* Whatever is scheduled, evicted, finished or uncordoned while drain_node
\* walks its list, its answer accounts for every pod that is still there.
THEOREM DrainsAccount == RemovalSpec => []DrainAccounts
  <1>1. DrainInv => DrainAccounts
    BY DEF DrainInv, Accounted, Named, DrainAccounts
  <1> QED BY <1>1, RemovalInvariant, PTL

\* delete_pvc and delete_pv take storage from a user only if that user came
\* after they had looked.
THEOREM OnlyLateUsersLose == RemovalSpec => []LostOnlyIfTakenLate
  <1>1. DrainInv => LostOnlyIfTakenLate
    BY DEF DrainInv, LateOnly, LostOnlyIfTakenLate
  <1> QED BY <1>1, RemovalInvariant, PTL

(***************************************************************************)
(* Opening the database, for every schema, every version it was born at    *)
(* and any number of crashes between its statements.                       *)
(***************************************************************************)
Starting == {"creating", "migrating"}

\* What the version promises of the file, and what a run of statements still
\* owes: the objects it has not come to are all that may be missing.
Owed ==
    /\ file.version \in 1 .. Current => Of(file.version) \subseteq file.objects
    /\ boot.stage \in Starting => 1 .. Objects \subseteq file.objects \cup boot.todo
    /\ boot.stage = "serving" => file.objects = 1 .. Objects
    /\ ~fresh => 1 \in file.objects /\ file.version # NoVersion
    /\ ~fresh => boot.stage # "creating"
    /\ boot.stage = "refused" /\ ~fresh => boot.why \in {"newer", "failed"}

BootInv == BootTypeOK /\ Owed

USE SchemaAssumption

---------------------------------------------------------------------------
\* A nonempty set of statements has a first one.
LEMMA FirstIsOne ==
    ASSUME NEW s \in SUBSET (1 .. Objects), s # {}
    PROVE  First(s) \in s
  <1>1. s \subseteq Nat
    OBVIOUS
  <1>2. PICK m \in s : \A k \in s : <<k, m>> \notin OpToRel(<, Nat)
    BY <1>1, NatLessThanWellFounded, WFMin, Zenon
  <1>3. \A k \in s : ~(k < m)
    BY <1>1, <1>2, Zenon DEF OpToRel
  <1>4. \A k \in s : m <= k
    BY <1>1, <1>3
  <1> QED BY <1>4 DEF First

LEMMA BootTypes ==
    /\ BootInv /\ boot.stage = "off" => boot = Off
    /\ BootInv /\ boot.stage \in Starting => boot.todo \in SUBSET (1 .. Objects)
  BY DEF BootInv, BootTypeOK, Off, Starting

\* A file as some version of the server left it, and no process.
LEMMA BootStarts == BootInit => BootInv
  <1> SUFFICES ASSUME BootInit PROVE BootInv
    OBVIOUS
  <1>1. PICK v \in 0 .. Current + 1 :
            /\ file = [objects |-> IF v = 0 THEN {} ELSE Of(v), version |-> v]
            /\ fresh = (v = 0)
    BY DEF BootInit
  <1>2. Of(v) \subseteq 1 .. Objects
    BY DEF Of
  <1>3. ASSUME v # 0 PROVE 1 \in Of(v)
    BY <1>3 DEF Of, Current
  <1>4. BootTypeOK
    BY <1>1, <1>2 DEF BootTypeOK, BootInit, Off
  <1>5. file.version = v /\ (v # 0 => file.objects = Of(v))
    BY <1>1
  <1>6. ~fresh => v # 0
    BY <1>1
  <1>7. boot.stage = "off"
    BY DEF BootInit, Off
  <1>8. Owed
    BY <1>3, <1>5, <1>6, <1>7 DEF Owed, Starting, NoVersion, Current
  <1> QED BY <1>4, <1>8 DEF BootInv

---------------------------------------------------------------------------
LEMMA OpenFileKeeps == BootInv /\ OpenFile => BootInv'
  <1> SUFFICES ASSUME BootInv, OpenFile PROVE BootInv'
    OBVIOUS
  <1>1. UNCHANGED <<file, fresh>>
    BY DEF OpenFile
  <1>2. CASE 1 \notin file.objects /\ boot' = [stage |-> "creating", todo |-> 1 .. Objects]
    BY <1>1, <1>2 DEF BootInv, BootTypeOK, Owed, Starting
  <1>3. CASE 1 \in file.objects /\ file.version = NoVersion /\ Refuse("unreadable")
    BY <1>1, <1>3 DEF BootInv, BootTypeOK, Owed, Starting, Refuse
  <1>4. CASE file.version > Current /\ Refuse("newer")
    BY <1>1, <1>4 DEF BootInv, BootTypeOK, Owed, Starting, Refuse
  <1>5. CASE /\ file.version \in 1 .. Current
             /\ boot' = [stage |-> "migrating",
                         todo |-> {o \in 1 .. Objects : Born[o] > file.version}]
    <2>1. 1 .. Objects \subseteq Of(file.version) \cup boot'.todo
      BY <1>5 DEF Of, Current
    <2>2. BootTypeOK'
      BY <1>1, <1>5 DEF BootInv, BootTypeOK
    <2> QED BY <1>1, <1>5, <2>1, <2>2 DEF BootInv, Owed, Starting
  <1> QED BY <1>2, <1>3, <1>4, <1>5 DEF OpenFile

LEMMA CreateKeeps == BootInv /\ Create => BootInv'
  <1> SUFFICES ASSUME BootInv, Create PROVE BootInv'
    OBVIOUS
  <1> DEFINE o == First(boot.todo)
  <1>1. boot.stage \in Starting /\ boot.todo # {} /\ UNCHANGED fresh
    BY DEF Create, Starting
  <1>2. boot \in [stage : Starting, todo : SUBSET (1 .. Objects)]
    BY <1>1 DEF BootInv, BootTypeOK, Off, Starting
  <1>3. o \in boot.todo
    BY <1>1, <1>2, FirstIsOne
  <1>4. CASE o \in file.objects /\ ~Tolerated(o)
    <2>1. Refuse("exists") /\ UNCHANGED file
      BY <1>4 DEF Create
    <2>2. boot.stage = "creating"
      BY <1>1, <1>4 DEF Tolerated, Starting
    <2> QED BY <1>1, <2>1, <2>2 DEF BootInv, BootTypeOK, Owed, Refuse, Starting
  <1>5. CASE ~(o \in file.objects /\ ~Tolerated(o))
    <2> HIDE DEF o
    <2>1. /\ file' = [file EXCEPT !.objects = @ \cup {o}]
          /\ boot' = [boot EXCEPT !.todo = @ \ {o}]
      BY <1>5 DEF Create, o
    <2>2. file \in [objects : SUBSET (1 .. Objects), version : 0 .. Current + 1]
      BY DEF BootInv, BootTypeOK
    <2>3. /\ file'.objects = file.objects \cup {o}
          /\ file'.version = file.version
          /\ boot'.stage = boot.stage
          /\ boot'.todo = boot.todo \ {o}
      BY <1>2, <2>1, <2>2
    <2>4. o \in 1 .. Objects
      BY <1>2, <1>3
    <2>5. BootTypeOK'
      <3>1. file' \in [objects : SUBSET (1 .. Objects), version : 0 .. Current + 1]
        BY <2>1, <2>2, <2>4
      <3>2. boot' \in [stage : Starting, todo : SUBSET (1 .. Objects)]
        BY <1>2, <2>1
      <3> QED BY <1>1, <3>1, <3>2 DEF BootInv, BootTypeOK, Starting
    <2>6. Owed'
      BY <1>1, <2>3 DEF BootInv, Owed, Starting, Of
    <2> QED BY <2>5, <2>6 DEF BootInv
  <1> QED BY <1>4, <1>5

LEMMA SetVersionKeeps == BootInv /\ SetVersion => BootInv'
  <1> SUFFICES ASSUME BootInv, SetVersion PROVE BootInv'
    OBVIOUS
  <1>1. file \in [objects : SUBSET (1 .. Objects), version : 0 .. Current + 1]
    BY DEF BootInv, BootTypeOK
  <1>2. /\ file' = [file EXCEPT !.version = Current]
        /\ boot' = [stage |-> "serving"]
        /\ UNCHANGED fresh
    BY DEF SetVersion
  <1>3. file'.objects = file.objects /\ file'.version = Current
    BY <1>1, <1>2
  <1>4. file.objects = 1 .. Objects
    BY <1>1 DEF SetVersion, Ready, BootInv, Owed, Starting
  <1>5. BootTypeOK'
    BY <1>1, <1>2 DEF BootInv, BootTypeOK, Current
  <1>6. Of(Current) \subseteq 1 .. Objects
    BY DEF Of
  <1> QED BY <1>2, <1>3, <1>4, <1>5, <1>6 DEF BootInv, Owed, Starting, NoVersion, Current

\* A process that ends leaves the file as it is.
LEMMA EndKeeps == BootInv /\ (StatementFails \/ Die) => BootInv'
  <1> SUFFICES ASSUME BootInv, StatementFails \/ Die PROVE BootInv'
    OBVIOUS
  <1>1. /\ UNCHANGED <<file, fresh>>
        /\ boot' \in {Off, [stage |-> "refused", why |-> "failed"]}
    BY DEF StatementFails, Die, Refuse
  <1> QED BY <1>1 DEF BootInv, BootTypeOK, Owed, Starting, Off

THEOREM BootInvariant == BootSpec => []BootInv
  <1>1. BootInv /\ UNCHANGED bootVars => BootInv'
    BY DEF bootVars, BootInv, BootTypeOK, Owed
  <1>2. BootInv /\ [BootNext]_bootVars => BootInv'
    BY <1>1, OpenFileKeeps, CreateKeeps, SetVersionKeeps, EndKeeps DEF BootNext
  <1> QED BY <1>2, BootStarts, PTL DEF BootSpec

---------------------------------------------------------------------------
\* Whatever the schema, and however often the process died while it created
\* or upgraded the file, a process that serves has every table and index
\* (ensure_schema).
THEOREM SchemaIsComplete == BootSpec => []ServesComplete
  <1>1. BootInv => ServesComplete
    BY DEF BootInv, Owed, ServesComplete
  <1> QED BY <1>1, BootInvariant, PTL

\* A file born at an older version is never refused because of a crash
\* between a migration and the version bump (the comment in ensure_schema).
THEOREM UpgradeIsResumed == BootSpec => []UpgradeSurvivesCrash
  <1>1. BootInv => UpgradeSurvivesCrash
    BY DEF BootInv, Owed, UpgradeSurvivesCrash
  <1> QED BY <1>1, BootInvariant, PTL

(***************************************************************************)
(* The parts together.                                                     *)
(***************************************************************************)
\* Side by side, no part of the server ever leaves its types.
THEOREM ServerTypes == ServerSpec => []ServerTypeOK
<1>1. EditInv /\ ForceInv /\ DrainInv /\ HpaInv /\ BootInv => ServerTypeOK
  BY DEF EditInv, ForceInv, DrainInv, HpaInv, BootInv, ServerTypeOK
<1> QED
  BY <1>1, EditInvariant, NsInvariant, RemovalInvariant, HpaInvariant, BootInvariant, PTL
     DEF ServerSpec
=============================================================================
