---------------------------- MODULE ClusterEdits ----------------------------
(***************************************************************************)
(* Edits of one cluster object by several people at a time: the YAML       *)
(* editor, scaling and restarting (src-tauri/src/main.rs), the edits of    *)
(* the Argo screen (argo.rs), the keys of the configuration screen         *)
(* (configuration.rs) and the mode of a Kyverno policy (kyverno.rs).       *)
(*                                                                         *)
(* The API server is external: a replace that carries a resourceVersion    *)
(* fails unless it is the current one, a merge patch writes the fields it  *)
(* names.  Somebody else (kubectl, a controller) writes whenever it likes. *)
(***************************************************************************)
EXTENDS Naturals

CONSTANTS
    Editors,
    Values,     \* what a field may hold
    Absent,     \* a key, request or image that is not there
    Listed,     \* a CronWorkflow with a list of schedules
    MaxVersion  \* bound: writes of the object that are followed

ASSUME EditsAssumption ==
    /\ MaxVersion \in Nat \ {0}
    /\ {Absent, Listed} \cap Values = {}

Kinds == {"Deployment", "CronWorkflow", "ConfigMap", "Policy"}

Fields ==
    [Deployment   |-> {"template", "replicas"},
     CronWorkflow |-> {"image", "request", "limit", "schedule", "suspend"},
     ConfigMap    |-> {"key1", "key2"},
     Policy       |-> {"action", "rules"}]

\* What set_image_in, set_resources_in and set_schedule_in compare and write.
Slots == {{"image"}, {"request", "limit"}, {"schedule"}}

\* What scale_workload, restart_workload, set_cron_suspend, write_*_key and
\* delete_key write, by a merge patch that looks at nothing.
Patched ==
    [Deployment   |-> Fields.Deployment,
     CronWorkflow |-> {"suspend"},
     ConfigMap    |-> Fields.ConfigMap,
     Policy       |-> {}]

Optional == {"image", "request", "limit", "key1", "key2"}
Legal(f) == IF f \in Optional THEN Values \cup {Absent} ELSE Values
Foreigns(f) == Legal(f) \cup (IF f = "schedule" THEN {Listed} ELSE {})

Contents(k) == [Fields[k] -> Values \cup {Absent, Listed}]

VARIABLES
    kind,   \* the object that is followed
    object, \* [version, alive, fields], as the API server has it
    edit,   \* edit[e]: an editor's screen, or its request after the read
    last    \* history: the write that made object what it is

editVars == <<kind, object, edit, last>>

Closed == [stage |-> "closed"]
Screen(o) == [stage |-> "open", seen |-> o.fields, version |-> o.version]

Others == [by |-> "others"]

EditInit ==
    /\ kind \in Kinds
    /\ \E v \in Values :
          object = [version |-> 1, alive |-> TRUE,
                    fields |-> [f \in Fields[kind] |-> v]]
    /\ edit = [e \in Editors |-> Closed]
    /\ last = Others

\* The server takes a write.
Write(fields) ==
    /\ object.version < MaxVersion
    /\ object' = [object EXCEPT !.version = @ + 1, !.fields = fields]

\* What an edit asked for, on what it had been shown, and what it replaced.
Note(op, asked, seen) ==
    last' = [by |-> op, asked |-> asked, seen |-> seen, before |-> object.fields]

Close(e) == edit' = [edit EXCEPT ![e] = Closed]

---------------------------------------------------------------------------
\* get_resource_yaml, or a row of a screen: what is edited from here on.
Open(e) ==
    /\ edit[e] = Closed /\ object.alive
    /\ edit' = [edit EXCEPT ![e] = Screen(object)]
    /\ UNCHANGED <<kind, object, last>>

\* replace_from_yaml: the whole document as loaded, one field changed.  A
\* document that lost its resourceVersion replaces whatever is there.
SaveYaml(e) ==
    /\ kind = "Deployment" /\ edit[e].stage = "open"
    /\ \E f \in Fields[kind], versioned \in BOOLEAN : \E v \in Legal(f) :
          IF object.alive /\ (versioned => edit[e].version = object.version)
            THEN /\ Write([edit[e].seen EXCEPT ![f] = v])
                 /\ Note(IF versioned THEN "yaml" ELSE "unversioned", {f}, edit[e].seen)
            ELSE UNCHANGED <<object, last>>
    /\ Close(e)
    /\ UNCHANGED kind

AsExpected_Faulty(slot, seen, now) == TRUE

\* The compare of set_image_in, set_resources_in and set_schedule_in.  The
\* last two refuse a container that is gone and a list of schedules.
AsExpected(slot, seen, now) ==
    /\ \A f \in slot : now[f] = seen[f]
    /\ slot \cap {"image", "request"} # {} => now["image"] # Absent
    /\ slot = {"schedule"} => now["schedule"] # Listed

\* set_image, set_resources, set_schedule: read fresh and verify.
ReadFresh(e) ==
    /\ kind = "CronWorkflow" /\ edit[e].stage = "open"
    /\ \E slot \in Slots : \E new \in [slot -> Values \cup {Absent}] :
          /\ \A f \in slot : new[f] \in Legal(f) /\ (f = "image" => new[f] # Absent)
          /\ edit' = [edit EXCEPT ![e] =
                IF object.alive /\ AsExpected(slot, @.seen, object.fields)
                  THEN [stage |-> "read", seen |-> @.seen, slot |-> slot,
                        version |-> object.version,
                        body |-> [f \in Fields.CronWorkflow |->
                                     IF f \in slot THEN new[f] ELSE object.fields[f]]]
                  ELSE Closed]
    /\ UNCHANGED <<kind, object, last>>

Unchanged_Faulty(e) == object.alive

\* Whether the resourceVersion the body carries is still the current one.
Unchanged(e) == object.alive /\ edit[e].version = object.version

\* ... and replace: 409 if somebody wrote in between.
Replace(e) ==
    /\ edit[e].stage = "read"
    /\ IF Unchanged(e)
         THEN Write(edit[e].body) /\ Note("argo", edit[e].slot, edit[e].seen)
         ELSE UNCHANGED <<object, last>>
    /\ Close(e)
    /\ UNCHANGED kind

\* set_policy_action: read and compare ...
ReadPolicy(e) ==
    /\ kind = "Policy" /\ edit[e].stage = "open"
    /\ \E v \in Values :
          /\ v # edit[e].seen["action"]
          /\ edit' = [edit EXCEPT ![e] =
                IF object.alive /\ object.fields["action"] = @.seen["action"]
                  THEN [stage |-> "compared", seen |-> @.seen, action |-> v]
                  ELSE Closed]
    /\ UNCHANGED <<kind, object, last>>

\* A merge patch of one field.
Merged(e, f, v) == [object.fields EXCEPT ![f] = v]

\* ... and a merge patch without a resourceVersion.
PatchPolicy(e) ==
    /\ edit[e].stage = "compared"
    /\ IF object.alive
         THEN /\ Write(Merged(e, "action", edit[e].action))
              /\ Note("policy", {"action"}, edit[e].seen)
         ELSE UNCHANGED <<object, last>>
    /\ Close(e)
    /\ UNCHANGED kind

\* scale, restart, suspend, write a key, delete a key.
PatchField(e) ==
    /\ edit[e].stage = "open"
    /\ \E f \in Patched[kind] : \E v \in Legal(f) :
          IF object.alive
            THEN Write(Merged(e, f, v)) /\ Note("patch", {f}, edit[e].seen)
            ELSE UNCHANGED <<object, last>>
    /\ Close(e)
    /\ UNCHANGED kind

\* delete_workload, delete_deployment, delete_workflow.
DeleteObject(e) ==
    /\ edit[e].stage = "open" /\ kind \in {"Deployment", "CronWorkflow"}
    /\ object' = [object EXCEPT !.alive = FALSE]
    /\ last' = Others
    /\ Close(e)
    /\ UNCHANGED kind

\* The client hangs up, or the screen is left.
Leave(e) ==
    /\ edit[e] # Closed
    /\ Close(e)
    /\ UNCHANGED <<kind, object, last>>

\* Somebody else writes a field, or creates the object again.
Foreign ==
    /\ IF object.alive
         THEN \E f \in Fields[kind] : \E v \in Foreigns(f) :
                 v # object.fields[f] /\ Write([object.fields EXCEPT ![f] = v])
         ELSE \E v \in Values :
                 /\ object.version < MaxVersion
                 /\ object' = [version |-> object.version + 1, alive |-> TRUE,
                               fields |-> [f \in Fields[kind] |-> v]]
    /\ last' = Others
    /\ UNCHANGED <<kind, edit>>

EditorStep(e) ==
    \/ Open(e)
    \/ SaveYaml(e)
    \/ ReadFresh(e)
    \/ Replace(e)
    \/ ReadPolicy(e)
    \/ PatchPolicy(e)
    \/ PatchField(e)
    \/ DeleteObject(e)
    \/ Leave(e)

EditNext == (\E e \in Editors : EditorStep(e)) \/ Foreign

EditSpec == EditInit /\ [][EditNext]_editVars

---------------------------------------------------------------------------
EditTypeOK ==
    /\ kind \in Kinds
    /\ object \in [version : 1 .. MaxVersion, alive : BOOLEAN, fields : Contents(kind)]
    /\ edit \in [Editors ->
          {Closed}
          \cup [stage : {"open"}, seen : Contents(kind), version : 1 .. MaxVersion]
          \cup [stage : {"read"}, seen : Contents(kind), slot : Slots,
                version : 1 .. MaxVersion, body : Contents(kind)]
          \cup [stage : {"compared"}, seen : Contents(kind), action : Values]]

Edited == last # Others

\* "A merge patch touching a single key is used rather than a whole-object
\* write, so a concurrent change to a different key ... is not silently
\* reverted", and the same of every edit that replaces the whole object: what
\* an edit was not asked to change stays as it was the moment it was written,
\* whoever wrote since the edit read it.  A document saved without its
\* resourceVersion is the exception.
OthersKept ==
    Edited /\ last.by # "unversioned" =>
        \A f \in Fields[kind] \ last.asked : object.fields[f] = last.before[f]

\* "only if what is there now is what the caller saw": an edit that carries
\* what its author was shown replaces that and nothing else.
SeenReplaced ==
    Edited /\ last.by \in {"yaml", "argo"} =>
        \A f \in last.asked : last.before[f] = last.seen[f]

\* "a policy that changed underneath is refused ... never silently
\* overwritten" (set_policy_action).
PolicyNotOverwritten ==
    Edited /\ last.by = "policy" => last.before["action"] = last.seen["action"]
=============================================================================
